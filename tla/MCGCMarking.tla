---------------------------- MODULE MCGCMarking ----------------------------
EXTENDS GCMarking, TLC

CONSTANTS u1, u2, u3

\* A root with a child, and a unit that only a mutator or a callback can mark.
MCChildren == (u1 :> {u2}) @@ (u2 :> {}) @@ (u3 :> {})
MCRoots == {u1}
\* Every thread marks for worker 0, whose queue is then often full.
MCContext == [t \in Threads |-> 0]
MCSweepOwner == [u \in Units |-> IF u = u2 THEN WorkerCount - 1 ELSE 0]

\* The mutators mark for the same worker and are interchangeable.
Symmetry == Permutations(Mutators)

=============================================================================
