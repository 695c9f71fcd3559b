-------------------------- MODULE MCCollectedHeap --------------------------
(* The instance of CollectedHeap that TLC checks: see MCCollectedHeap.cfg. *)
EXTENDS CollectedHeap, TLC

ContextZero == [m \in Mutators |-> 0]
Symmetry == Permutations(Units \ (Unswept \cup RootUnits)) \cup Permutations(Mutators)

\* Once something reachable has been freed, the heap is not followed any further.
Unbroken == ~broken

\* Timings are only compared with the counter, which only grows by one, so states
\* that differ by the same amount in all of them are one.
Distance(t) == IF t = Old THEN Old ELSE (counter - t + RoundModulus) % RoundModulus
RelativeTiming ==
    <<[u \in Units |-> Distance(timing[u])], life, heapVars, op, flag, main_pc, done, todo, gray, history>>
=============================================================================
