---------------------------- MODULE GrayQueueOps ----------------------------
(***************************************************************************)
(* The gray queue as its users see it: a bounded sequence of entries in    *)
(* the order in which producers claimed their places.  An entry becomes    *)
(* visible to the consumer only when its producer has published it, and    *)
(* the consumer never skips an unpublished entry: one claimed-but-         *)
(* unpublished entry hides every entry behind it.                          *)
(***************************************************************************)
EXTENDS Naturals, Sequences

Entry(p, u) == [unit |-> u, by |-> p, ready |-> FALSE]

HasRoom(q, capacity) == Len(q) < capacity

Claimed(q, p, u) == Append(q, Entry(p, u))

Unpublished(q, p) == \E i \in DOMAIN q : q[i].by = p /\ ~q[i].ready

Published(q, p) ==
    [i \in DOMAIN q |-> IF q[i].by = p THEN [q[i] EXCEPT !.ready = TRUE] ELSE q[i]]

HeadReady(q) == q # << >> /\ Head(q).ready

=============================================================================
