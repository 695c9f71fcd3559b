------------------------------ MODULE GrayQueue ------------------------------
(***************************************************************************)
(* What MpscGrayQueue promises: every claimed unit is handed to the        *)
(* consumer exactly once, in claim order, after it has been published, and *)
(* a claim succeeds only while fewer than Capacity units are in the queue. *)
(* A try_enqueue that fails, and a drain that finds nothing, change        *)
(* nothing.                                                                *)
(***************************************************************************)
EXTENDS GrayQueueOps

CONSTANTS Producers, Units, Capacity

VARIABLES
    q,      \* entries claimed and not yet released by the consumer
    taken   \* units handed to the consumer, oldest first

vars == <<q, taken>>

Init == q = << >> /\ taken = << >>

Claim(p, u) ==
    /\ HasRoom(q, Capacity)
    /\ ~Unpublished(q, p)
    /\ q' = Claimed(q, p, u)
    /\ UNCHANGED taken

Publish(p) ==
    /\ Unpublished(q, p)
    /\ q' = Published(q, p)
    /\ UNCHANGED taken

Take ==
    /\ HeadReady(q)
    /\ q' = Tail(q)
    /\ taken' = Append(taken, Head(q).unit)

Next ==
    \/ \E p \in Producers, u \in Units : Claim(p, u)
    \/ \E p \in Producers : Publish(p)
    \/ Take

Spec == Init /\ [][Next]_vars

=============================================================================
