-------------------------- MODULE MCWorkerBarrier ---------------------------
(* The instance of WorkerBarrier that TLC checks: see MCWorkerBarrier.cfg. *)
EXTENDS WorkerBarrier, TLC
=============================================================================
