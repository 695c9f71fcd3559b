---------------------------- MODULE MCGCTrigger -----------------------------
(* The instance of GCTrigger that TLC checks: see MCGCTrigger.cfg. *)
EXTENDS GCTrigger, TLC
=============================================================================
