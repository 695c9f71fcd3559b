------------------------- MODULE MCRuntimeLifecycle -------------------------
(* The instances of RuntimeLifecycle that TLC checks: see the .cfg files. *)
EXTENDS RuntimeLifecycle
=============================================================================
