-------------------------- MODULE MCPageLifecycle --------------------------
(* The instances of PageLifecycle that TLC checks: see the .cfg files. *)
EXTENDS PageLifecycle, TLC
=============================================================================
