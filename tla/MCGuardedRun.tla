---------------------------- MODULE MCGuardedRun ----------------------------
(* Small instances of GuardedRun. *)
EXTENDS GuardedRun
=============================================================================
