---------------------------- MODULE MCWaitQueue ----------------------------
(* WaitQueue with three tasks that make one call each. *)
EXTENDS SleepQueue
=============================================================================
