---------------------------- MODULE MCScheduler ----------------------------
(****************************************************************************)
(* Small instances of Scheduler.                                            *)
(****************************************************************************)
EXTENDS Scheduler

CONSTANTS m1, m2

OneUnit == [a \in 1..MaxAttempts |-> 1]
=============================================================================
