----------------------------- MODULE MCScheduler ----------------------------
(***************************************************************************)
(* Two entries with different intervals: both due at the same instant, one *)
(* due while the other is, one added while the thread sleeps for the other. *)
(***************************************************************************)
EXTENDS Scheduler

CONSTANTS fast, slow

MCTasks == {fast, slow}
MCInterval == [t \in MCTasks |-> IF t = fast THEN 1 ELSE 2]
=============================================================================
