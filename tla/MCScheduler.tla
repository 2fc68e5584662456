---------------------------- MODULE MCScheduler ----------------------------
(* Small instances of Scheduler for TLC. *)
EXTENDS Scheduler

CONSTANTS c0, c1, none

MC_OneCpu  == {c0}
MC_TwoCpus == {c0, c1}
=============================================================================
