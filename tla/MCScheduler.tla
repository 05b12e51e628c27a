---------------------------- MODULE MCScheduler ----------------------------
(* Instances of Scheduler for TLC.  Priorities are small stand-ins: 0 and  *)
(* 1 are ordinary, 2 is the idle priority and 3 stands for 0xFFFFFFFF.     *)
EXTENDS Scheduler

const_Priorities == {0, 1, 3}
=============================================================================
