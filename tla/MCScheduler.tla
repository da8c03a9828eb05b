---------------------------- MODULE MCScheduler ----------------------------
(***************************************************************************)
(* Instances of Scheduler for TLC.                                         *)
(***************************************************************************)
EXTENDS Scheduler, TLC

CONSTANTS a, b,          \* pipelines; b is one of the demos
          hourly, daily, \* schedules with a job
          h1, h2, h3     \* handler threads

MCNames == {a, b}
MCDemoNames == {b}
MCTimed == {hourly, daily}
MCHandlers == {h1, h2, h3}
=============================================================================
