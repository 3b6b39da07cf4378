---------------------------- MODULE MCSignalEvent ----------------------------
(* SignalEvent for TLC: four signals are enough for one before, two during   *)
(* and one after a task.                                                     *)
EXTENDS SignalEvent
=============================================================================
