---------------------------- MODULE MCTimerQueue ----------------------------
(* A small instance of TimerQueue for TLC.  A delay of 0 takes the raise of  *)
(* the interval to 1, a whole period of which a thread late by 1 misses; 2   *)
(* is not overrun.                                                           *)
EXTENDS TimerQueue

Delays == {0, 2}
=============================================================================
