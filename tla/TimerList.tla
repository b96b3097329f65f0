------------------------------- MODULE TimerList -------------------------------
(***************************************************************************)
(* The timers under names of their own, so that they can stand beside the  *)
(* drivers and the processes that set them.                                *)
(***************************************************************************)
EXTENDS Integers, Sequences

CONSTANTS TimerTicks, TIME_REQUESTS

VARIABLE tm

TM == INSTANCE Timers WITH Ticks <- TimerTicks

ASSUME TimerListAssumption == TM!TimersAssumption

TimerSpec == TM!Init /\ [][TM!Next]_tm

(* Timers: no timer is called early, and none is late by more than the ticks of the timers
   set after it while it waited. *)
TimersInBounds == TM!TimersInBounds
=============================================================================
