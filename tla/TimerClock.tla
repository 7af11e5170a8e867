----------------------------- MODULE TimerClock ------------------------------
(***************************************************************************)
(* The test of stupid_timer.c whether a timer is due.  The microsecond     *)
(* clock has WIDTH bits, 32 in the code, and wraps after 71 minutes.  An   *)
(* interrupt may attach a timer after timer_poll has read the clock, so    *)
(* that the last tick lies a little after now.                             *)
(***************************************************************************)
EXTENDS Integers

CONSTANTS Period,  \* 2^32: the clock counts from 0 to Period - 1
          Slack    \* 1000000

ASSUME ClockAssumption == Period \in Nat /\ Slack \in Nat /\ Slack < Period

(* Slip: a later last tick is not looked for. *)
DueUnguarded(tnow, last_tick, microsec_interval) ==
  (tnow - last_tick) % Period > microsec_interval

Due(tnow, last_tick, microsec_interval) ==
  /\ (tnow - last_tick) % Period > microsec_interval
  /\ tnow > last_tick \/ (tnow < last_tick /\ last_tick - tnow > Slack)

(* The clock after some time has passed, or before, if it is negative. *)
After(last_tick, elapsed) == (last_tick + elapsed) % Period

(* A timer is due when its interval has passed and not before, across a    *)
(* wrap of the clock as well, and never because the clock was read before  *)
(* the timer was attached: unless the clock wrapped between the two.       *)
DueInTime(last_tick, elapsed, microsec_interval) ==
  \/ last_tick + elapsed < 0
  \/ Due(After(last_tick, elapsed), last_tick, microsec_interval)
       <=> elapsed > microsec_interval
=============================================================================
