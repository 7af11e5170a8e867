------------------------------ MODULE KeyRepeat ------------------------------
(***************************************************************************)
(* The software timers of stupid_timer.c and the two users they have once  *)
(* the terminal runs: the heartbeat LED of pigfx.c and the key repeat of   *)
(* the USB keyboard driver.  timer_poll and the timer handlers run in the  *)
(* main loop; a keyboard report is handled in the USB interrupt, which may *)
(* come between any two accesses of the main loop and runs to its end.     *)
(*                                                                         *)
(* A step of the main loop is one access to shared state; pc names the     *)
(* next one.  Windows says at which of them the interrupt may come: the    *)
(* driver takes no measure against any, and the runs show at which it      *)
(* matters.                                                                *)
(***************************************************************************)
EXTENDS Integers, Sequences

CONSTANTS
  N_TIMERS,   \* slots of the table, 20 in the code
  Keys,       \* the physical keys
  Printing,   \* those that send a string
  Windows,    \* values of pc at which the interrupt may come
  None        \* no key, no handler

Handlers == {"repeat", "heartbeat"}
Points == {"poll", "fetch", "call", "cancel", "clear", "find", "store", "assign"}

ASSUME KeyRepeatAssumption ==
  /\ N_TIMERS \in Nat \ {0}
  /\ Printing \subseteq Keys /\ None \notin Keys \cup Handlers
  /\ Windows \subseteq Points

VARIABLES
  timers,     \* [slot -> [handler, param, due]]
  pc, hnd,    \* where the main loop is, and the slot timer_poll is at
  running,    \* the timer being handled: [handler, param]
  found,      \* the free slot attach_timer_handler has found for it
  report,     \* m_pReportBuffer: the keys that are down, the newest last
  last,       \* m_pLastPhyCodes: the keys of the report before
  hTimer,     \* m_hTimer, 0 when no repeat runs
  repeating   \* m_ucRepeatingKey

main  == <<pc, hnd, running, found>>
board == <<report, last, repeating>>
vars  == <<timers, main, board, hTimer>>

Slots == 1 .. N_TIMERS
Idle  == [handler |-> None, param |-> None]
Timer == [handler : Handlers \cup {None}, param : Keys \cup {None}, due : BOOLEAN]
Reports == {<<>>} \cup {<<k>> : k \in Keys}
             \cup {r \in Keys \X Keys : r[1] # r[2]}

TypeOK ==
  /\ timers \in [Slots -> Timer]
  /\ pc \in Points \cup {"null_call", "assertion_failed"}
  /\ hnd \in Slots /\ found \in 0 .. N_TIMERS /\ hTimer \in 0 .. N_TIMERS
  /\ running \in [handler : Handlers \cup {None}, param : Keys \cup {None}]
  /\ report \in Reports /\ last \subseteq Keys
  /\ repeating \in Keys \cup {None}

-----------------------------------------------------------------------------
(* The table. *)
Free(table) == {s \in Slots : table[s].handler = None}

(* The lowest free slot, 0 when there is none. *)
FirstFree(table) ==
  IF Free(table) = {} THEN 0
  ELSE CHOOSE s \in Free(table) : \A t \in Free(table) : s <= t

Attached(table, s, timer) ==
  [table EXCEPT ![s] = [handler |-> timer.handler, param |-> timer.param, due |-> FALSE]]

(* Slip: the handle taken for the index it is one more than. *)
DetachByHandle(table, s) ==
  IF s - 1 \in Slots THEN [table EXCEPT ![s - 1].handler = None] ELSE table

detach_timer_handler(table, s) ==
  IF s \in Slots THEN [table EXCEPT ![s].handler = None] ELSE table

Init ==
  /\ timers = Attached([s \in Slots |-> [handler |-> None, param |-> None, due |-> FALSE]],
                       1, [handler |-> "heartbeat", param |-> None])
  /\ pc = "poll" /\ hnd = 1 /\ running = Idle /\ found = 0
  /\ report = <<>> /\ last = {}
  /\ hTimer = 0 /\ repeating = None

(* The interval of a timer passes. *)
Elapse(s) ==
  /\ timers[s].handler # None /\ ~timers[s].due
  /\ timers' = [timers EXCEPT ![s].due = TRUE]
  /\ UNCHANGED <<main, board, hTimer>>

-----------------------------------------------------------------------------
(* The main loop. *)
NextSlot == hnd' = (hnd % N_TIMERS) + 1

(* timer_poll looks at a slot. *)
Poll ==
  /\ pc = "poll"
  /\ IF timers[hnd].handler # None /\ timers[hnd].due
     THEN pc' = "fetch" /\ UNCHANGED hnd
     ELSE NextSlot /\ UNCHANGED pc
  /\ UNCHANGED <<timers, running, found, board, hTimer>>

(* It reads the handler again and frees the slot. *)
Fetch ==
  /\ pc = "fetch"
  /\ running' = [running EXCEPT !.handler = timers[hnd].handler]
  /\ timers' = [timers EXCEPT ![hnd].handler = None]
  /\ pc' = "call"
  /\ UNCHANGED <<hnd, found, board, hTimer>>

(* It reads the handler's arguments and jumps to it. *)
Call ==
  /\ pc = "call"
  /\ running' = [running EXCEPT !.param = timers[hnd].param]
  /\ pc' = CASE running.handler = "repeat"    -> "cancel"
             [] running.handler = "heartbeat" -> "find"
             [] OTHER                         -> "null_call"
  /\ UNCHANGED <<timers, hnd, found, board, hTimer>>

(* USBKeyboardDeviceTimerHandler: the handle is cancelled once more, ...   *)
Cancel ==
  /\ pc = "cancel"
  /\ timers' = detach_timer_handler(timers, hnd)
  /\ pc' = "clear"
  /\ UNCHANGED <<hnd, running, found, board, hTimer>>

(* ... forgotten, and the key sent; *)
Clear ==
  /\ pc = "clear"
  /\ hTimer' = 0
  /\ pc' = "find"
  /\ UNCHANGED <<timers, hnd, running, found, board>>

(* attach_timer_handler finds a slot, in both handlers, ...                *)
Find ==
  /\ pc = "find"
  /\ found' = FirstFree(timers)
  /\ pc' = IF FirstFree(timers) # 0 THEN "store"
           ELSE IF running.handler = "repeat" THEN "assertion_failed" ELSE "poll"
  /\ IF pc' = "poll" THEN NextSlot /\ running' = Idle ELSE UNCHANGED <<hnd, running>>
  /\ UNCHANGED <<timers, board, hTimer>>

(* Slip: a repeat is not rearmed. *)
StoreHeartbeatOnly ==
  /\ pc = "store"
  /\ timers' = IF running.handler = "repeat" THEN timers ELSE Attached(timers, found, running)
  /\ pc' = "poll" /\ NextSlot /\ running' = Idle
  /\ UNCHANGED <<found, board, hTimer>>

(* ... takes it, and returns the handle. *)
Store ==
  /\ pc = "store"
  /\ timers' = Attached(timers, found, running)
  /\ pc' = IF running.handler = "repeat" THEN "assign" ELSE "poll"
  /\ IF running.handler = "repeat" THEN UNCHANGED <<hnd, running>>
                                   ELSE NextSlot /\ running' = Idle
  /\ UNCHANGED <<found, board, hTimer>>

(* Slip: the new handle is not kept. *)
AssignNothing ==
  /\ pc = "assign"
  /\ pc' = "poll" /\ NextSlot /\ running' = Idle
  /\ UNCHANGED <<timers, found, board, hTimer>>

Assign ==
  /\ pc = "assign"
  /\ hTimer' = found
  /\ pc' = "poll" /\ NextSlot /\ running' = Idle
  /\ UNCHANGED <<timers, found, board>>

Main == Poll \/ Fetch \/ Call \/ Cancel \/ Clear \/ Find \/ Store \/ Assign

-----------------------------------------------------------------------------
(* USBKeyboardDeviceCompletionRoutine, in the interrupt. *)
KeyCode(r) == IF r = <<>> THEN None ELSE r[Len(r)]
Down(r) == {r[i] : i \in 1 .. Len(r)}

(* Slip: only the release of every key stops a repeat. *)
StopsOnReleaseOnly(key) == key = None /\ hTimer # 0

Stops(key) == (key = None \/ key # repeating) /\ hTimer # 0

Pressed(key) == key # None /\ key \notin last

Report(r) ==
  LET key    == KeyCode(r)
      calm   == IF Stops(key) THEN detach_timer_handler(timers, hTimer) ELSE timers
      handle == IF Stops(key) THEN 0 ELSE hTimer
      again  == detach_timer_handler(calm, handle)
      slot   == FirstFree(again)
      starts == Pressed(key) /\ key \in Printing
  IN  /\ pc \in Windows
      /\ report' = r /\ last' = Down(r)
      /\ timers' = IF starts /\ slot # 0
                   THEN Attached(again, slot, [handler |-> "repeat", param |-> key])
                   ELSE IF Pressed(key) THEN again ELSE calm
      /\ hTimer' = IF starts THEN slot ELSE IF Pressed(key) THEN 0 ELSE handle
      /\ repeating' = IF starts THEN key ELSE IF Stops(key) THEN None ELSE repeating
      /\ pc' = IF starts /\ slot = 0 THEN "assertion_failed" ELSE pc
      /\ UNCHANGED <<hnd, running, found>>

Next == Main \/ (\E s \in Slots : Elapse(s)) \/ (\E r \in Reports : Report(r))

Spec == Init /\ [][Next]_vars

(* The main loop goes on, and time passes for every timer. *)
FairSpec == Spec /\ WF_vars(Main) /\ \A s \in Slots : WF_vars(Elapse(s))

-----------------------------------------------------------------------------
(* Properties. *)

Armed(handler) == {s \in Slots : timers[s].handler = handler}

(* Neither a call through a null handler nor a failed assertion, and every *)
(* variable of its type: the handle kept is that of a slot or none.        *)
Survives == TypeOK /\ pc \in Points

(* A key repeats only while it is the newest of the keys held down: when   *)
(* it is released, or another pressed, no timer of it is left running.     *)
RepeatsOnlyHeld ==
  pc = "poll" => \A s \in Armed("repeat") : timers[s].param = KeyCode(report)

(* There is never more than one repeat, and m_hTimer is its handle. *)
OneRepeat == pc = "poll" => Armed("repeat") = IF hTimer = 0 THEN {} ELSE {hTimer}

(* The LED goes on blinking: no key event ever cancels the heartbeat.      *)
Heartbeat == []<>(running.handler = "heartbeat")

(* A printing key that stays down as the only one repeats for ever.        *)
HeldKeyRepeats ==
  \A k \in Printing :
    <>[](report = <<k>> /\ repeating = k) => []<>(running = [handler |-> "repeat", param |-> k])
=============================================================================
