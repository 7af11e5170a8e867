-------------------------- MODULE KeyRepeatProofs --------------------------
(***************************************************************************)
(* The key repeat, for every table of slots and every set of keys.         *)
(*                                                                         *)
(* Wherever the USB interrupt comes, there is one heartbeat at most, and   *)
(* an assertion of the driver fails only when repeats that nobody stops    *)
(* any more fill the table.  The rest is said of the runs of the program   *)
(* in which the interrupt happens to come while timer_poll looks for a     *)
(* timer that is due, to which nothing in the code keeps it: there the     *)
(* invariant follows the one repeat and the one heartbeat through the      *)
(* table, and which of them is armed depends on how far the main loop is   *)
(* with the timer it handles.                                              *)
(***************************************************************************)
EXTENDS KeyRepeat, FiniteSetTheorems, WellFoundedInduction, TLAPS

(* There is a slot for each user. *)
TwoSlots == N_TIMERS >= 2

Reported == \E r \in Reports : Report(r)

Beats == \E h \in Slots : Armed("heartbeat") = {h}
NoBeat == Armed("heartbeat") = {}

(* The handle is that of the only repeat, and it repeats the newest key. *)
Handled ==
  /\ Armed("repeat") = IF hTimer = 0 THEN {} ELSE {hTimer}
  /\ hTimer # 0 => timers[hTimer].param = repeating /\ repeating = KeyCode(report)

(* The repeat is out of the table while its handler runs. *)
Handling == /\ Armed("repeat") = {} /\ repeating = KeyCode(report)
Ours == running = [handler |-> "repeat", param |-> repeating]

Unarmed(s) == timers[s].handler = None

IInv ==
  /\ TypeOK
  /\ CASE pc = "poll"   -> Beats /\ Handled
       [] pc = "fetch"  -> Beats /\ Handled
       [] pc = "call"   ->
            /\ Unarmed(hnd)
            /\ \/ /\ running.handler = "repeat" /\ Beats /\ Handling
                  /\ timers[hnd].param = repeating
               \/ running.handler = "heartbeat" /\ NoBeat /\ Handled
               \/ running.handler = None
       [] pc = "cancel" -> Unarmed(hnd) /\ Beats /\ Handling /\ Ours
       [] pc = "clear"  -> Beats /\ Handling /\ Ours
       [] pc = "find"   -> \/ Beats /\ Handling /\ Ours /\ hTimer = 0
                           \/ running.handler = "heartbeat" /\ NoBeat /\ Handled
       [] pc = "store"  -> /\ found \in Slots /\ Unarmed(found)
                           /\ \/ Beats /\ Handling /\ Ours /\ hTimer = 0
                              \/ running.handler = "heartbeat" /\ NoBeat /\ Handled
       [] pc = "assign" -> /\ found \in Slots /\ Beats /\ Ours /\ Armed("repeat") = {found}
                           /\ timers[found].param = repeating /\ repeating = KeyCode(report)
       [] OTHER -> pc = "null_call"

-----------------------------------------------------------------------------
(* A set of numbers has a least one. *)
LEMMA LeastNatural ==
  ASSUME NEW T, T \subseteq Nat, T # {}
  PROVE  \E x \in T : \A y \in T : x <= y
<1> DEFINE Below(n) == 0 .. n - 1
           Initials == {Below(n) : n \in T}
           R == StrictSubsetOrdering(Nat)
           S == FiniteSubsetsOf(Nat)
<1>1. IsWellFoundedOn(R, S)
  BY FS_StrictSubsetOrderingWellFounded
<1>2. Initials \subseteq S
  <2>1. ASSUME NEW n \in T PROVE IsFiniteSet(Below(n)) /\ Below(n) \subseteq Nat
    BY FS_Interval
  <2>2. QED
    BY <2>1 DEF FiniteSubsetsOf
<1>3. Initials # {}
  OBVIOUS
<1> HIDE DEF Initials, R, S
<1>4. PICK I \in Initials : \A J \in Initials : ~(<<J, I>> \in R)
  BY <1>1, <1>2, <1>3, WFMin
<1>5. PICK x \in T : I = Below(x)
  BY <1>4 DEF Initials
<1>6. ASSUME NEW y \in T, y < x PROVE FALSE
  <2>1. Below(y) \in Initials
    BY DEF Initials
  <2>2. /\ Below(y) \subseteq Below(x) /\ Below(y) # Below(x)
        /\ Below(x) \in SUBSET Nat /\ Below(y) \in SUBSET Nat
    BY <1>6
  <2>3. QED
    BY <1>2, <1>4, <1>5, <2>1, <2>2 DEF R, S, StrictSubsetOrdering
<1>7. QED
  BY <1>6

LEMMA Constants ==
  /\ N_TIMERS \in Nat /\ N_TIMERS > 0 /\ None \notin Keys /\ None \notin Handlers
  /\ None # "repeat" /\ None # "heartbeat"
BY KeyRepeatAssumption DEF Handlers

(* The table. *)
LEMMA FirstFreeIsFree ==
  ASSUME NEW table
  PROVE  /\ Free(table) # {} => FirstFree(table) \in Free(table)
         /\ FirstFree(table) \in 0 .. N_TIMERS
         /\ FirstFree(table) # 0 => FirstFree(table) \in Slots
                                    /\ table[FirstFree(table)].handler = None
<1>1. Free(table) \subseteq Nat /\ Free(table) \subseteq Slots
  BY Constants DEF Free, Slots
<1>2. CASE Free(table) # {}
  <2>1. \E s \in Free(table) : \A t \in Free(table) : s <= t
    BY <1>1, <1>2, LeastNatural
  <2>2. FirstFree(table) \in Free(table)
    BY <1>2, <2>1 DEF FirstFree
  <2>3. QED
    BY <1>1, <2>2, Constants DEF Free, Slots
<1>3. CASE Free(table) = {}
  BY <1>3, Constants DEF FirstFree
<1>4. QED
  BY <1>2, <1>3

LEMMA AttachedAt ==
  ASSUME NEW table \in [Slots -> Timer], NEW s \in Slots,
         NEW timer \in [handler : Handlers \cup {None}, param : Keys \cup {None}]
  PROVE  LET new == Attached(table, s, timer)
         IN  /\ new \in [Slots -> Timer]
             /\ new[s].handler = timer.handler /\ new[s].param = timer.param
             /\ \A t \in Slots : t # s => new[t] = table[t]
BY DEF Attached, Timer

LEMMA DetachedAt ==
  ASSUME NEW table \in [Slots -> Timer], NEW s \in 0 .. N_TIMERS
  PROVE  LET new == detach_timer_handler(table, s)
         IN  /\ new \in [Slots -> Timer]
             /\ s # 0 => s \in Slots /\ new[s].handler = None
             /\ s = 0 => new = table
             /\ \A t \in Slots : t # s => new[t] = table[t]
<1>1. s \in Slots \/ s = 0
  BY Constants DEF Slots
<1>2. 0 \notin Slots
  BY Constants DEF Slots
<1>3. CASE s \in Slots
  BY <1>2, <1>3 DEF detach_timer_handler, Timer
<1>4. CASE s = 0
  BY <1>2, <1>4 DEF detach_timer_handler
<1>5. QED
  BY <1>1, <1>3, <1>4

(* With one timer armed at most there is a free slot. *)
LEMMA RoomForOne ==
  ASSUME TwoSlots, NEW table \in [Slots -> Timer], NEW u,
         \A s \in Slots : table[s].handler # None => s = u
  PROVE  FirstFree(table) \in Slots /\ table[FirstFree(table)].handler = None
<1>1. 1 \in Slots /\ 2 \in Slots
  BY Constants DEF TwoSlots, Slots
<1>2. 1 \in Free(table) \/ 2 \in Free(table)
  BY <1>1 DEF Free
<1>3. QED
  BY <1>2, FirstFreeIsFree DEF Free, Slots

LEMMA ReportType ==
  ASSUME NEW r \in Reports
  PROVE  KeyCode(r) \in Keys \cup {None} /\ Down(r) \subseteq Keys
<1>1. CASE r = <<>>
  <2>1. Len(r) = 0
    BY <1>1
  <2>2. QED
    BY <1>1, <2>1 DEF KeyCode, Down
<1>2. ASSUME NEW k \in Keys, r = <<k>> PROVE KeyCode(r) \in Keys /\ Down(r) \subseteq Keys
  BY <1>2 DEF KeyCode, Down
<1>3. ASSUME NEW k \in Keys, NEW l \in Keys, r = <<k, l>>
      PROVE  KeyCode(r) \in Keys /\ Down(r) \subseteq Keys
  BY <1>3 DEF KeyCode, Down
<1>4. r \in Keys \X Keys => r = <<r[1], r[2]>> /\ r[1] \in Keys /\ r[2] \in Keys
  OBVIOUS
<1>5. QED
  BY <1>1, <1>2, <1>3, <1>4 DEF Reports

-----------------------------------------------------------------------------
(* The steps of the main loop. *)
LEMMA ElapseStep ==
  ASSUME IInv, NEW s \in Slots, Elapse(s)
  PROVE  IInv'
<1>1. /\ timers \in [Slots -> Timer] /\ timers' = [timers EXCEPT ![s].due = TRUE]
      /\ UNCHANGED <<main, board, hTimer>>
  BY DEF IInv, TypeOK, Elapse
<1>2. /\ timers' \in [Slots -> Timer]
      /\ \A t \in Slots : timers'[t].handler = timers[t].handler
                          /\ timers'[t].param = timers[t].param
  BY <1>1 DEF Timer
<1>3. TypeOK'
  BY <1>1, <1>2 DEF IInv, TypeOK, main, board
<1>4. /\ Armed("repeat")' = Armed("repeat") /\ Armed("heartbeat")' = Armed("heartbeat")
  BY <1>2 DEF Armed
<1>5. /\ pc' = pc /\ hnd' = hnd /\ running' = running /\ found' = found
      /\ report' = report /\ repeating' = repeating /\ hTimer' = hTimer
      /\ hTimer \in 0 .. N_TIMERS /\ hnd \in Slots
  BY <1>1 DEF main, board, IInv, TypeOK
<1>6. hTimer # 0 => hTimer \in Slots
  BY <1>5, Constants DEF Slots
<1>7. Beats' = Beats /\ NoBeat' = NoBeat /\ Handled' = Handled /\ Handling' = Handling
      /\ Ours' = Ours
  BY <1>2, <1>4, <1>5, <1>6 DEF Beats, NoBeat, Handled, Handling, Ours
<1>8. \A t \in Slots : Unarmed(t)' = Unarmed(t)
  BY <1>2 DEF Unarmed
<1>9. QED
  BY <1>2, <1>3, <1>4, <1>5, <1>7, <1>8 DEF IInv, Unarmed

LEMMA PollStep ==
  ASSUME IInv, Poll
  PROVE  IInv'
<1>1. /\ TypeOK /\ Beats /\ Handled /\ hnd \in Slots
      /\ UNCHANGED <<timers, running, found, board, hTimer>>
      /\ \/ pc' = "fetch" /\ hnd' = hnd /\ timers[hnd].handler # None
         \/ pc' = "poll" /\ hnd' = (hnd % N_TIMERS) + 1
  BY DEF IInv, TypeOK, Poll, NextSlot
<1>2. hnd' \in Slots
  BY <1>1, Constants DEF Slots
<1>3. TypeOK'
  BY <1>1, <1>2 DEF TypeOK, board, Points
<1>4. Beats' /\ Handled'
  BY <1>1 DEF Beats, Handled, Armed, board
<1>5. QED
  BY <1>1, <1>3, <1>4 DEF IInv

LEMMA FetchStep ==
  ASSUME IInv, Fetch
  PROVE  IInv'
<1>1. /\ TypeOK /\ Beats /\ Handled /\ hnd \in Slots
      /\ running' = [running EXCEPT !.handler = timers[hnd].handler]
      /\ timers' = [timers EXCEPT ![hnd].handler = None]
      /\ pc' = "call" /\ UNCHANGED <<hnd, found, board, hTimer>>
  BY DEF IInv, TypeOK, Fetch
<1>2. /\ timers' \in [Slots -> Timer] /\ timers'[hnd].handler = None
      /\ timers'[hnd].param = timers[hnd].param
      /\ \A t \in Slots : t # hnd => timers'[t] = timers[t]
      /\ timers[hnd].handler \in Handlers \cup {None}
  BY <1>1 DEF TypeOK, Timer
<1>3. /\ running' \in [handler : Handlers \cup {None}, param : Keys \cup {None}]
      /\ running'.handler = timers[hnd].handler
  BY <1>1, <1>2 DEF TypeOK
<1>4. TypeOK'
  BY <1>1, <1>2, <1>3 DEF TypeOK, board, Points
<1>5. hTimer \in 0 .. N_TIMERS /\ (hTimer # 0 => hTimer \in Slots)
  BY <1>1, Constants DEF TypeOK, Slots
<1>6. CASE timers[hnd].handler = "repeat"
  <2>1. hTimer = hnd /\ repeating = KeyCode(report) /\ timers[hnd].param = repeating
    BY <1>1, <1>5, <1>6 DEF Handled, Armed
  <2>3. Armed("repeat")' = {}
    BY <1>1, <1>2, <1>5, <2>1, Constants DEF Handled, Armed
  <2>4. Beats'
    BY <1>1, <1>2, <1>6, Constants DEF Beats, Armed
  <2>5. QED
    BY <1>1, <1>2, <1>3, <1>4, <1>6, <2>1, <2>3, <2>4
       DEF IInv, Handling, Unarmed, board
<1>7. CASE timers[hnd].handler = "heartbeat"
  <2>1. NoBeat'
    BY <1>1, <1>2, <1>7, Constants DEF Beats, NoBeat, Armed
  <2>2. Armed("repeat")' = Armed("repeat") /\ hTimer # hnd
    <3>1. hTimer # hnd
      BY <1>1, <1>7, Constants DEF Armed, Handled, Slots
    <3>2. \A t \in Slots : timers'[t].handler = "repeat" <=> timers[t].handler = "repeat"
      BY <1>2, <1>7, Constants
    <3>3. QED
      BY <3>1, <3>2 DEF Armed
  <2>3. Handled'
    BY <1>1, <1>2, <1>5, <2>2 DEF Handled, board
  <2>4. QED
    BY <1>1, <1>2, <1>3, <1>4, <1>7, <2>1, <2>3 DEF IInv, Unarmed
<1>8. CASE timers[hnd].handler = None
  BY <1>1, <1>2, <1>3, <1>4, <1>8 DEF IInv, Unarmed
<1>9. QED
  BY <1>2, <1>6, <1>7, <1>8 DEF Handlers

LEMMA CallStep ==
  ASSUME IInv, Call
  PROVE  IInv'
<1>1. /\ TypeOK /\ hnd \in Slots /\ Unarmed(hnd)
      /\ running' = [running EXCEPT !.param = timers[hnd].param]
      /\ UNCHANGED <<timers, hnd, found, board, hTimer>>
  BY DEF IInv, TypeOK, Call
<1>2. /\ running' \in [handler : Handlers \cup {None}, param : Keys \cup {None}]
      /\ running'.handler = running.handler /\ running'.param = timers[hnd].param
  BY <1>1 DEF TypeOK, Timer
<1>3. CASE /\ running.handler = "repeat" /\ Beats /\ Handling
           /\ timers[hnd].param = repeating
  <2>1. pc' = "cancel"
    BY <1>3 DEF Call
  <2>2. TypeOK'
    BY <1>1, <1>2, <2>1 DEF TypeOK, board, Points
  <2>3. running' = [handler |-> "repeat", param |-> repeating]
    BY <1>1, <1>2, <1>3
  <2>4. QED
    BY <1>1, <1>3, <2>1, <2>2, <2>3, ZenonT(60)
       DEF IInv, Ours, Beats, Handling, Armed, Unarmed, board
<1>4. CASE running.handler = "heartbeat" /\ NoBeat /\ Handled
  <2>1. pc' = "find"
    BY <1>4 DEF Call
  <2>2. TypeOK'
    BY <1>1, <1>2, <2>1 DEF TypeOK, board, Points
  <2>3. QED
    BY <1>1, <1>2, <1>4, <2>1, <2>2 DEF IInv, NoBeat, Handled, Armed, board
<1>5. CASE running.handler = None
  <2>1. pc' = "null_call"
    BY <1>5, Constants DEF Call
  <2>2. TypeOK'
    BY <1>1, <1>2, <2>1 DEF TypeOK, board, Points
  <2>3. QED
    BY <2>1, <2>2 DEF IInv
<1>6. QED
  BY <1>3, <1>4, <1>5 DEF IInv, Call

LEMMA CancelStep ==
  ASSUME IInv, Cancel
  PROVE  IInv'
<1>1. /\ TypeOK /\ hnd \in Slots /\ Unarmed(hnd) /\ Beats /\ Handling /\ Ours
      /\ timers' = detach_timer_handler(timers, hnd)
      /\ pc' = "clear" /\ UNCHANGED <<hnd, running, found, board, hTimer>>
  BY DEF IInv, TypeOK, Cancel
<1>2. timers' = timers
  BY <1>1 DEF detach_timer_handler, Unarmed, TypeOK, Timer
<1>3. TypeOK'
  BY <1>1, <1>2 DEF TypeOK, board, Points
<1>4. QED
  BY <1>1, <1>2, <1>3 DEF IInv, Beats, Handling, Ours, Armed, board

LEMMA ClearStep ==
  ASSUME IInv, Clear
  PROVE  IInv'
<1>1. /\ TypeOK /\ Beats /\ Handling /\ Ours
      /\ hTimer' = 0 /\ pc' = "find" /\ UNCHANGED <<timers, hnd, running, found, board>>
  BY DEF IInv, Clear
<1>2. TypeOK'
  BY <1>1, Constants DEF TypeOK, board, Points
<1>3. QED
  BY <1>1, <1>2 DEF IInv, Beats, Handling, Ours, Armed, board

(* A free slot for the timer that is out of the table: only the other user *)
(* of the timers has one.                                                  *)
LEMMA FindFinds ==
  ASSUME TwoSlots, IInv, pc = "find"
  PROVE  FirstFree(timers) \in Slots /\ timers[FirstFree(timers)].handler = None
<1>1. timers \in [Slots -> Timer] /\ 0 \notin Slots
  BY Constants DEF IInv, TypeOK, Slots
<1>2. \A s \in Slots : timers[s].handler \in {"repeat", "heartbeat", None}
  BY <1>1 DEF Timer, Handlers
<1>3. \E u : \A s \in Slots : timers[s].handler # None => s = u
  <2>1. CASE Beats /\ Handling
    BY <1>2, <2>1 DEF Beats, Handling, Armed
  <2>2. CASE NoBeat /\ Handled
    BY <1>2, <2>2 DEF NoBeat, Handled, Armed
  <2>3. QED
    BY <2>1, <2>2 DEF IInv
<1>4. QED
  BY <1>1, <1>3, RoomForOne

LEMMA FindStep ==
  ASSUME TwoSlots, IInv, Find
  PROVE  IInv'
<1>1. FirstFree(timers) \in Slots /\ timers[FirstFree(timers)].handler = None
  BY FindFinds DEF Find
<1>2. FirstFree(timers) # 0 /\ FirstFree(timers) \in 0 .. N_TIMERS
  BY <1>1, Constants DEF Slots
<1>3. /\ pc = "find" /\ pc' = "store" /\ found' = FirstFree(timers)
      /\ UNCHANGED <<timers, board, hTimer, hnd, running>>
  BY <1>2 DEF Find
<1>4. TypeOK'
  BY <1>2, <1>3 DEF IInv, TypeOK, board, Points
<1>5. \/ Beats' /\ Handling' /\ Ours' /\ hTimer' = 0
      \/ running'.handler = "heartbeat" /\ NoBeat' /\ Handled'
  BY <1>3 DEF IInv, Beats, Handling, Ours, NoBeat, Handled, Armed, board
<1>6. found' \in Slots /\ Unarmed(found)'
  BY <1>1, <1>3 DEF Unarmed
<1>7. QED
  BY <1>3, <1>4, <1>5, <1>6 DEF IInv, Unarmed

LEMMA StoreStep ==
  ASSUME IInv, Store
  PROVE  IInv'
<1>1. /\ TypeOK /\ found \in Slots /\ timers[found].handler = None
      /\ timers' = Attached(timers, found, running)
      /\ pc = "store" /\ UNCHANGED <<found, board, hTimer>>
  BY DEF IInv, Store, Unarmed
<1>2. /\ timers' \in [Slots -> Timer]
      /\ timers'[found].handler = running.handler /\ timers'[found].param = running.param
      /\ \A t \in Slots : t # found => timers'[t] = timers[t]
  BY <1>1, AttachedAt DEF TypeOK
<1>3. hnd \in Slots /\ (hnd % N_TIMERS) + 1 \in Slots
  BY <1>1, Constants DEF TypeOK, Slots
<1>4. Idle \in [handler : Handlers \cup {None}, param : Keys \cup {None}]
  BY DEF Idle
<1>5. CASE Beats /\ Handling /\ Ours /\ hTimer = 0
  <2>1. running.handler = "repeat" /\ running.param = repeating
    BY <1>5 DEF Ours
  <2>2. pc' = "assign" /\ UNCHANGED <<hnd, running>>
    BY <2>1 DEF Store
  <2>3. TypeOK'
    BY <1>1, <1>2, <2>2 DEF TypeOK, board, Points
  <2>4. Armed("repeat")' = {found}
    BY <1>1, <1>2, <1>5, <2>1 DEF Handling, Armed
  <2>5. Armed("heartbeat")' = Armed("heartbeat")
    BY <1>1, <1>2, <2>1, Constants DEF Armed
  <2>6. Beats' /\ Ours'
    BY <1>1, <1>5, <2>2, <2>5 DEF Beats, Ours, board
  <2>7. QED
    BY <1>1, <1>2, <1>5, <2>1, <2>2, <2>3, <2>4, <2>6 DEF IInv, Handling, board
<1>6. CASE running.handler = "heartbeat" /\ NoBeat /\ Handled
  <2>1. pc' = "poll" /\ hnd' = (hnd % N_TIMERS) + 1 /\ running' = Idle
    BY <1>6 DEF Store, NextSlot
  <2>2. TypeOK'
    BY <1>1, <1>2, <1>3, <1>4, <2>1 DEF TypeOK, board, Points
  <2>3. Armed("heartbeat")' = {found}
    BY <1>1, <1>2, <1>6 DEF NoBeat, Armed
  <2>4. Armed("repeat")' = Armed("repeat")
    BY <1>1, <1>2, <1>6, Constants DEF Armed
  <2>5. hTimer # 0 => hTimer \in Slots /\ hTimer # found
    BY <1>1, <1>6, Constants DEF Handled, Armed
  <2>6. Handled'
    BY <1>1, <1>2, <1>6, <2>4, <2>5 DEF Handled, board
  <2>7. Beats'
    BY <1>1, <2>3 DEF Beats
  <2>8. QED
    BY <2>1, <2>2, <2>6, <2>7 DEF IInv
<1>7. QED
  BY <1>1, <1>5, <1>6 DEF IInv

LEMMA AssignStep ==
  ASSUME IInv, Assign
  PROVE  IInv'
<1>1. /\ TypeOK /\ found \in Slots /\ Beats /\ Armed("repeat") = {found}
      /\ timers[found].param = repeating /\ repeating = KeyCode(report)
      /\ hTimer' = found /\ pc' = "poll" /\ hnd' = (hnd % N_TIMERS) + 1 /\ running' = Idle
      /\ UNCHANGED <<timers, found, board>>
  BY DEF IInv, Assign, NextSlot
<1>2. (hnd % N_TIMERS) + 1 \in Slots /\ found \in 0 .. N_TIMERS /\ found # 0
  BY <1>1, Constants DEF TypeOK, Slots
<1>3. Idle \in [handler : Handlers \cup {None}, param : Keys \cup {None}]
  BY DEF Idle
<1>4. TypeOK'
  BY <1>1, <1>2, <1>3 DEF TypeOK, board, Points
<1>5. Beats' /\ Handled'
  BY <1>1, <1>2 DEF Beats, Handled, Armed, board
<1>6. QED
  BY <1>1, <1>4, <1>5 DEF IInv

(* A report, while no handler runs: the repeat of another key is stopped    *)
(* before the new one starts, and the heartbeat keeps its slot.             *)
LEMMA ReportStep ==
  ASSUME TwoSlots, pc \in {"poll", "fetch"}, IInv, NEW r \in Reports, Report(r)
  PROVE  IInv'
<1> DEFINE key    == KeyCode(r)
           calm   == IF Stops(key) THEN detach_timer_handler(timers, hTimer) ELSE timers
           handle == IF Stops(key) THEN 0 ELSE hTimer
           again  == detach_timer_handler(calm, handle)
           slot   == FirstFree(again)
           starts == Pressed(key) /\ key \in Printing
           Clean(table) == /\ table \in [Slots -> Timer]
                           /\ \A s \in Slots : table[s].handler # "repeat"
                           /\ \A s \in Slots : table[s].handler = "heartbeat"
                                               <=> timers[s].handler = "heartbeat"
<1>1. TypeOK /\ Beats /\ Handled
  BY DEF IInv
<1>2. /\ timers \in [Slots -> Timer] /\ hTimer \in 0 .. N_TIMERS
      /\ 0 \notin Slots /\ 0 \in 0 .. N_TIMERS
  BY <1>1, Constants DEF TypeOK, Slots
<1>3. key \in Keys \cup {None} /\ Down(r) \subseteq Keys
  BY ReportType
<1>4. Clean(detach_timer_handler(timers, hTimer))
  <2> DEFINE new == detach_timer_handler(timers, hTimer)
  <2>1. /\ new \in [Slots -> Timer]
        /\ hTimer # 0 => hTimer \in Slots /\ new[hTimer].handler = None
        /\ (hTimer = 0 => new = timers)
        /\ \A t \in Slots : t # hTimer => new[t] = timers[t]
    BY <1>2, DetachedAt
  <2> HIDE DEF new
  <2>2. \A s \in Slots : timers[s].handler = "repeat" <=> hTimer # 0 /\ s = hTimer
    BY <1>1 DEF Handled, Armed
  <2>3. QED
    BY <2>1, <2>2, Constants DEF new
<1>5. Stops(key) => Clean(calm)
  BY <1>4
<1>6. ~Stops(key) => calm = timers /\ handle = hTimer
  OBVIOUS
<1>7. Clean(again)
  <2>1. CASE Stops(key)
    <3>1. handle = 0 /\ Clean(calm)
      BY <2>1, <1>5
    <3> HIDE DEF calm, handle
    <3>2. again = calm
      BY <1>2, <3>1, DetachedAt
    <3>3. QED
      BY <3>1, <3>2
  <2>2. CASE ~Stops(key)
    BY <1>4, <2>2
  <2>3. QED
    BY <2>1, <2>2
<1>8. /\ report' = r /\ last' = Down(r)
      /\ timers' = IF starts /\ slot # 0
                   THEN Attached(again, slot, [handler |-> "repeat", param |-> key])
                   ELSE IF Pressed(key) THEN again ELSE calm
      /\ hTimer' = IF starts THEN slot ELSE IF Pressed(key) THEN 0 ELSE handle
      /\ repeating' = IF starts THEN key ELSE IF Stops(key) THEN None ELSE repeating
      /\ pc' = IF starts /\ slot = 0 THEN "assertion_failed" ELSE pc
      /\ UNCHANGED <<hnd, running, found>>
  BY DEF Report
<1>9. calm = timers \/ Clean(calm)
  BY <1>5
<1> HIDE DEF calm, handle, again, key
<1>10. slot \in Slots /\ again[slot].handler = None
  <2>1. PICK h \in Slots : Armed("heartbeat") = {h}
    BY <1>1 DEF Beats
  <2>2. \A s \in Slots : again[s].handler # None => s = h
    <3>1. \A s \in Slots : again[s].handler \in {"repeat", "heartbeat", None}
      BY <1>7 DEF Timer, Handlers
    <3>2. QED
      BY <1>7, <2>1, <3>1 DEF Armed
  <2>3. QED
    BY <1>7, <2>2, RoomForOne
<1>11. slot # 0 /\ slot \in 0 .. N_TIMERS
  BY <1>2, <1>10, Constants DEF Slots
<1> HIDE DEF slot
<1>12. ASSUME Clean(timers'), hTimer' = 0 PROVE Beats' /\ Handled'
  <2>1. Armed("repeat")' = {} /\ Armed("heartbeat")' = Armed("heartbeat")
    BY <1>12 DEF Armed
  <2>2. QED
    BY <1>1, <1>12, <2>1 DEF Beats, Handled
<1>13. pc' = pc /\ hnd' = hnd /\ running' = running /\ found' = found
  BY <1>1, <1>8, <1>11
<1>14. ASSUME timers' \in [Slots -> Timer], hTimer' \in 0 .. N_TIMERS,
              repeating' \in Keys \cup {None}, Beats', Handled'
       PROVE  IInv'
  <2>1. TypeOK'
    BY <1>1, <1>3, <1>8, <1>13, <1>14 DEF TypeOK
  <2>2. QED
    BY <1>13, <1>14, <2>1 DEF IInv
<1>15. CASE starts
  <2>1. /\ timers' = Attached(again, slot, [handler |-> "repeat", param |-> key])
        /\ hTimer' = slot /\ repeating' = key /\ report' = r
    BY <1>8, <1>11, <1>15
  <2>2. [handler |-> "repeat", param |-> key] \in [handler : Handlers \cup {None},
                                                   param : Keys \cup {None}]
    BY <1>3 DEF Handlers
  <2>3. /\ timers' \in [Slots -> Timer]
        /\ timers'[slot].handler = "repeat" /\ timers'[slot].param = key
        /\ \A t \in Slots : t # slot => timers'[t] = again[t]
    BY <1>7, <1>10, <2>1, <2>2, AttachedAt
  <2>4. Armed("repeat")' = {slot}
    BY <1>7, <1>10, <2>3 DEF Armed
  <2>5. Armed("heartbeat")' = Armed("heartbeat")
    BY <1>7, <1>10, <2>3, Constants DEF Armed
  <2>6. Handled'
    BY <1>11, <2>1, <2>3, <2>4 DEF Handled, key
  <2>7. Beats'
    BY <1>1, <2>5 DEF Beats
  <2>8. QED
    BY <1>3, <1>11, <1>14, <2>1, <2>3, <2>6, <2>7
<1>16. CASE ~starts
  <2>1. repeating' \in Keys \cup {None}
    BY <1>1, <1>8, <1>16 DEF TypeOK
  <2>2. CASE Pressed(key)
    <3>1. timers' = again /\ hTimer' = 0
      BY <1>8, <1>16, <2>2
    <3>2. QED
      BY <1>2, <1>7, <1>12, <1>14, <2>1, <3>1
  <2>3. CASE ~Pressed(key) /\ Stops(key)
    <3>1. timers' = calm /\ hTimer' = 0
      BY <1>8, <1>16, <2>3 DEF handle
    <3>2. QED
      BY <1>2, <1>5, <1>12, <1>14, <2>1, <2>3, <3>1
  <2>4. CASE ~Pressed(key) /\ ~Stops(key)
    <3>1. timers' = timers /\ hTimer' = hTimer /\ repeating' = repeating /\ report' = r
      BY <1>6, <1>8, <1>16, <2>4
    <3>2. hTimer # 0 => key = repeating
      BY <2>4 DEF Stops
    <3>3. Beats' /\ Handled'
      BY <1>1, <3>1, <3>2 DEF Beats, Handled, Armed, key
    <3>4. QED
      BY <1>2, <1>14, <2>1, <3>1, <3>3
  <2>5. QED
    BY <2>2, <2>3, <2>4
<1>17. QED
  BY <1>15, <1>16

-----------------------------------------------------------------------------
LEMMA InitIInv == Init => IInv
<1> DEFINE empty == [s \in Slots |-> [handler |-> None, param |-> None, due |-> FALSE]]
           beat  == [handler |-> "heartbeat", param |-> None]
<1>1. empty \in [Slots -> Timer] /\ 1 \in Slots
      /\ \A s \in Slots : empty[s].handler = None
  BY Constants DEF Timer, Slots
<1>2. beat \in [handler : Handlers \cup {None}, param : Keys \cup {None}]
      /\ beat.handler = "heartbeat"
  BY DEF Handlers
<1> HIDE DEF empty, beat
<1>3. ASSUME Init PROVE /\ timers \in [Slots -> Timer] /\ timers[1].handler = "heartbeat"
                        /\ \A s \in Slots : s # 1 => timers[s].handler = None
  <2>1. timers = Attached(empty, 1, beat)
    BY <1>3 DEF Init, empty, beat
  <2>2. QED
    BY <1>1, <1>2, <2>1, AttachedAt
<1>4. Init => Armed("heartbeat") = {1} /\ Armed("repeat") = {}
  BY <1>1, <1>3, Constants DEF Armed
<1>5. Init => Beats /\ Handled
  BY <1>1, <1>4 DEF Init, Beats, Handled
<1>6. Init => TypeOK
  <2> SUFFICES ASSUME Init PROVE TypeOK
    OBVIOUS
  <2>1. timers \in [Slots -> Timer]
    BY <1>3
  <2>2. pc \in Points \cup {"null_call", "assertion_failed"}
    BY DEF Init, Points
  <2>3. hnd \in Slots /\ found \in 0 .. N_TIMERS /\ hTimer \in 0 .. N_TIMERS
    BY Constants DEF Init, Slots
  <2>4. running \in [handler : Handlers \cup {None}, param : Keys \cup {None}]
    BY DEF Init, Idle
  <2>5. report \in Reports /\ last \subseteq Keys /\ repeating \in Keys \cup {None}
    BY DEF Init, Reports
  <2>6. QED
    BY <2>1, <2>2, <2>3, <2>4, <2>5 DEF TypeOK
<1>7. QED
  BY <1>5, <1>6 DEF IInv, Init

LEMMA NextIInv ==
  ASSUME TwoSlots, IInv, [Next]_vars, [Reported => pc \in {"poll", "fetch"}]_vars
  PROVE  IInv'
<1>1. CASE Main
  BY <1>1, PollStep, FetchStep, CallStep, CancelStep, ClearStep, FindStep, StoreStep,
     AssignStep DEF Main
<1>2. CASE UNCHANGED vars
  BY <1>2 DEF vars, main, board, IInv, TypeOK, Beats, NoBeat, Handled, Handling, Ours,
              Unarmed, Armed
<1>3. QED
  BY <1>1, <1>2, ElapseStep, ReportStep DEF Next, Reported

LEMMA SpecKeeps ==
  ASSUME TwoSlots
  PROVE  Spec /\ [][Reported => pc \in {"poll", "fetch"}]_vars => []IInv
BY InitIInv, NextIInv, PTL DEF Spec

(* When the interrupt also keeps out between the test of a slot and the    *)
(* second look at it, the handler is still there.                          *)
Present ==
  /\ IInv /\ pc # "null_call"
  /\ pc = "fetch" => ~Unarmed(hnd)
  /\ pc = "call" => running.handler # None

LEMMA NextPresent ==
  ASSUME TwoSlots, Present, [Next]_vars, [Reported => pc = "poll"]_vars
  PROVE  Present'
<1>1. IInv /\ IInv' /\ TypeOK
  BY NextIInv DEF Present, IInv
<1>2. CASE UNCHANGED vars
  BY <1>1, <1>2 DEF Present, vars, main, Unarmed
<1>3. CASE \E s \in Slots : Elapse(s)
  <2>1. PICK s \in Slots : Elapse(s)
    BY <1>3
  <2>2. \A t \in Slots : timers'[t].handler = timers[t].handler
    BY <1>1, <2>1 DEF Elapse, TypeOK, Timer
  <2>3. hnd \in Slots
    BY <1>1 DEF TypeOK
  <2>4. QED
    BY <1>1, <2>1, <2>2, <2>3 DEF Present, Elapse, main, Unarmed
<1>4. CASE Reported /\ pc = "poll"
  BY <1>1, <1>4 DEF Present, Reported, Report
<1>5. CASE Main
  <2>1. CASE Poll
    BY <1>1, <2>1 DEF Present, Poll, Unarmed
  <2>2. CASE Fetch
    <3>1. running'.handler = timers[hnd].handler
      BY <1>1, <2>2 DEF Fetch, TypeOK
    <3>2. QED
      BY <1>1, <2>2, <3>1 DEF Present, Fetch, Unarmed
  <2>3. CASE Call
    BY <1>1, <2>3 DEF Present, Call, TypeOK, Handlers
  <2>4. CASE Cancel \/ Clear \/ Find \/ Store \/ Assign
    BY <1>1, <2>4 DEF Present, Cancel, Clear, Find, Store, Assign
  <2>5. QED
    BY <1>5, <2>1, <2>2, <2>3, <2>4 DEF Main
<1>6. QED
  BY <1>2, <1>3, <1>4, <1>5 DEF Next, Reported

(* No key calls a handler that is gone or fails an assertion of the driver, *)
(* however the keys are pressed, and every variable has its type: in the    *)
(* runs whose reports all come between polls.                               *)
THEOREM KeyboardSurvives ==
  ASSUME TwoSlots
  PROVE  Spec /\ [][Reported => pc = "poll"]_vars => []Survives
<1>1. Init => Present
  BY InitIInv DEF Init, Present
<1>2. Present => Survives
  BY DEF IInv, Present, Survives, Points
<1>3. QED
  BY <1>1, <1>2, NextPresent, PTL DEF Spec

(* m_hTimer is the handle of the only repeat there is: in the runs whose    *)
(* reports all come while timer_poll has read no handler yet.               *)
THEOREM RepeatsOnce ==
  ASSUME TwoSlots
  PROVE  Spec /\ [][Reported => pc \in {"poll", "fetch"}]_vars => []OneRepeat
<1>1. IInv => OneRepeat
  BY DEF IInv, OneRepeat, Handled
<1>2. QED
  BY <1>1, SpecKeeps, PTL

(* What repeats is the newest of the keys that are down: no timer of a key  *)
(* that was released, or superseded by another, is left running, in the     *)
(* same runs: at each of the six other accesses a report can leave one.     *)
THEOREM RepeatsWhatIsHeld ==
  ASSUME TwoSlots
  PROVE  Spec /\ [][Reported => pc \in {"poll", "fetch"}]_vars => []RepeatsOnlyHeld
<1>1. IInv => RepeatsOnlyHeld
  BY DEF IInv, RepeatsOnlyHeld, Handled
<1>2. QED
  BY <1>1, SpecKeeps, PTL

-----------------------------------------------------------------------------
(* Wherever the interrupt comes. *)

(* The heartbeat is in one slot, or its handler has it. *)
OneHeartbeat ==
  /\ \A s, t \in Armed("heartbeat") : s = t
  /\ running.handler = "heartbeat" => NoBeat

(* All slots but one hold a repeat, and no report can stop more than one. *)
Flooded == \E h \in Slots : \A s \in Slots \ {h} : s \in Armed("repeat")

Everywhere ==
  /\ TypeOK /\ OneHeartbeat
  /\ running.handler = "heartbeat" => pc \in {"call", "find", "store", "assertion_failed"}
  /\ pc \in {"store", "assign"} => found \in Slots
  /\ pc = "assertion_failed" => Flooded

(* A full table is full of repeats. *)
LEMMA FullIsFlooded ==
  ASSUME NEW table \in [Slots -> Timer], Free(table) = {},
         \A s, t \in Slots :
           table[s].handler = "heartbeat" /\ table[t].handler = "heartbeat" => s = t
  PROVE  \E h \in Slots : \A s \in Slots \ {h} : table[s].handler = "repeat"
<1>1. \A s \in Slots : table[s].handler \in {"repeat", "heartbeat"}
  BY DEF Free, Timer, Handlers
<1>2. 1 \in Slots
  BY Constants DEF Slots
<1>3. QED
  BY <1>1, <1>2

(* A report takes timers out of the table, and puts one repeat in. *)
LEMMA ReportAnywhere ==
  ASSUME Everywhere, NEW r \in Reports, Report(r)
  PROVE  Everywhere'
<1> DEFINE key    == KeyCode(r)
           calm   == IF Stops(key) THEN detach_timer_handler(timers, hTimer) ELSE timers
           handle == IF Stops(key) THEN 0 ELSE hTimer
           again  == detach_timer_handler(calm, handle)
           slot   == FirstFree(again)
           starts == Pressed(key) /\ key \in Printing
           Less(table) == /\ table \in [Slots -> Timer]
                          /\ \A s \in Slots : table[s].handler = "heartbeat"
                                              => timers[s].handler = "heartbeat"
<1>1. /\ TypeOK /\ timers \in [Slots -> Timer] /\ hTimer \in 0 .. N_TIMERS
      /\ 0 \in 0 .. N_TIMERS /\ 0 \notin Slots
  BY Constants DEF Everywhere, TypeOK, Slots
<1>2. key \in Keys \cup {None} /\ Down(r) \subseteq Keys
  BY ReportType
<1>3. ASSUME NEW table, Less(table), NEW s \in 0 .. N_TIMERS
      PROVE  Less(detach_timer_handler(table, s))
  <2> DEFINE new == detach_timer_handler(table, s)
  <2>1. /\ new \in [Slots -> Timer] /\ (s # 0 => s \in Slots /\ new[s].handler = None)
        /\ (s = 0 => new = table) /\ \A t \in Slots : t # s => new[t] = table[t]
    BY <1>3, DetachedAt
  <2> HIDE DEF new
  <2>2. QED
    BY <1>3, <2>1, Constants DEF new
<1>4. Less(timers)
  BY <1>1
<1>5. Less(calm) /\ handle \in 0 .. N_TIMERS
  BY <1>1, <1>3, <1>4
<1> HIDE DEF calm, handle
<1>6. Less(again)
  BY <1>3, <1>5
<1>7. /\ report' = r /\ last' = Down(r)
      /\ timers' = IF starts /\ slot # 0
                   THEN Attached(again, slot, [handler |-> "repeat", param |-> key])
                   ELSE IF Pressed(key) THEN again ELSE calm
      /\ hTimer' = IF starts THEN slot ELSE IF Pressed(key) THEN 0 ELSE handle
      /\ repeating' = IF starts THEN key ELSE IF Stops(key) THEN None ELSE repeating
      /\ pc' = IF starts /\ slot = 0 THEN "assertion_failed" ELSE pc
      /\ pc # "assertion_failed"
      /\ UNCHANGED <<hnd, running, found>>
  BY KeyRepeatAssumption DEF Report, calm, handle, Points
<1>8. /\ slot \in 0 .. N_TIMERS
      /\ (slot # 0 => slot \in Slots)
      /\ (slot = 0 => Free(again) = {})
  BY <1>1, FirstFreeIsFree DEF Free
<1> HIDE DEF again, key, slot
<1>9. Less(timers')
  <2>1. CASE starts /\ slot # 0
    <3>1. [handler |-> "repeat", param |-> key] \in [handler : Handlers \cup {None},
                                                     param : Keys \cup {None}]
      BY <1>2 DEF Handlers
    <3>2. /\ timers' \in [Slots -> Timer] /\ timers'[slot].handler = "repeat"
          /\ \A t \in Slots : t # slot => timers'[t] = again[t]
      BY <1>6, <1>7, <1>8, <2>1, <3>1, AttachedAt
    <3>3. QED
      BY <1>6, <3>2
  <2>2. CASE ~(starts /\ slot # 0)
    BY <1>5, <1>6, <1>7, <2>2
  <2>3. QED
    BY <2>1, <2>2
<1>10. TypeOK'
  BY <1>1, <1>2, <1>5, <1>7, <1>8, <1>9 DEF TypeOK
<1>11. OneHeartbeat'
  BY <1>7, <1>9 DEF Everywhere, OneHeartbeat, Armed, NoBeat
<1>12. ASSUME pc' = "assertion_failed" PROVE Flooded'
  <2>1. starts /\ timers' = again /\ Free(timers') = {}
    BY <1>7, <1>8, <1>12
  <2>2. QED
    BY <1>9, <1>11, <2>1, FullIsFlooded DEF Flooded, OneHeartbeat, Armed
<1>13. QED
  BY <1>7, <1>10, <1>11, <1>12 DEF Everywhere

(* A step of the main loop that leaves table and heartbeat alone. *)
LEMMA GoesOn ==
  ASSUME Everywhere, timers' = timers, running'.handler \in {running.handler, None}, TypeOK',
         pc' # "assertion_failed",
         running'.handler = "heartbeat" => pc' \in {"call", "find", "store"},
         pc' \in {"store", "assign"} => found' \in Slots
  PROVE  Everywhere'
<1>1. OneHeartbeat'
  BY Constants DEF Everywhere, OneHeartbeat, Armed, NoBeat
<1>2. QED
  BY <1>1 DEF Everywhere

LEMMA PollCallAnywhere == Everywhere /\ (Poll \/ Call) => Everywhere'
<1> SUFFICES ASSUME Everywhere, Poll \/ Call PROVE Everywhere'
  OBVIOUS
<1>1. TypeOK /\ hnd \in Slots
  BY DEF Everywhere, TypeOK
<1>2. CASE Poll
  <2>1. (hnd % N_TIMERS) + 1 \in Slots
    BY <1>1, Constants DEF Slots
  <2>2. TypeOK' /\ running' = running /\ timers' = timers /\ pc' \in {"fetch", "poll"}
    BY <1>1, <1>2, <2>1 DEF Poll, NextSlot, TypeOK, board, Points
  <2>3. running.handler # "heartbeat"
    BY <1>2 DEF Poll, Everywhere
  <2>4. QED
    BY <2>2, <2>3, GoesOn
<1>3. CASE Call
  <2>1. /\ running' \in [handler : Handlers \cup {None}, param : Keys \cup {None}]
        /\ running'.handler = running.handler
    BY <1>1, <1>3 DEF Call, TypeOK, Timer
  <2>2. /\ pc' \in {"cancel", "find", "null_call"}
        /\ (running.handler = "heartbeat" => pc' = "find")
    BY <1>3 DEF Call
  <2>3. TypeOK' /\ timers' = timers
    BY <1>1, <1>3, <2>1, <2>2 DEF Call, TypeOK, board, Points
  <2>4. QED
    BY <2>1, <2>2, <2>3, GoesOn
<1>4. QED
  BY <1>2, <1>3

LEMMA FetchAnywhere == Everywhere /\ Fetch => Everywhere'
<1> SUFFICES ASSUME Everywhere, Fetch PROVE Everywhere'
  OBVIOUS
<1>1. /\ TypeOK /\ hnd \in Slots /\ OneHeartbeat
      /\ running' = [running EXCEPT !.handler = timers[hnd].handler]
      /\ timers' = [timers EXCEPT ![hnd].handler = None]
      /\ pc' = "call" /\ UNCHANGED <<hnd, found, board, hTimer>>
  BY DEF Everywhere, TypeOK, Fetch
<1>2. /\ timers' \in [Slots -> Timer] /\ timers'[hnd].handler = None
      /\ \A t \in Slots : t # hnd => timers'[t] = timers[t]
      /\ timers[hnd].handler \in Handlers \cup {None}
  BY <1>1 DEF TypeOK, Timer
<1>3. /\ running' \in [handler : Handlers \cup {None}, param : Keys \cup {None}]
      /\ running'.handler = timers[hnd].handler
  BY <1>1, <1>2 DEF TypeOK
<1>4. TypeOK'
  BY <1>1, <1>2, <1>3 DEF TypeOK, board, Points
<1>5. OneHeartbeat'
  BY <1>1, <1>2, <1>3, Constants DEF OneHeartbeat, Armed, NoBeat
<1>6. QED
  BY <1>1, <1>4, <1>5 DEF Everywhere

LEMMA CancelClearAnywhere == Everywhere /\ (Cancel \/ Clear) => Everywhere'
<1> SUFFICES ASSUME Everywhere, Cancel \/ Clear PROVE Everywhere'
  OBVIOUS
<1>1. /\ TypeOK /\ hnd \in Slots /\ hnd \in 0 .. N_TIMERS /\ timers \in [Slots -> Timer]
      /\ running.handler # "heartbeat" /\ running' = running
  BY Constants DEF Everywhere, TypeOK, Slots, Cancel, Clear
<1>2. CASE Cancel
  <2>1. /\ timers' \in [Slots -> Timer] /\ timers'[hnd].handler = None
        /\ \A t \in Slots : t # hnd => timers'[t] = timers[t]
    BY <1>1, <1>2, DetachedAt, Constants DEF Cancel, Slots
  <2>2. TypeOK' /\ pc' = "clear"
    BY <1>1, <1>2, <2>1 DEF Cancel, TypeOK, board, Points
  <2>3. OneHeartbeat'
    BY <1>1, <2>1, Constants DEF Everywhere, OneHeartbeat, Armed
  <2>4. QED
    BY <1>1, <2>2, <2>3 DEF Everywhere
<1>3. CASE Clear
  <2>1. TypeOK' /\ pc' = "find" /\ timers' = timers
    BY <1>1, <1>3, Constants DEF Clear, TypeOK, board, Points
  <2>2. QED
    BY <1>1, <2>1, GoesOn
<1>4. QED
  BY <1>2, <1>3

LEMMA FindAnywhere == Everywhere /\ Find => Everywhere'
<1> SUFFICES ASSUME Everywhere, Find PROVE Everywhere'
  OBVIOUS
<1>1. /\ TypeOK /\ hnd \in Slots /\ timers \in [Slots -> Timer] /\ OneHeartbeat
      /\ (hnd % N_TIMERS) + 1 \in Slots
      /\ Idle \in [handler : Handlers \cup {None}, param : Keys \cup {None}]
  BY Constants DEF Everywhere, TypeOK, Slots, Idle
<1>2. /\ FirstFree(timers) \in 0 .. N_TIMERS
      /\ (FirstFree(timers) # 0 => FirstFree(timers) \in Slots)
      /\ (FirstFree(timers) = 0 => Free(timers) = {})
  <2>1. 0 \notin Slots
    BY Constants DEF Slots
  <2>2. QED
    BY <2>1, FirstFreeIsFree DEF Free
<1>3. found' = FirstFree(timers) /\ UNCHANGED <<timers, board, hTimer>>
  BY DEF Find
<1>4. CASE FirstFree(timers) # 0
  <2>1. pc' = "store" /\ UNCHANGED <<hnd, running>>
    BY <1>4 DEF Find
  <2>2. TypeOK'
    BY <1>1, <1>2, <1>3, <2>1 DEF TypeOK, board, Points
  <2>3. QED
    BY <1>2, <1>3, <1>4, <2>1, <2>2, GoesOn
<1>5. CASE FirstFree(timers) = 0 /\ running.handler = "repeat"
  <2>1. pc' = "assertion_failed" /\ UNCHANGED <<hnd, running>>
    BY <1>5 DEF Find
  <2>2. TypeOK'
    BY <1>1, <1>2, <1>3, <2>1 DEF TypeOK, board
  <2>3. Flooded'
    BY <1>1, <1>2, <1>3, <1>5, FullIsFlooded DEF Flooded, OneHeartbeat, Armed
  <2>4. OneHeartbeat'
    BY <1>1, <1>3, <2>1 DEF OneHeartbeat, Armed, NoBeat
  <2>5. QED
    BY <2>1, <2>2, <2>3, <2>4 DEF Everywhere
<1>6. CASE FirstFree(timers) = 0 /\ running.handler # "repeat"
  <2>1. pc' = "poll" /\ hnd' = (hnd % N_TIMERS) + 1 /\ running' = Idle
    BY <1>6 DEF Find, NextSlot
  <2>2. TypeOK'
    BY <1>1, <1>2, <1>3, <2>1 DEF TypeOK, board, Points
  <2>3. QED
    BY <1>3, <2>1, <2>2, Constants, GoesOn DEF Idle
<1>7. QED
  BY <1>4, <1>5, <1>6

LEMMA StoreAnywhere == Everywhere /\ (Store \/ Assign) => Everywhere'
<1> SUFFICES ASSUME Everywhere, Store \/ Assign PROVE Everywhere'
  OBVIOUS
<1>1. /\ TypeOK /\ hnd \in Slots /\ timers \in [Slots -> Timer] /\ OneHeartbeat
      /\ (hnd % N_TIMERS) + 1 \in Slots
      /\ Idle \in [handler : Handlers \cup {None}, param : Keys \cup {None}]
      /\ running \in [handler : Handlers \cup {None}, param : Keys \cup {None}]
      /\ found \in Slots /\ found \in 0 .. N_TIMERS /\ found' = found
  BY Constants DEF Everywhere, TypeOK, Slots, Idle, Store, Assign
<1>2. CASE Store
  <2>1. /\ timers' \in [Slots -> Timer] /\ timers'[found].handler = running.handler
        /\ \A t \in Slots : t # found => timers'[t] = timers[t]
    BY <1>1, <1>2, AttachedAt DEF Store
  <2>2. \/ running.handler = "repeat" /\ pc' = "assign" /\ UNCHANGED <<hnd, running>>
        \/ /\ running.handler # "repeat" /\ pc' = "poll"
           /\ hnd' = (hnd % N_TIMERS) + 1 /\ running' = Idle
    BY <1>2 DEF Store, NextSlot
  <2>3. TypeOK'
    BY <1>1, <1>2, <2>1, <2>2 DEF Store, TypeOK, board, Points
  <2>4. running'.handler # "heartbeat"
    BY <2>2, Constants DEF Idle
  <2>5. \A s, t \in Armed("heartbeat")' : s = t
    BY <1>1, <2>1 DEF OneHeartbeat, Armed, NoBeat
  <2>6. QED
    BY <1>1, <2>2, <2>3, <2>4, <2>5 DEF Everywhere, OneHeartbeat
<1>3. CASE Assign
  <2>1. /\ pc' = "poll" /\ hnd' = (hnd % N_TIMERS) + 1 /\ running' = Idle
        /\ timers' = timers /\ hTimer' = found /\ UNCHANGED board
    BY <1>3 DEF Assign, NextSlot
  <2>2. TypeOK'
    BY <1>1, <2>1 DEF TypeOK, board, Points
  <2>3. QED
    BY <2>1, <2>2, Constants, GoesOn DEF Idle
<1>4. QED
  BY <1>2, <1>3

LEMMA ElapseAnywhere ==
  ASSUME Everywhere, NEW s \in Slots, Elapse(s)
  PROVE  Everywhere'
<1>1. /\ timers \in [Slots -> Timer] /\ timers' = [timers EXCEPT ![s].due = TRUE]
      /\ UNCHANGED <<main, board, hTimer>>
  BY DEF Everywhere, TypeOK, Elapse
<1>2. /\ timers' \in [Slots -> Timer]
      /\ \A t \in Slots : timers'[t].handler = timers[t].handler
  BY <1>1 DEF Timer
<1>3. TypeOK'
  BY <1>1, <1>2 DEF Everywhere, TypeOK, main, board
<1>4. \A h \in Handlers : Armed(h)' = Armed(h)
  BY <1>2 DEF Armed
<1>5. OneHeartbeat' /\ Flooded' = Flooded
  BY <1>1, <1>4 DEF Everywhere, OneHeartbeat, NoBeat, Flooded, Handlers, main
<1>6. QED
  BY <1>1, <1>3, <1>5 DEF Everywhere, main

LEMMA InitAnywhere == Init => Everywhere
<1>1. Init => TypeOK /\ Beats
  BY InitIInv DEF Init, IInv
<1>2. QED
  BY <1>1, Constants DEF Init, Everywhere, Beats, OneHeartbeat, Idle

(* However the keys are pressed and wherever the USB interrupt comes, the  *)
(* heartbeat is never armed twice, nor while its handler runs; and the     *)
(* assertion of USBKeyboardDevice that a repeat gets a timer fails only    *)
(* when all slots of the table but one hold a repeat: with the 20 slots of *)
(* stupid_timer.c, after eighteen repeats or more have been left running.  *)
THEOREM KeyboardAnywhere ==
  Spec => [](TypeOK /\ OneHeartbeat /\ (pc = "assertion_failed" => Flooded))
<1>1. Everywhere /\ [Next]_vars => Everywhere'
  <2>1. Everywhere /\ UNCHANGED vars => Everywhere'
    BY DEF vars, main, board, Everywhere, TypeOK, OneHeartbeat, NoBeat, Armed, Flooded
  <2>2. QED
    BY <2>1, ReportAnywhere, PollCallAnywhere, FetchAnywhere, CancelClearAnywhere, FindAnywhere,
       StoreAnywhere, ElapseAnywhere DEF Next, Main
<1>2. Everywhere => TypeOK /\ OneHeartbeat /\ (pc = "assertion_failed" => Flooded)
  BY DEF Everywhere
<1>3. QED
  BY <1>1, <1>2, InitAnywhere, PTL DEF Spec
=============================================================================
