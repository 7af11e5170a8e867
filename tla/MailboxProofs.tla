--------------------------- MODULE MailboxProofs ---------------------------
(***************************************************************************)
(* The property mailbox, for every capacity and every number of retries.   *)
(* That calls and answers stay in step until a wait is given up needs no   *)
(* assumption.  That a success has been carried out, late answers or not,  *)
(* needs one about the frames of the callers: only the three requests of   *)
(* fb_init are made from the same one.                                     *)
(***************************************************************************)
EXTENDS Mailbox, TLAPS

Sharing == {"display", "setup", "pitch"}

Apart ==
  \A r, s \in Requests : frame[r] = frame[s] => r = s \/ (r \in Sharing /\ s \in Sharing)

Posted(f) == \E n \in DOMAIN toGpu : toGpu[n] = f

(* A wait that has not been given up has receptions left, and its answer   *)
(* lies in the caller's buffer before the address is posted back.          *)
Synchronous ==
  /\ pc = "receive" => waits >= 1
  /\ pc = "receive" /\ ~late /\ toGpu = <<>> => buffer[own].code # "request"

(* The frame of the call holds its own request, ...                        *)
Mine ==
  /\ pc \in {"fill", "send", "receive", "check"} => buffer[own].asks = request
  /\ pc \in {"fill", "send"} => buffer[own].code = "request"
  /\ pc \in {"send", "receive", "check"} => buffer[own].whole
  /\ pc \in {"receive", "check"} /\ buffer[own].code = "ok" => request \in served

(* ... which the GPU holds at most once, and not when it has answered; and *)
(* it holds no frame of a call that is still to come.                      *)
Private ==
  /\ pc \in {"build", "fill", "send"} => ~Posted(own)
  /\ pc \in {"receive", "check"} =>
       \A m, n \in DOMAIN toGpu : toGpu[m] = own /\ toGpu[n] = own => m = n
  /\ pc \in {"receive", "check"} /\ buffer[own].code # "request" => ~Posted(own)
  /\ pc # "done" =>
       \A i \in step + 1 .. Len(Boot) : frame[Boot[i]] # own => ~Posted(frame[Boot[i]])

(* What is written to the end asks for something. *)
Asked ==
  /\ \A f \in Frames : buffer[f].whole => buffer[f].asks # "nothing"
  /\ pc = "fill" => buffer[own].asks # "nothing"

StepInv  == InStep /\ Synchronous
ServeInv == Mine /\ Private /\ SuccessServed

-----------------------------------------------------------------------------
(* What a start asks for, and in which order. *)
LEMMA BootIs ==
  /\ Len(Boot) = 8 /\ DOMAIN Boot = 1 .. 8
  /\ Boot[1] = "release" /\ Boot[2] = "display" /\ Boot[3] = "setup" /\ Boot[4] = "pitch"
  /\ Boot[5] = "palette" /\ Boot[6] = "size" /\ Boot[7] = "power" /\ Boot[8] = "mac"
BY DEF Boot

LEMMA RequestsAre ==
  /\ Requests = {Boot[i] : i \in 1 .. 8}
  /\ \A i, j \in 1 .. 8 : Boot[i] = Boot[j] => i = j
<1>1. Requests = {Boot[i] : i \in 1 .. 8}
  BY BootIs DEF Requests, ToSet
<1>2. ASSUME NEW i \in 1 .. 8, NEW j \in 1 .. 8, Boot[i] = Boot[j] PROVE i = j
  <2>1. i \in {1, 2, 3, 4, 5, 6, 7, 8} /\ j \in {1, 2, 3, 4, 5, 6, 7, 8}
    OBVIOUS
  <2>2. QED
    BY <1>2, <2>1, BootIs
<1>3. QED
  BY <1>1, <1>2

LEMMA OwnType ==
  ASSUME TypeOK, pc # "done"
  PROVE  step \in 1 .. 8 /\ request \in Requests /\ own \in Frames
<1>1. step \in 1 .. 8
  BY BootIs DEF TypeOK
<1>2. request \in Requests
  BY <1>1, RequestsAre DEF request
<1>3. QED
  BY <1>1, <1>2, MailboxAssumption DEF own

(* The requests made after one that has failed come from other frames. *)
LEMMA FollowingIs ==
  ASSUME TypeOK, pc # "done", NEW outcome
  PROVE  /\ Following(outcome) \in step + 1 .. 9
         /\ outcome = "success" => Following(outcome) = step + 1
         /\ Apart /\ outcome # "success" =>
              \A i \in Following(outcome) .. 8 : frame[Boot[i]] # own
<1> DEFINE next == Following(outcome)
<1>1. step \in {1, 2, 3, 4, 5, 6, 7, 8}
  BY OwnType
<1>2. /\ outcome = "success" => next = step + 1
      /\ outcome # "success" /\ step \in {2, 3} => next = 5
      /\ outcome # "success" /\ step = 7 => next = 9
      /\ outcome # "success" /\ step \notin {2, 3, 7} => next = step + 1
  BY <1>1, BootIs DEF Following, request
<1> HIDE DEF next
<1>3. next \in step + 1 .. 9
  BY <1>1, <1>2
<1>4. ASSUME Apart, outcome # "success", NEW i \in next .. 8 PROVE frame[Boot[i]] # own
  <2>1. /\ i \in 1 .. 8 /\ step \in 1 .. 8 /\ i # step
        /\ Boot[i] \in Requests /\ Boot[step] \in Requests /\ Boot[i] # Boot[step]
    BY <1>1, <1>3, RequestsAre
  <2>2. Boot[i] \notin Sharing \/ Boot[step] \notin Sharing
    <3>1. i \in {1, 2, 3, 4, 5, 6, 7, 8} /\ (step \in {2, 3, 4} => i \notin {2, 3, 4})
      BY <1>1, <1>2, <1>3, <1>4
    <3>2. \A j \in 1 .. 8 : j \notin {2, 3, 4} => Boot[j] \notin Sharing
      <4>1. \A j \in 1 .. 8 : j \in {1, 2, 3, 4, 5, 6, 7, 8}
        OBVIOUS
      <4>2. QED
        BY <4>1, BootIs DEF Sharing
    <3>3. QED
      BY <2>1, <3>1, <3>2
  <2>3. QED
    BY <1>4, <2>1, <2>2 DEF Apart, own, request
<1>5. QED
  BY <1>2, <1>3, <1>4 DEF next

(* A call that returns goes on to the next request, or to the end. *)
Outcomes == {"success", "error", "postman_fail"}

LEMMA ReturnType ==
  ASSUME TypeOK, pc # "done", NEW outcome \in Outcomes, Return(outcome)
  PROVE  /\ step' = Following(outcome) /\ step' \in 1 .. Len(Boot) + 1
         /\ pc' \in {"build", "done"} /\ (step' > Len(Boot) <=> pc' = "done")
         /\ result' \in [Requests -> {"not_called", "success", "error", "postman_fail"}]
         /\ \A r \in Requests : result'[r] = IF r = request THEN outcome ELSE result[r]
<1>1. step \in 1 .. 8 /\ request \in Requests
  BY OwnType
<1>2. step' = Following(outcome) /\ step' \in step + 1 .. 9
  BY FollowingIs DEF Return
<1>3. step' \in 1 .. Len(Boot) + 1 /\ Len(Boot) = 8
  BY <1>1, <1>2, BootIs
<1>4. pc' \in {"build", "done"} /\ (step' > Len(Boot) <=> pc' = "done")
  BY DEF Return
<1>5. /\ result' \in [Requests -> {"not_called", "success", "error", "postman_fail"}]
      /\ \A r \in Requests : result'[r] = IF r = request THEN outcome ELSE result[r]
  BY <1>1 DEF Return, TypeOK, Outcomes
<1>6. QED
  BY <1>2, <1>3, <1>4, <1>5

LEMMA GiveUpIs ==
  ASSUME TypeOK, pc = "receive", waits >= 1, GiveUp
  PROVE  /\ waits' \in 0 .. RETRIES /\ skipped' \in 0 .. MAILBOX_MAX_MSG_TO_SKIP - 1
         /\ step' \in 1 .. Len(Boot) + 1 /\ (step' > Len(Boot) <=> pc' = "done")
         /\ pc' \in {"build", "receive", "check", "done"} /\ late' \in BOOLEAN
         /\ result' \in [Requests -> {"not_called", "success", "error", "postman_fail"}]
         /\ \/ /\ pc' = "receive" /\ waits' >= 1
               /\ step' = step /\ result' = result /\ late' = late
            \/ late' = TRUE /\ pc' = "check" /\ step' = step /\ result' = result
            \/ late' = TRUE /\ Return("postman_fail")
<1>1. waits' \in 0 .. RETRIES /\ skipped' \in 0 .. MAILBOX_MAX_MSG_TO_SKIP - 1
  BY MailboxAssumption DEF GiveUp, TypeOK
<1>2. CASE waits > 1
  <2>1. pc' = pc /\ step' = step /\ result' = result /\ late' = late /\ waits' >= 1
    BY <1>2 DEF GiveUp, TypeOK
  <2>2. QED
    BY <1>1, <2>1 DEF TypeOK
<1>3. CASE ~(waits > 1) /\ Careless
  <2>1. late' = TRUE /\ pc' = "check" /\ step' = step /\ result' = result
    BY <1>3 DEF GiveUp
  <2>2. QED
    BY <1>1, <2>1 DEF TypeOK
<1>4. CASE ~(waits > 1) /\ ~Careless
  <2>1. late' = TRUE /\ Return("postman_fail")
    BY <1>4 DEF GiveUp
  <2>2. "postman_fail" \in Outcomes
    BY DEF Outcomes
  <2>3. QED
    BY <1>1, <2>1, <2>2, ReturnType
<1>5. QED
  BY <1>2, <1>3, <1>4

-----------------------------------------------------------------------------
(* Calls and answers in step: one lemma for each action. *)
LEMMA BuildSteps == StepInv /\ Build => StepInv'
<1> SUFFICES ASSUME StepInv, Build PROVE StepInv'
  OBVIOUS
<1>1. TypeOK /\ pc = "build" /\ pc' = "fill"
  BY DEF StepInv, InStep, Build
<1>2. request \in Requests /\ own \in Frames
  BY <1>1, OwnType
<1>3. TypeOK'
  BY <1>1, <1>2 DEF Build, TypeOK
<1>4. toGpu' = toGpu /\ fromGpu' = fromGpu /\ late' = late
  BY DEF Build
<1>5. ~late' => toGpu' = <<>> /\ Answers' = {}
  BY <1>1, <1>4 DEF StepInv, InStep, Answers
<1>6. QED
  BY <1>1, <1>3, <1>5 DEF StepInv, InStep, Synchronous

LEMMA FillSteps == StepInv /\ Fill => StepInv'
<1> SUFFICES ASSUME StepInv, Fill PROVE StepInv'
  OBVIOUS
<1>1. TypeOK /\ pc = "fill" /\ pc' = "send"
  BY DEF StepInv, InStep, Fill
<1>2. own \in Frames
  BY <1>1, OwnType
<1>3. TypeOK'
  BY <1>1, <1>2 DEF Fill, TypeOK
<1>4. toGpu' = toGpu /\ fromGpu' = fromGpu /\ late' = late
  BY DEF Fill
<1>5. ~late' => toGpu' = <<>> /\ Answers' = {}
  BY <1>1, <1>4 DEF StepInv, InStep, Answers
<1>6. QED
  BY <1>1, <1>3, <1>5 DEF StepInv, InStep, Synchronous

LEMMA ReceivingIs ==
  ASSUME TypeOK, Receiving
  PROVE  /\ pc' = "receive" /\ skipped' \in 0 .. MAILBOX_MAX_MSG_TO_SKIP - 1
         /\ waits' \in 0 .. RETRIES /\ waits' >= 1
BY MailboxAssumption DEF Receiving, TypeOK

LEMMA SendSteps == StepInv /\ Send => StepInv'
<1> SUFFICES ASSUME StepInv, Send PROVE StepInv'
  OBVIOUS
<1>1. TypeOK /\ pc = "send" /\ pc' = "receive" /\ waits' >= 1
  BY ReceivingIs DEF StepInv, InStep, Send
<1>2. own \in Frames /\ step \in 1 .. 8 /\ own' = own
  BY <1>1, OwnType DEF Send, own, request
<1>3. toGpu' \in Seq(Frames) /\ Len(toGpu') <= FIFO
  BY <1>1, <1>2, MailboxAssumption DEF TypeOK, Send
<1>4. TypeOK'
  BY <1>1, <1>2, <1>3, BootIs, ReceivingIs DEF Send, TypeOK
<1>5. ASSUME ~late' PROVE toGpu' = <<own>> /\ Answers' = {}
  BY <1>1, <1>5 DEF StepInv, InStep, Answers, Send
<1>6. toGpu' # <<>> \/ late'
  BY <1>5
<1>7. QED
  BY <1>1, <1>2, <1>4, <1>5, <1>6 DEF StepInv, InStep, Synchronous

LEMMA SendTimeoutSteps == StepInv /\ SendTimeout => StepInv'
<1> SUFFICES ASSUME StepInv, SendTimeout PROVE StepInv'
  OBVIOUS
<1>1. TypeOK /\ pc = "send" /\ late
  BY MailboxAssumption DEF StepInv, InStep, SendTimeout
<1>2. late' = late
  BY DEF SendTimeout
<1>3. step \in 1 .. 8
  BY <1>1, OwnType
<1>4. TypeOK' /\ (pc' = "receive" => waits' >= 1)
  <2>1. CASE Careless
    BY <1>1, <1>3, <2>1, BootIs, ReceivingIs DEF SendTimeout, TypeOK
  <2>2. CASE ~Careless
    <3>1. Return("postman_fail") /\ "postman_fail" \in Outcomes
      BY <2>2 DEF SendTimeout, Outcomes
    <3>2. QED
      BY <1>1, <2>2, <3>1, ReturnType DEF SendTimeout, TypeOK
  <2>3. QED
    BY <2>1, <2>2
<1>5. QED
  BY <1>1, <1>2, <1>4 DEF StepInv, InStep, Synchronous

(* The oldest message is taken: those left are one place further ahead.    *)
LEMMA TailAnswers ==
  ASSUME TypeOK, fromGpu # <<>>, fromGpu' = Tail(fromGpu)
  PROVE  /\ fromGpu' \in Seq({"property", "other"}) /\ Len(fromGpu') <= FIFO
         /\ \A i \in DOMAIN fromGpu' : i + 1 \in DOMAIN fromGpu /\ fromGpu'[i] = fromGpu[i + 1]
         /\ \A i \in DOMAIN fromGpu : i # 1 => i - 1 \in DOMAIN fromGpu'
         /\ 1 \in DOMAIN fromGpu /\ Head(fromGpu) = fromGpu[1]
BY MailboxAssumption, SMTT(60) DEF TypeOK

LEMMA TakeSteps == StepInv /\ Take => StepInv'
<1> SUFFICES ASSUME StepInv, Take PROVE StepInv'
  OBVIOUS
<1>1. TypeOK /\ pc = "receive" /\ pc' = "check" /\ fromGpu # <<>> /\ late' = late
      /\ fromGpu' = Tail(fromGpu) /\ Head(fromGpu) = "property"
      /\ toGpu' = toGpu /\ buffer' = buffer /\ step' = step /\ own' = own
  BY DEF StepInv, InStep, Take, own, request
<1>2. TypeOK'
  BY <1>1, TailAnswers DEF Take, TypeOK
<1>3. ASSUME ~late'
      PROVE  toGpu' = <<>> /\ Answers' = {} /\ buffer'[own'].code # "request"
  <2>1. 1 \in Answers
    BY <1>1, TailAnswers DEF Answers
  <2>2. toGpu = <<>> /\ Answers = {1}
    BY <1>1, <1>3, <2>1 DEF StepInv, InStep
  <2>3. \A i \in DOMAIN fromGpu' : fromGpu'[i] # "property"
    <3>1. ASSUME NEW i \in DOMAIN fromGpu', fromGpu'[i] = "property" PROVE FALSE
      <4>1. i + 1 \in Answers /\ i \in 1 .. Len(fromGpu')
        BY <1>1, <1>2, <3>1, TailAnswers DEF Answers, TypeOK
      <4>2. QED
        BY <2>2, <4>1
    <3>2. QED
      BY <3>1
  <2>4. QED
    BY <1>1, <1>3, <2>2, <2>3 DEF StepInv, Synchronous, Answers
<1>4. QED
  BY <1>1, <1>2, <1>3 DEF StepInv, InStep, Synchronous

(* The caller goes on waiting, or gives the wait up: the answers are those *)
(* there were, at other places perhaps.                                    *)
LEMMA WaitSteps ==
  ASSUME StepInv, pc = "receive", GiveUp, UNCHANGED <<buffer, toGpu, served>>,
         fromGpu' \in Seq({"property", "other"}), Len(fromGpu') <= FIFO,
         Answers = {} => Answers' = {},
         ASSUME NEW i \in DOMAIN fromGpu, Answers = {i}
         PROVE  \E j \in DOMAIN fromGpu' : Answers' = {j}
  PROVE  StepInv'
<1>1. TypeOK /\ waits >= 1
  BY DEF StepInv, InStep, Synchronous
<1>2. TypeOK'
  BY <1>1, GiveUpIs DEF TypeOK
<1>3. CASE late'
  <2>1. pc' = "receive" => waits' >= 1
    BY <1>1, GiveUpIs DEF Return
  <2>2. QED
    BY <1>2, <1>3, <2>1 DEF StepInv, InStep, Synchronous
<1>4. CASE ~late'
  <2>1. pc' = "receive" /\ waits' >= 1 /\ step' = step /\ late' = late
    BY <1>1, <1>4, GiveUpIs
  <2>2. own' = own /\ toGpu' = toGpu /\ buffer' = buffer
    BY <2>1 DEF own, request
  <2>3. \/ toGpu' = <<own>>' /\ Answers' = {}
        \/ toGpu' = <<>> /\ \E j \in DOMAIN fromGpu' : Answers' = {j}
    BY <1>4, <2>1, <2>2 DEF StepInv, InStep
  <2>4. QED
    BY <1>2, <1>4, <2>1, <2>2, <2>3 DEF StepInv, InStep, Synchronous
<1>5. QED
  BY <1>3, <1>4

LEMMA SkipSteps == StepInv /\ Skip => StepInv'
<1> SUFFICES ASSUME StepInv, Skip PROVE StepInv'
  OBVIOUS
<1>1. TypeOK /\ pc = "receive" /\ fromGpu # <<>> /\ fromGpu' = Tail(fromGpu)
      /\ Head(fromGpu) # "property" /\ buffer' = buffer /\ toGpu' = toGpu /\ served' = served
  BY DEF StepInv, InStep, Skip
<1>2. /\ fromGpu' \in Seq({"property", "other"}) /\ Len(fromGpu') <= FIFO
      /\ DOMAIN fromGpu \subseteq Int
  BY <1>1, TailAnswers DEF TypeOK
<1>3. Answers = {} => Answers' = {}
  BY <1>1, TailAnswers DEF Answers
<1>4. ASSUME NEW i \in DOMAIN fromGpu, Answers = {i}
      PROVE  i - 1 \in DOMAIN fromGpu' /\ Answers' = {i - 1}
  <2>1. i # 1
    BY <1>1, <1>4, TailAnswers DEF Answers
  <2>2. i - 1 \in DOMAIN fromGpu' /\ fromGpu'[i - 1] = fromGpu[i]
    BY <1>1, <1>2, <2>1, TailAnswers
  <2>3. \A j \in DOMAIN fromGpu' : j \in Int /\ (fromGpu'[j] = "property" => j + 1 = i)
    BY <1>1, <1>2, <1>4, TailAnswers DEF Answers
  <2>4. fromGpu[i] = "property"
    BY <1>4 DEF Answers
  <2>5. QED
    BY <1>2, <2>2, <2>3, <2>4 DEF Answers
<1>5. CASE GiveUp
  BY <1>1, <1>2, <1>3, <1>4, <1>5, WaitSteps
<1>6. CASE /\ skipped + 1 < MAILBOX_MAX_MSG_TO_SKIP /\ skipped' = skipped + 1
           /\ UNCHANGED <<pc, step, waits, result, late>>
  <2>1. TypeOK' /\ own' = own
    BY <1>1, <1>2, <1>6, MailboxAssumption, SMTT(60) DEF TypeOK, own, request
  <2>2. QED
    BY <1>1, <1>3, <1>4, <1>6, <2>1 DEF StepInv, InStep, Synchronous
<1>7. QED
  BY <1>5, <1>6 DEF Skip

LEMMA RecvTimeoutSteps == StepInv /\ RecvTimeout => StepInv'
<1> SUFFICES ASSUME StepInv, RecvTimeout PROVE StepInv'
  OBVIOUS
<1>1. TypeOK /\ pc = "receive" /\ GiveUp /\ UNCHANGED <<buffer, toGpu, fromGpu, served>>
  BY DEF StepInv, InStep, RecvTimeout
<1>2. fromGpu' \in Seq({"property", "other"}) /\ Len(fromGpu') <= FIFO
  BY <1>1 DEF TypeOK
<1>3. Answers' = Answers /\ DOMAIN fromGpu' = DOMAIN fromGpu
  BY <1>1 DEF Answers
<1>4. QED
  BY <1>1, <1>2, <1>3, WaitSteps

LEMMA CheckSteps == StepInv /\ Check => StepInv'
<1> SUFFICES ASSUME StepInv, Check PROVE StepInv'
  OBVIOUS
<1>1. PICK outcome \in Outcomes :
        /\ TypeOK /\ pc = "check" /\ Return(outcome)
        /\ UNCHANGED <<buffer, toGpu, fromGpu, skipped, waits, served, late>>
  BY DEF StepInv, InStep, Check, Outcomes
<1>2. TypeOK' /\ pc' \in {"build", "done"}
  BY <1>1, ReturnType DEF TypeOK
<1>3. ASSUME ~late' PROVE toGpu' = <<>> /\ Answers' = {}
  BY <1>1, <1>3 DEF StepInv, InStep, Answers
<1>4. QED
  BY <1>2, <1>3 DEF StepInv, InStep, Synchronous

(* The GPU takes an address and posts one back. *)
LEMMA AnswerType ==
  ASSUME TypeOK, Asked, Answer
  PROVE  /\ TypeOK' /\ Head(toGpu) \in Frames /\ own' = own
         /\ fromGpu' = Append(fromGpu, "property")
         /\ buffer'[Head(toGpu)].code \in {"ok", "refused"}
<1>1. /\ toGpu # <<>> /\ Len(fromGpu) < FIFO
      /\ toGpu' = Tail(toGpu) /\ fromGpu' = Append(fromGpu, "property")
      /\ UNCHANGED <<pc, step, skipped, waits, result, late>>
  BY DEF Answer
<1>2. PICK code \in {"ok", "refused"} :
        /\ buffer' = [buffer EXCEPT ![Head(toGpu)].code = code]
        /\ \/ served' = served \cup {buffer[Head(toGpu)].asks} /\ buffer[Head(toGpu)].whole
           \/ served' = served
        /\ code = "ok" /\ buffer[Head(toGpu)].whole /\ pc # "done" /\ Head(toGpu) = own =>
             served' = served \cup {buffer[Head(toGpu)].asks}
  BY DEF Answer
<1>3. Head(toGpu) \in Frames
  BY <1>1 DEF TypeOK
<1>4. buffer' \in [Frames -> [asks : Requests \cup {"nothing"}, whole : BOOLEAN,
                              code : {"request", "ok", "refused"}]]
      /\ buffer'[Head(toGpu)].code \in {"ok", "refused"}
  BY <1>2, <1>3, SMTT(60) DEF TypeOK
<1>5. toGpu' \in Seq(Frames) /\ Len(toGpu') <= FIFO
  BY <1>1, MailboxAssumption DEF TypeOK
<1>6. fromGpu' \in Seq({"property", "other"}) /\ Len(fromGpu') <= FIFO
  BY <1>1, MailboxAssumption DEF TypeOK
<1>7. served' \subseteq Requests
  BY <1>2, <1>3 DEF TypeOK, Asked
<1>8. own' = own
  BY <1>1 DEF own, request
<1>9. QED
  BY <1>1, <1>3, <1>4, <1>5, <1>6, <1>7, <1>8 DEF TypeOK

LEMMA AnswerSteps == StepInv /\ Asked /\ Answer => StepInv'
<1> SUFFICES ASSUME StepInv, Asked, Answer PROVE StepInv'
  OBVIOUS
<1>1. TypeOK /\ TypeOK' /\ own' = own /\ fromGpu' = Append(fromGpu, "property")
      /\ toGpu # <<>> /\ toGpu' = Tail(toGpu)
      /\ UNCHANGED <<pc, step, waits, late>>
      /\ buffer'[Head(toGpu)].code # "request"
  BY AnswerType DEF StepInv, InStep, Answer
<1>2. ASSUME ~late
      PROVE  /\ pc = "receive" /\ toGpu' = <<>> /\ Head(toGpu) = own
             /\ \E i \in DOMAIN fromGpu' : Answers' = {i}
  <2>1. pc = "receive" /\ toGpu = <<own>> /\ Answers = {}
    BY <1>1, <1>2 DEF StepInv, InStep
  <2>2. own \in Frames /\ Head(toGpu) = own /\ toGpu' = <<>>
    BY <1>1, <2>1, OwnType
  <2>3. /\ Len(fromGpu) + 1 \in DOMAIN fromGpu' /\ fromGpu'[Len(fromGpu) + 1] = "property"
        /\ \A i \in DOMAIN fromGpu' : i # Len(fromGpu) + 1 =>
             i \in DOMAIN fromGpu /\ fromGpu'[i] = fromGpu[i]
    BY <1>1 DEF TypeOK
  <2>4. Answers' = {Len(fromGpu) + 1}
    BY <2>1, <2>3 DEF Answers
  <2>5. QED
    BY <2>1, <2>2, <2>3, <2>4
<1>3. QED
  BY <1>1, <1>2 DEF StepInv, InStep, Synchronous

LEMMA ForeignSteps == StepInv /\ Foreign => StepInv'
<1> SUFFICES ASSUME StepInv, Foreign PROVE StepInv'
  OBVIOUS
<1>1. TypeOK /\ Len(fromGpu) < FIFO /\ fromGpu' = Append(fromGpu, "other")
      /\ UNCHANGED <<buffer, toGpu, pc, step, skipped, waits, result, served, late>>
  BY DEF StepInv, InStep, Foreign
<1>2. fromGpu' \in Seq({"property", "other"}) /\ Len(fromGpu') <= FIFO
  BY <1>1, MailboxAssumption DEF TypeOK
<1>3. /\ \A i \in DOMAIN fromGpu : i \in DOMAIN fromGpu' /\ fromGpu'[i] = fromGpu[i]
      /\ \A i \in DOMAIN fromGpu' :
           i \in DOMAIN fromGpu \/ fromGpu'[i] = "other"
  BY <1>1 DEF TypeOK
<1>4. Answers' = Answers
  BY <1>3 DEF Answers
<1>5. TypeOK' /\ own' = own
  BY <1>1, <1>2 DEF TypeOK, own, request
<1>6. (\E i \in DOMAIN fromGpu : Answers = {i}) => \E i \in DOMAIN fromGpu' : Answers' = {i}
  BY <1>3, <1>4
<1>7. QED
  BY <1>1, <1>4, <1>5, <1>6 DEF StepInv, InStep, Synchronous

LEMMA AskedStep == TypeOK /\ Asked /\ [Next]_vars => Asked'
<1> SUFFICES ASSUME TypeOK, Asked, [Next]_vars PROVE Asked'
  OBVIOUS
<1>1. CASE Build
  <2>1. request \in Requests /\ own \in Frames /\ own' = own /\ pc = "build"
    BY <1>1, OwnType DEF Build, own, request
  <2>2. request # "nothing"
    <3>1. PICK i \in 1 .. 8 : request = Boot[i]
      BY <2>1, RequestsAre
    <3>2. i \in {1, 2, 3, 4, 5, 6, 7, 8}
      OBVIOUS
    <3>3. QED
      BY <3>1, <3>2, BootIs
  <2>3. \A f \in Frames : f # own => buffer'[f] = buffer[f]
    BY <1>1 DEF Build, TypeOK
  <2>4. buffer'[own] = [asks |-> request, whole |-> FALSE, code |-> "request"]
    BY <1>1, <2>1 DEF Build, TypeOK
  <2>5. QED
    BY <2>1, <2>2, <2>3, <2>4 DEF Asked
<1>2. CASE Fill
  <2>1. own \in Frames /\ pc = "fill" /\ pc' = "send"
    BY <1>2, OwnType DEF Fill
  <2>2. \A f \in Frames : buffer'[f].asks = buffer[f].asks
                         /\ (f # own => buffer'[f].whole = buffer[f].whole)
    BY <1>2, <2>1 DEF Fill, TypeOK
  <2>3. QED
    BY <2>1, <2>2 DEF Asked
<1>3. CASE Answer
  <2>1. \A f \in Frames : buffer'[f].asks = buffer[f].asks /\ buffer'[f].whole = buffer[f].whole
    BY <1>3 DEF Answer, TypeOK
  <2>2. pc' = pc /\ own' = own /\ (pc = "fill" => own \in Frames)
    BY <1>3, OwnType DEF Answer, own, request
  <2>3. QED
    BY <2>1, <2>2 DEF Asked
<1>4. CASE Foreign \/ UNCHANGED vars
  BY <1>4 DEF Foreign, vars, Asked, own, request
<1>5. CASE Send \/ SendTimeout \/ Take \/ Skip \/ RecvTimeout \/ Check
  <2>1. buffer' = buffer /\ pc' # "fill"
    BY <1>5 DEF Send, SendTimeout, Take, Skip, RecvTimeout, Check, Receiving, Return, GiveUp
  <2>2. QED
    BY <2>1 DEF Asked
<1>6. QED
  BY <1>1, <1>2, <1>3, <1>4, <1>5 DEF Next, Program

LEMMA StepSpec == Spec => [](StepInv /\ Asked)
<1>1. Init => StepInv /\ Asked
  <2> SUFFICES ASSUME Init PROVE StepInv /\ Asked
    OBVIOUS
  <2>1. <<>> \in Seq(Frames) /\ <<>> \in Seq({"property", "other"}) /\ Len(<<>>) = 0
    OBVIOUS
  <2>2. buffer \in [Frames -> [asks : Requests \cup {"nothing"}, whole : BOOLEAN,
                               code : {"request", "ok", "refused"}]]
    BY DEF Init
  <2>3. TypeOK
    <3>1. /\ step \in 1 .. Len(Boot) + 1 /\ (step > Len(Boot) <=> pc = "done")
          /\ skipped \in 0 .. MAILBOX_MAX_MSG_TO_SKIP - 1 /\ waits \in 0 .. RETRIES
      BY BootIs, MailboxAssumption DEF Init
    <3>2. /\ toGpu \in Seq(Frames) /\ Len(toGpu) <= FIFO
          /\ fromGpu \in Seq({"property", "other"}) /\ Len(fromGpu) <= FIFO
      BY <2>1, MailboxAssumption DEF Init
    <3>3. result \in [Requests -> {"not_called", "success", "error", "postman_fail"}]
      BY DEF Init
    <3>4. served \subseteq Requests /\ late \in BOOLEAN
          /\ pc \in {"build", "fill", "send", "receive", "check", "done"}
      BY DEF Init
    <3>5. QED
      BY <2>2, <3>1, <3>2, <3>3, <3>4 DEF TypeOK
  <2>4. Answers = {}
    BY DEF Init, Answers
  <2>5. QED
    BY <2>3, <2>4 DEF Init, StepInv, InStep, Synchronous, Asked
<1>2. StepInv /\ Asked /\ [Next]_vars => StepInv'
  <2> SUFFICES ASSUME StepInv, Asked, [Next]_vars PROVE StepInv'
    OBVIOUS
  <2>1. CASE UNCHANGED vars
    BY <2>1 DEF vars, StepInv, InStep, TypeOK, Synchronous, Answers, own, request
  <2>2. QED
    BY <2>1, BuildSteps, FillSteps, SendSteps, SendTimeoutSteps, TakeSteps, SkipSteps,
       RecvTimeoutSteps, CheckSteps, AnswerSteps, ForeignSteps DEF Next, Program
<1>3. StepInv => TypeOK
  BY DEF StepInv, InStep
<1>4. QED
  BY <1>1, <1>2, <1>3, AskedStep, PTL DEF Spec

(* Until a wait is given up for good, the GPU holds no address but that of *)
(* the call that waits, and the answer that ends a wait is its own.        *)
THEOREM CallsStayInStep == Spec => []InStep
<1>1. StepInv => InStep
  BY DEF StepInv
<1>2. QED
  BY <1>1, StepSpec, PTL

-----------------------------------------------------------------------------
(* A success has been carried out: one lemma for each action. *)
LEMMA ServeReturn ==
  ASSUME Apart, TypeOK, ServeInv, pc # "done", UNCHANGED <<buffer, toGpu, served>>,
         NEW outcome \in Outcomes, Return(outcome),
         outcome = "success" => request \in served /\ ~Posted(own)
  PROVE  ServeInv'
<1>1. /\ step \in 1 .. 8 /\ step' = Following(outcome) /\ step' \in step + 1 .. 9
      /\ pc' \in {"build", "done"} /\ (step' > 8 <=> pc' = "done") /\ Len(Boot) = 8
      /\ \A r \in Requests : result'[r] = IF r = request THEN outcome ELSE result[r]
  BY OwnType, FollowingIs, ReturnType, BootIs
<1>2. ASSUME NEW i \in step' .. 8 PROVE ~Posted(frame[Boot[i]])
  <2>1. i \in step + 1 .. Len(Boot)
    BY <1>1
  <2>2. frame[Boot[i]] # own => ~Posted(frame[Boot[i]])
    BY <2>1 DEF ServeInv, Private
  <2>3. CASE outcome = "success"
    BY <2>2, <2>3
  <2>4. CASE outcome # "success"
    BY <1>1, <2>2, <2>4, FollowingIs
  <2>5. QED
    BY <2>3, <2>4
<1>3. \A f : Posted(f)' = Posted(f)
  BY DEF Posted
<1>4. pc' = "build" => ~Posted(own')
  BY <1>1, <1>2 DEF own, request
<1>5. pc' # "done" => \A i \in step' + 1 .. Len(Boot) : ~Posted(frame[Boot[i]])
  BY <1>1, <1>2
<1>6. Private'
  <2>1. pc' = "build" => ~Posted(own)'
    BY <1>4 DEF Posted
  <2>2. pc' # "done" => \A i \in step' + 1 .. Len(Boot) : ~(Posted(frame[Boot[i]])')
    BY <1>3, <1>5
  <2>3. QED
    BY <1>1, <2>1, <2>2 DEF Private
<1>7. SuccessServed'
  BY <1>1 DEF ServeInv, SuccessServed
<1>8. QED
  BY <1>1, <1>6, <1>7 DEF ServeInv, Mine

(* The call begins to wait; its address may have been posted. *)
LEMMA ServeReceiving ==
  ASSUME TypeOK, ServeInv, pc = "send", Receiving,
         toGpu' = toGpu \/ toGpu' = Append(toGpu, own),
         UNCHANGED <<buffer, step, result, served>>
  PROVE  ServeInv'
<1>1. pc' = "receive" /\ own' = own /\ request' = request /\ ~Posted(own)
      /\ buffer[own].code = "request" /\ buffer[own].asks = request /\ buffer[own].whole
  BY DEF Receiving, own, request, ServeInv, Private, Mine
<1>2. Mine' /\ SuccessServed'
  BY <1>1 DEF Mine, SuccessServed, ServeInv
<1>3. \A f : f # own => (Posted(f)' <=> Posted(f))
  <2>1. CASE toGpu' = toGpu
    BY <2>1 DEF Posted
  <2>2. CASE toGpu' = Append(toGpu, own)
    <3>1. /\ Len(toGpu) + 1 \in DOMAIN toGpu' /\ toGpu'[Len(toGpu) + 1] = own
          /\ \A n \in DOMAIN toGpu : n \in DOMAIN toGpu' /\ toGpu'[n] = toGpu[n]
          /\ \A n \in DOMAIN toGpu' : n # Len(toGpu) + 1 => n \in DOMAIN toGpu
      BY <1>1, <2>2, OwnType DEF TypeOK
    <3>2. QED
      BY <3>1 DEF Posted
  <2>3. QED
    BY <2>1, <2>2
<1>4. \A m, n \in DOMAIN toGpu' : toGpu'[m] = own /\ toGpu'[n] = own => m = n
  <2>1. CASE toGpu' = toGpu
    BY <1>1, <2>1 DEF Posted
  <2>2. CASE toGpu' = Append(toGpu, own)
    <3>1. /\ \A n \in DOMAIN toGpu' : n # Len(toGpu) + 1 =>
               n \in DOMAIN toGpu /\ toGpu'[n] = toGpu[n]
      BY <1>1, <2>2, OwnType DEF TypeOK
    <3>2. QED
      BY <1>1, <3>1 DEF Posted
  <2>3. QED
    BY <2>1, <2>2
<1>5. \A i \in step' + 1 .. Len(Boot) : frame[Boot[i]] # own => ~(Posted(frame[Boot[i]])')
  BY <1>1, <1>3 DEF ServeInv, Private
<1>6. Private'
  BY <1>1, <1>4, <1>5 DEF Private
<1>7. QED
  BY <1>2, <1>6 DEF ServeInv

LEMMA BuildServes == TypeOK /\ ServeInv /\ Build => ServeInv'
<1> SUFFICES ASSUME TypeOK, ServeInv, Build PROVE ServeInv'
  OBVIOUS
<1>1. /\ pc = "build" /\ pc' = "fill" /\ own' = own /\ request' = request /\ own \in Frames
      /\ UNCHANGED <<toGpu, step, result, served>>
  BY OwnType DEF Build, own, request
<1>2. buffer'[own] = [asks |-> request, whole |-> FALSE, code |-> "request"]
  BY <1>1 DEF Build, TypeOK
<1>3. \A f : Posted(f)' = Posted(f)
  BY <1>1 DEF Posted
<1>4. ~(Posted(own)')
  BY <1>1, <1>3 DEF ServeInv, Private
<1>5. Private'
  BY <1>1, <1>3, <1>4 DEF ServeInv, Private
<1>6. QED
  BY <1>1, <1>2, <1>5 DEF ServeInv, Mine, SuccessServed

LEMMA FillServes == TypeOK /\ ServeInv /\ Fill => ServeInv'
<1> SUFFICES ASSUME TypeOK, ServeInv, Fill PROVE ServeInv'
  OBVIOUS
<1>1. /\ pc = "fill" /\ pc' = "send" /\ own' = own /\ request' = request /\ own \in Frames
      /\ UNCHANGED <<toGpu, step, result, served>>
  BY OwnType DEF Fill, own, request
<1>2. /\ buffer'[own].asks = buffer[own].asks /\ buffer'[own].code = buffer[own].code
      /\ buffer'[own].whole
  BY <1>1 DEF Fill, TypeOK
<1>3. \A f : Posted(f)' = Posted(f)
  BY <1>1 DEF Posted
<1>4. Private'
  BY <1>1, <1>3 DEF ServeInv, Private
<1>5. QED
  BY <1>1, <1>2, <1>4 DEF ServeInv, Mine, SuccessServed

(* The program goes on in the same call and touches neither its buffer nor *)
(* the queue to the GPU.                                                   *)
LEMMA ServeWaiting ==
  ASSUME ServeInv, pc = "receive", pc' \in {"receive", "check"},
         UNCHANGED <<buffer, toGpu, step, result, served>>
  PROVE  ServeInv'
<1>1. own' = own /\ request' = request /\ \A f : Posted(f)' = Posted(f)
  BY DEF own, request, Posted
<1>2. Private'
  BY <1>1 DEF ServeInv, Private
<1>3. QED
  BY <1>1, <1>2 DEF ServeInv, Mine, SuccessServed

LEMMA GiveUpServes ==
  ASSUME Apart, TypeOK, ServeInv, pc = "receive", waits >= 1, GiveUp,
         UNCHANGED <<buffer, toGpu, served>>
  PROVE  ServeInv'
<1>1. CASE Return("postman_fail")
  <2>1. "postman_fail" \in Outcomes
    BY DEF Outcomes
  <2>2. QED
    BY <1>1, <2>1, ServeReturn
<1>2. CASE pc' \in {"receive", "check"} /\ step' = step /\ result' = result
  BY <1>2, ServeWaiting
<1>3. QED
  BY <1>1, <1>2, GiveUpIs

LEMMA AnswerServes == TypeOK /\ ServeInv /\ Answer => ServeInv'
<1> SUFFICES ASSUME TypeOK, ServeInv, Answer PROVE ServeInv'
  OBVIOUS
<1> DEFINE a == Head(toGpu)
<1>1. /\ toGpu # <<>> /\ toGpu' = Tail(toGpu) /\ UNCHANGED <<pc, step, result>>
      /\ a = toGpu[1] /\ a \in Frames
  BY DEF Answer, TypeOK
<1>2. PICK code \in {"ok", "refused"} :
        /\ buffer' = [buffer EXCEPT ![a].code = code] /\ served \subseteq served'
        /\ code = "ok" /\ buffer[a].whole /\ pc # "done" /\ a = own =>
             buffer[a].asks \in served'
  BY DEF Answer
<1>3. /\ 1 \in DOMAIN toGpu
      /\ \A n \in DOMAIN toGpu' :
           n + 1 \in DOMAIN toGpu /\ n + 1 # 1 /\ toGpu'[n] = toGpu[n + 1]
      /\ \A m, n \in DOMAIN toGpu' : m + 1 = n + 1 => m = n
  <2>1. toGpu \in Seq(Frames) /\ Len(toGpu) \in Nat /\ Len(toGpu) # 0
    BY <1>1 DEF TypeOK
  <2>2. DOMAIN toGpu' = 1 .. Len(toGpu) - 1 /\ DOMAIN toGpu = 1 .. Len(toGpu)
    BY <1>1, <2>1
  <2>3. \A n \in 1 .. Len(toGpu) - 1 : toGpu'[n] = toGpu[n + 1]
    BY <1>1, <2>1
  <2>4. QED
    BY <2>1, <2>2, <2>3
<1>4. own' = own /\ request' = request /\ Posted(a)
  BY <1>1, <1>3 DEF own, request, Posted
<1>5. \A f : Posted(f)' => Posted(f)
  BY <1>3 DEF Posted
<1>6. Posted(own)' => Posted(own)
  BY <1>3, <1>4 DEF Posted
<1> HIDE DEF a
<1>7. /\ \A f \in Frames : f # a => buffer'[f] = buffer[f]
      /\ buffer'[a].asks = buffer[a].asks /\ buffer'[a].whole = buffer[a].whole
      /\ buffer'[a].code = code
  BY <1>1, <1>2 DEF TypeOK
<1>8. pc # "done" => own \in Frames
  BY OwnType
<1>9. CASE a # own
  <2>1. Mine'
    BY <1>1, <1>2, <1>4, <1>7, <1>8, <1>9 DEF ServeInv, Mine
  <2>2. pc \in {"receive", "check"} /\ buffer'[own].code # "request" => ~Posted(own)'
    BY <1>4, <1>7, <1>8, <1>9, <1>6 DEF ServeInv, Private
  <2>3. \A m, n \in DOMAIN toGpu' : pc \in {"receive", "check"} /\ toGpu'[m] = own
                                     /\ toGpu'[n] = own => m = n
    BY <1>3 DEF ServeInv, Private
  <2>4. /\ pc \in {"build", "fill", "send"} => ~Posted(own)'
        /\ pc # "done" => \A i \in step + 1 .. Len(Boot) :
             frame[Boot[i]] # own => ~(Posted(frame[Boot[i]])')
    BY <1>5, <1>6 DEF ServeInv, Private
  <2>5. Private'
    BY <1>1, <1>4, <2>2, <2>3, <2>4 DEF Private
  <2>6. QED
    BY <1>1, <1>2, <2>1, <2>5 DEF ServeInv, SuccessServed
<1>10. CASE a = own
  <2>1. pc \notin {"build", "fill", "send"}
    BY <1>4, <1>10 DEF ServeInv, Private
  <2>2. Mine'
    BY <1>1, <1>2, <1>4, <1>7, <1>10, <2>1 DEF ServeInv, Mine
  <2>3. pc \in {"receive", "check"} => ~Posted(own)'
    <3>1. \A n \in DOMAIN toGpu' : pc \in {"receive", "check"} => toGpu'[n] # own
      BY <1>1, <1>3, <1>10 DEF ServeInv, Private, a
    <3>2. QED
      BY <1>4, <3>1 DEF Posted
  <2>4. pc # "done" => \A i \in step + 1 .. Len(Boot) :
          frame[Boot[i]] # own => ~(Posted(frame[Boot[i]])')
    BY <1>5 DEF ServeInv, Private
  <2>5. \A m, n \in DOMAIN toGpu' : pc \in {"receive", "check"} /\ toGpu'[m] = own
                                     /\ toGpu'[n] = own => m = n
    BY <1>3 DEF ServeInv, Private
  <2>6. Private'
    BY <1>1, <1>4, <2>1, <2>3, <2>4, <2>5 DEF Private
  <2>7. QED
    BY <1>1, <1>2, <2>2, <2>6 DEF ServeInv, SuccessServed
<1>11. QED
  BY <1>9, <1>10

LEMMA ServeStep == Apart /\ StepInv /\ ServeInv /\ [Next]_vars => ServeInv'
<1> SUFFICES ASSUME Apart, StepInv, ServeInv, [Next]_vars PROVE ServeInv'
  OBVIOUS
<1>1. TypeOK /\ (pc = "receive" => waits >= 1)
  BY DEF StepInv, InStep, Synchronous
<1>2. CASE Send
  BY <1>1, <1>2, ServeReceiving DEF Send
<1>3. CASE SendTimeout
  <2>1. CASE Careless
    BY <1>1, <1>3, <2>1, ServeReceiving DEF SendTimeout
  <2>2. CASE ~Careless
    <3>1. "postman_fail" \in Outcomes
      BY DEF Outcomes
    <3>2. QED
      BY <1>1, <1>3, <2>2, <3>1, ServeReturn DEF SendTimeout
  <2>3. QED
    BY <2>1, <2>2
<1>4. CASE Take
  BY <1>4, ServeWaiting DEF Take
<1>5. CASE Skip
  <2>1. CASE GiveUp
    BY <1>1, <1>5, <2>1, GiveUpServes DEF Skip
  <2>2. CASE UNCHANGED <<pc, step, waits, result, late>>
    BY <1>5, <2>2, ServeWaiting DEF Skip
  <2>3. QED
    BY <1>5, <2>1, <2>2 DEF Skip
<1>6. CASE RecvTimeout
  BY <1>1, <1>6, GiveUpServes DEF RecvTimeout
<1>7. CASE Check
  <2>1. PICK outcome \in Outcomes :
          /\ outcome = "success" => buffer[own].code = "ok"
          /\ Return(outcome) /\ pc = "check" /\ UNCHANGED <<buffer, toGpu, served>>
    BY <1>7 DEF Check, Outcomes
  <2>2. outcome = "success" => request \in served /\ ~Posted(own)
    BY <2>1 DEF ServeInv, Mine, Private
  <2>3. QED
    BY <1>1, <2>1, <2>2, ServeReturn
<1>8. CASE Foreign \/ UNCHANGED vars
  <2>1. UNCHANGED <<buffer, toGpu, pc, step, result, served>>
    BY <1>8 DEF Foreign, vars
  <2>2. QED
    BY <2>1 DEF ServeInv, Mine, Private, SuccessServed, Posted, own, request
<1>9. QED
  BY <1>1, <1>2, <1>3, <1>4, <1>5, <1>6, <1>7, <1>8, BuildServes, FillServes, AnswerServes
     DEF Next, Program

(* A call that reports success has been carried out, though the answer     *)
(* that ended its wait may be that of an earlier call given up on.         *)
THEOREM SuccessIsServed ==
  ASSUME Apart
  PROVE  Spec => []SuccessServed
<1>1. Init => ServeInv
  <2> SUFFICES ASSUME Init PROVE ServeInv
    OBVIOUS
  <2>1. DOMAIN toGpu = {}
    BY DEF Init
  <2>2. Private /\ Mine
    BY <2>1 DEF Init, Private, Mine, Posted
  <2>3. SuccessServed
    BY DEF Init, SuccessServed
  <2>4. QED
    BY <2>2, <2>3 DEF ServeInv
<1>2. ServeInv => SuccessServed
  BY DEF ServeInv
<1>3. QED
  BY <1>1, <1>2, ServeStep, StepSpec, PTL DEF Spec
=============================================================================
