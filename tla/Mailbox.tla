------------------------------- MODULE Mailbox -------------------------------
(***************************************************************************)
(* The property mailbox: postman.c and its callers at start-up, in         *)
(* framebuffer.c, raspihwconfig.c and pigfx.c.  A request is a buffer on   *)
(* the caller's stack; the processor posts its address, the GPU answers in *)
(* the buffer and posts the address back.                                  *)
(*                                                                         *)
(* Time is left out: a wait may be given up whenever the mailbox is empty, *)
(* or full for a sender, and after each message that is skipped.  The GPU  *)
(* may be slow or dead, refuse a request, and post on other channels.      *)
(***************************************************************************)
EXTENDS Integers, Sequences, SequencesExt

CONSTANTS
  FIFO,                      \* messages each direction holds
  MAILBOX_MAX_MSG_TO_SKIP,
  RETRIES,                   \* n_retries of rhw_set_device_power, 10 in the code
  Frames, frame              \* addresses of buffers; [request -> the frame of its caller]

(* The requests of a start: fb_release, three of fb_init, the palette, the *)
(* size, then power and address for the USB stack.                         *)
Boot == <<"release", "display", "setup", "pitch", "palette", "size", "power", "mac">>
Requests == ToSet(Boot)

ASSUME MailboxAssumption ==
  /\ {FIFO, MAILBOX_MAX_MSG_TO_SKIP, RETRIES} \subseteq Nat \ {0}
  /\ frame \in [Requests -> Frames]

VARIABLES
  buffer,    \* [frame -> what it asks for, whether all of it is written, and word 1]
  toGpu,     \* addresses posted to the GPU
  fromGpu,   \* channels of the messages posted by the GPU
  pc, step,  \* the place in the call, and which request of Boot it makes
  skipped,   \* n_skipped of postman_recv
  waits,     \* receptions rhw_set_device_power may still try
  result,    \* [request -> what its call returned]
  served,    \* history: requests the GPU has carried out
  late       \* history: the caller stopped waiting for an answer

vars == <<buffer, toGpu, fromGpu, pc, step, skipped, waits, result, served, late>>

request == Boot[step]
own == frame[request]

-----------------------------------------------------------------------------
(* Where the program goes on: fb_init gives up after the first failure,    *)
(* and without power the USB stack asks for no address.                    *)
Following(outcome) ==
  CASE outcome = "success" -> step + 1
    [] outcome # "success" /\ request \in {"display", "setup"} -> 5
    [] outcome # "success" /\ request = "power" -> Len(Boot) + 1
    [] OTHER -> step + 1

Return(outcome) ==
  /\ result' = [result EXCEPT ![request] = outcome]
  /\ step' = Following(outcome)
  /\ pc' = IF step' > Len(Boot) THEN "done" ELSE "build"

(* fb_get_phisical_buffer_size looks at no result of the postman.          *)
Careless == request = "size"

(* The request is written word by word, the response code first; the GPU   *)
(* may come by before the rest is there.                                   *)
Build ==
  /\ pc = "build" /\ pc' = "fill"
  /\ buffer' = [buffer EXCEPT ![own] = [asks |-> request, whole |-> FALSE, code |-> "request"]]
  /\ UNCHANGED <<toGpu, fromGpu, step, skipped, waits, result, served, late>>

Fill ==
  /\ pc = "fill" /\ pc' = "send"
  /\ buffer' = [buffer EXCEPT ![own].whole = TRUE]
  /\ UNCHANGED <<toGpu, fromGpu, step, skipped, waits, result, served, late>>

-----------------------------------------------------------------------------
(* postman_send *)
Receiving == pc' = "receive" /\ skipped' = 0 /\ waits' = IF request = "power" THEN RETRIES ELSE 1

Send ==
  /\ pc = "send" /\ Len(toGpu) < FIFO
  /\ toGpu' = Append(toGpu, own) /\ Receiving
  /\ UNCHANGED <<buffer, fromGpu, step, result, served, late>>

SendTimeout ==
  /\ pc = "send" /\ Len(toGpu) = FIFO
  /\ IF Careless THEN Receiving /\ UNCHANGED <<step, result>>
     ELSE Return("postman_fail") /\ UNCHANGED <<skipped, waits>>
  /\ UNCHANGED <<buffer, toGpu, fromGpu, served, late>>

-----------------------------------------------------------------------------
(* postman_recv *)

(* Slip: power is asked for again before each new wait. *)
GiveUpResending ==
  /\ waits' = waits - 1 /\ skipped' = 0
  /\ IF waits > 1 THEN pc' = "send" /\ UNCHANGED <<step, result, late>>
     ELSE late' = TRUE /\ IF Careless THEN pc' = "check" /\ UNCHANGED <<step, result>>
                          ELSE Return("postman_fail")

(* A reception has failed.  rhw_set_device_power tries again.              *)
GiveUp ==
  /\ waits' = waits - 1 /\ skipped' = 0
  /\ IF waits > 1 THEN UNCHANGED <<pc, step, result, late>>
     ELSE late' = TRUE /\ IF Careless THEN pc' = "check" /\ UNCHANGED <<step, result>>
                          ELSE Return("postman_fail")

(* Any message of the channel will do: its address is not looked at.       *)
Take ==
  /\ pc = "receive" /\ fromGpu # <<>> /\ Head(fromGpu) = "property"
  /\ fromGpu' = Tail(fromGpu) /\ pc' = "check"
  /\ UNCHANGED <<buffer, toGpu, step, skipped, waits, result, served, late>>

(* Slip: skipped messages are not counted, nor is the clock looked at.     *)
SkipForEver ==
  /\ pc = "receive" /\ fromGpu # <<>> /\ Head(fromGpu) # "property"
  /\ fromGpu' = Tail(fromGpu)
  /\ UNCHANGED <<buffer, toGpu, pc, step, skipped, waits, result, served, late>>

(* A message of another channel is thrown away, up to a limit.             *)
Skip ==
  /\ pc = "receive" /\ fromGpu # <<>> /\ Head(fromGpu) # "property"
  /\ fromGpu' = Tail(fromGpu)
  /\ \/ GiveUp
     \/ /\ skipped + 1 < MAILBOX_MAX_MSG_TO_SKIP /\ skipped' = skipped + 1
        /\ UNCHANGED <<pc, step, waits, result, late>>
  /\ UNCHANGED <<buffer, toGpu, served>>

RecvTimeout ==
  /\ pc = "receive" /\ fromGpu = <<>>
  /\ GiveUp
  /\ UNCHANGED <<buffer, toGpu, fromGpu, served>>

-----------------------------------------------------------------------------
(* Slip: an answer is a success. *)
CheckNothing ==
  /\ pc = "check"
  /\ Return("success")
  /\ UNCHANGED <<buffer, toGpu, fromGpu, skipped, waits, served, late>>

(* The caller looks at the response code in its own buffer; that of the    *)
(* pitch at the code of the tag, which is cleared and answered with it.    *)
(* fb_init then looks for its tag, and for an address, a size and a pitch  *)
(* that are not zero: its errors are one here.                             *)
Check ==
  /\ pc = "check"
  /\ \/ buffer[own].code = "ok" /\ Return("success")
     \/ /\ buffer[own].code # "ok" \/ request \in {"setup", "pitch"}
        /\ Return("error")
  /\ UNCHANGED <<buffer, toGpu, fromGpu, skipped, waits, served, late>>

-----------------------------------------------------------------------------
(* The GPU answers the oldest address posted, whatever is there by now:    *)
(* half a request, or a frame that other calls have written over.          *)
Answer ==
  /\ toGpu # <<>> /\ Len(fromGpu) < FIFO
  /\ LET a == Head(toGpu)  current == pc # "done" /\ a = own IN
     /\ toGpu' = Tail(toGpu) /\ fromGpu' = Append(fromGpu, "property")
     /\ \E code \in {"ok", "refused"} :
          /\ buffer' = [buffer EXCEPT ![a].code = code]
          /\ \/ /\ code = "ok" /\ buffer[a].whole
                /\ served' = served \cup {buffer[a].asks}
             \/ /\ ~(code = "ok" /\ buffer[a].whole /\ current)
                /\ UNCHANGED served
  /\ UNCHANGED <<pc, step, skipped, waits, result, late>>

Foreign ==
  /\ Len(fromGpu) < FIFO /\ fromGpu' = Append(fromGpu, "other")
  /\ UNCHANGED <<buffer, toGpu, pc, step, skipped, waits, result, served, late>>

-----------------------------------------------------------------------------
Init ==
  /\ buffer = [f \in Frames |-> [asks |-> "nothing", whole |-> FALSE, code |-> "request"]]
  /\ toGpu = <<>> /\ fromGpu = <<>> /\ pc = "build" /\ step = 1
  /\ skipped = 0 /\ waits = 0 /\ result = [r \in Requests |-> "not_called"]
  /\ served = {} /\ late = FALSE

Program == Build \/ Fill \/ Send \/ SendTimeout \/ Take \/ Skip \/ RecvTimeout \/ Check

Next == Program \/ Answer \/ Foreign

Spec == Init /\ [][Next]_vars

(* The processor goes on; of the GPU nothing is assumed.                   *)
FairSpec == Spec /\ WF_vars(Program)

-----------------------------------------------------------------------------
(* Properties. *)

TypeOK ==
  /\ buffer \in [Frames -> [asks : Requests \cup {"nothing"}, whole : BOOLEAN,
                            code : {"request", "ok", "refused"}]]
  /\ toGpu \in Seq(Frames) /\ Len(toGpu) <= FIFO
  /\ fromGpu \in Seq({"property", "other"}) /\ Len(fromGpu) <= FIFO
  /\ pc \in {"build", "fill", "send", "receive", "check", "done"}
  /\ step \in 1 .. Len(Boot) + 1 /\ (step > Len(Boot) <=> pc = "done")
  /\ skipped \in 0 .. MAILBOX_MAX_MSG_TO_SKIP - 1 /\ waits \in 0 .. RETRIES
  /\ result \in [Requests -> {"not_called", "success", "error", "postman_fail"}]
  /\ served \subseteq Requests /\ late \in BOOLEAN

(* A call that reports success has been carried out, though the answer     *)
(* that ended its wait may be that of an earlier call given up on.         *)
SuccessServed == \A r \in Requests : result[r] = "success" => r \in served

(* Until a wait is given up for good, calls and answers stay in step: the  *)
(* GPU holds no address but that of the call that waits, there is one      *)
(* answer for it when it has been taken up and none for anyone else, and   *)
(* the answer that ends a wait is its own.  And every variable keeps its   *)
(* type.                                                                   *)
Answers == {i \in DOMAIN fromGpu : fromGpu[i] = "property"}

InStep ==
  /\ TypeOK
  /\ ~late =>
       /\ \/ pc = "receive" /\ toGpu = <<own>> /\ Answers = {}
          \/ pc = "receive" /\ toGpu = <<>> /\ \E i \in DOMAIN fromGpu : Answers = {i}
          \/ pc # "receive" /\ toGpu = <<>> /\ Answers = {}
       /\ pc = "check" => buffer[own].code # "request"

(* Start-up reaches its end, whatever the GPU does.                        *)
StartUpEnds == <>(pc = "done")
=============================================================================
