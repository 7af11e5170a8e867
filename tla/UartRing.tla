------------------------------ MODULE UartRing ------------------------------
(***************************************************************************)
(* The receive buffer of pigfx.c in the build without STANDALONE_TERMINAL: *)
(* a ring filled from the FIFO of the UART by uart_fill_queue, which runs  *)
(* both in the UART interrupt and in the main loop, and emptied by the     *)
(* main loop, with a line that tells the host to stop and to go on.        *)
(*                                                                         *)
(* A step of the main loop is one access to shared state, in the order of  *)
(* the compiled code (a call is evaluated before the pointer it is stored  *)
(* through); pc names the next one.  The interrupt runs to its end.        *)
(* Windows says at which values of pc it may come: nothing in the code     *)
(* keeps it out anywhere.  Dropping the oldest byte and stopping the host  *)
(* are one step each.                                                      *)
(***************************************************************************)
EXTENDS Integers, Sequences

CONSTANTS
  UART_BUFFER_SIZE, RTS_OFF_LIMIT, RTS_ON_LIMIT,
  FifoSize,   \* bytes the UART holds, 16 in the chip
  Trigger,    \* bytes in its FIFO that raise the interrupt, 8 in the chip
  Numbers,    \* the host numbers its bytes 0 .. Numbers - 1, again and again
  Windows,    \* values of pc at which the interrupt may come
  None        \* memory not written yet

Points == {"top", "take", "leave", "load", "count", "uncount", "rts", "resume", "low",
           "wrap_start", "show", "poll", "read", "put", "advance", "write", "wrap_end",
           "drop", "recount", "counted", "halt"}

ASSUME UartAssumption ==
  /\ {UART_BUFFER_SIZE, RTS_OFF_LIMIT, RTS_ON_LIMIT} \subseteq Nat
  /\ FifoSize \in Nat \ {0} /\ Trigger \in 1 .. FifoSize /\ Numbers \in Nat \ {0}
  /\ 0 < RTS_ON_LIMIT /\ RTS_ON_LIMIT <= RTS_OFF_LIMIT
  /\ RTS_OFF_LIMIT + FifoSize + 1 < UART_BUFFER_SIZE
  /\ Windows \subseteq Points

VARIABLES
  uart,     \* the buffer and its bookkeeping, see Uart
  pc, reg,  \* where the main loop is, and the pointer or count it has loaded
  strb,     \* the byte it has taken, or read from the FIFO
  fifo,     \* the FIFO of the UART
  sent,     \* the number of the host's next byte
  obeys     \* the host stops while the line is high

main == <<pc, reg, strb>>
vars == <<uart, main, fifo, sent, obeys>>

Bytes == 0 .. Numbers - 1
Index == 0 .. UART_BUFFER_SIZE - 1

(* Slot UART_BUFFER_SIZE is the memory after the buffer. *)
Uart == [buffer : [0 .. UART_BUFFER_SIZE -> Bytes \cup {None}],
         start : 0 .. UART_BUFFER_SIZE, end : 0 .. UART_BUFFER_SIZE,
         count : 0 .. UART_BUFFER_SIZE, rts_on : BOOLEAN, low : BOOLEAN]

Init ==
  /\ uart = [buffer |-> [i \in 0 .. UART_BUFFER_SIZE |-> None], start |-> 0, end |-> 0,
             count |-> 0, rts_on |-> TRUE, low |-> TRUE]
  /\ pc = "top" /\ reg = 0 /\ strb = None
  /\ fifo = <<>> /\ sent = 0
  /\ obeys \in BOOLEAN

-----------------------------------------------------------------------------
(* The statements of uart_fill_queue. *)
Written(u, at, b) == [u EXCEPT !.buffer[at] = b]

(* Slip: the pointer wraps one slot late. *)
WrapLate(u) == [u EXCEPT !.end = IF @ > UART_BUFFER_SIZE THEN 0 ELSE @]

WrapEnd(u) == [u EXCEPT !.end = IF @ >= UART_BUFFER_SIZE THEN 0 ELSE @]

(* Slip: a full buffer is taken for an empty one. *)
DropNothing(u) == u

DropOldest(u) ==
  IF u.end # u.start THEN u
  ELSE [u EXCEPT !.start = IF @ + 1 >= UART_BUFFER_SIZE THEN 0 ELSE @ + 1]

CountUp(u) == IF u.count < UART_BUFFER_SIZE THEN [u EXCEPT !.count = @ + 1] ELSE u

Halt(u) ==
  IF u.rts_on /\ u.count > RTS_OFF_LIMIT
  THEN [u EXCEPT !.rts_on = FALSE, !.low = FALSE] ELSE u

Queued(u, b) ==
  Halt(CountUp(DropOldest(WrapEnd(Written([u EXCEPT !.end = @ + 1], u.end, b)))))

(* The buffer after none, one, ... all of the bytes. *)
Filled(u, bytes) ==
  LET filled[i \in 0 .. Len(bytes)] ==
        IF i = 0 THEN u ELSE Queued(filled[i - 1], bytes[i])
  IN  filled

(* The interrupt: the FIFO has reached its trigger level. *)
uart_fill_queue ==
  /\ pc \in Windows
  /\ Len(fifo) >= Trigger
  /\ uart' = Filled(uart, fifo)[Len(fifo)]
  /\ fifo' = <<>>
  /\ UNCHANGED <<main, sent, obeys>>

(* The host sends the next byte. *)
Arrive ==
  /\ Len(fifo) < FifoSize
  /\ obeys => uart.low
  /\ fifo' = Append(fifo, sent)
  /\ sent' = (sent + 1) % Numbers
  /\ UNCHANGED <<uart, main, obeys>>

-----------------------------------------------------------------------------
(* The main loop: p is the next access, u the buffer, r and b what it holds. *)
Step(p, u, r, b) ==
  /\ pc' = p /\ uart' = u /\ reg' = r /\ strb' = b
  /\ UNCHANGED <<sent, obeys>>

(* It takes a byte when channel 0 of the DMA engine is idle, ...           *)
Ready ==
  /\ pc = "top" /\ uart.start # uart.end
  /\ Step("take", uart, reg, strb) /\ UNCHANGED fifo

(* ... and only polls the UART otherwise. *)
Busy == pc = "top" /\ Step("poll", uart, reg, strb) /\ UNCHANGED fifo

(* Slip: the host is never told to go on. *)
RtsNever ==
  pc = "rts" /\ Step("wrap_start", uart, reg, strb) /\ UNCHANGED fifo

Rts ==
  /\ pc = "rts"
  /\ Step(IF ~uart.rts_on /\ uart.count < RTS_ON_LIMIT THEN "resume" ELSE "wrap_start",
          uart, reg, strb)
  /\ UNCHANGED fifo

Take ==
  /\ \/ pc = "take"  /\ Step("leave", uart, uart.start, strb)
     \/ pc = "leave" /\ Step("load", [uart EXCEPT !.start = reg + 1], reg, strb)
     \/ pc = "load"  /\ Step("count", uart, reg, uart.buffer[reg])
     \/ pc = "count" /\ Step(IF uart.count > 0 THEN "uncount" ELSE "rts",
                             uart, uart.count, strb)
     \/ pc = "uncount" /\ Step("rts", [uart EXCEPT !.count = reg - 1], reg, strb)
     \/ pc = "resume" /\ Step("low", [uart EXCEPT !.rts_on = TRUE], reg, strb)
     \/ pc = "low"    /\ Step("wrap_start", [uart EXCEPT !.low = TRUE], reg, strb)
     \/ pc = "wrap_start" /\
          Step("show", [uart EXCEPT !.start = IF @ >= UART_BUFFER_SIZE THEN 0 ELSE @], reg, strb)
  /\ UNCHANGED fifo

(* gfx_term_putstring. *)
Show == pc = "show" /\ Step("poll", uart, 0, None) /\ UNCHANGED fifo

(* uart_fill_queue in the main loop. *)
(* Slip: the main loop leaves the FIFO to the interrupt. *)
PollNothing == pc = "poll" /\ Step("top", uart, reg, strb) /\ UNCHANGED fifo

Poll ==
  /\ pc = "poll"
  /\ Step(IF fifo # <<>> THEN "read" ELSE "top", uart, reg, strb)
  /\ UNCHANGED fifo

(* uart_read_byte waits for a byte. *)
Read ==
  /\ pc = "read" /\ fifo # <<>>
  /\ Step("put", uart, reg, Head(fifo)) /\ fifo' = Tail(fifo)

Fill ==
  /\ \/ pc = "put"     /\ Step("advance", uart, uart.end, strb)
     \/ pc = "advance" /\ Step("write", [uart EXCEPT !.end = reg + 1], reg, strb)
     \/ pc = "write"   /\ Step("wrap_end", Written(uart, reg, strb), 0, None)
     \/ pc = "wrap_end" /\ Step("drop", WrapEnd(uart), reg, strb)
     \/ pc = "drop"     /\ Step("recount", DropOldest(uart), reg, strb)
     \/ pc = "recount"  /\ Step(IF uart.count < UART_BUFFER_SIZE THEN "counted" ELSE "halt",
                                uart, uart.count, strb)
     \/ pc = "counted"  /\ Step("halt", [uart EXCEPT !.count = reg + 1], 0, strb)
     \/ pc = "halt"     /\ Step("poll", Halt(uart), reg, strb)
  /\ UNCHANGED fifo

Main == Ready \/ Busy \/ Take \/ Rts \/ Show \/ Poll \/ Read \/ Fill

Next == Main \/ uart_fill_queue \/ Arrive

Spec == Init /\ [][Next]_vars

(* The main loop goes on, and a transfer of the DMA engine ends. *)
FairSpec == Spec /\ WF_vars(Main) /\ SF_vars(Ready)

-----------------------------------------------------------------------------
(* Properties. *)

(* The bytes between start and end: none or a whole ring when they are     *)
(* equal, a whole ring only until the main loop has dropped the oldest.    *)
Length(start, end) ==
  IF pc \in {"wrap_end", "drop"} THEN ((end - start - 1) % UART_BUFFER_SIZE) + 1
                                 ELSE (end - start) % UART_BUFFER_SIZE

Content(start, end) ==
  [i \in 1 .. Length(start, end) |-> uart.buffer[(start + i - 1) % UART_BUFFER_SIZE]]

(* What has been sent and not yet shown: the byte taken, the buffer, the   *)
(* byte being put into it, the FIFO.                                       *)
Taken   == CASE pc = "load" -> <<uart.buffer[reg]>>
             [] pc \in {"count", "uncount", "rts", "resume", "low", "wrap_start", "show"} -> <<strb>>
             [] OTHER -> <<>>
Putting == IF pc \in {"put", "advance", "write"} THEN <<strb>> ELSE <<>>
Buffer  == Content(uart.start, IF pc = "write" THEN reg ELSE uart.end)
Waiting == Taken \o Buffer \o Putting \o fifo

Terminal == INSTANCE Channel WITH
  pending <- Waiting, Capacity <- UART_BUFFER_SIZE - 1

InBounds ==
  /\ uart \in Uart
  /\ uart.end = UART_BUFFER_SIZE => pc \in {"write", "wrap_end"}
  /\ uart.start = UART_BUFFER_SIZE =>
       pc \in {"load", "count", "uncount", "rts", "resume", "low", "wrap_start"}
  /\ pc \in Points /\ reg \in 0 .. UART_BUFFER_SIZE
  /\ strb \in Bytes \cup {None} /\ sent \in Bytes /\ obeys \in BOOLEAN
  /\ fifo \in Seq(Bytes) /\ Len(fifo) <= FifoSize

(* The memory after the buffer is never written. *)
TypeOK == InBounds /\ uart.buffer[UART_BUFFER_SIZE] = None

(* Bytes are shown in the order they were sent, and none is lost by a host *)
(* that stops when it is told to (uart_fill_queue, term_main_loop).        *)
ImplementsChannel == Terminal!Spec

(* A host that waits for the line is always told to go on.                 *)
HostResumed == obeys /\ ~uart.low ~> uart.low

(* A byte that waits in the UART or in the buffer leads to a byte shown,   *)
(* unless the host sends faster than the loop of uart_fill_queue reads.    *)
BytesShown ==
  []<>(pc = "top") \/ <>[](pc = "read") => (fifo # <<>> \/ Buffer # <<>> ~> pc = "show")
=============================================================================
