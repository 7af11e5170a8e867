------------------------------- MODULE DmaBell -------------------------------
(***************************************************************************)
(* The DMA queues of dma.c and their users: the terminal's own transfers   *)
(* on channel 0 (gfx.c), the bell on channels 1 and 2 (bell.c), the main   *)
(* loop that rings remembered bells, and the function keys, whose handler  *)
(* comes in an interrupt and uses channel 0 as well.                       *)
(*                                                                         *)
(* Main loop and handler run scripts of steps on shared state: wait for    *)
(* channel 0, write pixels, enqueue a transfer, execute a queue, ring.     *)
(* The engines run beside both.  Windows says at which steps of the main   *)
(* loop a key may come: the program takes no measure against any.  The     *)
(* main loop is that of the build with STANDALONE_TERMINAL, the only one   *)
(* that rings remembered bells.                                            *)
(***************************************************************************)
EXTENDS Integers, Sequences, SequencesExt

CONSTANTS
  DMA_SCBS,      \* control blocks of a channel
  MAX_PENDING,   \* bells remembered, 5 in the code
  Colours,       \* contents of the colour words
  Bytes,         \* what the host sends: members of Requests
  Windows,       \* [key -> the points of the main loop at which it may come]
  None

Channels == 0 .. 2
SPI0_TX_DMA_CHANNEL == 1
SPI0_RX_DMA_CHANNEL == 2

Requests == {"char", "erase", "clear", "scroll", "scroll_hidden", "bell"}
Keys == {"F10", "F12", "F11", "print_screen"}
Points == {"idle", "busy", "wait", "draw", "enqueue", "execute", "bell"}

ASSUME DmaAssumption ==
  /\ DMA_SCBS \in Nat \ {0} /\ MAX_PENDING \in Nat
  /\ Bytes \subseteq Requests
  /\ Windows \in [Keys -> SUBSET Points]

VARIABLES
  blocks,       \* ctr_blocks: [channel -> [block -> [op, next]]]
  curr_blk,     \* [channel -> blocks of the queue being filled]
  engine,       \* [channel -> [op, next]]: the transfer under way, the block after it
  colour,       \* mem_buff_dma: [word -> its colour]
  pending,      \* bells_pending_count
  at,           \* which test of term_main_loop comes next
  main, handler \* the steps the main loop and the key handler have still to do

vars == <<blocks, curr_blk, engine, colour, pending, at, main, handler>>

-----------------------------------------------------------------------------
(* Transfers and scripts. *)
Op(name, word, c) == [name |-> name, word |-> word, colour |-> c]

Clear(c)  == Op("clear", "bg", c)       \* gfx_clear
Fill(c)   == Op("fill", "fg", c)        \* gfx_fill_rect
Copy      == Op("copy", None, None)     \* gfx_scroll_down_dma: the rows above, ...
Blank(c)  == Op("blank", "bg", c)       \* ... the row at the bottom,
Cursor(c) == Op("cursor", "fg", c)      \* and the cursor on it
Tone(way) == Op(way, None, None)

Transfers == (UNION {{Clear(c), Fill(c), Blank(c), Cursor(c)} : c \in Colours})
               \cup {Copy, Tone("tx"), Tone("rx")}

ASSUME NoneAssumption == None \notin Nat \cup {"fg", "bg"} \cup Transfers

Step(kind)      == [kind |-> kind, ch |-> None, op |-> None]
Wait            == Step("wait")
Draw            == Step("draw")
Enqueue(ch, op) == [kind |-> "enqueue", ch |-> ch, op |-> op]
Execute(ch)     == [kind |-> "execute", ch |-> ch, op |-> None]

(* Slip: nothing waits for the transfer before the cursor is drawn again. *)
TransferUnawaited(op) == <<Enqueue(0, op), Execute(0), Draw>>

(* One transfer between two drawings of the cursor. *)
Transfer(op) == <<Enqueue(0, op), Execute(0), Wait, Draw>>

(* Slip: the cursor goes by a queue of its own. *)
ScrollTwice(c, d, shown) ==
  <<Enqueue(0, Copy), Enqueue(0, Blank(c)), Execute(0)>>
    \o IF shown THEN <<Enqueue(0, Cursor(d)), Execute(0)>> ELSE <<>>

(* The end of gfx_term_putstring below the last row; nothing waits for it. *)
Scroll(c, d, shown) ==
  <<Enqueue(0, Copy), Enqueue(0, Blank(c))>>
    \o (IF shown THEN <<Enqueue(0, Cursor(d))>> ELSE <<>>) \o <<Execute(0)>>

(* gfx_term_putstring given one character: what it does to channel 0. *)
Putchar(b, c, d) ==
  <<Wait>> \o
  CASE b = "char"          -> <<Draw>>
    [] b = "erase"         -> <<Draw>> \o Transfer(Fill(c))
    [] b = "clear"         -> <<Draw, Wait, Draw>> \o Transfer(Clear(c))
    [] b = "scroll"        -> <<Draw>> \o Scroll(c, d, TRUE)
    [] b = "scroll_hidden" -> <<Draw>> \o Scroll(c, d, FALSE)
    [] b = "bell"          -> <<Step("bell")>>

(* The function keys: F10 and F12 resize, F10 prints a banner; the strings *)
(* of F11 and Print Screen go through gfx_term_putstring, and the line     *)
(* feed of F11 may scroll, with the cursor shown or hidden by the host.    *)
Scripts(key, c, d) ==
  CASE key = "F12"          -> {Transfer(Clear(c))}
    [] key = "F10"          -> {Transfer(Clear(c)) \o <<Wait, Draw>>}
    [] key = "print_screen" -> {Putchar("clear", c, d)}
    [] key = "F11"          -> {Putchar("erase", c, d) \o Putchar(b, c, d) :
                                  b \in {"char"} \cup (Bytes \cap {"scroll", "scroll_hidden"})}

-----------------------------------------------------------------------------
(* dma.c *)
dma_running(ch) == engine[ch].op # None \/ engine[ch].next # None

(* The next control block is filled and linked to the one before. *)
Enqueued(ch, op) ==
  LET n == curr_blk[ch]
      filled == [blocks[ch] EXCEPT ![n] = [op |-> op, next |-> None]]
  IN  IF n > 0 THEN [filled EXCEPT ![n - 1].next = n] ELSE filled

(* A full queue refuses, and no caller looks. *)
dma_enqueue_operation(ch, op) ==
  /\ IF curr_blk[ch] = DMA_SCBS THEN UNCHANGED <<blocks, curr_blk>>
     ELSE /\ blocks' = [blocks EXCEPT ![ch] = Enqueued(ch, op)]
          /\ curr_blk' = [curr_blk EXCEPT ![ch] = @ + 1]
  /\ colour' = IF op.word = None THEN colour ELSE [colour EXCEPT ![op.word] = op.colour]
  /\ UNCHANGED <<engine, pending>>

(* Slip: the queue goes on growing after it has been run. *)
ExecuteKeepingQueue(ch) ==
  /\ engine' = [engine EXCEPT ![ch] = [op |-> None, next |-> 0]]
  /\ UNCHANGED <<blocks, curr_blk, colour, pending>>

dma_execute_queue(ch) ==
  /\ engine' = [engine EXCEPT ![ch] = [op |-> None, next |-> 0]]
  /\ curr_blk' = [curr_blk EXCEPT ![ch] = 0]
  /\ UNCHANGED <<blocks, colour, pending>>

(* An engine loads the next control block, and ends the transfer.          *)
Load(ch) ==
  /\ engine[ch].op = None /\ engine[ch].next # None
  /\ engine' = [engine EXCEPT ![ch] = blocks[ch][engine[ch].next]]
  /\ UNCHANGED <<blocks, curr_blk, colour, pending, at, main, handler>>

Finish(ch) ==
  /\ engine[ch].op # None
  /\ engine' = [engine EXCEPT ![ch].op = None]
  /\ UNCHANGED <<blocks, curr_blk, colour, pending, at, main, handler>>

-----------------------------------------------------------------------------
(* bell.c *)
bell_ringing == dma_running(SPI0_TX_DMA_CHANNEL) \/ dma_running(SPI0_RX_DMA_CHANNEL)

RingScript ==
  <<Enqueue(SPI0_TX_DMA_CHANNEL, Tone("tx")), Enqueue(SPI0_RX_DMA_CHANNEL, Tone("rx")),
    Execute(SPI0_TX_DMA_CHANNEL), Execute(SPI0_RX_DMA_CHANNEL)>>

(* Slip: a bell that rings is still remembered. *)
BellKeepingCount(rest) ==
  /\ IF bell_ringing
     THEN /\ pending' = IF pending < MAX_PENDING THEN pending + 1 ELSE pending
          /\ main' = rest
     ELSE UNCHANGED pending /\ main' = RingScript \o rest
  /\ UNCHANGED <<blocks, curr_blk, engine, colour>>

(* Slip: one bell too many is remembered. *)
BellPastLimit(rest) ==
  /\ IF bell_ringing
     THEN /\ pending' = IF pending <= MAX_PENDING THEN pending + 1 ELSE pending
          /\ main' = rest
     ELSE /\ pending' = IF pending > 0 THEN pending - 1 ELSE pending
          /\ main' = RingScript \o rest
  /\ UNCHANGED <<blocks, curr_blk, engine, colour>>

bell(rest) ==
  /\ IF bell_ringing
     THEN /\ pending' = IF pending < MAX_PENDING THEN pending + 1 ELSE pending
          /\ main' = rest
     ELSE /\ pending' = IF pending > 0 THEN pending - 1 ELSE pending
          /\ main' = RingScript \o rest
  /\ UNCHANGED <<blocks, curr_blk, engine, colour>>

-----------------------------------------------------------------------------
(* One step of a script: the busy wait holds it up. *)
Do(s) ==
  CASE s.kind = "wait"    -> ~dma_running(0)
                             /\ UNCHANGED <<blocks, curr_blk, engine, colour, pending>>
    [] s.kind = "draw"    -> UNCHANGED <<blocks, curr_blk, engine, colour, pending>>
    [] s.kind = "enqueue" -> dma_enqueue_operation(s.ch, s.op)
    [] s.kind = "execute" -> dma_execute_queue(s.ch)

(* The main loop goes on when the handler has returned. *)
Run ==
  /\ handler = <<>> /\ main # <<>>
  /\ IF Head(main).kind = "bell" THEN bell(Tail(main))
     ELSE Do(Head(main)) /\ main' = Tail(main)
  /\ UNCHANGED <<at, handler>>

(* term_main_loop looks for a remembered bell, ... *)
Look ==
  /\ handler = <<>> /\ main = <<>> /\ at = "bells"
  /\ main' = IF pending > 0 /\ ~bell_ringing THEN <<Wait, Step("bell")>> ELSE <<>>
  /\ at' = "byte"
  /\ UNCHANGED <<blocks, curr_blk, engine, colour, pending, handler>>

(* ... then for a byte, which it leaves in the UART while channel 0 runs.  *)
Take ==
  /\ handler = <<>> /\ main = <<>> /\ at = "byte"
  /\ \/ UNCHANGED main
     \/ /\ ~dma_running(0)
        /\ \E b \in Bytes, c \in Colours, d \in Colours : main' = Putchar(b, c, d)
  /\ at' = "bells"
  /\ UNCHANGED <<blocks, curr_blk, engine, colour, pending, handler>>

Handle ==
  /\ handler # <<>>
  /\ Do(Head(handler)) /\ handler' = Tail(handler)
  /\ UNCHANGED <<at, main>>

Point == IF main # <<>> THEN Head(main).kind ELSE IF dma_running(0) THEN "busy" ELSE "idle"

Press(key) ==
  /\ handler = <<>>
  /\ Point \in Windows[key]
  /\ \E c \in Colours, d \in Colours : handler' \in Scripts(key, c, d)
  /\ UNCHANGED <<blocks, curr_blk, engine, colour, pending, at, main>>

-----------------------------------------------------------------------------
Init ==
  /\ blocks = [ch \in Channels |-> [n \in 0 .. DMA_SCBS - 1 |-> [op |-> None, next |-> None]]]
  /\ curr_blk = [ch \in Channels |-> 0]
  /\ engine = [ch \in Channels |-> [op |-> None, next |-> None]]
  /\ colour \in [{"fg", "bg"} -> Colours]
  /\ pending = 0 /\ at = "bells" /\ main = <<>> /\ handler = <<>>

Main == Look \/ Take \/ Run

Next ==
  \/ Main \/ Handle
  \/ \E ch \in Channels : Load(ch) \/ Finish(ch)
  \/ \E key \in Keys : Press(key)

Spec == Init /\ [][Next]_vars

(* Nothing stops the main loop or the handler but a busy wait, the main    *)
(* loop goes on after an interrupt, and every transfer ends.  No key need  *)
(* ever be pressed.                                                        *)
FairSpec ==
  /\ Spec /\ SF_vars(Main) /\ WF_vars(Handle)
  /\ \A ch \in Channels : WF_vars(Load(ch)) /\ WF_vars(Finish(ch))

-----------------------------------------------------------------------------
(* Properties. *)

Block == [op : Transfers \cup {None}, next : 0 .. DMA_SCBS - 1 \cup {None}]

TypeOK ==
  /\ blocks \in [Channels -> [0 .. DMA_SCBS - 1 -> Block]]
  /\ curr_blk \in [Channels -> 0 .. DMA_SCBS]
  /\ engine \in [Channels -> Block]
  /\ colour \in [{"fg", "bg"} -> Colours]
  /\ pending \in 0 .. MAX_PENDING /\ at \in {"bells", "byte"}

(* A transfer as it would be done now: with the colour its word holds.     *)
AsDone(op) == IF op.word = None THEN op ELSE [op EXCEPT !.colour = colour[op.word]]

(* The transfers an engine has before it: the one under way, and the chain *)
(* of control blocks, no longer than there are blocks.                     *)
Links(ch) ==
  LET from[n \in 0 .. DMA_SCBS] ==
        [b \in (0 .. DMA_SCBS - 1) \cup {None} |->
           IF n = 0 \/ b = None THEN <<>>
           ELSE <<AsDone(blocks[ch][b].op)>> \o from[n - 1][blocks[ch][b].next]]
  IN  from

Chain(ch) ==
  (IF engine[ch].op = None THEN <<>> ELSE <<AsDone(engine[ch].op)>>)
    \o Links(ch)[DMA_SCBS][engine[ch].next]

Queue(ch) == [n \in 1 .. curr_blk[ch] |-> AsDone(blocks[ch][n - 1].op)]

(* The transfers a script has still to enqueue. *)
UpTo(script, ch) ==
  LET asked[n \in 0 .. Len(script)] ==
        IF n = 0 THEN <<>>
        ELSE asked[n - 1] \o IF script[n].kind = "enqueue" /\ script[n].ch = ch
                             THEN <<script[n].op>> ELSE <<>>
  IN  asked

Intended(script, ch) == UpTo(script, ch)[Len(script)]

JobSet ==
  (UNION {{<<Clear(c)>>, <<Fill(c)>>, <<Copy, Blank(c)>>} : c \in Colours})
    \cup {<<Copy, Blank(c), Cursor(d)>> : c \in Colours, d \in Colours}
    \cup {<<Fill(c), Copy, Blank(c)>> : c \in Colours}
    \cup {<<Fill(c), Copy, Blank(c), Cursor(d)>> : c \in Colours, d \in Colours}
    \cup {<<Tone("tx")>>, <<Tone("rx")>>}

Owed == [ch \in Channels |->
           Chain(ch) \o Queue(ch) \o Intended(handler, ch) \o Intended(main, ch)]

Promise == INSTANCE TransferQueue WITH Jobs <- JobSet, owed <- Owed

(* Every transfer a caller intends is done once, in order and with its own *)
(* colour: no block of a running chain is rewritten, no chain is started   *)
(* over, none is refused, no colour word changes under a transfer.         *)
ImplementsQueue == Promise!Spec

(* The processor writes pixels only while channel 0 is idle: neither the   *)
(* cursor nor a character is drawn into rows that are being moved.         *)
DrawsAlone ==
  LET running == IF handler # <<>> THEN handler ELSE main
  IN  running # <<>> /\ Head(running).kind = "draw" => ~dma_running(0)

(* Whatever is asked of a channel gets done: no busy wait lasts for ever,  *)
(* and nothing asked for stays in a queue that is not run.                 *)
JobsDone == \A ch \in Channels : []<>(Owed[ch] = <<>>) \/ []<><<Finish(ch)>>_vars

(* As long as bells are remembered tones go on starting, one for each that *)
(* is forgotten, unless keys keep channel 0 busy.                          *)
RememberedRing ==
  []<>(handler = <<>> /\ ~dma_running(0)) =>
    \/ []<>(pending = 0)
    \/ []<><<pending' < pending /\ main' = RingScript>>_vars
=============================================================================
