--------------------------- MODULE DmaBellProofs ---------------------------
(***************************************************************************)
(* The DMA queues and the bell, for every number of control blocks and of  *)
(* bells remembered.  Types need no assumption.  That pixels are written   *)
(* only while channel 0 is idle needs one: no key comes between the wait   *)
(* for the channel and the drawing, which nothing in the code ensures.     *)
(*                                                                         *)
(* The second half proves the refinement of TransferQueue.  It goes from   *)
(* the chains of control blocks (how they are linked, what a block, an     *)
(* execution or the end of a transfer does to what is owed) by way of the  *)
(* scripts (what each asks for, and in which order its steps come) to      *)
(* QueueInv, which says how far the queue is where a script is.  Chains    *)
(* and scripts are walked by recursive functions; what holds along them is *)
(* proved by the least place at which it might fail.                       *)
(*                                                                         *)
(* The handlers share channel 0 with the main loop and channels 1 and 2    *)
(* with nobody.  So the promise on all three is proved of the runs whose   *)
(* keys come at no step of a script, which nothing in the code ensures;    *)
(* the promise on the bell's two, at the end, of every run.                *)
(***************************************************************************)
EXTENDS DmaBell, FiniteSetTheorems, SequenceTheorems, WellFoundedInduction, TLAPS

Kinds == {"wait", "draw", "enqueue", "execute", "bell"}

(* The steps that scripts are made of. *)
Steps ==
  {s \in [kind : Kinds, ch : Channels \cup {None}, op : Transfers \cup {None}] :
     /\ s.kind = "enqueue" => s.ch \in Channels /\ s.op \in Transfers
     /\ s.kind = "execute" => s.ch \in Channels}

Typed ==
  /\ TypeOK
  /\ main \in Seq(Steps) /\ handler \in Seq(Steps)
  /\ \A n \in DOMAIN handler : handler[n].kind # "bell"

(* Scripts draw right after they have waited.  What is left of one may     *)
(* begin with the drawing, ...                                             *)
Continues(s) ==
  \A i \in DOMAIN s : s[i].kind = "draw" => i = 1 \/ s[i - 1].kind = "wait"

Guarded(s) == Continues(s) /\ (s # <<>> => s[1].kind # "draw")

(* ... but only while channel 0 is idle. *)
Ready(s) == Continues(s) /\ (Guarded(s) \/ ~dma_running(0))

DrawInv ==
  /\ Guarded(IF handler = <<>> THEN <<>> ELSE main)
  /\ Ready(IF handler = <<>> THEN main ELSE handler)

(* No key between a wait and the drawing after it. *)
Undisturbed == \A key \in Keys : "draw" \notin Windows[key]

-----------------------------------------------------------------------------
(* The transfers and the steps of scripts. *)
LEMMA TransfersAre ==
  /\ \A c \in Colours : {Clear(c), Fill(c), Blank(c), Cursor(c)} \subseteq Transfers
  /\ {Copy, Tone("tx"), Tone("rx")} \subseteq Transfers
<1>1. ASSUME NEW c \in Colours PROVE {Clear(c), Fill(c), Blank(c), Cursor(c)} \subseteq Transfers
  <2>1. {Clear(c), Fill(c), Blank(c), Cursor(c)} \in
          {{Clear(x), Fill(x), Blank(x), Cursor(x)} : x \in Colours}
    OBVIOUS
  <2>2. QED
    BY <2>1, Zenon DEF Transfers
<1>2. {Copy, Tone("tx"), Tone("rx")} \subseteq Transfers
  BY Zenon DEF Transfers
<1>3. QED
  BY <1>1, <1>2

LEMMA TransferOperands ==
  ASSUME NEW op \in Transfers
  PROVE  op.word = None \/ (op.word \in {"fg", "bg"} /\ op.colour \in Colours)
<1>1. CASE op \in {Copy, Tone("tx"), Tone("rx")}
  BY <1>1 DEF Copy, Tone, Op
<1>2. CASE \E c \in Colours : op \in {Clear(c), Fill(c), Blank(c), Cursor(c)}
  BY <1>2 DEF Clear, Fill, Blank, Cursor, Op
<1>3. op \in {Copy, Tone("tx"), Tone("rx")}
      \/ \E c \in Colours : op \in {Clear(c), Fill(c), Blank(c), Cursor(c)}
  BY Zenon DEF Transfers
<1>4. QED
  BY <1>1, <1>2, <1>3

LEMMA StepTypes ==
  /\ Wait \in Steps /\ Wait.kind = "wait"
  /\ Draw \in Steps /\ Draw.kind = "draw"
  /\ Step("bell") \in Steps /\ Step("bell").kind = "bell"
  /\ \A ch \in Channels : Execute(ch) \in Steps /\ Execute(ch).kind = "execute"
  /\ \A ch \in Channels, op \in Transfers :
       Enqueue(ch, op) \in Steps /\ Enqueue(ch, op).kind = "enqueue"
BY DEF Wait, Draw, Step, Execute, Enqueue, Steps, Kinds

LEMMA ChannelsAre ==
  0 \in Channels /\ SPI0_TX_DMA_CHANNEL \in Channels /\ SPI0_RX_DMA_CHANNEL \in Channels
BY DEF Channels, SPI0_TX_DMA_CHANNEL, SPI0_RX_DMA_CHANNEL

(* Scripts put together. *)
Bellless(s) == \A n \in DOMAIN s : s[n].kind # "bell"

LEMMA Joined ==
  ASSUME NEW s \in Seq(Steps), NEW t \in Seq(Steps)
  PROVE  /\ s \o t \in Seq(Steps)
         /\ Bellless(s) /\ Bellless(t) => Bellless(s \o t)
         /\ Continues(s) /\ Guarded(t) => Continues(s \o t)
         /\ Guarded(s) /\ Guarded(t) => Guarded(s \o t)
<1> DEFINE j == s \o t
<1>1. /\ j \in Seq(Steps) /\ Len(j) = Len(s) + Len(t) /\ Len(s) \in Nat /\ Len(t) \in Nat
      /\ DOMAIN s = 1 .. Len(s) /\ DOMAIN t = 1 .. Len(t) /\ DOMAIN j = 1 .. Len(j)
  OBVIOUS
<1>2. /\ \A i \in 1 .. Len(s) : j[i] = s[i]
      /\ \A i \in Len(s) + 1 .. Len(j) : i - Len(s) \in 1 .. Len(t) /\ j[i] = t[i - Len(s)]
  BY <1>1
<1> HIDE DEF j
<1>3. ASSUME Bellless(s), Bellless(t) PROVE Bellless(j)
  <2>1. ASSUME NEW i \in DOMAIN j PROVE j[i].kind # "bell"
    <3>1. CASE i \in 1 .. Len(s)
      BY <1>1, <1>2, <1>3, <3>1 DEF Bellless
    <3>2. CASE i \in Len(s) + 1 .. Len(j)
      BY <1>1, <1>2, <1>3, <3>2 DEF Bellless
    <3>3. QED
      BY <1>1, <3>1, <3>2
  <2>2. QED
    BY <2>1 DEF Bellless
<1>4. ASSUME Continues(s), Guarded(t) PROVE Continues(j)
  <2>1. ASSUME NEW i \in DOMAIN j, j[i].kind = "draw" PROVE i = 1 \/ j[i - 1].kind = "wait"
    <3>1. CASE i \in 1 .. Len(s)
      <4>1. i = 1 \/ i - 1 \in 1 .. Len(s)
        BY <1>1, <3>1
      <4>2. QED
        BY <1>1, <1>2, <1>4, <2>1, <3>1, <4>1 DEF Continues
    <3>2. CASE i \in Len(s) + 1 .. Len(j)
      <4> DEFINE k == i - Len(s)
      <4>1. k \in DOMAIN t /\ t[k].kind = "draw"
        BY <1>1, <1>2, <2>1, <3>2
      <4>2. k # 1 /\ t[k - 1].kind = "wait"
        BY <1>1, <1>4, <4>1 DEF Guarded, Continues
      <4>3. i - 1 \in Len(s) + 1 .. Len(j) /\ i - 1 - Len(s) = k - 1
        BY <1>1, <3>2, <4>2
      <4>4. QED
        BY <1>2, <4>2, <4>3
    <3>3. QED
      BY <1>1, <2>1, <3>1, <3>2
  <2>2. QED
    BY <2>1 DEF Continues
<1>5. ASSUME Guarded(s), Guarded(t), j # <<>> PROVE j[1].kind # "draw"
  <2>1. CASE s = <<>>
    BY <1>1, <1>2, <1>5, <2>1 DEF Guarded
  <2>2. CASE s # <<>>
    BY <1>1, <1>2, <1>5, <2>2 DEF Guarded
  <2>3. QED
    BY <2>1, <2>2
<1>6. QED
  BY <1>1, <1>3, <1>4, <1>5 DEF Guarded, j

(* A wait in front lets a script begin with the drawing. *)
LEMMA AfterWait ==
  ASSUME NEW s \in Seq(Steps), Continues(s)
  PROVE  <<Wait>> \o s \in Seq(Steps) /\ Guarded(<<Wait>> \o s)
<1> DEFINE j == <<Wait>> \o s
<1>1. <<Wait>> \in Seq(Steps) /\ Len(<<Wait>>) = 1
  BY StepTypes
<1>2. /\ j \in Seq(Steps) /\ DOMAIN j = 1 .. Len(s) + 1 /\ j[1] = Wait
      /\ DOMAIN s = 1 .. Len(s) /\ Len(s) \in Nat
      /\ \A i \in 2 .. Len(s) + 1 : j[i] = s[i - 1]
  BY <1>1
<1> HIDE DEF j
<1>3. ASSUME NEW i \in DOMAIN j, j[i].kind = "draw", i # 1 PROVE j[i - 1].kind = "wait"
  <2>1. i \in 2 .. Len(s) + 1 /\ i - 1 \in DOMAIN s /\ s[i - 1].kind = "draw"
    BY <1>2, <1>3
  <2>2. CASE i = 2
    BY <1>2, <2>2, StepTypes
  <2>3. CASE i # 2
    <3>1. i - 1 \in 2 .. Len(s) + 1
      BY <2>1, <2>3
    <3>2. QED
      BY <1>2, <2>1, <2>3, <3>1, SMTT(60) DEF Continues
  <2>4. QED
    BY <2>2, <2>3
<1>4. QED
  BY <1>2, <1>3, StepTypes DEF Guarded, Continues, j

LEMMA Rest ==
  ASSUME NEW s \in Seq(Steps), s # <<>>
  PROVE  /\ Tail(s) \in Seq(Steps) /\ Head(s) = s[1] /\ Head(s) \in Steps
         /\ Bellless(s) => Bellless(Tail(s)) /\ Head(s).kind # "bell"
         /\ Continues(s) => Continues(Tail(s))
         /\ Continues(s) /\ Head(s).kind # "wait" => Guarded(Tail(s))
<1>1. /\ Tail(s) \in Seq(Steps) /\ DOMAIN Tail(s) = 1 .. Len(s) - 1 /\ Len(s) \in Nat
      /\ DOMAIN s = 1 .. Len(s) /\ Len(s) # 0 /\ Head(s) = s[1] /\ Head(s) \in Steps
      /\ \A i \in 1 .. Len(s) - 1 : Tail(s)[i] = s[i + 1]
  OBVIOUS
<1>2. Bellless(s) => Bellless(Tail(s)) /\ Head(s).kind # "bell"
  BY <1>1 DEF Bellless
<1>3. ASSUME Continues(s), NEW i \in DOMAIN Tail(s), Tail(s)[i].kind = "draw"
      PROVE  s[i].kind = "wait" /\ (i # 1 => Tail(s)[i - 1].kind = "wait")
  <2> DEFINE k == i + 1
  <2>1. k \in DOMAIN s /\ k # 1 /\ k - 1 = i /\ s[k].kind = "draw"
    BY <1>1, <1>3
  <2> HIDE DEF k
  <2>2. s[i].kind = "wait"
    BY <1>3, <2>1 DEF Continues
  <2>3. i # 1 => i - 1 \in 1 .. Len(s) - 1 /\ i - 1 + 1 = i
    BY <1>1
  <2>4. QED
    BY <1>1, <2>2, <2>3
<1>4. Continues(s) => Continues(Tail(s))
  BY <1>3 DEF Continues
<1>5. Continues(s) /\ Head(s).kind # "wait" /\ Tail(s) # <<>> => Tail(s)[1].kind # "draw"
  <2>1. Tail(s) # <<>> => 1 \in DOMAIN Tail(s)
    BY <1>1
  <2>2. QED
    BY <1>1, <1>3, <2>1
<1>6. QED
  BY <1>1, <1>2, <1>4, <1>5 DEF Guarded

-----------------------------------------------------------------------------
(* The scripts of the program. *)
Script(s) == s \in Seq(Steps) /\ Guarded(s)

LEMMA ShortScripts ==
  /\ \A x \in Steps : <<x>> \in Seq(Steps) /\ Continues(<<x>>)
                      /\ (x.kind # "draw" => Guarded(<<x>>))
                      /\ (x.kind # "bell" => Bellless(<<x>>))
  /\ \A x, y \in Steps : x.kind # "draw" /\ y.kind # "draw" =>
       /\ <<x, y>> \in Seq(Steps) /\ Guarded(<<x, y>>)
       /\ x.kind # "bell" /\ y.kind # "bell" => Bellless(<<x, y>>)
  /\ <<Wait, Draw>> \in Seq(Steps) /\ Guarded(<<Wait, Draw>>) /\ Bellless(<<Wait, Draw>>)
  /\ <<>> \in Seq(Steps) /\ Guarded(<<>>) /\ Bellless(<<>>)
<1>1. ASSUME NEW x \in Steps
      PROVE  <<x>> \in Seq(Steps) /\ DOMAIN <<x>> = {1} /\ <<x>>[1] = x
  OBVIOUS
<1>2. ASSUME NEW x \in Steps, NEW y \in Steps
      PROVE  /\ <<x, y>> \in Seq(Steps) /\ DOMAIN <<x, y>> = {1, 2}
             /\ <<x, y>>[1] = x /\ <<x, y>>[2] = y
  OBVIOUS
<1>3. <<>> \in Seq(Steps) /\ DOMAIN <<>> = {}
  OBVIOUS
<1>4. \A x \in Steps : <<x>> \in Seq(Steps) /\ Continues(<<x>>)
                       /\ (x.kind # "draw" => Guarded(<<x>>))
                       /\ (x.kind # "bell" => Bellless(<<x>>))
  BY <1>1 DEF Continues, Guarded, Bellless
<1>5. \A x, y \in Steps : x.kind # "draw" /\ y.kind # "draw" =>
        /\ <<x, y>> \in Seq(Steps) /\ Guarded(<<x, y>>)
        /\ x.kind # "bell" /\ y.kind # "bell" => Bellless(<<x, y>>)
  BY <1>2 DEF Continues, Guarded, Bellless
<1>6. <<Wait, Draw>> \in Seq(Steps) /\ Guarded(<<Wait, Draw>>) /\ Bellless(<<Wait, Draw>>)
  <2>1. /\ <<Wait, Draw>> \in Seq(Steps) /\ DOMAIN <<Wait, Draw>> = {1, 2}
        /\ <<Wait, Draw>>[1] = Wait /\ <<Wait, Draw>>[2] = Draw
    BY <1>2, StepTypes
  <2> DEFINE w == <<Wait, Draw>>
  <2> HIDE DEF w
  <2>2. w \in Seq(Steps) /\ DOMAIN w = {1, 2} /\ w[1].kind = "wait" /\ w[2].kind = "draw"
    BY <2>1, StepTypes DEF w
  <2>3. Guarded(w) /\ Bellless(w)
    BY <2>2 DEF Continues, Guarded, Bellless
  <2>4. QED
    BY <2>2, <2>3 DEF w
<1>7. <<>> \in Seq(Steps) /\ Guarded(<<>>) /\ Bellless(<<>>)
  BY <1>3 DEF Continues, Guarded, Bellless
<1>8. QED
  BY <1>4, <1>5, <1>6, <1>7

LEMMA TransferScript ==
  ASSUME NEW op \in Transfers
  PROVE  Script(Transfer(op)) /\ Bellless(Transfer(op))
<1> DEFINE run == <<Enqueue(0, op), Execute(0)>>
           end == <<Wait, Draw>>
<1>1. run \in Seq(Steps) /\ Guarded(run) /\ Bellless(run)
  BY StepTypes, ChannelsAre, ShortScripts
<1>2. end \in Seq(Steps) /\ Guarded(end) /\ Bellless(end)
  BY ShortScripts
<1>3. Transfer(op) = run \o end
  BY StepTypes, ChannelsAre DEF Transfer
<1> HIDE DEF run, end
<1>4. QED
  BY <1>1, <1>2, <1>3, Joined DEF Script

LEMMA ScrollScript ==
  ASSUME NEW c \in Colours, NEW d \in Colours, NEW shown \in BOOLEAN
  PROVE  Script(Scroll(c, d, shown)) /\ Bellless(Scroll(c, d, shown))
<1> DEFINE move == <<Enqueue(0, Copy), Enqueue(0, Blank(c))>>
           cursor == IF shown THEN <<Enqueue(0, Cursor(d))>> ELSE <<>>
           end == <<Execute(0)>>
<1>1. Copy \in Transfers /\ Blank(c) \in Transfers /\ Cursor(d) \in Transfers
  BY TransfersAre
<1>2. move \in Seq(Steps) /\ Guarded(move) /\ Bellless(move)
  BY <1>1, StepTypes, ChannelsAre, ShortScripts
<1>3. cursor \in Seq(Steps) /\ Guarded(cursor) /\ Bellless(cursor)
  BY <1>1, StepTypes, ChannelsAre, ShortScripts
<1>4. end \in Seq(Steps) /\ Guarded(end) /\ Bellless(end)
  BY StepTypes, ChannelsAre, ShortScripts
<1>5. Scroll(c, d, shown) = (move \o cursor) \o end
  BY DEF Scroll
<1> HIDE DEF move, cursor, end
<1>6. move \o cursor \in Seq(Steps) /\ Guarded(move \o cursor) /\ Bellless(move \o cursor)
  BY <1>2, <1>3, Joined
<1>7. QED
  BY <1>4, <1>5, <1>6, Joined DEF Script

LEMMA PutcharScript ==
  ASSUME NEW b \in Requests, NEW c \in Colours, NEW d \in Colours
  PROVE  Script(Putchar(b, c, d)) /\ (b # "bell" => Bellless(Putchar(b, c, d)))
<1> DEFINE draw == <<Draw>>
           twice == <<Draw, Wait, Draw>>
<1>1. draw \in Seq(Steps) /\ Continues(draw) /\ Bellless(draw)
  BY StepTypes, ShortScripts
<1>2. twice \in Seq(Steps) /\ Continues(twice) /\ Bellless(twice)
  <2>1. twice = <<Draw>> \o <<Wait, Draw>>
    BY StepTypes
  <2>2. QED
    BY <1>1, <2>1, ShortScripts, Joined
<1>3. Fill(c) \in Transfers /\ Clear(c) \in Transfers
  BY TransfersAre
<1> HIDE DEF draw, twice
<1>4. ASSUME NEW s, Script(s), Bellless(s)
      PROVE  /\ draw \o s \in Seq(Steps) /\ Continues(draw \o s) /\ Bellless(draw \o s)
             /\ twice \o s \in Seq(Steps) /\ Continues(twice \o s) /\ Bellless(twice \o s)
  BY <1>1, <1>2, <1>4, Joined DEF Script
<1>5. ASSUME NEW s \in Seq(Steps), Continues(s)
      PROVE  Script(<<Wait>> \o s) /\ (Bellless(s) => Bellless(<<Wait>> \o s))
  BY <1>5, AfterWait, Joined, StepTypes, ShortScripts DEF Script
<1>6. CASE b = "char"
  <2>1. Putchar(b, c, d) = <<Wait>> \o draw
    BY <1>6 DEF Putchar, draw
  <2>2. QED
    BY <1>1, <1>5, <2>1
<1>7. CASE b = "erase"
  <2>1. Putchar(b, c, d) = <<Wait>> \o (draw \o Transfer(Fill(c)))
    BY <1>7 DEF Putchar, draw
  <2>2. QED
    BY <1>3, <1>4, <1>5, <2>1, TransferScript
<1>8. CASE b = "clear"
  <2>1. Putchar(b, c, d) = <<Wait>> \o (twice \o Transfer(Clear(c)))
    BY <1>8 DEF Putchar, twice
  <2>2. QED
    BY <1>3, <1>4, <1>5, <2>1, TransferScript
<1>9. CASE b \in {"scroll", "scroll_hidden"}
  <2>1. PICK shown \in BOOLEAN : Putchar(b, c, d) = <<Wait>> \o (draw \o Scroll(c, d, shown))
    BY <1>9 DEF Putchar, draw
  <2>2. QED
    BY <1>4, <1>5, <2>1, ScrollScript
<1>10. CASE b = "bell"
  <2>1. Putchar(b, c, d) = <<Wait>> \o <<Step("bell")>>
    BY <1>10 DEF Putchar
  <2>2. QED
    BY <1>5, <1>10, <2>1, StepTypes, ShortScripts
<1>11. QED
  BY <1>6, <1>7, <1>8, <1>9, <1>10 DEF Requests

LEMMA KeyScript ==
  ASSUME NEW key \in Keys, NEW c \in Colours, NEW d \in Colours, NEW s \in Scripts(key, c, d)
  PROVE  Script(s) /\ Bellless(s)
<1>1. Clear(c) \in Transfers
  BY TransfersAre
<1>2. CASE key = "F12"
  <2>1. s = Transfer(Clear(c))
    BY <1>2 DEF Scripts
  <2>2. QED
    BY <1>1, <2>1, TransferScript
<1>3. CASE key = "F10"
  <2>1. s = Transfer(Clear(c)) \o <<Wait, Draw>>
    BY <1>3 DEF Scripts
  <2>2. QED
    BY <1>1, <2>1, TransferScript, ShortScripts, Joined DEF Script
<1>4. CASE key = "print_screen"
  <2>1. s = Putchar("clear", c, d) /\ "clear" \in Requests
    BY <1>4 DEF Scripts, Requests
  <2>2. QED
    BY <2>1, PutcharScript
<1>5. CASE key = "F11"
  <2>1. PICK b \in {"char"} \cup (Bytes \cap {"scroll", "scroll_hidden"}) :
          s = Putchar("erase", c, d) \o Putchar(b, c, d)
    BY <1>5 DEF Scripts
  <2>2. b \in Requests /\ b # "bell" /\ "erase" \in Requests
    BY DEF Requests
  <2>3. QED
    BY <2>1, <2>2, PutcharScript, Joined DEF Script
<1>6. QED
  BY <1>2, <1>3, <1>4, <1>5 DEF Keys

LEMMA RingScriptIs == Script(RingScript)
<1> DEFINE ask == <<Enqueue(SPI0_TX_DMA_CHANNEL, Tone("tx")), Enqueue(SPI0_RX_DMA_CHANNEL, Tone("rx"))>>
           run == <<Execute(SPI0_TX_DMA_CHANNEL), Execute(SPI0_RX_DMA_CHANNEL)>>
<1>1. ask \in Seq(Steps) /\ Guarded(ask)
  BY StepTypes, ChannelsAre, TransfersAre, ShortScripts
<1>2. run \in Seq(Steps) /\ Guarded(run)
  BY StepTypes, ChannelsAre, ShortScripts
<1>3. RingScript = ask \o run
  BY StepTypes, ChannelsAre, TransfersAre DEF RingScript
<1> HIDE DEF ask, run
<1>4. QED
  BY <1>1, <1>2, <1>3, Joined DEF Script

-----------------------------------------------------------------------------
(* What a step of a script does to the channels. *)
EngineTyped ==
  /\ blocks \in [Channels -> [0 .. DMA_SCBS - 1 -> Block]]
  /\ curr_blk \in [Channels -> 0 .. DMA_SCBS]
  /\ engine \in [Channels -> Block]
  /\ colour \in [{"fg", "bg"} -> Colours]
  /\ pending \in 0 .. MAX_PENDING

LEMMA EnqueueTyped ==
  ASSUME EngineTyped, NEW ch \in Channels, NEW op \in Transfers, dma_enqueue_operation(ch, op)
  PROVE  EngineTyped'
<1>1. colour' \in [{"fg", "bg"} -> Colours] /\ engine' = engine /\ pending' = pending
  BY TransferOperands DEF EngineTyped, dma_enqueue_operation
<1>2. CASE curr_blk[ch] = DMA_SCBS
  BY <1>1, <1>2 DEF EngineTyped, dma_enqueue_operation
<1>3. CASE curr_blk[ch] # DMA_SCBS
  <2> DEFINE n == curr_blk[ch]
             new == [op |-> op, next |-> None]
             filled == [blocks[ch] EXCEPT ![n] = new]
  <2>1. n \in 0 .. DMA_SCBS - 1 /\ n + 1 \in 0 .. DMA_SCBS
    BY <1>3, DmaAssumption DEF EngineTyped
  <2>2. new \in Block
    BY DEF Block
  <2>3. blocks[ch] \in [0 .. DMA_SCBS - 1 -> Block]
    BY DEF EngineTyped
  <2> HIDE DEF new
  <2>4. filled \in [0 .. DMA_SCBS - 1 -> Block]
    BY <2>1, <2>2, <2>3
  <2> HIDE DEF filled, n
  <2>5. n > 0 => [filled EXCEPT ![n - 1].next = n] \in [0 .. DMA_SCBS - 1 -> Block]
    BY <2>1, <2>4 DEF Block
  <2>6. Enqueued(ch, op) = IF n > 0 THEN [filled EXCEPT ![n - 1].next = n] ELSE filled
    BY DEF Enqueued, filled, n, new
  <2>7. Enqueued(ch, op) \in [0 .. DMA_SCBS - 1 -> Block]
    BY <2>4, <2>5, <2>6
  <2>8. blocks' = [blocks EXCEPT ![ch] = Enqueued(ch, op)]
        /\ curr_blk' = [curr_blk EXCEPT ![ch] = n + 1]
    BY <1>3 DEF dma_enqueue_operation, n
  <2>9. QED
    BY <1>1, <2>1, <2>7, <2>8 DEF EngineTyped
<1>4. QED
  BY <1>2, <1>3

LEMMA ExecuteTyped ==
  ASSUME EngineTyped, NEW ch \in Channels, dma_execute_queue(ch)
  PROVE  EngineTyped'
<1>1. [op |-> None, next |-> 0] \in Block /\ 0 \in 0 .. DMA_SCBS
  BY DmaAssumption DEF Block
<1>2. QED
  BY <1>1 DEF EngineTyped, dma_execute_queue

(* Channel 0 starts only when it is executed. *)
LEMMA DoTyped ==
  ASSUME EngineTyped, NEW s \in Steps, s.kind # "bell", Do(s)
  PROVE  /\ EngineTyped'
         /\ s.kind = "wait" => ~dma_running(0)
         /\ s.kind # "execute" => engine' = engine
<1>1. CASE s.kind = "wait" \/ s.kind = "draw"
  <2>1. UNCHANGED <<blocks, curr_blk, engine, colour, pending>>
        /\ (s.kind = "wait" => ~dma_running(0))
    BY <1>1 DEF Do
  <2>2. QED
    BY <1>1, <2>1 DEF EngineTyped
<1>2. CASE s.kind = "enqueue"
  <2>1. dma_enqueue_operation(s.ch, s.op) /\ s.ch \in Channels /\ s.op \in Transfers
    BY <1>2 DEF Do, Steps
  <2>2. engine' = engine
    BY <2>1 DEF dma_enqueue_operation
  <2>3. QED
    BY <1>2, <2>1, <2>2, EnqueueTyped
<1>3. CASE s.kind = "execute"
  <2>1. dma_execute_queue(s.ch) /\ s.ch \in Channels
    BY <1>3 DEF Do, Steps
  <2>2. QED
    BY <1>3, <2>1, ExecuteTyped
<1>4. QED
  BY <1>1, <1>2, <1>3 DEF Steps, Kinds

LEMMA BellTyped ==
  ASSUME EngineTyped, NEW rest \in Seq(Steps), bell(rest)
  PROVE  /\ EngineTyped' /\ engine' = engine /\ main' \in Seq(Steps)
         /\ Guarded(rest) => Guarded(main')
<1>1. pending' \in 0 .. MAX_PENDING
  BY DmaAssumption DEF EngineTyped, bell
<1>2. EngineTyped' /\ engine' = engine
  BY <1>1 DEF EngineTyped, bell
<1>3. main' = rest \/ main' = RingScript \o rest
  BY DEF bell
<1>4. QED
  BY <1>2, <1>3, RingScriptIs, Joined DEF Script

(* The engines: a channel that does not run starts nothing. *)
LEMMA EngineTypes ==
  ASSUME EngineTyped, NEW ch \in Channels, Load(ch) \/ Finish(ch)
  PROVE  engine' \in [Channels -> Block] /\ (~dma_running(0) => ~dma_running(0)')
<1>1. CASE Load(ch)
  <2>1. engine[ch].next \in 0 .. DMA_SCBS - 1 /\ dma_running(ch)
    BY <1>1 DEF Load, EngineTyped, Block, dma_running
  <2>2. blocks[ch][engine[ch].next] \in Block
        /\ engine' = [engine EXCEPT ![ch] = blocks[ch][engine[ch].next]]
    BY <1>1, <2>1 DEF Load, EngineTyped
  <2>3. ch # 0 => engine'[0] = engine[0]
    BY <2>2, ChannelsAre DEF EngineTyped
  <2>4. QED
    BY <2>1, <2>2, <2>3 DEF EngineTyped, dma_running
<1>2. CASE Finish(ch)
  <2>1. engine' = [engine EXCEPT ![ch].op = None] /\ dma_running(ch)
    BY <1>2 DEF Finish, dma_running
  <2>2. engine' \in [Channels -> Block]
    BY <2>1 DEF EngineTyped, Block
  <2>3. ch # 0 => engine'[0] = engine[0]
    BY <2>1, ChannelsAre DEF EngineTyped
  <2>4. QED
    BY <2>1, <2>2, <2>3 DEF dma_running
<1>3. QED
  BY <1>1, <1>2

LEMMA TypedIs ==
  Typed <=> /\ EngineTyped /\ at \in {"bells", "byte"}
            /\ main \in Seq(Steps) /\ handler \in Seq(Steps) /\ Bellless(handler)
BY DEF Typed, TypeOK, EngineTyped, Bellless

(* Types need nothing but types. *)
LEMMA TypedStep == Typed /\ [Next]_vars => Typed'
<1> SUFFICES ASSUME Typed, [Next]_vars PROVE Typed'
  OBVIOUS
<1>1. /\ EngineTyped /\ at \in {"bells", "byte"}
      /\ main \in Seq(Steps) /\ handler \in Seq(Steps) /\ Bellless(handler)
  BY TypedIs
<1>2. ASSUME EngineTyped', at' \in {"bells", "byte"}, main' \in Seq(Steps),
             handler' \in Seq(Steps), Bellless(handler')
      PROVE  Typed'
  BY <1>2 DEF Typed, TypeOK, EngineTyped, Bellless
<1>3. CASE Run
  <2>1. main # <<>> /\ handler' = handler /\ at' = at
        /\ Head(main) \in Steps /\ Tail(main) \in Seq(Steps)
    BY <1>1, <1>3, Rest DEF Run
  <2>2. EngineTyped' /\ main' \in Seq(Steps)
    <3>1. CASE Head(main).kind = "bell"
      <4>1. bell(Tail(main))
        BY <1>3, <3>1 DEF Run
      <4>2. QED
        BY <1>1, <2>1, <4>1, BellTyped
    <3>2. CASE Head(main).kind # "bell"
      <4>1. Do(Head(main)) /\ main' = Tail(main)
        BY <1>3, <3>2 DEF Run
      <4>2. QED
        BY <1>1, <2>1, <3>2, <4>1, DoTyped
    <3>3. QED
      BY <3>1, <3>2
  <2>3. QED
    BY <1>1, <1>2, <2>1, <2>2
<1>4. CASE Handle
  <2>1. handler # <<>> /\ Do(Head(handler)) /\ handler' = Tail(handler) /\ main' = main /\ at' = at
    BY <1>4 DEF Handle
  <2>2. /\ Head(handler) \in Steps /\ Head(handler).kind # "bell"
        /\ Bellless(handler') /\ handler' \in Seq(Steps)
    BY <1>1, <2>1, Rest
  <2>3. EngineTyped'
    BY <1>1, <2>1, <2>2, DoTyped
  <2>4. QED
    BY <1>1, <1>2, <2>1, <2>2, <2>3
<1>5. CASE Look
  <2>1. UNCHANGED <<blocks, curr_blk, engine, colour, pending, handler>> /\ at' = "byte"
        /\ main' \in {<<>>, <<Wait, Step("bell")>>}
    BY <1>5 DEF Look
  <2>2. main' \in Seq(Steps) /\ EngineTyped'
    BY <1>1, <2>1, StepTypes, ShortScripts DEF EngineTyped
  <2>3. QED
    BY <1>1, <1>2, <2>1, <2>2
<1>6. CASE Take
  <2>1. UNCHANGED <<blocks, curr_blk, engine, colour, pending, handler>> /\ at' = "bells"
        /\ \/ main' = main
           \/ \E b \in Bytes, c \in Colours, d \in Colours : main' = Putchar(b, c, d)
    BY <1>6 DEF Take
  <2>2. main' \in Seq(Steps)
    BY <1>1, <2>1, PutcharScript, DmaAssumption DEF Script
  <2>3. EngineTyped'
    BY <1>1, <2>1 DEF EngineTyped
  <2>4. QED
    BY <1>1, <1>2, <2>1, <2>2, <2>3
<1>7. CASE \E ch \in Channels : Load(ch) \/ Finish(ch)
  <2>1. PICK ch \in Channels : Load(ch) \/ Finish(ch)
    BY <1>7
  <2>2. UNCHANGED <<blocks, curr_blk, colour, pending, at, main, handler>>
    BY <2>1 DEF Load, Finish
  <2>3. engine' \in [Channels -> Block]
    BY <1>1, <2>1, EngineTypes
  <2>4. EngineTyped'
    BY <1>1, <2>2, <2>3 DEF EngineTyped
  <2>5. QED
    BY <1>1, <1>2, <2>2, <2>4
<1>8. CASE \E key \in Keys : Press(key)
  <2>1. PICK key \in Keys : Press(key)
    BY <1>8
  <2>2. handler' \in Seq(Steps) /\ Bellless(handler')
        /\ UNCHANGED <<blocks, curr_blk, engine, colour, pending, at, main>>
    BY <2>1, KeyScript DEF Press, Script
  <2>3. EngineTyped'
    BY <1>1, <2>2 DEF EngineTyped
  <2>4. QED
    BY <1>1, <1>2, <2>2, <2>3
<1>9. CASE UNCHANGED vars
  BY <1>1, <1>2, <1>9 DEF vars, EngineTyped
<1>10. QED
  BY <1>3, <1>4, <1>5, <1>6, <1>7, <1>8, <1>9 DEF Next, Main

-----------------------------------------------------------------------------
(* Drawing: one lemma for each action. *)
IInv == Typed /\ DrawInv

(* A step of a script leaves a script that may go on. *)
LEMMA ReadyAfter ==
  ASSUME NEW s \in Seq(Steps), s # <<>>, Ready(s),
         EngineTyped, Head(s).kind # "bell", Do(Head(s))
  PROVE  /\ Tail(s) \in Seq(Steps) /\ Continues(Tail(s))
         /\ Guarded(Tail(s)) \/ ~dma_running(0)'
<1>1. Tail(s) \in Seq(Steps) /\ Head(s) \in Steps /\ Continues(Tail(s))
  BY Rest DEF Ready
<1>2. CASE Head(s).kind = "wait"
  <2>1. ~dma_running(0) /\ engine' = engine
    BY <1>1, <1>2, DoTyped
  <2>2. QED
    BY <1>1, <2>1 DEF Ready, dma_running
<1>3. CASE Head(s).kind # "wait"
  BY <1>1, <1>3, Rest DEF Ready
<1>4. QED
  BY <1>2, <1>3

LEMMA RunDraws == IInv /\ Run => DrawInv'
<1> SUFFICES ASSUME IInv, Run PROVE DrawInv'
  OBVIOUS
<1>1. /\ EngineTyped /\ main \in Seq(Steps) /\ Ready(main)
      /\ handler = <<>> /\ main # <<>> /\ handler' = handler
  BY TypedIs DEF IInv, DrawInv, Run
<1>2. ASSUME Ready(main)' PROVE DrawInv'
  BY <1>1, <1>2, ShortScripts DEF DrawInv
<1>3. CASE Head(main).kind = "bell"
  <2>1. bell(Tail(main)) /\ Guarded(Tail(main)) /\ Tail(main) \in Seq(Steps)
    BY <1>1, <1>3, Rest DEF Run, Ready
  <2>2. Guarded(main')
    BY <1>1, <2>1, BellTyped
  <2>3. QED
    BY <1>2, <2>2 DEF Ready, Guarded
<1>4. CASE Head(main).kind # "bell"
  <2>1. Do(Head(main)) /\ main' = Tail(main)
    BY <1>4 DEF Run
  <2>2. /\ Continues(Tail(main))
        /\ Guarded(Tail(main)) \/ ~dma_running(0)'
    BY <1>1, <1>4, <2>1, ReadyAfter
  <2>3. Ready(main)'
    BY <2>1, <2>2 DEF Ready
  <2>4. QED
    BY <1>2, <2>3
<1>5. QED
  BY <1>3, <1>4

LEMMA HandleDraws == IInv /\ Handle => DrawInv'
<1> SUFFICES ASSUME IInv, Handle PROVE DrawInv'
  OBVIOUS
<1>1. /\ EngineTyped /\ Guarded(main) /\ main' = main
      /\ handler # <<>> /\ handler \in Seq(Steps) /\ Bellless(handler) /\ Ready(handler)
      /\ Do(Head(handler)) /\ handler' = Tail(handler)
  BY TypedIs DEF IInv, DrawInv, Handle
<1>2. /\ Continues(handler')
      /\ Guarded(handler') \/ ~dma_running(0)'
  BY <1>1, Rest, ReadyAfter
<1>3. Ready(main)' /\ Ready(handler)' /\ Guarded(<<>>) /\ Guarded(main')
  BY <1>1, <1>2, ShortScripts DEF Ready, Guarded
<1>4. QED
  BY <1>3 DEF DrawInv

LEMMA LookDraws == IInv /\ Look => DrawInv'
<1> SUFFICES ASSUME IInv, Look PROVE DrawInv'
  OBVIOUS
<1>1. handler' = <<>> /\ main' \in {<<>>, <<Wait, Step("bell")>>}
  BY DEF Look
<1>2. Guarded(main') /\ Guarded(<<>>)
  BY <1>1, StepTypes, ShortScripts
<1>3. QED
  BY <1>1, <1>2 DEF DrawInv, Ready, Guarded

LEMMA TakeDraws == IInv /\ Take => DrawInv'
<1> SUFFICES ASSUME IInv, Take PROVE DrawInv'
  OBVIOUS
<1>1. /\ handler' = <<>>
      /\ \/ main' = <<>>
         \/ \E b \in Bytes, c \in Colours, d \in Colours : main' = Putchar(b, c, d)
  BY DEF Take
<1>2. Guarded(main') /\ Guarded(<<>>)
  BY <1>1, PutcharScript, DmaAssumption, ShortScripts DEF Script
<1>3. QED
  BY <1>1, <1>2 DEF DrawInv, Ready, Guarded

LEMMA EngineDraws ==
  ASSUME IInv, NEW ch \in Channels, Load(ch) \/ Finish(ch)
  PROVE  DrawInv'
<1>1. EngineTyped /\ UNCHANGED <<main, handler>>
  BY TypedIs DEF IInv, Load, Finish
<1>2. ~dma_running(0) => ~dma_running(0)'
  BY <1>1, EngineTypes
<1>3. QED
  BY <1>1, <1>2 DEF IInv, DrawInv, Ready, Guarded, Continues

LEMMA PressDraws ==
  ASSUME Undisturbed, IInv, NEW key \in Keys, Press(key)
  PROVE  DrawInv'
<1>1. /\ main \in Seq(Steps) /\ Ready(main) /\ main' = main
      /\ handler = <<>> /\ Point \in Windows[key]
  BY TypedIs DEF IInv, DrawInv, Press
<1>2. Guarded(handler')
  BY KeyScript DEF Press, Script
<1>3. Guarded(main)
  <2>1. main # <<>> => Head(main).kind # "draw" /\ Head(main) = main[1]
    BY <1>1, Rest DEF Undisturbed, Point
  <2>2. QED
    BY <1>1, <2>1 DEF Ready, Guarded
<1>4. Guarded(main)' /\ Ready(main)' /\ Ready(handler)' /\ Guarded(<<>>)
  BY <1>1, <1>2, <1>3, ShortScripts DEF Ready, Guarded, Continues
<1>5. QED
  BY <1>4 DEF DrawInv

LEMMA InitKeeps == Init => IInv
<1> SUFFICES ASSUME Init PROVE IInv
  OBVIOUS
<1>1. [op |-> None, next |-> None] \in Block
  BY DEF Block
<1>2. blocks \in [Channels -> [0 .. DMA_SCBS - 1 -> Block]] /\ engine \in [Channels -> Block]
  BY <1>1 DEF Init
<1>3. EngineTyped
  BY <1>2, DmaAssumption DEF Init, EngineTyped
<1>4. main = <<>> /\ handler = <<>> /\ at = "bells"
  BY DEF Init
<1>5. Typed
  BY <1>3, <1>4, TypedIs, ShortScripts
<1>6. DrawInv
  BY <1>4, ShortScripts DEF DrawInv, Ready, Guarded
<1>7. QED
  BY <1>5, <1>6 DEF IInv

-----------------------------------------------------------------------------
(* No queue grows past its control blocks, no block links past them, no    *)
(* more bells are remembered than there is room for.                       *)
THEOREM QueuesTypeCorrect == Spec => []TypeOK
<1>1. Init => Typed
  BY InitKeeps DEF IInv
<1>2. Typed => TypeOK
  BY DEF Typed
<1>3. QED
  BY <1>1, <1>2, TypedStep, PTL DEF Spec

(* The processor writes pixels only while channel 0 is idle: neither the   *)
(* cursor nor a character is drawn into rows that are being moved.         *)
THEOREM PixelsDrawnAlone ==
  ASSUME Undisturbed
  PROVE  Spec => []DrawsAlone
<1>1. IInv /\ [Next]_vars => IInv'
  <2>1. IInv /\ UNCHANGED vars => IInv'
    BY DEF IInv, Typed, TypeOK, vars, DrawInv, Ready, Guarded, Continues, dma_running
  <2>2. QED
    BY <2>1, TypedStep, RunDraws, HandleDraws, LookDraws, TakeDraws, EngineDraws, PressDraws
       DEF IInv, Next, Main
<1>2. IInv => DrawsAlone
  <2> SUFFICES ASSUME IInv PROVE DrawsAlone
    OBVIOUS
  <2> DEFINE running == IF handler # <<>> THEN handler ELSE main
  <2>1. running \in Seq(Steps) /\ Ready(running)
    BY DEF IInv, Typed, DrawInv
  <2> HIDE DEF running
  <2>2. running # <<>> /\ Head(running).kind = "draw" => ~dma_running(0)
    BY <2>1, Rest DEF Ready, Guarded
  <2>3. QED
    BY <2>2 DEF DrawsAlone, running
<1>3. QED
  BY <1>1, <1>2, InitKeeps, PTL DEF Spec

-----------------------------------------------------------------------------
(* The transfers owed.  What a chain of control blocks holds, and what a    *)
(* script has still to enqueue, are recursive functions: that they exist    *)
(* is shown for the least length for which they would not.                  *)
LEMMA LeastNatural ==
  ASSUME NEW T, T \subseteq Nat, T # {}
  PROVE  \E x \in T : \A y \in T : x <= y
<1> DEFINE Below(n) == 0 .. n - 1
           Initials == {Below(n) : n \in T}
           R == StrictSubsetOrdering(Nat)
           S == FiniteSubsetsOf(Nat)
<1>1. IsWellFoundedOn(R, S)
  BY FS_StrictSubsetOrderingWellFounded
<1>2. Initials \subseteq S
  <2>1. ASSUME NEW n \in T PROVE IsFiniteSet(Below(n)) /\ Below(n) \subseteq Nat
    BY FS_Interval
  <2>2. QED
    BY <2>1 DEF FiniteSubsetsOf
<1>3. Initials # {}
  OBVIOUS
<1> HIDE DEF Initials, R, S
<1>4. PICK I \in Initials : \A J \in Initials : ~(<<J, I>> \in R)
  BY <1>1, <1>2, <1>3, WFMin
<1>5. PICK x \in T : I = Below(x)
  BY <1>4 DEF Initials
<1>6. ASSUME NEW y \in T, y < x PROVE FALSE
  <2>1. Below(y) \in Initials
    BY DEF Initials
  <2>2. /\ Below(y) \subseteq Below(x) /\ Below(y) # Below(x)
        /\ Below(x) \in SUBSET Nat /\ Below(y) \in SUBSET Nat
    BY <1>6
  <2>3. QED
    BY <1>2, <1>4, <1>5, <2>1, <2>2 DEF R, S, StrictSubsetOrdering
<1>7. QED
  BY <1>6

Places == (0 .. DMA_SCBS - 1) \cup {None}

LEMMA LinksAre ==
  ASSUME NEW ch
  PROVE  \A n \in 0 .. DMA_SCBS, b \in Places :
           Links(ch)[n][b] = IF n = 0 \/ b = None THEN <<>>
                             ELSE <<AsDone(blocks[ch][b].op)>>
                                    \o Links(ch)[n - 1][blocks[ch][b].next]
<1> DEFINE Level(n, f) == [b \in Places |-> IF n = 0 \/ b = None THEN <<>>
                             ELSE <<AsDone(blocks[ch][b].op)>> \o f[n - 1][blocks[ch][b].next]]
           Exact(f, n) == f = [i \in 0 .. n |-> Level(i, f)]
           Bad == {n \in Nat : \A f : ~Exact(f, n)}
<1>1. 0 \notin Bad
  <2> DEFINE f == [i \in 0 .. 0 |-> [b \in Places |-> <<>>]]
  <2>1. Level(0, f) = [b \in Places |-> <<>>]
    OBVIOUS
  <2> HIDE DEF Level
  <2>2. Exact(f, 0)
    BY <2>1
  <2> HIDE DEF Exact
  <2>3. QED
    BY <2>2
<1>2. ASSUME NEW n \in Nat, n \notin Bad PROVE n + 1 \notin Bad
  <2>1. PICK f : Exact(f, n)
    BY <1>2
  <2> DEFINE g == [i \in 0 .. n + 1 |-> IF i = n + 1 THEN Level(n + 1, f) ELSE f[i]]
  <2>2. ASSUME NEW i \in 0 .. n + 1 PROVE g[i] = Level(i, g)
    <3> HIDE DEF Level, Exact, Bad
    <3>1. \A j \in 0 .. n : g[j] = f[j]
      <4>1. \A j \in 0 .. n : j \in 0 .. n + 1 /\ j # n + 1
        OBVIOUS
      <4>2. QED
        BY <4>1
    <3> HIDE DEF g
    <3>2. i # 0 => i - 1 \in 0 .. n /\ g[i - 1] = f[i - 1]
      <4>1. i # 0 => i - 1 \in 0 .. n
        OBVIOUS
      <4>2. QED
        BY <3>1, <4>1
    <3>3. Level(i, g) = Level(i, f)
      BY <3>2 DEF Level
    <3>4. CASE i = n + 1
      BY <3>3, <3>4 DEF g
    <3>5. CASE i # n + 1
      <4>1. i \in 0 .. n
        BY <3>5
      <4>2. f[i] = Level(i, f)
        BY <2>1, <4>1 DEF Exact
      <4>3. QED
        BY <3>1, <3>3, <4>1, <4>2
    <3>6. QED
      BY <3>4, <3>5
  <2> HIDE DEF Level
  <2>3. Exact(g, n + 1)
    BY <2>2
  <2> HIDE DEF Exact, g
  <2>4. QED
    BY <2>3
<1>3. Bad = {}
  <2>1. SUFFICES ASSUME Bad # {} PROVE FALSE
    OBVIOUS
  <2> HIDE DEF Bad
  <2>2. PICK n \in Bad : \A m \in Bad : n <= m
    <3>1. Bad \subseteq Nat
      BY DEF Bad
    <3>2. QED
      BY <2>1, <3>1, LeastNatural
  <2>3. n \in Nat
    BY DEF Bad
  <2>4. n # 0 /\ n - 1 \in Nat /\ n - 1 \notin Bad
    BY <1>1, <2>2, <2>3
  <2>5. (n - 1) + 1 \notin Bad
    BY <1>2, <2>4
  <2>6. QED
    BY <2>2, <2>3, <2>5
<1>4. PICK f : Exact(f, DMA_SCBS)
  <2>1. DMA_SCBS \notin Bad /\ DMA_SCBS \in Nat
    BY <1>3, DmaAssumption
  <2> HIDE DEF Exact
  <2>2. QED
    BY <2>1
<1>5. Exact(Links(ch), DMA_SCBS)
  <2>1. Links(ch) = CHOOSE h : Exact(h, DMA_SCBS)
    BY DEF Links, Places
  <2> HIDE DEF Exact
  <2>2. QED
    BY <1>4, <2>1
<1>6. ASSUME NEW n \in 0 .. DMA_SCBS PROVE Links(ch)[n] = Level(n, Links(ch))
  <2> HIDE DEF Level
  <2>1. QED
    BY <1>5
<1>7. QED
  BY <1>6, ZenonT(60)

(* The control blocks of a channel: each is linked to the one after it or   *)
(* to none, no chain is longer than three, and what is linked holds a       *)
(* transfer; so do the blocks of the queue, linked up to the last.          *)
Wired(ch) ==
  /\ \A b \in 0 .. DMA_SCBS - 1 : blocks[ch][b].next # None =>
       /\ b < 2 /\ b + 1 < DMA_SCBS /\ blocks[ch][b].next = b + 1
       /\ blocks[ch][b + 1].op # None
  /\ engine[ch].next # None =>
       engine[ch].next < 3 /\ blocks[ch][engine[ch].next].op # None
  /\ curr_blk[ch] <= 3
  /\ \A b \in 0 .. curr_blk[ch] - 1 :
       /\ blocks[ch][b].op # None
       /\ blocks[ch][b].next = IF b + 1 = curr_blk[ch] THEN None ELSE b + 1

(* The longest queue of the program is copy, blank, cursor. *)
RoomForJob == DMA_SCBS >= 3

(* The transfers from block b on. *)
After(ch, b) == Links(ch)[DMA_SCBS][b]

LEMMA NoneIs ==
  /\ None \notin Nat /\ None # "fg" /\ None # "bg"
  /\ \A op \in Transfers : op # None
BY NoneAssumption

LEMMA AfterIs ==
  ASSUME RoomForJob, EngineTyped, NEW ch \in Channels, Wired(ch)
  PROVE  /\ After(ch, None) = <<>>
         /\ \A b \in 0 .. DMA_SCBS - 1 : b < 3 =>
              After(ch, b) = <<AsDone(blocks[ch][b].op)>> \o After(ch, blocks[ch][b].next)
<1> DEFINE F(n, b) == Links(ch)[n][b]
           N(b) == blocks[ch][b].next
           P(b) == <<AsDone(blocks[ch][b].op)>>
<1>1. DMA_SCBS \in Nat /\ DMA_SCBS >= 3 /\ None \notin Nat
  BY DmaAssumption, NoneIs DEF RoomForJob
<1>2. \A n \in 0 .. DMA_SCBS, b \in Places :
        F(n, b) = IF n = 0 \/ b = None THEN <<>> ELSE P(b) \o F(n - 1, N(b))
  BY LinksAre
<1>3. \A b \in 0 .. 2 : N(b) = None \/ (b < 2 /\ N(b) = b + 1)
  BY <1>1 DEF Wired
<1>4. 0 .. 2 \subseteq Places \ {None} /\ None \in Places
  BY <1>1 DEF Places
<1> HIDE DEF F, N, P
<1>5. \A n \in 0 .. DMA_SCBS : F(n, None) = <<>>
  BY <1>2, <1>4
<1>6. ASSUME NEW n \in 1 .. DMA_SCBS, NEW b \in 0 .. 2
      PROVE  F(n, b) = P(b) \o F(n - 1, N(b))
  <2>1. n \in 0 .. DMA_SCBS /\ n # 0 /\ b \in Places /\ b # None
    BY <1>1, <1>4
  <2>2. QED
    BY <1>2, <2>1, Zenon
<1>7. ASSUME NEW n \in 1 .. DMA_SCBS PROVE F(n, 2) = P(2) \o <<>>
  <2>1. 2 \in 0 .. 2 /\ n - 1 \in 0 .. DMA_SCBS
    BY <1>1
  <2>2. N(2) = None
    BY <1>3
  <2>3. F(n - 1, N(2)) = <<>>
    BY <1>5, <2>1, <2>2
  <2>4. F(n, 2) = P(2) \o F(n - 1, N(2))
    BY <1>6, <2>1
  <2>5. QED
    BY <2>3, <2>4
<1>8. ASSUME NEW n \in 2 .. DMA_SCBS PROVE F(n, 1) = P(1) \o F(DMA_SCBS, N(1))
  <2>1. F(n - 1, N(1)) = F(DMA_SCBS, N(1))
    <3>1. n - 1 \in 1 .. DMA_SCBS /\ DMA_SCBS \in 1 .. DMA_SCBS
      BY <1>1
    <3>2. N(1) = None \/ N(1) = 2
      BY <1>3
    <3>3. QED
      BY <1>5, <1>7, <3>1, <3>2
  <2>2. n \in 1 .. DMA_SCBS /\ 1 \in 0 .. 2
    BY <1>1
  <2>3. F(n, 1) = P(1) \o F(n - 1, N(1))
    BY <1>6, <2>2
  <2>4. QED
    BY <2>1, <2>3
<1>9. F(DMA_SCBS, 0) = P(0) \o F(DMA_SCBS, N(0))
  <2>1. DMA_SCBS - 1 \in 2 .. DMA_SCBS /\ DMA_SCBS \in 2 .. DMA_SCBS
    BY <1>1
  <2>2. N(0) = None \/ N(0) = 1
    BY <1>3
  <2>3. F(DMA_SCBS - 1, N(0)) = F(DMA_SCBS, N(0))
    BY <1>5, <1>8, <2>1, <2>2, SMTT(60)
  <2>4. DMA_SCBS \in 1 .. DMA_SCBS /\ 0 \in 0 .. 2
    BY <1>1
  <2>5. F(DMA_SCBS, 0) = P(0) \o F(DMA_SCBS - 1, N(0))
    BY <1>6, <2>4
  <2>6. QED
    BY <2>3, <2>5
<1>10. ASSUME NEW b \in 0 .. 2 PROVE F(DMA_SCBS, b) = P(b) \o F(DMA_SCBS, N(b))
  <2>1. DMA_SCBS \in 0 .. DMA_SCBS /\ DMA_SCBS \in 1 .. DMA_SCBS /\ DMA_SCBS \in 2 .. DMA_SCBS
    BY <1>1
  <2>2. CASE b = 0
    BY <1>9, <2>2
  <2>3. CASE b = 1
    BY <1>8, <2>1, <2>3
  <2>4. CASE b = 2
    <3>1. N(2) = None
      BY <1>3
    <3>2. QED
      BY <1>5, <1>7, <2>1, <2>4, <3>1
  <2>5. QED
    BY <2>2, <2>3, <2>4
<1>11. QED
  <2>1. DMA_SCBS \in 0 .. DMA_SCBS
    BY <1>1
  <2>2. \A b \in 0 .. DMA_SCBS - 1 : b < 3 => b \in 0 .. 2
    BY <1>1
  <2>3. QED
    BY <1>5, <1>10, <2>1, <2>2 DEF After, F, N, P

-----------------------------------------------------------------------------
(* What a script has still to enqueue. *)
Asked(x, ch) == IF x.kind = "enqueue" /\ x.ch = ch THEN <<x.op>> ELSE <<>>

LEMMA UpToIs ==
  ASSUME NEW s \in Seq(Steps), NEW ch
  PROVE  \A n \in 0 .. Len(s) :
           UpTo(s, ch)[n] = IF n = 0 THEN <<>> ELSE UpTo(s, ch)[n - 1] \o Asked(s[n], ch)
<1> DEFINE Level(n, f) == IF n = 0 THEN <<>> ELSE f[n - 1] \o Asked(s[n], ch)
           Exact(f, n) == f = [i \in 0 .. n |-> Level(i, f)]
           Bad == {n \in Nat : \A f : ~Exact(f, n)}
<1>1. 0 \notin Bad
  <2> DEFINE f == [i \in 0 .. 0 |-> <<>>]
  <2>1. Exact(f, 0)
    OBVIOUS
  <2> HIDE DEF Exact
  <2>2. QED
    BY <2>1
<1>2. ASSUME NEW n \in Nat, n \notin Bad PROVE n + 1 \notin Bad
  <2>1. PICK f : Exact(f, n)
    BY <1>2
  <2> DEFINE g == [i \in 0 .. n + 1 |-> IF i = n + 1 THEN Level(n + 1, f) ELSE f[i]]
  <2>2. ASSUME NEW i \in 0 .. n + 1 PROVE g[i] = Level(i, g)
    <3>1. \A j \in 0 .. n : g[j] = f[j]
      OBVIOUS
    <3>2. i # 0 => i - 1 \in 0 .. n /\ g[i - 1] = f[i - 1]
      BY <3>1
    <3> HIDE DEF g
    <3>3. Level(i, g) = Level(i, f)
      BY <3>2
    <3> HIDE DEF Level
    <3>4. CASE i = n + 1
      BY <3>3, <3>4 DEF g
    <3>5. CASE i # n + 1
      <4>1. i \in 0 .. n
        BY <3>5
      <4>2. f[i] = Level(i, f)
        BY <2>1, <4>1
      <4>3. QED
        BY <3>1, <3>3, <4>1, <4>2
    <3>6. QED
      BY <3>4, <3>5
  <2> HIDE DEF Level
  <2>3. Exact(g, n + 1)
    BY <2>2
  <2> HIDE DEF Exact, g
  <2>4. QED
    BY <2>3
<1>3. Bad = {}
  <2>1. SUFFICES ASSUME Bad # {} PROVE FALSE
    OBVIOUS
  <2> HIDE DEF Bad
  <2>2. PICK n \in Bad : \A m \in Bad : n <= m
    <3>1. Bad \subseteq Nat
      BY DEF Bad
    <3>2. QED
      BY <2>1, <3>1, LeastNatural
  <2>3. n \in Nat
    BY DEF Bad
  <2>4. n # 0 /\ n - 1 \in Nat /\ n - 1 \notin Bad
    BY <1>1, <2>2, <2>3
  <2>5. (n - 1) + 1 \notin Bad
    BY <1>2, <2>4
  <2>6. QED
    BY <2>2, <2>3, <2>5
<1>4. PICK f : Exact(f, Len(s))
  <2>1. Len(s) \in Nat
    OBVIOUS
  <2> HIDE DEF Exact
  <2>2. QED
    BY <1>3, <2>1
<1>5. Exact(UpTo(s, ch), Len(s))
  <2>1. UpTo(s, ch) = CHOOSE h : Exact(h, Len(s))
    BY DEF UpTo, Asked
  <2> HIDE DEF Exact
  <2>2. QED
    BY <1>4, <2>1
<1>6. ASSUME NEW n \in 0 .. Len(s) PROVE UpTo(s, ch)[n] = Level(n, UpTo(s, ch))
  <2> HIDE DEF Level
  <2>1. QED
    BY <1>5
<1>7. QED
  BY <1>6

LEMMA AskedType ==
  ASSUME NEW x \in Steps, NEW ch
  PROVE  Asked(x, ch) \in Seq(Transfers)
BY DEF Asked, Steps

(* Least counterexamples: a property of the numbers up to n. *)
LEMMA Upwards ==
  ASSUME NEW n \in Nat, NEW T, T \subseteq Nat, 0 \in T,
         \A i \in 0 .. n : i \in T /\ i # n => i + 1 \in T
  PROVE  \A i \in 0 .. n : i \in T
<1> DEFINE Bad == {i \in 0 .. n : i \notin T}
<1>1. SUFFICES ASSUME Bad # {} PROVE FALSE
  OBVIOUS
<1>2. Bad \subseteq Nat
  OBVIOUS
<1> HIDE DEF Bad
<1>3. PICK m \in Bad : \A i \in Bad : m <= i
  BY <1>1, <1>2, LeastNatural
<1>4. m \in 0 .. n /\ m # 0 /\ m \notin T
  BY DEF Bad
<1>5. m - 1 \in 0 .. n /\ m - 1 \notin Bad /\ m - 1 # n /\ (m - 1) + 1 = m
  BY <1>2, <1>3, <1>4
<1>6. m - 1 \in T
  BY <1>5 DEF Bad
<1>7. QED
  BY <1>4, <1>5, <1>6

LEMMA UpToType ==
  ASSUME NEW s \in Seq(Steps), NEW ch
  PROVE  \A n \in 0 .. Len(s) : UpTo(s, ch)[n] \in Seq(Transfers)
<1> DEFINE U(n) == UpTo(s, ch)[n]
           T == {n \in 0 .. Len(s) : U(n) \in Seq(Transfers)}
<1>1. Len(s) \in Nat /\ \A n \in 0 .. Len(s) :
        U(n) = IF n = 0 THEN <<>> ELSE U(n - 1) \o Asked(s[n], ch)
  BY UpToIs
<1> HIDE DEF U
<1>2. 0 \in T
  <2>1. 0 \in 0 .. Len(s)
    BY <1>1
  <2>2. U(0) = <<>>
    BY <1>1, <2>1
  <2>3. U(0) \in Seq(Transfers)
    BY <2>2, EmptySeq
  <2>4. QED
    BY <2>1, <2>3
<1>3. ASSUME NEW i \in 0 .. Len(s), i \in T, i # Len(s) PROVE i + 1 \in T
  <2>1. i + 1 \in 0 .. Len(s) /\ i + 1 # 0 /\ (i + 1) - 1 = i /\ s[i + 1] \in Steps
    BY <1>1, <1>3
  <2>2. U(i + 1) = U(i) \o Asked(s[i + 1], ch)
    BY <1>1, <2>1
  <2>3. Asked(s[i + 1], ch) \in Seq(Transfers) /\ U(i) \in Seq(Transfers)
    BY <1>3, <2>1, AskedType
  <2>4. U(i + 1) \in Seq(Transfers)
    BY <2>2, <2>3, ConcatProperties
  <2>5. QED
    BY <2>1, <2>4
<1>4. T \subseteq Nat
  OBVIOUS
<1> HIDE DEF T
<1>5. \A i \in 0 .. Len(s) : i \in T
  BY <1>1, <1>2, <1>3, <1>4, Upwards
<1>6. QED
  BY <1>5 DEF T, U

LEMMA IntendedType ==
  ASSUME NEW s \in Seq(Steps), NEW ch
  PROVE  Intended(s, ch) \in Seq(Transfers)
<1>1. Len(s) \in 0 .. Len(s)
  OBVIOUS
<1>2. QED
  BY <1>1, UpToType DEF Intended

LEMMA IntendedNone == \A ch : Intended(<<>>, ch) = <<>>
<1>1. <<>> \in Seq(Steps) /\ Len(<<>>) = 0 /\ 0 \in 0 .. 0
  BY EmptySeq
<1>2. ASSUME NEW ch PROVE UpTo(<<>>, ch)[0] = <<>>
  BY <1>1, UpToIs
<1>3. QED
  BY <1>1, <1>2 DEF Intended

LEMMA IntendedOne ==
  ASSUME NEW x \in Steps, NEW ch
  PROVE  Intended(<<x>>, ch) = Asked(x, ch)
<1> DEFINE s == <<x>>
<1>1. s \in Seq(Steps) /\ Len(s) = 1 /\ s[1] = x /\ 0 \in 0 .. 1 /\ 1 \in 0 .. 1
  OBVIOUS
<1> HIDE DEF s
<1>2. \A n \in 0 .. 1 :
        UpTo(s, ch)[n] = IF n = 0 THEN <<>> ELSE UpTo(s, ch)[n - 1] \o Asked(s[n], ch)
  BY <1>1, UpToIs
<1>3. UpTo(s, ch)[0] = <<>>
  BY <1>1, <1>2
<1>4. UpTo(s, ch)[1] = UpTo(s, ch)[1 - 1] \o Asked(s[1], ch) /\ 1 - 1 = 0
  BY <1>1, <1>2
<1>5. UpTo(s, ch)[1] = <<>> \o Asked(x, ch)
  BY <1>1, <1>3, <1>4
<1>6. Asked(x, ch) \in Seq(Transfers)
  BY AskedType
<1>7. <<>> \o Asked(x, ch) = Asked(x, ch)
  BY <1>6, ConcatEmptySeq
<1>8. Intended(s, ch) = Asked(x, ch)
  BY <1>1, <1>5, <1>7 DEF Intended
<1>9. QED
  BY <1>8 DEF s

LEMMA IntendedJoined ==
  ASSUME NEW s \in Seq(Steps), NEW t \in Seq(Steps), NEW ch
  PROVE  Intended(s \o t, ch) = Intended(s, ch) \o Intended(t, ch)
<1> DEFINE j == s \o t
           m == Len(s)
           k == Len(t)
           U(n) == UpTo(s, ch)[n]
           V(n) == UpTo(t, ch)[n]
           W(n) == UpTo(j, ch)[n]
           T == {n \in Nat : n <= m => W(n) = U(n)}
           R == {n \in Nat : n <= k => W(m + n) = U(m) \o V(n)}
<1>1. /\ j \in Seq(Steps) /\ Len(j) = m + k /\ m \in Nat /\ k \in Nat
      /\ \A i \in 1 .. m : j[i] = s[i]
      /\ \A i \in 1 .. k : j[m + i] = t[i]
  OBVIOUS
<1> HIDE DEF j
<1>2. \A n \in 0 .. m : U(n) = IF n = 0 THEN <<>> ELSE U(n - 1) \o Asked(s[n], ch)
  BY UpToIs
<1>3. \A n \in 0 .. k : V(n) = IF n = 0 THEN <<>> ELSE V(n - 1) \o Asked(t[n], ch)
  BY UpToIs
<1>4. \A n \in 0 .. Len(j) : W(n) = IF n = 0 THEN <<>> ELSE W(n - 1) \o Asked(j[n], ch)
  BY <1>1, UpToIs
<1>5. /\ \A n \in 0 .. m : U(n) \in Seq(Transfers)
      /\ \A n \in 0 .. k : V(n) \in Seq(Transfers)
  BY UpToType
<1>6. /\ \A n \in 1 .. m : Asked(s[n], ch) \in Seq(Transfers)
      /\ \A n \in 1 .. k : Asked(t[n], ch) \in Seq(Transfers)
  BY AskedType
<1>7. Intended(j, ch) = W(m + k) /\ Intended(s, ch) = U(m) /\ Intended(t, ch) = V(k)
  BY <1>1 DEF Intended
<1> HIDE DEF U, V, W, m, k
<1>8. \A n \in 0 .. m : n \in T
  <2>1. 0 \in T
    <3>1. 0 \in 0 .. m /\ 0 \in 0 .. Len(j)
      BY <1>1
    <3>2. W(0) = <<>> /\ U(0) = <<>>
      BY <1>2, <1>4, <3>1
    <3>3. QED
      BY <3>2
  <2>2. ASSUME NEW i \in 0 .. m, i \in T, i # m PROVE i + 1 \in T
    <3>1. /\ i + 1 \in 0 .. m /\ i + 1 \in 0 .. Len(j) /\ i + 1 # 0 /\ (i + 1) - 1 = i
          /\ i + 1 \in 1 .. m /\ i + 1 \in Nat
      BY <1>1, <2>2
    <3>2. U(i + 1) = U(i) \o Asked(s[i + 1], ch) /\ W(i + 1) = W(i) \o Asked(j[i + 1], ch)
      BY <1>2, <1>4, <3>1
    <3>3. W(i) = U(i) /\ j[i + 1] = s[i + 1]
      BY <1>1, <2>2, <3>1
    <3>4. QED
      BY <3>1, <3>2, <3>3
  <2>3. T \subseteq Nat
    OBVIOUS
  <2> HIDE DEF T
  <2>4. QED
    BY <1>1, <2>1, <2>2, <2>3, Upwards
<1>9. W(m) = U(m)
  BY <1>1, <1>8
<1> HIDE DEF T
<1>10. \A n \in 0 .. k : n \in R
  <2>1. 0 \in R
    <3>1. 0 \in 0 .. k /\ m \in 0 .. m
      BY <1>1
    <3>2. V(0) = <<>> /\ U(m) \in Seq(Transfers)
      BY <1>3, <1>5, <3>1
    <3>3. U(m) \o <<>> = U(m) /\ m + 0 = m
      BY <1>1, <3>2, ConcatEmptySeq
    <3>4. W(m + 0) = U(m) \o V(0)
      BY <1>9, <3>2, <3>3
    <3>5. QED
      BY <3>4
  <2>2. ASSUME NEW i \in 0 .. k, i \in R, i # k PROVE i + 1 \in R
    <3>1. /\ i + 1 \in 0 .. k /\ i + 1 # 0 /\ (i + 1) - 1 = i /\ i + 1 \in 1 .. k /\ i + 1 \in Nat
          /\ m + (i + 1) \in 0 .. Len(j) /\ m + (i + 1) # 0 /\ (m + (i + 1)) - 1 = m + i
          /\ m \in 0 .. m
      BY <1>1, <2>2
    <3>2. V(i + 1) = V(i) \o Asked(t[i + 1], ch)
      BY <1>3, <3>1
    <3>3. W(m + (i + 1)) = W(m + i) \o Asked(j[m + (i + 1)], ch)
      BY <1>4, <3>1
    <3>4. W(m + i) = U(m) \o V(i) /\ j[m + (i + 1)] = t[i + 1]
      BY <1>1, <2>2, <3>1
    <3>5. U(m) \in Seq(Transfers) /\ V(i) \in Seq(Transfers)
          /\ Asked(t[i + 1], ch) \in Seq(Transfers)
      BY <1>5, <1>6, <3>1
    <3>6. (U(m) \o V(i)) \o Asked(t[i + 1], ch) = U(m) \o (V(i) \o Asked(t[i + 1], ch))
      BY <3>5, ConcatAssociative, SMTT(60)
    <3>7. W(m + (i + 1)) = U(m) \o V(i + 1)
      BY <3>2, <3>3, <3>4, <3>6
    <3>8. QED
      BY <3>1, <3>7
  <2>3. R \subseteq Nat
    OBVIOUS
  <2> HIDE DEF R
  <2>4. QED
    BY <1>1, <2>1, <2>2, <2>3, Upwards
<1>11. W(m + k) = U(m) \o V(k)
  <2>1. k \in 0 .. k /\ k \in Nat
    BY <1>1
  <2> HIDE DEF R
  <2>2. k \in R
    BY <1>10, <2>1
  <2>3. QED
    BY <2>1, <2>2 DEF R
<1>12. QED
  BY <1>7, <1>11 DEF j

LEMMA IntendedRest ==
  ASSUME NEW s \in Seq(Steps), s # <<>>, NEW ch
  PROVE  Intended(s, ch) = Asked(Head(s), ch) \o Intended(Tail(s), ch)
<1> DEFINE h == <<Head(s)>>
           t == Tail(s)
<1>1. h \in Seq(Steps) /\ t \in Seq(Steps) /\ s = h \o t /\ Head(s) \in Steps
  OBVIOUS
<1>2. Intended(h \o t, ch) = Intended(h, ch) \o Intended(t, ch)
  BY <1>1, IntendedJoined
<1>3. Intended(h, ch) = Asked(Head(s), ch)
  BY <1>1, IntendedOne
<1> HIDE DEF h, t
<1>4. Intended(s, ch) = Asked(Head(s), ch) \o Intended(t, ch)
  BY <1>1, <1>2, <1>3
<1>5. QED
  BY <1>4 DEF t

-----------------------------------------------------------------------------
(* Transfers as they would be done. *)
LEMMA TransferCases ==
  ASSUME NEW op \in Transfers
  PROVE  \/ op \in {Copy, Tone("tx"), Tone("rx")} /\ op.word = None
         \/ \E c \in Colours :
              /\ op \in {Clear(c), Fill(c), Blank(c), Cursor(c)}
              /\ op.word \in {"fg", "bg"} /\ op.word # None /\ op.colour = c
<1>1. CASE op \in {Copy, Tone("tx"), Tone("rx")}
  BY <1>1 DEF Copy, Tone, Op
<1>2. ASSUME NEW c \in Colours, op \in {Clear(c), Fill(c), Blank(c), Cursor(c)}
      PROVE  op.word \in {"fg", "bg"} /\ op.word # None /\ op.colour = c
  <2>1. op.word \in {"fg", "bg"} /\ op.colour = c
    BY <1>2 DEF Clear, Fill, Blank, Cursor, Op
  <2>2. QED
    BY <2>1, NoneIs
<1>3. op \in {Copy, Tone("tx"), Tone("rx")}
      \/ \E c \in Colours : op \in {Clear(c), Fill(c), Blank(c), Cursor(c)}
  BY Zenon DEF Transfers
<1>4. QED
  BY <1>1, <1>2, <1>3

(* The same transfer with another colour. *)
LEMMA Recoloured ==
  ASSUME NEW op \in Transfers, op.word # None, NEW c \in Colours
  PROVE  /\ [op EXCEPT !.colour = c] \in Transfers
         /\ op.colour = c => [op EXCEPT !.colour = c] = op
<1>1. PICK d \in Colours :
        op \in {Clear(d), Fill(d), Blank(d), Cursor(d)} /\ op.colour = d
  BY TransferCases
<1>2. \/ op = Clear(d) /\ [op EXCEPT !.colour = c] = Clear(c)
      \/ op = Fill(d) /\ [op EXCEPT !.colour = c] = Fill(c)
      \/ op = Blank(d) /\ [op EXCEPT !.colour = c] = Blank(c)
      \/ op = Cursor(d) /\ [op EXCEPT !.colour = c] = Cursor(c)
  BY <1>1 DEF Clear, Fill, Blank, Cursor, Op
<1>3. {Clear(c), Fill(c), Blank(c), Cursor(c)} \subseteq Transfers
  BY TransfersAre
<1>4. [op EXCEPT !.colour = c] \in Transfers
  BY <1>2, <1>3
<1>5. QED
  BY <1>1, <1>2, <1>4

LEMMA DoneType ==
  (colour \in [{"fg", "bg"} -> Colours]) => \A op \in Transfers : AsDone(op) \in Transfers
<1> SUFFICES ASSUME colour \in [{"fg", "bg"} -> Colours], NEW op \in Transfers
             PROVE  AsDone(op) \in Transfers
  OBVIOUS
<1>1. CASE op.word = None
  BY <1>1 DEF AsDone
<1>2. CASE op.word # None
  <2>1. op.word \in {"fg", "bg"}
    BY <1>2, TransferCases
  <2>2. colour[op.word] \in Colours
    BY <2>1
  <2>3. QED
    BY <1>2, <2>2, Recoloured DEF AsDone
<1>3. QED
  BY <1>1, <1>2

(* A place from which the chain of a channel may go on. *)
Held(ch, b) == b = None \/ (b \in 0 .. DMA_SCBS - 1 /\ b < 3 /\ blocks[ch][b].op # None)

LEMMA HeldOn ==
  ASSUME EngineTyped, NEW ch \in Channels, Wired(ch), NEW b, Held(ch, b), b # None
  PROVE  /\ b \in 0 .. DMA_SCBS - 1 /\ b < 3 /\ blocks[ch][b].op \in Transfers
         /\ Held(ch, blocks[ch][b].next)
         /\ blocks[ch][b].next = None \/ blocks[ch][b].next = b + 1
<1>1. DMA_SCBS \in Nat /\ b \in 0 .. DMA_SCBS - 1 /\ b < 3 /\ blocks[ch][b].op # None
  BY DmaAssumption DEF Held
<1>2. blocks[ch][b] \in Block
  BY <1>1 DEF EngineTyped
<1>3. blocks[ch][b].op \in Transfers
  BY <1>1, <1>2 DEF Block
<1>4. CASE blocks[ch][b].next = None
  BY <1>1, <1>3, <1>4 DEF Held
<1>5. CASE blocks[ch][b].next # None
  <2>1. /\ b < 2 /\ b + 1 < DMA_SCBS /\ blocks[ch][b].next = b + 1
        /\ blocks[ch][b + 1].op # None
    BY <1>1, <1>5 DEF Wired
  <2>2. b + 1 \in 0 .. DMA_SCBS - 1 /\ b + 1 < 3
    BY <1>1, <2>1
  <2>3. QED
    BY <1>1, <1>3, <2>1, <2>2 DEF Held
<1>6. QED
  BY <1>4, <1>5

LEMMA HeldFirst ==
  ASSUME EngineTyped, NEW ch \in Channels, Wired(ch)
  PROVE  Held(ch, engine[ch].next)
<1>1. engine[ch].next \in (0 .. DMA_SCBS - 1) \cup {None}
  BY DEF EngineTyped, Block
<1>2. QED
  BY <1>1 DEF Held, Wired

(* What holds behind the end of a chain, and of a place when it holds of    *)
(* the next, holds of every place.                                          *)
LEMMA AlongChain ==
  ASSUME EngineTyped, NEW ch \in Channels, Wired(ch), NEW T, None \in T,
         \A b : Held(ch, b) /\ b # None /\ blocks[ch][b].next \in T => b \in T
  PROVE  \A b : Held(ch, b) => b \in T
<1> DEFINE N(x) == blocks[ch][x].next
           H(x) == Held(ch, x)
<1>1. \A x : H(x) /\ x # None =>
        /\ x \in 0 .. DMA_SCBS - 1 /\ x < 3 /\ H(N(x)) /\ (N(x) = None \/ N(x) = x + 1)
  BY HeldOn
<1>2. \A x : H(x) /\ x # None /\ N(x) \in T => x \in T
  OBVIOUS
<1>3. DMA_SCBS \in Nat /\ 0 # None /\ 1 # None /\ 2 # None
  BY DmaAssumption, NoneIs
<1> HIDE DEF N, H
<1>4. H(2) => 2 \in T
  <2>1. ASSUME H(2) PROVE N(2) = None
    <3>1. H(N(2)) /\ (N(2) = None \/ N(2) = 3)
      BY <1>1, <1>3, <2>1
    <3>2. N(2) # None => N(2) < 3
      BY <1>1, <3>1
    <3>3. QED
      BY <3>1, <3>2
  <2>2. QED
    BY <1>2, <1>3, <2>1
<1>5. H(1) => 1 \in T
  <2>1. H(1) => H(N(1)) /\ (N(1) = None \/ N(1) = 2)
    BY <1>1, <1>3
  <2>2. QED
    BY <1>2, <1>3, <1>4, <2>1
<1>6. H(0) => 0 \in T
  <2>1. H(0) => H(N(0)) /\ (N(0) = None \/ N(0) = 1)
    BY <1>1, <1>3
  <2>2. QED
    BY <1>2, <1>3, <1>5, <2>1
<1>7. ASSUME NEW x, H(x) PROVE x \in T
  <2>1. x = None \/ x \in {0, 1, 2}
    <3>1. x # None => x \in 0 .. DMA_SCBS - 1 /\ x < 3
      BY <1>1, <1>7, Zenon
    <3>2. QED
      BY <1>3, <3>1
  <2>2. QED
    BY <1>4, <1>5, <1>6, <1>7, <2>1
<1>8. QED
  BY <1>7 DEF H

LEMMA AfterType ==
  ASSUME RoomForJob, EngineTyped, NEW ch \in Channels, Wired(ch)
  PROVE  \A b : Held(ch, b) => After(ch, b) \in Seq(Transfers)
<1> DEFINE T == {b \in Places : After(ch, b) \in Seq(Transfers)}
<1>1. None \in T
  <2>1. After(ch, None) = <<>>
    BY AfterIs
  <2>2. QED
    BY <2>1, EmptySeq DEF Places
<1>2. ASSUME NEW b, Held(ch, b), b # None, blocks[ch][b].next \in T PROVE b \in T
  <2>1. b \in 0 .. DMA_SCBS - 1 /\ b < 3 /\ blocks[ch][b].op \in Transfers
    BY <1>2, HeldOn
  <2>2. After(ch, b) = <<AsDone(blocks[ch][b].op)>> \o After(ch, blocks[ch][b].next)
    BY <2>1, AfterIs
  <2>3. AsDone(blocks[ch][b].op) \in Transfers
    BY <2>1, DoneType DEF EngineTyped
  <2>4. <<AsDone(blocks[ch][b].op)>> \in Seq(Transfers)
    BY <2>3
  <2>5. After(ch, b) \in Seq(Transfers)
    BY <1>2, <2>2, <2>4, ConcatProperties
  <2>6. QED
    BY <2>1, <2>5 DEF Places
<1> HIDE DEF T
<1>3. \A b : Held(ch, b) => b \in T
  BY <1>1, <1>2, AlongChain
<1>4. QED
  BY <1>3 DEF T

-----------------------------------------------------------------------------
(* Chains and queues from one state to the next. *)
LEMMA AfterNext ==
  (RoomForJob /\ EngineTyped) => \A ch \in Channels : Wired(ch) =>
    /\ After(ch, None) = <<>>
    /\ \A b \in 0 .. DMA_SCBS - 1 : b < 3 =>
         After(ch, b) = <<AsDone(blocks[ch][b].op)>> \o After(ch, blocks[ch][b].next)
BY AfterIs

LEMMA AfterNextPrimed ==
  ((RoomForJob /\ EngineTyped) => \A ch \in Channels : Wired(ch) =>
    /\ After(ch, None) = <<>>
    /\ \A b \in 0 .. DMA_SCBS - 1 : b < 3 =>
         After(ch, b) = <<AsDone(blocks[ch][b].op)>> \o After(ch, blocks[ch][b].next))'
BY AfterNext, PTL

LEMMA AfterKept ==
  ASSUME RoomForJob, EngineTyped, EngineTyped', NEW ch \in Channels, Wired(ch), Wired(ch)',
         blocks'[ch] = blocks[ch],
         \A b \in 0 .. DMA_SCBS - 1 : blocks[ch][b].op # None =>
           AsDone(blocks[ch][b].op)' = AsDone(blocks[ch][b].op)
  PROVE  \A b : Held(ch, b) => After(ch, b)' = After(ch, b)
<1> DEFINE T == {b \in Places : After(ch, b)' = After(ch, b)}
<1>1. /\ After(ch, None)' = <<>>
      /\ \A b \in 0 .. DMA_SCBS - 1 : b < 3 =>
           After(ch, b)' = <<AsDone(blocks[ch][b].op)'>> \o (After(ch, blocks[ch][b].next))'
  BY AfterNextPrimed
<1>2. None \in T
  <2>1. After(ch, None) = <<>>
    BY AfterIs
  <2>2. QED
    BY <1>1, <2>1 DEF Places
<1>3. ASSUME NEW b, Held(ch, b), b # None, blocks[ch][b].next \in T PROVE b \in T
  <2>1. b \in 0 .. DMA_SCBS - 1 /\ b < 3 /\ blocks[ch][b].op # None
    BY <1>3 DEF Held
  <2>2. After(ch, b) = <<AsDone(blocks[ch][b].op)>> \o After(ch, blocks[ch][b].next)
    BY <2>1, AfterIs
  <2>3. After(ch, b)' = <<AsDone(blocks[ch][b].op)'>> \o (After(ch, blocks[ch][b].next))'
    BY <1>1, <2>1
  <2>4. AsDone(blocks[ch][b].op)' = AsDone(blocks[ch][b].op)
    BY <2>1
  <2>5. (After(ch, blocks[ch][b].next))' = After(ch, blocks[ch][b].next)
    BY <1>3
  <2>6. QED
    BY <2>1, <2>2, <2>3, <2>4, <2>5 DEF Places
<1> HIDE DEF T
<1>4. \A b : Held(ch, b) => b \in T
  BY <1>2, <1>3, AlongChain
<1>5. QED
  BY <1>4 DEF T

-----------------------------------------------------------------------------
(* What is owed by a channel: the engine's chain, and the queue. *)
LEMMA QueueType ==
  ASSUME EngineTyped, NEW ch \in Channels, Wired(ch)
  PROVE  /\ Queue(ch) \in Seq(Transfers) /\ Len(Queue(ch)) = curr_blk[ch]
         /\ \A n \in 1 .. curr_blk[ch] : Queue(ch)[n] = AsDone(blocks[ch][n - 1].op)
<1>1. curr_blk[ch] \in 0 .. DMA_SCBS /\ DMA_SCBS \in Nat
  BY DmaAssumption DEF EngineTyped
<1>2. ASSUME NEW n \in 1 .. curr_blk[ch] PROVE AsDone(blocks[ch][n - 1].op) \in Transfers
  <2>1. n - 1 \in 0 .. curr_blk[ch] - 1 /\ n - 1 \in 0 .. DMA_SCBS - 1
    BY <1>1
  <2>2. blocks[ch][n - 1].op # None
    BY <2>1 DEF Wired
  <2>3. blocks[ch][n - 1] \in Block
    BY <2>1 DEF EngineTyped
  <2>4. blocks[ch][n - 1].op \in Transfers
    BY <2>2, <2>3 DEF Block
  <2>5. QED
    BY <2>4, DoneType DEF EngineTyped
<1>3. QED
  BY <1>1, <1>2 DEF Queue

LEMMA ChainType ==
  ASSUME RoomForJob, EngineTyped, NEW ch \in Channels, Wired(ch)
  PROVE  /\ Chain(ch) \in Seq(Transfers) /\ After(ch, engine[ch].next) \in Seq(Transfers)
         /\ ~dma_running(ch) => Chain(ch) = <<>>
<1> DEFINE now == IF engine[ch].op = None THEN <<>> ELSE <<AsDone(engine[ch].op)>>
           rest == After(ch, engine[ch].next)
<1>1. engine[ch].op # None => AsDone(engine[ch].op) \in Transfers
  <2>1. engine[ch].op \in Transfers \cup {None}
    BY DEF EngineTyped, Block
  <2>2. QED
    BY <2>1, DoneType DEF EngineTyped
<1>2. now \in Seq(Transfers)
  BY <1>1, EmptySeq
<1>3. rest \in Seq(Transfers)
  BY HeldFirst, AfterType
<1>4. Chain(ch) = now \o rest
  BY DEF Chain, After
<1>5. ASSUME ~dma_running(ch) PROVE now = <<>> /\ rest = <<>>
  <2>1. engine[ch].op = None /\ engine[ch].next = None
    BY <1>5 DEF dma_running
  <2>2. QED
    BY <2>1, AfterIs
<1> HIDE DEF now, rest
<1>6. now \o rest \in Seq(Transfers)
  BY <1>2, <1>3, ConcatProperties
<1>7. ~dma_running(ch) => now \o rest = <<>>
  BY <1>2, <1>5, ConcatEmptySeq
<1>8. QED
  BY <1>3, <1>4, <1>6, <1>7 DEF rest

(* A queue of up to three transfers is what its first block leads to. *)
LEMMA QueueIsChain ==
  ASSUME RoomForJob, EngineTyped, NEW ch \in Channels, Wired(ch), curr_blk[ch] > 0
  PROVE  Held(ch, 0) /\ After(ch, 0) = Queue(ch)
<1> DEFINE q == curr_blk[ch]
           D(n) == AsDone(blocks[ch][n].op)
           N(n) == blocks[ch][n].next
<1>1. DMA_SCBS \in Nat /\ DMA_SCBS >= 3 /\ q \in 1 .. 3
  BY DmaAssumption DEF RoomForJob, EngineTyped, Wired
<1>2. Queue(ch) \in Seq(Transfers) /\ Len(Queue(ch)) = q /\ \A n \in 1 .. q : Queue(ch)[n] = D(n - 1)
  BY QueueType
<1>3. /\ After(ch, None) = <<>>
      /\ \A n \in 0 .. 2 : After(ch, n) = <<D(n)>> \o After(ch, N(n))
  BY <1>1, AfterIs
<1>4. \A n \in 0 .. q - 1 : N(n) = IF n + 1 = q THEN None ELSE n + 1
  BY DEF Wired
<1>5. blocks[ch][0].op # None
  BY <1>1 DEF Wired
<1>6. Held(ch, 0)
  BY <1>1, <1>5 DEF Held
<1>a. /\ After(ch, 0) = <<D(0)>> \o After(ch, N(0))
      /\ After(ch, 1) = <<D(1)>> \o After(ch, N(1))
      /\ After(ch, 2) = <<D(2)>> \o After(ch, N(2))
  <2>1. 0 \in 0 .. 2 /\ 1 \in 0 .. 2 /\ 2 \in 0 .. 2
    OBVIOUS
  <2> HIDE DEF D, N
  <2>2. QED
    BY <1>3, <2>1, ZenonT(60)
<1> HIDE DEF q, D, N
<1>7. CASE q = 1
  <2>1. N(0) = None
    BY <1>4, <1>7
  <2>2. After(ch, 0) = <<D(0)>> \o <<>>
    BY <1>3, <2>1
  <2>3. Queue(ch) = <<D(0)>>
    BY <1>2, <1>7
  <2>4. QED
    BY <1>6, <2>2, <2>3
<1>8. CASE q = 2
  <2>1. N(0) = 1 /\ N(1) = None
    BY <1>4, <1>8
  <2>2. After(ch, 0) = <<D(0)>> \o (<<D(1)>> \o <<>>)
    BY <1>3, <1>a, <2>1, Zenon
  <2>3. Queue(ch) = <<D(0), D(1)>>
    BY <1>2, <1>8
  <2>4. QED
    BY <1>6, <2>2, <2>3
<1>9. CASE q = 3
  <2>1. N(0) = 1 /\ N(1) = 2 /\ N(2) = None
    BY <1>4, <1>9
  <2>2. After(ch, 0) = <<D(0)>> \o (<<D(1)>> \o (<<D(2)>> \o <<>>))
    BY <1>3, <1>a, <2>1, Zenon
  <2>3. Queue(ch) = <<D(0), D(1), D(2)>>
    BY <1>2, <1>9
  <2>4. QED
    BY <1>6, <2>2, <2>3
<1>10. QED
  BY <1>1, <1>7, <1>8, <1>9

-----------------------------------------------------------------------------
(* The steps on a channel.  The bell's transfers have no colour. *)
Tones(ch) ==
  /\ engine[ch].op \in {Tone("tx"), Tone("rx"), None}
  /\ \A b \in 0 .. DMA_SCBS - 1 : blocks[ch][b].op \in {Tone("tx"), Tone("rx"), None}

LEMMA DoneSame ==
  ASSUME NEW op \in Transfers, op.word = None \/ colour' = colour
  PROVE  AsDone(op)' = AsDone(op)
<1>1. CASE op.word = None
  BY <1>1 DEF AsDone
<1>2. CASE colour' = colour
  BY <1>2 DEF AsDone
<1>3. QED
  BY <1>1, <1>2

LEMMA TonesWordless ==
  /\ Tone("tx") \in Transfers /\ Tone("tx").word = None
  /\ Tone("rx") \in Transfers /\ Tone("rx").word = None
<1>1. Tone("tx") \in Transfers /\ Tone("rx") \in Transfers
  BY TransfersAre
<1>2. QED
  BY <1>1 DEF Tone, Op

LEMMA StillOwes ==
  ASSUME RoomForJob, EngineTyped, EngineTyped', NEW ch \in Channels, Wired(ch),
         blocks'[ch] = blocks[ch], engine'[ch] = engine[ch], curr_blk'[ch] = curr_blk[ch],
         colour' = colour \/ Tones(ch)
  PROVE  /\ Wired(ch)' /\ (Tones(ch) => Tones(ch)')
         /\ Chain(ch)' = Chain(ch) /\ Queue(ch)' = Queue(ch)
<1>1. Wired(ch)'
  BY DEF Wired
<1>2. Tones(ch) => Tones(ch)'
  BY DEF Tones
<1>3. ASSUME NEW b \in 0 .. DMA_SCBS - 1, blocks[ch][b].op # None
      PROVE  AsDone(blocks[ch][b].op)' = AsDone(blocks[ch][b].op)
  <2>1. blocks[ch][b].op \in Transfers
    <3>1. blocks[ch][b] \in Block
      BY DEF EngineTyped
    <3>2. QED
      BY <1>3, <3>1 DEF Block
  <2>2. Tones(ch) => blocks[ch][b].op.word = None
    BY <1>3, TonesWordless DEF Tones
  <2>3. blocks'[ch][b].op = blocks[ch][b].op
    OBVIOUS
  <2> DEFINE op == blocks[ch][b].op
  <2>4. ASSUME NEW o \in Transfers, o.word = None \/ colour' = colour, o = op, op' = op
        PROVE  AsDone(op)' = AsDone(op)
    <3>1. AsDone(o)' = AsDone(o)
      BY <2>4, DoneSame
    <3>2. QED
      BY <2>4, <3>1 DEF AsDone
  <2>5. QED
    BY <2>1, <2>2, <2>3, <2>4
<1>4. \A b : Held(ch, b) => After(ch, b)' = After(ch, b)
  BY <1>1, <1>3, AfterKept
<1>5. Chain(ch)' = Chain(ch)
  <2> DEFINE first == engine[ch].next
             now == IF engine[ch].op = None THEN <<>> ELSE <<AsDone(engine[ch].op)>>
  <2>1. After(ch, first)' = After(ch, first)
    <3>1. Held(ch, first) /\ first' = first
      BY HeldFirst
    <3>2. ASSUME NEW b, b = first, b = first' PROVE After(ch, first)' = After(ch, b)'
      BY <3>2 DEF After
    <3>3. QED
      BY <1>4, <3>1, <3>2
  <2>2. now' = now
    <3>1. CASE engine[ch].op = None
      BY <3>1
    <3>2. CASE engine[ch].op # None
      <4>1. engine[ch].op \in Transfers
        BY <3>2 DEF EngineTyped, Block
      <4>2. Tones(ch) => engine[ch].op.word = None
        BY <3>2, TonesWordless DEF Tones
      <4>3. AsDone(engine[ch].op)' = AsDone(engine[ch].op)
        BY <4>1, <4>2, DoneSame DEF AsDone
      <4>4. QED
        BY <3>2, <4>3
    <3>3. QED
      BY <3>1, <3>2
  <2>3. Chain(ch) = now \o After(ch, first) /\ Chain(ch)' = now' \o After(ch, first)'
    BY DEF Chain, After
  <2> HIDE DEF first, now
  <2>4. QED
    BY <2>1, <2>2, <2>3
<1>6. Queue(ch)' = Queue(ch)
  <2>1. CASE colour' = colour
    BY <2>1 DEF Queue, AsDone
  <2>2. CASE Tones(ch)
    <3>1. ASSUME NEW b \in 0 .. curr_blk[ch] - 1
          PROVE  AsDone(blocks[ch][b].op)' = AsDone(blocks[ch][b].op)
      <4>1. b \in 0 .. DMA_SCBS - 1
        BY DmaAssumption DEF EngineTyped
      <4>2. blocks[ch][b].op # None
        BY DEF Wired
      <4>3. QED
        BY <1>3, <4>1, <4>2
    <3>2. /\ curr_blk[ch] \in Nat
          /\ \A n \in 1 .. curr_blk[ch] : n - 1 \in 0 .. curr_blk[ch] - 1
      BY DEF EngineTyped
    <3>3. /\ Queue(ch) = [n \in 1 .. curr_blk[ch] |-> AsDone(blocks[ch][n - 1].op)]
          /\ Queue(ch)' = [n \in 1 .. curr_blk[ch] |-> AsDone(blocks[ch][n - 1].op)']
      BY DEF Queue
    <3>4. ASSUME NEW n \in 1 .. curr_blk[ch]
          PROVE  AsDone(blocks[ch][n - 1].op)' = AsDone(blocks[ch][n - 1].op)
      <4>1. PICK b \in 0 .. curr_blk[ch] - 1 : b = n - 1
        BY <3>2
      <4>2. AsDone(blocks[ch][b].op)' = AsDone(blocks[ch][b].op)
        BY <3>1
      <4>3. b' = (n - 1)'
        BY <4>1
      <4>4. QED
        BY <4>1, <4>2, <4>3
    <3>5. QED
      BY <3>3, <3>4, Zenon
  <2>3. QED
    BY <2>1, <2>2
<1>7. QED
  BY <1>1, <1>2, <1>5, <1>6

LEMMA ExecuteOwes ==
  ASSUME RoomForJob, EngineTyped, EngineTyped', NEW ch \in Channels, Wired(ch),
         dma_execute_queue(ch), ~dma_running(ch), curr_blk[ch] > 0
  PROVE  /\ Wired(ch)' /\ (Tones(ch) => Tones(ch)')
         /\ Chain(ch)' \o Queue(ch)' = Chain(ch) \o Queue(ch)
<1>1. /\ blocks' = blocks /\ colour' = colour
      /\ engine'[ch] = [op |-> None, next |-> 0] /\ curr_blk'[ch] = 0
  BY DEF dma_execute_queue, EngineTyped
<1>2. Held(ch, 0) /\ After(ch, 0) = Queue(ch)
  BY QueueIsChain
<1>3. Wired(ch)'
  BY <1>1, <1>2 DEF Wired, Held
<1>4. Tones(ch) => Tones(ch)'
  BY <1>1 DEF Tones
<1>5. ASSUME NEW b \in 0 .. DMA_SCBS - 1, blocks[ch][b].op # None
      PROVE  AsDone(blocks[ch][b].op)' = AsDone(blocks[ch][b].op)
  BY <1>1 DEF AsDone
<1>6. After(ch, 0)' = After(ch, 0)
  BY <1>1, <1>2, <1>3, <1>5, AfterKept
<1>7. Chain(ch)' = <<>> \o After(ch, 0)'
  BY <1>1 DEF Chain, After
<1>8. Queue(ch)' = <<>>
  BY <1>1 DEF Queue
<1>9. Chain(ch) = <<>> /\ Queue(ch) \in Seq(Transfers)
  BY ChainType, QueueType
<1>10. <<>> \o Queue(ch) = Queue(ch) /\ Queue(ch) \o <<>> = Queue(ch)
  BY <1>9, ConcatEmptySeq
<1>11. QED
  BY <1>2, <1>3, <1>4, <1>6, <1>7, <1>8, <1>9, <1>10

Coloured(op) ==
  colour' = IF op.word = None THEN colour ELSE [colour EXCEPT ![op.word] = op.colour]

LEMMA DoneColoured ==
  ASSUME colour \in [{"fg", "bg"} -> Colours], NEW op \in Transfers, Coloured(op)
  PROVE  /\ AsDone(op)' = op
         /\ \A o \in Transfers : o.word = None \/ o.word # op.word => AsDone(o)' = AsDone(o)
<1>1. CASE op.word = None
  <2>1. colour' = colour
    BY <1>1 DEF Coloured
  <2>2. QED
    BY <1>1, <2>1, DoneSame DEF AsDone
<1>2. CASE op.word # None
  <2>1. op.word \in {"fg", "bg"} /\ op.colour \in Colours
    BY <1>2, TransferCases
  <2>2. /\ colour'[op.word] = op.colour
        /\ \A w \in {"fg", "bg"} : w # op.word => colour'[w] = colour[w]
    BY <1>2, <2>1 DEF Coloured
  <2>3. AsDone(op)' = [op EXCEPT !.colour = op.colour]
    BY <1>2, <2>2 DEF AsDone
  <2>4. AsDone(op)' = op
    BY <1>2, <2>1, <2>3, Recoloured
  <2>5. ASSUME NEW o \in Transfers, o.word = None \/ o.word # op.word
        PROVE  AsDone(o)' = AsDone(o)
    <3>1. CASE o.word = None
      BY <3>1 DEF AsDone
    <3>2. CASE o.word # None
      <4>1. o.word \in {"fg", "bg"}
        BY <3>2, TransferCases
      <4>2. colour'[o.word] = colour[o.word]
        BY <2>2, <2>5, <3>2, <4>1
      <4>3. QED
        BY <3>2, <4>2 DEF AsDone
    <3>3. QED
      BY <3>1, <3>2
  <2>6. QED
    BY <2>4, <2>5
<1>3. QED
  BY <1>1, <1>2

(* The control blocks after a transfer has been enqueued. *)
LEMMA EnqueuedIs ==
  ASSUME EngineTyped, NEW ch \in Channels, NEW op \in Transfers, dma_enqueue_operation(ch, op),
         curr_blk[ch] # DMA_SCBS
  PROVE  /\ curr_blk'[ch] = curr_blk[ch] + 1 /\ engine' = engine /\ Coloured(op)
         /\ \A b \in 0 .. DMA_SCBS - 1 :
              /\ blocks'[ch][b].op = IF b = curr_blk[ch] THEN op ELSE blocks[ch][b].op
              /\ blocks'[ch][b].next = IF b = curr_blk[ch] THEN None
                                       ELSE IF b + 1 = curr_blk[ch] THEN b + 1
                                       ELSE blocks[ch][b].next
         /\ \A c \in Channels : c # ch => blocks'[c] = blocks[c] /\ curr_blk'[c] = curr_blk[c]
<1> DEFINE n == curr_blk[ch]
           new == [op |-> op, next |-> None]
           old == blocks[ch]
           filled == [old EXCEPT ![n] = new]
           linked == [filled EXCEPT ![n - 1].next = n]
<1>1. n \in 0 .. DMA_SCBS - 1 /\ n + 1 \in 0 .. DMA_SCBS /\ DMA_SCBS \in Nat
  BY DmaAssumption DEF EngineTyped
<1>2. new \in Block /\ new.op = op /\ new.next = None
  BY DEF Block
<1>3. old \in [0 .. DMA_SCBS - 1 -> Block]
  BY DEF EngineTyped
<1>4. /\ blocks' = [blocks EXCEPT ![ch] = Enqueued(ch, op)]
      /\ curr_blk' = [curr_blk EXCEPT ![ch] = @ + 1]
      /\ Coloured(op) /\ engine' = engine
  BY DEF dma_enqueue_operation, Coloured
<1>5. blocks'[ch] = IF n > 0 THEN linked ELSE filled
  BY <1>4 DEF Enqueued, EngineTyped
<1>6. curr_blk'[ch] = n + 1
      /\ \A c \in Channels : c # ch => blocks'[c] = blocks[c] /\ curr_blk'[c] = curr_blk[c]
  BY <1>4 DEF EngineTyped
<1> HIDE DEF new, old, n
<1>7. /\ filled \in [0 .. DMA_SCBS - 1 -> Block]
      /\ \A b \in 0 .. DMA_SCBS - 1 : filled[b] = IF b = n THEN new ELSE old[b]
  BY <1>1, <1>2, <1>3
<1> HIDE DEF filled
<1>8. n > 0 => \A b \in 0 .. DMA_SCBS - 1 :
        /\ linked[b].op = filled[b].op
        /\ linked[b].next = IF b = n - 1 THEN n ELSE filled[b].next
  BY <1>1, <1>7 DEF Block
<1> HIDE DEF linked
<1>9. ASSUME NEW b \in 0 .. DMA_SCBS - 1
      PROVE  /\ blocks'[ch][b].op = IF b = n THEN op ELSE old[b].op
             /\ blocks'[ch][b].next = IF b = n THEN None
                                      ELSE IF b + 1 = n THEN b + 1 ELSE old[b].next
  <2>1. CASE n > 0
    <3>1. blocks'[ch][b].op = filled[b].op
          /\ blocks'[ch][b].next = IF b = n - 1 THEN n ELSE filled[b].next
      BY <1>5, <1>8, <2>1
    <3>2. (b = n - 1) = (b + 1 = n) /\ (b = n - 1 => b # n)
      BY <1>1
    <3>3. QED
      BY <1>2, <1>7, <3>1, <3>2
  <2>2. CASE ~(n > 0)
    <3>1. blocks'[ch][b] = filled[b] /\ b + 1 # n
      BY <1>1, <1>5, <2>2
    <3>2. QED
      BY <1>2, <1>7, <3>1
  <2>3. QED
    BY <2>1, <2>2
<1>10. QED
  BY <1>4, <1>6, <1>9 DEF n, old

LEMMA EnqueueWired ==
  ASSUME RoomForJob, EngineTyped, EngineTyped', NEW ch \in Channels, Wired(ch),
         NEW op \in Transfers, dma_enqueue_operation(ch, op),
         ~dma_running(ch), curr_blk[ch] < 3
  PROVE  /\ Wired(ch)' /\ ~dma_running(ch)' /\ curr_blk'[ch] = curr_blk[ch] + 1
         /\ Tones(ch) /\ op \in {Tone("tx"), Tone("rx")} => Tones(ch)'
<1> DEFINE q == curr_blk[ch]
<1>1. /\ DMA_SCBS \in Nat /\ DMA_SCBS >= 3 /\ q \in 0 .. 2 /\ q # DMA_SCBS
      /\ q \in 0 .. DMA_SCBS - 1
  BY DmaAssumption DEF RoomForJob, EngineTyped
<1>2. /\ curr_blk'[ch] = q + 1 /\ engine' = engine
      /\ \A b \in 0 .. DMA_SCBS - 1 :
           /\ blocks'[ch][b].op = IF b = q THEN op ELSE blocks[ch][b].op
           /\ blocks'[ch][b].next = IF b = q THEN None
                                    ELSE IF b + 1 = q THEN b + 1 ELSE blocks[ch][b].next
  BY <1>1, EnqueuedIs
<1>3. op # None
  BY NoneIs
<1>4. engine[ch].next = None /\ engine[ch].op = None
  BY DEF dma_running
<1>5. ~dma_running(ch)'
  BY <1>2, <1>4 DEF dma_running
<1> HIDE DEF q
<1>6. ASSUME NEW b \in 0 .. DMA_SCBS - 1, blocks'[ch][b].next # None
      PROVE  /\ b < 2 /\ b + 1 < DMA_SCBS /\ blocks'[ch][b].next = b + 1
             /\ blocks'[ch][b + 1].op # None
  <2>1. b # q
    BY <1>2, <1>6
  <2>2. CASE b + 1 = q
    BY <1>1, <1>2, <1>3, <2>1, <2>2
  <2>3. CASE b + 1 # q
    <3>1. blocks'[ch][b].next = blocks[ch][b].next
      BY <1>2, <2>1, <2>3
    <3>2. b < 2 /\ b + 1 < DMA_SCBS /\ blocks[ch][b].next = b + 1 /\ blocks[ch][b + 1].op # None
      BY <1>6, <3>1 DEF Wired
    <3>3. b + 1 \in 0 .. DMA_SCBS - 1
      BY <1>1, <3>2
    <3>4. blocks'[ch][b + 1].op = blocks[ch][b + 1].op
      BY <1>2, <2>3, <3>3
    <3>5. QED
      BY <3>1, <3>2, <3>4
  <2>4. QED
    BY <2>2, <2>3
<1>7. ASSUME NEW b \in 0 .. curr_blk'[ch] - 1
      PROVE  /\ blocks'[ch][b].op # None
             /\ blocks'[ch][b].next = IF b + 1 = curr_blk'[ch] THEN None ELSE b + 1
  <2>1. b \in 0 .. DMA_SCBS - 1 /\ b <= q
    BY <1>1, <1>2
  <2>2. CASE b = q
    BY <1>1, <1>2, <1>3, <2>1, <2>2
  <2>3. CASE b # q
    <3>1. b \in 0 .. q - 1 /\ b + 1 # q + 1
      BY <1>1, <2>1, <2>3
    <3>2. blocks[ch][b].op # None /\ blocks[ch][b].next = IF b + 1 = q THEN None ELSE b + 1
      BY <3>1 DEF Wired, q
    <3>3. QED
      BY <1>2, <2>1, <2>3, <3>1, <3>2
  <2>4. QED
    BY <2>2, <2>3
<1>8. engine'[ch].next = None /\ engine'[ch].op = None
  BY <1>2, <1>4
<1>9. Wired(ch)'
  <2>1. curr_blk'[ch] <= 3
    BY <1>1, <1>2
  <2>2. QED
    BY <1>6, <1>7, <1>8, <2>1 DEF Wired
<1>10. ASSUME Tones(ch), op \in {Tone("tx"), Tone("rx")} PROVE Tones(ch)'
  BY <1>2, <1>8, <1>10 DEF Tones
<1>11. QED
  BY <1>2, <1>5, <1>9, <1>10 DEF q

(* The colour words are free: no transfer before it in the queue reads the  *)
(* word a new one sets.                                                     *)
LEMMA EnqueueOwes ==
  ASSUME RoomForJob, EngineTyped, EngineTyped', NEW ch \in Channels, Wired(ch),
         NEW op \in Transfers, dma_enqueue_operation(ch, op),
         ~dma_running(ch), curr_blk[ch] < 3,
         \A b \in 0 .. curr_blk[ch] - 1 :
           blocks[ch][b].op.word = None \/ blocks[ch][b].op.word # op.word
  PROVE  Chain(ch)' \o Queue(ch)' = Chain(ch) \o (Queue(ch) \o <<op>>)
<1> DEFINE q == curr_blk[ch]
           new == Queue(ch) \o <<op>>
<1>1. /\ DMA_SCBS \in Nat /\ DMA_SCBS >= 3 /\ q \in 0 .. 2 /\ q # DMA_SCBS
      /\ q \in 0 .. DMA_SCBS - 1
  BY DmaAssumption DEF RoomForJob, EngineTyped
<1>2. /\ curr_blk'[ch] = q + 1 /\ engine' = engine /\ Coloured(op)
      /\ \A b \in 0 .. DMA_SCBS - 1 :
           blocks'[ch][b].op = IF b = q THEN op ELSE blocks[ch][b].op
  BY <1>1, EnqueuedIs
<1>3. Wired(ch)' /\ engine[ch].next = None /\ engine[ch].op = None
  BY EnqueueWired DEF dma_running
<1>4. Chain(ch) = <<>> /\ Queue(ch) \in Seq(Transfers)
  BY ChainType, QueueType
<1>5. After(ch, None)' = <<>>
  BY <1>3, AfterNextPrimed
<1>6. Chain(ch)' = <<>>
  <2>1. engine'[ch].next = None /\ engine'[ch].op = None
    BY <1>2, <1>3
  <2>2. Chain(ch)' = <<>> \o <<>>
    BY <1>5, <2>1 DEF Chain, After
  <2>3. QED
    BY <2>2
<1>7. /\ Len(Queue(ch)) = q
      /\ \A n \in 1 .. q : Queue(ch)[n] = AsDone(blocks[ch][n - 1].op)
  BY QueueType
<1>8. /\ new \in Seq(Transfers) /\ Len(new) = q + 1 /\ new[q + 1] = op
      /\ \A n \in 1 .. q : new[n] = Queue(ch)[n]
  BY <1>1, <1>4, <1>7, SMTT(60)
<1>9. ASSUME NEW n \in 1 .. q + 1 PROVE AsDone(blocks[ch][n - 1].op)' = new[n]
  <2> DEFINE b == n - 1
  <2>1. b \in 0 .. DMA_SCBS - 1 /\ b <= q
    BY <1>1
  <2>2. CASE b = q
    <3>1. blocks'[ch][b].op = op /\ n = q + 1
      BY <1>1, <1>2, <2>1, <2>2
    <3>2. AsDone(op)' = op
      BY <1>2, DoneColoured DEF EngineTyped
    <3>3. AsDone(blocks[ch][n - 1].op)' = AsDone(op)'
      BY <3>1 DEF AsDone
    <3>4. QED
      BY <1>8, <3>1, <3>2, <3>3
  <2>3. CASE b # q
    <3>1. n \in 1 .. q /\ b \in 0 .. q - 1
      BY <1>1, <2>1, <2>3
    <3>2. blocks'[ch][b].op = blocks[ch][b].op
      BY <1>2, <2>1, <2>3
    <3>3. PICK o \in Transfers : o = blocks[ch][b].op
      <4>1. blocks[ch][b] \in Block /\ blocks[ch][b].op # None
        BY <2>1, <3>1 DEF EngineTyped, Wired, q
      <4>2. QED
        BY <4>1 DEF Block
    <3>4. o.word = None \/ o.word # op.word
      BY <3>1, <3>3
    <3>5. AsDone(o)' = AsDone(o)
      BY <1>2, <3>4, DoneColoured DEF EngineTyped
    <3>6. AsDone(blocks[ch][n - 1].op)' = AsDone(o)' /\ AsDone(blocks[ch][n - 1].op) = AsDone(o)
      BY <3>2, <3>3 DEF AsDone
    <3>7. QED
      BY <1>7, <1>8, <3>1, <3>5, <3>6
  <2>4. QED
    BY <2>2, <2>3
<1> HIDE DEF new, q
<1>10. Queue(ch)' = [n \in 1 .. q + 1 |-> AsDone(blocks[ch][n - 1].op)']
  BY <1>2 DEF Queue
<1>11. Queue(ch)' = [n \in 1 .. q + 1 |-> new[n]]
  BY <1>9, <1>10
<1>12. new = [n \in 1 .. q + 1 |-> new[n]]
  BY <1>8
<1>13. Queue(ch)' = new
  BY <1>11, <1>12
<1>14. QED
  BY <1>4, <1>6, <1>13 DEF new

(* An engine takes the next control block, ... *)
LEMMA LoadOwes ==
  ASSUME RoomForJob, EngineTyped, EngineTyped', NEW ch \in Channels, Wired(ch), Load(ch)
  PROVE  /\ Wired(ch)' /\ (Tones(ch) => Tones(ch)')
         /\ Chain(ch)' = Chain(ch) /\ Queue(ch)' = Queue(ch)
<1> DEFINE b == engine[ch].next
           next == blocks[ch][b].next
<1>1. /\ engine[ch].op = None /\ b # None
      /\ engine' = [engine EXCEPT ![ch] = blocks[ch][b]]
      /\ blocks' = blocks /\ colour' = colour /\ curr_blk' = curr_blk
  BY DEF Load
<1>2. engine'[ch] = blocks[ch][b]
  BY <1>1 DEF EngineTyped
<1>3. /\ b \in 0 .. DMA_SCBS - 1 /\ b < 3 /\ blocks[ch][b].op \in Transfers
      /\ Held(ch, next)
  BY <1>1, HeldFirst, HeldOn
<1>4. Wired(ch)'
  <2>1. next # None => next < 3 /\ blocks[ch][next].op # None
    BY <1>3 DEF Held
  <2>2. QED
    BY <1>1, <1>2, <2>1 DEF Wired
<1>5. Tones(ch) => Tones(ch)'
  BY <1>1, <1>2, <1>3 DEF Tones
<1>6. Queue(ch)' = Queue(ch)
  BY <1>1 DEF Queue, AsDone
<1>7. After(ch, b) = <<AsDone(blocks[ch][b].op)>> \o After(ch, next)
  BY <1>3, AfterIs
<1>8. \A x : Held(ch, x) => After(ch, x)' = After(ch, x)
  <2>1. ASSUME NEW x \in 0 .. DMA_SCBS - 1
        PROVE  AsDone(blocks[ch][x].op)' = AsDone(blocks[ch][x].op)
    BY <1>1 DEF AsDone
  <2>2. blocks'[ch] = blocks[ch]
    BY <1>1
  <2>3. QED
    BY <1>4, <2>1, <2>2, AfterKept
<1>9. PICK n : n = next
  OBVIOUS
<1>10. PICK o \in Transfers : o = blocks[ch][b].op
  BY <1>3
<1>11. After(ch, n)' = After(ch, n)
  BY <1>3, <1>8, <1>9
<1>12. Chain(ch)' = <<AsDone(o)'>> \o After(ch, n)'
  <2>1. engine'[ch].op = o /\ engine'[ch].next = n /\ o # None
    BY <1>2, <1>9, <1>10, NoneIs
  <2>2. QED
    BY <2>1 DEF Chain, After, AsDone
<1>13. AsDone(o)' = AsDone(o)
  BY <1>1, DoneSame
<1>14. Chain(ch) = <<>> \o After(ch, b)
  BY <1>1 DEF Chain, After
<1>15. After(ch, b) \in Seq(Transfers)
  BY ChainType
<1>16. Chain(ch) = After(ch, b)
  BY <1>14, <1>15, ConcatEmptySeq
<1>17. QED
  BY <1>4, <1>5, <1>6, <1>7, <1>9, <1>10, <1>11, <1>12, <1>13, <1>16

(* ... and ends the one under way. *)
LEMMA FinishOwes ==
  ASSUME RoomForJob, EngineTyped, EngineTyped', NEW ch \in Channels, Wired(ch), Finish(ch)
  PROVE  /\ Wired(ch)' /\ (Tones(ch) => Tones(ch)')
         /\ \E op \in Transfers : Chain(ch) = <<op>> \o Chain(ch)'
         /\ Chain(ch)' \in Seq(Transfers) /\ Queue(ch)' = Queue(ch)
<1>1. /\ engine[ch].op # None /\ engine' = [engine EXCEPT ![ch].op = None]
      /\ blocks' = blocks /\ colour' = colour /\ curr_blk' = curr_blk
  BY DEF Finish
<1>2. engine[ch].op \in Transfers
  BY <1>1 DEF EngineTyped, Block
<1>3. engine'[ch].op = None /\ engine'[ch].next = engine[ch].next
  BY <1>1 DEF EngineTyped, Block
<1>4. Wired(ch)'
  BY <1>1, <1>3 DEF Wired
<1>5. Tones(ch) => Tones(ch)'
  BY <1>1, <1>3 DEF Tones
<1>6. Queue(ch)' = Queue(ch)
  BY <1>1 DEF Queue, AsDone
<1>7. PICK n : n = engine[ch].next
  OBVIOUS
<1>8. After(ch, n)' = After(ch, n)
  <2>1. ASSUME NEW x \in 0 .. DMA_SCBS - 1
        PROVE  AsDone(blocks[ch][x].op)' = AsDone(blocks[ch][x].op)
    BY <1>1 DEF AsDone
  <2>2. blocks'[ch] = blocks[ch]
    BY <1>1
  <2>3. QED
    BY <1>4, <1>7, <2>1, <2>2, HeldFirst, AfterKept
<1>9. After(ch, n) \in Seq(Transfers)
  BY <1>7, ChainType
<1>10. Chain(ch) = <<AsDone(engine[ch].op)>> \o After(ch, n)
  BY <1>1, <1>7 DEF Chain, After
<1>11. Chain(ch)' = <<>> \o After(ch, n)'
  BY <1>3, <1>7 DEF Chain, After
<1>12. Chain(ch)' = After(ch, n)
  BY <1>8, <1>9, <1>11, ConcatEmptySeq
<1>13. AsDone(engine[ch].op) \in Transfers
  BY <1>2, DoneType DEF EngineTyped
<1>14. QED
  BY <1>4, <1>5, <1>6, <1>9, <1>10, <1>12, <1>13

-----------------------------------------------------------------------------
(* Scripts that keep the queue of the screen in order: y may come after x.  *)
(* A queue is begun after a drawing and grows without a break until it is   *)
(* executed; no two of its transfers read the same colour word.             *)
Begins(op) == op.name \in {"fill", "clear", "copy"}

Follows(x, y) ==
  CASE y.kind \in {"bell", "draw"} -> x.kind = "wait"
    [] y.kind = "wait"    -> x.kind \in {"wait", "draw", "execute"}
    [] y.kind = "execute" -> x.kind = "enqueue"
    [] y.kind = "enqueue" -> \/ Begins(y.op) /\ x.kind = "draw"
                             \/ /\ x.kind = "enqueue"
                                /\ \/ y.op.name = "blank" /\ x.op = Copy
                                   \/ y.op.name = "cursor" /\ x.op.name = "blank"

InOrder(s) ==
  /\ \A i \in DOMAIN s : s[i].ch \in {0, None}
  /\ \A i \in 1 .. Len(s) - 1 : Follows(s[i], s[i + 1])

(* A part of a script, by its first and its last step and what it asks for. *)
Part(s, first, last, asks) ==
  /\ s \in Seq(Steps) /\ s # <<>> /\ InOrder(s)
  /\ s[1] = first /\ s[Len(s)] = last
  /\ Intended(s, 0) = asks /\ \A ch \in Channels \ {0} : Intended(s, ch) = <<>>

LEMMA PartJoined ==
  ASSUME NEW s, NEW t, NEW a, NEW b, NEW c, NEW d, NEW p, NEW q,
         Part(s, a, b, p), Part(t, c, d, q), Follows(b, c)
  PROVE  Part(s \o t, a, d, p \o q)
<1> DEFINE j == s \o t
           m == Len(s)
           k == Len(t)
<1>1. s \in Seq(Steps) /\ t \in Seq(Steps) /\ s # <<>> /\ t # <<>>
  BY DEF Part
<1>2. /\ j \in Seq(Steps) /\ Len(j) = m + k /\ m \in Nat \ {0} /\ k \in Nat \ {0} /\ j # <<>>
      /\ DOMAIN s = 1 .. m /\ DOMAIN t = 1 .. k /\ DOMAIN j = 1 .. m + k
      /\ \A i \in 1 .. m : j[i] = s[i]
      /\ \A i \in 1 .. k : j[m + i] = t[i]
  BY <1>1
<1>3. \A ch : Intended(j, ch) = Intended(s, ch) \o Intended(t, ch)
  BY <1>1, IntendedJoined
<1> HIDE DEF j, m, k
<1>4. j[1] = a /\ j[Len(j)] = d /\ j[m] = b /\ j[m + 1] = c
  <2>1. 1 \in 1 .. m /\ m \in 1 .. m /\ 1 \in 1 .. k /\ k \in 1 .. k
    BY <1>2
  <2>2. s[1] = a /\ s[m] = b /\ t[1] = c /\ t[k] = d
    BY DEF Part, m, k
  <2>3. QED
    BY <1>2, <2>1, <2>2
<1>5. ASSUME NEW i \in DOMAIN j PROVE j[i].ch \in {0, None}
  <2>1. CASE i \in 1 .. m
    BY <1>2, <2>1 DEF Part, InOrder
  <2>2. CASE i \notin 1 .. m
    <3>1. i - m \in 1 .. k /\ i = m + (i - m)
      BY <1>2, <2>2
    <3>2. j[i] = t[i - m]
      BY <1>2, <3>1
    <3>3. QED
      BY <1>2, <3>1, <3>2 DEF Part, InOrder
  <2>3. QED
    BY <2>1, <2>2
<1>6. ASSUME NEW i \in 1 .. Len(j) - 1 PROVE Follows(j[i], j[i + 1])
  <2>1. CASE i < m
    <3>1. i \in 1 .. m - 1 /\ i \in 1 .. m /\ i + 1 \in 1 .. m
      BY <1>2, <2>1
    <3>2. Follows(s[i], s[i + 1])
      BY <3>1 DEF Part, InOrder, m
    <3>3. QED
      BY <1>2, <3>1, <3>2
  <2>2. CASE i = m
    BY <1>4, <2>2
  <2>3. CASE i > m
    <3> DEFINE n == i - m
    <3>1. n \in 1 .. k - 1 /\ n \in 1 .. k /\ n + 1 \in 1 .. k /\ m + n = i /\ m + (n + 1) = i + 1
      BY <1>2, <2>3
    <3>2. Follows(t[n], t[n + 1])
      BY <3>1 DEF Part, InOrder, k
    <3>3. j[i] = t[n] /\ j[i + 1] = t[n + 1]
      BY <1>2, <3>1
    <3>4. QED
      BY <3>2, <3>3
  <2>4. QED
    BY <1>2, <2>1, <2>2, <2>3
<1>7. Intended(j, 0) = p \o q
  BY <1>3 DEF Part
<1>8. ASSUME NEW ch \in Channels \ {0} PROVE Intended(j, ch) = <<>>
  BY <1>3 DEF Part
<1>9. QED
  BY <1>2, <1>4, <1>5, <1>6, <1>7, <1>8 DEF Part, InOrder, j

LEMMA PartOne ==
  ASSUME NEW x \in Steps, x.ch \in {0, None}
  PROVE  Part(<<x>>, x, x, Asked(x, 0))
<1> DEFINE s == <<x>>
<1>1. s \in Seq(Steps) /\ s # <<>> /\ Len(s) = 1 /\ s[1] = x /\ DOMAIN s = {1}
  OBVIOUS
<1>2. Intended(s, 0) = Asked(x, 0)
  BY IntendedOne
<1>3. ASSUME NEW ch \in Channels \ {0} PROVE Intended(s, ch) = <<>>
  <2>1. Asked(x, ch) = <<>>
    BY NoneIs DEF Asked, Steps, Channels
  <2>2. QED
    BY <2>1, IntendedOne
<1> HIDE DEF s
<1>4. InOrder(s)
  BY <1>1 DEF InOrder
<1>5. QED
  BY <1>1, <1>2, <1>3, <1>4 DEF Part, s

LEMMA PartsAre ==
  /\ Part(<<Wait>>, Wait, Wait, <<>>) /\ Part(<<Draw>>, Draw, Draw, <<>>)
  /\ Part(<<Step("bell")>>, Step("bell"), Step("bell"), <<>>)
  /\ Part(<<Execute(0)>>, Execute(0), Execute(0), <<>>)
  /\ \A op \in Transfers : Part(<<Enqueue(0, op)>>, Enqueue(0, op), Enqueue(0, op), <<op>>)
<1>1. /\ Wait \in Steps /\ Draw \in Steps /\ Step("bell") \in Steps /\ Execute(0) \in Steps
      /\ Wait.ch = None /\ Draw.ch = None /\ Step("bell").ch = None /\ Execute(0).ch = 0
  BY StepTypes, ChannelsAre DEF Wait, Draw, Step, Execute
<1>2. /\ Asked(Wait, 0) = <<>> /\ Asked(Draw, 0) = <<>> /\ Asked(Step("bell"), 0) = <<>>
      /\ Asked(Execute(0), 0) = <<>>
  BY StepTypes, ChannelsAre DEF Asked
<1>3. ASSUME NEW op \in Transfers
      PROVE  /\ Enqueue(0, op) \in Steps /\ Enqueue(0, op).ch = 0
             /\ Asked(Enqueue(0, op), 0) = <<op>>
  BY StepTypes, ChannelsAre DEF Asked, Enqueue
<1>4. ASSUME NEW x \in Steps, x.ch \in {0, None}, NEW y, Asked(x, 0) = y
      PROVE  Part(<<x>>, x, x, y)
  BY <1>4, PartOne
<1>5. QED
  BY <1>1, <1>2, <1>3, <1>4

LEMMA Named ==
  ASSUME NEW c \in Colours
  PROVE  /\ Begins(Clear(c)) /\ Begins(Fill(c)) /\ Begins(Copy)
         /\ Blank(c).name = "blank" /\ Cursor(c).name = "cursor" /\ Copy.name = "copy"
         /\ Copy.word = None /\ Blank(c).word = "bg"
BY DEF Begins, Clear, Fill, Blank, Cursor, Copy, Op

LEMMA FollowsAre ==
  /\ Follows(Wait, Draw) /\ Follows(Draw, Wait) /\ Follows(Execute(0), Wait)
  /\ Follows(Wait, Step("bell"))
  /\ \A op \in Transfers : Follows(Enqueue(0, op), Execute(0))
  /\ \A op \in Transfers : Begins(op) => Follows(Draw, Enqueue(0, op))
  /\ \A c, d \in Colours : /\ Follows(Enqueue(0, Copy), Enqueue(0, Blank(c)))
                           /\ Follows(Enqueue(0, Blank(c)), Enqueue(0, Cursor(d)))
<1>1. /\ Wait.kind = "wait" /\ Draw.kind = "draw" /\ Step("bell").kind = "bell"
      /\ Execute(0).kind = "execute"
      /\ \A op \in Transfers : Enqueue(0, op).kind = "enqueue"
  BY StepTypes, ChannelsAre
<1>2. \A op : Enqueue(0, op).op = op
  BY DEF Enqueue
<1>3. /\ Follows(Wait, Draw) /\ Follows(Draw, Wait) /\ Follows(Execute(0), Wait)
      /\ Follows(Wait, Step("bell"))
  BY <1>1 DEF Follows
<1>4. ASSUME NEW op \in Transfers
      PROVE  /\ Follows(Enqueue(0, op), Execute(0))
             /\ Begins(op) => Follows(Draw, Enqueue(0, op))
  BY <1>1, <1>2 DEF Follows
<1>5. ASSUME NEW c \in Colours, NEW d \in Colours
      PROVE  /\ Follows(Enqueue(0, Copy), Enqueue(0, Blank(c)))
             /\ Follows(Enqueue(0, Blank(c)), Enqueue(0, Cursor(d)))
  <2>1. {Copy, Blank(c), Cursor(d)} \subseteq Transfers
    BY TransfersAre
  <2>2. QED
    BY <1>1, <1>2, <2>1, Named, ZenonT(60) DEF Follows
<1>6. QED
  BY <1>3, <1>4, <1>5

LEMMA JobsAre ==
  ASSUME NEW c \in Colours, NEW d \in Colours
  PROVE  /\ {<<Clear(c)>>, <<Fill(c)>>, <<Copy, Blank(c)>>} \subseteq JobSet
         /\ <<Copy, Blank(c), Cursor(d)>> \in JobSet
         /\ <<Fill(c), Copy, Blank(c)>> \in JobSet
         /\ <<Fill(c), Copy, Blank(c), Cursor(d)>> \in JobSet
         /\ <<Tone("tx")>> \in JobSet /\ <<Tone("rx")>> \in JobSet
<1> DEFINE A == {{<<Clear(x)>>, <<Fill(x)>>, <<Copy, Blank(x)>>} : x \in Colours}
           B == {<<Copy, Blank(x), Cursor(y)>> : x \in Colours, y \in Colours}
           C == {<<Fill(x), Copy, Blank(x)>> : x \in Colours}
           D == {<<Fill(x), Copy, Blank(x), Cursor(y)>> : x \in Colours, y \in Colours}
           E == {<<Tone("tx")>>, <<Tone("rx")>>}
<1>1. /\ {<<Clear(c)>>, <<Fill(c)>>, <<Copy, Blank(c)>>} \in A
      /\ <<Copy, Blank(c), Cursor(d)>> \in B
      /\ <<Fill(c), Copy, Blank(c)>> \in C
      /\ <<Fill(c), Copy, Blank(c), Cursor(d)>> \in D
      /\ <<Tone("tx")>> \in E /\ <<Tone("rx")>> \in E
  OBVIOUS
<1>2. JobSet = (UNION A) \cup B \cup C \cup D \cup E
  BY DEF JobSet
<1> HIDE DEF A, B, C, D, E
<1>3. QED
  BY <1>1, <1>2, Zenon

(* Tuples put together. *)
LEMMA Appended ==
  ASSUME NEW S, NEW s \in Seq(S), NEW b \in S
  PROVE  /\ Len(s) = 1 => s \o <<b>> = <<s[1], b>>
         /\ Len(s) = 2 => s \o <<b>> = <<s[1], s[2], b>>
         /\ Len(s) = 3 => s \o <<b>> = <<s[1], s[2], s[3], b>>
<1> DEFINE j == s \o <<b>>
<1>1. /\ j \in Seq(S) /\ Len(j) = Len(s) + 1
      /\ \A i \in 1 .. Len(s) : j[i] = s[i] /\ s[i] \in S
      /\ j[Len(s) + 1] = b
  OBVIOUS
<1> HIDE DEF j
<1>2. ASSUME Len(s) = 1 PROVE j = <<s[1], b>>
  <2> DEFINE t == <<s[1], b>>
  <2>1. t \in Seq(S) /\ Len(t) = 2 /\ t[1] = s[1] /\ t[2] = b
    BY <1>1, <1>2
  <2> HIDE DEF t
  <2>2. \A i \in 1 .. Len(j) : j[i] = t[i]
    BY <1>1, <1>2, <2>1
  <2>3. j = t
    BY <1>1, <1>2, <2>1, <2>2, SeqEqual
  <2>4. QED
    BY <2>3 DEF t
<1>3. ASSUME Len(s) = 2 PROVE j = <<s[1], s[2], b>>
  <2> DEFINE t == <<s[1], s[2], b>>
  <2>1. t \in Seq(S) /\ Len(t) = 3 /\ t[1] = s[1] /\ t[2] = s[2] /\ t[3] = b
    BY <1>1, <1>3
  <2> HIDE DEF t
  <2>2. \A i \in 1 .. Len(j) : j[i] = t[i]
    BY <1>1, <1>3, <2>1
  <2>3. j = t
    BY <1>1, <1>3, <2>1, <2>2, SeqEqual
  <2>4. QED
    BY <2>3 DEF t
<1>4. ASSUME Len(s) = 3 PROVE j = <<s[1], s[2], s[3], b>>
  <2> DEFINE t == <<s[1], s[2], s[3], b>>
  <2>1. t \in Seq(S) /\ Len(t) = 4 /\ t[1] = s[1] /\ t[2] = s[2] /\ t[3] = s[3] /\ t[4] = b
    BY <1>1, <1>4
  <2> HIDE DEF t
  <2>2. \A i \in 1 .. Len(j) : j[i] = t[i]
    BY <1>1, <1>4, <2>1
  <2>3. j = t
    BY <1>1, <1>4, <2>1, <2>2, SeqEqual
  <2>4. QED
    BY <2>3 DEF t
<1>5. QED
  BY <1>2, <1>3, <1>4 DEF j

LEMMA Tuples ==
  ASSUME NEW a, NEW b, NEW c
  PROVE  /\ <<a>> \o <<b>> = <<a, b>>
         /\ <<a, b>> \o <<c>> = <<a, b, c>>
         /\ <<a>> \o <<b, c>> = <<a, b, c>>
<1> DEFINE S == {a, b, c}
<1>1. a \in S /\ b \in S /\ c \in S
  OBVIOUS
<1> HIDE DEF S
<1>2. <<a>> \in Seq(S) /\ Len(<<a>>) = 1 /\ <<a>>[1] = a
  BY <1>1
<1>3. <<a, b>> \in Seq(S) /\ Len(<<a, b>>) = 2 /\ <<a, b>>[1] = a /\ <<a, b>>[2] = b
  BY <1>1
<1>4. <<b>> \in Seq(S) /\ Len(<<b>>) = 1 /\ <<b>>[1] = b /\ <<c>> \in Seq(S)
  BY <1>1
<1>5. <<a>> \o <<b>> = <<a, b>> /\ <<b>> \o <<c>> = <<b, c>>
  BY <1>1, <1>2, <1>4, Appended
<1>6. <<a, b>> \o <<c>> = <<a, b, c>>
  BY <1>1, <1>3, Appended
<1>7. (<<a>> \o <<b>>) \o <<c>> = <<a>> \o (<<b>> \o <<c>>)
  BY <1>2, <1>4, ConcatAssociative
<1>8. QED
  BY <1>5, <1>6, <1>7

LEMMA LongerTuples ==
  ASSUME NEW a, NEW b, NEW c, NEW d
  PROVE  /\ <<a, b, c>> \o <<d>> = <<a, b, c, d>>
         /\ <<a>> \o <<b, c, d>> = <<a, b, c, d>>
<1> DEFINE S == {a, b, c, d}
<1>1. a \in S /\ b \in S /\ c \in S /\ d \in S
  OBVIOUS
<1> HIDE DEF S
<1>2. /\ <<a>> \in Seq(S) /\ <<b, c>> \in Seq(S) /\ <<d>> \in Seq(S)
      /\ <<a, b, c>> \in Seq(S) /\ Len(<<a, b, c>>) = 3
      /\ <<a, b, c>>[1] = a /\ <<a, b, c>>[2] = b /\ <<a, b, c>>[3] = c
  BY <1>1
<1>3. <<a, b, c>> \o <<d>> = <<a, b, c, d>>
  BY <1>1, <1>2, Appended
<1>4. <<a>> \o <<b, c>> = <<a, b, c>>
  BY Tuples
<1>5. <<b, c>> \o <<d>> = <<b, c, d>>
  BY Tuples
<1>6. (<<a>> \o <<b, c>>) \o <<d>> = <<a>> \o (<<b, c>> \o <<d>>)
  BY <1>2, ConcatAssociative
<1>7. QED
  BY <1>3, <1>4, <1>5, <1>6

LEMMA TransferPart ==
  ASSUME NEW op \in Transfers
  PROVE  Part(Transfer(op), Enqueue(0, op), Draw, <<op>>)
<1> DEFINE ask == <<Enqueue(0, op)>>
           run == <<Execute(0)>>
           wait == <<Wait>>
           draw == <<Draw>>
           e == Enqueue(0, op)
           x == Execute(0)
<1>1. /\ Part(ask, e, e, <<op>>) /\ Part(run, x, x, <<>>)
      /\ Part(wait, Wait, Wait, <<>>) /\ Part(draw, Draw, Draw, <<>>)
  BY PartsAre
<1>2. Follows(e, x) /\ Follows(x, Wait) /\ Follows(Wait, Draw)
  BY FollowsAre
<1>3. Transfer(op) = ((ask \o run) \o wait) \o draw
  <2>1. Transfer(op) = <<e, x, Wait, Draw>>
    BY DEF Transfer
  <2> HIDE DEF e, x
  <2>2. <<e>> \o <<x>> = <<e, x>>
    BY Tuples
  <2>3. <<e, x>> \o <<Wait>> = <<e, x, Wait>>
    BY Tuples
  <2>4. <<e, x, Wait>> \o <<Draw>> = <<e, x, Wait, Draw>>
    BY LongerTuples
  <2>5. ask = <<e>> /\ run = <<x>>
    BY DEF e, x
  <2> HIDE DEF ask, run
  <2>6. QED
    BY <2>1, <2>2, <2>3, <2>4, <2>5
<1> HIDE DEF ask, run, wait, draw, e, x
<1>4. Part(ask \o run, e, x, <<op>> \o <<>>)
  BY <1>1, <1>2, PartJoined
<1>5. Part((ask \o run) \o wait, e, Wait, (<<op>> \o <<>>) \o <<>>)
  BY <1>1, <1>2, <1>4, PartJoined
<1>6. Part(((ask \o run) \o wait) \o draw, e, Draw, ((<<op>> \o <<>>) \o <<>>) \o <<>>)
  BY <1>1, <1>2, <1>5, PartJoined
<1>7. ((<<op>> \o <<>>) \o <<>>) \o <<>> = <<op>>
  OBVIOUS
<1>8. QED
  BY <1>3, <1>6, <1>7 DEF e

Scrolled(c, d, shown) == <<Copy, Blank(c)>> \o IF shown THEN <<Cursor(d)>> ELSE <<>>

LEMMA ScrollPart ==
  ASSUME NEW c \in Colours, NEW d \in Colours, NEW shown \in BOOLEAN
  PROVE  /\ Part(Scroll(c, d, shown), Enqueue(0, Copy), Execute(0), Scrolled(c, d, shown))
         /\ Scrolled(c, d, shown) \in JobSet /\ <<Fill(c)>> \o Scrolled(c, d, shown) \in JobSet
<1> DEFINE copy == <<Enqueue(0, Copy)>>
           blank == <<Enqueue(0, Blank(c))>>
           cursor == <<Enqueue(0, Cursor(d))>>
           run == <<Execute(0)>>
           e == Enqueue(0, Copy)
           b == Enqueue(0, Blank(c))
           k == Enqueue(0, Cursor(d))
           x == Execute(0)
<1>1. Copy \in Transfers /\ Blank(c) \in Transfers /\ Cursor(d) \in Transfers
  BY TransfersAre
<1>2. /\ Part(copy, e, e, <<Copy>>) /\ Part(blank, b, b, <<Blank(c)>>)
      /\ Part(cursor, k, k, <<Cursor(d)>>) /\ Part(run, x, x, <<>>)
  BY <1>1, PartsAre
<1>3. Follows(e, b) /\ Follows(b, k) /\ Follows(b, x) /\ Follows(k, x)
  BY <1>1, FollowsAre
<1>4. Scroll(c, d, shown) = IF shown THEN ((copy \o blank) \o cursor) \o run
                            ELSE (copy \o blank) \o run
  <2>1. copy \o blank = <<e, b>>
    BY Tuples
  <2>2. <<e, b>> \in Seq(Steps)
    BY <1>1, StepTypes, ChannelsAre
  <2>3. <<e, b>> \o <<>> = <<e, b>>
    BY <2>2, ConcatEmptySeq
  <2>4. Scroll(c, d, shown) = (<<e, b>> \o (IF shown THEN cursor ELSE <<>>)) \o run
    BY DEF Scroll
  <2> HIDE DEF copy, blank, cursor, run, e, b
  <2>5. QED
    BY <2>1, <2>3, <2>4
<1> HIDE DEF copy, blank, cursor, run, e, b, k, x
<1>5. Part(copy \o blank, e, b, <<Copy>> \o <<Blank(c)>>)
  BY <1>2, <1>3, PartJoined
<1>6. Part((copy \o blank) \o run, e, x, (<<Copy>> \o <<Blank(c)>>) \o <<>>)
  BY <1>2, <1>3, <1>5, PartJoined
<1>7. Part((copy \o blank) \o cursor, e, k, (<<Copy>> \o <<Blank(c)>>) \o <<Cursor(d)>>)
  BY <1>2, <1>3, <1>5, PartJoined
<1>8. Part(((copy \o blank) \o cursor) \o run, e, x,
           ((<<Copy>> \o <<Blank(c)>>) \o <<Cursor(d)>>) \o <<>>)
  BY <1>2, <1>3, <1>7, PartJoined
<1>9. /\ <<Copy, Blank(c)>> \in Seq(Transfers) /\ <<Copy, Blank(c), Cursor(d)>> \in Seq(Transfers)
      /\ <<Copy>> \o <<Blank(c)>> = <<Copy, Blank(c)>>
      /\ <<Copy, Blank(c)>> \o <<Cursor(d)>> = <<Copy, Blank(c), Cursor(d)>>
      /\ <<Fill(c)>> \o <<Copy, Blank(c)>> = <<Fill(c), Copy, Blank(c)>>
      /\ <<Fill(c)>> \o <<Copy, Blank(c), Cursor(d)>> = <<Fill(c), Copy, Blank(c), Cursor(d)>>
  <2>1. /\ <<Copy, Blank(c)>> \in Seq(Transfers)
        /\ <<Copy, Blank(c), Cursor(d)>> \in Seq(Transfers)
    BY <1>1
  <2>2. <<Copy>> \o <<Blank(c)>> = <<Copy, Blank(c)>>
    BY Tuples
  <2>3. <<Copy, Blank(c)>> \o <<Cursor(d)>> = <<Copy, Blank(c), Cursor(d)>>
    BY Tuples
  <2>4. <<Fill(c)>> \o <<Copy, Blank(c)>> = <<Fill(c), Copy, Blank(c)>>
    BY Tuples
  <2>5. <<Fill(c)>> \o <<Copy, Blank(c), Cursor(d)>> = <<Fill(c), Copy, Blank(c), Cursor(d)>>
    BY LongerTuples
  <2>6. QED
    BY <2>1, <2>2, <2>3, <2>4, <2>5
<1>10. /\ <<Copy, Blank(c)>> \o <<>> = <<Copy, Blank(c)>>
       /\ <<Copy, Blank(c), Cursor(d)>> \o <<>> = <<Copy, Blank(c), Cursor(d)>>
  BY <1>9, ConcatEmptySeq
<1>11. CASE shown
  <2>1. Scrolled(c, d, shown) = <<Copy, Blank(c), Cursor(d)>>
    BY <1>9, <1>11 DEF Scrolled
  <2>2. Part(Scroll(c, d, shown), e, x, <<Copy, Blank(c), Cursor(d)>>)
    BY <1>4, <1>8, <1>9, <1>10, <1>11
  <2>3. QED
    BY <1>9, <2>1, <2>2, JobsAre DEF e, x
<1>12. CASE ~shown
  <2>1. Scrolled(c, d, shown) = <<Copy, Blank(c)>>
    BY <1>10, <1>12 DEF Scrolled
  <2>2. Part(Scroll(c, d, shown), e, x, <<Copy, Blank(c)>>)
    BY <1>4, <1>6, <1>9, <1>10, <1>12
  <2>3. QED
    BY <1>9, <2>1, <2>2, JobsAre DEF e, x
<1>13. QED
  BY <1>11, <1>12

(* What one character does and asks for. *)
PutcharAsked(b, c, d) ==
  CASE b \in {"char", "bell"} -> <<>>
    [] b = "erase" -> <<Fill(c)>>
    [] b = "clear" -> <<Clear(c)>>
    [] b = "scroll" -> Scrolled(c, d, TRUE)
    [] b = "scroll_hidden" -> Scrolled(c, d, FALSE)

LEMMA PutcharPart ==
  ASSUME NEW b \in Requests, NEW c \in Colours, NEW d \in Colours
  PROVE  \E last, asks :
           /\ Part(Putchar(b, c, d), Wait, last, asks) /\ last.kind # "enqueue"
           /\ b # "bell" => last \in {Draw, Execute(0)}
           /\ asks = PutcharAsked(b, c, d)
<1> DEFINE wait == <<Wait>>
           draw == <<Draw>>
           one == wait \o draw
<1>1. Part(wait, Wait, Wait, <<>>) /\ Part(draw, Draw, Draw, <<>>)
  BY PartsAre
<1>2. /\ Fill(c) \in Transfers /\ Clear(c) \in Transfers /\ Copy \in Transfers
      /\ Begins(Fill(c)) /\ Begins(Clear(c)) /\ Begins(Copy)
  BY TransfersAre, Named
<1>3. Draw.kind # "enqueue" /\ Execute(0).kind # "enqueue" /\ Step("bell").kind # "enqueue"
  BY StepTypes, ChannelsAre
<1> HIDE DEF wait, draw
<1>4. Part(one, Wait, Draw, <<>>)
  <2>1. Part(one, Wait, Draw, <<>> \o <<>>)
    BY <1>1, FollowsAre, PartJoined
  <2>2. <<>> \o <<>> = <<>>
    OBVIOUS
  <2>3. QED
    BY <2>1, <2>2
<1> HIDE DEF one
<1>5. ASSUME NEW s \in Seq(Steps)
       PROVE  wait \o (draw \o s) = one \o s
  <2>1. wait \in Seq(Steps) /\ draw \in Seq(Steps)
    BY <1>1 DEF Part
  <2>2. (wait \o draw) \o s = wait \o (draw \o s)
    BY <2>1, ConcatAssociative
  <2>3. QED
    BY <2>2 DEF one
<1>6. ASSUME NEW s, NEW op \in Transfers, Begins(op), NEW last, NEW asks \in Seq(Transfers),
             Part(s, Enqueue(0, op), last, asks)
      PROVE  Part(one \o s, Wait, last, asks)
  <2>1. Follows(Draw, Enqueue(0, op))
    BY <1>6, FollowsAre
  <2>2. Part(one \o s, Wait, last, <<>> \o asks)
    BY <1>4, <1>6, <2>1, PartJoined
  <2>3. <<>> \o asks = asks
    BY ConcatEmptySeq
  <2>4. QED
    BY <2>2, <2>3
<1>7. CASE b = "char"
  <2>1. Putchar(b, c, d) = one
    <3>1. Putchar(b, c, d) = <<Wait>> \o <<Draw>>
      BY <1>7 DEF Putchar
    <3>2. QED
      BY <3>1 DEF one, wait, draw
  <2>2. QED
    BY <1>3, <1>4, <1>7, <2>1 DEF PutcharAsked
<1>8. CASE b = "bell"
  <2>1. Part(<<Step("bell")>>, Step("bell"), Step("bell"), <<>>) /\ Follows(Wait, Step("bell"))
    BY PartsAre, FollowsAre
  <2>2. Part(wait \o <<Step("bell")>>, Wait, Step("bell"), <<>> \o <<>>)
    BY <1>1, <2>1, PartJoined
  <2>3. <<>> \o <<>> = <<>>
    OBVIOUS
  <2>4. Putchar(b, c, d) = wait \o <<Step("bell")>>
    BY <1>8 DEF Putchar, wait
  <2>5. QED
    BY <1>3, <1>8, <2>2, <2>3, <2>4 DEF PutcharAsked
<1>9. CASE b = "erase"
  <2>1. <<Fill(c)>> \in Seq(Transfers)
    BY <1>2
  <2>2. Part(one \o Transfer(Fill(c)), Wait, Draw, <<Fill(c)>>)
    BY <1>2, <1>6, <2>1, TransferPart
  <2>3. Putchar(b, c, d) = wait \o (draw \o Transfer(Fill(c)))
    BY <1>9 DEF Putchar, wait, draw
  <2>4. wait \o (draw \o Transfer(Fill(c))) = one \o Transfer(Fill(c))
    <3>1. Transfer(Fill(c)) \in Seq(Steps)
      BY <1>2, TransferPart DEF Part
    <3>2. QED
      BY <1>5, <3>1
  <2>5. QED
    BY <1>3, <1>9, <2>2, <2>3, <2>4 DEF PutcharAsked
<1>10. CASE b = "clear"
  <2> DEFINE two == one \o one
  <2>1. <<Clear(c)>> \in Seq(Transfers)
    BY <1>2
  <2>2. Part(two, Wait, Draw, <<>>)
    <3>1. Part(two, Wait, Draw, <<>> \o <<>>)
      BY <1>4, FollowsAre, PartJoined
    <3>2. <<>> \o <<>> = <<>>
      OBVIOUS
    <3>3. QED
      BY <3>1, <3>2
  <2>3. Part(one \o Transfer(Clear(c)), Wait, Draw, <<Clear(c)>>)
    BY <1>2, <1>6, <2>1, TransferPart
  <2>4. Part(one \o (one \o Transfer(Clear(c))), Wait, Draw, <<Clear(c)>>)
    <3>1. Part(one \o (one \o Transfer(Clear(c))), Wait, Draw, <<>> \o <<Clear(c)>>)
      BY <1>4, <2>3, FollowsAre, PartJoined
    <3>2. <<>> \o <<Clear(c)>> = <<Clear(c)>>
      BY <2>1, ConcatEmptySeq
    <3>3. QED
      BY <3>1, <3>2
  <2>5. Putchar(b, c, d) = wait \o (<<Draw, Wait, Draw>> \o Transfer(Clear(c)))
    BY <1>10 DEF Putchar, wait
  <2>6. <<Draw, Wait, Draw>> = draw \o one
    <3>1. <<Draw>> \o <<Wait, Draw>> = <<Draw, Wait, Draw>>
      BY Tuples
    <3>2. <<Wait>> \o <<Draw>> = <<Wait, Draw>>
      BY Tuples
    <3>3. QED
      BY <3>1, <3>2 DEF wait, draw, one
  <2>7. /\ wait \in Seq(Steps) /\ draw \in Seq(Steps) /\ one \in Seq(Steps)
        /\ Transfer(Clear(c)) \in Seq(Steps)
    BY <1>1, <1>2, <1>4, TransferPart DEF Part
  <2> DEFINE s == Transfer(Clear(c))
  <2> HIDE DEF s
  <2>8. wait \o ((draw \o one) \o s) = one \o (one \o s)
    <3>1. (draw \o one) \o s = draw \o (one \o s)
      BY <2>7, ConcatAssociative DEF s
    <3>2. one \o s \in Seq(Steps)
      BY <2>7, ConcatProperties DEF s
    <3>3. wait \o (draw \o (one \o s)) = one \o (one \o s)
      BY <1>5, <3>2
    <3>4. QED
      BY <3>1, <3>3
  <2>9. QED
    BY <1>3, <1>10, <2>4, <2>5, <2>6, <2>8 DEF s, PutcharAsked
<1>11. ASSUME NEW shown \in BOOLEAN,
              Putchar(b, c, d) = wait \o (draw \o Scroll(c, d, shown))
       PROVE  Part(Putchar(b, c, d), Wait, Execute(0), Scrolled(c, d, shown))
  <2>1. Scrolled(c, d, shown) \in Seq(Transfers)
    <3>1. Part(Scroll(c, d, shown), Enqueue(0, Copy), Execute(0), Scrolled(c, d, shown))
      BY ScrollPart
    <3>2. QED
      BY <3>1, ChannelsAre, IntendedType DEF Part
  <2>2. Part(one \o Scroll(c, d, shown), Wait, Execute(0), Scrolled(c, d, shown))
    BY <1>2, <1>6, <2>1, ScrollPart
  <2>3. wait \o (draw \o Scroll(c, d, shown)) = one \o Scroll(c, d, shown)
    <3>1. Scroll(c, d, shown) \in Seq(Steps)
      BY ScrollPart DEF Part
    <3>2. QED
      BY <1>5, <3>1
  <2>4. QED
    BY <1>11, <2>2, <2>3
<1>12. CASE b = "scroll"
  <2>1. Putchar(b, c, d) = wait \o (draw \o Scroll(c, d, TRUE))
    BY <1>12 DEF Putchar, wait, draw
  <2>2. QED
    BY <1>3, <1>11, <1>12, <2>1 DEF PutcharAsked
<1>13. CASE b = "scroll_hidden"
  <2>1. Putchar(b, c, d) = wait \o (draw \o Scroll(c, d, FALSE))
    BY <1>13 DEF Putchar, wait, draw
  <2>2. QED
    BY <1>3, <1>11, <1>13, <2>1 DEF PutcharAsked
<1>14. QED
  BY <1>7, <1>8, <1>9, <1>10, <1>12, <1>13 DEF Requests

(* What the main loop asks for with one character, ... *)
LEMMA PutcharAsks ==
  ASSUME NEW b \in Requests, NEW c \in Colours, NEW d \in Colours
  PROVE  \E last, asks : /\ Part(Putchar(b, c, d), Wait, last, asks) /\ last.kind # "enqueue"
                         /\ asks \in JobSet \cup {<<>>}
<1>1. PICK last, asks :
        /\ Part(Putchar(b, c, d), Wait, last, asks) /\ last.kind # "enqueue"
        /\ asks = PutcharAsked(b, c, d)
  BY PutcharPart
<1>2. asks \in {<<>>, <<Fill(c)>>, <<Clear(c)>>, Scrolled(c, d, TRUE), Scrolled(c, d, FALSE)}
  BY <1>1 DEF Requests, PutcharAsked
<1>3. {<<Fill(c)>>, <<Clear(c)>>, Scrolled(c, d, TRUE), Scrolled(c, d, FALSE)} \subseteq JobSet
  <2>1. <<Fill(c)>> \in JobSet /\ <<Clear(c)>> \in JobSet
    BY JobsAre
  <2>2. \A shown \in BOOLEAN : Scrolled(c, d, shown) \in JobSet
    BY ScrollPart
  <2>3. QED
    BY <2>1, <2>2
<1>4. QED
  BY <1>1, <1>2, <1>3

(* ... with a remembered bell, ... *)
LEMMA RememberedPart == Part(<<Wait, Step("bell")>>, Wait, Step("bell"), <<>>)
<1>1. <<Wait>> \o <<Step("bell")>> = <<Wait, Step("bell")>>
  BY Tuples
<1>2. Part(<<Wait>> \o <<Step("bell")>>, Wait, Step("bell"), <<>> \o <<>>)
  BY PartsAre, FollowsAre, PartJoined
<1>3. <<>> \o <<>> = <<>>
  OBVIOUS
<1>4. QED
  BY <1>1, <1>2, <1>3

(* ... and the handler of a function key: one job each. *)
LEMMA KeyPart ==
  ASSUME NEW key \in Keys, NEW c \in Colours, NEW d \in Colours, NEW s \in Scripts(key, c, d)
  PROVE  \E first, last, asks :
           /\ Part(s, first, last, asks) /\ last.kind # "enqueue" /\ asks \in JobSet
           /\ \/ first = Wait
              \/ /\ key \in {"F10", "F12"}
                 /\ \E op \in Transfers : first = Enqueue(0, op) /\ Begins(op)
<1>1. Clear(c) \in Transfers /\ Begins(Clear(c)) /\ <<Clear(c)>> \in JobSet
  BY TransfersAre, Named, JobsAre
<1>2. Draw.kind # "enqueue" /\ Execute(0).kind # "enqueue"
  BY StepTypes, ChannelsAre
<1>3. CASE key = "F12"
  <2>1. s = Transfer(Clear(c))
    BY <1>3 DEF Scripts
  <2>2. QED
    BY <1>1, <1>2, <1>3, <2>1, TransferPart
<1>4. CASE key = "F10"
  <2>1. s = Transfer(Clear(c)) \o <<Wait, Draw>>
    BY <1>4 DEF Scripts
  <2>2. <<Wait>> \o <<Draw>> = <<Wait, Draw>>
    BY Tuples
  <2>3. Part(<<Wait, Draw>>, Wait, Draw, <<>> \o <<>>)
    BY <2>2, PartsAre, FollowsAre, PartJoined
  <2>4. Part(s, Enqueue(0, Clear(c)), Draw, <<Clear(c)>> \o (<<>> \o <<>>))
    BY <1>1, <2>1, <2>3, TransferPart, FollowsAre, PartJoined
  <2>5. <<Clear(c)>> \o (<<>> \o <<>>) = <<Clear(c)>>
    OBVIOUS
  <2>6. QED
    BY <1>1, <1>2, <1>4, <2>4, <2>5
<1>5. CASE key = "print_screen"
  <2>1. s = Putchar("clear", c, d)
    BY <1>5 DEF Scripts
  <2>2. \E last : Part(Putchar("clear", c, d), Wait, last, <<Clear(c)>>) /\ last.kind # "enqueue"
    BY PutcharPart DEF Requests, PutcharAsked
  <2>3. QED
    BY <1>1, <2>1, <2>2
<1>6. CASE key = "F11"
  <2>1. PICK b \in {"char", "scroll", "scroll_hidden"} :
          s = Putchar("erase", c, d) \o Putchar(b, c, d)
    BY <1>6 DEF Scripts
  <2>2. PICK middle : Part(Putchar("erase", c, d), Wait, middle, <<Fill(c)>>)
                      /\ middle \in {Draw, Execute(0)}
    BY PutcharPart DEF Requests, PutcharAsked
  <2>3. PICK last, asks :
          /\ Part(Putchar(b, c, d), Wait, last, asks) /\ last.kind # "enqueue"
          /\ asks = PutcharAsked(b, c, d)
    BY <2>1, PutcharPart DEF Requests
  <2>4. asks \in {<<>>, Scrolled(c, d, TRUE), Scrolled(c, d, FALSE)}
    BY <2>1, <2>3 DEF PutcharAsked
  <2>5. Follows(middle, Wait)
    BY <2>2, FollowsAre
  <2>6. Part(s, Wait, last, <<Fill(c)>> \o asks)
    BY <2>1, <2>2, <2>3, <2>5, PartJoined
  <2>7. <<Fill(c)>> \o asks \in JobSet
    <3>1. \A shown \in BOOLEAN : <<Fill(c)>> \o Scrolled(c, d, shown) \in JobSet
      BY ScrollPart
    <3>2. Fill(c) \in Transfers /\ <<Fill(c)>> \in JobSet
      BY TransfersAre, JobsAre
    <3>3. <<Fill(c)>> \o <<>> = <<Fill(c)>>
      BY <3>2
    <3>4. QED
      BY <2>4, <3>1, <3>2, <3>3
  <2>8. QED
    BY <2>3, <2>6, <2>7
<1>7. QED
  BY <1>3, <1>4, <1>5, <1>6 DEF Keys

(* The four steps of a bell ask for one tone on each of its channels. *)
LEMMA RingAsks ==
  ASSUME NEW ch \in Channels
  PROVE  Intended(RingScript, ch) = CASE ch = 1 -> <<Tone("tx")>> [] ch = 2 -> <<Tone("rx")>>
                                      [] OTHER -> <<>>
<1> DEFINE a == Enqueue(1, Tone("tx"))
           b == Enqueue(2, Tone("rx"))
           x == Execute(1)
           y == Execute(2)
<1>1. a \in Steps /\ b \in Steps /\ x \in Steps /\ y \in Steps
  BY StepTypes, ChannelsAre, TransfersAre DEF SPI0_TX_DMA_CHANNEL, SPI0_RX_DMA_CHANNEL
<1>2. /\ Asked(x, ch) = <<>> /\ Asked(y, ch) = <<>>
      /\ Asked(a, ch) = IF ch = 1 THEN <<Tone("tx")>> ELSE <<>>
      /\ Asked(b, ch) = IF ch = 2 THEN <<Tone("rx")>> ELSE <<>>
  BY DEF Asked, Enqueue, Execute
<1>3. RingScript = <<a, b, x, y>>
  BY DEF RingScript, SPI0_TX_DMA_CHANNEL, SPI0_RX_DMA_CHANNEL
<1> HIDE DEF a, b, x, y
<1>4. /\ <<a>> \in Seq(Steps) /\ <<b>> \in Seq(Steps) /\ <<x>> \in Seq(Steps) /\ <<y>> \in Seq(Steps)
      /\ <<a, b>> \in Seq(Steps) /\ <<a, b, x>> \in Seq(Steps)
  BY <1>1
<1>5. <<a>> \o <<b>> = <<a, b>>
  BY Tuples
<1>6. <<a, b>> \o <<x>> = <<a, b, x>>
  BY Tuples
<1>7. <<a, b, x>> \o <<y>> = <<a, b, x, y>>
  BY LongerTuples
<1>8. ASSUME NEW s \in Seq(Steps), NEW z \in Steps
      PROVE  Intended(s \o <<z>>, ch) = Intended(s, ch) \o Asked(z, ch)
  <2> DEFINE t == <<z>>
  <2>1. t \in Seq(Steps) /\ Intended(t, ch) = Asked(z, ch)
    BY IntendedOne
  <2> HIDE DEF t
  <2>2. Intended(s \o t, ch) = Intended(s, ch) \o Intended(t, ch)
    BY <2>1, IntendedJoined
  <2>3. QED
    BY <2>1, <2>2 DEF t
<1>9. Intended(<<a>> \o <<b>>, ch) = Asked(a, ch) \o Asked(b, ch)
  <2>1. Intended(<<a>>, ch) = Asked(a, ch)
    BY <1>1, IntendedOne
  <2> DEFINE s == <<a>>
  <2>2. s \in Seq(Steps)
    BY <1>4
  <2> HIDE DEF s
  <2>3. Intended(s \o <<b>>, ch) = Intended(s, ch) \o Asked(b, ch)
    BY <1>1, <1>8, <2>2
  <2>4. QED
    BY <2>1, <2>3 DEF s
<1>10. Intended(<<a, b>> \o <<x>>, ch) = Intended(<<a, b>>, ch) \o Asked(x, ch)
  <2> DEFINE s == <<a, b>>
  <2>1. s \in Seq(Steps)
    BY <1>4
  <2> HIDE DEF s
  <2>2. Intended(s \o <<x>>, ch) = Intended(s, ch) \o Asked(x, ch)
    BY <1>1, <1>8, <2>1
  <2>3. QED
    BY <2>2 DEF s
<1>11. Intended(<<a, b, x>> \o <<y>>, ch) = Intended(<<a, b, x>>, ch) \o Asked(y, ch)
  <2> DEFINE s == <<a, b, x>>
  <2>1. s \in Seq(Steps)
    BY <1>4
  <2> HIDE DEF s
  <2>2. Intended(s \o <<y>>, ch) = Intended(s, ch) \o Asked(y, ch)
    BY <1>1, <1>8, <2>1
  <2>3. QED
    BY <2>2 DEF s
<1>12. Intended(RingScript, ch) = ((Asked(a, ch) \o Asked(b, ch)) \o Asked(x, ch)) \o Asked(y, ch)
  BY <1>3, <1>5, <1>6, <1>7, <1>9, <1>10, <1>11
<1>13. QED
  BY <1>2, <1>12, TonesWordless DEF Channels

-----------------------------------------------------------------------------
(* The invariant behind ImplementsQueue. *)

(* The script that goes on. *)
Going == IF handler = <<>> THEN main ELSE handler

Orderly(s) == s \in Seq(Steps) /\ InOrder(s) /\ (s # <<>> => s[Len(s)].kind # "enqueue")

(* Where a script on the screen's channel is, the queue is as far. *)
AtStep(x) ==
  CASE x.kind \in {"wait", "bell"} -> curr_blk[0] = 0
    [] x.kind = "draw"    -> curr_blk[0] = 0 /\ ~dma_running(0)
    [] x.kind = "execute" -> curr_blk[0] > 0 /\ ~dma_running(0)
    [] x.kind = "enqueue" ->
         /\ ~dma_running(0)
         /\ \/ Begins(x.op) /\ curr_blk[0] = 0
            \/ x.op.name = "blank" /\ curr_blk[0] = 1 /\ blocks[0][0].op = Copy
            \/ /\ x.op.name = "cursor" /\ curr_blk[0] = 2 /\ blocks[0][0].op = Copy
               /\ \E c \in Colours : blocks[0][1].op = Blank(c)

OnScreen(s) ==
  /\ Orderly(s) /\ curr_blk[1] = 0 /\ curr_blk[2] = 0
  /\ IF s = <<>> THEN curr_blk[0] = 0 ELSE AtStep(s[1])

(* Where a bell is, its two queues are as far. *)
Sounding(s) ==
  \/ s = RingScript /\ ~bell_ringing /\ curr_blk[1] = 0 /\ curr_blk[2] = 0
  \/ s = Tail(RingScript) /\ ~bell_ringing /\ curr_blk[1] = 1 /\ curr_blk[2] = 0
  \/ s = Tail(Tail(RingScript)) /\ ~bell_ringing /\ curr_blk[1] = 1 /\ curr_blk[2] = 1
  \/ s = <<Execute(2)>> /\ ~dma_running(2) /\ curr_blk[1] = 0 /\ curr_blk[2] = 1

Ringing(s) == curr_blk[0] = 0 /\ Sounding(s)

Engines == \A ch \in Channels : Wired(ch) /\ (ch # 0 => Tones(ch))

QueueInv ==
  /\ handler = <<>> \/ main = <<>>
  /\ Engines
  /\ OnScreen(Going) \/ Ringing(Going)

(* What an engine and its queue have before them. *)
Left(ch) == Chain(ch) \o Queue(ch)

LEMMA LeftType ==
  (RoomForJob /\ EngineTyped /\ Engines) => \A ch \in Channels : Left(ch) \in Seq(Transfers)
<1> SUFFICES ASSUME RoomForJob, EngineTyped, Engines, NEW ch \in Channels
             PROVE  Left(ch) \in Seq(Transfers)
  OBVIOUS
<1>1. Wired(ch)
  BY DEF Engines
<1>2. Chain(ch) \in Seq(Transfers) /\ Queue(ch) \in Seq(Transfers)
  BY <1>1, ChainType, QueueType
<1>3. QED
  BY <1>2 DEF Left

(* A step x of a script hands over what it asks for, and nothing else. *)
Hands(x) == \A ch \in Channels : Left(ch)' = Left(ch) \o Asked(x, ch)

LEMMA QuietStep ==
  ASSUME RoomForJob, EngineTyped, EngineTyped', Engines,
         UNCHANGED <<blocks, curr_blk, engine, colour>>
  PROVE  Engines' /\ \A ch \in Channels : Left(ch)' = Left(ch)
<1>1. ASSUME NEW ch \in Channels
      PROVE  /\ Wired(ch)' /\ (ch # 0 => Tones(ch)') /\ Left(ch)' = Left(ch)
  <2>1. Wired(ch) /\ (ch # 0 => Tones(ch))
    BY DEF Engines
  <2>2. blocks'[ch] = blocks[ch] /\ engine'[ch] = engine[ch] /\ curr_blk'[ch] = curr_blk[ch]
    OBVIOUS
  <2>3. Wired(ch)' /\ (Tones(ch) => Tones(ch)') /\ Chain(ch)' = Chain(ch) /\ Queue(ch)' = Queue(ch)
    BY <2>1, <2>2, StillOwes
  <2>4. QED
    BY <2>1, <2>3 DEF Left
<1>2. QED
  BY <1>1 DEF Engines

LEMMA SilentHands ==
  ASSUME RoomForJob, EngineTyped, Engines, NEW x, x.kind # "enqueue",
         \A ch \in Channels : Left(ch)' = Left(ch)
  PROVE  Hands(x)
<1>1. ASSUME NEW ch \in Channels PROVE Left(ch)' = Left(ch) \o Asked(x, ch)
  <2>1. Asked(x, ch) = <<>>
    BY DEF Asked
  <2>2. Left(ch) \in Seq(Transfers)
    BY LeftType
  <2>3. Left(ch) \o <<>> = Left(ch)
    BY <2>2, ConcatEmptySeq
  <2>4. QED
    BY <2>1, <2>3
<1>2. QED
  BY <1>1 DEF Hands

LEMMA ExecuteStep ==
  ASSUME RoomForJob, EngineTyped, EngineTyped', Engines, NEW k \in Channels,
         dma_execute_queue(k), ~dma_running(k), curr_blk[k] > 0
  PROVE  /\ Engines' /\ \A ch \in Channels : Left(ch)' = Left(ch)
         /\ curr_blk'[k] = 0
         /\ \A ch \in Channels : ch # k => /\ curr_blk'[ch] = curr_blk[ch]
                                           /\ dma_running(ch)' = dma_running(ch)
<1>1. /\ colour' = colour /\ blocks' = blocks /\ curr_blk'[k] = 0
      /\ \A ch \in Channels : ch # k => curr_blk'[ch] = curr_blk[ch] /\ engine'[ch] = engine[ch]
  BY DEF dma_execute_queue, EngineTyped
<1>2. ASSUME NEW ch \in Channels
      PROVE  /\ Wired(ch)' /\ (ch # 0 => Tones(ch)') /\ Left(ch)' = Left(ch)
  <2>1. Wired(ch) /\ (ch # 0 => Tones(ch))
    BY DEF Engines
  <2>2. CASE ch = k
    <3>1. Wired(k)' /\ (Tones(k) => Tones(k)') /\ Chain(k)' \o Queue(k)' = Chain(k) \o Queue(k)
      BY <2>1, <2>2, ExecuteOwes
    <3>2. QED
      BY <2>1, <2>2, <3>1 DEF Left
  <2>3. CASE ch # k
    <3>1. blocks'[ch] = blocks[ch] /\ engine'[ch] = engine[ch] /\ curr_blk'[ch] = curr_blk[ch]
      BY <1>1, <2>3
    <3>2. Wired(ch)' /\ (Tones(ch) => Tones(ch)') /\ Chain(ch)' = Chain(ch) /\ Queue(ch)' = Queue(ch)
      BY <1>1, <2>1, <3>1, StillOwes
    <3>3. QED
      BY <2>1, <3>2 DEF Left
  <2>4. QED
    BY <2>2, <2>3
<1>3. QED
  BY <1>1, <1>2 DEF Engines, dma_running

LEMMA EnqueueStep ==
  ASSUME RoomForJob, EngineTyped, EngineTyped', Engines, NEW k \in Channels,
         NEW op \in Transfers, dma_enqueue_operation(k, op),
         ~dma_running(k), curr_blk[k] < 3,
         \A b \in 0 .. curr_blk[k] - 1 :
           blocks[k][b].op.word = None \/ blocks[k][b].op.word # op.word,
         k # 0 => op \in {Tone("tx"), Tone("rx")},
         k = 0 => curr_blk[1] = 0 /\ curr_blk[2] = 0
  PROVE  /\ Engines' /\ Hands(Enqueue(k, op))
         /\ curr_blk'[k] = curr_blk[k] + 1 /\ blocks'[k][curr_blk[k]].op = op
         /\ \A b \in 0 .. DMA_SCBS - 1 : b # curr_blk[k] => blocks'[k][b].op = blocks[k][b].op
         /\ \A ch \in Channels : /\ dma_running(ch)' = dma_running(ch)
                                 /\ ch # k => curr_blk'[ch] = curr_blk[ch]
<1>1. Wired(k) /\ (k # 0 => Tones(k))
  BY DEF Engines
<1>2. curr_blk[k] \in 0 .. DMA_SCBS - 1 /\ curr_blk[k] # DMA_SCBS /\ curr_blk[k] \in Nat
  BY DmaAssumption DEF RoomForJob, EngineTyped
<1>3. /\ curr_blk'[k] = curr_blk[k] + 1 /\ engine' = engine /\ Coloured(op)
      /\ \A b \in 0 .. DMA_SCBS - 1 :
           blocks'[k][b].op = IF b = curr_blk[k] THEN op ELSE blocks[k][b].op
      /\ \A c \in Channels : c # k => blocks'[c] = blocks[c] /\ curr_blk'[c] = curr_blk[c]
  BY <1>2, EnqueuedIs
<1>4. ASSUME NEW ch \in Channels
      PROVE  /\ Wired(ch)' /\ (ch # 0 => Tones(ch)')
             /\ Left(ch)' = Left(ch) \o Asked(Enqueue(k, op), ch)
  <2>1. CASE ch = k
    <3>1. Wired(k)' /\ (Tones(k) /\ op \in {Tone("tx"), Tone("rx")} => Tones(k)')
      BY <1>1, EnqueueWired
    <3>2. Chain(k)' \o Queue(k)' = Chain(k) \o (Queue(k) \o <<op>>)
      BY <1>1, EnqueueOwes
    <3>3. Chain(k) \in Seq(Transfers) /\ Queue(k) \in Seq(Transfers) /\ <<op>> \in Seq(Transfers)
      BY <1>1, ChainType, QueueType
    <3>4. Chain(k) \o (Queue(k) \o <<op>>) = (Chain(k) \o Queue(k)) \o <<op>>
      BY <3>3, ConcatAssociative
    <3>5. Asked(Enqueue(k, op), k) = <<op>>
      BY DEF Asked, Enqueue
    <3>6. QED
      BY <1>1, <2>1, <3>1, <3>2, <3>4, <3>5 DEF Left
  <2>2. CASE ch # k
    <3>1. Wired(ch) /\ (ch # 0 => Tones(ch))
      BY DEF Engines
    <3>2. blocks'[ch] = blocks[ch] /\ engine'[ch] = engine[ch] /\ curr_blk'[ch] = curr_blk[ch]
      BY <1>3, <2>2
    <3>3. colour' = colour \/ Tones(ch)
      BY <1>3, <2>2, <3>1, TonesWordless DEF Coloured, Channels
    <3>4. Wired(ch)' /\ (Tones(ch) => Tones(ch)') /\ Chain(ch)' = Chain(ch) /\ Queue(ch)' = Queue(ch)
      BY <3>1, <3>2, <3>3, StillOwes
    <3>5. Asked(Enqueue(k, op), ch) = <<>>
      BY <2>2 DEF Asked, Enqueue
    <3>6. Left(ch) \in Seq(Transfers)
      BY LeftType
    <3>7. Left(ch) \o <<>> = Left(ch)
      BY <3>6, ConcatEmptySeq
    <3>8. QED
      BY <3>1, <3>4, <3>5, <3>7 DEF Left
  <2>3. QED
    BY <2>1, <2>2
<1>5. Engines' /\ Hands(Enqueue(k, op))
  BY <1>4 DEF Engines, Hands
<1>6. \A ch \in Channels : dma_running(ch)' = dma_running(ch)
  BY <1>3 DEF dma_running
<1>7. QED
  BY <1>2, <1>3, <1>5, <1>6

LEMMA OrderlyRest ==
  ASSUME NEW s, Orderly(s), s # <<>>
  PROVE  /\ Head(s) = s[1] /\ Head(s) \in Steps /\ Head(s).ch \in {0, None}
         /\ Orderly(Tail(s))
         /\ Tail(s) = <<>> => Head(s).kind # "enqueue"
         /\ Tail(s) # <<>> => Tail(s)[1] \in Steps /\ Follows(Head(s), Tail(s)[1])
<1> DEFINE t == Tail(s)
           k == Len(s)
<1>1. /\ s \in Seq(Steps) /\ k \in Nat \ {0} /\ DOMAIN s = 1 .. k
      /\ t \in Seq(Steps) /\ Len(t) = k - 1 /\ DOMAIN t = 1 .. k - 1
      /\ \A i \in 1 .. k - 1 : t[i] = s[i + 1]
      /\ Head(s) = s[1] /\ s[1] \in Steps /\ s[k].kind # "enqueue"
  BY DEF Orderly
<1>2. /\ \A i \in 1 .. k : s[i].ch \in {0, None}
      /\ \A i \in 1 .. k - 1 : Follows(s[i], s[i + 1])
  BY <1>1 DEF Orderly, InOrder
<1>3. t = <<>> => k = 1
  BY <1>1
<1>4. t # <<>> => k > 1 /\ t[1] = s[2] /\ t[1] \in Steps
  BY <1>1
<1> HIDE DEF t, k
<1>5. t # <<>> => t[Len(t)].kind # "enqueue"
  <2>1. ASSUME t # <<>> PROVE k - 1 \in 1 .. k - 1 /\ (k - 1) + 1 = k
    BY <1>1, <1>4, <2>1
  <2>2. QED
    BY <1>1, <2>1
<1>6. \A i \in DOMAIN t : t[i].ch \in {0, None}
  BY <1>1, <1>2
<1>7. ASSUME NEW i \in 1 .. Len(t) - 1 PROVE Follows(t[i], t[i + 1])
  <2>1. i \in 1 .. k - 1 /\ i + 1 \in 1 .. k - 1 /\ i + 1 \in 1 .. k
    BY <1>1
  <2>2. t[i] = s[i + 1] /\ t[i + 1] = s[(i + 1) + 1] /\ Follows(s[i + 1], s[(i + 1) + 1])
    BY <1>1, <1>2, <2>1
  <2>3. QED
    BY <2>2
<1>8. t # <<>> => Follows(s[1], t[1])
  <2>1. ASSUME t # <<>> PROVE 1 \in 1 .. k - 1 /\ 1 + 1 = 2
    BY <1>1, <1>4, <2>1
  <2>2. QED
    BY <1>2, <1>4, <2>1
<1>9. Head(s).ch \in {0, None}
  <2>1. 1 \in 1 .. k
    BY <1>1
  <2>2. QED
    BY <1>1, <1>2, <2>1
<1>10. Orderly(t)
  BY <1>1, <1>5, <1>6, <1>7 DEF Orderly, InOrder
<1>11. QED
  BY <1>1, <1>3, <1>4, <1>8, <1>9, <1>10 DEF t

(* What may follow each kind of step. *)
LEMMA NextKinds ==
  ASSUME NEW x \in Steps, NEW y \in Steps, Follows(x, y)
  PROVE  /\ x.kind = "wait" => y.kind \in {"wait", "bell", "draw"}
         /\ x.kind = "draw" => y.kind = "wait" \/ (y.kind = "enqueue" /\ Begins(y.op))
         /\ x.kind = "execute" => y.kind = "wait"
         /\ x.kind = "enqueue" =>
              \/ y.kind = "execute"
              \/ y.kind = "enqueue" /\ y.op.name = "blank" /\ x.op = Copy
              \/ y.kind = "enqueue" /\ y.op.name = "cursor" /\ x.op.name = "blank"
         /\ x.kind # "bell"
<1>1. x.kind \in Kinds /\ y.kind \in Kinds
  BY DEF Steps
<1>2. QED
  BY <1>1 DEF Follows, Kinds

(* The transfers that do not begin a queue. *)
LEMMA GoesOn ==
  ASSUME NEW op \in Transfers
  PROVE  /\ op.name = "blank" => ~Begins(op) /\ op.word = "bg" /\ \E c \in Colours : op = Blank(c)
         /\ op.name = "cursor" => ~Begins(op) /\ op.word = "fg"
<1>1. \/ op \in {Copy, Tone("tx"), Tone("rx")}
      \/ \E c \in Colours : op \in {Clear(c), Fill(c), Blank(c), Cursor(c)}
  BY TransferCases
<1>2. ASSUME op \in {Copy, Tone("tx"), Tone("rx")}
      PROVE  op.name # "blank" /\ op.name # "cursor"
  BY <1>2 DEF Copy, Tone, Op
<1>3. ASSUME NEW c \in Colours, op \in {Clear(c), Fill(c)}
      PROVE  op.name # "blank" /\ op.name # "cursor"
  BY <1>3 DEF Clear, Fill, Op
<1>4. ASSUME NEW c \in Colours, op = Blank(c)
      PROVE  op.name = "blank" /\ op.word = "bg"
  BY <1>4 DEF Blank, Op
<1>5. ASSUME NEW c \in Colours, op = Cursor(c)
      PROVE  op.name = "cursor" /\ op.word = "fg"
  BY <1>5 DEF Cursor, Op
<1>6. QED
  BY <1>1, <1>2, <1>3, <1>4, <1>5 DEF Begins

LEMMA ScreenEnqueues ==
  ASSUME RoomForJob, EngineTyped, EngineTyped', Engines, NEW x \in Steps,
         x.kind = "enqueue", x.ch = 0, AtStep(x), curr_blk[1] = 0, curr_blk[2] = 0, Do(x)
  PROVE  /\ Engines' /\ Hands(x) /\ curr_blk'[0] > 0 /\ ~dma_running(0)'
         /\ curr_blk'[1] = 0 /\ curr_blk'[2] = 0
         /\ x.op = Copy => curr_blk'[0] = 1 /\ blocks'[0][0].op = Copy
         /\ x.op.name = "blank" => /\ curr_blk'[0] = 2 /\ blocks'[0][0].op = Copy
                                   /\ \E c \in Colours : blocks'[0][1].op = Blank(c)
<1> DEFINE op == x.op
           n == curr_blk[0]
<1>1. op \in Transfers
  BY DEF Steps
<1>2. ~dma_running(0)
  BY DEF AtStep
<1>3. \/ Begins(op) /\ n = 0
      \/ op.name = "blank" /\ n = 1 /\ blocks[0][0].op = Copy
      \/ /\ op.name = "cursor" /\ n = 2 /\ blocks[0][0].op = Copy
         /\ \E c \in Colours : blocks[0][1].op = Blank(c)
  BY DEF AtStep
<1>4. dma_enqueue_operation(0, op)
  BY DEF Do
<1>5. /\ \A c \in Colours : Blank(c).word = "bg"
      /\ Copy.word = None /\ Copy.name = "copy" /\ Begins(Copy)
  BY DEF Blank, Copy, Op, Begins
<1>6. n \in Nat /\ n < 3
  BY <1>3
<1>7. \A b \in 0 .. n - 1 : blocks[0][b].op.word = None \/ blocks[0][b].op.word # op.word
  <2>1. CASE Begins(op) /\ n = 0
    BY <2>1
  <2>2. CASE op.name = "blank" /\ n = 1 /\ blocks[0][0].op = Copy
    BY <1>5, <2>2
  <2>3. CASE /\ op.name = "cursor" /\ n = 2 /\ blocks[0][0].op = Copy
             /\ \E c \in Colours : blocks[0][1].op = Blank(c)
    <3>1. op.word = "fg"
      BY <1>1, <2>3, GoesOn
    <3>2. \A b \in 0 .. n - 1 : b = 0 \/ b = 1
      BY <2>3
    <3>3. QED
      BY <1>5, <2>3, <3>1, <3>2
  <2>4. QED
    BY <1>3, <2>1, <2>2, <2>3
<1> HIDE DEF op
<1>8. /\ Engines' /\ Hands(Enqueue(0, op))
      /\ curr_blk'[0] = n + 1 /\ blocks'[0][n].op = op
      /\ \A b \in 0 .. DMA_SCBS - 1 : b # n => blocks'[0][b].op = blocks[0][b].op
      /\ dma_running(0)' = dma_running(0)
      /\ \A ch \in Channels : ch # 0 => curr_blk'[ch] = curr_blk[ch]
  <2>1. 0 \in Channels
    BY ChannelsAre
  <2>2. QED
    BY <1>1, <1>2, <1>4, <1>6, <1>7, <2>1, EnqueueStep
<1>9. Hands(x)
  <2>1. \A ch : Asked(Enqueue(0, op), ch) = Asked(x, ch)
    BY DEF Asked, Enqueue, op
  <2>2. QED
    BY <1>8, <2>1 DEF Hands
<1>10. curr_blk'[0] > 0 /\ curr_blk'[1] = 0 /\ curr_blk'[2] = 0 /\ ~dma_running(0)'
  BY <1>2, <1>6, <1>8 DEF Channels
<1>11. ASSUME op = Copy PROVE curr_blk'[0] = 1 /\ blocks'[0][0].op = Copy
  <2>1. n = 0
    BY <1>3, <1>5, <1>11
  <2>2. QED
    BY <1>8, <1>11, <2>1
<1>12. ASSUME op.name = "blank"
       PROVE  /\ curr_blk'[0] = 2 /\ blocks'[0][0].op = Copy
              /\ \E c \in Colours : blocks'[0][1].op = Blank(c)
  <2>1. n = 1 /\ blocks[0][0].op = Copy /\ \E c \in Colours : op = Blank(c)
    BY <1>1, <1>3, <1>12, GoesOn
  <2>2. 0 \in 0 .. DMA_SCBS - 1
    BY DmaAssumption
  <2>3. QED
    BY <1>8, <2>1, <2>2
<1>13. QED
  BY <1>8, <1>9, <1>10, <1>11, <1>12 DEF op

(* A step of a script on the screen's channel. *)
LEMMA ScreenStep ==
  ASSUME RoomForJob, EngineTyped, EngineTyped', Engines, NEW s, s # <<>>, OnScreen(s),
         Head(s).kind # "bell", Do(Head(s))
  PROVE  Engines' /\ Hands(Head(s)) /\ OnScreen(Tail(s))'
<1> DEFINE x == Head(s)
           t == Tail(s)
           y == t[1]
<1>1. /\ x = s[1] /\ x \in Steps /\ x.ch \in {0, None} /\ Orderly(t)
      /\ t = <<>> => x.kind # "enqueue"
      /\ t # <<>> => y \in Steps /\ Follows(x, y)
  BY OrderlyRest DEF OnScreen
<1>2. /\ curr_blk[1] = 0 /\ curr_blk[2] = 0 /\ AtStep(x) /\ x.kind # "bell" /\ Do(x)
  BY <1>1 DEF OnScreen
<1>3. t # <<>> =>
        /\ x.kind = "wait" => y.kind \in {"wait", "bell", "draw"}
        /\ x.kind = "draw" => y.kind = "wait" \/ (y.kind = "enqueue" /\ Begins(y.op))
        /\ x.kind = "execute" => y.kind = "wait"
        /\ x.kind = "enqueue" =>
             \/ y.kind = "execute"
             \/ y.kind = "enqueue" /\ y.op.name = "blank" /\ x.op = Copy
             \/ y.kind = "enqueue" /\ y.op.name = "cursor" /\ x.op.name = "blank"
  BY <1>1, NextKinds
<1> HIDE DEF x, t, y
<1>4. ASSUME curr_blk'[1] = 0, curr_blk'[2] = 0,
             t = <<>> => curr_blk'[0] = 0, t # <<>> => AtStep(y)'
      PROVE  OnScreen(t)'
  BY <1>1, <1>4 DEF OnScreen, y
<1>5. CASE x.kind \in {"wait", "draw"}
  <2>1. UNCHANGED <<blocks, curr_blk, engine, colour>> /\ (x.kind = "wait" => ~dma_running(0))
    BY <1>2, <1>5 DEF Do
  <2>2. Engines' /\ \A ch \in Channels : Left(ch)' = Left(ch)
    BY <2>1, QuietStep
  <2>3. Hands(x)
    BY <1>5, <2>2, SilentHands
  <2>4. curr_blk'[0] = 0 /\ ~dma_running(0)' /\ curr_blk'[1] = 0 /\ curr_blk'[2] = 0
    BY <1>2, <1>5, <2>1 DEF AtStep, dma_running
  <2>5. t # <<>> => y.kind \in {"wait", "bell", "draw"} \/ (y.kind = "enqueue" /\ Begins(y.op))
    BY <1>3, <1>5
  <2>6. t # <<>> => AtStep(y)'
    BY <2>4, <2>5 DEF AtStep
  <2>7. QED
    BY <1>4, <2>2, <2>3, <2>4, <2>6 DEF t, x
<1>6. CASE x.kind = "execute"
  <2>1. dma_execute_queue(0)
    <3>1. x.ch = 0
      BY <1>1, <1>6, NoneIs DEF Steps, Channels
    <3>2. QED
      BY <1>2, <1>6, <3>1 DEF Do
  <2>2. curr_blk[0] > 0 /\ ~dma_running(0)
    BY <1>2, <1>6 DEF AtStep
  <2>3. /\ Engines' /\ \A ch \in Channels : Left(ch)' = Left(ch)
        /\ curr_blk'[0] = 0
        /\ \A ch \in Channels : ch # 0 => curr_blk'[ch] = curr_blk[ch]
    BY <2>1, <2>2, ExecuteStep, ChannelsAre
  <2>4. Hands(x)
    BY <1>6, <2>3, SilentHands
  <2>5. curr_blk'[1] = 0 /\ curr_blk'[2] = 0
    BY <1>2, <2>3 DEF Channels
  <2>6. t # <<>> => AtStep(y)'
    BY <1>3, <1>6, <2>3 DEF AtStep
  <2>7. QED
    BY <1>4, <2>3, <2>4, <2>5, <2>6 DEF t, x
<1>7. CASE x.kind = "enqueue"
  <2>1. x.ch = 0
    BY <1>1, <1>7, NoneIs DEF Steps, Channels
  <2>2. /\ Engines' /\ Hands(x) /\ curr_blk'[0] > 0 /\ ~dma_running(0)'
        /\ curr_blk'[1] = 0 /\ curr_blk'[2] = 0
        /\ x.op = Copy => curr_blk'[0] = 1 /\ blocks'[0][0].op = Copy
        /\ x.op.name = "blank" => /\ curr_blk'[0] = 2 /\ blocks'[0][0].op = Copy
                                  /\ \E c \in Colours : blocks'[0][1].op = Blank(c)
    BY <1>1, <1>2, <1>7, <2>1, ScreenEnqueues
  <2>3. t # <<>>
    BY <1>1, <1>7
  <2>4. AtStep(y)'
    <3>1. CASE y.kind = "execute"
      BY <2>2, <3>1 DEF AtStep
    <3>2. CASE y.kind = "enqueue" /\ y.op.name = "blank" /\ x.op = Copy
      BY <2>2, <3>2 DEF AtStep
    <3>3. CASE y.kind = "enqueue" /\ y.op.name = "cursor" /\ x.op.name = "blank"
      BY <2>2, <3>3 DEF AtStep
    <3>4. QED
      BY <1>3, <1>7, <2>3, <3>1, <3>2, <3>3
  <2>5. QED
    BY <1>4, <2>2, <2>3, <2>4 DEF t, x
<1>8. x.kind \in {"wait", "draw", "enqueue", "execute"}
  BY <1>1, <1>2 DEF Steps, Kinds
<1>9. QED
  BY <1>5, <1>6, <1>7, <1>8 DEF x, t

(* A step of a bell. *)
LEMMA RingSteps ==
  /\ RingScript # <<>> /\ Head(RingScript) = Enqueue(1, Tone("tx"))
  /\ Tail(RingScript) # <<>> /\ Head(Tail(RingScript)) = Enqueue(2, Tone("rx"))
  /\ Tail(Tail(RingScript)) # <<>> /\ Head(Tail(Tail(RingScript))) = Execute(1)
  /\ Tail(Tail(Tail(RingScript))) = <<Execute(2)>>
  /\ <<Execute(2)>> # <<>> /\ Head(<<Execute(2)>>) = Execute(2) /\ Tail(<<Execute(2)>>) = <<>>
<1> DEFINE a == Enqueue(1, Tone("tx"))
           b == Enqueue(2, Tone("rx"))
           x == Execute(1)
           y == Execute(2)
<1>1. RingScript = <<a, b, x, y>>
  BY DEF RingScript, SPI0_TX_DMA_CHANNEL, SPI0_RX_DMA_CHANNEL
<1>2. a \in Steps /\ b \in Steps /\ x \in Steps /\ y \in Steps
  BY StepTypes, ChannelsAre, TransfersAre DEF SPI0_TX_DMA_CHANNEL, SPI0_RX_DMA_CHANNEL
<1> HIDE DEF a, b, x, y
<1>3. Head(<<a, b, x, y>>) = a /\ Tail(<<a, b, x, y>>) = <<b, x, y>>
  BY <1>2
<1>4. Head(<<b, x, y>>) = b /\ Tail(<<b, x, y>>) = <<x, y>>
  BY <1>2
<1>5. Head(<<x, y>>) = x /\ Tail(<<x, y>>) = <<y>>
  BY <1>2
<1>6. <<a, b, x, y>> # <<>> /\ <<b, x, y>> # <<>> /\ <<x, y>> # <<>> /\ <<y>> # <<>>
      /\ Head(<<y>>) = y /\ Tail(<<y>>) = <<>>
  BY <1>2
<1>7. QED
  BY <1>1, <1>3, <1>4, <1>5, <1>6 DEF a, b, x, y

LEMMA RingStep ==
  ASSUME RoomForJob, EngineTyped, EngineTyped', Engines, NEW s, Ringing(s), Do(Head(s))
  PROVE  /\ s # <<>> /\ Engines' /\ Hands(Head(s))
         /\ Ringing(Tail(s))' \/ OnScreen(Tail(s))'
<1>1. 0 \in Channels /\ 1 \in Channels /\ 2 \in Channels
  BY DEF Channels
<1>2. bell_ringing <=> dma_running(1) \/ dma_running(2)
  BY DEF bell_ringing, SPI0_TX_DMA_CHANNEL, SPI0_RX_DMA_CHANNEL
<1>3. bell_ringing' <=> dma_running(1)' \/ dma_running(2)'
  BY DEF bell_ringing, SPI0_TX_DMA_CHANNEL, SPI0_RX_DMA_CHANNEL
<1>4. curr_blk[0] = 0
  BY DEF Ringing, Sounding
<1>5. ASSUME NEW k \in {1, 2}, NEW op \in {Tone("tx"), Tone("rx")}, Head(s) = Enqueue(k, op),
             ~dma_running(k), curr_blk[k] = 0
      PROVE  /\ Engines' /\ Hands(Head(s)) /\ curr_blk'[k] = 1
             /\ \A ch \in Channels : /\ dma_running(ch)' = dma_running(ch)
                                     /\ ch # k => curr_blk'[ch] = curr_blk[ch]
  <2>1. k \in Channels /\ k # 0 /\ op \in Transfers
    BY <1>1, TonesWordless
  <2>2. dma_enqueue_operation(k, op)
    <3>1. Head(s).kind = "enqueue" /\ Head(s).ch = k /\ Head(s).op = op
      BY <1>5 DEF Enqueue
    <3>2. QED
      BY <3>1 DEF Do
  <2>3. \A b \in 0 .. curr_blk[k] - 1 :
          blocks[k][b].op.word = None \/ blocks[k][b].op.word # op.word
    BY <1>5
  <2>4. /\ Engines' /\ Hands(Enqueue(k, op)) /\ curr_blk'[k] = curr_blk[k] + 1
        /\ \A ch \in Channels : /\ dma_running(ch)' = dma_running(ch)
                                /\ ch # k => curr_blk'[ch] = curr_blk[ch]
    BY <1>5, <2>1, <2>2, <2>3, EnqueueStep
  <2>5. QED
    BY <1>5, <2>4
<1>6. ASSUME NEW k \in {1, 2}, Head(s) = Execute(k), ~dma_running(k), curr_blk[k] = 1
      PROVE  /\ Engines' /\ Hands(Head(s)) /\ curr_blk'[k] = 0
             /\ \A ch \in Channels : ch # k => /\ curr_blk'[ch] = curr_blk[ch]
                                               /\ dma_running(ch)' = dma_running(ch)
  <2>1. Head(s).kind = "execute" /\ Head(s).ch = k /\ k \in Channels
    BY <1>1, <1>6 DEF Execute
  <2>2. dma_execute_queue(k)
    BY <2>1 DEF Do
  <2>3. /\ Engines' /\ \A ch \in Channels : Left(ch)' = Left(ch)
        /\ curr_blk'[k] = 0
        /\ \A ch \in Channels : ch # k => /\ curr_blk'[ch] = curr_blk[ch]
                                          /\ dma_running(ch)' = dma_running(ch)
    BY <1>6, <2>1, <2>2, ExecuteStep
  <2>4. Hands(Head(s))
    BY <2>1, <2>3, SilentHands
  <2>5. QED
    BY <2>3, <2>4
<1>7. CASE s = RingScript /\ ~bell_ringing /\ curr_blk[1] = 0 /\ curr_blk[2] = 0
  <2>1. /\ Engines' /\ Hands(Head(s)) /\ curr_blk'[1] = 1
        /\ \A ch \in Channels : /\ dma_running(ch)' = dma_running(ch)
                                /\ ch # 1 => curr_blk'[ch] = curr_blk[ch]
    BY <1>2, <1>5, <1>7, RingSteps
  <2>2. curr_blk'[0] = 0 /\ curr_blk'[2] = 0 /\ ~bell_ringing'
    BY <1>1, <1>2, <1>3, <1>4, <1>7, <2>1
  <2>3. Ringing(Tail(s))'
    BY <1>7, <2>1, <2>2 DEF Ringing, Sounding
  <2>4. QED
    BY <1>7, <2>1, <2>3, RingSteps
<1>8. CASE s = Tail(RingScript) /\ ~bell_ringing /\ curr_blk[1] = 1 /\ curr_blk[2] = 0
  <2>1. /\ Engines' /\ Hands(Head(s)) /\ curr_blk'[2] = 1
        /\ \A ch \in Channels : /\ dma_running(ch)' = dma_running(ch)
                                /\ ch # 2 => curr_blk'[ch] = curr_blk[ch]
    BY <1>2, <1>5, <1>8, RingSteps
  <2>2. curr_blk'[0] = 0 /\ curr_blk'[1] = 1 /\ ~bell_ringing'
    BY <1>1, <1>2, <1>3, <1>4, <1>8, <2>1
  <2>3. Ringing(Tail(s))'
    BY <1>8, <2>1, <2>2 DEF Ringing, Sounding
  <2>4. QED
    BY <1>8, <2>1, <2>3, RingSteps
<1>9. CASE s = Tail(Tail(RingScript)) /\ ~bell_ringing /\ curr_blk[1] = 1 /\ curr_blk[2] = 1
  <2>1. /\ Engines' /\ Hands(Head(s)) /\ curr_blk'[1] = 0
        /\ \A ch \in Channels : ch # 1 => /\ curr_blk'[ch] = curr_blk[ch]
                                          /\ dma_running(ch)' = dma_running(ch)
    BY <1>2, <1>6, <1>9, RingSteps
  <2>2. curr_blk'[0] = 0 /\ curr_blk'[2] = 1 /\ ~dma_running(2)'
    BY <1>1, <1>2, <1>4, <1>9, <2>1
  <2>3. Ringing(Tail(s))'
    BY <1>9, <2>1, <2>2, RingSteps DEF Ringing, Sounding
  <2>4. QED
    BY <1>9, <2>1, <2>3, RingSteps
<1>10. CASE s = <<Execute(2)>> /\ ~dma_running(2) /\ curr_blk[1] = 0 /\ curr_blk[2] = 1
  <2>1. /\ Engines' /\ Hands(Head(s)) /\ curr_blk'[2] = 0
        /\ \A ch \in Channels : ch # 2 => curr_blk'[ch] = curr_blk[ch]
    BY <1>6, <1>10, RingSteps
  <2>2. curr_blk'[0] = 0 /\ curr_blk'[1] = 0
    BY <1>1, <1>4, <1>10, <2>1
  <2>3. OnScreen(<<>>)'
    BY <2>1, <2>2 DEF OnScreen, Orderly, InOrder
  <2>4. QED
    BY <1>10, <2>1, <2>3, RingSteps
<1>11. QED
  BY <1>7, <1>8, <1>9, <1>10 DEF Ringing, Sounding

(* What is owed: the chain, the queue, and what the script will ask for. *)
LEMMA OwedIs ==
  (RoomForJob /\ Typed /\ QueueInv) =>
    \A ch \in Channels :
      /\ Owed[ch] = Left(ch) \o Intended(Going, ch)
      /\ Left(ch) \in Seq(Transfers) /\ Intended(Going, ch) \in Seq(Transfers)
<1> SUFFICES ASSUME RoomForJob, Typed, QueueInv, NEW ch \in Channels
             PROVE  /\ Owed[ch] = Left(ch) \o Intended(Going, ch)
                    /\ Left(ch) \in Seq(Transfers) /\ Intended(Going, ch) \in Seq(Transfers)
  OBVIOUS
<1>1. EngineTyped /\ main \in Seq(Steps) /\ handler \in Seq(Steps)
  BY TypedIs
<1>2. Left(ch) \in Seq(Transfers)
  BY <1>1, LeftType DEF QueueInv
<1>3. Intended(main, ch) \in Seq(Transfers) /\ Intended(handler, ch) \in Seq(Transfers)
  BY <1>1, IntendedType
<1>4. Owed[ch] = (Left(ch) \o Intended(handler, ch)) \o Intended(main, ch)
  BY DEF Owed, Left
<1>5. Intended(<<>>, ch) = <<>>
  BY IntendedNone
<1>6. CASE handler = <<>>
  <2>1. Left(ch) \o <<>> = Left(ch)
    BY <1>2, ConcatEmptySeq
  <2>2. QED
    BY <1>2, <1>3, <1>4, <1>5, <1>6, <2>1 DEF Going
<1>7. CASE handler # <<>>
  <2> DEFINE l == Left(ch) \o Intended(handler, ch)
  <2>1. main = <<>>
    BY <1>7 DEF QueueInv
  <2>2. l \in Seq(Transfers)
    BY <1>2, <1>3, ConcatProperties
  <2>3. l \o <<>> = l
    BY <2>2, ConcatEmptySeq
  <2>4. QED
    BY <1>2, <1>3, <1>4, <1>5, <1>7, <2>1, <2>3 DEF Going
<1>8. QED
  BY <1>6, <1>7

LEMMA OwedIsPrimed ==
  ((RoomForJob /\ Typed /\ QueueInv) =>
    \A ch \in Channels :
      /\ Owed[ch] = Left(ch) \o Intended(Going, ch)
      /\ Left(ch) \in Seq(Transfers) /\ Intended(Going, ch) \in Seq(Transfers))'
BY OwedIs, PTL

(* A step that leaves script t leaves the invariant with it. *)
LEMMA GoesOnWith ==
  ASSUME NEW t, Going' = t, OnScreen(t)' \/ Ringing(t)'
  PROVE  OnScreen(Going)' \/ Ringing(Going)'
<1>1. ASSUME OnScreen(t)' PROVE OnScreen(Going)'
  BY <1>1 DEF OnScreen
<1>2. ASSUME Ringing(t)' PROVE Ringing(Going)'
  BY <1>2 DEF Ringing, Sounding
<1>3. QED
  BY <1>1, <1>2

Kept == \A ch \in Channels : Owed'[ch] = Owed[ch]

LEMMA ScriptStep ==
  ASSUME RoomForJob, Typed, Typed', QueueInv, NEW s, s = Going, s # <<>>,
         Head(s).kind # "bell", Do(Head(s)), Going' = Tail(s), handler' = <<>> \/ main' = <<>>
  PROVE  QueueInv' /\ Kept
<1>1. EngineTyped /\ EngineTyped' /\ s \in Seq(Steps)
  <2>1. EngineTyped /\ main \in Seq(Steps) /\ handler \in Seq(Steps)
    BY TypedIs
  <2>2. EngineTyped'
    BY DEF Typed, TypeOK, EngineTyped
  <2>3. QED
    BY <2>1, <2>2 DEF Going
<1>2. Engines /\ (OnScreen(s) \/ Ringing(s))
  BY DEF QueueInv
<1>3. Engines' /\ Hands(Head(s)) /\ (OnScreen(Tail(s))' \/ Ringing(Tail(s))')
  <2>1. CASE OnScreen(s)
    BY <1>1, <1>2, <2>1, ScreenStep
  <2>2. CASE Ringing(s)
    BY <1>1, <1>2, <2>2, RingStep
  <2>3. QED
    BY <1>2, <2>1, <2>2
<1>4. OnScreen(Going)' \/ Ringing(Going)'
  BY <1>3, GoesOnWith
<1>5. QueueInv'
  BY <1>3, <1>4 DEF QueueInv
<1>6. ASSUME NEW ch \in Channels PROVE Owed'[ch] = Owed[ch]
  <2> DEFINE a == Asked(Head(s), ch)
             r == Intended(Tail(s), ch)
             l == Left(ch)
  <2>1. Head(s) \in Steps /\ Tail(s) \in Seq(Steps)
    BY <1>1, Rest
  <2>2. a \in Seq(Transfers) /\ r \in Seq(Transfers) /\ Intended(s, ch) = a \o r
    BY <1>1, <2>1, AskedType, IntendedType, IntendedRest
  <2>3. Owed[ch] = l \o Intended(s, ch) /\ l \in Seq(Transfers)
    BY OwedIs
  <2>4. Owed'[ch] = Left(ch)' \o r
    <3>1. Owed'[ch] = Left(ch)' \o Intended(Going, ch)'
      BY <1>5, OwedIsPrimed
    <3>2. Intended(Going, ch)' = r
      OBVIOUS
    <3>3. QED
      BY <3>1, <3>2
  <2>5. Left(ch)' = l \o a
    BY <1>3 DEF Hands
  <2> HIDE DEF a, r, l
  <2>6. (l \o a) \o r = l \o (a \o r)
    BY <2>2, <2>3, ConcatAssociative, SMTT(60)
  <2>7. QED
    BY <2>2, <2>3, <2>4, <2>5, <2>6
<1>7. QED
  BY <1>5, <1>6 DEF Kept

AsksJobs ==
  \A ch \in Channels :
    Owed'[ch] = Owed[ch] \/ \E job \in JobSet : Owed'[ch] = Owed[ch] \o job

(* A script begins that asks for whole jobs. *)
LEMMA NewScript ==
  ASSUME RoomForJob, Typed, Typed', QueueInv, UNCHANGED <<blocks, curr_blk, engine, colour>>,
         \A ch \in Channels : Intended(Going, ch) = <<>>,
         NEW t, Going' = t, handler' = <<>> \/ main' = <<>>,
         OnScreen(t) \/ Ringing(t),
         \A ch \in Channels : Intended(t, ch) \in JobSet \cup {<<>>}
  PROVE  QueueInv' /\ AsksJobs
<1>1. EngineTyped /\ EngineTyped' /\ Engines
  BY DEF Typed, TypeOK, EngineTyped, QueueInv
<1>2. Engines' /\ \A ch \in Channels : Left(ch)' = Left(ch)
  BY <1>1, QuietStep
<1>3. (OnScreen(t) => OnScreen(t)') /\ (Ringing(t) => Ringing(t)')
  BY DEF OnScreen, AtStep, Ringing, Sounding, dma_running, bell_ringing
<1>4. OnScreen(Going)' \/ Ringing(Going)'
  BY <1>3, GoesOnWith
<1>5. QueueInv'
  BY <1>2, <1>4 DEF QueueInv
<1>6. ASSUME NEW ch \in Channels
      PROVE  Owed'[ch] = Owed[ch] \/ \E job \in JobSet : Owed'[ch] = Owed[ch] \o job
  <2> DEFINE asks == Intended(t, ch)
             l == Left(ch)
  <2>1. Owed[ch] = l \o <<>> /\ l \in Seq(Transfers)
    BY OwedIs
  <2>2. Owed'[ch] = l \o asks
    <3>1. Owed'[ch] = Left(ch)' \o Intended(Going, ch)'
      BY <1>5, OwedIsPrimed
    <3>2. Intended(Going, ch)' = asks
      OBVIOUS
    <3>3. QED
      BY <1>2, <3>1, <3>2
  <2>3. asks \in JobSet \cup {<<>>}
    OBVIOUS
  <2> HIDE DEF asks, l
  <2>4. l \o <<>> = l
    BY <2>1, ConcatEmptySeq
  <2>5. QED
    BY <2>1, <2>2, <2>3, <2>4
<1>7. QED
  BY <1>5, <1>6 DEF AsksJobs

LEMMA PartStarts ==
  ASSUME NEW t, NEW first, NEW last, NEW asks, Part(t, first, last, asks), last.kind # "enqueue",
         curr_blk[1] = 0, curr_blk[2] = 0, AtStep(first), asks \in JobSet \cup {<<>>}
  PROVE  OnScreen(t) /\ \A ch \in Channels : Intended(t, ch) \in JobSet \cup {<<>>}
<1>1. Orderly(t) /\ t # <<>> /\ t[1] = first
  BY DEF Orderly, Part
<1>2. OnScreen(t)
  BY <1>1 DEF OnScreen
<1>3. \A ch \in Channels : Intended(t, ch) \in JobSet \cup {<<>>}
  BY DEF Part
<1>4. QED
  BY <1>2, <1>3

LEMMA Idle ==
  ASSUME QueueInv, Going = <<>>
  PROVE  /\ curr_blk[0] = 0 /\ curr_blk[1] = 0 /\ curr_blk[2] = 0
         /\ \A ch \in Channels : Intended(Going, ch) = <<>>
<1>1. ~Ringing(Going)
  BY RingSteps DEF Ringing, Sounding
<1>2. OnScreen(Going)
  BY <1>1 DEF QueueInv
<1>3. QED
  BY <1>2, IntendedNone DEF OnScreen

LEMMA LookOwes ==
  ASSUME RoomForJob, Typed, Typed', QueueInv, Look
  PROVE  QueueInv' /\ AsksJobs
<1>1. /\ Going = <<>> /\ handler' = <<>> /\ Going' = main'
      /\ UNCHANGED <<blocks, curr_blk, engine, colour>>
  BY DEF Look, Going
<1>2. /\ curr_blk[0] = 0 /\ curr_blk[1] = 0 /\ curr_blk[2] = 0
      /\ \A ch \in Channels : Intended(Going, ch) = <<>>
  BY <1>1, Idle
<1>3. CASE main' = <<>>
  <2>1. OnScreen(<<>>) /\ \A ch \in Channels : Intended(<<>>, ch) = <<>>
    BY <1>2, IntendedNone DEF OnScreen, Orderly, InOrder
  <2>2. QED
    BY <1>1, <1>2, <1>3, <2>1, NewScript
<1>4. CASE main' = <<Wait, Step("bell")>>
  <2> DEFINE t == <<Wait, Step("bell")>>
  <2>1. AtStep(Wait) /\ Step("bell").kind # "enqueue"
    BY <1>2, StepTypes DEF AtStep
  <2>2. Part(t, Wait, Step("bell"), <<>>)
    BY RememberedPart
  <2> HIDE DEF t
  <2>3. OnScreen(t) /\ \A ch \in Channels : Intended(t, ch) \in JobSet \cup {<<>>}
    BY <1>2, <2>1, <2>2, PartStarts
  <2>4. Going' = t
    BY <1>1, <1>4 DEF t
  <2>5. QED
    BY <1>1, <1>2, <2>3, <2>4, NewScript
<1>5. QED
  BY <1>3, <1>4 DEF Look

LEMMA TakeOwes ==
  ASSUME RoomForJob, Typed, Typed', QueueInv, Take
  PROVE  QueueInv' /\ AsksJobs
<1>1. /\ Going = <<>> /\ handler' = <<>> /\ Going' = main'
      /\ UNCHANGED <<blocks, curr_blk, engine, colour>>
  BY DEF Take, Going
<1>2. /\ curr_blk[0] = 0 /\ curr_blk[1] = 0 /\ curr_blk[2] = 0
      /\ \A ch \in Channels : Intended(Going, ch) = <<>>
  BY <1>1, Idle
<1>3. CASE main' = <<>>
  <2>1. OnScreen(<<>>) /\ \A ch \in Channels : Intended(<<>>, ch) = <<>>
    BY <1>2, IntendedNone DEF OnScreen, Orderly, InOrder
  <2>2. QED
    BY <1>1, <1>2, <1>3, <2>1, NewScript
<1>4. CASE \E b \in Bytes, c \in Colours, d \in Colours : main' = Putchar(b, c, d)
  <2>1. PICK b \in Bytes, c \in Colours, d \in Colours : main' = Putchar(b, c, d)
    BY <1>4
  <2> DEFINE t == Putchar(b, c, d)
  <2>2. b \in Requests
    BY DmaAssumption
  <2>3. PICK last, asks : /\ Part(t, Wait, last, asks) /\ last.kind # "enqueue"
                          /\ asks \in JobSet \cup {<<>>}
    BY <2>2, PutcharAsks
  <2>4. AtStep(Wait)
    BY <1>2, StepTypes DEF AtStep
  <2>5. Going' = t
    BY <1>1, <2>1
  <2> HIDE DEF t
  <2>6. OnScreen(t) /\ \A ch \in Channels : Intended(t, ch) \in JobSet \cup {<<>>}
    BY <1>2, <2>3, <2>4, PartStarts
  <2>7. QED
    BY <1>1, <1>2, <2>5, <2>6, NewScript
<1>5. main' = main \/ \E b \in Bytes, c \in Colours, d \in Colours : main' = Putchar(b, c, d)
  BY DEF Take
<1>6. main = <<>>
  BY DEF Take
<1>7. QED
  BY <1>3, <1>4, <1>5, <1>6

(* The main loop has no step to do; nor, for F10 and F12, whose handlers   *)
(* wait for nothing, has channel 0.                                        *)
AtRest(key) == main = <<>> /\ (key \in {"F10", "F12"} => ~dma_running(0))

LEMMA PressOwes ==
  ASSUME RoomForJob, Typed, Typed', QueueInv, NEW key \in Keys, Press(key), AtRest(key)
  PROVE  QueueInv' /\ AsksJobs
<1>1. main = <<>> /\ (key \in {"F10", "F12"} => ~dma_running(0))
  BY DEF AtRest
<1>2. /\ handler = <<>> /\ Going = <<>> /\ main' = <<>> /\ Going' = handler'
      /\ UNCHANGED <<blocks, curr_blk, engine, colour>>
  BY <1>1 DEF Press, Going
<1>3. /\ curr_blk[0] = 0 /\ curr_blk[1] = 0 /\ curr_blk[2] = 0
      /\ \A ch \in Channels : Intended(Going, ch) = <<>>
  BY <1>2, Idle
<1>4. PICK c \in Colours, d \in Colours : handler' \in Scripts(key, c, d)
  BY DEF Press
<1>5. PICK t : t = handler' /\ t \in Scripts(key, c, d)
  BY <1>4
<1>6. PICK first, last, asks :
        /\ Part(t, first, last, asks) /\ last.kind # "enqueue" /\ asks \in JobSet
        /\ \/ first = Wait
           \/ /\ key \in {"F10", "F12"}
              /\ \E op \in Transfers : first = Enqueue(0, op) /\ Begins(op)
  BY <1>5, KeyPart
<1>7. AtStep(first)
  <2>1. CASE first = Wait
    BY <1>3, <2>1, StepTypes DEF AtStep
  <2>2. CASE key \in {"F10", "F12"} /\ \E op \in Transfers : first = Enqueue(0, op) /\ Begins(op)
    <3>1. first.kind = "enqueue" /\ Begins(first.op)
      BY <2>2 DEF Enqueue
    <3>2. QED
      BY <1>1, <1>3, <2>2, <3>1 DEF AtStep
  <2>3. QED
    BY <1>6, <2>1, <2>2
<1>8. OnScreen(t) /\ \A ch \in Channels : Intended(t, ch) \in JobSet \cup {<<>>}
  BY <1>3, <1>6, <1>7, PartStarts
<1>9. Going' = t
  BY <1>2, <1>5
<1>10. QED
  BY <1>2, <1>3, <1>8, <1>9, NewScript

LEMMA BellOwes ==
  ASSUME RoomForJob, Typed, Typed', QueueInv, handler = <<>>, handler' = <<>>, main # <<>>,
         Head(main).kind = "bell", bell(Tail(main))
  PROVE  QueueInv' /\ AsksJobs
<1>1. PICK s : s = main /\ s = Going
  BY DEF Going
<1>2. /\ UNCHANGED <<blocks, curr_blk, engine, colour>> /\ Going' = main'
      /\ main' = IF bell_ringing THEN Tail(main) ELSE RingScript \o Tail(main)
  BY DEF bell, Going
<1>3. OnScreen(s)
  <2>1. ~Ringing(s)
    <3>1. /\ Head(RingScript).kind # "bell" /\ Head(Tail(RingScript)).kind # "bell"
          /\ Head(Tail(Tail(RingScript))).kind # "bell" /\ Head(<<Execute(2)>>).kind # "bell"
      BY RingSteps DEF Enqueue, Execute
    <3>2. QED
      BY <1>1, <3>1 DEF Ringing, Sounding
  <2>2. QED
    BY <1>1, <2>1 DEF QueueInv
<1>4. Head(s) = s[1] /\ Head(s) \in Steps /\ Tail(s) = <<>>
  <2>1. /\ Head(s) = s[1] /\ Head(s) \in Steps
        /\ Tail(s) # <<>> => Tail(s)[1] \in Steps /\ Follows(Head(s), Tail(s)[1])
    BY <1>1, <1>3, OrderlyRest DEF OnScreen
  <2>2. Tail(s) = <<>>
    BY <1>1, <2>1, NextKinds
  <2>3. QED
    BY <2>1, <2>2
<1>5. curr_blk[0] = 0 /\ curr_blk[1] = 0 /\ curr_blk[2] = 0
  BY <1>1, <1>3, <1>4 DEF OnScreen, AtStep
<1>6. \A ch \in Channels : Intended(Going, ch) = <<>>
  <2>1. s \in Seq(Steps) /\ s # <<>>
    BY <1>1, TypedIs
  <2>2. \A ch \in Channels : Intended(s, ch) = Asked(Head(s), ch) \o <<>>
    BY <1>4, <2>1, IntendedRest, IntendedNone
  <2>3. \A ch \in Channels : Asked(Head(s), ch) = <<>>
    BY <1>1 DEF Asked
  <2>4. <<>> \o <<>> = <<>>
    OBVIOUS
  <2>5. QED
    BY <1>1, <2>2, <2>3, <2>4
<1>7. CASE bell_ringing
  <2>1. Going' = <<>>
    BY <1>1, <1>2, <1>4, <1>7
  <2>2. OnScreen(<<>>) /\ \A ch \in Channels : Intended(<<>>, ch) = <<>>
    BY <1>5, IntendedNone DEF OnScreen, Orderly, InOrder
  <2>3. QED
    BY <1>2, <1>6, <2>1, <2>2, NewScript
<1>8. CASE ~bell_ringing
  <2>1. Going' = RingScript
    <3>1. RingScript \in Seq(Steps)
      BY RingScriptIs DEF Script
    <3>2. RingScript \o <<>> = RingScript
      BY <3>1, ConcatEmptySeq
    <3>3. QED
      BY <1>1, <1>2, <1>4, <1>8, <3>2
  <2>2. Ringing(RingScript)
    BY <1>5, <1>8 DEF Ringing, Sounding
  <2>3. \A ch \in Channels : Intended(RingScript, ch) \in JobSet \cup {<<>>}
    <3>1. <<Tone("tx")>> \in JobSet /\ <<Tone("rx")>> \in JobSet
      BY DEF JobSet
    <3>2. QED
      BY <3>1, RingAsks DEF Channels
  <2>4. QED
    BY <1>2, <1>6, <2>1, <2>2, <2>3, NewScript
<1>9. QED
  BY <1>7, <1>8

LEMMA RunOwes ==
  ASSUME RoomForJob, Typed, Typed', QueueInv, Run
  PROVE  QueueInv' /\ (Kept \/ AsksJobs)
<1>1. CASE Head(main).kind = "bell"
  BY <1>1, BellOwes DEF Run
<1>2. CASE Head(main).kind # "bell"
  <2>1. PICK s : s = Going /\ s = main
    BY DEF Run, Going
  <2>2. /\ s # <<>> /\ Head(s).kind # "bell" /\ Do(Head(s)) /\ Going' = Tail(s) /\ handler' = <<>>
    BY <1>2, <2>1 DEF Run, Going
  <2>3. QED
    BY <2>1, <2>2, ScriptStep
<1>3. QED
  BY <1>1, <1>2

LEMMA HandleOwes ==
  ASSUME RoomForJob, Typed, Typed', QueueInv, Handle
  PROVE  QueueInv' /\ Kept
<1>1. PICK s : s = Going /\ s = handler
  BY DEF Handle, Going
<1>2. s # <<>> /\ main = <<>> /\ main' = <<>> /\ handler' = Tail(s) /\ Do(Head(s))
  BY <1>1 DEF Handle, QueueInv
<1>3. Going' = Tail(s)
  BY <1>2 DEF Going
<1>4. Head(s).kind # "bell"
  BY <1>1, <1>2, TypedIs, Rest
<1>5. QED
  BY <1>1, <1>2, <1>3, <1>4, ScriptStep

(* The engines disturb no script: a channel that is idle stays idle. *)
LEMMA EngineRuns ==
  ASSUME EngineTyped, NEW k \in Channels, Load(k) \/ Finish(k),
         NEW s, OnScreen(s) \/ Ringing(s)
  PROVE  OnScreen(s)' \/ Ringing(s)'
<1>1. /\ UNCHANGED <<blocks, curr_blk>>
      /\ \A ch \in Channels : ch # k => engine'[ch] = engine[ch]
      /\ dma_running(k)
  BY DEF Load, Finish, EngineTyped, dma_running
<1>2. \A ch \in Channels : ~dma_running(ch) => ~dma_running(ch)'
  BY <1>1 DEF dma_running
<1>3. ~bell_ringing => ~bell_ringing'
  BY <1>2, ChannelsAre DEF bell_ringing
<1>4. ~dma_running(0) => ~dma_running(0)'
  BY <1>2, ChannelsAre
<1>5. ~dma_running(2) => ~dma_running(2)'
  BY <1>2, ChannelsAre DEF SPI0_RX_DMA_CHANNEL
<1>6. CASE OnScreen(s)
  <2>1. ASSUME NEW x \in Steps, AtStep(x) PROVE AtStep(x)'
    <3>1. blocks' = blocks /\ curr_blk' = curr_blk
      BY <1>1
    <3>2. CASE x.kind \in {"wait", "bell"}
      BY <2>1, <3>1, <3>2 DEF AtStep
    <3>3. CASE x.kind = "draw"
      BY <1>4, <2>1, <3>1, <3>3 DEF AtStep
    <3>4. CASE x.kind = "execute"
      BY <1>4, <2>1, <3>1, <3>4 DEF AtStep
    <3>5. CASE x.kind = "enqueue"
      BY <1>4, <2>1, <3>1, <3>5 DEF AtStep
    <3>6. QED
      BY <3>2, <3>3, <3>4, <3>5 DEF Steps, Kinds
  <2>2. s # <<>> => s[1] \in Steps
    BY <1>6 DEF OnScreen, Orderly
  <2>3. QED
    BY <1>1, <1>6, <2>1, <2>2 DEF OnScreen
<1>7. CASE Ringing(s)
  BY <1>1, <1>3, <1>5, <1>7 DEF Ringing, Sounding
<1>8. QED
  BY <1>6, <1>7

LEMMA EngineKeeps ==
  ASSUME RoomForJob, Typed, Typed', QueueInv, NEW k \in Channels, Load(k) \/ Finish(k)
  PROVE  /\ QueueInv' /\ \A ch \in Channels : ch # k => Owed'[ch] = Owed[ch]
         /\ Load(k) => Owed'[k] = Owed[k]
         /\ Finish(k) => /\ Owed[k] # <<>> /\ Owed'[k] = Tail(Owed[k])
<1>1. EngineTyped /\ EngineTyped' /\ Engines
  BY DEF Typed, TypeOK, EngineTyped, QueueInv
<1>2. /\ UNCHANGED <<blocks, curr_blk, colour, main, handler>>
      /\ \A ch \in Channels : ch # k => engine'[ch] = engine[ch]
  BY <1>1 DEF Load, Finish, EngineTyped
<1>3. Wired(k) /\ (k # 0 => Tones(k))
  BY <1>1 DEF Engines
<1>4. Load(k) => Wired(k)' /\ (Tones(k) => Tones(k)') /\ Left(k)' = Left(k)
  BY <1>1, <1>3, LoadOwes DEF Left
<1>5. ASSUME Finish(k)
      PROVE  /\ Wired(k)' /\ (Tones(k) => Tones(k)')
             /\ \E op \in Transfers : Left(k) = <<op>> \o Left(k)'
  <2>1. /\ Wired(k)' /\ (Tones(k) => Tones(k)')
        /\ \E op \in Transfers : Chain(k) = <<op>> \o Chain(k)'
        /\ Chain(k)' \in Seq(Transfers) /\ Queue(k)' = Queue(k)
    BY <1>1, <1>3, <1>5, FinishOwes
  <2>2. PICK op \in Transfers : Chain(k) = <<op>> \o Chain(k)'
    BY <2>1
  <2>3. Queue(k) \in Seq(Transfers) /\ <<op>> \in Seq(Transfers)
    BY <1>1, <1>3, QueueType
  <2>4. (<<op>> \o Chain(k)') \o Queue(k) = <<op>> \o (Chain(k)' \o Queue(k))
    BY <2>1, <2>3, ConcatAssociative
  <2>5. QED
    BY <2>1, <2>2, <2>4 DEF Left
<1>6. ASSUME NEW ch \in Channels, ch # k
      PROVE  Wired(ch)' /\ (ch # 0 => Tones(ch)') /\ Left(ch)' = Left(ch)
  <2>1. Wired(ch) /\ (ch # 0 => Tones(ch))
    BY <1>1 DEF Engines
  <2>2. /\ blocks'[ch] = blocks[ch] /\ engine'[ch] = engine[ch] /\ curr_blk'[ch] = curr_blk[ch]
        /\ colour' = colour
    BY <1>2, <1>6
  <2>3. /\ Wired(ch)' /\ (Tones(ch) => Tones(ch)') /\ Chain(ch)' = Chain(ch) /\ Queue(ch)' = Queue(ch)
    BY <1>1, <2>1, <2>2, StillOwes
  <2>4. QED
    BY <2>1, <2>3 DEF Left
<1>7. Engines'
  BY <1>3, <1>4, <1>5, <1>6 DEF Engines
<1>8. QueueInv'
  <2>1. PICK s : s = Going
    OBVIOUS
  <2>2. Going' = s
    BY <1>2, <2>1 DEF Going
  <2>3. OnScreen(s)' \/ Ringing(s)'
    BY <1>1, <2>1, EngineRuns DEF QueueInv
  <2>4. OnScreen(Going)' \/ Ringing(Going)'
    BY <2>2, <2>3, GoesOnWith
  <2>5. handler' = <<>> \/ main' = <<>>
    BY <1>2 DEF QueueInv
  <2>6. QED
    BY <1>7, <2>4, <2>5 DEF QueueInv
<1>9. ASSUME NEW ch \in Channels
      PROVE  /\ Owed[ch] = Left(ch) \o Intended(Going, ch)
             /\ Owed'[ch] = Left(ch)' \o Intended(Going, ch)
             /\ Left(ch)' \in Seq(Transfers) /\ Intended(Going, ch) \in Seq(Transfers)
  <2>1. Going' = Going
    BY <1>2 DEF Going
  <2>2. Intended(Going, ch)' = Intended(Going, ch)
    BY <2>1
  <2>3. QED
    BY <1>8, <2>2, OwedIs, OwedIsPrimed
<1>10. \A ch \in Channels : ch # k => Owed'[ch] = Owed[ch]
  BY <1>6, <1>9
<1>11. Load(k) => Owed'[k] = Owed[k]
  BY <1>4, <1>9
<1>12. ASSUME Finish(k) PROVE Owed[k] # <<>> /\ Owed'[k] = Tail(Owed[k])
  <2> DEFINE l == Left(k)'
             r == Intended(Going, k)
  <2>1. PICK op \in Transfers : Left(k) = <<op>> \o l
    BY <1>5, <1>12
  <2>2. l \in Seq(Transfers) /\ r \in Seq(Transfers) /\ <<op>> \in Seq(Transfers)
    BY <1>9
  <2>3. Owed[k] = (<<op>> \o l) \o r /\ Owed'[k] = l \o r
    BY <1>9, <2>1
  <2> HIDE DEF l, r
  <2>4. (<<op>> \o l) \o r = <<op>> \o (l \o r)
    BY <2>2, ConcatAssociative
  <2>5. PICK z : z = l \o r
    OBVIOUS
  <2>6. z \in Seq(Transfers)
    BY <2>2, <2>5, ConcatProperties
  <2>7. <<op>> \o z # <<>> /\ Tail(<<op>> \o z) = z
    BY <2>6
  <2>8. QED
    BY <2>3, <2>4, <2>5, <2>7
<1>13. QED
  BY <1>8, <1>10, <1>11, <1>12

LEMMA InitOwes ==
  ASSUME RoomForJob, Init
  PROVE  QueueInv /\ Owed = [ch \in Channels |-> <<>>]
<1>1. Typed /\ EngineTyped
  <2>1. Typed
    BY InitKeeps DEF IInv
  <2>2. QED
    BY <2>1, TypedIs
<1>2. main = <<>> /\ handler = <<>> /\ Going = <<>>
  BY DEF Init, Going
<1>3. ASSUME NEW ch \in Channels
      PROVE  /\ curr_blk[ch] = 0 /\ ~dma_running(ch) /\ engine[ch].op = None
             /\ engine[ch].next = None
             /\ \A b \in 0 .. DMA_SCBS - 1 : blocks[ch][b].op = None /\ blocks[ch][b].next = None
  BY DEF Init, dma_running
<1>4. \A ch \in Channels : Wired(ch) /\ Tones(ch)
  BY <1>3 DEF Wired, Tones
<1>5. OnScreen(<<>>)
  BY <1>3 DEF OnScreen, Orderly, InOrder, Channels
<1>6. QueueInv
  BY <1>2, <1>4, <1>5 DEF QueueInv, Engines
<1>7. ASSUME NEW ch \in Channels PROVE Owed[ch] = <<>>
  <2>1. Chain(ch) = <<>>
    BY <1>1, <1>3, <1>4, ChainType
  <2>2. Queue(ch) = <<>>
    BY <1>1, <1>3, <1>4, QueueType
  <2>3. Left(ch) = <<>> \o <<>>
    BY <2>1, <2>2 DEF Left
  <2>4. Owed[ch] = (<<>> \o <<>>) \o <<>>
    BY <1>1, <1>2, <1>6, <2>3, OwedIs, IntendedNone
  <2>5. (<<>> \o <<>>) \o <<>> = <<>>
    OBVIOUS
  <2>6. QED
    BY <2>4, <2>5
<1>8. QED
  BY <1>6, <1>7 DEF Owed

OwedInv == Typed /\ QueueInv

LEMMA PromiseStep ==
  (RoomForJob /\ OwedInv /\ [Next]_vars /\ [\A key \in Keys : Press(key) => AtRest(key)]_vars)
     => (OwedInv' /\ [Promise!Next]_Owed)
<1> SUFFICES ASSUME RoomForJob, OwedInv, [Next]_vars,
                    [\A key \in Keys : Press(key) => AtRest(key)]_vars
             PROVE  OwedInv' /\ [Promise!Next]_Owed
  OBVIOUS
<1>1. Typed /\ Typed' /\ QueueInv
  BY TypedStep DEF OwedInv
<1>2. DOMAIN Owed = Channels /\ DOMAIN Owed' = Channels
      /\ Owed' = [ch \in Channels |-> Owed'[ch]] /\ Owed = [ch \in Channels |-> Owed[ch]]
  BY DEF Owed
<1>3. ASSUME AsksJobs \/ Kept PROVE [Promise!Next]_Owed
  BY <1>2, <1>3 DEF AsksJobs, Kept, Promise!Next, Promise!Ask
<1>4. CASE UNCHANGED vars
  <2>1. UNCHANGED <<blocks, curr_blk, engine, colour, main, handler>>
    BY <1>4 DEF vars
  <2>2. EngineTyped /\ EngineTyped' /\ Engines
    BY <1>1 DEF Typed, TypeOK, EngineTyped, QueueInv
  <2>3. Engines' /\ \A ch \in Channels : Left(ch)' = Left(ch)
    BY <2>1, <2>2, QuietStep
  <2>4. PICK s : s = Going
    OBVIOUS
  <2>5. Going' = s
    BY <2>1, <2>4 DEF Going
  <2>6. OnScreen(s)' \/ Ringing(s)'
    BY <1>1, <2>1, <2>4 DEF QueueInv, OnScreen, AtStep, Ringing, Sounding, dma_running, bell_ringing
  <2>7. QueueInv'
    BY <1>1, <2>1, <2>3, <2>5, <2>6, GoesOnWith DEF QueueInv
  <2>8. ASSUME NEW ch \in Channels PROVE Owed'[ch] = Owed[ch]
    <3>1. Intended(Going, ch)' = Intended(Going, ch)
      BY <2>4, <2>5
    <3>2. Owed[ch] = Left(ch) \o Intended(Going, ch)
      BY <1>1, OwedIs
    <3>3. Owed'[ch] = Left(ch)' \o Intended(Going, ch)'
      BY <1>1, <2>7, OwedIsPrimed
    <3>4. QED
      BY <2>3, <3>1, <3>2, <3>3
  <2>9. QED
    BY <1>1, <1>3, <2>7, <2>8 DEF OwedInv, Kept
<1>5. CASE Main
  <2>1. QueueInv' /\ (Kept \/ AsksJobs)
    BY <1>1, <1>5, LookOwes, TakeOwes, RunOwes DEF Main
  <2>2. QED
    BY <1>1, <1>3, <2>1 DEF OwedInv
<1>6. CASE Handle
  <2>1. QueueInv' /\ Kept
    BY <1>1, <1>6, HandleOwes
  <2>2. QED
    BY <1>1, <1>3, <2>1 DEF OwedInv
<1>7. ASSUME NEW k \in Channels, Load(k) \/ Finish(k)
      PROVE  OwedInv' /\ [Promise!Next]_Owed
  <2>1. /\ QueueInv' /\ \A ch \in Channels : ch # k => Owed'[ch] = Owed[ch]
        /\ Load(k) => Owed'[k] = Owed[k]
        /\ Finish(k) => Owed[k] # <<>> /\ Owed'[k] = Tail(Owed[k])
    BY <1>1, <1>7, EngineKeeps
  <2>2. CASE Load(k)
    <3>1. Kept
      BY <2>1, <2>2 DEF Kept
    <3>2. QED
      BY <1>1, <1>3, <2>1, <3>1 DEF OwedInv
  <2>3. CASE Finish(k)
    <3>1. Owed' = [Owed EXCEPT ![k] = Tail(@)]
      BY <1>2, <2>1, <2>3
    <3>2. Promise!Done(k)
      BY <2>1, <2>3, <3>1 DEF Promise!Done
    <3>3. QED
      BY <1>1, <2>1, <3>2 DEF OwedInv, Promise!Next
  <2>4. QED
    BY <1>7, <2>2, <2>3
<1>8. ASSUME NEW key \in Keys, Press(key), ~UNCHANGED vars PROVE OwedInv' /\ [Promise!Next]_Owed
  <2>1. QueueInv' /\ AsksJobs
    BY <1>1, <1>8, PressOwes
  <2>2. QED
    BY <1>1, <1>3, <2>1 DEF OwedInv
<1>9. QED
  BY <1>4, <1>5, <1>6, <1>7, <1>8 DEF Next

(* dma.c keeps its promise to the terminal and to the bell: whatever one of *)
(* them intends is done once, in order, with the colour it was given, in a  *)
(* run in which every key comes while the main loop has no step of a script *)
(* to do, and F10 and F12 only while channel 0 is idle as well.  Nothing in *)
(* the code keeps keys to these moments: the condition is on the run, and   *)
(* the promise may be broken from the first key on that comes at another.   *)
THEOREM QueuesKeepPromise ==
  ASSUME RoomForJob
  PROVE  Spec /\ [][\A key \in Keys : Press(key) => AtRest(key)]_vars => ImplementsQueue
<1>1. Init => OwedInv /\ Promise!Init
  BY InitKeeps, InitOwes DEF OwedInv, IInv, Promise!Init
<1>2. OwedInv /\ [Next]_vars /\ [\A key \in Keys : Press(key) => AtRest(key)]_vars
        => OwedInv' /\ [Promise!Next]_Owed
  BY PromiseStep
<1>3. QED
  BY <1>1, <1>2, PTL DEF Spec, ImplementsQueue, Promise!Spec

-----------------------------------------------------------------------------
(* The bell's channels alone.  No handler touches them, so that no          *)
(* condition on the keys is needed.                                         *)
Tuned == {1, 2}

ToneOwed == [ch \in Tuned |-> Owed[ch]]

Tune == INSTANCE TransferQueue
          WITH Channels <- Tuned, Jobs <- {<<Tone("tx")>>, <<Tone("rx")>>}, owed <- ToneOwed

(* A script that asks nothing of the bell's channels. *)
Silent(s) == Orderly(s) /\ \A ch \in Tuned : Intended(s, ch) = <<>>

AtBell(s) == (Silent(s) /\ curr_blk[1] = 0 /\ curr_blk[2] = 0) \/ Sounding(s)

Tuneful == \A ch \in Tuned : Wired(ch) /\ Tones(ch)

TonesInv == Typed /\ Silent(handler) /\ AtBell(main) /\ Tuneful

LEMMA TunedAre ==
  /\ \A ch \in Tuned : ch \in Channels /\ ch # 0 /\ ch # None
  /\ 1 \in Tuned /\ 2 \in Tuned
  /\ bell_ringing <=> dma_running(1) \/ dma_running(2)
BY NoneAssumption DEF Tuned, Channels, bell_ringing, SPI0_TX_DMA_CHANNEL, SPI0_RX_DMA_CHANNEL

LEMMA RingingPrimed == bell_ringing' <=> dma_running(1)' \/ dma_running(2)'
BY DEF bell_ringing, SPI0_TX_DMA_CHANNEL, SPI0_RX_DMA_CHANNEL

LEMMA SilentNone == Silent(<<>>)
BY IntendedNone DEF Silent, Orderly, InOrder

LEMMA SilentPart ==
  ASSUME NEW t, NEW first, NEW last, NEW asks, Part(t, first, last, asks), last.kind # "enqueue"
  PROVE  Silent(t)
<1>1. Orderly(t)
  BY DEF Orderly, Part
<1>2. \A ch \in Tuned : ch \in Channels \ {0}
  BY TunedAre
<1>3. QED
  BY <1>1, <1>2 DEF Silent, Part

LEMMA SilentRest ==
  ASSUME NEW s, Silent(s), s # <<>>
  PROVE  /\ Silent(Tail(s)) /\ Head(s) \in Steps /\ Head(s).ch \in {0, None}
         /\ Head(s).kind = "bell" => Tail(s) = <<>>
<1>1. /\ s \in Seq(Steps) /\ Orderly(Tail(s)) /\ Head(s) \in Steps /\ Head(s).ch \in {0, None}
      /\ Tail(s) # <<>> => Tail(s)[1] \in Steps /\ Follows(Head(s), Tail(s)[1])
  BY OrderlyRest DEF Silent, Orderly
<1>2. ASSUME NEW ch \in Tuned PROVE Intended(Tail(s), ch) = <<>>
  <2>1. Asked(Head(s), ch) = <<>>
    BY <1>1, TunedAre DEF Asked
  <2>2. Intended(s, ch) = Asked(Head(s), ch) \o Intended(Tail(s), ch)
    BY <1>1, IntendedRest
  <2>3. Intended(Tail(s), ch) \in Seq(Transfers)
    BY <1>1, IntendedType DEF Orderly
  <2>4. <<>> \o Intended(Tail(s), ch) = Intended(Tail(s), ch)
    BY <2>3, ConcatEmptySeq
  <2>5. QED
    BY <2>1, <2>2, <2>4 DEF Silent
<1>3. Head(s).kind = "bell" => Tail(s) = <<>>
  BY <1>1, NextKinds
<1>4. QED
  BY <1>1, <1>2, <1>3 DEF Silent

(* What leaves a channel alone leaves what it owes, whatever the colours.   *)
LEMMA TunedKept ==
  ASSUME RoomForJob, EngineTyped, EngineTyped', NEW ch \in Tuned, Wired(ch), Tones(ch),
         blocks'[ch] = blocks[ch], engine'[ch] = engine[ch], curr_blk'[ch] = curr_blk[ch]
  PROVE  /\ Wired(ch)' /\ Tones(ch)' /\ Left(ch)' = Left(ch)
         /\ dma_running(ch)' = dma_running(ch)
<1>1. ch \in Channels
  BY TunedAre
<1>2. Wired(ch)' /\ Tones(ch)' /\ Chain(ch)' = Chain(ch) /\ Queue(ch)' = Queue(ch)
  BY <1>1, StillOwes
<1>3. QED
  BY <1>2 DEF Left, dma_running

LEMMA AllKept ==
  ASSUME RoomForJob, EngineTyped, EngineTyped', Tuneful,
         \A ch \in Tuned : /\ blocks'[ch] = blocks[ch] /\ engine'[ch] = engine[ch]
                           /\ curr_blk'[ch] = curr_blk[ch]
  PROVE  /\ Tuneful'
         /\ \A ch \in Tuned : Left(ch)' = Left(ch) /\ dma_running(ch)' = dma_running(ch)
BY TunedKept DEF Tuneful

LEMMA ScreenSteps ==
  ASSUME EngineTyped, NEW x \in Steps, x.kind # "bell", x.ch \in {0, None}, Do(x),
         NEW ch \in Tuned
  PROVE  blocks'[ch] = blocks[ch] /\ engine'[ch] = engine[ch] /\ curr_blk'[ch] = curr_blk[ch]
<1>1. ch \in Channels /\ ch # 0 /\ None \notin Channels
  BY TunedAre, NoneAssumption DEF Channels
<1>2. CASE x.kind \in {"wait", "draw"}
  BY <1>2 DEF Do
<1>3. CASE x.kind = "enqueue"
  <2>1. dma_enqueue_operation(0, x.op)
    BY <1>1, <1>3 DEF Do, Steps
  <2>2. QED
    BY <1>1, <2>1 DEF dma_enqueue_operation, EngineTyped
<1>4. CASE x.kind = "execute"
  <2>1. dma_execute_queue(0)
    BY <1>1, <1>4 DEF Do, Steps
  <2>2. QED
    BY <1>1, <2>1 DEF dma_execute_queue, EngineTyped
<1>5. QED
  BY <1>2, <1>3, <1>4 DEF Steps, Kinds

(* A script keeps its place while the channels do not start. *)
LEMMA AtBellKept ==
  ASSUME NEW s, AtBell(s),
         \A ch \in Tuned : /\ curr_blk'[ch] = curr_blk[ch]
                           /\ ~dma_running(ch) => ~dma_running(ch)'
  PROVE  AtBell(s)'
<1>1. /\ curr_blk'[1] = curr_blk[1] /\ curr_blk'[2] = curr_blk[2]
      /\ ~dma_running(2) => ~dma_running(2)'
      /\ ~bell_ringing => ~bell_ringing'
  BY TunedAre, RingingPrimed
<1>2. QED
  BY <1>1 DEF AtBell, Silent, Sounding

LEMMA BellWith ==
  ASSUME NEW t, main' = t, AtBell(t)'
  PROVE  AtBell(main)'
<1>1. ASSUME Silent(t) PROVE Silent(main)'
  BY <1>1 DEF Silent, Orderly, InOrder
<1>2. ASSUME Sounding(t)' PROVE Sounding(main)'
  BY <1>2 DEF Sounding
<1>3. QED
  BY <1>1, <1>2 DEF AtBell, Silent

LEMMA HandlerWith ==
  ASSUME NEW t, handler' = t, Silent(t)
  PROVE  Silent(handler)'
BY DEF Silent, Orderly, InOrder

(* The steps of a bell. *)
Hummed(x) == \A ch \in Tuned : Left(ch)' = Left(ch) \o Asked(x, ch)

LEMMA TuneEnqueue ==
  ASSUME RoomForJob, EngineTyped, EngineTyped', Tuneful, NEW k \in Tuned,
         NEW op \in {Tone("tx"), Tone("rx")}, NEW x, x = Enqueue(k, op), Do(x),
         ~dma_running(k), curr_blk[k] = 0
  PROVE  /\ Tuneful' /\ Hummed(x) /\ curr_blk'[k] = 1 /\ ~dma_running(k)'
         /\ \A ch \in Tuned \ {k} : /\ curr_blk'[ch] = curr_blk[ch]
                                    /\ dma_running(ch)' = dma_running(ch)
<1>1. /\ k \in Channels /\ op \in Transfers /\ Wired(k) /\ Tones(k)
      /\ x.kind = "enqueue" /\ x.ch = k /\ x.op = op
  BY TunedAre, TonesWordless DEF Tuneful, Enqueue
<1>2. dma_enqueue_operation(k, op)
  BY <1>1 DEF Do
<1>3. Wired(k)' /\ ~dma_running(k)' /\ curr_blk'[k] = 1 /\ Tones(k)'
  BY <1>1, <1>2, EnqueueWired
<1>4. Chain(k)' \o Queue(k)' = Chain(k) \o (Queue(k) \o <<op>>)
  <2>1. \A b \in 0 .. curr_blk[k] - 1 :
          blocks[k][b].op.word = None \/ blocks[k][b].op.word # op.word
    OBVIOUS
  <2>2. QED
    BY <1>1, <1>2, <2>1, EnqueueOwes
<1>5. Chain(k) \in Seq(Transfers) /\ Queue(k) \in Seq(Transfers) /\ <<op>> \in Seq(Transfers)
  BY <1>1, ChainType, QueueType
<1>6. Chain(k) \o (Queue(k) \o <<op>>) = (Chain(k) \o Queue(k)) \o <<op>>
  BY <1>5, ConcatAssociative
<1>7. Left(k)' = Left(k) \o Asked(x, k)
  BY <1>1, <1>4, <1>6 DEF Left, Asked
<1>8. ASSUME NEW ch \in Tuned, ch # k
      PROVE  /\ Wired(ch)' /\ Tones(ch)' /\ Left(ch)' = Left(ch) \o Asked(x, ch)
             /\ curr_blk'[ch] = curr_blk[ch] /\ dma_running(ch)' = dma_running(ch)
  <2>1. blocks'[ch] = blocks[ch] /\ engine'[ch] = engine[ch] /\ curr_blk'[ch] = curr_blk[ch]
    BY <1>2, <1>8, TunedAre DEF dma_enqueue_operation, EngineTyped
  <2>2. Wired(ch)' /\ Tones(ch)' /\ Left(ch)' = Left(ch) /\ dma_running(ch)' = dma_running(ch)
    BY <2>1, TunedKept DEF Tuneful
  <2>3. Asked(x, ch) = <<>>
    BY <1>1, <1>8 DEF Asked
  <2>4. Left(ch) \in Seq(Transfers)
    <3>1. Chain(ch) \in Seq(Transfers) /\ Queue(ch) \in Seq(Transfers)
      BY TunedAre, ChainType, QueueType DEF Tuneful
    <3>2. QED
      BY <3>1 DEF Left
  <2>5. Left(ch) \o <<>> = Left(ch)
    BY <2>4, ConcatEmptySeq
  <2>6. QED
    BY <2>1, <2>2, <2>3, <2>5
<1>9. QED
  BY <1>3, <1>7, <1>8 DEF Tuneful, Hummed

LEMMA TuneExecute ==
  ASSUME RoomForJob, EngineTyped, EngineTyped', Tuneful, NEW k \in Tuned,
         NEW x, x = Execute(k), Do(x), ~dma_running(k), curr_blk[k] = 1
  PROVE  /\ Tuneful' /\ Hummed(x) /\ curr_blk'[k] = 0
         /\ \A ch \in Tuned \ {k} : /\ curr_blk'[ch] = curr_blk[ch]
                                    /\ dma_running(ch)' = dma_running(ch)
<1>1. k \in Channels /\ Wired(k) /\ Tones(k) /\ x.kind = "execute" /\ x.ch = k
  BY TunedAre DEF Tuneful, Execute
<1>2. dma_execute_queue(k)
  BY <1>1 DEF Do
<1>3. /\ Wired(k)' /\ Tones(k)' /\ Left(k)' = Left(k) /\ curr_blk'[k] = 0
  <2>1. Wired(k)' /\ Tones(k)' /\ Chain(k)' \o Queue(k)' = Chain(k) \o Queue(k)
    BY <1>1, <1>2, ExecuteOwes
  <2>2. curr_blk'[k] = 0
    BY <1>1, <1>2 DEF dma_execute_queue, EngineTyped
  <2>3. QED
    BY <2>1, <2>2 DEF Left
<1>4. ASSUME NEW ch \in Tuned, ch # k
      PROVE  /\ Wired(ch)' /\ Tones(ch)' /\ Left(ch)' = Left(ch)
             /\ curr_blk'[ch] = curr_blk[ch] /\ dma_running(ch)' = dma_running(ch)
  <2>1. blocks'[ch] = blocks[ch] /\ engine'[ch] = engine[ch] /\ curr_blk'[ch] = curr_blk[ch]
    BY <1>2, <1>4, TunedAre DEF dma_execute_queue, EngineTyped
  <2>2. QED
    BY <2>1, TunedKept DEF Tuneful
<1>5. ASSUME NEW ch \in Tuned PROVE Left(ch)' = Left(ch) \o Asked(x, ch)
  <2>1. Asked(x, ch) = <<>>
    BY <1>1 DEF Asked
  <2>2. Chain(ch) \in Seq(Transfers) /\ Queue(ch) \in Seq(Transfers)
    BY TunedAre, ChainType, QueueType DEF Tuneful
  <2>3. Left(ch) \o <<>> = Left(ch)
    BY <2>2, ConcatEmptySeq, ConcatProperties DEF Left
  <2>4. QED
    BY <1>3, <1>4, <2>1, <2>3
<1>6. QED
  BY <1>3, <1>4, <1>5 DEF Tuneful, Hummed

LEMMA BellStep ==
  ASSUME RoomForJob, EngineTyped, EngineTyped', Tuneful, NEW s, Sounding(s), Do(Head(s))
  PROVE  s # <<>> /\ Tuneful' /\ Hummed(Head(s)) /\ AtBell(Tail(s))'
<1>1. /\ Tone("tx") \in {Tone("tx"), Tone("rx")} /\ Tone("rx") \in {Tone("tx"), Tone("rx")}
      /\ 2 \in Tuned \ {1} /\ 1 \in Tuned \ {2}
  BY DEF Tuned
<1>2. CASE s = RingScript /\ ~bell_ringing /\ curr_blk[1] = 0 /\ curr_blk[2] = 0
  <2>1. Head(s) = Enqueue(1, Tone("tx")) /\ ~dma_running(1) /\ ~dma_running(2)
    BY <1>2, RingSteps, TunedAre
  <2>2. /\ Tuneful' /\ Hummed(Head(s)) /\ curr_blk'[1] = 1 /\ ~dma_running(1)'
        /\ curr_blk'[2] = 0 /\ ~dma_running(2)'
    BY <1>1, <1>2, <2>1, TunedAre, TuneEnqueue
  <2>3. Sounding(Tail(s))'
    BY <1>2, <2>2, RingingPrimed DEF Sounding
  <2>4. QED
    BY <1>2, <2>2, <2>3, RingSteps DEF AtBell
<1>3. CASE s = Tail(RingScript) /\ ~bell_ringing /\ curr_blk[1] = 1 /\ curr_blk[2] = 0
  <2>1. Head(s) = Enqueue(2, Tone("rx")) /\ ~dma_running(1) /\ ~dma_running(2)
    BY <1>3, RingSteps, TunedAre
  <2>2. /\ Tuneful' /\ Hummed(Head(s)) /\ curr_blk'[2] = 1 /\ ~dma_running(2)'
        /\ curr_blk'[1] = 1 /\ ~dma_running(1)'
    BY <1>1, <1>3, <2>1, TunedAre, TuneEnqueue
  <2>3. Sounding(Tail(s))'
    BY <1>3, <2>2, RingingPrimed DEF Sounding
  <2>4. QED
    BY <1>3, <2>2, <2>3, RingSteps DEF AtBell
<1>4. CASE s = Tail(Tail(RingScript)) /\ ~bell_ringing /\ curr_blk[1] = 1 /\ curr_blk[2] = 1
  <2>1. Head(s) = Execute(1) /\ ~dma_running(1) /\ ~dma_running(2)
    BY <1>4, RingSteps, TunedAre
  <2>2. /\ Tuneful' /\ Hummed(Head(s)) /\ curr_blk'[1] = 0
        /\ curr_blk'[2] = 1 /\ ~dma_running(2)'
    BY <1>1, <1>4, <2>1, TunedAre, TuneExecute
  <2>3. Sounding(Tail(s))'
    BY <1>4, <2>2, RingSteps DEF Sounding
  <2>4. QED
    BY <1>4, <2>2, <2>3, RingSteps DEF AtBell
<1>5. CASE s = <<Execute(2)>> /\ ~dma_running(2) /\ curr_blk[1] = 0 /\ curr_blk[2] = 1
  <2>1. Head(s) = Execute(2) /\ Tail(s) = <<>> /\ s # <<>>
    BY <1>5, RingSteps
  <2>2. Tuneful' /\ Hummed(Head(s)) /\ curr_blk'[2] = 0 /\ curr_blk'[1] = 0
    BY <1>1, <1>5, <2>1, TunedAre, TuneExecute
  <2>3. AtBell(<<>>)'
    BY <2>2, SilentNone DEF AtBell, Silent
  <2>4. QED
    BY <2>1, <2>2, <2>3
<1>6. QED
  BY <1>2, <1>3, <1>4, <1>5 DEF Sounding

LEMMA ToneOwedIs ==
  (RoomForJob /\ TonesInv) =>
    \A ch \in Tuned :
      /\ Owed[ch] = Left(ch) \o Intended(main, ch)
      /\ Left(ch) \in Seq(Transfers) /\ Intended(main, ch) \in Seq(Transfers)
<1> SUFFICES ASSUME RoomForJob, TonesInv, NEW ch \in Tuned
             PROVE  /\ Owed[ch] = Left(ch) \o Intended(main, ch)
                    /\ Left(ch) \in Seq(Transfers) /\ Intended(main, ch) \in Seq(Transfers)
  OBVIOUS
<1>1. EngineTyped /\ main \in Seq(Steps) /\ ch \in Channels
  BY TypedIs, TunedAre DEF TonesInv
<1>2. Chain(ch) \in Seq(Transfers) /\ Queue(ch) \in Seq(Transfers)
  BY <1>1, ChainType, QueueType DEF TonesInv, Tuneful
<1>3. Left(ch) \in Seq(Transfers)
  BY <1>2 DEF Left
<1>4. Owed[ch] = (Left(ch) \o Intended(handler, ch)) \o Intended(main, ch)
  BY <1>1 DEF Owed, Left
<1>5. Intended(handler, ch) = <<>>
  BY DEF TonesInv, Silent
<1>6. Left(ch) \o <<>> = Left(ch)
  BY <1>3, ConcatEmptySeq
<1>7. Intended(main, ch) \in Seq(Transfers)
  BY <1>1, IntendedType
<1>8. QED
  BY <1>3, <1>4, <1>5, <1>6, <1>7

LEMMA ToneOwedIsPrimed ==
  ((RoomForJob /\ TonesInv) =>
    \A ch \in Tuned :
      /\ Owed[ch] = Left(ch) \o Intended(main, ch)
      /\ Left(ch) \in Seq(Transfers) /\ Intended(main, ch) \in Seq(Transfers))'
BY ToneOwedIs, PTL

(* Steps that change neither what the channels have nor what is intended.   *)
TonesKept == \A ch \in Tuned : Owed'[ch] = Owed[ch]

LEMMA NothingAsked ==
  ASSUME RoomForJob, TonesInv, TonesInv', \A ch \in Tuned : Left(ch)' = Left(ch),
         \A ch \in Tuned : Intended(main, ch)' = Intended(main, ch)
  PROVE  TonesKept
BY ToneOwedIs, ToneOwedIsPrimed DEF TonesKept

LEMMA HandleTones ==
  ASSUME RoomForJob, TonesInv, Typed', Handle
  PROVE  TonesInv' /\ TonesKept
<1>1. /\ Silent(Tail(handler)) /\ Head(handler) \in Steps /\ Head(handler).ch \in {0, None}
      /\ Head(handler).kind # "bell"
  BY SilentRest, TypedIs, Rest DEF Handle, TonesInv
<1>2. EngineTyped /\ EngineTyped'
  BY DEF TonesInv, Typed, TypeOK, EngineTyped
<1>3. \A ch \in Tuned : /\ blocks'[ch] = blocks[ch] /\ engine'[ch] = engine[ch]
                        /\ curr_blk'[ch] = curr_blk[ch]
  BY <1>1, <1>2, ScreenSteps DEF Handle
<1>4. /\ Tuneful'
      /\ \A ch \in Tuned : Left(ch)' = Left(ch) /\ dma_running(ch)' = dma_running(ch)
  BY <1>2, <1>3, AllKept DEF TonesInv
<1>5. PICK s, t : s = main /\ t = Tail(handler)
  OBVIOUS
<1>6. main' = s /\ handler' = t /\ Silent(t)
  BY <1>1, <1>5 DEF Handle
<1>7. AtBell(main)'
  BY <1>3, <1>4, <1>5, <1>6, AtBellKept, BellWith DEF TonesInv
<1>8. TonesInv'
  BY <1>4, <1>6, <1>7, HandlerWith DEF TonesInv
<1>9. QED
  BY <1>4, <1>5, <1>6, <1>8, NothingAsked

LEMMA PressTones ==
  ASSUME RoomForJob, TonesInv, Typed', NEW key \in Keys, Press(key)
  PROVE  TonesInv' /\ TonesKept
<1>1. UNCHANGED <<blocks, curr_blk, engine, colour, main>>
  BY DEF Press
<1>2. EngineTyped /\ EngineTyped'
  BY DEF TonesInv, Typed, TypeOK, EngineTyped
<1>3. /\ Tuneful'
      /\ \A ch \in Tuned : Left(ch)' = Left(ch) /\ dma_running(ch)' = dma_running(ch)
  BY <1>1, <1>2, AllKept DEF TonesInv
<1>4. PICK c \in Colours, d \in Colours : handler' \in Scripts(key, c, d)
  BY DEF Press
<1>5. PICK s, t : s = main /\ t = handler' /\ t \in Scripts(key, c, d)
  BY <1>4
<1>6. Silent(t)
  BY <1>5, KeyPart, SilentPart
<1>7. AtBell(main)'
  BY <1>1, <1>3, <1>5, AtBellKept, BellWith DEF TonesInv
<1>8. TonesInv'
  BY <1>3, <1>5, <1>6, <1>7, HandlerWith DEF TonesInv
<1>9. QED
  BY <1>1, <1>3, <1>8, NothingAsked

(* A new script of the main loop asks nothing of the bell's channels. *)
LEMMA ScriptTones ==
  ASSUME RoomForJob, TonesInv, Typed', main = <<>>, NEW t, main' = t, Silent(t),
         UNCHANGED <<blocks, curr_blk, engine, colour, handler>>
  PROVE  TonesInv' /\ TonesKept
<1>1. EngineTyped /\ EngineTyped'
  BY DEF TonesInv, Typed, TypeOK, EngineTyped
<1>2. Tuneful' /\ \A ch \in Tuned : Left(ch)' = Left(ch)
  BY <1>1, AllKept DEF TonesInv
<1>3. curr_blk[1] = 0 /\ curr_blk[2] = 0
  <2>1. ~Sounding(main)
    BY RingSteps DEF Sounding
  <2>2. QED
    BY <2>1 DEF TonesInv, AtBell
<1>4. AtBell(t)'
  BY <1>3 DEF AtBell, Silent
<1>5. Silent(handler)'
  BY HandlerWith DEF TonesInv
<1>6. TonesInv'
  BY <1>2, <1>4, <1>5, BellWith DEF TonesInv
<1>7. ASSUME NEW ch \in Tuned PROVE Intended(main, ch)' = Intended(main, ch)
  <2>1. Intended(main, ch) = <<>> /\ Intended(t, ch) = <<>>
    BY IntendedNone DEF Silent
  <2>2. Intended(main, ch)' = Intended(t, ch)
    OBVIOUS
  <2>3. QED
    BY <2>1, <2>2
<1>8. QED
  BY <1>2, <1>6, <1>7, NothingAsked

LEMMA LoopTones ==
  ASSUME RoomForJob, TonesInv, Typed', Look \/ Take
  PROVE  TonesInv' /\ TonesKept
<1>1. /\ main = <<>> /\ UNCHANGED <<blocks, curr_blk, engine, colour, handler>>
      /\ \/ main' \in {<<>>, <<Wait, Step("bell")>>}
         \/ \E b \in Bytes, c \in Colours, d \in Colours : main' = Putchar(b, c, d)
  BY DEF Look, Take
<1>2. PICK t : t = main'
  OBVIOUS
<1>3. CASE t = <<>>
  BY <1>1, <1>2, <1>3, SilentNone, ScriptTones
<1>4. CASE t = <<Wait, Step("bell")>>
  <2>1. Silent(<<Wait, Step("bell")>>)
    BY RememberedPart, SilentPart, StepTypes
  <2>2. QED
    BY <1>1, <1>2, <1>4, <2>1, ScriptTones
<1>5. CASE \E b \in Bytes, c \in Colours, d \in Colours : t = Putchar(b, c, d)
  <2>1. PICK b \in Bytes, c \in Colours, d \in Colours : t = Putchar(b, c, d)
    BY <1>5
  <2>2. b \in Requests
    BY DmaAssumption
  <2>3. Silent(t)
    BY <2>1, <2>2, PutcharPart, SilentPart
  <2>4. QED
    BY <1>1, <1>2, <2>3, ScriptTones
<1>6. QED
  BY <1>1, <1>2, <1>3, <1>4, <1>5

AsksTones ==
  \A ch \in Tuned : \/ Owed'[ch] = Owed[ch]
                    \/ \E job \in {<<Tone("tx")>>, <<Tone("rx")>>} : Owed'[ch] = Owed[ch] \o job

LEMMA RunTones ==
  ASSUME RoomForJob, TonesInv, Typed', Run
  PROVE  TonesInv' /\ AsksTones
<1>1. PICK s : s = main
  OBVIOUS
<1>2. /\ s # <<>> /\ s \in Seq(Steps) /\ AtBell(s) /\ handler' = handler
      /\ Silent(handler)' /\ EngineTyped /\ EngineTyped'
  <2>1. EngineTyped /\ EngineTyped' /\ main \in Seq(Steps)
    BY TypedIs DEF TonesInv, Typed, TypeOK, EngineTyped
  <2>2. QED
    BY <1>1, <2>1, HandlerWith DEF Run, TonesInv
<1>3. CASE Head(s).kind = "bell"
  <2>1. Silent(s) /\ curr_blk[1] = 0 /\ curr_blk[2] = 0
    <3>1. ~Sounding(s)
      <4>1. /\ Enqueue(1, Tone("tx")).kind # "bell" /\ Enqueue(2, Tone("rx")).kind # "bell"
            /\ Execute(1).kind # "bell" /\ Execute(2).kind # "bell"
        BY DEF Enqueue, Execute
      <4>2. QED
        BY <1>3, <4>1, RingSteps DEF Sounding
    <3>2. QED
      BY <1>2, <3>1 DEF AtBell
  <2>2. Tail(s) = <<>> /\ bell(<<>>)
    BY <1>1, <1>2, <1>3, <2>1, SilentRest DEF Run
  <2>3. /\ UNCHANGED <<blocks, curr_blk, engine, colour>>
        /\ main' = IF bell_ringing THEN <<>> ELSE RingScript
    <3>1. RingScript \o <<>> = RingScript
      BY RingScriptIs, ConcatEmptySeq DEF Script
    <3>2. QED
      BY <2>2, <3>1 DEF bell
  <2>4. Tuneful' /\ \A ch \in Tuned : Left(ch)' = Left(ch)
    BY <1>2, <2>3, AllKept DEF TonesInv
  <2>5. AtBell(main)'
    <3>1. CASE bell_ringing
      <4>1. AtBell(<<>>)'
        BY <2>1, <2>3, SilentNone DEF AtBell, Silent
      <4>2. QED
        BY <2>3, <3>1, <4>1, BellWith
    <3>2. CASE ~bell_ringing
      <4>1. ~bell_ringing'
        BY <2>3, <3>2 DEF bell_ringing, dma_running
      <4>2. Sounding(RingScript)'
        BY <2>1, <2>3, <4>1 DEF Sounding
      <4>3. AtBell(RingScript)'
        BY <4>2 DEF AtBell
      <4>4. QED
        BY <2>3, <3>2, <4>3, BellWith
    <3>3. QED
      BY <3>1, <3>2
  <2>6. TonesInv'
    BY <1>2, <2>4, <2>5 DEF TonesInv
  <2>7. ASSUME NEW ch \in Tuned
        PROVE  \/ Owed'[ch] = Owed[ch]
               \/ \E job \in {<<Tone("tx")>>, <<Tone("rx")>>} : Owed'[ch] = Owed[ch] \o job
    <3>1. /\ Owed[ch] = Left(ch) \o Intended(main, ch) /\ Left(ch) \in Seq(Transfers)
          /\ Owed'[ch] = Left(ch)' \o Intended(main, ch)'
      BY <2>6, ToneOwedIs, ToneOwedIsPrimed
    <3>2. Intended(main, ch) = <<>>
      BY <1>1, <2>1 DEF Silent
    <3>3. Left(ch) \o <<>> = Left(ch)
      BY <3>1, ConcatEmptySeq
    <3>4. CASE bell_ringing
      <4>1. Intended(main, ch)' = Intended(<<>>, ch)
        BY <2>3, <3>4
      <4>2. QED
        BY <2>4, <3>1, <3>2, <4>1, IntendedNone
    <3>5. CASE ~bell_ringing
      <4>1. Intended(main, ch)' = Intended(RingScript, ch)
        BY <2>3, <3>5
      <4>2. Intended(RingScript, ch) \in {<<Tone("tx")>>, <<Tone("rx")>>}
        BY TunedAre, RingAsks DEF Tuned
      <4>3. QED
        BY <2>4, <3>1, <3>2, <3>3, <4>1, <4>2
    <3>6. QED
      BY <3>4, <3>5
  <2>8. QED
    BY <2>6, <2>7 DEF AsksTones
<1>4. CASE Head(s).kind # "bell"
  <2>1. Do(Head(s)) /\ main' = Tail(s)
    BY <1>1, <1>4 DEF Run
  <2>2. Tuneful' /\ Hummed(Head(s)) /\ AtBell(Tail(s))'
    <3>1. CASE Sounding(s)
      BY <1>2, <2>1, <3>1, BellStep DEF TonesInv
    <3>2. CASE ~Sounding(s)
      <4>1. Silent(s) /\ curr_blk[1] = 0 /\ curr_blk[2] = 0
        BY <1>2, <3>2 DEF AtBell
      <4>2. Silent(Tail(s)) /\ Head(s) \in Steps /\ Head(s).ch \in {0, None}
        BY <1>2, <4>1, SilentRest
      <4>3. \A ch \in Tuned : /\ blocks'[ch] = blocks[ch] /\ engine'[ch] = engine[ch]
                              /\ curr_blk'[ch] = curr_blk[ch]
        BY <1>2, <1>4, <2>1, <4>2, ScreenSteps
      <4>4. Tuneful' /\ \A ch \in Tuned : Left(ch)' = Left(ch)
        BY <1>2, <4>3, AllKept DEF TonesInv
      <4>5. ASSUME NEW ch \in Tuned PROVE Left(ch)' = Left(ch) \o Asked(Head(s), ch)
        <5>1. Asked(Head(s), ch) = <<>>
          BY <4>2, TunedAre DEF Asked
        <5>2. Left(ch) \o <<>> = Left(ch)
          BY ToneOwedIs, ConcatEmptySeq
        <5>3. QED
          BY <4>4, <5>1, <5>2
      <4>6. AtBell(Tail(s))'
        BY <4>1, <4>2, <4>3, TunedAre DEF AtBell, Silent
      <4>7. QED
        BY <4>4, <4>5, <4>6 DEF Hummed
    <3>3. QED
      BY <3>1, <3>2
  <2>3. PICK t : t = Tail(s)
    OBVIOUS
  <2>4. AtBell(t)' /\ main' = t
    BY <2>1, <2>2, <2>3 DEF AtBell, Silent, Sounding
  <2>5. TonesInv'
    BY <1>2, <2>2, <2>4, BellWith DEF TonesInv
  <2>6. ASSUME NEW ch \in Tuned PROVE Owed'[ch] = Owed[ch]
    <3> DEFINE a == Asked(Head(s), ch)
               r == Intended(Tail(s), ch)
               l == Left(ch)
    <3>1. Head(s) \in Steps /\ Tail(s) \in Seq(Steps)
      BY <1>2, Rest
    <3>2. a \in Seq(Transfers) /\ r \in Seq(Transfers) /\ Intended(s, ch) = a \o r
      BY <1>2, <3>1, AskedType, IntendedType, IntendedRest
    <3>3. Owed[ch] = l \o Intended(s, ch) /\ l \in Seq(Transfers)
      BY <1>1, ToneOwedIs
    <3>4. Owed'[ch] = Left(ch)' \o r
      <4>1. Owed'[ch] = Left(ch)' \o Intended(main, ch)'
        BY <2>5, ToneOwedIsPrimed
      <4>2. Intended(main, ch)' = r
        BY <2>1
      <4>3. QED
        BY <4>1, <4>2
    <3>5. Left(ch)' = l \o a
      BY <2>2 DEF Hummed
    <3> HIDE DEF a, r, l
    <3>6. (l \o a) \o r = l \o (a \o r)
      BY <3>2, <3>3, ConcatAssociative, SMTT(60)
    <3>7. QED
      BY <3>2, <3>3, <3>4, <3>5, <3>6
  <2>7. QED
    BY <2>5, <2>6 DEF AsksTones
<1>5. QED
  BY <1>3, <1>4

LEMMA EngineTones ==
  ASSUME RoomForJob, TonesInv, Typed', NEW k \in Channels, Load(k) \/ Finish(k)
  PROVE  /\ TonesInv' /\ \A ch \in Tuned \ {k} : Owed'[ch] = Owed[ch]
         /\ k \in Tuned /\ Load(k) => Owed'[k] = Owed[k]
         /\ k \in Tuned /\ Finish(k) => Owed[k] # <<>> /\ Owed'[k] = Tail(Owed[k])
<1>1. EngineTyped /\ EngineTyped' /\ Tuneful
  BY DEF TonesInv, Typed, TypeOK, EngineTyped
<1>2. /\ UNCHANGED <<blocks, curr_blk, colour, main, handler>> /\ dma_running(k)
      /\ \A ch \in Channels : ch # k => engine'[ch] = engine[ch]
  BY <1>1 DEF Load, Finish, EngineTyped, dma_running
<1>3. ASSUME NEW ch \in Tuned, ch # k
      PROVE  Wired(ch)' /\ Tones(ch)' /\ Left(ch)' = Left(ch)
  <2>1. blocks'[ch] = blocks[ch] /\ engine'[ch] = engine[ch] /\ curr_blk'[ch] = curr_blk[ch]
    BY <1>2, <1>3, TunedAre
  <2>2. QED
    BY <1>1, <2>1, TunedKept DEF Tuneful
<1>4. ASSUME k \in Tuned, Load(k)
      PROVE  Wired(k)' /\ Tones(k)' /\ Left(k)' = Left(k)
  BY <1>1, <1>4, LoadOwes DEF Tuneful, Left
<1>5. ASSUME k \in Tuned, Finish(k)
      PROVE  Wired(k)' /\ Tones(k)' /\ \E op \in Transfers : Left(k) = <<op>> \o Left(k)'
  <2>1. /\ Wired(k)' /\ Tones(k)'
        /\ \E op \in Transfers : Chain(k) = <<op>> \o Chain(k)'
        /\ Chain(k)' \in Seq(Transfers) /\ Queue(k)' = Queue(k)
    BY <1>1, <1>5, FinishOwes DEF Tuneful
  <2>2. PICK op \in Transfers : Chain(k) = <<op>> \o Chain(k)'
    BY <2>1
  <2>3. Queue(k) \in Seq(Transfers) /\ <<op>> \in Seq(Transfers)
    BY <1>1, <1>5, QueueType DEF Tuneful
  <2>4. (<<op>> \o Chain(k)') \o Queue(k) = <<op>> \o (Chain(k)' \o Queue(k))
    BY <2>1, <2>3, ConcatAssociative
  <2>5. QED
    BY <2>1, <2>2, <2>4 DEF Left
<1>6. Tuneful'
  BY <1>3, <1>4, <1>5 DEF Tuneful
<1>7. PICK s, t : s = main /\ t = handler
  OBVIOUS
<1>8. main' = s /\ handler' = t
  BY <1>2, <1>7
<1>9. AtBell(s)'
  <2>1. \A ch \in Tuned : /\ curr_blk'[ch] = curr_blk[ch]
                          /\ ~dma_running(ch) => ~dma_running(ch)'
    BY <1>2, TunedAre DEF dma_running
  <2>2. QED
    BY <1>7, <2>1, AtBellKept DEF TonesInv
<1>10. TonesInv'
  BY <1>6, <1>7, <1>8, <1>9, BellWith, HandlerWith DEF TonesInv
<1>11. ASSUME NEW ch \in Tuned
       PROVE  /\ Owed[ch] = Left(ch) \o Intended(s, ch)
              /\ Owed'[ch] = Left(ch)' \o Intended(s, ch)
              /\ Left(ch)' \in Seq(Transfers) /\ Intended(s, ch) \in Seq(Transfers)
  <2>1. Intended(main, ch)' = Intended(s, ch) /\ Intended(main, ch) = Intended(s, ch)
    BY <1>7, <1>8
  <2>2. QED
    BY <1>10, <2>1, ToneOwedIs, ToneOwedIsPrimed
<1>12. ASSUME k \in Tuned, Finish(k) PROVE Owed[k] # <<>> /\ Owed'[k] = Tail(Owed[k])
  <2> DEFINE l == Left(k)'
             r == Intended(s, k)
  <2>1. PICK op \in Transfers : Left(k) = <<op>> \o l
    BY <1>5, <1>12
  <2>2. l \in Seq(Transfers) /\ r \in Seq(Transfers) /\ <<op>> \in Seq(Transfers)
    BY <1>11, <1>12
  <2>3. Owed[k] = (<<op>> \o l) \o r /\ Owed'[k] = l \o r
    BY <1>11, <1>12, <2>1
  <2> HIDE DEF l, r
  <2>4. (<<op>> \o l) \o r = <<op>> \o (l \o r)
    BY <2>2, ConcatAssociative
  <2>5. PICK z : z = l \o r
    OBVIOUS
  <2>6. z \in Seq(Transfers)
    BY <2>2, <2>5, ConcatProperties
  <2>7. <<op>> \o z # <<>> /\ Tail(<<op>> \o z) = z
    BY <2>6
  <2>8. QED
    BY <2>3, <2>4, <2>5, <2>7
<1>13. QED
  BY <1>3, <1>4, <1>10, <1>11, <1>12

LEMMA InitTones ==
  ASSUME RoomForJob, Init
  PROVE  TonesInv /\ ToneOwed = [ch \in Tuned |-> <<>>]
<1>1. Typed /\ QueueInv /\ Owed = [ch \in Channels |-> <<>>]
  BY InitKeeps, InitOwes DEF IInv
<1>2. main = <<>> /\ handler = <<>> /\ curr_blk[1] = 0 /\ curr_blk[2] = 0
  BY DEF Init, Channels
<1>3. Tuneful
  BY <1>1, TunedAre DEF QueueInv, Engines, Tuneful
<1>4. TonesInv
  BY <1>1, <1>2, <1>3, SilentNone DEF TonesInv, AtBell
<1>5. QED
  BY <1>1, <1>4, TunedAre DEF ToneOwed

LEMMA TonesStep ==
  (RoomForJob /\ TonesInv /\ [Next]_vars) => (TonesInv' /\ [Tune!Next]_ToneOwed)
<1> SUFFICES ASSUME RoomForJob, TonesInv, [Next]_vars
             PROVE  TonesInv' /\ [Tune!Next]_ToneOwed
  OBVIOUS
<1>1. Typed'
  BY TypedStep DEF TonesInv
<1>2. /\ DOMAIN ToneOwed = Tuned /\ DOMAIN ToneOwed' = Tuned
      /\ ToneOwed = [ch \in Tuned |-> Owed[ch]] /\ ToneOwed' = [ch \in Tuned |-> Owed'[ch]]
      /\ \A ch \in Tuned : ToneOwed[ch] = Owed[ch] /\ ToneOwed'[ch] = Owed'[ch]
  BY DEF ToneOwed
<1>3. ASSUME TonesKept \/ AsksTones PROVE [Tune!Next]_ToneOwed
  BY <1>2, <1>3 DEF TonesKept, AsksTones, Tune!Next, Tune!Ask
<1>4. CASE UNCHANGED vars
  <2>1. UNCHANGED <<blocks, curr_blk, engine, colour, main, handler>>
    BY <1>4 DEF vars
  <2>2. EngineTyped /\ EngineTyped'
    BY <1>1 DEF TonesInv, Typed, TypeOK, EngineTyped
  <2>3. /\ Tuneful'
        /\ \A ch \in Tuned : Left(ch)' = Left(ch) /\ dma_running(ch)' = dma_running(ch)
    BY <2>1, <2>2, AllKept DEF TonesInv
  <2>4. PICK s, t : s = main /\ t = handler
    OBVIOUS
  <2>5. AtBell(s)' /\ main' = s /\ handler' = t
    BY <2>1, <2>3, <2>4, AtBellKept DEF TonesInv
  <2>6. TonesInv'
    BY <1>1, <2>3, <2>4, <2>5, BellWith, HandlerWith DEF TonesInv
  <2>7. TonesKept
    BY <2>1, <2>3, <2>6, NothingAsked
  <2>8. QED
    BY <1>3, <2>6, <2>7
<1>5. CASE Main
  <2>1. TonesInv' /\ (TonesKept \/ AsksTones)
    BY <1>1, <1>5, LoopTones, RunTones DEF Main
  <2>2. QED
    BY <1>3, <2>1
<1>6. CASE Handle
  BY <1>1, <1>3, <1>6, HandleTones
<1>7. ASSUME NEW k \in Channels, Load(k) \/ Finish(k)
      PROVE  TonesInv' /\ [Tune!Next]_ToneOwed
  <2>1. /\ TonesInv' /\ \A ch \in Tuned \ {k} : Owed'[ch] = Owed[ch]
        /\ k \in Tuned /\ Load(k) => Owed'[k] = Owed[k]
        /\ k \in Tuned /\ Finish(k) => Owed[k] # <<>> /\ Owed'[k] = Tail(Owed[k])
    BY <1>1, <1>7, EngineTones
  <2>2. CASE k \notin Tuned \/ Load(k)
    <3>1. TonesKept
      BY <2>1, <2>2 DEF TonesKept
    <3>2. QED
      BY <1>3, <2>1, <3>1
  <2>3. CASE k \in Tuned /\ Finish(k)
    <3>1. ToneOwed' = [ToneOwed EXCEPT ![k] = Tail(@)]
      BY <1>2, <2>1, <2>3
    <3>2. Tune!Done(k)
      BY <1>2, <2>1, <2>3, <3>1 DEF Tune!Done
    <3>3. QED
      BY <2>1, <2>3, <3>2 DEF Tune!Next
  <2>4. QED
    BY <1>7, <2>2, <2>3
<1>8. ASSUME NEW key \in Keys, Press(key) PROVE TonesInv' /\ [Tune!Next]_ToneOwed
  BY <1>1, <1>3, <1>8, PressTones
<1>9. QED
  BY <1>4, <1>5, <1>6, <1>7, <1>8 DEF Next

(* Wherever keys come, the bell keeps its promise: each time it is rung one *)
(* tone goes to either of its channels, and all of them are done, once and  *)
(* in order.  No chain of control blocks that is running is rewritten or    *)
(* started over, though bell tests, fills and executes in steps between     *)
(* which a handler may run, change the colour words and use channel 0.      *)
THEOREM BellKeepsPromise ==
  ASSUME RoomForJob
  PROVE  Spec => Tune!Spec
<1>1. Init => TonesInv /\ Tune!Init
  BY InitTones DEF Tune!Init
<1>2. TonesInv /\ [Next]_vars => TonesInv' /\ [Tune!Next]_ToneOwed
  BY TonesStep
<1>3. QED
  BY <1>1, <1>2, PTL DEF Spec, Tune!Spec
=============================================================================
