--------------------------- MODULE UartRingProofs ---------------------------
(***************************************************************************)
(* The receive buffer, for every size of it, of the FIFO and of the        *)
(* trigger level.  Wherever the interrupt comes, pointers and count stay   *)
(* where they may be.  The rest is said of the runs of the program in      *)
(* which the interrupt happens to keep out of some accesses of the main    *)
(* loop, from which nothing in the code keeps it: out of the two between   *)
(* which the write pointer may lie behind the buffer, for the byte behind  *)
(* it; out of those that write back what it changes, and out of those that *)
(* have a slot in hand, for the order of the bytes.  For a host that obeys *)
(* the limits must also be far enough apart: then nothing is ever dropped. *)
(***************************************************************************)
EXTENDS UartRing, SequenceTheorems, FiniteSetTheorems, WellFoundedInduction, TLAPS

Wrapping == {"write", "wrap_end"}
Updating == {"uncount", "advance", "counted"} \cup Wrapping

(* What the FIFO holds when the line is lowered does not raise it again. *)
LimitsApart == RTS_ON_LIMIT + FifoSize <= RTS_OFF_LIMIT + 1

(* What the main loop has loaded is an index or a count that can be used. *)
Bounded ==
  /\ InBounds
  /\ pc \in {"leave", "load", "advance", "write", "counted"} => reg < UART_BUFFER_SIZE
  /\ pc = "uncount" => reg > 0
  /\ pc \in {"put", "advance", "write"} => strb \in Bytes

Typed == Bounded /\ uart.buffer[UART_BUFFER_SIZE] = None

(* The number of bytes between start and end, with a pointer behind the    *)
(* buffer taken for one at its beginning.                                  *)
Slot(i) == IF i = UART_BUFFER_SIZE THEN 0 ELSE i
Distance(s, e) == IF e >= s THEN e - s ELSE e - s + UART_BUFFER_SIZE
Ring(u) == Distance(Slot(u.start), Slot(u.end))

(* The count follows the pointers, one access behind. *)
Counted ==
  uart.count = IF pc \in {"load", "count", "uncount"} THEN Ring(uart) + 1
               ELSE IF pc \in {"write", "wrap_end", "drop", "recount", "counted"}
                    THEN Ring(uart) - 1 ELSE Ring(uart)

Putting1 == IF pc \in {"put", "advance"} THEN 1 ELSE 0

(* There is room for every byte that is on its way. *)
Room == Ring(uart) + Putting1 + Len(fifo) <= RTS_OFF_LIMIT + 1 + FifoSize

(* The line is low only below the limit, but for the byte just counted. *)
Line ==
  /\ IF pc = "low" THEN uart.rts_on /\ ~uart.low ELSE uart.rts_on = uart.low
  /\ uart.low => uart.count <= IF pc = "halt" THEN RTS_OFF_LIMIT + 1 ELSE RTS_OFF_LIMIT
  /\ pc = "resume" => ~uart.rts_on
  /\ pc \in {"resume", "low"} => uart.count + Len(fifo) <= RTS_OFF_LIMIT

(* What the main loop has loaded is what is still there. *)
Loaded ==
  /\ pc \in {"take", "leave"} => Ring(uart) >= 1
  /\ pc = "leave" => reg = uart.start
  /\ pc = "advance" => reg = uart.end
  /\ pc \in {"uncount", "counted"} => reg = uart.count

CountInv == obeys => Counted /\ Room /\ Line /\ Loaded

-----------------------------------------------------------------------------
(* The numbers of the model. *)
LEMMA Sizes ==
  /\ UART_BUFFER_SIZE \in Nat /\ RTS_OFF_LIMIT \in Nat /\ RTS_ON_LIMIT \in Nat
  /\ FifoSize \in Nat /\ Trigger \in Nat /\ Numbers \in Nat
  /\ 0 < FifoSize /\ 0 < Trigger /\ 0 < Numbers /\ 0 < RTS_ON_LIMIT
  /\ RTS_OFF_LIMIT + FifoSize + 1 < UART_BUFFER_SIZE
BY UartAssumption

(* A set of numbers has a least one. *)
LEMMA LeastNatural ==
  ASSUME NEW T, T \subseteq Nat, T # {}
  PROVE  \E x \in T : \A y \in T : x <= y
<1> DEFINE Below(n) == 0 .. n - 1
           Initials == {Below(n) : n \in T}
           R == StrictSubsetOrdering(Nat)
           S == FiniteSubsetsOf(Nat)
<1>1. IsWellFoundedOn(R, S)
  BY FS_StrictSubsetOrderingWellFounded
<1>2. Initials \subseteq S
  <2>1. ASSUME NEW n \in T PROVE IsFiniteSet(Below(n)) /\ Below(n) \subseteq Nat
    BY FS_Interval
  <2>2. QED
    BY <2>1 DEF FiniteSubsetsOf
<1>3. Initials # {}
  OBVIOUS
<1> HIDE DEF Initials, R, S
<1>4. PICK I \in Initials : \A J \in Initials : ~(<<J, I>> \in R)
  BY <1>1, <1>2, <1>3, WFMin
<1>5. PICK x \in T : I = Below(x)
  BY <1>4 DEF Initials
<1>6. ASSUME NEW y \in T, y < x PROVE FALSE
  <2>1. Below(y) \in Initials
    BY DEF Initials
  <2>2. /\ Below(y) \subseteq Below(x) /\ Below(y) # Below(x)
        /\ Below(x) \in SUBSET Nat /\ Below(y) \in SUBSET Nat
    BY <1>6
  <2>3. QED
    BY <1>2, <1>4, <1>5, <2>1, <2>2 DEF R, S, StrictSubsetOrdering
<1>7. QED
  BY <1>6

(* The loop of the interrupt takes one byte after the other: the function  *)
(* that says so exists.                                                    *)
LEMMA FilledOneByOne ==
  ASSUME NEW u, NEW bs \in Seq(Bytes)
  PROVE  Filled(u, bs) =
           [i \in 0 .. Len(bs) |-> IF i = 0 THEN u ELSE Queued(Filled(u, bs)[i - 1], bs[i])]
<1> DEFINE Fill1(f, n) == [i \in 0 .. n |-> IF i = 0 THEN u ELSE Queued(f[i - 1], bs[i])]
           Bad == {n \in Nat : \A f : f # Fill1(f, n)}
<1>1. 0 \notin Bad
  <2> DEFINE f == [i \in 0 .. 0 |-> u]
  <2>1. f = Fill1(f, 0)
    OBVIOUS
  <2>2. QED
    BY <2>1
<1>2. ASSUME NEW n \in Nat, n \notin Bad PROVE n + 1 \notin Bad
  <2>1. PICK f : f = Fill1(f, n)
    BY <1>2
  <2> DEFINE g == [i \in 0 .. n + 1 |-> IF i = n + 1 THEN Queued(f[n], bs[n + 1]) ELSE f[i]]
  <2>2. ASSUME NEW i \in 0 .. n + 1
        PROVE  g[i] = IF i = 0 THEN u ELSE Queued(g[i - 1], bs[i])
    <3>1. CASE i = n + 1
      BY <3>1
    <3>2. CASE i # n + 1
      <4>1. g[i] = f[i] /\ i \in 0 .. n
        BY <3>2
      <4>2. i # 0 => g[i - 1] = f[i - 1]
        BY <4>1
      <4>3. f[i] = IF i = 0 THEN u ELSE Queued(f[i - 1], bs[i])
        BY <2>1, <4>1
      <4>4. QED
        BY <4>1, <4>2, <4>3
    <3>3. QED
      BY <3>1, <3>2
  <2>3. g = Fill1(g, n + 1)
    BY <2>2
  <2>4. QED
    BY <2>3
<1>3. Bad = {}
  <2>1. SUFFICES ASSUME Bad # {} PROVE FALSE
    OBVIOUS
  <2> HIDE DEF Bad
  <2>2. PICK n \in Bad : \A m \in Bad : n <= m
    <3>1. Bad \subseteq Nat
      BY DEF Bad
    <3>2. QED
      BY <2>1, <3>1, LeastNatural
  <2>3. n \in Nat
    BY DEF Bad
  <2>4. n # 0 /\ n - 1 \in Nat /\ n - 1 \notin Bad
    BY <1>1, <2>2, <2>3
  <2>5. (n - 1) + 1 \notin Bad
    BY <1>2, <2>4
  <2>6. QED
    BY <2>2, <2>3, <2>5
<1>4. PICK f : f = Fill1(f, Len(bs))
  BY <1>3
<1>5. QED
  BY <1>4 DEF Filled

(* What holds of the buffer before the interrupt, and is kept by every     *)
(* byte, holds after it.                                                   *)
LEMMA FilledKeeps ==
  ASSUME NEW u, NEW bs \in Seq(Bytes), NEW P,
         u \in P,
         \A i \in 1 .. Len(bs) : \A v \in P : Queued(v, bs[i]) \in P
  PROVE  \A i \in 0 .. Len(bs) : Filled(u, bs)[i] \in P
<1> DEFINE Bad == {i \in 0 .. Len(bs) : Filled(u, bs)[i] \notin P}
<1>1. SUFFICES ASSUME Bad # {} PROVE FALSE
  OBVIOUS
<1>2. PICK n \in Bad : \A m \in Bad : n <= m
  <2>1. Bad \subseteq Nat
    OBVIOUS
  <2> HIDE DEF Bad
  <2>2. QED
    BY <1>1, <2>1, LeastNatural
<1>3. /\ Filled(u, bs)[0] = u
      /\ \A i \in 1 .. Len(bs) : Filled(u, bs)[i] = Queued(Filled(u, bs)[i - 1], bs[i])
  BY FilledOneByOne
<1>4. n # 0
  BY <1>3
<1>5. n \in 1 .. Len(bs) /\ n - 1 \in 0 .. Len(bs) /\ n - 1 \notin Bad
  BY <1>2, <1>4
<1>6. Queued(Filled(u, bs)[n - 1], bs[n]) \in P
  BY <1>5
<1>7. QED
  BY <1>3, <1>5, <1>6

-----------------------------------------------------------------------------
(* Types of the statements of uart_fill_queue. *)
Sound(u) == u \in Uart /\ u.end < UART_BUFFER_SIZE

LEMMA WrittenType ==
  ASSUME NEW u \in Uart, NEW b \in Bytes, NEW at \in Index
  PROVE  LET v == Written(u, at, b)
         IN  /\ v \in Uart /\ v.buffer[UART_BUFFER_SIZE] = u.buffer[UART_BUFFER_SIZE]
             /\ v.start = u.start /\ v.end = u.end /\ v.count = u.count
             /\ v.rts_on = u.rts_on /\ v.low = u.low
<1> DEFINE new == [u.buffer EXCEPT ![at] = b]
<1>1. new \in [0 .. UART_BUFFER_SIZE -> Bytes \cup {None}]
  BY DEF Uart
<1>2. new[UART_BUFFER_SIZE] = u.buffer[UART_BUFFER_SIZE]
  BY Sizes DEF Uart, Index
<1>3. Written(u, at, b) = [u EXCEPT !.buffer = new]
  BY DEF Written
<1> HIDE DEF new
<1>4. QED
  BY <1>1, <1>2, <1>3 DEF Uart

(* What a new value of one field does to the buffer. *)
LEMMA NewStart ==
  ASSUME NEW u \in Uart, NEW n \in 0 .. UART_BUFFER_SIZE
  PROVE  LET v == [u EXCEPT !.start = n]
         IN  /\ v \in Uart /\ v.start = n /\ v.end = u.end /\ v.buffer = u.buffer
             /\ v.count = u.count /\ v.rts_on = u.rts_on /\ v.low = u.low
BY DEF Uart

LEMMA NewEnd ==
  ASSUME NEW u \in Uart, NEW n \in 0 .. UART_BUFFER_SIZE
  PROVE  LET v == [u EXCEPT !.end = n]
         IN  /\ v \in Uart /\ v.end = n /\ v.start = u.start /\ v.buffer = u.buffer
             /\ v.count = u.count /\ v.rts_on = u.rts_on /\ v.low = u.low
BY DEF Uart

LEMMA NewCount ==
  ASSUME NEW u \in Uart, NEW n \in 0 .. UART_BUFFER_SIZE
  PROVE  LET v == [u EXCEPT !.count = n]
         IN  /\ v \in Uart /\ v.count = n /\ v.start = u.start /\ v.end = u.end
             /\ v.buffer = u.buffer /\ v.rts_on = u.rts_on /\ v.low = u.low
BY DEF Uart

LEMMA WrapEndType ==
  ASSUME NEW u \in Uart
  PROVE  LET v == WrapEnd(u)
         IN  /\ v \in Uart /\ v.end = Slot(u.end) /\ v.end < UART_BUFFER_SIZE
             /\ v.buffer = u.buffer /\ v.start = u.start /\ v.count = u.count
             /\ v.rts_on = u.rts_on /\ v.low = u.low
<1>1. u.end \in 0 .. UART_BUFFER_SIZE
  BY DEF Uart
<1>2. /\ Slot(u.end) = IF u.end >= UART_BUFFER_SIZE THEN 0 ELSE u.end
      /\ Slot(u.end) \in 0 .. UART_BUFFER_SIZE /\ Slot(u.end) < UART_BUFFER_SIZE
  BY <1>1, Sizes DEF Slot
<1>3. WrapEnd(u) = [u EXCEPT !.end = Slot(u.end)]
  BY <1>2 DEF WrapEnd
<1>4. QED
  BY <1>2, <1>3, NewEnd

LEMMA DropOldestType ==
  ASSUME NEW u \in Uart, u.end < UART_BUFFER_SIZE
  PROVE  LET v == DropOldest(u)
         IN  /\ v \in Uart /\ v.end = u.end /\ v.buffer = u.buffer
             /\ v.start = UART_BUFFER_SIZE => u.start = UART_BUFFER_SIZE
             /\ u.end # u.start => v = u
<1>1. CASE u.end # u.start
  BY <1>1 DEF DropOldest
<1>2. CASE u.end = u.start
  <2> DEFINE n == IF u.start + 1 >= UART_BUFFER_SIZE THEN 0 ELSE u.start + 1
  <2>1. u.start \in 0 .. UART_BUFFER_SIZE
    BY DEF Uart
  <2>2. n \in 0 .. UART_BUFFER_SIZE /\ n # UART_BUFFER_SIZE
    BY <2>1, Sizes
  <2>3. DropOldest(u) = [u EXCEPT !.start = n]
    BY <1>2 DEF DropOldest
  <2> HIDE DEF n
  <2>4. QED
    BY <1>2, <2>2, <2>3, NewStart
<1>3. QED
  BY <1>1, <1>2

LEMMA CountUpType ==
  ASSUME NEW u \in Uart
  PROVE  LET v == CountUp(u)
         IN  /\ v \in Uart /\ v.end = u.end /\ v.start = u.start /\ v.buffer = u.buffer
             /\ v.rts_on = u.rts_on /\ v.low = u.low
             /\ u.count < UART_BUFFER_SIZE => v.count = u.count + 1
<1>1. u.count \in 0 .. UART_BUFFER_SIZE
  BY DEF Uart
<1>2. CASE u.count < UART_BUFFER_SIZE
  <2>1. u.count + 1 \in 0 .. UART_BUFFER_SIZE
    BY <1>1, <1>2, Sizes
  <2>2. CountUp(u) = [u EXCEPT !.count = u.count + 1]
    BY <1>2 DEF CountUp
  <2>3. QED
    BY <2>1, <2>2, NewCount
<1>3. CASE ~(u.count < UART_BUFFER_SIZE)
  BY <1>3 DEF CountUp
<1>4. QED
  BY <1>2, <1>3

LEMMA HaltType ==
  ASSUME NEW u \in Uart
  PROVE  LET v == Halt(u)
         IN  /\ v \in Uart /\ v.end = u.end /\ v.start = u.start /\ v.buffer = u.buffer
             /\ v.count = u.count
             /\ v.rts_on = (u.rts_on /\ u.count <= RTS_OFF_LIMIT)
             /\ v.low = (u.low /\ ~(u.rts_on /\ u.count > RTS_OFF_LIMIT))
<1>1. u.count \in Nat /\ u.rts_on \in BOOLEAN /\ u.low \in BOOLEAN
  BY DEF Uart
<1>2. CASE u.rts_on /\ u.count > RTS_OFF_LIMIT
  <2>1. Halt(u) = [u EXCEPT !.rts_on = FALSE, !.low = FALSE]
    BY <1>2 DEF Halt
  <2>2. /\ Halt(u) \in Uart /\ Halt(u).end = u.end /\ Halt(u).start = u.start
        /\ Halt(u).buffer = u.buffer /\ Halt(u).count = u.count
        /\ Halt(u).rts_on = FALSE /\ Halt(u).low = FALSE
    BY <2>1 DEF Uart
  <2>3. ~(u.count <= RTS_OFF_LIMIT)
    BY <1>1, <1>2, Sizes
  <2>4. QED
    BY <1>2, <2>2, <2>3, Zenon
<1>3. CASE ~(u.rts_on /\ u.count > RTS_OFF_LIMIT)
  <2>1. Halt(u) = u
    BY <1>3 DEF Halt
  <2>2. u.rts_on => u.count <= RTS_OFF_LIMIT
    BY <1>1, <1>3, Sizes
  <2>3. QED
    BY <1>1, <1>3, <2>1, <2>2, Zenon
<1>4. QED
  BY <1>2, <1>3

LEMMA AdvancedType ==
  ASSUME NEW u \in Uart, u.end < UART_BUFFER_SIZE
  PROVE  LET v == [u EXCEPT !.end = @ + 1]
         IN  /\ v \in Uart /\ v.end = u.end + 1 /\ v.start = u.start /\ v.buffer = u.buffer
             /\ v.count = u.count /\ v.rts_on = u.rts_on /\ v.low = u.low
<1>1. u.end + 1 \in 0 .. UART_BUFFER_SIZE
  BY Sizes DEF Uart
<1>2. QED
  BY <1>1, NewEnd

(* One byte is written where the write pointer is, which goes on. *)
LEMMA EntersType ==
  ASSUME NEW u \in Uart, NEW b \in Bytes
  PROVE  LET v == WrapEnd(Written([u EXCEPT !.end = @ + 1], u.end, b))
         IN  /\ v \in Uart /\ v.end < UART_BUFFER_SIZE
             /\ v.start = u.start /\ v.count = u.count
             /\ v.rts_on = u.rts_on /\ v.low = u.low
             /\ u.end < UART_BUFFER_SIZE =>
                  /\ v.end = Slot(u.end + 1)
                  /\ v.buffer[UART_BUFFER_SIZE] = u.buffer[UART_BUFFER_SIZE]
<1>1. u.end \in 0 .. UART_BUFFER_SIZE
  BY DEF Uart
<1> DEFINE n == IF u.end + 1 >= UART_BUFFER_SIZE THEN 0 ELSE u.end + 1
           new == [u.buffer EXCEPT ![u.end] = b]
           v == [u EXCEPT !.end = n, !.buffer = new]
<1>2. n \in 0 .. UART_BUFFER_SIZE /\ n < UART_BUFFER_SIZE
      /\ (u.end < UART_BUFFER_SIZE => n = Slot(u.end + 1))
  BY <1>1, Sizes DEF Slot
<1>3. new \in [0 .. UART_BUFFER_SIZE -> Bytes \cup {None}]
      /\ (u.end < UART_BUFFER_SIZE => new[UART_BUFFER_SIZE] = u.buffer[UART_BUFFER_SIZE])
  BY <1>1, Sizes DEF Uart
<1>4. WrapEnd(Written([u EXCEPT !.end = @ + 1], u.end, b)) = v
  BY DEF WrapEnd, Written, Uart
<1> HIDE DEF n, new
<1>5. /\ v \in Uart /\ v.end = n /\ v.buffer = new /\ v.start = u.start
      /\ v.count = u.count /\ v.rts_on = u.rts_on /\ v.low = u.low
  BY <1>2, <1>3 DEF Uart
<1> HIDE DEF v
<1>6. QED
  BY <1>2, <1>3, <1>4, <1>5

(* The whole of it, for one byte: wherever the write pointer is, ... *)
LEMMA QueuedBounds ==
  ASSUME NEW u \in Uart, NEW b \in Bytes
  PROVE  /\ Sound(Queued(u, b))
         /\ Queued(u, b).start = UART_BUFFER_SIZE => u.start = UART_BUFFER_SIZE
         /\ u.end < UART_BUFFER_SIZE =>
              Queued(u, b).buffer[UART_BUFFER_SIZE] = u.buffer[UART_BUFFER_SIZE]
         /\ /\ u.end < UART_BUFFER_SIZE
            /\ Slot(u.end + 1) # u.start /\ u.count < UART_BUFFER_SIZE
            => /\ Queued(u, b).start = u.start /\ Queued(u, b).end = Slot(u.end + 1)
               /\ Queued(u, b).count = u.count + 1
               /\ Queued(u, b).rts_on = (u.rts_on /\ u.count + 1 <= RTS_OFF_LIMIT)
               /\ Queued(u, b).low = (u.low /\ ~(u.rts_on /\ u.count + 1 > RTS_OFF_LIMIT))
<1> DEFINE e == WrapEnd(Written([u EXCEPT !.end = @ + 1], u.end, b))
           d == DropOldest(e)
           c == CountUp(d)
<1>4. /\ e \in Uart /\ e.end < UART_BUFFER_SIZE
      /\ e.start = u.start /\ e.count = u.count
      /\ e.rts_on = u.rts_on /\ e.low = u.low
      /\ u.end < UART_BUFFER_SIZE =>
           /\ e.end = Slot(u.end + 1)
           /\ e.buffer[UART_BUFFER_SIZE] = u.buffer[UART_BUFFER_SIZE]
  BY EntersType
<1>7. Queued(u, b) = Halt(c)
  BY DEF Queued
<1> HIDE DEF e
<1>5. /\ d \in Uart /\ d.end = e.end /\ d.buffer = e.buffer
      /\ d.start = UART_BUFFER_SIZE => u.start = UART_BUFFER_SIZE
      /\ e.end # u.start => d = e
  BY <1>4, DropOldestType
<1> HIDE DEF d
<1>6. /\ c \in Uart /\ c.end = d.end /\ c.start = d.start /\ c.buffer = d.buffer
      /\ c.rts_on = d.rts_on /\ c.low = d.low
      /\ d.count < UART_BUFFER_SIZE => c.count = d.count + 1
  BY <1>5, CountUpType
<1> HIDE DEF c
<1>8. /\ Halt(c) \in Uart /\ Halt(c).end = c.end /\ Halt(c).start = c.start
      /\ Halt(c).buffer = c.buffer /\ Halt(c).count = c.count
      /\ Halt(c).rts_on = (c.rts_on /\ c.count <= RTS_OFF_LIMIT)
      /\ Halt(c).low = (c.low /\ ~(c.rts_on /\ c.count > RTS_OFF_LIMIT))
  BY <1>6, HaltType
<1>9. /\ Sound(Queued(u, b))
      /\ (Queued(u, b).start = UART_BUFFER_SIZE => u.start = UART_BUFFER_SIZE)
      /\ u.end < UART_BUFFER_SIZE =>
           Queued(u, b).buffer[UART_BUFFER_SIZE] = u.buffer[UART_BUFFER_SIZE]
  BY <1>4, <1>5, <1>6, <1>7, <1>8 DEF Sound
<1>10. ASSUME u.end < UART_BUFFER_SIZE, Slot(u.end + 1) # u.start, u.count < UART_BUFFER_SIZE
       PROVE  /\ Queued(u, b).start = u.start /\ Queued(u, b).end = Slot(u.end + 1)
              /\ Queued(u, b).count = u.count + 1
              /\ Queued(u, b).rts_on = (u.rts_on /\ u.count + 1 <= RTS_OFF_LIMIT)
              /\ Queued(u, b).low = (u.low /\ ~(u.rts_on /\ u.count + 1 > RTS_OFF_LIMIT))
  <2>1. d = e
    BY <1>4, <1>5, <1>10
  <2>2. c.count = u.count + 1 /\ c.rts_on = u.rts_on /\ c.low = u.low
        /\ c.start = u.start /\ c.end = Slot(u.end + 1)
    BY <1>4, <1>6, <1>10, <2>1
  <2>3. QED
    BY <1>7, <1>8, <2>2
<1>11. QED
  BY <1>9, <1>10

(* ... and when it is in the buffer. *)
LEMMA QueuedType ==
  ASSUME NEW u, Sound(u), NEW b \in Bytes
  PROVE  /\ Sound(Queued(u, b))
         /\ Queued(u, b).start = UART_BUFFER_SIZE => u.start = UART_BUFFER_SIZE
         /\ Slot(u.end + 1) # u.start /\ u.count < UART_BUFFER_SIZE =>
              /\ Queued(u, b).start = u.start /\ Queued(u, b).end = Slot(u.end + 1)
              /\ Queued(u, b).count = u.count + 1
              /\ Queued(u, b).rts_on = (u.rts_on /\ u.count + 1 <= RTS_OFF_LIMIT)
              /\ Queued(u, b).low = (u.low /\ ~(u.rts_on /\ u.count + 1 > RTS_OFF_LIMIT))
<1>1. u \in Uart /\ u.end < UART_BUFFER_SIZE
  BY DEF Sound
<1>2. QED
  BY <1>1, QueuedBounds

-----------------------------------------------------------------------------
(* Types: one lemma for each group of actions. *)
Reading == {"load", "count", "uncount", "rts", "resume", "low", "wrap_start"}

Facts ==
  /\ uart \in Uart
  /\ uart.end = UART_BUFFER_SIZE => pc \in Wrapping
  /\ uart.start = UART_BUFFER_SIZE => pc \in Reading

LEMMA BoundedIs ==
  Bounded <=>
    /\ Facts
    /\ pc \in Points /\ reg \in 0 .. UART_BUFFER_SIZE
    /\ strb \in Bytes \cup {None} /\ sent \in Bytes /\ obeys \in BOOLEAN
    /\ fifo \in Seq(Bytes) /\ Len(fifo) <= FifoSize
    /\ pc \in {"leave", "load", "advance", "write", "counted"} => reg < UART_BUFFER_SIZE
    /\ pc = "uncount" => reg > 0
    /\ pc \in {"put", "advance", "write"} => strb \in Bytes
BY DEF Bounded, InBounds, Facts, Wrapping, Reading

LEMMA TypedBounded == Typed <=> Bounded /\ uart.buffer[UART_BUFFER_SIZE] = None
BY DEF Typed

LEMMA TypedIs ==
  Typed <=> /\ Facts /\ uart.buffer[UART_BUFFER_SIZE] = None
            /\ pc \in Points /\ reg \in 0 .. UART_BUFFER_SIZE
            /\ strb \in Bytes \cup {None} /\ sent \in Bytes /\ obeys \in BOOLEAN
            /\ fifo \in Seq(Bytes) /\ Len(fifo) <= FifoSize
            /\ pc \in {"leave", "load", "advance", "write", "counted"} => reg < UART_BUFFER_SIZE
            /\ pc = "uncount" => reg > 0
            /\ pc \in {"put", "advance", "write"} => strb \in Bytes
BY TypedBounded, BoundedIs

LEMMA FieldTypes ==
  ASSUME uart \in Uart
  PROVE  /\ uart.start \in 0 .. UART_BUFFER_SIZE /\ uart.end \in 0 .. UART_BUFFER_SIZE
         /\ uart.count \in 0 .. UART_BUFFER_SIZE
         /\ uart.rts_on \in BOOLEAN /\ uart.low \in BOOLEAN
         /\ uart.buffer \in [0 .. UART_BUFFER_SIZE -> Bytes \cup {None}]
         /\ \A n \in 0 .. UART_BUFFER_SIZE :
              /\ LET v == [uart EXCEPT !.start = n]
                 IN  /\ v \in Uart /\ v.start = n /\ v.end = uart.end /\ v.buffer = uart.buffer
                     /\ v.count = uart.count /\ v.rts_on = uart.rts_on /\ v.low = uart.low
              /\ LET v == [uart EXCEPT !.end = n]
                 IN  /\ v \in Uart /\ v.end = n /\ v.start = uart.start /\ v.buffer = uart.buffer
                     /\ v.count = uart.count /\ v.rts_on = uart.rts_on /\ v.low = uart.low
              /\ LET v == [uart EXCEPT !.count = n]
                 IN  /\ v \in Uart /\ v.count = n /\ v.end = uart.end /\ v.start = uart.start
                     /\ v.buffer = uart.buffer /\ v.rts_on = uart.rts_on /\ v.low = uart.low
         /\ LET v == [uart EXCEPT !.rts_on = TRUE]
            IN  /\ v \in Uart /\ v.rts_on /\ v.low = uart.low /\ v.end = uart.end
                /\ v.start = uart.start /\ v.count = uart.count /\ v.buffer = uart.buffer
         /\ LET v == [uart EXCEPT !.low = TRUE]
            IN  /\ v \in Uart /\ v.low /\ v.rts_on = uart.rts_on /\ v.end = uart.end
                /\ v.start = uart.start /\ v.count = uart.count /\ v.buffer = uart.buffer
BY DEF Uart

(* A step of the main loop that leaves a sound buffer, and loads what can  *)
(* be used.                                                                *)
LEMMA StepBounded ==
  ASSUME Bounded, NEW p \in Points, NEW u \in Uart, NEW r \in 0 .. UART_BUFFER_SIZE,
         NEW b \in Bytes \cup {None}, Step(p, u, r, b),
         fifo' \in Seq(Bytes), Len(fifo') <= FifoSize,
         u.end = UART_BUFFER_SIZE => p \in Wrapping,
         u.start = UART_BUFFER_SIZE => p \in Reading,
         p \in {"leave", "load", "advance", "write", "counted"} => r < UART_BUFFER_SIZE,
         p = "uncount" => r > 0,
         p \in {"put", "advance", "write"} => b \in Bytes
  PROVE  Bounded'
BY DEF Step, Bounded, InBounds, Wrapping, Reading

(* The steps that only go on. *)
LEMMA OtherBounded == Bounded /\ (Ready \/ Busy \/ Rts \/ Show \/ Poll \/ Read) => Bounded'
<1> SUFFICES ASSUME Bounded, Ready \/ Busy \/ Rts \/ Show \/ Poll \/ Read PROVE Bounded'
  OBVIOUS
<1>1. /\ Facts /\ reg \in 0 .. UART_BUFFER_SIZE /\ 0 \in 0 .. UART_BUFFER_SIZE
      /\ strb \in Bytes \cup {None} /\ fifo \in Seq(Bytes) /\ Len(fifo) <= FifoSize
  BY BoundedIs, Sizes
<1>2. CASE Ready \/ Busy
  <2>1. \E p \in {"take", "poll"} : Step(p, uart, reg, strb) /\ pc = "top" /\ fifo' = fifo
    BY <1>2 DEF Ready, Busy
  <2>2. uart.end # UART_BUFFER_SIZE /\ uart.start # UART_BUFFER_SIZE
    BY <1>1, <2>1 DEF Facts, Wrapping, Reading
  <2>3. QED
    BY <1>1, <2>1, <2>2, StepBounded DEF Points, Facts
<1>3. CASE Rts
  <2>1. \E p \in {"resume", "wrap_start"} : Step(p, uart, reg, strb) /\ pc = "rts" /\ fifo' = fifo
    BY <1>3 DEF Rts
  <2>2. uart.end # UART_BUFFER_SIZE
    BY <1>1, <2>1 DEF Facts, Wrapping
  <2>3. QED
    BY <1>1, <2>1, <2>2, StepBounded DEF Points, Facts, Reading
<1>4. CASE Show
  <2>1. Step("poll", uart, 0, None) /\ pc = "show" /\ fifo' = fifo
    BY <1>4 DEF Show
  <2>2. uart.end # UART_BUFFER_SIZE /\ uart.start # UART_BUFFER_SIZE
    BY <1>1, <2>1 DEF Facts, Wrapping, Reading
  <2>3. QED
    BY <1>1, <2>1, <2>2, StepBounded DEF Points, Facts
<1>5. CASE Poll
  <2>1. \E p \in {"read", "top"} : Step(p, uart, reg, strb) /\ pc = "poll" /\ fifo' = fifo
    BY <1>5 DEF Poll
  <2>2. uart.end # UART_BUFFER_SIZE /\ uart.start # UART_BUFFER_SIZE
    BY <1>1, <2>1 DEF Facts, Wrapping, Reading
  <2>3. QED
    BY <1>1, <2>1, <2>2, StepBounded DEF Points, Facts
<1>6. CASE Read
  <2>1. Step("put", uart, reg, Head(fifo)) /\ pc = "read" /\ fifo # <<>> /\ fifo' = Tail(fifo)
    BY <1>6 DEF Read
  <2>2. uart.end # UART_BUFFER_SIZE /\ uart.start # UART_BUFFER_SIZE
    BY <1>1, <2>1 DEF Facts, Wrapping, Reading
  <2>3. Head(fifo) \in Bytes /\ fifo' \in Seq(Bytes) /\ Len(fifo') <= FifoSize
    BY <1>1, <2>1, Sizes
  <2>4. QED
    BY <1>1, <2>1, <2>2, <2>3, StepBounded DEF Points, Facts
<1>7. QED
  BY <1>2, <1>3, <1>4, <1>5, <1>6

LEMMA TakeBounded == Bounded /\ Take => Bounded'
<1> SUFFICES ASSUME Bounded, Take PROVE Bounded'
  OBVIOUS
<1>1. /\ Facts /\ reg \in 0 .. UART_BUFFER_SIZE /\ strb \in Bytes \cup {None}
      /\ fifo' \in Seq(Bytes) /\ Len(fifo') <= FifoSize
      /\ pc \in {"leave", "load"} => reg < UART_BUFFER_SIZE
      /\ pc = "uncount" => reg > 0
  BY BoundedIs DEF Take
<1>2. uart \in Uart /\ uart.start \in 0 .. UART_BUFFER_SIZE /\ uart.count \in 0 .. UART_BUFFER_SIZE
      /\ uart.buffer \in [0 .. UART_BUFFER_SIZE -> Bytes \cup {None}]
  BY <1>1, FieldTypes DEF Facts
<1>3. pc \in {"take", "leave", "load", "count", "uncount", "rts", "resume", "low", "wrap_start"} =>
        uart.end # UART_BUFFER_SIZE
  BY <1>1 DEF Facts, Wrapping
<1>4. CASE pc = "take" /\ Step("leave", uart, uart.start, strb)
  <2>1. uart.start < UART_BUFFER_SIZE
    BY <1>1, <1>2, <1>4, Sizes DEF Facts, Reading
  <2>2. QED
    BY <1>1, <1>2, <1>3, <1>4, <2>1, StepBounded DEF Points
<1>5. CASE pc = "leave" /\ Step("load", [uart EXCEPT !.start = reg + 1], reg, strb)
  <2> DEFINE u == [uart EXCEPT !.start = reg + 1]
  <2>1. reg + 1 \in 0 .. UART_BUFFER_SIZE /\ reg < UART_BUFFER_SIZE
    BY <1>1, <1>5, Sizes
  <2>2. u \in Uart /\ u.end = uart.end /\ u.buffer = uart.buffer
    BY <1>2, <2>1, FieldTypes
  <2> HIDE DEF u
  <2>3. Step("load", u, reg, strb)
    BY <1>5 DEF u
  <2>4. QED
    BY <1>1, <1>2, <1>3, <1>5, <2>1, <2>2, <2>3, StepBounded DEF Points, Reading
<1>6. CASE pc = "load" /\ Step("count", uart, reg, uart.buffer[reg])
  <2>1. uart.buffer[reg] \in Bytes \cup {None}
    BY <1>1, <1>2
  <2>2. QED
    BY <1>1, <1>2, <1>3, <1>6, <2>1, StepBounded DEF Points, Reading
<1>7. CASE pc = "count" /\ Step(IF uart.count > 0 THEN "uncount" ELSE "rts", uart, uart.count, strb)
  <2> DEFINE p == IF uart.count > 0 THEN "uncount" ELSE "rts"
  <2>1. p \in Points /\ (p = "uncount" => uart.count > 0) /\ p \in Reading
        /\ p \notin {"leave", "load", "advance", "write", "counted", "put"}
    BY DEF Points, Reading
  <2> HIDE DEF p
  <2>2. Step(p, uart, uart.count, strb)
    BY <1>7 DEF p
  <2>3. QED
    BY <1>1, <1>2, <1>3, <1>7, <2>1, <2>2, StepBounded
<1>8. CASE pc = "uncount" /\ Step("rts", [uart EXCEPT !.count = reg - 1], reg, strb)
  <2> DEFINE u == [uart EXCEPT !.count = reg - 1]
  <2>1. reg - 1 \in 0 .. UART_BUFFER_SIZE
    BY <1>1, <1>8, Sizes
  <2>2. u \in Uart /\ u.end = uart.end /\ u.start = uart.start /\ u.buffer = uart.buffer
    BY <1>2, <2>1, FieldTypes
  <2> HIDE DEF u
  <2>3. Step("rts", u, reg, strb)
    BY <1>8 DEF u
  <2>4. QED
    BY <1>1, <1>2, <1>3, <1>8, <2>2, <2>3, StepBounded DEF Points, Reading
<1>9. CASE pc = "resume" /\ Step("low", [uart EXCEPT !.rts_on = TRUE], reg, strb)
  <2> DEFINE u == [uart EXCEPT !.rts_on = TRUE]
  <2>1. u \in Uart /\ u.end = uart.end /\ u.start = uart.start /\ u.buffer = uart.buffer
    BY <1>2, FieldTypes
  <2> HIDE DEF u
  <2>2. Step("low", u, reg, strb)
    BY <1>9 DEF u
  <2>3. QED
    BY <1>1, <1>2, <1>3, <1>9, <2>1, <2>2, StepBounded DEF Points, Reading
<1>10. CASE pc = "low" /\ Step("wrap_start", [uart EXCEPT !.low = TRUE], reg, strb)
  <2> DEFINE u == [uart EXCEPT !.low = TRUE]
  <2>1. u \in Uart /\ u.end = uart.end /\ u.start = uart.start /\ u.buffer = uart.buffer
    BY <1>2, FieldTypes
  <2> HIDE DEF u
  <2>2. Step("wrap_start", u, reg, strb)
    BY <1>10 DEF u
  <2>3. QED
    BY <1>1, <1>2, <1>3, <1>10, <2>1, <2>2, StepBounded DEF Points, Reading
<1>11. CASE /\ pc = "wrap_start"
            /\ Step("show", [uart EXCEPT !.start = IF @ >= UART_BUFFER_SIZE THEN 0 ELSE @],
                    reg, strb)
  <2> DEFINE n == IF uart.start >= UART_BUFFER_SIZE THEN 0 ELSE uart.start
             u == [uart EXCEPT !.start = n]
  <2>1. n \in 0 .. UART_BUFFER_SIZE /\ n # UART_BUFFER_SIZE
    BY <1>2, Sizes
  <2> HIDE DEF n
  <2>2. u \in Uart /\ u.end = uart.end /\ u.start = n /\ u.buffer = uart.buffer
    BY <1>2, <2>1, FieldTypes
  <2>3. Step("show", u, reg, strb)
    BY <1>11 DEF n
  <2> HIDE DEF u
  <2>4. QED
    BY <1>1, <1>2, <1>3, <1>11, <2>1, <2>2, <2>3, StepBounded DEF Points
<1>12. QED
  BY <1>4, <1>5, <1>6, <1>7, <1>8, <1>9, <1>10, <1>11 DEF Take

LEMMA FillBounded == Bounded /\ Fill => Bounded'
<1> SUFFICES ASSUME Bounded, Fill PROVE Bounded'
  OBVIOUS
<1>1. /\ Facts /\ reg \in 0 .. UART_BUFFER_SIZE /\ strb \in Bytes \cup {None}
      /\ fifo' \in Seq(Bytes) /\ Len(fifo') <= FifoSize
      /\ pc \in {"advance", "write", "counted"} => reg < UART_BUFFER_SIZE
      /\ pc \in {"put", "advance", "write"} => strb \in Bytes
  BY BoundedIs DEF Fill
<1>2. uart \in Uart /\ uart.end \in 0 .. UART_BUFFER_SIZE /\ uart.count \in 0 .. UART_BUFFER_SIZE
  BY <1>1, FieldTypes DEF Facts
<1>3. /\ pc \in {"put", "advance", "write", "wrap_end", "drop", "recount", "counted", "halt"} =>
           uart.start # UART_BUFFER_SIZE
      /\ pc \in {"put", "drop", "recount", "counted", "halt"} => uart.end # UART_BUFFER_SIZE
  BY <1>1 DEF Facts, Wrapping, Reading
<1>4. CASE pc = "put" /\ Step("advance", uart, uart.end, strb)
  <2>1. uart.end < UART_BUFFER_SIZE
    BY <1>2, <1>3, <1>4, Sizes
  <2>2. QED
    BY <1>1, <1>2, <1>3, <1>4, <2>1, StepBounded DEF Points
<1>5. CASE pc = "advance" /\ Step("write", [uart EXCEPT !.end = reg + 1], reg, strb)
  <2> DEFINE u == [uart EXCEPT !.end = reg + 1]
  <2>1. reg + 1 \in 0 .. UART_BUFFER_SIZE /\ reg < UART_BUFFER_SIZE
    BY <1>1, <1>5, Sizes
  <2>2. u \in Uart /\ u.start = uart.start /\ u.buffer = uart.buffer
    BY <1>2, <2>1, FieldTypes
  <2> HIDE DEF u
  <2>3. Step("write", u, reg, strb)
    BY <1>5 DEF u
  <2>4. QED
    BY <1>1, <1>2, <1>3, <1>5, <2>1, <2>2, <2>3, StepBounded DEF Points, Wrapping
<1>6. CASE pc = "write" /\ Step("wrap_end", Written(uart, reg, strb), 0, None)
  <2> DEFINE u == Written(uart, reg, strb)
  <2>1. reg \in Index /\ strb \in Bytes
    BY <1>1, <1>6, Sizes DEF Index
  <2>2. u \in Uart /\ u.start = uart.start
    BY <1>2, <2>1, WrittenType
  <2> HIDE DEF u
  <2>3. Step("wrap_end", u, 0, None)
    BY <1>6 DEF u
  <2>4. QED
    BY <1>1, <1>3, <1>6, <2>2, <2>3, StepBounded, Sizes DEF Points, Wrapping
<1>7. CASE pc = "wrap_end" /\ Step("drop", WrapEnd(uart), reg, strb)
  <2> DEFINE u == WrapEnd(uart)
  <2>1. u \in Uart /\ u.end < UART_BUFFER_SIZE /\ u.buffer = uart.buffer /\ u.start = uart.start
    BY <1>2, WrapEndType
  <2> HIDE DEF u
  <2>2. Step("drop", u, reg, strb)
    BY <1>7 DEF u
  <2>3. u.end # UART_BUFFER_SIZE
    BY <2>1, Sizes
  <2>4. QED
    BY <1>1, <1>2, <1>3, <1>7, <2>1, <2>2, <2>3, StepBounded DEF Points
<1>8. CASE pc = "drop" /\ Step("recount", DropOldest(uart), reg, strb)
  <2> DEFINE u == DropOldest(uart)
  <2>1. uart.end < UART_BUFFER_SIZE
    BY <1>2, <1>3, <1>8, Sizes
  <2>2. /\ u \in Uart /\ u.end = uart.end /\ u.buffer = uart.buffer
        /\ u.start # UART_BUFFER_SIZE
    BY <1>2, <1>3, <1>8, <2>1, DropOldestType
  <2> HIDE DEF u
  <2>3. Step("recount", u, reg, strb)
    BY <1>8 DEF u
  <2>4. QED
    BY <1>1, <1>2, <1>3, <1>8, <2>2, <2>3, StepBounded DEF Points
<1>9. CASE /\ pc = "recount"
           /\ Step(IF uart.count < UART_BUFFER_SIZE THEN "counted" ELSE "halt",
                   uart, uart.count, strb)
  <2> DEFINE p == IF uart.count < UART_BUFFER_SIZE THEN "counted" ELSE "halt"
  <2>1. p \in Points /\ (p = "counted" => uart.count < UART_BUFFER_SIZE)
        /\ p \notin {"leave", "load", "advance", "write", "uncount", "put"}
    BY DEF Points
  <2> HIDE DEF p
  <2>2. Step(p, uart, uart.count, strb)
    BY <1>9 DEF p
  <2>3. QED
    BY <1>1, <1>2, <1>3, <1>9, <2>1, <2>2, StepBounded
<1>10. CASE pc = "counted" /\ Step("halt", [uart EXCEPT !.count = reg + 1], 0, strb)
  <2> DEFINE u == [uart EXCEPT !.count = reg + 1]
  <2>1. reg + 1 \in 0 .. UART_BUFFER_SIZE /\ 0 \in 0 .. UART_BUFFER_SIZE
    BY <1>1, <1>10, Sizes
  <2>2. u \in Uart /\ u.start = uart.start /\ u.end = uart.end /\ u.buffer = uart.buffer
    BY <1>2, <2>1, FieldTypes
  <2> HIDE DEF u
  <2>3. Step("halt", u, 0, strb)
    BY <1>10 DEF u
  <2>4. QED
    BY <1>1, <1>2, <1>3, <1>10, <2>1, <2>2, <2>3, StepBounded DEF Points
<1>11. CASE pc = "halt" /\ Step("poll", Halt(uart), reg, strb)
  <2> DEFINE u == Halt(uart)
  <2>1. u \in Uart /\ u.end = uart.end /\ u.buffer = uart.buffer /\ u.start = uart.start
    BY <1>2, HaltType
  <2> HIDE DEF u
  <2>2. Step("poll", u, reg, strb)
    BY <1>11 DEF u
  <2>3. QED
    BY <1>1, <1>2, <1>3, <1>11, <2>1, <2>2, StepBounded DEF Points
<1>12. QED
  BY <1>4, <1>5, <1>6, <1>7, <1>8, <1>9, <1>10, <1>11 DEF Fill

(* The interrupt, wherever it comes, and the host. *)
LEMMA FillQueueBounded ==
  ASSUME Bounded, uart_fill_queue
  PROVE  Bounded'
<1> DEFINE P == {u \in Uart :
                 /\ u.start = UART_BUFFER_SIZE => uart.start = UART_BUFFER_SIZE
                 /\ u = uart \/ u.end < UART_BUFFER_SIZE}
<1>1. /\ Facts /\ fifo \in Seq(Bytes) /\ Len(fifo) \in Nat
      /\ uart' = Filled(uart, fifo)[Len(fifo)] /\ fifo' = <<>>
      /\ UNCHANGED <<pc, reg, strb, sent, obeys>>
  BY BoundedIs DEF uart_fill_queue, main
<1>2. uart \in P
  BY <1>1 DEF Facts
<1>3. ASSUME NEW i \in 1 .. Len(fifo), NEW v \in P PROVE Queued(v, fifo[i]) \in P
  <2>1. fifo[i] \in Bytes
    BY <1>1
  <2>2. QED
    BY <2>1, QueuedBounds DEF Sound
<1> HIDE DEF P
<1>4. uart' \in P
  BY <1>1, <1>2, <1>3, FilledKeeps
<1>5. Facts' /\ fifo' \in Seq(Bytes) /\ Len(fifo') <= FifoSize
  <2>1. uart' \in Uart
        /\ (uart'.start = UART_BUFFER_SIZE => uart.start = UART_BUFFER_SIZE)
        /\ (uart'.end = UART_BUFFER_SIZE => uart.end = UART_BUFFER_SIZE)
    BY <1>4, Sizes DEF P, Uart
  <2>2. <<>> \in Seq(Bytes) /\ Len(<<>>) = 0
    OBVIOUS
  <2>3. QED
    BY <1>1, <2>1, <2>2, Sizes DEF Facts
<1>6. QED
  BY <1>1, <1>5 DEF Bounded, InBounds, Facts, Wrapping, Reading

LEMMA ArriveBounded == Bounded /\ Arrive => Bounded'
<1> SUFFICES ASSUME Bounded, Arrive PROVE Bounded'
  OBVIOUS
<1>1. /\ fifo \in Seq(Bytes) /\ sent \in Bytes /\ Len(fifo) < FifoSize
      /\ fifo' = Append(fifo, sent) /\ sent' = (sent + 1) % Numbers
      /\ UNCHANGED <<uart, pc, reg, strb, obeys>>
  BY BoundedIs DEF Arrive, main
<1>2. sent' \in Bytes
  BY <1>1, Sizes DEF Bytes
<1>3. fifo' \in Seq(Bytes) /\ Len(fifo') <= FifoSize
  BY <1>1, Sizes
<1>4. QED
  BY <1>1, <1>2, <1>3 DEF Bounded, InBounds

LEMMA InitTyped == Init => Typed
<1> SUFFICES ASSUME Init PROVE Typed
  OBVIOUS
<1>1. /\ uart = [buffer |-> [i \in 0 .. UART_BUFFER_SIZE |-> None], start |-> 0, end |-> 0,
                 count |-> 0, rts_on |-> TRUE, low |-> TRUE]
      /\ pc = "top" /\ reg = 0 /\ strb = None /\ fifo = <<>> /\ sent = 0 /\ obeys \in BOOLEAN
  BY DEF Init
<1>2. uart \in Uart /\ uart.buffer[UART_BUFFER_SIZE] = None /\ uart.start = 0 /\ uart.end = 0
  BY <1>1, Sizes DEF Uart
<1>3. fifo \in Seq(Bytes) /\ Len(fifo) <= FifoSize
  <2>1. <<>> \in Seq(Bytes) /\ Len(<<>>) = 0
    OBVIOUS
  <2>2. QED
    BY <1>1, <2>1, Sizes
<1>4. 0 \in Bytes /\ 0 \in 0 .. UART_BUFFER_SIZE /\ UART_BUFFER_SIZE # 0
  BY Sizes DEF Bytes
<1>5. pc = "top" /\ reg = 0 /\ sent = 0 /\ strb = None /\ obeys \in BOOLEAN
  BY <1>1
<1>6. Facts /\ pc \in Points
  BY <1>2, <1>4, <1>5 DEF Facts, Points
<1>7. QED
  BY <1>2, <1>3, <1>4, <1>5, <1>6, TypedIs

LEMMA NextBounded == Bounded /\ [Next]_vars => Bounded'
<1>1. Bounded /\ UNCHANGED vars => Bounded'
  BY DEF vars, main, Bounded, InBounds
<1>2. QED
  BY <1>1, FillQueueBounded, ArriveBounded, OtherBounded, TakeBounded, FillBounded DEF Next, Main

(* Wherever the interrupt of the UART comes between two accesses of the    *)
(* main loop, in term_main_loop or in its own call of uart_fill_queue, the *)
(* two pointers and the count stay where they may be: what the main loop   *)
(* reads is in the buffer, and what either of them writes is in it or one  *)
(* slot behind it.                                                         *)
THEOREM RingInBounds == Spec => []InBounds
<1>1. Init => Bounded
  BY InitTyped DEF Typed
<1>2. Bounded /\ [Next]_vars => Bounded'
  BY NextBounded
<1>3. Bounded => InBounds
  BY DEF Bounded
<1>4. QED
  BY <1>1, <1>2, <1>3, PTL DEF Spec

(* The interrupt takes something. *)
LEMMA QueueEmpties == uart_fill_queue => fifo' # fifo
<1> SUFFICES ASSUME uart_fill_queue PROVE fifo' # fifo
  OBVIOUS
<1>1. Len(fifo) > 0 /\ fifo' = <<>>
  BY Sizes DEF uart_fill_queue
<1>2. QED
  BY <1>1

(* It writes into the buffer when the write pointer is there. *)
LEMMA FillQueueTyped ==
  ASSUME pc \notin Wrapping, Typed, uart_fill_queue
  PROVE  /\ Typed' /\ Sound(uart)
         /\ \A i \in 0 .. Len(fifo) : Sound(Filled(uart, fifo)[i])
<1> DEFINE P == {u \in Uart : Sound(u) /\ u.buffer[UART_BUFFER_SIZE] = None}
<1>1. /\ Facts /\ fifo \in Seq(Bytes) /\ uart.buffer[UART_BUFFER_SIZE] = None
      /\ uart' = Filled(uart, fifo)[Len(fifo)] /\ Len(fifo) \in Nat
  BY TypedIs, TypedBounded DEF uart_fill_queue
<1>2. uart \in P /\ Sound(uart)
  BY <1>1, FieldTypes, Sizes DEF Sound, Facts
<1>3. ASSUME NEW i \in 1 .. Len(fifo), NEW v \in P PROVE Queued(v, fifo[i]) \in P
  <2>1. fifo[i] \in Bytes
    BY <1>1
  <2>2. QED
    BY <2>1, QueuedBounds DEF Sound
<1> HIDE DEF P
<1>4. \A i \in 0 .. Len(fifo) : Filled(uart, fifo)[i] \in P
  BY <1>1, <1>2, <1>3, FilledKeeps
<1>5. \A i \in 0 .. Len(fifo) : Sound(Filled(uart, fifo)[i])
  BY <1>4 DEF P
<1>6. uart' \in P
  BY <1>1, <1>4
<1>7. QED
  BY <1>2, <1>5, <1>6, FillQueueBounded DEF P, Typed

(* The main loop writes one byte, into the buffer. *)
LEMMA MainTyped == Typed /\ Main => Typed'
<1> SUFFICES ASSUME Typed, Main PROVE Typed'
  OBVIOUS
<1>1. /\ Bounded /\ Bounded' /\ uart \in Uart /\ uart.buffer[UART_BUFFER_SIZE] = None
      /\ (pc = "write" => reg \in Index /\ strb \in Bytes)
  BY TypedIs, TypedBounded, OtherBounded, TakeBounded, FillBounded, Sizes DEF Main, Facts, Index
<1>2. uart'.buffer[UART_BUFFER_SIZE] = None
  <2>1. CASE Ready \/ Busy \/ Rts \/ Show \/ Poll \/ Read
    BY <1>1, <2>1 DEF Ready, Busy, Rts, Show, Poll, Read, Step
  <2>2. CASE Take
    BY <1>1, <2>2 DEF Take, Step, Uart
  <2>3. CASE Fill
    <3>1. CASE pc = "write"
      <4>1. uart' = Written(uart, reg, strb)
        BY <2>3, <3>1 DEF Fill, Step
      <4>2. QED
        BY <1>1, <3>1, <4>1, WrittenType
    <3>2. CASE pc \in {"put", "advance", "recount", "counted"}
      BY <1>1, <2>3, <3>2 DEF Fill, Step, Uart
    <3>3. CASE pc \in {"wrap_end", "drop", "halt"}
      BY <1>1, <2>3, <3>3 DEF Fill, Step, Uart, WrapEnd, DropOldest, Halt
    <3>4. QED
      BY <2>3, <3>1, <3>2, <3>3 DEF Fill
  <2>4. QED
    BY <2>1, <2>2, <2>3 DEF Main
<1>3. QED
  BY <1>1, <1>2 DEF Typed

LEMMA NextTyped ==
  ASSUME uart_fill_queue => pc \notin Wrapping, Typed, [Next]_vars
  PROVE  Typed'
<1>1. CASE UNCHANGED vars
  BY <1>1 DEF vars, main, Typed, Bounded, InBounds
<1>2. CASE uart_fill_queue
  BY <1>2, FillQueueTyped
<1>3. CASE Arrive
  <2>1. Bounded' /\ uart' = uart
    BY <1>3, TypedBounded, ArriveBounded DEF Arrive
  <2>2. QED
    BY <2>1 DEF Typed
<1>4. CASE Main
  BY <1>4, MainTyped
<1>5. QED
  BY <1>1, <1>2, <1>3, <1>4 DEF Next

(* The byte behind the buffer is never written either, as long as the      *)
(* interrupt keeps out of the two accesses of uart_fill_queue in the main  *)
(* loop between which the write pointer may lie behind the buffer.         *)
THEOREM RingTypeCorrect ==
  Spec /\ [][uart_fill_queue => pc \notin Wrapping]_vars => []TypeOK
<1>1. Init => Typed
  BY InitTyped
<1>2. Typed /\ [Next]_vars /\ [uart_fill_queue => pc \notin Wrapping]_vars => Typed'
  <2>1. UNCHANGED vars => ~uart_fill_queue
    BY QueueEmpties DEF vars
  <2>2. QED
    BY <2>1, NextTyped
<1>3. Typed => TypeOK
  BY DEF Typed, Bounded, TypeOK
<1>4. QED
  BY <1>1, <1>2, <1>3, PTL DEF Spec

-----------------------------------------------------------------------------
(* The pointers and the number of bytes between them. *)
LEMMA RingMoves ==
  ASSUME NEW s \in 0 .. UART_BUFFER_SIZE, NEW e \in 0 .. UART_BUFFER_SIZE
  PROVE  /\ Slot(s) \in Index /\ Distance(Slot(s), Slot(e)) \in Index
         /\ (Distance(Slot(s), Slot(e)) = 0) <=> (Slot(s) = Slot(e))
         /\ e < UART_BUFFER_SIZE /\ Distance(Slot(s), Slot(e)) + 1 < UART_BUFFER_SIZE =>
              /\ Slot(e + 1) # Slot(s) /\ Slot(e + 1) < UART_BUFFER_SIZE
              /\ Distance(Slot(s), Slot(e + 1)) = Distance(Slot(s), Slot(e)) + 1
         /\ s < UART_BUFFER_SIZE /\ Distance(Slot(s), Slot(e)) > 0 =>
              Distance(Slot(s + 1), Slot(e)) = Distance(Slot(s), Slot(e)) - 1
BY Sizes DEF Slot, Distance, Index

LEMMA SlotTwice ==
  ASSUME NEW s \in 0 .. UART_BUFFER_SIZE
  PROVE  Slot(Slot(s)) = Slot(s) /\ (s < UART_BUFFER_SIZE => Slot(s) = s)
BY Sizes DEF Slot

LEMMA DistanceIsLength ==
  ASSUME NEW s \in Index, NEW e \in Index
  PROVE  (e - s) % UART_BUFFER_SIZE = Distance(s, e)
BY Sizes, Z3 DEF Index, Distance

LEMMA QueuedCounts ==
  ASSUME NEW u, Sound(u), NEW b \in Bytes, Ring(u) + 1 < UART_BUFFER_SIZE,
         u.count < UART_BUFFER_SIZE
  PROVE  /\ Queued(u, b).start = u.start
         /\ Ring(Queued(u, b)) = Ring(u) + 1
         /\ Queued(u, b).count = u.count + 1
         /\ Queued(u, b).rts_on = (u.rts_on /\ u.count + 1 <= RTS_OFF_LIMIT)
         /\ Queued(u, b).low = (u.low /\ ~(u.rts_on /\ u.count + 1 > RTS_OFF_LIMIT))
<1>1. u.start \in 0 .. UART_BUFFER_SIZE /\ u.end \in 0 .. UART_BUFFER_SIZE
      /\ u.end < UART_BUFFER_SIZE
  BY DEF Sound, Uart
<1>2. /\ Slot(u.end + 1) # Slot(u.start) /\ Slot(u.end + 1) < UART_BUFFER_SIZE
      /\ Distance(Slot(u.start), Slot(u.end + 1)) = Ring(u) + 1
  BY <1>1, RingMoves DEF Ring
<1>3. Slot(u.end + 1) # u.start
  BY <1>1, <1>2, SlotTwice, Sizes
<1>4. Slot(Slot(u.end + 1)) = Slot(u.end + 1)
  <2>1. u.end + 1 \in 0 .. UART_BUFFER_SIZE
    BY <1>1, Sizes
  <2>2. QED
    BY <2>1, SlotTwice
<1>5. QED
  BY <1>2, <1>3, <1>4, QueuedType DEF Ring

(* The interrupt counts every byte, and raises the line when the count     *)
(* passes the limit.                                                       *)
After(u, i, v) ==
  /\ v.start = u.start /\ Ring(v) = Ring(u) + i /\ v.count = u.count + i
  /\ v.rts_on = (u.rts_on /\ (i = 0 \/ u.count + i <= RTS_OFF_LIMIT))
  /\ v.low = (u.low /\ ~(u.rts_on /\ i # 0 /\ u.count + i > RTS_OFF_LIMIT))

LEMMA FilledCounts ==
  ASSUME NEW u, NEW bs \in Seq(Bytes),
         \A i \in 0 .. Len(bs) : Sound(Filled(u, bs)[i]),
         Ring(u) + Len(bs) < UART_BUFFER_SIZE, u.count + Len(bs) <= UART_BUFFER_SIZE
  PROVE  \A i \in 0 .. Len(bs) : After(u, i, Filled(u, bs)[i])
<1> DEFINE f == Filled(u, bs)
           Bad == {i \in 0 .. Len(bs) : ~After(u, i, f[i])}
<1>1. SUFFICES ASSUME Bad # {} PROVE FALSE
  OBVIOUS
<1>2. PICK n \in Bad : \A m \in Bad : n <= m
  <2>1. Bad \subseteq Nat
    OBVIOUS
  <2> HIDE DEF Bad
  <2>2. QED
    BY <1>1, <2>1, LeastNatural
<1>3. f[0] = u /\ \A i \in 1 .. Len(bs) : f[i] = Queued(f[i - 1], bs[i])
  BY FilledOneByOne
<1>4. Len(bs) \in Nat /\ 0 \in 0 .. Len(bs)
  OBVIOUS
<1>5. Sound(u)
  BY <1>3, <1>4
<1>6. /\ u.count \in Nat /\ u.rts_on \in BOOLEAN /\ u.low \in BOOLEAN /\ Ring(u) \in Nat
  <2>1. /\ u.count \in Nat /\ u.rts_on \in BOOLEAN /\ u.low \in BOOLEAN
        /\ u.start \in 0 .. UART_BUFFER_SIZE /\ u.end \in 0 .. UART_BUFFER_SIZE
    BY <1>5, Sizes DEF Sound, Uart
  <2>2. QED
    BY <2>1, RingMoves DEF Ring, Index
<1>7. n # 0
  <2>1. After(u, 0, u)
    BY <1>6 DEF After
  <2>2. QED
    BY <1>2, <1>3, <2>1
<1>8. n \in 1 .. Len(bs) /\ n - 1 \in 0 .. Len(bs) /\ n - 1 \notin Bad
  BY <1>2, <1>4, <1>7
<1>9. bs[n] \in Bytes /\ Sound(f[n - 1]) /\ f[n] = Queued(f[n - 1], bs[n])
  BY <1>3, <1>8
<1>10. After(u, n - 1, f[n - 1])
  BY <1>8
<1> DEFINE v == f[n - 1]
           w == f[n]
<1>11. Sound(v) /\ After(u, n - 1, v) /\ w = Queued(v, bs[n])
  BY <1>9, <1>10
<1>12. ~After(u, n, w)
  BY <1>2
<1> HIDE DEF f, Bad, v, w
<1>13. Ring(v) + 1 < UART_BUFFER_SIZE /\ v.count < UART_BUFFER_SIZE
  BY <1>6, <1>8, <1>11, Sizes DEF After
<1>14. /\ w.start = v.start /\ Ring(w) = Ring(v) + 1 /\ w.count = v.count + 1
       /\ w.rts_on = (v.rts_on /\ v.count + 1 <= RTS_OFF_LIMIT)
       /\ w.low = (v.low /\ ~(v.rts_on /\ v.count + 1 > RTS_OFF_LIMIT))
  BY <1>9, <1>11, <1>13, QueuedCounts
<1>15. w.start = u.start /\ Ring(w) = Ring(u) + n /\ w.count = u.count + n
  BY <1>6, <1>8, <1>11, <1>14, SMTT(60) DEF After
<1>16. v.rts_on = (u.rts_on /\ (n - 1 = 0 \/ u.count + (n - 1) <= RTS_OFF_LIMIT))
       /\ v.low = (u.low /\ ~(u.rts_on /\ n - 1 # 0 /\ u.count + (n - 1) > RTS_OFF_LIMIT))
       /\ v.count + 1 = u.count + n
  BY <1>6, <1>8, <1>11 DEF After
<1>17. w.rts_on = (u.rts_on /\ (n = 0 \/ u.count + n <= RTS_OFF_LIMIT))
  BY <1>6, <1>7, <1>8, <1>14, <1>16, Sizes
<1>18. w.low = (u.low /\ ~(u.rts_on /\ n # 0 /\ u.count + n > RTS_OFF_LIMIT))
  BY <1>6, <1>7, <1>8, <1>14, <1>16, Sizes, SMTT(60)
<1>19. QED
  BY <1>12, <1>15, <1>17, <1>18 DEF After

-----------------------------------------------------------------------------
(* The count: one lemma for each group of actions. *)
LEMMA Numbers1 ==
  ASSUME Typed
  PROVE  /\ Ring(uart) \in Nat /\ Ring(uart) < UART_BUFFER_SIZE
         /\ uart.count \in 0 .. UART_BUFFER_SIZE /\ uart.rts_on \in BOOLEAN /\ uart.low \in BOOLEAN
         /\ Len(fifo) \in Nat /\ Len(fifo) <= FifoSize
         /\ uart.start \in 0 .. UART_BUFFER_SIZE /\ uart.end \in 0 .. UART_BUFFER_SIZE
         /\ uart \in Uart /\ reg \in 0 .. UART_BUFFER_SIZE
<1>1. /\ uart \in Uart /\ fifo \in Seq(Bytes) /\ Len(fifo) <= FifoSize
      /\ reg \in 0 .. UART_BUFFER_SIZE
  BY TypedIs DEF Facts
<1>2. Ring(uart) \in Index
  BY <1>1, FieldTypes, RingMoves DEF Ring
<1>3. QED
  BY <1>1, <1>2, FieldTypes, Sizes DEF Index

LEMMA OtherCounts ==
  ASSUME LimitsApart, Typed, obeys, Counted, Room, Line, Loaded,
         Ready \/ Busy \/ Rts \/ Show \/ Poll \/ Read
  PROVE  (Counted /\ Room /\ Line /\ Loaded)'
<1> DEFINE n == Ring(uart)
<1>1. /\ n \in Nat /\ uart.count \in Nat /\ Len(fifo) \in Nat /\ Len(fifo) <= FifoSize
  BY Numbers1, Sizes
<1>2. uart' = uart /\ Ring(uart)' = n
  BY DEF Ready, Busy, Rts, Show, Poll, Read, Step
<1>3. CASE Ready \/ Busy
  <2>1. pc = "top" /\ pc' \in {"take", "poll"} /\ fifo' = fifo
        /\ (pc' = "take" => uart.start # uart.end)
    BY <1>3 DEF Ready, Busy, Step
  <2>2. pc' = "take" => n >= 1
    <3>1. uart.end # UART_BUFFER_SIZE /\ uart.start # UART_BUFFER_SIZE
      BY <2>1, TypedIs DEF Facts, Wrapping, Reading
    <3>2. n = 0 <=> uart.start = uart.end
      BY <3>1, Numbers1, RingMoves DEF Ring, Slot
    <3>3. QED
      BY <1>1, <2>1, <3>2
  <2> HIDE DEF n
  <2>3. uart.count = n /\ n + Len(fifo) <= RTS_OFF_LIMIT + 1 + FifoSize
    BY <2>1, <1>1, Sizes DEF Counted, Room, Putting1, n
  <2>4. QED
    BY <1>1, <1>2, <2>1, <2>2, <2>3, Sizes DEF Counted, Room, Putting1, Line, Loaded
<1>4. CASE Rts
  <2>1. pc = "rts" /\ pc' \in {"resume", "wrap_start"} /\ fifo' = fifo
        /\ (pc' = "resume" => ~uart.rts_on /\ uart.count < RTS_ON_LIMIT)
    BY <1>4 DEF Rts, Step
  <2>2. pc' = "resume" => uart.count + Len(fifo) <= RTS_OFF_LIMIT
    BY <1>1, <2>1, Sizes DEF LimitsApart
  <2> HIDE DEF n
  <2>3. uart.count = n /\ n + Len(fifo) <= RTS_OFF_LIMIT + 1 + FifoSize
    BY <2>1, <1>1, Sizes DEF Counted, Room, Putting1, n
  <2>4. QED
    BY <1>1, <1>2, <2>1, <2>2, <2>3, Sizes DEF Counted, Room, Putting1, Line, Loaded
<1>5. CASE Show \/ Poll
  <2>1. pc \in {"show", "poll"} /\ pc' \in {"poll", "read", "top"} /\ fifo' = fifo
    BY <1>5 DEF Show, Poll, Step
  <2> HIDE DEF n
  <2>3. uart.count = n /\ n + Len(fifo) <= RTS_OFF_LIMIT + 1 + FifoSize
    BY <2>1, <1>1, Sizes DEF Counted, Room, Putting1, n
  <2>4. QED
    BY <1>1, <1>2, <2>1, <2>3, Sizes DEF Counted, Room, Putting1, Line, Loaded
<1>6. CASE Read
  <2>1. pc = "read" /\ pc' = "put" /\ fifo # <<>> /\ fifo' = Tail(fifo)
    BY <1>6 DEF Read, Step
  <2>2. Len(fifo') = Len(fifo) - 1
    BY <2>1, TypedIs
  <2> HIDE DEF n
  <2>3. uart.count = n /\ n + Len(fifo) <= RTS_OFF_LIMIT + 1 + FifoSize
    BY <2>1, <1>1, Sizes DEF Counted, Room, Putting1, n
  <2>4. QED
    BY <1>1, <1>2, <2>1, <2>2, <2>3, Sizes DEF Counted, Room, Putting1, Line, Loaded
<1>7. QED
  BY <1>3, <1>4, <1>5, <1>6

LEMMA TakeCounts ==
  ASSUME Typed, obeys, Counted, Room, Line, Loaded, Take
  PROVE  (Counted /\ Room /\ Line /\ Loaded)'
<1> DEFINE n == Ring(uart)
           k == uart.count
<1>1. /\ n \in Nat /\ n < UART_BUFFER_SIZE /\ k \in Nat /\ Len(fifo) \in Nat
      /\ Len(fifo) <= FifoSize /\ uart.rts_on \in BOOLEAN /\ uart.low \in BOOLEAN
      /\ uart \in Uart /\ reg \in 0 .. UART_BUFFER_SIZE /\ k <= UART_BUFFER_SIZE
  BY Numbers1, Sizes
<1>2. fifo' = fifo
  BY DEF Take
<1>3. ASSUME pc \notin {"write", "wrap_end", "drop", "recount", "counted", "put", "advance"}
      PROVE  /\ k = IF pc \in {"load", "count", "uncount"} THEN n + 1 ELSE n
             /\ n + Len(fifo) <= RTS_OFF_LIMIT + 1 + FifoSize
  BY <1>1, <1>3, Sizes DEF Counted, Room, Putting1
<1>4. CASE uart' = uart /\ pc \in {"take", "load", "count"}
  <2>1. Ring(uart)' = n
    BY <1>4
  <2>2. \/ pc = "take" /\ pc' = "leave" /\ reg' = uart.start
        \/ pc = "load" /\ pc' = "count"
        \/ pc = "count" /\ pc' = (IF k > 0 THEN "uncount" ELSE "rts") /\ reg' = k
    BY <1>4 DEF Take, Step
  <2> HIDE DEF n, k
  <2>3. \/ pc = "take" /\ pc' = "leave" /\ reg' = uart.start
        \/ pc = "load" /\ pc' = "count"
        \/ pc = "count" /\ pc' = "uncount" /\ reg' = k
    BY <1>1, <1>3, <1>4, <2>2
  <2>4. uart.count = k /\ Ring(uart) = n
    BY DEF n, k
  <2>5. QED
    BY <1>1, <1>2, <1>3, <1>4, <2>1, <2>3, <2>4, Sizes DEF Counted, Room, Putting1, Line, Loaded
<1>5. CASE pc = "leave"
  <2>1. uart' = [uart EXCEPT !.start = reg + 1] /\ pc' = "load"
    BY <1>5 DEF Take, Step
  <2>2. n >= 1 /\ reg = uart.start /\ reg < UART_BUFFER_SIZE
    BY <1>5, TypedIs DEF Loaded
  <2>3. reg + 1 \in 0 .. UART_BUFFER_SIZE
    BY <1>1, <2>2, Sizes
  <2>4. /\ uart'.start = reg + 1 /\ uart'.end = uart.end /\ uart'.count = k
        /\ uart'.rts_on = uart.rts_on /\ uart'.low = uart.low
    BY <1>1, <2>1, <2>3, FieldTypes
  <2>5. Ring(uart)' = n - 1
    BY <1>1, <2>2, <2>4, Numbers1, RingMoves DEF Ring
  <2> HIDE DEF n, k
  <2>6. uart.count = k /\ Ring(uart) = n
    BY DEF n, k
  <2>7. QED
    BY <1>1, <1>2, <1>3, <1>5, <2>1, <2>2, <2>4, <2>5, <2>6, Sizes
    DEF Counted, Room, Putting1, Line, Loaded
<1>6. CASE pc = "uncount"
  <2>1. uart' = [uart EXCEPT !.count = reg - 1] /\ pc' = "rts"
    BY <1>6 DEF Take, Step
  <2>2. reg = k
    BY <1>6 DEF Loaded
  <2>3. reg - 1 \in 0 .. UART_BUFFER_SIZE
    BY <1>1, <1>3, <1>6, <2>2, Sizes
  <2>4. /\ uart'.start = uart.start /\ uart'.end = uart.end /\ uart'.count = k - 1
        /\ uart'.rts_on = uart.rts_on /\ uart'.low = uart.low
    BY <1>1, <2>1, <2>2, <2>3, FieldTypes
  <2>5. Ring(uart)' = n
    BY <2>4 DEF Ring
  <2> HIDE DEF n, k
  <2>6. uart.count = k /\ Ring(uart) = n
    BY DEF n, k
  <2>7. Counted' /\ Room' /\ Loaded'
    BY <1>1, <1>2, <1>3, <1>6, <2>1, <2>2, <2>4, <2>5, <2>6, Sizes
    DEF Counted, Room, Putting1, Loaded
  <2>8. Line'
    <3>1. uart.rts_on = uart.low /\ (uart.low => k <= RTS_OFF_LIMIT)
      BY <1>6, <2>6 DEF Line
    <3>2. uart'.rts_on = uart'.low /\ (uart'.low => uart'.count <= RTS_OFF_LIMIT)
      BY <1>1, <2>4, <3>1, Sizes
    <3>3. QED
      BY <2>1, <3>2 DEF Line
  <2>9. QED
    BY <2>7, <2>8
<1>7. CASE pc \in {"resume", "low"}
  <2>1. \/ pc = "resume" /\ uart' = [uart EXCEPT !.rts_on = TRUE] /\ pc' = "low"
        \/ pc = "low" /\ uart' = [uart EXCEPT !.low = TRUE] /\ pc' = "wrap_start"
    BY <1>7 DEF Take, Step
  <2>2. /\ uart'.start = uart.start /\ uart'.end = uart.end /\ uart'.count = k
        /\ \/ pc = "resume" /\ uart'.rts_on = TRUE /\ uart'.low = uart.low /\ pc' = "low"
           \/ pc = "low" /\ uart'.rts_on = uart.rts_on /\ uart'.low = TRUE /\ pc' = "wrap_start"
    BY <1>1, <2>1, FieldTypes
  <2>3. Ring(uart)' = n
    BY <2>2 DEF Ring
  <2> HIDE DEF n, k
  <2>4. uart.count = k /\ Ring(uart) = n
    BY DEF n, k
  <2>5. k + Len(fifo) <= RTS_OFF_LIMIT /\ (pc = "resume" => ~uart.rts_on /\ ~uart.low)
        /\ (pc = "low" => uart.rts_on)
    BY <1>7, <2>4 DEF Line
  <2>6. Counted' /\ Room' /\ Loaded'
    BY <1>1, <1>2, <1>3, <1>7, <2>2, <2>3, <2>4, Sizes DEF Counted, Room, Putting1, Loaded
  <2>7. Line'
    <3>1. CASE pc = "resume"
      <4>1. pc' = "low" /\ uart'.rts_on /\ ~uart'.low
        BY <2>2, <2>5, <3>1
      <4>2. uart'.count + Len(fifo') <= RTS_OFF_LIMIT
        BY <1>2, <2>2, <2>5
      <4>3. QED
        BY <4>1, <4>2 DEF Line
    <3>2. CASE pc = "low"
      <4>1. pc' = "wrap_start" /\ uart'.rts_on = TRUE /\ uart'.low = TRUE
        BY <1>1, <2>2, <2>5, <3>2
      <4>2. uart'.count <= RTS_OFF_LIMIT
        BY <1>1, <2>2, <2>5, Sizes
      <4>3. QED
        BY <4>1, <4>2 DEF Line
    <3>3. QED
      BY <1>7, <3>1, <3>2
  <2>8. QED
    BY <2>6, <2>7
<1>8. CASE pc = "wrap_start"
  <2> DEFINE s == IF uart.start >= UART_BUFFER_SIZE THEN 0 ELSE uart.start
  <2>1. uart' = [uart EXCEPT !.start = s] /\ pc' = "show"
    BY <1>8 DEF Take, Step
  <2>2. s \in 0 .. UART_BUFFER_SIZE /\ Slot(s) = Slot(uart.start)
    BY Numbers1, Sizes DEF Slot
  <2> HIDE DEF s
  <2>4. /\ uart'.start = s /\ uart'.end = uart.end /\ uart'.count = k
        /\ uart'.rts_on = uart.rts_on /\ uart'.low = uart.low
    BY <1>1, <2>1, <2>2, FieldTypes
  <2>5. Ring(uart)' = n
    BY <2>2, <2>4 DEF Ring
  <2> HIDE DEF n, k
  <2>6. uart.count = k /\ Ring(uart) = n
    BY DEF n, k
  <2>7. QED
    BY <1>1, <1>2, <1>3, <1>8, <2>1, <2>4, <2>5, <2>6, Sizes
    DEF Counted, Room, Putting1, Line, Loaded
<1>9. \/ uart' = uart /\ pc \in {"take", "load", "count"}
      \/ pc \in {"leave", "uncount", "resume", "low", "wrap_start"}
  BY DEF Take, Step
<1>10. QED
  BY <1>4, <1>5, <1>6, <1>7, <1>8, <1>9

LEMMA FillCounts ==
  ASSUME Typed, obeys, Counted, Room, Line, Loaded, Fill
  PROVE  (Counted /\ Room /\ Line /\ Loaded)'
<1> DEFINE n == Ring(uart)
           k == uart.count
<1>1. /\ n \in Nat /\ n < UART_BUFFER_SIZE /\ k \in Nat /\ Len(fifo) \in Nat
      /\ Len(fifo) <= FifoSize /\ uart.rts_on \in BOOLEAN /\ uart.low \in BOOLEAN
      /\ uart \in Uart /\ reg \in 0 .. UART_BUFFER_SIZE /\ k <= UART_BUFFER_SIZE
  BY Numbers1, Sizes
<1>2. fifo' = fifo
  BY DEF Fill
<1>3. ASSUME pc \in {"put", "advance", "write", "wrap_end", "drop", "recount", "counted", "halt"}
      PROVE  /\ k = IF pc \in {"put", "advance", "halt"} THEN n ELSE n - 1
             /\ n + (IF pc \in {"put", "advance"} THEN 1 ELSE 0) + Len(fifo) <=
                  RTS_OFF_LIMIT + 1 + FifoSize
             /\ uart.rts_on = uart.low
             /\ uart.low => k <= IF pc = "halt" THEN RTS_OFF_LIMIT + 1 ELSE RTS_OFF_LIMIT
  BY <1>1, <1>3, Sizes DEF Counted, Room, Putting1, Line
<1>4. CASE uart' = uart /\ pc \in {"put", "recount"}
  <2>1. Ring(uart)' = n
    BY <1>4
  <2>2. \/ pc = "put" /\ pc' = "advance" /\ reg' = uart.end
        \/ pc = "recount" /\ pc' = (IF k < UART_BUFFER_SIZE THEN "counted" ELSE "halt") /\ reg' = k
    BY <1>4 DEF Fill, Step
  <2>3. pc = "recount" => k < UART_BUFFER_SIZE
    BY <1>1, <1>3, Sizes
  <2> HIDE DEF n, k
  <2>4. uart.count = k /\ Ring(uart) = n
    BY DEF n, k
  <2>5. QED
    BY <1>1, <1>2, <1>3, <1>4, <2>1, <2>2, <2>3, <2>4, Sizes
    DEF Counted, Room, Putting1, Line, Loaded
<1>5. CASE pc = "advance"
  <2>1. uart' = [uart EXCEPT !.end = reg + 1] /\ pc' = "write"
    BY <1>5 DEF Fill, Step
  <2>2. reg = uart.end /\ reg < UART_BUFFER_SIZE
    BY <1>5, TypedIs DEF Loaded
  <2>3. reg + 1 \in 0 .. UART_BUFFER_SIZE
    BY <1>1, <2>2, Sizes
  <2>4. /\ uart'.start = uart.start /\ uart'.end = reg + 1 /\ uart'.count = k
        /\ uart'.rts_on = uart.rts_on /\ uart'.low = uart.low
    BY <1>1, <2>1, <2>3, FieldTypes
  <2>5. n + 1 < UART_BUFFER_SIZE
    BY <1>1, <1>3, <1>5, Sizes
  <2>6. Ring(uart)' = n + 1
    BY <1>1, <2>2, <2>4, <2>5, Numbers1, RingMoves DEF Ring
  <2> HIDE DEF n, k
  <2>7. uart.count = k /\ Ring(uart) = n
    BY DEF n, k
  <2>8. k = n /\ n + 1 + Len(fifo) <= RTS_OFF_LIMIT + 1 + FifoSize
    BY <1>3, <1>5
  <2>9. Counted' /\ Room' /\ Loaded'
    BY <1>1, <1>2, <2>1, <2>4, <2>6, <2>8, Sizes, SMTT(60) DEF Counted, Room, Putting1, Loaded
  <2>10. Line'
    BY <1>3, <1>5, <2>1, <2>4 DEF Line
  <2>11. QED
    BY <2>9, <2>10
<1>6. CASE pc \in {"write", "wrap_end", "drop"}
  <2>1. \/ pc = "write" /\ uart' = Written(uart, reg, strb) /\ pc' = "wrap_end"
        \/ pc = "wrap_end" /\ uart' = WrapEnd(uart) /\ pc' = "drop"
        \/ pc = "drop" /\ uart' = DropOldest(uart) /\ pc' = "recount"
    BY <1>6 DEF Fill, Step
  <2>2. /\ Slot(uart'.start) = Slot(uart.start) /\ Slot(uart'.end) = Slot(uart.end)
        /\ uart'.count = k /\ uart'.rts_on = uart.rts_on /\ uart'.low = uart.low
    <3>1. CASE pc = "write"
      <4>1. reg \in Index /\ strb \in Bytes /\ uart.buffer[UART_BUFFER_SIZE] = None
        BY <1>1, <3>1, TypedIs, Sizes DEF Index, Facts
      <4>2. QED
        BY <1>1, <2>1, <3>1, <4>1, WrittenType
    <3>2. CASE pc = "wrap_end"
      <4>1. uart' = WrapEnd(uart) /\ Slot(Slot(uart.end)) = Slot(uart.end)
        BY <2>1, <3>2, Numbers1, SlotTwice
      <4>2. QED
        BY <1>1, <4>1, WrapEndType
    <3>3. CASE pc = "drop"
      <4>1. /\ uart.end # UART_BUFFER_SIZE /\ uart.start # UART_BUFFER_SIZE
            /\ uart.end \in 0 .. UART_BUFFER_SIZE
        BY <1>1, <3>3, TypedIs, FieldTypes DEF Facts, Wrapping, Reading
      <4>2. n # 0
        <5>1. k = n - 1
          BY <1>3, <3>3
        <5>2. QED
          BY <1>1, <5>1
      <4>3. uart.end # uart.start /\ uart.end < UART_BUFFER_SIZE
        BY <4>1, <4>2, Numbers1, RingMoves, Sizes DEF Ring
      <4>4. QED
        BY <1>1, <2>1, <3>3, <4>3, DropOldestType
    <3>4. QED
      BY <1>6, <3>1, <3>2, <3>3
  <2>3. Ring(uart)' = n
    BY <2>2 DEF Ring
  <2>4. \/ pc = "write" /\ pc' = "wrap_end"
        \/ pc = "wrap_end" /\ pc' = "drop"
        \/ pc = "drop" /\ pc' = "recount"
    BY <2>1
  <2> HIDE DEF n, k
  <2>5. uart.count = k /\ Ring(uart) = n
    BY DEF n, k
  <2>6. QED
    BY <1>1, <1>2, <1>3, <1>6, <2>2, <2>3, <2>4, <2>5, Sizes
    DEF Counted, Room, Putting1, Line, Loaded
<1>7. CASE pc = "counted"
  <2>1. uart' = [uart EXCEPT !.count = reg + 1] /\ pc' = "halt"
    BY <1>7 DEF Fill, Step
  <2>2. reg = k /\ reg < UART_BUFFER_SIZE
    BY <1>7, TypedIs DEF Loaded
  <2>3. reg + 1 \in 0 .. UART_BUFFER_SIZE
    BY <1>1, <2>2, Sizes
  <2>4. /\ uart'.start = uart.start /\ uart'.end = uart.end /\ uart'.count = k + 1
        /\ uart'.rts_on = uart.rts_on /\ uart'.low = uart.low
    BY <1>1, <2>1, <2>2, <2>3, FieldTypes
  <2>5. Ring(uart)' = n
    BY <2>4 DEF Ring
  <2> HIDE DEF n, k
  <2>6. uart.count = k /\ Ring(uart) = n
    BY DEF n, k
  <2>7. QED
    BY <1>1, <1>2, <1>3, <1>7, <2>1, <2>4, <2>5, <2>6, Sizes
    DEF Counted, Room, Putting1, Line, Loaded
<1>8. CASE pc = "halt"
  <2>1. uart' = Halt(uart) /\ pc' = "poll"
    BY <1>8 DEF Fill, Step
  <2>2. /\ uart'.start = uart.start /\ uart'.end = uart.end /\ uart'.count = k
        /\ uart'.rts_on = (uart.rts_on /\ k <= RTS_OFF_LIMIT)
        /\ uart'.low = (uart.low /\ ~(uart.rts_on /\ k > RTS_OFF_LIMIT))
    BY <1>1, <2>1, HaltType
  <2>3. Ring(uart)' = n
    BY <2>2 DEF Ring
  <2> HIDE DEF n, k
  <2>4. uart.count = k /\ Ring(uart) = n
    BY DEF n, k
  <2>5. Counted' /\ Room' /\ Loaded'
    BY <1>1, <1>2, <1>3, <1>8, <2>1, <2>2, <2>3, <2>4, Sizes DEF Counted, Room, Putting1, Loaded
  <2>6. uart'.rts_on = uart'.low /\ (uart'.low => uart'.count <= RTS_OFF_LIMIT)
    <3>1. uart.rts_on = uart.low
      BY <1>3, <1>8
    <3>2. CASE k <= RTS_OFF_LIMIT
      <4>1. ~(k > RTS_OFF_LIMIT)
        BY <1>1, <3>2, Sizes
      <4>2. uart'.rts_on = uart.rts_on /\ uart'.low = uart.low
        BY <1>1, <2>2, <3>2, <4>1, Zenon
      <4>3. QED
        BY <2>2, <3>1, <3>2, <4>2
    <3>3. CASE ~(k <= RTS_OFF_LIMIT)
      <4>1. k > RTS_OFF_LIMIT
        BY <1>1, <3>3, Sizes
      <4>2. uart'.rts_on = FALSE /\ uart'.low = FALSE
        BY <1>1, <2>2, <3>1, <3>3, <4>1, Zenon
      <4>3. QED
        BY <4>2
    <3>4. QED
      BY <3>2, <3>3
  <2>7. QED
    BY <2>1, <2>5, <2>6 DEF Line
<1>9. \/ uart' = uart /\ pc \in {"put", "recount"}
      \/ pc \in {"advance", "write", "wrap_end", "drop", "counted", "halt"}
  BY DEF Fill, Step
<1>10. QED
  BY <1>4, <1>5, <1>6, <1>7, <1>8, <1>9

LEMMA FillQueueCounts ==
  ASSUME pc \notin Updating, Typed, obeys, Counted, Room, Line, Loaded, uart_fill_queue
  PROVE  (Counted /\ Room /\ Line /\ Loaded)'
<1> DEFINE n == Ring(uart)
           k == uart.count
           m == Len(fifo)
<1>1. /\ n \in Nat /\ n < UART_BUFFER_SIZE /\ k \in Nat /\ m \in Nat
      /\ m <= FifoSize /\ uart.rts_on \in BOOLEAN /\ uart.low \in BOOLEAN
      /\ fifo \in Seq(Bytes)
  BY Numbers1, TypedIs, Sizes
<1>2. /\ pc \notin Updating /\ pc' = pc /\ reg' = reg /\ Len(fifo') = 0 /\ m > 0
      /\ uart' = Filled(uart, fifo)[m]
  BY <1>1, Sizes DEF uart_fill_queue, main
<1>3. /\ k = IF pc \in {"load", "count"} THEN n + 1
             ELSE IF pc \in {"drop", "recount"} THEN n - 1 ELSE n
      /\ n + m <= RTS_OFF_LIMIT + 1 + FifoSize
  BY <1>1, <1>2, Sizes DEF Counted, Room, Putting1, Updating, Wrapping
<1>4. After(uart, m, uart')
  <2>1. \A i \in 0 .. m : Sound(Filled(uart, fifo)[i])
    BY FillQueueTyped DEF Updating
  <2>2. n + m < UART_BUFFER_SIZE /\ k + m <= UART_BUFFER_SIZE
    BY <1>1, <1>3, Sizes
  <2>3. \A i \in 0 .. m : After(uart, i, Filled(uart, fifo)[i])
    BY <1>1, <2>1, <2>2, FilledCounts
  <2>4. QED
    BY <1>1, <1>2, <2>3
<1>5. /\ uart'.start = uart.start /\ Ring(uart)' = n + m /\ uart'.count = k + m
      /\ uart'.rts_on = (uart.rts_on /\ k + m <= RTS_OFF_LIMIT)
      /\ uart'.low = (uart.low /\ ~(uart.rts_on /\ k + m > RTS_OFF_LIMIT))
  BY <1>1, <1>2, <1>4 DEF After
<1> HIDE DEF n, k, m
<1>6. uart.count = k /\ Ring(uart) = n /\ Len(fifo) = m
  BY DEF n, k, m
<1>7. Counted' /\ Room' /\ Loaded'
  BY <1>1, <1>2, <1>3, <1>5, <1>6, Sizes
  DEF Counted, Room, Putting1, Loaded, Updating, Wrapping
<1>8. CASE pc = "low"
  <2>1. uart.rts_on /\ ~uart.low /\ k + m <= RTS_OFF_LIMIT
    BY <1>6, <1>8 DEF Line
  <2>2. uart'.rts_on /\ ~uart'.low
    <3>1. uart'.rts_on = TRUE /\ uart'.low = FALSE
      BY <1>1, <1>5, <2>1, Zenon
    <3>2. QED
      BY <3>1
  <2>3. uart'.count + Len(fifo') <= RTS_OFF_LIMIT
    BY <1>1, <1>2, <1>5, <2>1, Sizes
  <2>4. QED
    BY <1>2, <1>7, <1>8, <2>2, <2>3 DEF Line
<1>9. CASE pc # "low"
  <2>1. uart.rts_on = uart.low /\ (pc = "resume" => ~uart.rts_on /\ k + m <= RTS_OFF_LIMIT)
    BY <1>6, <1>9 DEF Line
  <2>2. /\ uart'.rts_on = uart'.low /\ (uart'.low => uart'.count <= RTS_OFF_LIMIT)
        /\ (pc = "resume" => ~uart'.rts_on)
    <3>1. CASE k + m <= RTS_OFF_LIMIT
      <4>1. ~(k + m > RTS_OFF_LIMIT)
        BY <1>1, <3>1, Sizes
      <4>2. uart'.rts_on = uart.rts_on /\ uart'.low = uart.low
        BY <1>1, <1>5, <3>1, <4>1, Zenon
      <4>3. QED
        BY <1>5, <2>1, <3>1, <4>2
    <3>2. CASE ~(k + m <= RTS_OFF_LIMIT)
      <4>1. k + m > RTS_OFF_LIMIT
        BY <1>1, <3>2, Sizes
      <4>2. uart'.rts_on = FALSE /\ uart'.low = FALSE
        BY <1>1, <1>5, <2>1, <3>2, <4>1, Zenon
      <4>3. QED
        BY <4>2
    <3>3. QED
      BY <3>1, <3>2
  <2>3. uart'.low => uart'.count <= IF pc = "halt" THEN RTS_OFF_LIMIT + 1 ELSE RTS_OFF_LIMIT
    BY <1>1, <1>5, <2>2, Sizes
  <2>4. pc = "resume" => uart'.count + Len(fifo') <= RTS_OFF_LIMIT
    BY <1>1, <1>2, <1>5, <2>1, Sizes
  <2>5. QED
    BY <1>2, <1>7, <1>9, <2>2, <2>3, <2>4 DEF Line
<1>10. QED
  BY <1>8, <1>9

LEMMA ArriveCounts ==
  ASSUME Typed, obeys, Counted, Room, Line, Loaded, Arrive
  PROVE  (Counted /\ Room /\ Line /\ Loaded)'
<1> DEFINE n == Ring(uart)
           k == uart.count
<1>1. /\ n \in Nat /\ n < UART_BUFFER_SIZE /\ k \in Nat /\ Len(fifo) \in Nat
      /\ fifo \in Seq(Bytes) /\ sent \in Bytes
  BY Numbers1, TypedIs, Sizes
<1>2. /\ uart' = uart /\ pc' = pc /\ reg' = reg /\ Len(fifo) < FifoSize /\ uart.low
      /\ Len(fifo') = Len(fifo) + 1 /\ Ring(uart)' = n
  BY <1>1 DEF Arrive, main
<1> HIDE DEF n, k
<1>3. uart.count = k /\ Ring(uart) = n
  BY DEF n, k
<1>4. pc \notin {"low", "resume"} /\ k <= IF pc = "halt" THEN RTS_OFF_LIMIT + 1 ELSE RTS_OFF_LIMIT
  BY <1>2, <1>3 DEF Line
<1>5. n + Putting1 <= RTS_OFF_LIMIT + 1
  BY <1>1, <1>3, <1>4, Sizes DEF Counted, Putting1
<1>6. Room'
  BY <1>1, <1>2, <1>5, <1>3, Sizes DEF Room, Putting1
<1>7. Counted' /\ Loaded' /\ Line'
  BY <1>1, <1>2, <1>3, <1>4 DEF Counted, Loaded, Line
<1>8. QED
  BY <1>6, <1>7

LEMMA InitCounts == Init => CountInv
<1> SUFFICES ASSUME Init PROVE CountInv
  OBVIOUS
<1>1. /\ pc = "top" /\ fifo = <<>> /\ uart.start = 0 /\ uart.end = 0 /\ uart.count = 0
      /\ uart.rts_on = TRUE /\ uart.low = TRUE
  BY DEF Init
<1>2. Ring(uart) = 0 /\ Len(fifo) = 0
  BY <1>1, Sizes DEF Ring, Slot, Distance
<1>3. Counted /\ Loaded
  BY <1>1, <1>2 DEF Counted, Loaded
<1>4. Room
  BY <1>1, <1>2, Sizes DEF Room, Putting1
<1>5. Line
  <2>1. uart.count <= RTS_OFF_LIMIT
    BY <1>1, Sizes
  <2>2. uart.rts_on = uart.low
    BY <1>1
  <2>3. QED
    BY <1>1, <2>1, <2>2 DEF Line
<1>6. QED
  BY <1>3, <1>4, <1>5 DEF CountInv

LEMMA NextCounts ==
  ASSUME uart_fill_queue => pc \notin Updating, LimitsApart, Typed, CountInv, [Next]_vars
  PROVE  CountInv'
<1>1. obeys' = obeys
  BY DEF vars, main, Next, Main, uart_fill_queue, Arrive, Ready, Busy, Rts, Show, Poll, Read,
         Take, Fill, Step
<1>2. SUFFICES ASSUME obeys, Counted, Room, Line, Loaded
               PROVE  (Counted /\ Room /\ Line /\ Loaded)'
  BY <1>1 DEF CountInv
<1>3. CASE UNCHANGED vars
  BY <1>2, <1>3 DEF vars, main, Counted, Room, Putting1, Line, Loaded
<1>4. CASE uart_fill_queue
  BY <1>2, <1>4, FillQueueCounts
<1>5. CASE Arrive
  BY <1>2, <1>5, ArriveCounts
<1>6. CASE Main
  BY <1>2, <1>6, OtherCounts, TakeCounts, FillCounts DEF Main
<1>7. QED
  BY <1>3, <1>4, <1>5, <1>6 DEF Next

-----------------------------------------------------------------------------
(* The bytes in the ring, as a sequence.                                   *)

(* What the main loop loads next is not the interrupt's to change: the slot *)
(* it takes a byte from, or the slot it puts a byte into.                  *)
Moving == {"leave", "load", "put"}

(* What a slot may hold. *)
Byte == Bytes \cup {None}

(* The i-th slot from s on. *)
At(s, i) == IF s + i > UART_BUFFER_SIZE THEN s + i - 1 - UART_BUFFER_SIZE ELSE s + i - 1

(* From s up to e the buffer f holds c. *)
Holds(f, s, e, c) ==
  /\ c \in Seq(Byte) /\ Len(c) <= UART_BUFFER_SIZE
  /\ e = At(s, Len(c) + 1)
  /\ \A i \in 1 .. Len(c) : c[i] = f[At(s, i)]

(* Up to where the buffer is filled. *)
Rear == IF pc = "write" THEN reg ELSE Slot(uart.end)

(* The write pointer has gone on, and the oldest byte is not yet dropped. *)
Writing == pc \in {"wrap_end", "drop"}

(* What the main loop has loaded is what is still there, also for a host   *)
(* that does not obey.                                                     *)
InOrder ==
  /\ pc \in {"take", "leave"} => Slot(uart.start) # Slot(uart.end)
  /\ pc = "leave" => reg = uart.start
  /\ pc = "advance" => reg = uart.end
  /\ pc = "write" => uart.end = reg + 1

-----------------------------------------------------------------------------
(* Slots and lengths: At walks round the ring. *)
LEMMA AtIs ==
  ASSUME NEW s \in Index, NEW i \in 1 .. UART_BUFFER_SIZE + 1
  PROVE  /\ At(s, i) \in Index
         /\ i <= UART_BUFFER_SIZE => (At(s, i) = s <=> i = 1)
         /\ At(s, UART_BUFFER_SIZE + 1) = s
         /\ At(s, 1) = s
BY Sizes DEF At, Index

LEMMA AtNext ==
  ASSUME NEW s \in Index, NEW i \in 1 .. UART_BUFFER_SIZE
  PROVE  /\ Slot(At(s, i) + 1) = At(s, i + 1)
         /\ At(Slot(s + 1), i) = At(s, i + 1)
BY Sizes DEF At, Index, Slot

LEMMA AtDiffers ==
  ASSUME NEW s \in Index, NEW i \in 1 .. UART_BUFFER_SIZE, NEW j \in 1 .. UART_BUFFER_SIZE
  PROVE  At(s, i) = At(s, j) <=> i = j
BY Sizes DEF At, Index

(* The remainders of Content. *)
LEMMA RemainderIs ==
  ASSUME NEW n \in Nat, n < 2 * UART_BUFFER_SIZE
  PROVE  n % UART_BUFFER_SIZE = IF n >= UART_BUFFER_SIZE THEN n - UART_BUFFER_SIZE ELSE n
BY Sizes, Z3

LEMMA PlaceIs ==
  ASSUME NEW s \in 0 .. UART_BUFFER_SIZE, NEW i \in 1 .. UART_BUFFER_SIZE
  PROVE  (s + i - 1) % UART_BUFFER_SIZE = At(Slot(s), i)
<1> DEFINE n == s + i - 1
<1>1. n \in Nat /\ n < 2 * UART_BUFFER_SIZE
  BY Sizes
<1>2. (IF n >= UART_BUFFER_SIZE THEN n - UART_BUFFER_SIZE ELSE n) = At(Slot(s), i)
  BY Sizes DEF At, Slot
<1> HIDE DEF n
<1>3. n % UART_BUFFER_SIZE = At(Slot(s), i)
  BY <1>1, <1>2, RemainderIs
<1>4. QED
  BY <1>3 DEF n

LEMMA RemainderFrom ==
  ASSUME NEW n \in Int, -UART_BUFFER_SIZE <= n, n <= UART_BUFFER_SIZE
  PROVE  n % UART_BUFFER_SIZE =
           IF n = UART_BUFFER_SIZE \/ n = -UART_BUFFER_SIZE THEN 0
           ELSE IF n < 0 THEN n + UART_BUFFER_SIZE ELSE n
BY Sizes, Z3

(* The length from s to e when it is known that something is there. *)
Full(s, e) == IF e > s THEN e - s ELSE e - s + UART_BUFFER_SIZE

LEMMA LengthIs ==
  ASSUME NEW s \in 0 .. UART_BUFFER_SIZE, NEW e \in 0 .. UART_BUFFER_SIZE
  PROVE  /\ (e - s) % UART_BUFFER_SIZE = Distance(Slot(s), Slot(e))
         /\ s < UART_BUFFER_SIZE =>
              ((e - s - 1) % UART_BUFFER_SIZE) + 1 = Full(s, Slot(e))
<1>1. (e - s) % UART_BUFFER_SIZE = Distance(Slot(s), Slot(e))
  <2>1. e - s \in Int /\ -UART_BUFFER_SIZE <= e - s /\ e - s <= UART_BUFFER_SIZE
    BY Sizes
  <2>2. (e - s) % UART_BUFFER_SIZE =
           IF e - s = UART_BUFFER_SIZE \/ e - s = -UART_BUFFER_SIZE THEN 0
           ELSE IF e - s < 0 THEN e - s + UART_BUFFER_SIZE ELSE e - s
    BY <2>1, RemainderFrom
  <2>3. QED
    BY <2>2, Sizes DEF Distance, Slot
<1>2. ASSUME s < UART_BUFFER_SIZE
      PROVE  ((e - s - 1) % UART_BUFFER_SIZE) + 1 = Full(s, Slot(e))
  <2>1. e - s - 1 \in Int /\ -UART_BUFFER_SIZE <= e - s - 1 /\ e - s - 1 <= UART_BUFFER_SIZE
    BY <1>2, Sizes
  <2>2. (e - s - 1) % UART_BUFFER_SIZE =
           IF e - s - 1 = UART_BUFFER_SIZE \/ e - s - 1 = -UART_BUFFER_SIZE THEN 0
           ELSE IF e - s - 1 < 0 THEN e - s - 1 + UART_BUFFER_SIZE ELSE e - s - 1
    BY <2>1, RemainderFrom
  <2>3. QED
    BY <1>2, <2>2, Sizes DEF Full, Slot
<1>3. QED
  BY <1>1, <1>2

LEMMA AtEnd ==
  ASSUME NEW s \in Index, NEW e \in Index
  PROVE  /\ Distance(s, e) \in Index /\ e = At(s, Distance(s, e) + 1)
         /\ Full(s, e) \in 1 .. UART_BUFFER_SIZE /\ e = At(s, Full(s, e) + 1)
BY Sizes DEF Distance, Full, At, Index

(* What a buffer holds is determined by its two ends, but for a full one   *)
(* and an empty one.                                                       *)
LEMMA HoldsOne ==
  ASSUME NEW f, NEW s \in Index, NEW e, NEW c, NEW d, Holds(f, s, e, c), Holds(f, s, e, d),
         \/ Len(c) < UART_BUFFER_SIZE /\ Len(d) < UART_BUFFER_SIZE
         \/ Len(c) > 0 /\ Len(d) > 0
  PROVE  c = d
<1>1. c \in Seq(Byte) /\ d \in Seq(Byte) /\ Len(c) \in Nat /\ Len(d) \in Nat
      /\ Len(c) <= UART_BUFFER_SIZE /\ Len(d) <= UART_BUFFER_SIZE
  BY LenProperties DEF Holds
<1>2. At(s, Len(c) + 1) = At(s, Len(d) + 1)
  BY DEF Holds
<1>3. Len(c) = Len(d)
  BY <1>1, <1>2, Sizes DEF At, Index
<1>4. \A i \in 1 .. Len(c) : c[i] = d[i]
  BY <1>3 DEF Holds
<1>5. QED
  BY <1>1, <1>3, <1>4, SeqEqual

(* One byte is written at the end, and the oldest goes if there is no room. *)
LEMMA QueuedIs ==
  ASSUME NEW u, Sound(u), NEW b \in Bytes
  PROVE  /\ Queued(u, b).buffer = [u.buffer EXCEPT ![u.end] = b]
         /\ Queued(u, b).end = Slot(u.end + 1)
         /\ Queued(u, b).start = IF Slot(u.end + 1) = u.start THEN Slot(u.start + 1) ELSE u.start
<1> DEFINE a == [u EXCEPT !.end = @ + 1]
           w == Written(a, u.end, b)
           e == WrapEnd(w)
           d == DropOldest(e)
           c == CountUp(d)
<1>1. u \in Uart /\ u.end \in Index /\ u.end < UART_BUFFER_SIZE
  BY Sizes DEF Sound, Uart, Index
<1>2. a \in Uart /\ a.end = u.end + 1 /\ a.start = u.start /\ a.buffer = u.buffer
  BY <1>1, AdvancedType
<1> HIDE DEF a
<1>3. /\ w \in Uart /\ w.start = u.start /\ w.end = u.end + 1
      /\ w.buffer = [u.buffer EXCEPT ![u.end] = b]
  <2>1. w \in Uart /\ w.start = u.start /\ w.end = u.end + 1
    BY <1>1, <1>2, WrittenType
  <2>2. w.buffer = [a.buffer EXCEPT ![u.end] = b]
    BY <1>2 DEF Written, Uart
  <2>3. QED
    BY <1>2, <2>1, <2>2
<1> HIDE DEF w
<1>4. e \in Uart /\ e.end = Slot(u.end + 1) /\ e.buffer = w.buffer /\ e.start = u.start
      /\ e.end < UART_BUFFER_SIZE
  BY <1>3, WrapEndType
<1> HIDE DEF e
<1>5. d \in Uart /\ d.end = e.end /\ d.buffer = e.buffer
  BY <1>4, DropOldestType
<1>6. d.start = IF Slot(u.end + 1) = u.start THEN Slot(u.start + 1) ELSE u.start
  <2>1. CASE e.end # e.start
    <3>1. d = e
      BY <2>1 DEF DropOldest
    <3>2. QED
      BY <1>4, <2>1, <3>1
  <2>2. CASE e.end = e.start
    <3>1. d = [e EXCEPT !.start = IF e.start + 1 >= UART_BUFFER_SIZE THEN 0 ELSE e.start + 1]
      BY <2>2 DEF DropOldest
    <3>2. d.start = IF e.start + 1 >= UART_BUFFER_SIZE THEN 0 ELSE e.start + 1
      BY <1>4, <3>1 DEF Uart
    <3>3. e.start \in Nat /\ e.start < UART_BUFFER_SIZE
      BY <1>4, <2>2 DEF Uart
    <3>4. d.start = Slot(e.start + 1)
      BY <3>2, <3>3, Sizes DEF Slot
    <3>5. QED
      BY <1>4, <2>2, <3>4
  <2>3. QED
    BY <2>1, <2>2
<1> HIDE DEF d
<1>7. c \in Uart /\ c.end = d.end /\ c.start = d.start /\ c.buffer = d.buffer
  BY <1>5, CountUpType
<1> HIDE DEF c
<1>8. Queued(u, b) = Halt(c)
  BY DEF Queued, a, w, e, d, c
<1>9. Halt(c).end = c.end /\ Halt(c).start = c.start /\ Halt(c).buffer = c.buffer
  BY <1>7, HaltType
<1>10. QED
  BY <1>3, <1>4, <1>5, <1>6, <1>7, <1>8, <1>9

(* A byte more at the end.  None of the others is written over, but for a  *)
(* ring that is full already.                                              *)
LEMMA HoldsMore ==
  ASSUME NEW f \in [0 .. UART_BUFFER_SIZE -> Byte], NEW s \in Index, NEW e \in Index,
         NEW c, Holds(f, s, e, c), Len(c) < UART_BUFFER_SIZE, NEW b \in Byte
  PROVE  Holds([f EXCEPT ![e] = b], s, Slot(e + 1), Append(c, b))
<1> DEFINE n == Len(c)
           g == [f EXCEPT ![e] = b]
<1>1. /\ c \in Seq(Byte) /\ n \in Nat /\ e = At(s, n + 1)
      /\ \A i \in 1 .. n : c[i] = f[At(s, i)]
  BY LenProperties DEF Holds
<1>2. /\ Append(c, b) \in Seq(Byte) /\ Len(Append(c, b)) = n + 1
      /\ Append(c, b)[n + 1] = b /\ \A i \in 1 .. n : Append(c, b)[i] = c[i]
  BY <1>1, AppendProperties
<1>3. n + 1 \in 1 .. UART_BUFFER_SIZE /\ Len(Append(c, b)) <= UART_BUFFER_SIZE
  BY <1>1, <1>2, Sizes
<1> HIDE DEF n
<1>4. Slot(e + 1) = At(s, Len(Append(c, b)) + 1)
  BY <1>1, <1>2, <1>3, AtNext
<1>5. ASSUME NEW i \in 1 .. n + 1 PROVE Append(c, b)[i] = g[At(s, i)]
  <2>1. e \in 0 .. UART_BUFFER_SIZE
    BY Sizes DEF Index
  <2>2. CASE i = n + 1
    BY <1>1, <1>2, <2>1, <2>2
  <2>3. CASE i # n + 1
    <3>1. i \in 1 .. n /\ i \in 1 .. UART_BUFFER_SIZE
      BY <1>1, <1>3, <2>3, Sizes
    <3>2. At(s, i) # e
      BY <1>1, <1>3, <2>3, <3>1, AtDiffers
    <3>5. At(s, i) \in 0 .. UART_BUFFER_SIZE
      BY <3>1, Sizes DEF At, Index
    <3>3. g[At(s, i)] = f[At(s, i)]
      BY <3>2, <3>5
    <3>4. QED
      BY <1>1, <1>2, <3>1, <3>3
  <2>4. QED
    BY <2>2, <2>3
<1>6. QED
  BY <1>2, <1>3, <1>4, <1>5 DEF Holds, n

(* What is left of c without its first d members. *)
Rest(c, d) == SubSeq(c, d + 1, Len(c))

(* The oldest byte goes when the read pointer goes on. *)
LEMMA RestIs ==
  ASSUME NEW c \in Seq(Byte), c # <<>>
  PROVE  LET d == Rest(c, 1)
         IN  /\ d \in Seq(Byte) /\ Len(d) = Len(c) - 1 /\ Len(c) \in Nat /\ Len(c) > 0
             /\ \A i \in 1 .. Len(d) : d[i] = c[i + 1]
<1>1. Tail(c) = Rest(c, 1)
  BY TailIsSubSeq DEF Rest
<1>2. /\ Tail(c) \in Seq(Byte) /\ Len(Tail(c)) = Len(c) - 1
      /\ \A i \in 1 .. Len(Tail(c)) : Tail(c)[i] = c[i + 1]
  BY HeadTailProperties
<1>3. Len(c) \in Nat /\ Len(c) > 0
  BY EmptySeq
<1>4. QED
  BY <1>1, <1>2, <1>3

LEMMA HoldsRest ==
  ASSUME NEW f, NEW s \in Index, NEW e, NEW c, Holds(f, s, e, c), c # <<>>
  PROVE  /\ Holds(f, Slot(s + 1), e, Rest(c, 1))
         /\ Len(Rest(c, 1)) = Len(c) - 1
         /\ c[1] = f[s]
<1> DEFINE n == Len(c)
           d == Rest(c, 1)
<1>1. /\ c \in Seq(Byte) /\ e = At(s, n + 1) /\ n <= UART_BUFFER_SIZE
      /\ \A i \in 1 .. n : c[i] = f[At(s, i)]
  BY DEF Holds
<1>2. /\ n \in Nat /\ n > 0 /\ d \in Seq(Byte) /\ Len(d) = n - 1
      /\ \A i \in 1 .. Len(d) : d[i] = c[i + 1]
  BY <1>1, RestIs
<1> HIDE DEF d, n
<1>3. ASSUME NEW i \in 1 .. n PROVE At(Slot(s + 1), i) = At(s, i + 1)
  <2>1. i \in 1 .. UART_BUFFER_SIZE
    BY <1>1, <1>2, Sizes
  <2>2. QED
    BY <2>1, AtNext
<1>4. e = At(Slot(s + 1), Len(d) + 1)
  <2>1. Len(d) + 1 = n /\ n \in 1 .. n
    BY <1>2
  <2>2. QED
    BY <1>1, <1>3, <2>1
<1>5. ASSUME NEW i \in 1 .. Len(d) PROVE d[i] = f[At(Slot(s + 1), i)]
  <2>1. i \in 1 .. n /\ i + 1 \in 1 .. n
    BY <1>2
  <2>2. QED
    BY <1>1, <1>2, <1>3, <2>1
<1>6. c[1] = f[s]
  <2>1. 1 \in 1 .. n /\ At(s, 1) = s
    BY <1>2, Sizes DEF At, Index
  <2>2. QED
    BY <1>1, <2>1
<1>7. Len(d) <= UART_BUFFER_SIZE
  BY <1>1, <1>2, Sizes
<1>8. Holds(f, Slot(s + 1), e, d)
  BY <1>2, <1>4, <1>5, <1>7 DEF Holds
<1>9. QED
  BY <1>2, <1>6, <1>8 DEF d, n

(* Only the newest byte is left when the ring runs over. *)
LEMMA HoldsLast ==
  ASSUME NEW f \in [0 .. UART_BUFFER_SIZE -> Byte], NEW s \in Index, NEW b \in Byte
  PROVE  Holds([f EXCEPT ![s] = b], s, Slot(s + 1), <<b>>)
<1>1. <<b>> \in Seq(Byte) /\ Len(<<b>>) = 1 /\ <<b>>[1] = b
  OBVIOUS
<1>2. At(s, 1) = s /\ Slot(s + 1) = At(s, 2)
  BY Sizes DEF At, Slot, Index
<1>3. s \in 0 .. UART_BUFFER_SIZE /\ 1 <= UART_BUFFER_SIZE
  BY Sizes DEF Index
<1>4. [f EXCEPT ![s] = b][s] = b
  BY <1>3
<1>5. QED
  BY <1>1, <1>2, <1>3, <1>4 DEF Holds

LEMMA HoldsNothing ==
  ASSUME NEW f, NEW s \in Index
  PROVE  Holds(f, s, s, <<>>)
<1>1. <<>> \in Seq(Byte) /\ Len(<<>>) = 0
  BY EmptySeq
<1>2. At(s, 1) = s /\ 0 <= UART_BUFFER_SIZE
  BY Sizes DEF At, Index
<1>3. QED
  BY <1>1, <1>2 DEF Holds

LEMMA RestMembers ==
  ASSUME NEW c \in Seq(Byte), NEW d \in 0 .. Len(c)
  PROVE  /\ Rest(c, d) \in Seq(Byte) /\ Len(Rest(c, d)) = Len(c) - d /\ Len(c) \in Nat
         /\ \A i \in 1 .. Len(c) - d : Rest(c, d)[i] = c[d + i]
<1> DEFINE n == Len(c)
<1>1. n \in Nat /\ d \in Int /\ d + 1 \in Int /\ n \in Int /\ d <= n /\ d >= 0
  BY LenProperties
<1>2. \A i \in d + 1 .. n : c[i] \in Byte
  <2>1. d + 1 .. n \subseteq 1 .. n
    BY <1>1
  <2>2. QED
    BY <2>1, ElementOfSeq
<1>3. /\ SubSeq(c, d + 1, n) \in Seq(Byte)
      /\ Len(SubSeq(c, d + 1, n)) = IF d + 1 <= n THEN n - (d + 1) + 1 ELSE 0
      /\ \A i \in 1 .. n - (d + 1) + 1 : SubSeq(c, d + 1, n)[i] = c[d + 1 + i - 1]
  BY <1>1, <1>2, SubSeqProperties
<1> HIDE DEF n
<1>4. (IF d + 1 <= n THEN n - (d + 1) + 1 ELSE 0) = n - d /\ n - (d + 1) + 1 = n - d
  BY <1>1
<1>5. ASSUME NEW i \in 1 .. n - d PROVE SubSeq(c, d + 1, n)[i] = c[d + i]
  <2>1. d + 1 + i - 1 = d + i
    BY <1>1
  <2>2. QED
    BY <1>3, <1>4, <2>1
<1>6. QED
  BY <1>1, <1>3, <1>4, <1>5 DEF Rest, n

LEMMA RestOfRest ==
  ASSUME NEW c \in Seq(Byte), NEW d \in 0 .. Len(c), NEW k \in 0 .. Len(c) - d
  PROVE  Rest(Rest(c, d), k) = Rest(c, d + k)
<1> DEFINE n == Len(c)
<1>1. /\ Rest(c, d) \in Seq(Byte) /\ Len(Rest(c, d)) = n - d /\ n \in Nat
      /\ \A i \in 1 .. n - d : Rest(c, d)[i] = c[d + i]
  BY RestMembers
<1>2. /\ Rest(Rest(c, d), k) \in Seq(Byte) /\ Len(Rest(Rest(c, d), k)) = (n - d) - k
      /\ \A i \in 1 .. (n - d) - k : Rest(Rest(c, d), k)[i] = Rest(c, d)[k + i]
  <2> DEFINE q == Rest(c, d)
  <2> HIDE DEF q, n
  <2>1. q \in Seq(Byte) /\ Len(q) = n - d /\ k \in 0 .. Len(q)
    BY <1>1 DEF q, n
  <2>2. /\ Rest(q, k) \in Seq(Byte) /\ Len(Rest(q, k)) = Len(q) - k
        /\ \A i \in 1 .. Len(q) - k : Rest(q, k)[i] = q[k + i]
    BY <2>1, RestMembers
  <2>3. QED
    BY <2>1, <2>2 DEF q
<1>3. d + k \in 0 .. n
  BY <1>1
<1>4. /\ Rest(c, d + k) \in Seq(Byte) /\ Len(Rest(c, d + k)) = n - (d + k)
      /\ \A i \in 1 .. n - (d + k) : Rest(c, d + k)[i] = c[(d + k) + i]
  BY <1>3, RestMembers
<1> HIDE DEF n
<1>5. (n - d) - k = n - (d + k) /\ d \in Nat /\ k \in Nat
  BY <1>1
<1>6. ASSUME NEW i \in 1 .. n - (d + k) PROVE Rest(Rest(c, d), k)[i] = Rest(c, d + k)[i]
  <2>1. k + i \in 1 .. n - d /\ d + (k + i) = (d + k) + i
    BY <1>1, <1>5
  <2>2. QED
    BY <1>1, <1>2, <1>4, <1>5, <2>1
<1>7. QED
  BY <1>2, <1>4, <1>5, <1>6, SeqEqual

LEMMA RestAppend ==
  ASSUME NEW c \in Seq(Byte), NEW d \in 0 .. Len(c), NEW b \in Byte
  PROVE  Rest(Append(c, b), d) = Append(Rest(c, d), b)
<1> DEFINE n == Len(c)
           a == Append(c, b)
           r == Rest(c, d)
<1>1. /\ r \in Seq(Byte) /\ Len(r) = n - d /\ n \in Nat
      /\ \A i \in 1 .. n - d : r[i] = c[d + i]
  BY RestMembers
<1>2. /\ a \in Seq(Byte) /\ Len(a) = n + 1 /\ a[n + 1] = b /\ \A i \in 1 .. n : a[i] = c[i]
  BY AppendProperties
<1>3. /\ Append(r, b) \in Seq(Byte) /\ Len(Append(r, b)) = n - d + 1
      /\ Append(r, b)[n - d + 1] = b /\ \A i \in 1 .. n - d : Append(r, b)[i] = r[i]
  BY <1>1, AppendProperties
<1>4. d \in 0 .. Len(a)
  BY <1>1, <1>2
<1> HIDE DEF n, a, r
<1>5. /\ Rest(a, d) \in Seq(Byte) /\ Len(Rest(a, d)) = Len(a) - d
      /\ \A i \in 1 .. Len(a) - d : Rest(a, d)[i] = a[d + i]
  BY <1>2, <1>4, RestMembers
<1>6. Len(a) - d = n - d + 1
  BY <1>1, <1>2
<1>7. ASSUME NEW i \in 1 .. n - d + 1 PROVE Rest(a, d)[i] = Append(r, b)[i]
  <2>1. CASE i = n - d + 1
    <3>1. d + i = n + 1
      BY <1>1, <2>1
    <3>2. QED
      BY <1>2, <1>3, <1>5, <1>6, <2>1, <3>1
  <2>2. CASE i # n - d + 1
    <3>1. i \in 1 .. n - d /\ d + i \in 1 .. n
      BY <1>1, <2>2, n \in Nat, d \in 0 .. n DEF n
    <3>2. QED
      BY <1>1, <1>2, <1>3, <1>5, <1>6, <3>1
  <2>3. QED
    BY <2>1, <2>2
<1>8. Rest(a, d) = Append(r, b)
  BY <1>3, <1>5, <1>6, <1>7, SeqEqual
<1>9. QED
  BY <1>8 DEF a, r

LEMMA RestNone == ASSUME NEW c \in Seq(Byte) PROVE Rest(c, 0) = c
<1>1. Rest(c, 0) = SubSeq(c, 1, Len(c))
  BY DEF Rest
<1>2. QED
  BY <1>1, SubSeqFull

LEMMA RestAll == ASSUME NEW c \in Seq(Byte) PROVE Rest(c, Len(c)) = <<>>
<1>1. Len(c) \in 0 .. Len(c) /\ Len(c) \in Nat
  BY LenProperties
<1>2. Rest(c, Len(c)) \in Seq(Byte) /\ Len(Rest(c, Len(c))) = Len(c) - Len(c)
  BY <1>1, RestMembers
<1>3. Len(c) - Len(c) = 0
  BY <1>1
<1>4. QED
  BY <1>2, <1>3, EmptySeq

LEMMA RestOne ==
  ASSUME NEW c \in Seq(Byte), NEW b \in Byte
  PROVE  Rest(Append(c, b), Len(c)) = <<b>>
<1>1. Len(c) \in 0 .. Len(c)
  BY LenProperties
<1>2. Rest(Append(c, b), Len(c)) = Append(<<>>, b)
  BY <1>1, RestAppend, RestAll
<1>3. QED
  BY <1>2

(* One byte of the interrupt: it is added at the end, and either nothing   *)
(* goes, or the oldest, or all there was.                                  *)
LEMMA QueuedHolds ==
  ASSUME NEW u, Sound(u), NEW b \in Bytes, NEW c, Holds(u.buffer, Slot(u.start), u.end, c)
  PROVE  \E d \in 0 .. Len(c) + 1 :
           /\ Holds(Queued(u, b).buffer, Slot(Queued(u, b).start), Queued(u, b).end,
                    Rest(Append(c, b), d))
           /\ Len(c) + 1 - d < UART_BUFFER_SIZE
           /\ d > 0 => Len(c) + 1 >= UART_BUFFER_SIZE
           /\ u.start < UART_BUFFER_SIZE => d <= Len(c)
<1> DEFINE n == Len(c)
           s == Slot(u.start)
           e == u.end
           f == [u.buffer EXCEPT ![e] = b]
           v == Queued(u, b)
           t == IF Slot(e + 1) = u.start THEN Slot(u.start + 1) ELSE u.start
<1>1. /\ u.start \in 0 .. UART_BUFFER_SIZE /\ e \in Index /\ b \in Byte
      /\ u.buffer \in [0 .. UART_BUFFER_SIZE -> Byte]
  BY Sizes DEF Sound, Uart, Index, Byte
<1>2. s \in Index /\ UART_BUFFER_SIZE \in Nat /\ UART_BUFFER_SIZE > 2
  BY <1>1, Sizes DEF Slot, Index
<1>3. v.buffer = f /\ v.end = Slot(e + 1) /\ v.start = t
  BY QueuedIs
<1>4. c \in Seq(Byte) /\ n \in Nat /\ n <= UART_BUFFER_SIZE /\ e = At(s, n + 1)
  BY LenProperties DEF Holds
<1>5. Append(c, b) \in Seq(Byte) /\ Len(Append(c, b)) = n + 1
  BY <1>1, <1>4, AppendProperties
<1> HIDE DEF f, v
<1>6. CASE n + 1 < UART_BUFFER_SIZE
  <2>1. Slot(e + 1) # u.start
    <3>1. Slot(e + 1) = At(s, n + 2)
      BY <1>2, <1>4, <1>6, AtNext
    <3>2. At(s, n + 2) # s /\ At(s, n + 2) \in Index
      BY <1>2, <1>4, <1>6, Sizes DEF At, Index
    <3>3. QED
      BY <1>1, <3>1, <3>2, Sizes DEF Slot, Index
  <2>2. Holds(f, s, Slot(e + 1), Append(c, b))
    BY <1>1, <1>2, <1>4, <1>6, HoldsMore DEF f
  <2>3. Holds(v.buffer, Slot(v.start), v.end, Rest(Append(c, b), 0))
    BY <1>3, <1>5, <2>1, <2>2, RestNone
  <2>4. 0 \in 0 .. n + 1 /\ n + 1 - 0 < UART_BUFFER_SIZE
    BY <1>4, <1>6
  <2>5. QED
    BY <1>4, <2>3, <2>4 DEF v
<1>7. CASE n + 1 = UART_BUFFER_SIZE
  <2>1. Holds(f, s, Slot(e + 1), Append(c, b))
    BY <1>1, <1>2, <1>4, <1>7, HoldsMore DEF f
  <2>2. Slot(e + 1) = s
    <3>1. Slot(e + 1) = At(s, UART_BUFFER_SIZE + 1)
      BY <1>2, <1>4, <1>7, AtNext
    <3>2. QED
      BY <1>2, <3>1, Sizes DEF At, Index
  <2>3. CASE u.start < UART_BUFFER_SIZE
    <3>1. s = u.start /\ t = Slot(s + 1) /\ t < UART_BUFFER_SIZE /\ Slot(t) = Slot(s + 1)
      BY <1>1, <2>2, <2>3, Sizes DEF Slot
    <3>2. Append(c, b) # <<>>
      BY <1>1, <1>4, AppendProperties
    <3>3. Holds(f, Slot(s + 1), Slot(e + 1), Rest(Append(c, b), 1))
      <4> DEFINE a == Append(c, b)
      <4>1. Len(a) = n + 1 /\ a # <<>> /\ Holds(f, s, Slot(e + 1), a)
        BY <1>5, <2>1, <3>2
      <4> HIDE DEF a, n, s, e
      <4>2. Holds(f, Slot(s + 1), Slot(e + 1), Rest(a, 1))
        BY <1>2, <4>1, HoldsRest
      <4>3. QED
        BY <4>2 DEF a
    <3>4. Holds(v.buffer, Slot(v.start), v.end, Rest(Append(c, b), 1))
      BY <1>3, <3>1, <3>3
    <3>5. 1 \in 0 .. n + 1 /\ n + 1 - 1 < UART_BUFFER_SIZE /\ 1 <= n
      BY <1>2, <1>4, <1>7
    <3>6. QED
      BY <1>4, <1>7, <3>4, <3>5 DEF v
  <2>4. CASE ~(u.start < UART_BUFFER_SIZE)
    <3>1. s = 0 /\ t = u.start /\ Slot(t) = 0 /\ Slot(e + 1) = 0
      BY <1>1, <1>2, <2>2, <2>4, Sizes DEF Slot
    <3>2. Holds(v.buffer, Slot(v.start), v.end, Rest(Append(c, b), n + 1))
      BY <1>2, <1>3, <1>5, <3>1, HoldsNothing, RestAll
    <3>3. n + 1 \in 0 .. n + 1 /\ n + 1 - (n + 1) < UART_BUFFER_SIZE
      BY <1>2, <1>4
    <3>4. QED
      BY <1>4, <1>7, <2>4, <3>2, <3>3 DEF v
  <2>5. QED
    BY <2>3, <2>4
<1>8. CASE n = UART_BUFFER_SIZE
  <2>1. e = s
    BY <1>2, <1>4, <1>8, Sizes DEF At, Index
  <2>2. Slot(e + 1) # u.start /\ Slot(e + 1) # s
    BY <1>1, <1>2, <2>1, Sizes DEF Slot, Index
  <2>3. Holds(f, s, Slot(s + 1), <<b>>)
    BY <1>1, <1>2, <2>1, HoldsLast DEF f
  <2>4. Holds(v.buffer, Slot(v.start), v.end, Rest(Append(c, b), n))
    BY <1>1, <1>3, <1>4, <2>1, <2>2, <2>3, RestOne
  <2>5. n \in 0 .. n + 1 /\ n + 1 - n < UART_BUFFER_SIZE
    BY <1>2, <1>4
  <2>6. QED
    BY <1>4, <1>8, <2>4, <2>5 DEF v
<1>9. QED
  BY <1>2, <1>4, <1>6, <1>7, <1>8

(* The interrupt, after i bytes. *)
Upto(c, bs, i) == c \o SubSeq(bs, 1, i)

LEMMA UptoIs ==
  ASSUME NEW c \in Seq(Byte), NEW bs \in Seq(Bytes)
  PROVE  /\ Upto(c, bs, 0) = c /\ Upto(c, bs, Len(bs)) = c \o bs
         /\ \A i \in 0 .. Len(bs) : Upto(c, bs, i) \in Seq(Byte) /\ Len(Upto(c, bs, i)) = Len(c) + i
         /\ \A i \in 1 .. Len(bs) : Upto(c, bs, i) = Append(Upto(c, bs, i - 1), bs[i])
<1>1. bs \in Seq(Byte) /\ Len(bs) \in Nat /\ Len(c) \in Nat
  BY SeqMonotonic, LenProperties DEF Byte
<1>2. Upto(c, bs, 0) = c
  <2>1. SubSeq(bs, 1, 0) = <<>>
    BY SubSeqEmpty
  <2>2. QED
    BY <2>1, ConcatEmptySeq DEF Upto
<1>3. Upto(c, bs, Len(bs)) = c \o bs
  BY SubSeqFull DEF Upto
<1>4. ASSUME NEW i \in 0 .. Len(bs)
      PROVE  SubSeq(bs, 1, i) \in Seq(Byte) /\ Len(SubSeq(bs, 1, i)) = i
  <2>1. \A k \in 1 .. i : bs[k] \in Byte
    <3>1. 1 .. i \subseteq 1 .. Len(bs)
      BY <1>1
    <3>2. QED
      BY <1>1, <3>1, ElementOfSeq
  <2>2. i \in Int /\ 1 \in Int
    BY <1>1
  <2>3. SubSeq(bs, 1, i) \in Seq(Byte) /\ Len(SubSeq(bs, 1, i)) = IF 1 <= i THEN i - 1 + 1 ELSE 0
    BY <2>1, <2>2, SubSeqProperties
  <2>4. (IF 1 <= i THEN i - 1 + 1 ELSE 0) = i
    OBVIOUS
  <2>5. QED
    BY <2>3, <2>4
<1>5. ASSUME NEW i \in 0 .. Len(bs)
      PROVE  Upto(c, bs, i) \in Seq(Byte) /\ Len(Upto(c, bs, i)) = Len(c) + i
  <2> DEFINE p == SubSeq(bs, 1, i)
  <2>1. p \in Seq(Byte) /\ Len(p) = i
    BY <1>4
  <2> HIDE DEF p
  <2>2. c \o p \in Seq(Byte) /\ Len(c \o p) = Len(c) + Len(p)
    BY <2>1, ConcatProperties
  <2>3. QED
    BY <2>1, <2>2 DEF Upto, p
<1>6. ASSUME NEW i \in 1 .. Len(bs) PROVE Upto(c, bs, i) = Append(Upto(c, bs, i - 1), bs[i])
  <2> DEFINE p == SubSeq(bs, 1, i - 1)
  <2>1. i - 1 \in 0 .. Len(bs) /\ 1 \in 1 .. Len(bs) /\ i \in 1 .. Len(bs)
    BY <1>1
  <2>2. p \in Seq(Byte) /\ bs[i] \in Byte /\ <<bs[i]>> \in Seq(Byte)
    BY <1>1, <1>4, <2>1, ElementOfSeq
  <2>3. SubSeq(bs, 1, i) = p \o <<bs[i]>>
    BY <2>1, SubSeqRecursiveSecond
  <2> HIDE DEF p
  <2>4. c \o (p \o <<bs[i]>>) = (c \o p) \o <<bs[i]>>
    BY <2>2, ConcatAssociative
  <2>5. c \o p \in Seq(Byte)
    BY <2>2, ConcatProperties
  <2>6. Append(c \o p, bs[i]) = (c \o p) \o <<bs[i]>>
    BY <2>2, <2>5, AppendIsConcat
  <2>7. QED
    BY <2>3, <2>4, <2>6 DEF Upto, p
<1>7. QED
  BY <1>2, <1>3, <1>5, <1>6

(* All of it: the bytes of the FIFO follow those of the buffer, and some   *)
(* of the oldest may go, if they are more than the ring has room for.      *)
Kept(u, v, c, i, w) ==
  \E d \in 0 .. Len(c) + i :
    /\ Holds(v.buffer, Slot(v.start), v.end, Rest(w, d))
    /\ i > 0 => Len(c) + i - d < UART_BUFFER_SIZE
    /\ d > 0 => Len(c) + i >= UART_BUFFER_SIZE
    /\ u.start < UART_BUFFER_SIZE => v.start < UART_BUFFER_SIZE /\ (i > 0 => d < Len(c) + i)

LEMMA FilledHolds ==
  ASSUME NEW u, NEW bs \in Seq(Bytes), NEW c, Holds(u.buffer, Slot(u.start), u.end, c),
         \A i \in 0 .. Len(bs) : Sound(Filled(u, bs)[i])
  PROVE  \A i \in 0 .. Len(bs) : Kept(u, Filled(u, bs)[i], c, i, Upto(c, bs, i))
<1> DEFINE f == Filled(u, bs)
           Bad == {i \in 0 .. Len(bs) : ~Kept(u, f[i], c, i, Upto(c, bs, i))}
<1>1. SUFFICES ASSUME Bad # {} PROVE FALSE
  OBVIOUS
<1>2. PICK n \in Bad : \A m \in Bad : n <= m
  <2>1. Bad \subseteq Nat
    OBVIOUS
  <2> HIDE DEF Bad
  <2>2. QED
    BY <1>1, <2>1, LeastNatural
<1>3. f[0] = u /\ \A i \in 1 .. Len(bs) : f[i] = Queued(f[i - 1], bs[i])
  BY FilledOneByOne
<1>4. c \in Seq(Byte) /\ Len(c) \in Nat /\ Len(bs) \in Nat
  BY LenProperties DEF Holds
<1> DEFINE L == Len(c)
<1>5. n # 0
  <2>1. Holds(f[0].buffer, Slot(f[0].start), f[0].end, Rest(Upto(c, bs, 0), 0))
    BY <1>3, <1>4, UptoIs, RestNone
  <2>2. 0 \in 0 .. Len(c) + 0 /\ 0 \in 0 .. Len(bs)
    BY <1>4
  <2>3. Kept(u, f[0], c, 0, Upto(c, bs, 0))
    BY <1>3, <1>4, <2>1, <2>2 DEF Kept
  <2>4. QED
    BY <2>2, <2>3
<1>6. n \in 1 .. Len(bs) /\ n - 1 \in 0 .. Len(bs)
  BY <1>4, <1>5
<1>7. Kept(u, f[n - 1], c, n - 1, Upto(c, bs, n - 1))
  BY <1>2, <1>6
<1>8. ~Kept(u, f[n], c, n, Upto(c, bs, n))
  OBVIOUS
<1> DEFINE a == f[n - 1]
           w == Upto(c, bs, n - 1)
<1>9. /\ w \in Seq(Byte) /\ Len(w) = L + (n - 1) /\ bs[n] \in Bytes /\ bs[n] \in Byte
      /\ Upto(c, bs, n) = Append(w, bs[n]) /\ Sound(a) /\ f[n] = Queued(a, bs[n])
  BY <1>3, <1>4, <1>6, UptoIs, ElementOfSeq DEF Byte
<1> HIDE DEF L, a, w, f, Bad
<1>10. PICK d \in 0 .. L + (n - 1) :
         /\ Holds(a.buffer, Slot(a.start), a.end, Rest(w, d))
         /\ d > 0 => L + (n - 1) >= UART_BUFFER_SIZE
         /\ u.start < UART_BUFFER_SIZE => a.start < UART_BUFFER_SIZE
  BY <1>7 DEF Kept, L, a, w
<1> DEFINE r == Rest(w, d)
           q == Queued(a, bs[n])
<1>11. r \in Seq(Byte) /\ Len(r) = L + (n - 1) - d /\ L \in Nat /\ n \in Nat /\ n > 0
  <2>1. L \in Nat /\ n \in Nat /\ n > 0
    BY <1>4, <1>6 DEF L
  <2>2. d \in 0 .. Len(w)
    BY <1>9
  <2>3. r \in Seq(Byte) /\ Len(r) = Len(w) - d
    BY <1>9, <2>2, RestMembers
  <2>4. QED
    BY <1>9, <2>1, <2>3
<1>12. PICK k \in 0 .. Len(r) + 1 :
         /\ Holds(q.buffer, Slot(q.start), q.end, Rest(Append(r, bs[n]), k))
         /\ Len(r) + 1 - k < UART_BUFFER_SIZE
         /\ k > 0 => Len(r) + 1 >= UART_BUFFER_SIZE
         /\ a.start < UART_BUFFER_SIZE => k <= Len(r)
  BY <1>9, <1>10, QueuedHolds
<1>13. Rest(Append(r, bs[n]), k) = Rest(Append(w, bs[n]), d + k)
  <2> DEFINE z == Append(w, bs[n])
  <2>1. d \in 0 .. Len(w)
    BY <1>9
  <2>2. Append(r, bs[n]) = Rest(z, d)
    BY <1>9, <2>1, RestAppend
  <2>3. z \in Seq(Byte) /\ Len(z) = L + n
    <3>1. z \in Seq(Byte) /\ Len(z) = Len(w) + 1
      <4>1. w \in Seq(Byte) /\ bs[n] \in Byte
        BY <1>9
      <4>2. QED
        BY <4>1, AppendProperties
    <3> HIDE DEF z
    <3>2. QED
      BY <1>9, <1>11, <3>1
  <2> HIDE DEF z, r
  <2>4. d \in 0 .. Len(z) /\ k \in 0 .. Len(z) - d
    BY <1>11, <1>12, <2>3
  <2>5. Rest(Rest(z, d), k) = Rest(z, d + k)
    BY <2>3, <2>4, RestOfRest
  <2>6. QED
    BY <2>2, <2>5 DEF z
<1> HIDE DEF r, q
<1>14. /\ d + k \in 0 .. L + n /\ L + n - (d + k) < UART_BUFFER_SIZE
       /\ (d + k > 0 => L + n >= UART_BUFFER_SIZE)
       /\ (u.start < UART_BUFFER_SIZE => d + k < L + n)
  BY <1>10, <1>11, <1>12, Sizes
<1>15. u.start < UART_BUFFER_SIZE => q.start < UART_BUFFER_SIZE
  <2>1. /\ Sound(q) /\ (q.start = UART_BUFFER_SIZE => a.start = UART_BUFFER_SIZE)
    BY <1>9, QueuedType DEF q
  <2>2. q.start \in 0 .. UART_BUFFER_SIZE /\ a.start \in 0 .. UART_BUFFER_SIZE
    BY <1>9, <2>1 DEF Sound, Uart
  <2>3. QED
    BY <1>10, <2>1, <2>2, Sizes
<1>16. Kept(u, q, c, n, Append(w, bs[n]))
  BY <1>12, <1>13, <1>14, <1>15 DEF Kept, L
<1>17. QED
  BY <1>8, <1>9, <1>16 DEF q

-----------------------------------------------------------------------------
(* The state: what the ring holds is Buffer. *)
Contents ==
  /\ Holds(uart.buffer, Slot(uart.start), Rear, Buffer)
  /\ IF Writing THEN Len(Buffer) > 0 ELSE Len(Buffer) < UART_BUFFER_SIZE
  /\ Slot(uart.start) \in Index /\ Rear \in Index /\ Buffer \in Seq(Byte)

LEMMA BufferHolds == Typed => Contents
<1> SUFFICES ASSUME Typed PROVE Contents
  OBVIOUS
<1> DEFINE s == uart.start
           e == IF pc = "write" THEN reg ELSE uart.end
           n == Length(s, e)
           byte(i) == uart.buffer[(s + i - 1) % UART_BUFFER_SIZE]
<1>1. /\ s \in 0 .. UART_BUFFER_SIZE /\ e \in 0 .. UART_BUFFER_SIZE
      /\ uart.buffer \in [0 .. UART_BUFFER_SIZE -> Byte]
      /\ (pc = "write" => reg < UART_BUFFER_SIZE) /\ reg \in 0 .. UART_BUFFER_SIZE
      /\ (Writing => s < UART_BUFFER_SIZE)
  <2>1. uart \in Uart /\ (uart.start = UART_BUFFER_SIZE => pc \in Reading)
    BY TypedIs DEF Facts
  <2>2. /\ s \in 0 .. UART_BUFFER_SIZE /\ uart.end \in 0 .. UART_BUFFER_SIZE
        /\ uart.buffer \in [0 .. UART_BUFFER_SIZE -> Byte]
    BY <2>1, FieldTypes DEF Byte
  <2>3. (pc = "write" => reg < UART_BUFFER_SIZE) /\ reg \in 0 .. UART_BUFFER_SIZE
    BY TypedIs
  <2>4. Writing => s < UART_BUFFER_SIZE
    BY <2>1, <2>2, Sizes DEF Reading, Writing
  <2>5. QED
    BY <2>2, <2>3, <2>4
<1>2. Slot(s) \in Index /\ Slot(e) \in Index /\ Rear = Slot(e)
  BY <1>1, Sizes DEF Slot, Index, Rear
<1>3. /\ n \in 0 .. UART_BUFFER_SIZE /\ Rear = At(Slot(s), n + 1)
      /\ IF Writing THEN n > 0 ELSE n < UART_BUFFER_SIZE
  <2>1. CASE Writing
    <3>1. n = Full(s, Slot(e)) /\ Slot(s) = s
      <4>1. n = ((e - s - 1) % UART_BUFFER_SIZE) + 1
        BY <2>1 DEF Length, Writing
      <4>2. s < UART_BUFFER_SIZE
        BY <1>1, <2>1
      <4> HIDE DEF n, s, e
      <4>3. n = Full(s, Slot(e))
        BY <1>1, <4>1, <4>2, LengthIs
      <4>4. Slot(s) = s
        BY <1>1, <4>2, Sizes DEF Slot
      <4>5. QED
        BY <4>3, <4>4
    <3>2. Full(s, Slot(e)) \in 1 .. UART_BUFFER_SIZE /\ Slot(e) = At(s, Full(s, Slot(e)) + 1)
      BY <1>2, <3>1, AtEnd
    <3> HIDE DEF n
    <3>3. QED
      BY <1>2, <2>1, <3>1, <3>2, Sizes
  <2>2. CASE ~Writing
    <3>1. n = Distance(Slot(s), Slot(e))
      BY <1>1, <2>2, LengthIs DEF Length, Writing
    <3>2. Distance(Slot(s), Slot(e)) \in Index
          /\ Slot(e) = At(Slot(s), Distance(Slot(s), Slot(e)) + 1)
      BY <1>2, AtEnd
    <3> HIDE DEF n
    <3>3. QED
      BY <1>2, <2>2, <3>1, <3>2, Sizes DEF Index
  <2>3. QED
    BY <2>1, <2>2
<1>4. Buffer = [i \in 1 .. n |-> byte(i)]
  BY DEF Buffer, Content
<1> HIDE DEF n
<1>5. ASSUME NEW i \in 1 .. n
      PROVE  /\ byte(i) = uart.buffer[At(Slot(s), i)] /\ byte(i) \in Byte
  <2>1. i \in 1 .. UART_BUFFER_SIZE
    BY <1>3, Sizes
  <2>2. (s + i - 1) % UART_BUFFER_SIZE = At(Slot(s), i)
    BY <1>1, <2>1, PlaceIs
  <2>3. At(Slot(s), i) \in 0 .. UART_BUFFER_SIZE
    BY <1>2, <2>1, Sizes DEF At, Index
  <2>4. QED
    BY <1>1, <2>2, <2>3
<1> HIDE DEF byte
<1>6. n \in Nat
  BY <1>3
<1>7. Buffer \in Seq(Byte) /\ Len(Buffer) = n /\ \A i \in 1 .. n : Buffer[i] = byte(i)
  BY <1>4, <1>5, <1>6
<1>8. n <= UART_BUFFER_SIZE
  BY <1>3, Sizes
<1>9. Holds(uart.buffer, Slot(s), Rear, Buffer)
  BY <1>3, <1>5, <1>7, <1>8 DEF Holds
<1>10. QED
  BY <1>2, <1>3, <1>7, <1>9 DEF Contents

LEMMA NextHolds == Typed' => Contents'
BY BufferHolds, PTL

-----------------------------------------------------------------------------
(* What waits, and what happens to it. *)
LEMMA RestOfConcat ==
  ASSUME NEW t \in Seq(Byte), NEW x \in Seq(Byte), NEW d \in 0 .. Len(x)
  PROVE  Rest(t \o x, Len(t) + d) = Rest(x, d)
<1> DEFINE w == t \o x
           m == Len(t)
           n == Len(x)
<1>1. /\ w \in Seq(Byte) /\ Len(w) = m + n /\ m \in Nat /\ n \in Nat
      /\ \A i \in 1 .. m + n : w[i] = IF i <= m THEN t[i] ELSE x[i - m]
  BY ConcatProperties, LenProperties
<1>2. /\ Rest(x, d) \in Seq(Byte) /\ Len(Rest(x, d)) = n - d
      /\ \A i \in 1 .. n - d : Rest(x, d)[i] = x[d + i]
  BY RestMembers
<1> HIDE DEF w, m
<1>3. m + d \in 0 .. Len(w)
  BY <1>1
<1>4. /\ Rest(w, m + d) \in Seq(Byte) /\ Len(Rest(w, m + d)) = Len(w) - (m + d)
      /\ \A i \in 1 .. Len(w) - (m + d) : Rest(w, m + d)[i] = w[m + d + i]
  BY <1>1, <1>3, RestMembers
<1> HIDE DEF n
<1>5. Len(w) - (m + d) = n - d /\ d \in Nat /\ d <= n
  BY <1>1 DEF n
<1>6. ASSUME NEW i \in 1 .. n - d PROVE Rest(w, m + d)[i] = Rest(x, d)[i]
  <2>1. m + d + i \in 1 .. m + n /\ ~(m + d + i <= m) /\ (m + d + i) - m = d + i
    BY <1>1, <1>5
  <2>2. w[m + d + i] = x[d + i]
    BY <1>1, <2>1
  <2>3. QED
    BY <1>2, <1>4, <1>5, <2>2
<1>7. Rest(w, m + d) = Rest(x, d)
  BY <1>2, <1>4, <1>5, <1>6, SeqEqual
<1>8. QED
  BY <1>7 DEF w, m

LEMMA FirstOfConcat ==
  ASSUME NEW t \in Seq(Byte), NEW x \in Seq(Byte)
  PROVE  SubSeq(t \o x, 1, Len(t)) = t
<1>1. CASE Len(t) = 0
  <2>1. t = <<>>
    BY <1>1, EmptySeq
  <2>2. SubSeq(t \o x, 1, 0) = <<>>
    BY SubSeqEmpty
  <2>3. QED
    BY <1>1, <2>1, <2>2
<1>2. CASE Len(t) # 0
  <2>1. 1 \in 1 .. Len(t) /\ Len(t) \in 1 .. Len(t)
    BY <1>2, LenProperties
  <2>2. SubSeq(t \o x, 1, Len(t)) = SubSeq(t, 1, Len(t))
    BY <2>1, SubSeqOfConcat1
  <2>3. QED
    BY <2>2, SubSeqFull
<1>3. QED
  BY <1>1, <1>2

(* Some of x is lost, behind t. *)
LEMMA Lost ==
  ASSUME NEW t \in Seq(Byte), NEW x \in Seq(Byte), NEW d \in 0 .. Len(x)
  PROVE  Terminal!Without(t \o x, Len(t), Len(t) + d) = t \o Rest(x, d)
<1> DEFINE w == t \o x
<1>1. SubSeq(w, Len(t) + d + 1, Len(w)) = Rest(x, d)
  BY RestOfConcat DEF Rest
<1>2. SubSeq(w, 1, Len(t)) = t
  BY FirstOfConcat
<1>3. Terminal!Without(w, Len(t), Len(t) + d)
        = SubSeq(w, 1, Len(t)) \o SubSeq(w, Len(t) + d + 1, Len(w))
  BY DEF Terminal!Without
<1>4. QED
  BY <1>1, <1>2, <1>3

(* The first goes. *)
LEMMA FirstGoes ==
  ASSUME NEW x \in Byte, NEW s \in Seq(Byte)
  PROVE  /\ <<x>> \o s \in Seq(Byte) /\ <<x>> \o s # <<>> /\ Len(<<x>> \o s) = Len(s) + 1
         /\ Tail(<<x>> \o s) = s /\ Terminal!Without(<<x>> \o s, 0, 1) = s
<1> DEFINE w == <<x>> \o s
<1>1. <<x>> \in Seq(Byte) /\ Len(<<x>>) = 1 /\ Len(s) \in Nat
  BY LenProperties
<1>2. w \in Seq(Byte) /\ Len(w) = 1 + Len(s)
  BY <1>1, ConcatProperties
<1>3. w # <<>>
  BY <1>1, <1>2, EmptySeq
<1>4. Rest(w, 1) = s
  <2>1. 0 \in 0 .. Len(s)
    BY <1>1
  <2>2. Rest(w, Len(<<x>>) + 0) = Rest(s, 0)
    BY <1>1, <2>1, RestOfConcat
  <2>3. QED
    BY <1>1, <2>2, RestNone
<1>5. Tail(w) = s
  <2> HIDE DEF w
  <2>1. Tail(w) = SubSeq(w, 2, Len(w))
    BY <1>2, <1>3, TailIsSubSeq
  <2>2. QED
    BY <1>4, <2>1 DEF Rest
<1>6. Terminal!Without(w, 0, 1) = s
  <2>1. Terminal!Without(w, 0, 1) = SubSeq(w, 1, 0) \o SubSeq(w, 2, Len(w))
    BY DEF Terminal!Without
  <2>2. SubSeq(w, 1, 0) = <<>> /\ SubSeq(w, 2, Len(w)) = s
    BY <1>4, SubSeqEmpty DEF Rest
  <2>3. QED
    BY <2>1, <2>2, ConcatEmptySeq
<1>7. QED
  BY <1>1, <1>2, <1>3, <1>5, <1>6

LEMMA FirstAndRest ==
  ASSUME NEW c \in Seq(Byte), c # <<>>
  PROVE  c[1] \in Byte /\ c = <<c[1]>> \o Rest(c, 1) /\ Rest(c, 1) \in Seq(Byte)
<1>1. Len(c) \in Nat /\ Len(c) > 0
  BY EmptySeq
<1>2. 1 \in 1 .. Len(c) /\ Len(c) \in 1 .. Len(c) /\ 1 \in 0 .. Len(c)
  BY <1>1
<1>3. SubSeq(c, 1, Len(c)) = <<c[1]>> \o SubSeq(c, 1 + 1, Len(c))
  BY <1>2, SubSeqRecursiveFirst
<1>4. Rest(c, 1) \in Seq(Byte)
  BY <1>2, RestMembers
<1>5. QED
  BY <1>2, <1>3, <1>4, SubSeqFull, ElementOfSeq DEF Rest

LEMMA Associates ==
  ASSUME NEW s \in Seq(Byte), NEW t \in Seq(Byte), NEW u \in Seq(Byte)
  PROVE  s \o (t \o u) = (s \o t) \o u
BY ConcatAssociative, SMTT(60)

LEMMA JoinType ==
  ASSUME NEW t \in Seq(Byte), NEW b \in Seq(Byte), NEW p \in Seq(Byte), NEW f \in Seq(Byte)
  PROVE  /\ t \o b \o p \o f \in Seq(Byte)
         /\ Len(t \o b \o p \o f) = Len(t) + Len(b) + Len(p) + Len(f)
<1>1. /\ t \o b \in Seq(Byte) /\ Len(t \o b) = Len(t) + Len(b)
  BY ConcatProperties
<1>2. t \o b \o p \in Seq(Byte) /\ Len(t \o b \o p) = Len(t) + Len(b) + Len(p)
  BY <1>1, ConcatProperties
<1>3. QED
  BY <1>2, ConcatProperties

LEMMA JoinTwo ==
  ASSUME NEW t \in Seq(Byte), NEW b \in Seq(Byte), NEW f \in Seq(Byte)
  PROVE  t \o b \o <<>> \o f = t \o (b \o f)
<1>1. t \o b \in Seq(Byte)
  BY ConcatProperties
<1>2. (t \o b) \o <<>> = t \o b
  BY <1>1, ConcatEmptySeq
<1>3. t \o (b \o f) = (t \o b) \o f
  BY Associates
<1>4. QED
  BY <1>2, <1>3

LEMMA NoneIsSeq == <<>> \in Seq(Byte) /\ Len(<<>>) = 0
BY EmptySeq

(* The cases of the proof, for what waits. *)
LEMMA WaitArrive ==
  ASSUME NEW w \in Seq(Byte), NEW f \in Seq(Byte), NEW x \in Byte
  PROVE  w \o Append(f, x) = Append(w \o f, x)
<1>1. <<x>> \in Seq(Byte) /\ w \o f \in Seq(Byte)
  BY ConcatProperties
<1>2. Append(f, x) = f \o <<x>> /\ Append(w \o f, x) = (w \o f) \o <<x>>
  BY <1>1, AppendIsConcat
<1>3. w \o (f \o <<x>>) = (w \o f) \o <<x>>
  BY <1>1, Associates
<1>4. QED
  BY <1>2, <1>3

LEMMA WaitTake ==
  ASSUME NEW b \in Seq(Byte), b # <<>>, NEW f \in Seq(Byte)
  PROVE  <<b[1]>> \o Rest(b, 1) \o <<>> \o f = <<>> \o b \o <<>> \o f
<1>1. b = <<b[1]>> \o Rest(b, 1)
  BY FirstAndRest
<1>2. <<>> \o b = b
  BY ConcatEmptySeq
<1>3. QED
  BY <1>1, <1>2

LEMMA WaitPut ==
  ASSUME NEW t \in Seq(Byte), NEW b \in Seq(Byte), NEW f \in Seq(Byte), NEW x \in Byte
  PROVE  t \o Append(b, x) \o <<>> \o f = t \o b \o <<x>> \o f
<1>1. <<x>> \in Seq(Byte) /\ Append(b, x) = b \o <<x>>
  BY AppendIsConcat
<1>2. t \o (b \o <<x>>) = (t \o b) \o <<x>>
  BY <1>1, ConcatAssociative
<1>3. (t \o b) \o <<x>> \in Seq(Byte)
  <2>1. t \o b \in Seq(Byte)
    BY ConcatProperties
  <2>2. QED
    BY <1>1, <2>1, ConcatProperties
<1>4. ((t \o b) \o <<x>>) \o <<>> = (t \o b) \o <<x>>
  BY <1>3, ConcatEmptySeq
<1>5. QED
  BY <1>1, <1>2, <1>4

LEMMA WaitRead ==
  ASSUME NEW t \in Seq(Byte), NEW b \in Seq(Byte), NEW f \in Seq(Byte), f # <<>>
  PROVE  t \o b \o <<Head(f)>> \o Tail(f) = t \o b \o <<>> \o f
<1>1. Head(f) \in Byte /\ Tail(f) \in Seq(Byte) /\ Tail(f) = Rest(f, 1) /\ Head(f) = f[1]
  BY HeadTailProperties, TailIsSubSeq DEF Rest
<1>2. f = <<Head(f)>> \o Tail(f)
  BY <1>1, FirstAndRest
<1>3. t \o b \in Seq(Byte) /\ <<Head(f)>> \in Seq(Byte)
  BY <1>1, ConcatProperties
<1>4. (t \o b) \o <<>> = t \o b
  BY <1>3, ConcatEmptySeq
<1>5. ((t \o b) \o <<Head(f)>>) \o Tail(f) = (t \o b) \o (<<Head(f)>> \o Tail(f))
  <2>1. PICK w, h, g : w = t \o b /\ h = <<Head(f)>> /\ g = Tail(f)
    OBVIOUS
  <2>2. w \in Seq(Byte) /\ h \in Seq(Byte) /\ g \in Seq(Byte)
    BY <1>1, <1>3, <2>1
  <2>3. w \o (h \o g) = (w \o h) \o g
    BY <2>2, Associates, SMTT(60)
  <2>4. QED
    BY <2>1, <2>3
<1>6. QED
  BY <1>2, <1>4, <1>5

LEMMA WaitShow ==
  ASSUME NEW x \in Byte, NEW b \in Seq(Byte), NEW f \in Seq(Byte)
  PROVE  LET w == <<x>> \o b \o <<>> \o f
         IN  w # <<>> /\ <<>> \o b \o <<>> \o f = Tail(w)
<1> DEFINE s == b \o f
<1>1. s \in Seq(Byte)
  BY ConcatProperties
<1>2. <<x>> \in Seq(Byte) /\ <<>> \in Seq(Byte)
  BY EmptySeq
<1>3. <<x>> \o b \o <<>> \o f = <<x>> \o s
  BY <1>2, JoinTwo
<1>4. <<>> \o b \o <<>> \o f = s
  <2>1. <<>> \o b \o <<>> \o f = <<>> \o s
    BY <1>2, JoinTwo
  <2>2. <<>> \o s = s
    BY <1>1, ConcatEmptySeq
  <2>3. QED
    BY <2>1, <2>2
<1> HIDE DEF s
<1>5. <<x>> \o s # <<>> /\ Tail(<<x>> \o s) = s
  BY <1>1, FirstGoes
<1>6. QED
  BY <1>3, <1>4, <1>5

(* What waits before the interrupt has been served and after it, with d of  *)
(* the oldest lost.                                                        *)
Joined(t, b, f) == t \o b \o <<>> \o f
Left(t, b, f, d) == t \o Rest(b \o f, d) \o <<>> \o <<>>

LEMMA WaitLose ==
  ASSUME NEW t \in Seq(Byte), NEW b \in Seq(Byte), NEW f \in Seq(Byte),
         NEW d \in 0 .. Len(b) + Len(f)
  PROVE  LET w == Joined(t, b, f)
         IN  /\ Len(w) = Len(t) + Len(b) + Len(f)
             /\ Left(t, b, f, d) = Terminal!Without(w, Len(t), Len(t) + d)
             /\ d = 0 => Left(t, b, f, d) = w
<1>1. /\ b \o f \in Seq(Byte) /\ Len(b \o f) = Len(b) + Len(f) /\ <<>> \o f = f
      /\ <<>> \in Seq(Byte) /\ Len(<<>>) = 0
  BY ConcatProperties, ConcatEmptySeq, EmptySeq
<1>2. t \o b \o <<>> \o f = t \o (b \o f)
  BY JoinTwo
<1>3. Len(t \o b \o <<>> \o f) = Len(t) + Len(b) + Len(f)
  <2>1. Len(t \o b \o <<>> \o f) = Len(t) + Len(b) + Len(<<>>) + Len(f)
    BY <1>1, JoinType
  <2>2. Len(t) \in Nat /\ Len(b) \in Nat /\ Len(f) \in Nat
    BY LenProperties
  <2>3. QED
    BY <1>1, <2>1, <2>2
<1>4. Rest(b \o f, d) \in Seq(Byte)
  BY <1>1, RestMembers
<1>5. t \o Rest(b \o f, d) \o <<>> \o <<>> = t \o Rest(b \o f, d)
  <2> DEFINE v == t \o Rest(b \o f, d)
  <2>1. v \in Seq(Byte)
    BY <1>4, ConcatProperties
  <2> HIDE DEF v
  <2>2. v \o <<>> = v
    BY <2>1, ConcatEmptySeq
  <2>3. QED
    BY <2>2 DEF v
<1>6. Terminal!Without(t \o (b \o f), Len(t), Len(t) + d) = t \o Rest(b \o f, d)
  <2> DEFINE x == b \o f
  <2>1. x \in Seq(Byte) /\ d \in 0 .. Len(x)
    BY <1>1
  <2> HIDE DEF x
  <2>2. Terminal!Without(t \o x, Len(t), Len(t) + d) = t \o Rest(x, d)
    BY <2>1, Lost
  <2>3. QED
    BY <2>2 DEF x
<1>7. d = 0 => Rest(b \o f, d) = b \o f
  BY <1>1, RestNone
<1>8. QED
  BY <1>2, <1>3, <1>5, <1>6, <1>7 DEF Joined, Left

-----------------------------------------------------------------------------
(* What waits, in a typed state. *)
LEMMA LengthOf ==
  ASSUME NEW s \in Index, NEW e \in Index, NEW f, NEW c, Holds(f, s, e, c)
  PROVE  /\ Len(c) \in 0 .. UART_BUFFER_SIZE
         /\ e = s <=> Len(c) \in {0, UART_BUFFER_SIZE}
         /\ Len(c) < UART_BUFFER_SIZE => Len(c) = Distance(s, e)
<1>1. Len(c) \in Nat /\ Len(c) <= UART_BUFFER_SIZE /\ e = At(s, Len(c) + 1)
  BY LenProperties DEF Holds
<1>2. PICK n : n = Len(c)
  OBVIOUS
<1>3. /\ n \in 0 .. UART_BUFFER_SIZE /\ (e = s <=> n \in {0, UART_BUFFER_SIZE})
      /\ n < UART_BUFFER_SIZE => n = Distance(s, e)
  BY <1>1, <1>2, Sizes DEF At, Index, Distance
<1>4. QED
  BY <1>2, <1>3

(* Whatever the two ends of the new buffer hold is the new Buffer. *)
LEMMA BufferBecomes ==
  ASSUME Contents', NEW c, Holds(uart'.buffer, Slot(uart'.start), Rear', c),
         IF Writing' THEN Len(c) > 0 ELSE Len(c) < UART_BUFFER_SIZE
  PROVE  Buffer' = c
<1>1. /\ Holds(uart'.buffer, Slot(uart'.start), Rear', Buffer') /\ Slot(uart'.start) \in Index
      /\ IF Writing' THEN Len(Buffer') > 0 ELSE Len(Buffer') < UART_BUFFER_SIZE
  BY DEF Contents
<1>2. QED
  BY <1>1, HoldsOne

(* The buffer stays when its memory and its two ends do. *)
LEMMA BufferStays ==
  ASSUME Contents, Contents', uart'.buffer = uart.buffer,
         Slot(uart'.start) = Slot(uart.start), Rear' = Rear,
         \/ Writing' = Writing
         \/ Len(Buffer) > 0 /\ Len(Buffer) < UART_BUFFER_SIZE
  PROVE  Buffer' = Buffer
<1>1. /\ Holds(uart'.buffer, Slot(uart'.start), Rear', Buffer)
      /\ IF Writing THEN Len(Buffer) > 0 ELSE Len(Buffer) < UART_BUFFER_SIZE
  BY DEF Contents
<1>2. IF Writing' THEN Len(Buffer) > 0 ELSE Len(Buffer) < UART_BUFFER_SIZE
  BY <1>1
<1>3. QED
  BY <1>1, <1>2, BufferBecomes

LEMMA PartTypes ==
  ASSUME Typed
  PROVE  /\ Taken \in Seq(Byte) /\ Len(Taken) \in 0 .. 1
         /\ Putting \in Seq(Byte) /\ fifo \in Seq(Byte) /\ Buffer \in Seq(Byte)
         /\ uart.start \in 0 .. UART_BUFFER_SIZE /\ uart.end \in 0 .. UART_BUFFER_SIZE
         /\ uart.buffer \in [0 .. UART_BUFFER_SIZE -> Byte]
         /\ reg \in 0 .. UART_BUFFER_SIZE /\ strb \in Byte /\ sent \in Byte
         /\ uart.start = UART_BUFFER_SIZE => pc \in Reading
         /\ uart.end = UART_BUFFER_SIZE => pc \in Wrapping
<1>1. /\ uart \in Uart /\ reg \in 0 .. UART_BUFFER_SIZE /\ strb \in Byte /\ sent \in Byte
      /\ fifo \in Seq(Bytes)
      /\ (uart.start = UART_BUFFER_SIZE => pc \in Reading)
      /\ (uart.end = UART_BUFFER_SIZE => pc \in Wrapping)
  BY TypedIs DEF Facts, Byte
<1>2. /\ uart.buffer \in [0 .. UART_BUFFER_SIZE -> Byte]
      /\ uart.start \in 0 .. UART_BUFFER_SIZE /\ uart.end \in 0 .. UART_BUFFER_SIZE
  BY <1>1, FieldTypes DEF Byte
<1>3. fifo \in Seq(Byte)
  BY <1>1, SeqMonotonic DEF Byte
<1>4. \A b \in Byte : <<b>> \in Seq(Byte) /\ Len(<<b>>) \in 0 .. 1
  OBVIOUS
<1>5. <<>> \in Seq(Byte) /\ Len(<<>>) \in 0 .. 1
  BY EmptySeq
<1>6. uart.buffer[reg] \in Byte
  BY <1>1, <1>2
<1>7. Taken \in {<<uart.buffer[reg]>>, <<strb>>, <<>>} /\ Putting \in {<<strb>>, <<>>}
  BY DEF Taken, Putting
<1>8. /\ Taken \in Seq(Byte) /\ Len(Taken) \in 0 .. 1 /\ Putting \in Seq(Byte)
  BY <1>1, <1>4, <1>5, <1>6, <1>7
<1>9. Buffer \in Seq(Byte)
  BY BufferHolds DEF Contents
<1>10. QED
  BY <1>1, <1>2, <1>3, <1>8, <1>9

(* A host that obeys leaves room for what its FIFO holds. *)
LEMMA RoomForAll ==
  ASSUME Typed, CountInv, obeys, pc # "write"
  PROVE  Len(Buffer) + Len(fifo) < UART_BUFFER_SIZE
<1>1. /\ Ring(uart) \in Nat /\ Len(fifo) \in Nat /\ uart.count \in Nat
      /\ uart.start \in 0 .. UART_BUFFER_SIZE /\ uart.end \in 0 .. UART_BUFFER_SIZE
  BY Numbers1
<1>2. /\ Counted /\ Room
  BY DEF CountInv
<1>3. Ring(uart) + Len(fifo) < UART_BUFFER_SIZE
  BY <1>1, <1>2, Sizes DEF Room, Putting1
<1>4. /\ Holds(uart.buffer, Slot(uart.start), Slot(uart.end), Buffer)
      /\ Slot(uart.start) \in Index /\ Slot(uart.end) \in Index
      /\ ~Writing => Len(Buffer) < UART_BUFFER_SIZE
  BY BufferHolds DEF Contents, Rear
<1>5. /\ Len(Buffer) \in 0 .. UART_BUFFER_SIZE
      /\ Slot(uart.end) = Slot(uart.start) <=> Len(Buffer) \in {0, UART_BUFFER_SIZE}
      /\ Len(Buffer) < UART_BUFFER_SIZE => Len(Buffer) = Ring(uart)
  BY <1>4, LengthOf DEF Ring
<1>6. Len(Buffer) < UART_BUFFER_SIZE
  <2>1. CASE ~Writing
    BY <1>4, <2>1
  <2>2. CASE Writing
    <3>1. uart.count = Ring(uart) - 1
      BY <1>2, <2>2 DEF Counted, Writing
    <3>2. Ring(uart) # 0
      BY <1>1, <3>1
    <3>3. Slot(uart.start) # Slot(uart.end)
      BY <1>1, <3>2, RingMoves DEF Ring
    <3>4. QED
      BY <1>5, <3>3, Sizes
  <2>3. QED
    BY <2>1, <2>2
<1>7. QED
  BY <1>3, <1>5, <1>6

(* A step of the program, seen by who waits for the bytes. *)
Visible == Terminal!Send \/ Terminal!Show \/ Terminal!Lose

(* A step that moves no byte. *)
LEMMA NothingMoves ==
  ASSUME Contents, Contents', uart'.buffer = uart.buffer,
         Slot(uart'.start) = Slot(uart.start), Rear' = Rear,
         \/ Writing' = Writing
         \/ Len(Buffer) > 0 /\ Len(Buffer) < UART_BUFFER_SIZE,
         Taken' = Taken, Putting' = Putting, fifo' = fifo
  PROVE  Waiting' = Waiting
<1>1. Buffer' = Buffer
  BY BufferStays
<1>2. QED
  BY <1>1 DEF Waiting

(* The steps that only go on. *)
LEMMA OtherMoves ==
  ASSUME Typed, Typed', InOrder, Ready \/ Busy \/ Rts \/ Poll
  PROVE  Waiting' = Waiting /\ InOrder'
<1>1. /\ Contents /\ Contents'
      /\ uart.start \in 0 .. UART_BUFFER_SIZE /\ uart.end \in 0 .. UART_BUFFER_SIZE
      /\ (uart.start = UART_BUFFER_SIZE => pc \in Reading)
      /\ (uart.end = UART_BUFFER_SIZE => pc \in Wrapping)
  BY BufferHolds, NextHolds, PartTypes
<1>2. /\ uart' = uart /\ strb' = strb /\ fifo' = fifo /\ reg' = reg
      /\ \/ pc \in {"top", "poll"} /\ pc' \in {"take", "poll", "read", "top"}
         \/ pc = "rts" /\ pc' \in {"resume", "wrap_start"}
  BY DEF Ready, Busy, Rts, Poll, Step
<1>3. Rear' = Rear /\ Writing' = Writing /\ Taken' = Taken /\ Putting' = Putting
  BY <1>2 DEF Rear, Writing, Taken, Putting
<1>4. Waiting' = Waiting
  BY <1>1, <1>2, <1>3, NothingMoves
<1>5. InOrder'
  <2>1. CASE pc' = "take"
    <3>1. pc = "top" /\ uart.start # uart.end
      BY <1>2, <2>1 DEF Ready, Busy, Rts, Poll, Step
    <3>2. Slot(uart.start) # Slot(uart.end)
      BY <1>1, <3>1, SlotTwice, Sizes DEF Reading, Wrapping
    <3>3. QED
      BY <1>2, <2>1, <3>2 DEF InOrder
  <2>2. CASE pc' # "take"
    BY <1>2, <2>2 DEF InOrder
  <2>3. QED
    BY <2>1, <2>2
<1>6. QED
  BY <1>4, <1>5

(* A byte is shown, and a byte is read from the FIFO. *)
LEMMA ShowMoves ==
  ASSUME Typed, Typed', Show
  PROVE  Terminal!Show /\ InOrder'
<1>1. /\ Contents /\ Contents' /\ Buffer \in Seq(Byte) /\ fifo \in Seq(Byte) /\ strb \in Byte
  BY BufferHolds, NextHolds, PartTypes
<1>2. pc = "show" /\ pc' = "poll" /\ uart' = uart /\ fifo' = fifo
  BY DEF Show, Step
<1>3. Buffer' = Buffer
  <2>1. Rear' = Rear /\ Writing' = Writing
    BY <1>2 DEF Rear, Writing
  <2>2. QED
    BY <1>1, <1>2, <2>1, BufferStays
<1>4. /\ Taken = <<strb>> /\ Taken' = <<>> /\ Putting = <<>> /\ Putting' = <<>>
  BY <1>2 DEF Taken, Putting
<1>5. /\ Waiting = <<strb>> \o Buffer \o <<>> \o fifo
      /\ Waiting' = <<>> \o Buffer \o <<>> \o fifo
  BY <1>2, <1>3, <1>4 DEF Waiting
<1>6. Waiting # <<>> /\ Waiting' = Tail(Waiting)
  BY <1>1, <1>5, WaitShow
<1>7. InOrder'
  BY <1>2 DEF InOrder
<1>8. QED
  BY <1>6, <1>7 DEF Terminal!Show

LEMMA ReadMoves ==
  ASSUME Typed, Typed', Read
  PROVE  Waiting' = Waiting /\ InOrder'
<1>1. /\ Contents /\ Contents' /\ Buffer \in Seq(Byte) /\ fifo \in Seq(Byte)
      /\ Taken \in Seq(Byte)
  BY BufferHolds, NextHolds, PartTypes
<1>2. /\ pc = "read" /\ pc' = "put" /\ uart' = uart /\ fifo # <<>>
      /\ strb' = Head(fifo) /\ fifo' = Tail(fifo)
  BY DEF Read, Step
<1>3. Buffer' = Buffer
  <2>1. Rear' = Rear /\ Writing' = Writing
    BY <1>2 DEF Rear, Writing
  <2>2. QED
    BY <1>1, <1>2, <2>1, BufferStays
<1>4. /\ Taken' = Taken /\ Putting = <<>> /\ Putting' = <<Head(fifo)>>
  BY <1>2 DEF Taken, Putting
<1>5. /\ Waiting = Taken \o Buffer \o <<>> \o fifo
      /\ Waiting' = Taken \o Buffer \o <<Head(fifo)>> \o Tail(fifo)
  BY <1>2, <1>3, <1>4 DEF Waiting
<1>6. Waiting' = Waiting
  BY <1>1, <1>2, <1>5, WaitRead
<1>7. InOrder'
  BY <1>2 DEF InOrder
<1>8. QED
  BY <1>6, <1>7

(* The host sends. *)
LEMMA ArriveMoves ==
  ASSUME Typed, Typed', InOrder, Arrive
  PROVE  Terminal!Send /\ InOrder'
<1>1. /\ Contents /\ Contents' /\ Buffer \in Seq(Byte) /\ fifo \in Seq(Byte)
      /\ Taken \in Seq(Byte) /\ Putting \in Seq(Byte) /\ sent \in Byte /\ sent \in Bytes
  BY BufferHolds, NextHolds, PartTypes, TypedIs
<1>2. /\ pc' = pc /\ reg' = reg /\ strb' = strb /\ uart' = uart /\ fifo' = Append(fifo, sent)
  BY DEF Arrive, main
<1>3. /\ Rear' = Rear /\ Writing' = Writing /\ Taken' = Taken /\ Putting' = Putting
      /\ InOrder'
  BY <1>2 DEF Rear, Writing, Taken, Putting, InOrder
<1>4. Buffer' = Buffer
  BY <1>1, <1>2, <1>3, BufferStays
<1>5. Waiting' = Append(Waiting, sent)
  <2>1. /\ Waiting = Taken \o Buffer \o Putting \o fifo
        /\ Waiting' = Taken \o Buffer \o Putting \o Append(fifo, sent)
    BY <1>2, <1>3, <1>4 DEF Waiting
  <2>2. PICK w : w = Taken \o Buffer \o Putting
    OBVIOUS
  <2>3. w \in Seq(Byte)
    <3>1. Taken \o Buffer \in Seq(Byte)
      BY <1>1, ConcatProperties
    <3>2. QED
      BY <1>1, <2>2, <3>1, ConcatProperties
  <2>4. w \o Append(fifo, sent) = Append(w \o fifo, sent)
    BY <1>1, <2>3, WaitArrive
  <2>5. QED
    BY <2>1, <2>2, <2>4
<1>6. QED
  BY <1>1, <1>3, <1>5 DEF Terminal!Send

(* A byte is taken from the ring. *)
LEMMA LeaveMoves ==
  ASSUME Typed, Typed', InOrder, pc = "leave", Take
  PROVE  Waiting' = Waiting /\ InOrder'
<1>1. /\ Contents /\ Contents' /\ Buffer \in Seq(Byte) /\ fifo \in Seq(Byte)
      /\ uart \in Uart /\ reg \in 0 .. UART_BUFFER_SIZE /\ reg < UART_BUFFER_SIZE
  BY BufferHolds, NextHolds, PartTypes, TypedIs DEF Facts
<1>2. /\ uart' = [uart EXCEPT !.start = reg + 1] /\ pc' = "load" /\ reg' = reg /\ fifo' = fifo
  BY DEF Take, Step
<1>3. reg = uart.start /\ Slot(uart.start) # Slot(uart.end)
  BY DEF InOrder
<1>4. /\ uart'.start = reg + 1 /\ uart'.end = uart.end /\ uart'.buffer = uart.buffer
  <2>1. reg + 1 \in 0 .. UART_BUFFER_SIZE
    BY <1>1, Sizes
  <2>2. QED
    BY <1>1, <1>2, <2>1, NewStart
<1>5. /\ Slot(uart.start) = reg /\ Slot(uart'.start) = Slot(reg + 1)
      /\ Rear = Slot(uart.end) /\ Rear' = Slot(uart.end) /\ ~Writing /\ ~Writing'
  <2>1. Slot(uart.start) = reg
    BY <1>1, <1>3, Sizes DEF Slot
  <2>2. QED
    BY <1>2, <1>4, <2>1 DEF Rear, Writing
<1>6. /\ Holds(uart.buffer, reg, Rear, Buffer) /\ reg \in Index /\ Rear \in Index
      /\ Len(Buffer) < UART_BUFFER_SIZE
  BY <1>1, <1>5 DEF Contents
<1>7. Buffer # <<>>
  <2>1. Len(Buffer) # 0
    BY <1>3, <1>5, <1>6, LengthOf
  <2>2. QED
    BY <2>1, EmptySeq
<1>8. /\ Holds(uart.buffer, Slot(reg + 1), Rear, Rest(Buffer, 1))
      /\ Len(Rest(Buffer, 1)) = Len(Buffer) - 1 /\ Buffer[1] = uart.buffer[reg]
  BY <1>6, <1>7, HoldsRest
<1>9. Buffer' = Rest(Buffer, 1)
  <2>1. Len(Rest(Buffer, 1)) < UART_BUFFER_SIZE
    BY <1>1, <1>6, <1>8, LenProperties, Sizes
  <2>2. QED
    BY <1>1, <1>4, <1>5, <1>8, <2>1, BufferBecomes
<1>10. /\ Taken = <<>> /\ Taken' = <<Buffer[1]>> /\ Putting = <<>> /\ Putting' = <<>>
  BY <1>2, <1>4, <1>8 DEF Taken, Putting
<1>11. /\ Waiting = <<>> \o Buffer \o <<>> \o fifo
       /\ Waiting' = <<Buffer[1]>> \o Rest(Buffer, 1) \o <<>> \o fifo
  BY <1>2, <1>9, <1>10 DEF Waiting
<1>12. Waiting' = Waiting
  BY <1>1, <1>7, <1>11, WaitTake
<1>13. InOrder'
  BY <1>2 DEF InOrder
<1>14. QED
  BY <1>12, <1>13

(* The other accesses of the main loop on the way to showing it. *)
LEMMA TakeMoves ==
  ASSUME Typed, Typed', InOrder, Take
  PROVE  Waiting' = Waiting /\ InOrder'
<1>1. CASE pc = "leave"
  BY <1>1, LeaveMoves
<1>2. CASE pc # "leave"
  <2>1. /\ Contents /\ Contents' /\ uart \in Uart /\ reg \in 0 .. UART_BUFFER_SIZE
        /\ uart.start \in 0 .. UART_BUFFER_SIZE
        /\ (pc = "uncount" => reg > 0)
    BY BufferHolds, NextHolds, PartTypes, TypedIs DEF Facts
  <2>2. /\ fifo' = fifo
        /\ \/ pc = "take" /\ pc' = "leave" /\ uart' = uart /\ reg' = uart.start /\ strb' = strb
           \/ pc = "load" /\ pc' = "count" /\ uart' = uart /\ strb' = uart.buffer[reg]
           \/ pc = "count" /\ pc' \in {"uncount", "rts"} /\ uart' = uart /\ strb' = strb
           \/ pc = "uncount" /\ pc' = "rts" /\ uart' = [uart EXCEPT !.count = reg - 1]
              /\ strb' = strb
           \/ pc = "resume" /\ pc' = "low" /\ uart' = [uart EXCEPT !.rts_on = TRUE]
              /\ strb' = strb
           \/ pc = "low" /\ pc' = "wrap_start" /\ uart' = [uart EXCEPT !.low = TRUE]
              /\ strb' = strb
           \/ pc = "wrap_start" /\ pc' = "show" /\ strb' = strb
              /\ uart' = [uart EXCEPT !.start = IF uart.start >= UART_BUFFER_SIZE THEN 0
                                                ELSE uart.start]
    BY <1>2 DEF Take, Step
  <2>3. /\ uart'.buffer = uart.buffer /\ uart'.end = uart.end
        /\ Slot(uart'.start) = Slot(uart.start)
        /\ pc = "take" => uart' = uart
    <3>1. CASE pc = "uncount"
      <4>1. PICK n : n = reg - 1
        OBVIOUS
      <4>2. n \in 0 .. UART_BUFFER_SIZE
        BY <2>1, <3>1, <4>1, Sizes
      <4>3. uart' = [uart EXCEPT !.count = n]
        BY <2>2, <3>1, <4>1
      <4>4. uart'.buffer = uart.buffer /\ uart'.end = uart.end /\ uart'.start = uart.start
        BY <2>1, <4>2, <4>3, NewCount
      <4>5. QED
        BY <3>1, <4>4
    <3>2. CASE pc \in {"resume", "low"}
      BY <2>1, <2>2, <3>2, FieldTypes
    <3>3. CASE pc = "wrap_start"
      <4>1. PICK n : n = IF uart.start >= UART_BUFFER_SIZE THEN 0 ELSE uart.start
        OBVIOUS
      <4>2. n \in 0 .. UART_BUFFER_SIZE /\ Slot(n) = Slot(uart.start)
        BY <2>1, <4>1, Sizes DEF Slot
      <4>3. uart' = [uart EXCEPT !.start = n]
        BY <2>2, <3>3, <4>1
      <4>4. uart'.buffer = uart.buffer /\ uart'.end = uart.end /\ uart'.start = n
        BY <2>1, <4>2, <4>3, NewStart
      <4>5. QED
        BY <3>3, <4>2, <4>4
    <3>4. CASE pc \in {"take", "load", "count"}
      BY <2>2, <3>4
    <3>5. QED
      BY <2>2, <3>1, <3>2, <3>3, <3>4
  <2>4. Rear' = Rear /\ Writing' = Writing
    BY <2>2, <2>3 DEF Rear, Writing
  <2>5. Taken' = Taken /\ Putting' = Putting
    BY <2>2 DEF Taken, Putting
  <2>6. Waiting' = Waiting
    BY <2>1, <2>2, <2>3, <2>4, <2>5, NothingMoves
  <2>7. InOrder'
    <3>1. CASE pc = "take"
      <4>1. pc' = "leave" /\ reg' = uart.start /\ uart' = uart
        BY <2>2, <3>1
      <4>2. Slot(uart.start) # Slot(uart.end)
        BY <3>1 DEF InOrder
      <4>3. QED
        BY <4>1, <4>2 DEF InOrder
    <3>2. CASE pc # "take"
      BY <2>2, <3>2 DEF InOrder
    <3>3. QED
      BY <3>1, <3>2
  <2>8. QED
    BY <2>6, <2>7
<1>3. QED
  BY <1>1, <1>2

(* A byte of the main loop is written, ... *)
LEMMA WriteMoves ==
  ASSUME Typed, Typed', InOrder, pc = "write", Fill
  PROVE  Waiting' = Waiting /\ InOrder'
<1>1. /\ Contents /\ Contents' /\ Buffer \in Seq(Byte) /\ fifo \in Seq(Byte)
      /\ uart \in Uart /\ reg \in Index /\ strb \in Bytes /\ strb \in Byte
      /\ uart.buffer[UART_BUFFER_SIZE] = None
      /\ uart.buffer \in [0 .. UART_BUFFER_SIZE -> Byte]
  <2>1. reg \in 0 .. UART_BUFFER_SIZE /\ reg < UART_BUFFER_SIZE
    BY TypedIs
  <2>2. reg \in Index
    BY <2>1, Sizes DEF Index
  <2>3. QED
    BY <2>2, BufferHolds, NextHolds, PartTypes, TypedIs DEF Facts
<1>2. /\ uart' = Written(uart, reg, strb) /\ pc' = "wrap_end" /\ fifo' = fifo
  BY DEF Fill, Step
<1>3. uart.end = reg + 1
  BY DEF InOrder
<1>4. /\ uart'.start = uart.start /\ uart'.end = reg + 1
      /\ uart'.buffer = [uart.buffer EXCEPT ![reg] = strb]
  <2>1. uart'.start = uart.start /\ uart'.end = uart.end
    BY <1>1, <1>2, WrittenType
  <2>2. uart'.buffer = [uart.buffer EXCEPT ![reg] = strb]
    BY <1>1, <1>2 DEF Written, Uart
  <2>3. QED
    BY <1>3, <2>1, <2>2
<1>5. Rear = reg /\ Rear' = Slot(reg + 1) /\ ~Writing /\ Writing'
  BY <1>2, <1>4 DEF Rear, Writing
<1>6. /\ Holds(uart.buffer, Slot(uart.start), reg, Buffer) /\ Slot(uart.start) \in Index
      /\ Len(Buffer) < UART_BUFFER_SIZE
  BY <1>1, <1>5 DEF Contents
<1>7. Buffer' = Append(Buffer, strb)
  <2>1. Holds(uart'.buffer, Slot(uart'.start), Rear', Append(Buffer, strb))
    BY <1>1, <1>4, <1>5, <1>6, HoldsMore
  <2>2. Len(Append(Buffer, strb)) > 0
    <3>1. Len(Append(Buffer, strb)) = Len(Buffer) + 1 /\ Len(Buffer) \in Nat
      BY <1>1, AppendProperties, LenProperties
    <3>2. QED
      BY <3>1
  <2>3. QED
    BY <1>1, <1>5, <2>1, <2>2, BufferBecomes
<1>8. /\ Taken = <<>> /\ Taken' = <<>> /\ Putting = <<strb>> /\ Putting' = <<>>
  BY <1>2 DEF Taken, Putting
<1>9. /\ Waiting = <<>> \o Buffer \o <<strb>> \o fifo
      /\ Waiting' = <<>> \o Append(Buffer, strb) \o <<>> \o fifo
  BY <1>2, <1>7, <1>8 DEF Waiting
<1>10. Waiting' = Waiting
  BY <1>1, <1>9, NoneIsSeq, WaitPut
<1>11. InOrder'
  BY <1>2 DEF InOrder
<1>12. QED
  BY <1>10, <1>11

(* ... and the oldest is dropped when that has filled the ring. *)
LEMMA WaitDrop ==
  ASSUME NEW b \in Seq(Byte), b # <<>>, NEW f \in Seq(Byte)
  PROVE  LET w == <<>> \o b \o <<>> \o f
         IN  /\ <<>> \o Rest(b, 1) \o <<>> \o f = Terminal!Without(w, 0, 1)
             /\ Len(w) = Len(b) + Len(f)
<1>1. PICK x, r : x = b[1] /\ r = Rest(b, 1)
  OBVIOUS
<1>2. x \in Byte /\ r \in Seq(Byte) /\ b = <<x>> \o r
  BY <1>1, FirstAndRest
<1>3. <<x>> \in Seq(Byte) /\ r \o f \in Seq(Byte)
  BY <1>2, ConcatProperties
<1>4. ASSUME NEW s \in Seq(Byte) PROVE <<>> \o s \o <<>> \o f = s \o f
  <2>1. <<>> \o s = s
    BY ConcatEmptySeq
  <2>2. s \o <<>> = s
    BY ConcatEmptySeq
  <2>3. QED
    BY <2>1, <2>2
<1>5. b \o f = <<x>> \o (r \o f)
  <2>1. <<x>> \o (r \o f) = (<<x>> \o r) \o f
    BY <1>2, <1>3, Associates
  <2>2. QED
    BY <1>2, <2>1
<1>6. Terminal!Without(<<x>> \o (r \o f), 0, 1) = r \o f
  BY <1>2, <1>3, FirstGoes
<1>7. Len(b \o f) = Len(b) + Len(f)
  BY ConcatProperties
<1>8. /\ <<>> \o b \o <<>> \o f = b \o f
      /\ <<>> \o Rest(b, 1) \o <<>> \o f = r \o f
  BY <1>1, <1>2, <1>4
<1>9. QED
  BY <1>5, <1>6, <1>7, <1>8

LEMMA DropMoves ==
  ASSUME Typed, Typed', InOrder, CountInv, pc = "drop", Fill
  PROVE  (Waiting' = Waiting \/ Terminal!Lose) /\ InOrder'
<1>1. /\ Contents /\ Contents' /\ Buffer \in Seq(Byte) /\ fifo \in Seq(Byte) /\ uart \in Uart
      /\ uart.start \in 0 .. UART_BUFFER_SIZE /\ uart.start # UART_BUFFER_SIZE
      /\ uart.end \in 0 .. UART_BUFFER_SIZE /\ uart.end # UART_BUFFER_SIZE
  BY BufferHolds, NextHolds, PartTypes, TypedIs DEF Facts, Reading, Wrapping
<1>2. uart' = DropOldest(uart) /\ pc' = "recount" /\ fifo' = fifo
  BY DEF Fill, Step
<1>3. /\ uart.start \in Index /\ uart.end \in Index /\ Slot(uart.start) = uart.start
      /\ Slot(uart.end) = uart.end
  BY <1>1, Sizes DEF Slot, Index
<1>4. Rear = uart.end /\ Writing /\ ~Writing'
  BY <1>2, <1>3 DEF Rear, Writing
<1>5. /\ Holds(uart.buffer, uart.start, uart.end, Buffer) /\ Len(Buffer) > 0
  BY <1>1, <1>3, <1>4 DEF Contents
<1>6. /\ Taken = <<>> /\ Taken' = <<>> /\ Putting = <<>> /\ Putting' = <<>>
  BY <1>2 DEF Taken, Putting
<1>7. InOrder'
  BY <1>2 DEF InOrder
<1>8. /\ Len(Buffer) \in 0 .. UART_BUFFER_SIZE
      /\ uart.end = uart.start <=> Len(Buffer) \in {0, UART_BUFFER_SIZE}
  BY <1>3, <1>5, LengthOf
<1>9. CASE uart.end # uart.start
  <2>1. uart' = uart
    BY <1>2, <1>9 DEF DropOldest
  <2>2. Len(Buffer) < UART_BUFFER_SIZE
    BY <1>8, <1>9, Sizes
  <2>3. Rear' = Rear
    BY <1>2, <2>1 DEF Rear
  <2>4. Waiting' = Waiting
    BY <1>1, <1>2, <1>5, <1>6, <2>1, <2>2, <2>3, NothingMoves
  <2>5. QED
    BY <1>7, <2>4
<1>10. CASE uart.end = uart.start
  <2>1. Len(Buffer) = UART_BUFFER_SIZE /\ Buffer # <<>>
    BY <1>5, <1>8, <1>10, EmptySeq, Sizes
  <2>2. PICK n : n = Slot(uart.start + 1)
    OBVIOUS
  <2>3. n \in 0 .. UART_BUFFER_SIZE /\ Slot(n) = n
        /\ n = IF uart.start + 1 >= UART_BUFFER_SIZE THEN 0 ELSE uart.start + 1
    BY <1>3, <2>2, Sizes DEF Slot, Index
  <2>4. uart' = [uart EXCEPT !.start = n]
    BY <1>2, <1>10, <2>3 DEF DropOldest
  <2>5. uart'.start = n /\ uart'.end = uart.end /\ uart'.buffer = uart.buffer
    BY <1>1, <2>3, <2>4, NewStart
  <2>6. Rear' = uart.end
    BY <1>2, <1>3, <2>5 DEF Rear
  <2>7. /\ Holds(uart.buffer, n, uart.end, Rest(Buffer, 1))
        /\ Len(Rest(Buffer, 1)) = Len(Buffer) - 1
    <3>1. Buffer # <<>> /\ uart.start \in Index
      BY <1>3, <2>1
    <3>2. Holds(uart.buffer, uart.start, uart.end, Buffer)
      BY <1>5
    <3>3. QED
      BY <2>2, <3>1, <3>2, HoldsRest
  <2>8. Buffer' = Rest(Buffer, 1)
    <3>1. Len(Rest(Buffer, 1)) < UART_BUFFER_SIZE
      BY <2>1, <2>7, Sizes
    <3>2. QED
      BY <1>1, <1>4, <2>3, <2>5, <2>6, <2>7, <3>1, BufferBecomes
  <2>9. /\ Waiting = <<>> \o Buffer \o <<>> \o fifo
        /\ Waiting' = <<>> \o Rest(Buffer, 1) \o <<>> \o fifo
    BY <1>2, <1>6, <2>8 DEF Waiting
  <2>10. /\ Waiting' = Terminal!Without(Waiting, 0, 1) /\ Len(Waiting) = Len(Buffer) + Len(fifo)
    BY <1>1, <2>1, <2>9, WaitDrop
  <2>11. ~obeys
    <3>1. ASSUME obeys PROVE FALSE
      <4>1. Len(Buffer) + Len(fifo) < UART_BUFFER_SIZE
        BY <3>1, RoomForAll
      <4>2. QED
        BY <1>1, <2>1, <4>1, LenProperties, Sizes
    <3>2. QED
      BY <3>1
  <2>12. Terminal!Lose
    <3>1. Len(Waiting) >= UART_BUFFER_SIZE - 1 /\ Len(Waiting) \in Nat /\ Len(Waiting) >= 1
      BY <1>1, <2>1, <2>10, LenProperties, Sizes
    <3>2. 0 \in 0 .. 1 /\ 1 \in 1 .. Len(Waiting) /\ 0 < 1
      BY <3>1
    <3>3. QED
      BY <2>10, <2>11, <3>1, <3>2 DEF Terminal!Lose
  <2>13. QED
    BY <1>7, <2>12
<1>11. QED
  BY <1>9, <1>10

(* The other accesses of uart_fill_queue in the main loop. *)
LEMMA FillMoves ==
  ASSUME Typed, Typed', InOrder, CountInv, Fill
  PROVE  (Waiting' = Waiting \/ Terminal!Lose) /\ InOrder'
<1>1. CASE pc = "write"
  BY <1>1, WriteMoves
<1>2. CASE pc = "drop"
  BY <1>2, DropMoves
<1>3. CASE pc \notin {"write", "drop"}
  <2>1. /\ Contents /\ Contents' /\ uart \in Uart /\ reg \in 0 .. UART_BUFFER_SIZE
        /\ uart.end \in 0 .. UART_BUFFER_SIZE
        /\ (pc \in {"advance", "counted"} => reg < UART_BUFFER_SIZE)
    BY BufferHolds, NextHolds, PartTypes, TypedIs DEF Facts
  <2>2. /\ fifo' = fifo
        /\ \/ pc = "put" /\ pc' = "advance" /\ uart' = uart /\ reg' = uart.end /\ strb' = strb
           \/ pc = "advance" /\ pc' = "write" /\ uart' = [uart EXCEPT !.end = reg + 1]
              /\ reg' = reg /\ strb' = strb
           \/ pc = "wrap_end" /\ pc' = "drop" /\ uart' = WrapEnd(uart)
           \/ pc = "recount" /\ pc' \in {"counted", "halt"} /\ uart' = uart
           \/ pc = "counted" /\ pc' = "halt" /\ uart' = [uart EXCEPT !.count = reg + 1]
           \/ pc = "halt" /\ pc' = "poll" /\ uart' = Halt(uart)
    BY <1>3 DEF Fill, Step
  <2>3. /\ uart'.buffer = uart.buffer /\ uart'.start = uart.start /\ Rear' = Rear
        /\ pc = "put" => uart' = uart
        /\ pc = "advance" => reg = uart.end /\ uart'.end = reg + 1
    <3>1. CASE pc = "advance"
      <4>1. reg = uart.end /\ reg + 1 \in 0 .. UART_BUFFER_SIZE /\ Slot(uart.end) = reg
        BY <2>1, <3>1, Sizes DEF InOrder, Slot
      <4>2. uart'.buffer = uart.buffer /\ uart'.start = uart.start /\ uart'.end = reg + 1
        <5>1. PICK n : n = reg + 1
          OBVIOUS
        <5>2. uart' = [uart EXCEPT !.end = n] /\ n \in 0 .. UART_BUFFER_SIZE
          BY <2>2, <3>1, <4>1, <5>1
        <5>3. QED
          BY <2>1, <5>1, <5>2, NewEnd
      <4>3. QED
        BY <2>2, <3>1, <4>1, <4>2 DEF Rear
    <3>2. CASE pc = "wrap_end"
      <4>1. uart'.buffer = uart.buffer /\ uart'.start = uart.start /\ uart'.end = Slot(uart.end)
        BY <2>1, <2>2, <3>2, WrapEndType
      <4>2. Slot(Slot(uart.end)) = Slot(uart.end)
        BY <2>1, SlotTwice
      <4>3. QED
        BY <2>2, <3>2, <4>1, <4>2 DEF Rear
    <3>3. CASE pc = "counted"
      <4>1. PICK n : n = reg + 1
        OBVIOUS
      <4>2. uart' = [uart EXCEPT !.count = n] /\ n \in 0 .. UART_BUFFER_SIZE
        BY <2>1, <2>2, <3>3, <4>1, Sizes
      <4>3. uart'.buffer = uart.buffer /\ uart'.start = uart.start /\ uart'.end = uart.end
        BY <2>1, <4>2, NewCount
      <4>4. QED
        BY <2>2, <3>3, <4>3 DEF Rear
    <3>4. CASE pc = "halt"
      <4>1. uart'.buffer = uart.buffer /\ uart'.start = uart.start /\ uart'.end = uart.end
        BY <2>1, <2>2, <3>4, HaltType
      <4>2. QED
        BY <2>2, <3>4, <4>1 DEF Rear
    <3>5. CASE pc \in {"put", "recount"}
      BY <2>2, <3>5 DEF Rear
    <3>6. QED
      BY <2>2, <3>1, <3>2, <3>3, <3>4, <3>5
  <2>4. Writing' = Writing /\ Taken' = Taken /\ Putting' = Putting
    BY <2>2 DEF Writing, Taken, Putting
  <2>5. Waiting' = Waiting
    BY <2>1, <2>2, <2>3, <2>4, NothingMoves
  <2>6. InOrder'
    <3>1. CASE pc = "put"
      <4>1. pc' = "advance" /\ reg' = uart'.end
        BY <2>2, <2>3, <3>1
      <4>2. QED
        BY <4>1 DEF InOrder
    <3>2. CASE pc = "advance"
      <4>1. pc' = "write" /\ uart'.end = reg' + 1
        BY <2>2, <2>3, <3>2
      <4>2. QED
        BY <4>1 DEF InOrder
    <3>3. CASE pc \notin {"put", "advance"}
      <4>1. pc' \in {"drop", "counted", "halt", "poll"}
        BY <2>2, <3>3
      <4>2. QED
        BY <4>1 DEF InOrder
    <3>4. QED
      BY <3>1, <3>2, <3>3
  <2>7. QED
    BY <2>5, <2>6
<1>4. QED
  BY <1>1, <1>2, <1>3

(* The interrupt: the bytes of the FIFO follow those of the buffer, and if *)
(* there is no room for all of them, the oldest are lost.                  *)
LEMMA FillQueueMoves ==
  ASSUME pc \notin Updating \cup Moving, Typed, Typed', InOrder, CountInv,
         uart_fill_queue
  PROVE  (Waiting' = Waiting \/ Terminal!Lose) /\ InOrder'
<1>1. /\ Contents /\ Contents' /\ Buffer \in Seq(Byte) /\ fifo \in Seq(Byte)
      /\ fifo \in Seq(Bytes) /\ Taken \in Seq(Byte) /\ Len(Taken) \in 0 .. 1
      /\ uart.start \in 0 .. UART_BUFFER_SIZE
      /\ (uart.start = UART_BUFFER_SIZE => pc \in Reading)
  BY BufferHolds, NextHolds, PartTypes, TypedIs
<1>2. PICK m : m = Len(fifo)
  OBVIOUS
<1>3. /\ uart' = Filled(uart, fifo)[m] /\ fifo' = <<>> /\ m \in Nat /\ m > 0
      /\ pc' = pc /\ reg' = reg /\ strb' = strb
      /\ pc \notin Updating /\ pc \notin Moving
  BY <1>1, <1>2, LenProperties, Sizes DEF uart_fill_queue, main
<1>4. \A i \in 0 .. Len(fifo) : Sound(Filled(uart, fifo)[i])
  BY FillQueueTyped DEF Updating
<1>5. Sound(uart) /\ Sound(uart')
  BY <1>1, <1>2, <1>3, <1>4, FillQueueTyped DEF Updating
<1>6. /\ Rear = uart.end /\ Rear' = uart'.end /\ Writing' = Writing
      /\ Slot(uart'.start) \in Index /\ uart'.end \in Index
      /\ uart'.start \in 0 .. UART_BUFFER_SIZE
  <2>1. /\ uart.end \in 0 .. UART_BUFFER_SIZE /\ uart.end < UART_BUFFER_SIZE
        /\ uart'.end \in 0 .. UART_BUFFER_SIZE /\ uart'.end < UART_BUFFER_SIZE
        /\ uart'.start \in 0 .. UART_BUFFER_SIZE
    BY <1>5 DEF Sound, Uart
  <2>2. Slot(uart.end) = uart.end /\ Slot(uart'.end) = uart'.end
    BY <2>1, SlotTwice
  <2>3. pc # "write" /\ pc' # "write"
    BY <1>3 DEF Updating, Wrapping
  <2>4. Slot(uart'.start) \in Index /\ uart'.end \in Index
    BY <2>1, Sizes DEF Slot, Index
  <2>5. QED
    BY <1>3, <2>1, <2>2, <2>3, <2>4 DEF Rear, Writing
<1>7. Holds(uart.buffer, Slot(uart.start), uart.end, Buffer)
  BY <1>1, <1>6 DEF Contents
<1>8. PICK x : x = Buffer \o fifo
  OBVIOUS
<1>9. Kept(uart, uart', Buffer, m, x)
  <2>1. m \in 0 .. Len(fifo)
    BY <1>2, <1>3
  <2>2. Kept(uart, Filled(uart, fifo)[m], Buffer, m, Upto(Buffer, fifo, m))
    BY <1>1, <1>4, <1>7, <2>1, FilledHolds
  <2>3. Upto(Buffer, fifo, m) = x
    BY <1>1, <1>2, <1>8, UptoIs
  <2>4. QED
    BY <1>3, <2>2, <2>3
<1>10. PICK d \in 0 .. Len(Buffer) + m :
         /\ Holds(uart'.buffer, Slot(uart'.start), uart'.end, Rest(x, d))
         /\ Len(Buffer) + m - d < UART_BUFFER_SIZE
         /\ d > 0 => Len(Buffer) + m >= UART_BUFFER_SIZE
         /\ uart.start < UART_BUFFER_SIZE =>
              uart'.start < UART_BUFFER_SIZE /\ d < Len(Buffer) + m
  BY <1>3, <1>9 DEF Kept
<1>11. x \in Seq(Byte) /\ Len(x) = Len(Buffer) + m /\ Len(Buffer) \in Nat
  BY <1>1, <1>2, <1>8, ConcatProperties, LenProperties
<1>12. PICK r : r = Rest(x, d)
  OBVIOUS
<1>13. r \in Seq(Byte) /\ Len(r) = Len(Buffer) + m - d
  <2>1. d \in 0 .. Len(x)
    BY <1>11
  <2>2. Rest(x, d) \in Seq(Byte) /\ Len(Rest(x, d)) = Len(x) - d
    BY <1>11, <2>1, RestMembers
  <2>3. Len(x) - d = Len(Buffer) + m - d
    BY <1>3, <1>11
  <2>4. QED
    BY <1>12, <2>2, <2>3
<1>14. /\ Writing => uart.start < UART_BUFFER_SIZE
       /\ pc = "take" => uart.start < UART_BUFFER_SIZE
  BY <1>1, Sizes DEF Reading, Writing
<1>15. Buffer' = r
  <2>1. IF Writing' THEN Len(r) > 0 ELSE Len(r) < UART_BUFFER_SIZE
    BY <1>3, <1>6, <1>10, <1>11, <1>13, <1>14
  <2>2. Holds(uart'.buffer, Slot(uart'.start), Rear', r)
    BY <1>6, <1>10, <1>12
  <2>3. QED
    BY <1>1, <2>1, <2>2, BufferBecomes
<1>16. InOrder'
  <2>1. CASE pc = "take"
    <3>1. Len(r) > 0 /\ Len(r) < UART_BUFFER_SIZE
      BY <1>3, <1>10, <1>11, <1>13, <1>14, <2>1
    <3>2. Holds(uart'.buffer, Slot(uart'.start), uart'.end, r)
      BY <1>10, <1>12
    <3>3. uart'.end # Slot(uart'.start)
      <4>1. ~(Len(r) \in {0, UART_BUFFER_SIZE})
        BY <1>11, <1>13, <3>1, Sizes
      <4>2. QED
        BY <1>6, <3>2, <4>1, LengthOf
    <3>4. Slot(uart'.start) # Slot(uart'.end)
      BY <1>6, <3>3, Sizes DEF Slot, Index
    <3>5. QED
      BY <1>3, <2>1, <3>4 DEF InOrder
  <2>2. CASE pc # "take"
    BY <1>3, <2>2 DEF InOrder, Updating, Wrapping, Moving
  <2>3. QED
    BY <2>1, <2>2
<1>17. Taken' = Taken /\ Putting = <<>> /\ Putting' = <<>>
  BY <1>3 DEF Taken, Putting, Updating, Wrapping, Moving
<1>18. /\ Waiting = Taken \o Buffer \o <<>> \o fifo
       /\ Waiting' = Taken \o Rest(Buffer \o fifo, d) \o <<>> \o <<>>
  BY <1>3, <1>8, <1>12, <1>15, <1>17 DEF Waiting
<1>19. /\ Len(Waiting) = Len(Taken) + Len(Buffer) + m
       /\ Waiting' = Terminal!Without(Waiting, Len(Taken), Len(Taken) + d)
       /\ d = 0 => Waiting' = Waiting
  <2>1. PICK t \in Seq(Byte), b \in Seq(Byte), f \in Seq(Byte) :
           t = Taken /\ b = Buffer /\ f = fifo
    BY <1>1
  <2>2. PICK w : w = Joined(t, b, f)
    OBVIOUS
  <2>3. d \in 0 .. Len(b) + Len(f)
    BY <1>2, <2>1
  <2>4. /\ Len(w) = Len(t) + Len(b) + Len(f)
        /\ Left(t, b, f, d) = Terminal!Without(w, Len(t), Len(t) + d)
        /\ d = 0 => Left(t, b, f, d) = w
    BY <2>2, <2>3, WaitLose
  <2>5. w = Waiting /\ Waiting' = Left(t, b, f, d)
    BY <1>18, <2>1, <2>2 DEF Joined, Left
  <2>6. QED
    BY <1>2, <2>1, <2>4, <2>5
<1>20. CASE d = 0
  BY <1>16, <1>19, <1>20
<1>21. CASE d # 0
  <2>1. Len(Buffer) + m >= UART_BUFFER_SIZE
    BY <1>10, <1>11, <1>21, <1>3
  <2>2. ~obeys
    <3>1. ASSUME obeys PROVE FALSE
      <4>1. pc # "write"
        BY <1>3 DEF Updating, Wrapping
      <4>2. Len(Buffer) + m < UART_BUFFER_SIZE
        BY <1>2, <3>1, <4>1, RoomForAll
      <4>3. QED
        BY <1>3, <1>11, <2>1, <4>2, Sizes
    <3>2. QED
      BY <3>1
  <2>3. PICK t : t = Len(Taken)
    OBVIOUS
  <2>4. PICK n : n = Len(Waiting)
    OBVIOUS
  <2>5. /\ t \in 0 .. 1 /\ t + d \in 1 .. n /\ t < t + d
        /\ n >= UART_BUFFER_SIZE - 1
    BY <1>1, <1>3, <1>11, <1>19, <1>21, <2>1, <2>3, <2>4, Sizes
  <2>6. Terminal!Lose
    BY <1>19, <2>2, <2>3, <2>4, <2>5 DEF Terminal!Lose
  <2>7. QED
    BY <1>16, <2>6
<1>22. QED
  BY <1>20, <1>21

-----------------------------------------------------------------------------
(* The whole program. *)
LEMMA InitWaits == Init => InOrder /\ Terminal!Init
<1> SUFFICES ASSUME Init PROVE InOrder /\ Terminal!Init
  OBVIOUS
<1>1. /\ pc = "top" /\ fifo = <<>> /\ uart.start = 0 /\ uart.end = 0 /\ obeys \in BOOLEAN
  BY DEF Init
<1>2. Contents
  BY InitTyped, BufferHolds
<1>3. Slot(uart.start) = 0 /\ Rear = 0 /\ 0 \in Index
  BY <1>1, Sizes DEF Slot, Rear, Index
<1>4. /\ Holds(uart.buffer, 0, 0, Buffer) /\ Len(Buffer) < UART_BUFFER_SIZE
  BY <1>1, <1>2, <1>3 DEF Contents, Writing
<1>5. Buffer = <<>>
  <2>1. Holds(uart.buffer, 0, 0, <<>>) /\ Len(<<>>) < UART_BUFFER_SIZE
    BY <1>3, HoldsNothing, NoneIsSeq, Sizes
  <2>2. QED
    BY <1>3, <1>4, <2>1, HoldsOne
<1>6. Taken = <<>> /\ Putting = <<>>
  BY <1>1 DEF Taken, Putting
<1>7. Waiting = <<>>
  <2>1. <<>> \o <<>> = <<>>
    BY NoneIsSeq, ConcatEmptySeq
  <2>2. QED
    BY <1>1, <1>5, <1>6, <2>1 DEF Waiting
<1>8. InOrder
  BY <1>1 DEF InOrder
<1>9. QED
  BY <1>1, <1>7, <1>8 DEF Terminal!Init

(* The inductive invariant of the refinement. *)
Ordered == Typed /\ CountInv /\ InOrder

(* Every step sends, shows or loses bytes as Channel does, or moves none. *)
LEMMA NextWaits ==
  ASSUME uart_fill_queue => pc \notin Updating \cup Moving, LimitsApart, Ordered, [Next]_vars
  PROVE  Ordered' /\ [UNCHANGED obeys /\ Visible]_<<Waiting, obeys>>
<1>1. uart_fill_queue => pc \notin Updating /\ pc \notin Wrapping
  BY DEF Updating
<1>2. /\ Typed /\ CountInv /\ InOrder /\ Typed' /\ CountInv'
  BY <1>1, NextTyped, NextCounts DEF Ordered
<1>3. obeys' = obeys
  BY DEF vars, main, Next, Main, uart_fill_queue, Arrive, Ready, Busy, Rts, Show, Poll, Read,
         Take, Fill, Step
<1>4. InOrder' /\ (Waiting' = Waiting \/ Visible)
  <2>1. CASE UNCHANGED vars
    <3>1. /\ pc' = pc /\ reg' = reg /\ strb' = strb /\ uart' = uart /\ fifo' = fifo
      BY <2>1 DEF vars, main
    <3>2. Contents /\ Contents'
      BY <1>2, BufferHolds, NextHolds
    <3>3. /\ Rear' = Rear /\ Writing' = Writing /\ Taken' = Taken /\ Putting' = Putting
          /\ InOrder'
      BY <1>2, <3>1 DEF Rear, Writing, Taken, Putting, InOrder
    <3>4. Waiting' = Waiting
      BY <3>1, <3>2, <3>3, NothingMoves
    <3>5. QED
      BY <3>3, <3>4
  <2>2. CASE uart_fill_queue
    BY <1>2, <2>2, FillQueueMoves DEF Visible
  <2>3. CASE Arrive
    BY <1>2, <2>3, ArriveMoves DEF Visible
  <2>4. CASE Ready \/ Busy \/ Rts \/ Poll
    BY <1>2, <2>4, OtherMoves
  <2>5. CASE Take
    BY <1>2, <2>5, TakeMoves
  <2>6. CASE Show
    BY <1>2, <2>6, ShowMoves DEF Visible
  <2>7. CASE Read
    BY <1>2, <2>7, ReadMoves
  <2>8. CASE Fill
    BY <1>2, <2>8, FillMoves DEF Visible
  <2>9. QED
    BY <2>1, <2>2, <2>3, <2>4, <2>5, <2>6, <2>7, <2>8 DEF Next, Main
<1>5. QED
  BY <1>2, <1>3, <1>4 DEF Ordered

(* The two contexts together implement Channel: bytes are shown in the     *)
(* order in which they were sent, for every host, and a host that stops    *)
(* when it is told to loses none of them.  uart_fill_queue drops bytes     *)
(* only when the ring has no room for one more, then the oldest, and never *)
(* the one term_main_loop has taken.  Nothing in the code keeps the        *)
(* interrupt out of the accesses that write back what it changes, nor out  *)
(* of those with a slot in hand: the condition is on the run, and the      *)
(* promise may be broken from the first interrupt on at one of them.       *)
THEOREM BytesKeepOrder ==
  ASSUME LimitsApart
  PROVE  Spec /\ [][uart_fill_queue => pc \notin Updating \cup Moving]_vars => ImplementsChannel
<1>1. Init => Ordered /\ Terminal!Init
  BY InitTyped, InitCounts, InitWaits DEF Ordered
<1>2. Ordered /\ [Next]_vars /\ [uart_fill_queue => pc \notin Updating \cup Moving]_vars =>
        Ordered' /\ [UNCHANGED obeys /\ Visible]_<<Waiting, obeys>>
  <2>1. SUFFICES ASSUME Ordered, [Next]_vars,
                        [uart_fill_queue => pc \notin Updating \cup Moving]_vars
                 PROVE  Ordered' /\ [UNCHANGED obeys /\ Visible]_<<Waiting, obeys>>
    OBVIOUS
  <2>2. CASE uart_fill_queue => pc \notin Updating \cup Moving
    BY <2>1, <2>2, NextWaits
  <2>3. CASE UNCHANGED vars
    <3>1. ~uart_fill_queue
      BY <2>3, QueueEmpties DEF vars
    <3>2. QED
      BY <2>1, <3>1, NextWaits
  <2>4. QED
    BY <2>1, <2>2, <2>3
<1>3. QED
  BY <1>1, <1>2, PTL DEF Spec, ImplementsChannel, Terminal!Spec, Visible
=============================================================================
