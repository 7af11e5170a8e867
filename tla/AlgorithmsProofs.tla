-------------------------- MODULE AlgorithmsProofs --------------------------
(***************************************************************************)
(* The heap of nmalloc.c for every arena, header, word and set of sizes,   *)
(* the test of the timers for every clock, and the figures of the graphics *)
(* for every screen.                                                       *)
(*                                                                         *)
(* HeapInv: the free list is in the order of the addresses, the free and   *)
(* the live blocks tile the arena, and no two free blocks touch.  The      *)
(* first two make an operation safe; the third makes a refusal final,      *)
(* which is what the refinement of Allocator needs.  The walks along the   *)
(* list and the turns of the merge are recursive functions; what they do   *)
(* is shown for a block, or a turn, for which it would fail and none       *)
(* further on, or earlier, does.                                           *)
(*                                                                         *)
(* The walk of a line is compared with the place and the error term it     *)
(* should have after each step, the walk round a circle with the sign of   *)
(* its decision variable; both again at the first step that would differ.  *)
(* For the polygons the columns in order are counted: the k-th is at or    *)
(* before a pixel if k edges are, and round the polygon their number is    *)
(* even.                                                                   *)
(***************************************************************************)
EXTENDS MCAlgorithms, FiniteSetTheorems, FunctionTheorems, WellFoundedInduction, TLAPS

Header == [prev : Arena \cup {NULL}, next : Arena \cup {NULL}, size : 1 .. HeapSize]

(* n follows b, and p precedes it, in the set D of addresses. *)
IsNext(D, b, n) ==
  \/ n = NULL /\ \A c \in D : c <= b
  \/ n \in D /\ b < n /\ \A c \in D : c <= b \/ n <= c
IsPrev(D, b, p) ==
  \/ p = NULL /\ \A c \in D : b <= c
  \/ p \in D /\ p < b /\ \A c \in D : c <= p \/ b <= c

(* A list in the order of the addresses. *)
Linked(list, first) ==
  /\ DOMAIN list \subseteq Arena
  /\ list \in [DOMAIN list -> Header]
  /\ first \in DOMAIN list /\ \A c \in DOMAIN list : first <= c
  /\ \A b \in DOMAIN list :
       /\ IsNext(DOMAIN list, b, list[b].next)
       /\ IsPrev(DOMAIN list, b, list[b].prev)

(* Blocks of these sizes lie side by side and fill the arena. *)
Tiled(size) ==
  /\ DOMAIN size \subseteq Arena
  /\ size \in [DOMAIN size -> 1 .. HeapSize]
  /\ \A a \in DOMAIN size : a + size[a] <= Base + HeapSize
  /\ \A a, b \in DOMAIN size : a < b => a + size[a] <= b
  /\ \A x \in Arena : \E a \in DOMAIN size : a <= x /\ x < a + size[a]

Layout(list, live) ==
  [a \in (DOMAIN list) \cup (DOMAIN live) |->
     IF a \in DOMAIN list THEN list[a].size ELSE live[a]]

Heaped(list, first, live) ==
  /\ Linked(list, first)
  /\ live \in [DOMAIN live -> 1 .. HeapSize]
  /\ (DOMAIN list) \cap (DOMAIN live) = {}
  /\ Tiled(Layout(list, live))

(* No free block touches the next one. *)
Merged(list) == \A b \in DOMAIN list : b + list[b].size \notin DOMAIN list

HeapInv ==
  /\ Heaped(block, first_free, data)
  /\ Merged(block)
  /\ result \in Arena \cup {NULL}

-----------------------------------------------------------------------------
LEMMA ArenaIs ==
  /\ Base \in Nat /\ HeapSize \in Nat /\ 0 < HeapSize /\ NULL \notin Arena
  /\ \A x : x \in Arena <=> x \in Nat /\ Base <= x /\ x < Base + HeapSize
BY HeapAssumption DEF Arena

(* A set of numbers has a least one. *)
LEMMA LeastNatural ==
  ASSUME NEW T, T \subseteq Nat, T # {}
  PROVE  \E x \in T : \A y \in T : x <= y
<1> DEFINE Below(n) == 0 .. n - 1
           Initials == {Below(n) : n \in T}
           R == StrictSubsetOrdering(Nat)
           S == FiniteSubsetsOf(Nat)
<1>1. IsWellFoundedOn(R, S)
  BY FS_StrictSubsetOrderingWellFounded
<1>2. Initials \subseteq S
  <2>1. ASSUME NEW n \in T PROVE IsFiniteSet(Below(n)) /\ Below(n) \subseteq Nat
    BY FS_Interval
  <2>2. QED
    BY <2>1 DEF FiniteSubsetsOf
<1>3. Initials # {}
  OBVIOUS
<1> HIDE DEF Initials, R, S
<1>4. PICK I \in Initials : \A J \in Initials : ~(<<J, I>> \in R)
  BY <1>1, <1>2, <1>3, WFMin
<1>5. PICK x \in T : I = Below(x)
  BY <1>4 DEF Initials
<1>6. ASSUME NEW y \in T, y < x PROVE FALSE
  <2>1. Below(y) \in Initials
    BY DEF Initials
  <2>2. /\ Below(y) \subseteq Below(x) /\ Below(y) # Below(x)
        /\ Below(x) \in SUBSET Nat /\ Below(y) \in SUBSET Nat
    BY <1>6
  <2>3. QED
    BY <1>2, <1>4, <1>5, <2>1, <2>2 DEF R, S, StrictSubsetOrdering
<1>7. QED
  BY <1>6

LEMMA MinIs ==
  ASSUME NEW T, T \subseteq Nat, NEW x \in T, \A y \in T : x <= y
  PROVE  Min(T) = x
<1>1. /\ \E z \in T : \A y \in T : z <= y
      /\ \A z \in T : (\A y \in T : z <= y) => z = x
  OBVIOUS
<1>2. QED
  BY <1>1 DEF Min

LEMMA MaxIs ==
  ASSUME NEW T, T \subseteq Nat, NEW x \in T, \A y \in T : x >= y
  PROVE  Max(T) = x
<1>1. /\ \E z \in T : \A y \in T : z >= y
      /\ \A z \in T : (\A y \in T : z >= y) => z = x
  OBVIOUS
<1>2. QED
  BY <1>1 DEF Max

(* What the invariant says in the words of the properties. *)
LEMMA HeapTypes == HeapInv => TypeOK
<1> SUFFICES ASSUME HeapInv PROVE TypeOK
  OBVIOUS
<1>1. /\ DOMAIN block \subseteq Arena /\ block \in [DOMAIN block -> Header]
      /\ first_free \in DOMAIN block
      /\ data \in [DOMAIN data -> 1 .. HeapSize] /\ result \in Arena \cup {NULL}
  BY DEF HeapInv, Heaped, Linked
<1>2. DOMAIN data \subseteq Arena
  BY DEF HeapInv, Heaped, Tiled, Layout
<1>3. QED
  BY <1>1, <1>2 DEF TypeOK, Header

LEMMA HeapListSound == HeapInv => ListSound
<1> SUFFICES ASSUME HeapInv PROVE ListSound
  OBVIOUS
<1> DEFINE D == DOMAIN block
<1>1. D \subseteq Nat /\ D \subseteq Arena /\ NULL \notin D
  BY ArenaIs DEF HeapInv, Heaped, Linked
<1>2. /\ first_free \in D /\ \A c \in D : first_free <= c
      /\ \A b \in D : IsNext(D, b, block[b].next) /\ IsPrev(D, b, block[b].prev)
  BY DEF HeapInv, Heaped, Linked
<1> HIDE DEF D
<1>3. block[first_free].prev = NULL
  <2>1. ASSUME NEW p \in D, p < first_free PROVE FALSE
    BY <1>1, <1>2, <2>1
  <2>2. IsPrev(D, first_free, block[first_free].prev)
    BY <1>2
  <2>3. QED
    BY <2>1, <2>2 DEF IsPrev
<1>4. ASSUME NEW b \in D, b # first_free PROVE block[b].prev \in D
  <2>1. b \in Nat /\ first_free \in Nat /\ first_free <= b
    BY <1>1, <1>2
  <2>2. ~(b <= first_free)
    BY <1>4, <2>1
  <2>3. IsPrev(D, b, block[b].prev) /\ first_free \in D
    BY <1>2
  <2>4. QED
    BY <2>2, <2>3, Zenon DEF IsPrev
<1>5. ASSUME NEW b \in D, block[b].next = NULL PROVE b = Max(D)
  <2>1. IsNext(D, b, NULL)
    BY <1>2, <1>5
  <2>2. \A c \in D : c <= b
    BY <1>1, <2>1, Zenon DEF IsNext
  <2>3. \A c \in D : b >= c
    BY <1>1, <2>2
  <2>4. QED
    BY <1>1, <2>3, MaxIs
<1>6. ASSUME NEW b \in D, block[b].next # NULL
      PROVE  /\ block[b].next = Min({c \in D : c > b})
             /\ block[block[b].next].prev = b
  <2> DEFINE n == block[b].next
             T == {c \in D : c > b}
  <2>1. n \in D /\ b < n /\ \A c \in D : c <= b \/ n <= c
    BY <1>2, <1>6 DEF IsNext
  <2>2. IsPrev(D, n, block[n].prev)
    BY <1>2, <2>1
  <2> HIDE DEF n
  <2>3. n \in T /\ T \subseteq Nat /\ \A c \in T : n <= c
    <3>1. ASSUME NEW c \in T PROVE n <= c
      <4>1. c \in Nat /\ b \in Nat /\ c \in D /\ c > b
        BY <1>1
      <4>2. ~(c <= b)
        BY <4>1
      <4>3. QED
        BY <2>1, <4>1, <4>2
    <3>2. n \in Nat /\ b \in Nat
      BY <1>1, <2>1
    <3>3. QED
      BY <1>1, <2>1, <3>1, <3>2
  <2> HIDE DEF T
  <2>4. n = Min(T)
    BY <2>3, MinIs
  <2>5. block[n].prev = b
    <3> DEFINE p == block[n].prev
    <3>1. n \in Nat /\ b \in Nat /\ ~(n <= b)
      BY <1>1, <2>1
    <3>2. p \in D /\ p < n /\ (b <= p \/ n <= b)
      BY <2>2, <3>1 DEF IsPrev
    <3> HIDE DEF p
    <3>3. p \in Nat /\ (p <= b \/ n <= p)
      BY <1>1, <2>1, <3>2
    <3>4. p = b
      BY <3>1, <3>2, <3>3
    <3>5. QED
      BY <3>4 DEF p
  <2>6. QED
    BY <2>4, <2>5 DEF n, T
<1>7. QED
  BY <1>3, <1>4, <1>5, <1>6 DEF ListSound, D

LEMMA HeapTiling == HeapInv => Tiling
<1> SUFFICES ASSUME HeapInv PROVE Tiling
  OBVIOUS
<1> DEFINE size == Layout(block, data)
           extents == [b \in (DOMAIN block) \cup (DOMAIN data) |->
                         Extent(b, IF b \in DOMAIN block THEN block[b].size ELSE data[b])]
           S == DOMAIN size
<1>1. /\ S \subseteq Arena /\ size \in [S -> 1 .. HeapSize]
      /\ \A a \in S : a + size[a] <= Base + HeapSize
      /\ \A a, b \in S : a < b => a + size[a] <= b
      /\ \A x \in Arena : \E a \in S : a <= x /\ x < a + size[a]
  BY DEF HeapInv, Heaped, Tiled
<1>2. DOMAIN extents = S /\ \A a \in S : extents[a] = a .. a + size[a] - 1
  BY DEF Layout, Extent
<1>3. (DOMAIN block) \cap (DOMAIN data) = {}
  BY DEF HeapInv, Heaped
<1>4. Tiling <=> /\ (DOMAIN block) \cap (DOMAIN data) = {}
                 /\ UNION Range(extents) = Arena
                 /\ \A b, c \in DOMAIN extents : b # c => extents[b] \cap extents[c] = {}
  BY DEF Tiling
<1> HIDE DEF extents, S, size
<1>5. ASSUME NEW b \in S, NEW c \in S, b # c PROVE extents[b] \cap extents[c] = {}
  <2>1. /\ b \in Nat /\ c \in Nat /\ size[b] \in Nat /\ size[c] \in Nat
        /\ b < c \/ c < b
    BY <1>1, <1>5, ArenaIs
  <2>2. b + size[b] <= c \/ c + size[c] <= b
    BY <1>1, <2>1
  <2>3. QED
    BY <1>2, <2>1, <2>2, SMTT(60)
<1>6. ASSUME NEW x PROVE x \in Arena <=> \E a \in S : x \in extents[a]
  <2>1. ASSUME x \in Arena PROVE \E a \in S : x \in extents[a]
    <3>1. PICK a \in S : a <= x /\ x < a + size[a]
      BY <1>1, <2>1
    <3>2. a \in Nat /\ size[a] \in Nat /\ x \in Nat
      BY <1>1, <2>1, ArenaIs
    <3>3. QED
      BY <1>2, <3>1, <3>2
  <2>2. ASSUME NEW a \in S, x \in extents[a] PROVE x \in Arena
    <3>1. a \in Nat /\ size[a] \in Nat /\ Base <= a /\ a + size[a] <= Base + HeapSize
      BY <1>1, ArenaIs
    <3>2. x \in a .. a + size[a] - 1
      BY <1>2, <2>2
    <3>3. QED
      BY <3>1, <3>2, ArenaIs
  <2>3. QED
    BY <2>1, <2>2
<1>7. UNION Range(extents) = Arena
  <2>1. Range(extents) = {extents[a] : a \in S}
    BY <1>2 DEF Range
  <2>2. \A x : x \in UNION {extents[a] : a \in S} <=> \E a \in S : x \in extents[a]
    OBVIOUS
  <2>3. QED
    BY <1>6, <2>1, <2>2
<1>8. QED
  BY <1>2, <1>3, <1>4, <1>5, <1>7

-----------------------------------------------------------------------------
(* The walks along the list. *)
LEMMA LinkFacts ==
  ASSUME NEW list, NEW first, Linked(list, first)
  PROVE  /\ DOMAIN list \subseteq Arena /\ DOMAIN list \subseteq Nat /\ NULL \notin DOMAIN list
         /\ first \in DOMAIN list /\ \A c \in DOMAIN list : first <= c
         /\ \A b \in DOMAIN list :
              /\ list[b] \in Header /\ list[b].size \in 1 .. HeapSize
              /\ list[b] = [prev |-> list[b].prev, next |-> list[b].next, size |-> list[b].size]
              /\ list[b].next = NULL \/ (list[b].next \in DOMAIN list /\ b < list[b].next)
              /\ list[b].prev = NULL \/ (list[b].prev \in DOMAIN list /\ list[b].prev < b)
              /\ \A c \in DOMAIN list : b < c => list[b].next \in DOMAIN list /\ list[b].next <= c
              /\ \A c \in DOMAIN list : c < b => list[b].prev \in DOMAIN list /\ c <= list[b].prev
BY ArenaIs DEF Linked, IsNext, IsPrev, Header

(* A walk that stops at the last block at the latest: the function that    *)
(* says where it stops exists, and it stops at the first block that tells  *)
(* it to.                                                                  *)
LEMMA WalkStops ==
  ASSUME Linked(block, first_free),
         NEW Stop \in [DOMAIN block -> BOOLEAN],
         \A b \in DOMAIN block : block[b].next = NULL => Stop[b]
  PROVE  /\ \E f : f = [b \in DOMAIN block |-> IF Stop[b] THEN b ELSE f[block[b].next]]
         /\ \A walk :
              walk = [b \in DOMAIN block |-> IF Stop[b] THEN b ELSE walk[block[b].next]] =>
                \A b \in DOMAIN block :
                  /\ walk[b] \in DOMAIN block /\ b <= walk[b] /\ Stop[walk[b]]
                  /\ \A c \in DOMAIN block : b <= c /\ c < walk[b] => ~Stop[c]
<1> DEFINE D == DOMAIN block
           Ahead(b) == {c \in D : b <= c /\ Stop[c]}
           f0 == [b \in D |-> Min(Ahead(b))]
<1>1. D \subseteq Nat /\ \A b \in D : Ahead(b) \subseteq Nat
  BY LinkFacts
<1>2. ASSUME NEW b \in D, ~Stop[b]
      PROVE  block[b].next \in D /\ b < block[b].next /\ Ahead(block[b].next) = Ahead(b)
  <2>1. block[b].next \in D /\ b < block[b].next
    BY <1>2, LinkFacts
  <2>2. \A c \in D : c <= b \/ block[b].next <= c
    <3>1. ASSUME NEW c \in D, b < c PROVE block[b].next <= c
      BY <3>1, LinkFacts
    <3>2. QED
      BY <1>1, <3>1
  <2>3. ASSUME NEW c \in D, Stop[c] PROVE b <= c <=> block[b].next <= c
    <3>1. b \in Nat /\ c \in Nat /\ block[b].next \in Nat /\ c # b
      BY <1>1, <1>2, <2>1, <2>3
    <3>2. QED
      BY <2>1, <2>2, <3>1
  <2>4. QED
    BY <2>1, <2>3
<1>3. ASSUME NEW b \in D, Stop[b] PROVE Min(Ahead(b)) = b
  <2>1. b \in Ahead(b) /\ \A c \in Ahead(b) : b <= c
    BY <1>1, <1>3
  <2> HIDE DEF Ahead
  <2>2. QED
    BY <1>1, <2>1, MinIs
<1>4. ASSUME NEW b \in D PROVE f0[b] = IF Stop[b] THEN b ELSE f0[block[b].next]
  <2>1. CASE Stop[b]
    BY <1>3, <2>1
  <2>2. CASE ~Stop[b]
    BY <1>2, <2>2
  <2>3. QED
    BY <2>1, <2>2
<1>5. f0 = [b \in D |-> IF Stop[b] THEN b ELSE f0[block[b].next]]
  <2> HIDE DEF D
  <2>1. f0 = [b \in D |-> f0[b]]
    OBVIOUS
  <2> HIDE DEF f0
  <2>2. QED
    BY <1>4, <2>1
<1> HIDE DEF f0
<1> SUFFICES ASSUME NEW walk
             PROVE  walk = [b \in D |-> IF Stop[b] THEN b ELSE walk[block[b].next]] =>
                      \A b \in D :
                        /\ walk[b] \in D /\ b <= walk[b] /\ Stop[walk[b]]
                        /\ \A c \in D : b <= c /\ c < walk[b] => ~Stop[c]
  BY <1>5
<1>6. HAVE walk = [b \in D |-> IF Stop[b] THEN b ELSE walk[block[b].next]]
<1> DEFINE Good(b) == /\ walk[b] \in D /\ b <= walk[b] /\ Stop[walk[b]]
                      /\ \A c \in D : b <= c /\ c < walk[b] => ~Stop[c]
           Bad == {b \in D : ~Good(b)}
           Left == {Base + HeapSize - b : b \in Bad}
<1>7. SUFFICES ASSUME Bad # {} PROVE FALSE
  OBVIOUS
<1> HIDE DEF Good
<1>8. PICK b \in Bad : \A c \in Bad : c <= b
  <2>1. Left \subseteq Nat /\ Left # {}
    <3>1. ASSUME NEW c \in Bad PROVE Base + HeapSize - c \in Nat
      BY LinkFacts, ArenaIs
    <3>2. QED
      BY <1>7, <3>1
  <2> HIDE DEF Left
  <2>2. PICK x \in Left : \A y \in Left : x <= y
    BY <2>1, LeastNatural
  <2>3. PICK b \in Bad : x = Base + HeapSize - b
    BY <2>2 DEF Left
  <2>4. ASSUME NEW c \in Bad PROVE c <= b
    <3>1. Base + HeapSize - b <= Base + HeapSize - c
      BY <2>2, <2>3 DEF Left
    <3>2. b \in Nat /\ c \in Nat
      BY <1>1
    <3>3. QED
      BY <3>1, <3>2, ArenaIs
  <2>5. QED
    BY <2>4
<1>9. b \in D /\ b \in Nat /\ ~Good(b)
  BY <1>1
<1>10. CASE Stop[b]
  <2>1. walk[b] = b
    BY <1>6, <1>9, <1>10
  <2>2. \A c \in D : ~(b <= c /\ c < walk[b])
    BY <1>1, <1>9, <2>1
  <2>3. walk[b] \in D /\ b <= walk[b] /\ Stop[walk[b]]
    BY <1>9, <1>10, <2>1
  <2>4. Good(b)
    BY <2>2, <2>3 DEF Good
  <2>5. QED
    BY <1>9, <2>4
<1>11. CASE ~Stop[b]
  <2> DEFINE n == block[b].next
  <2>1. n \in D /\ b < n /\ walk[b] = walk[n]
    BY <1>2, <1>6, <1>9, <1>11
  <2>2. n \in Nat /\ ~(n <= b)
    BY <1>1, <1>9, <2>1
  <2>3. Good(n)
    BY <1>8, <2>1, <2>2
  <2>4. \A c \in D : b <= c => c = b \/ n <= c
    <3>1. \A c \in D : b < c => n <= c
      BY <1>9, LinkFacts
    <3>2. QED
      BY <1>1, <1>9, <3>1
  <2> HIDE DEF n
  <2>5. walk[b] \in D /\ b <= walk[b] /\ Stop[walk[b]]
    <3>1. walk[n] \in D /\ n <= walk[n] /\ Stop[walk[n]]
      BY <2>3 DEF Good
    <3>2. walk[n] \in Nat /\ n \in Nat
      BY <1>1, <2>1, <3>1
    <3>3. b <= walk[n]
      BY <1>9, <2>1, <3>1, <3>2
    <3>4. QED
      BY <2>1, <3>1, <3>3
  <2>6. \A c \in D : b <= c /\ c < walk[b] => ~Stop[c]
    BY <1>11, <2>1, <2>3, <2>4 DEF Good
  <2>7. Good(b)
    BY <2>5, <2>6 DEF Good
  <2>8. QED
    BY <1>9, <2>7
<1>12. QED
  BY <1>10, <1>11

(* The block that nmalloc_malloc finds: the first that is large enough, or *)
(* the last.                                                               *)
LEMMA FindIs ==
  ASSUME Linked(block, first_free), NEW needed \in Nat
  PROVE  /\ Find(needed) \in DOMAIN block
         /\ block[Find(needed)].next = NULL \/ block[Find(needed)].size >= needed
         /\ \A c \in DOMAIN block : c < Find(needed) => block[c].size < needed
<1> DEFINE D == DOMAIN block
           Stop == [b \in D |-> block[b].next = NULL \/ block[b].size >= needed]
           walk == CHOOSE f : f = [b \in DOMAIN block |->
                     IF block[b].next = NULL \/ block[b].size >= needed THEN b ELSE f[block[b].next]]
<1>1. Stop \in [D -> BOOLEAN] /\ \A b \in D : block[b].next = NULL => Stop[b]
  OBVIOUS
<1>2. ASSUME NEW f
      PROVE  [b \in D |-> IF Stop[b] THEN b ELSE f[block[b].next]] =
             [b \in D |-> IF block[b].next = NULL \/ block[b].size >= needed
                          THEN b ELSE f[block[b].next]]
  OBVIOUS
<1>3. \E f : f = [b \in D |-> IF block[b].next = NULL \/ block[b].size >= needed
                              THEN b ELSE f[block[b].next]]
  <2> HIDE DEF Stop
  <2>1. PICK f : f = [b \in D |-> IF Stop[b] THEN b ELSE f[block[b].next]]
    BY <1>1, WalkStops
  <2>2. QED
    BY <1>2, <2>1, SMTT(60)
<1>4. walk = [b \in D |-> IF block[b].next = NULL \/ block[b].size >= needed
                          THEN b ELSE walk[block[b].next]]
  BY <1>3
<1>5. Find(needed) = walk[first_free]
  BY DEF Find
<1> HIDE DEF walk
<1>6. walk = [b \in D |-> IF Stop[b] THEN b ELSE walk[block[b].next]]
  BY <1>2, <1>4
<1>7. first_free \in D /\ \A c \in D : first_free <= c
  BY LinkFacts
<1>8. /\ walk[first_free] \in D /\ Stop[walk[first_free]]
      /\ \A c \in D : first_free <= c /\ c < walk[first_free] => ~Stop[c]
  <2> HIDE DEF Stop
  <2>1. QED
    BY <1>1, <1>6, <1>7, WalkStops
<1>9. ASSUME NEW c \in D, c < walk[first_free] PROVE block[c].size < needed
  <2>1. ~(block[c].size >= needed)
    BY <1>7, <1>8, <1>9
  <2>2. block[c].size \in Nat
    BY LinkFacts
  <2>3. QED
    BY <2>1, <2>2
<1>10. QED
  BY <1>5, <1>8, <1>9

(* The block after which nmalloc_free inserts: the last before the new.    *)
LEMMA PredecessorIs ==
  ASSUME Linked(block, first_free), NEW new \in Nat, new \notin DOMAIN block, first_free < new
  PROVE  LET p == Predecessor(new)
         IN  /\ p \in DOMAIN block /\ p < new
             /\ \A c \in DOMAIN block : c <= p \/ new < c
<1> DEFINE D == DOMAIN block
           Stop == [b \in D |-> block[b].next = NULL \/ (b < new /\ new < block[b].next)]
           walk == CHOOSE f : f = [b \in DOMAIN block |->
                     IF block[b].next = NULL \/ (b < new /\ new < block[b].next)
                     THEN b ELSE f[block[b].next]]
<1>1. Stop \in [D -> BOOLEAN] /\ \A b \in D : block[b].next = NULL => Stop[b]
  OBVIOUS
<1>2. ASSUME NEW f
      PROVE  [b \in D |-> IF Stop[b] THEN b ELSE f[block[b].next]] =
             [b \in D |-> IF block[b].next = NULL \/ (b < new /\ new < block[b].next)
                          THEN b ELSE f[block[b].next]]
  OBVIOUS
<1>3. \E f : f = [b \in D |-> IF block[b].next = NULL \/ (b < new /\ new < block[b].next)
                              THEN b ELSE f[block[b].next]]
  <2> HIDE DEF Stop
  <2>1. PICK f : f = [b \in D |-> IF Stop[b] THEN b ELSE f[block[b].next]]
    BY <1>1, WalkStops
  <2>2. QED
    BY <1>2, <2>1
<1>4. walk = [b \in D |-> IF block[b].next = NULL \/ (b < new /\ new < block[b].next)
                          THEN b ELSE walk[block[b].next]]
  BY <1>3
<1>5. Predecessor(new) = walk[first_free]
  BY DEF Predecessor
<1> HIDE DEF walk
<1>6. walk = [b \in D |-> IF Stop[b] THEN b ELSE walk[block[b].next]]
  BY <1>2, <1>4
<1>7. first_free \in D /\ D \subseteq Nat /\ \A c \in D : first_free <= c
  BY LinkFacts
<1> DEFINE p == walk[first_free]
<1>8. /\ p \in D /\ Stop[p]
      /\ \A c \in D : first_free <= c /\ c < p => ~Stop[c]
  <2> HIDE DEF Stop
  <2>1. QED
    BY <1>1, <1>6, <1>7, WalkStops
<1> HIDE DEF p
<1>9. p < new
  <2> SUFFICES ASSUME ~(p < new) PROVE FALSE
    OBVIOUS
  <2> DEFINE Beyond == {c \in D : new < c}
  <2>1. p \in Beyond
    BY <1>7, <1>8
  <2>2. PICK m \in Beyond : \A c \in Beyond : m <= c
    <3>1. Beyond \subseteq Nat
      BY <1>7
    <3> HIDE DEF Beyond
    <3>2. QED
      BY <2>1, <3>1, LeastNatural
  <2>3. m \in D /\ new < m /\ m <= p
    BY <2>1, <2>2
  <2> DEFINE q == block[m].prev
  <2>4. q \in D /\ q < m /\ \A c \in D : c < m => c <= q
    BY <1>7, <2>3, LinkFacts
  <2>5. block[q].next \in D /\ q < block[q].next /\ block[q].next <= m
    BY <2>3, <2>4, LinkFacts
  <2> HIDE DEF q
  <2>6. q < new
    <3>1. q \in Nat /\ m \in Nat /\ ~(m <= q)
      BY <1>7, <2>3, <2>4
    <3>2. q \notin Beyond
      BY <2>2, <3>1
    <3>3. QED
      BY <2>4, <3>1, <3>2
  <2>7. block[q].next = m
    <3>1. block[q].next \in Nat /\ ~(block[q].next <= q) /\ m \in Nat
      BY <1>7, <2>3, <2>4, <2>5
    <3>2. ~(block[q].next < m)
      BY <2>4, <2>5, <3>1
    <3>3. QED
      BY <2>5, <3>1, <3>2
  <2>8. Stop[q]
    BY <2>3, <2>4, <2>6, <2>7
  <2>9. first_free <= q /\ q < p
    BY <1>7, <1>8, <2>3, <2>4
  <2>10. QED
    BY <1>8, <2>4, <2>8, <2>9
<1>10. ASSUME NEW c \in D PROVE c <= p \/ new < c
  <2>1. c \in Nat /\ p \in Nat
    BY <1>7, <1>8
  <2>2. CASE block[p].next = NULL
    <3>1. ~(p < c)
      BY <1>8, <2>2, LinkFacts
    <3>2. QED
      BY <2>1, <3>1
  <2>3. CASE block[p].next # NULL
    <3>1. new < block[p].next /\ block[p].next \in D
      BY <1>8, <2>3, LinkFacts
    <3>2. p < c => block[p].next <= c
      BY <1>8, LinkFacts
    <3>3. block[p].next \in Nat
      BY <1>7, <3>1
    <3>4. QED
      BY <2>1, <3>1, <3>2, <3>3
  <2>4. QED
    BY <2>2, <2>3
<1>11. QED
  BY <1>5, <1>8, <1>9, <1>10 DEF p

-----------------------------------------------------------------------------
(* nmalloc_malloc: the rest of the block found takes its place in the list. *)
LEMMA LayoutFacts ==
  ASSUME NEW list, NEW first, NEW live, Heaped(list, first, live)
  PROVE  /\ DOMAIN live \subseteq Arena /\ live \in [DOMAIN live -> 1 .. HeapSize]
         /\ \A a \in DOMAIN list :
              /\ list[a].size \in 1 .. HeapSize /\ a + list[a].size <= Base + HeapSize
              /\ \A c \in DOMAIN list : a < c => a + list[a].size <= c
              /\ \A c \in DOMAIN live : a # c /\ (a < c => a + list[a].size <= c)
         /\ \A a \in DOMAIN live :
              /\ live[a] \in 1 .. HeapSize /\ a + live[a] <= Base + HeapSize
              /\ \A c \in (DOMAIN list) \cup (DOMAIN live) : a < c => a + live[a] <= c
<1> DEFINE size == Layout(list, live)
<1>1. /\ DOMAIN size = (DOMAIN list) \cup (DOMAIN live)
      /\ \A a \in DOMAIN list : size[a] = list[a].size
      /\ \A a \in DOMAIN live : a \notin DOMAIN list /\ size[a] = live[a]
  BY DEF Layout, Heaped
<1>2. /\ live \in [DOMAIN live -> 1 .. HeapSize] /\ Linked(list, first) /\ Tiled(size)
  BY DEF Heaped
<1> HIDE DEF size
<1>3. QED
  BY <1>1, <1>2 DEF Tiled

IsMovedUp(list, b, n) ==
  /\ DOMAIN list = ((DOMAIN block) \ {b}) \cup {b + n}
  /\ list[b + n] = [prev |-> block[b].prev, next |-> block[b].next, size |-> block[b].size - n]
  /\ \A a \in (DOMAIN block) \ {b} :
       /\ list[a] \in Header /\ list[a].size = block[a].size
       /\ list[a].next = IF a = block[b].prev THEN b + n ELSE block[a].next
       /\ list[a].prev = IF a = block[b].next THEN b + n ELSE block[a].prev
  /\ list \in [DOMAIN list -> Header]

LEMMA MovedUpFields ==
  ASSUME Linked(block, first_free), NEW b \in DOMAIN block, NEW n \in Nat,
         0 < n, n < block[b].size, b + n \notin DOMAIN block, b + n \in Arena
  PROVE  IsMovedUp(MovedUp(b, n), b, n)
<1> DEFINE D == DOMAIN block
           to == b + n
           list == MovedUp(b, n)
<1>1. /\ D \subseteq Arena /\ D \subseteq Nat /\ NULL \notin D
      /\ \A a \in D : block[a] \in Header
      /\ block[b].prev = NULL \/ block[b].prev < b
      /\ block[b].next = NULL \/ b < block[b].next
      /\ block[b].prev \in D \cup {NULL} /\ block[b].next \in D \cup {NULL}
      /\ block[b].size \in 1 .. HeapSize
  BY LinkFacts
<1>2. b \in Nat /\ to \in Nat /\ b < to /\ to \notin D
  BY <1>1
<1>3. DOMAIN list = (D \ {b}) \cup {to}
  BY DEF MovedUp
<1>4. list[to] = [block[b] EXCEPT !.size = @ - n]
  <2>1. to # block[b].prev /\ to # block[b].next
    BY <1>1, <1>2, ArenaIs
  <2>2. QED
    BY <2>1 DEF MovedUp
<1>5. ASSUME NEW a \in D \ {b}
      PROVE  list[a] = IF a = block[b].prev THEN [block[a] EXCEPT !.next = to]
                       ELSE IF a = block[b].next THEN [block[a] EXCEPT !.prev = to]
                       ELSE block[a]
  <2>1. a # to /\ a # NULL /\ a \in Nat
    BY <1>1, <1>2
  <2>2. ~(a = block[b].prev /\ a = block[b].next)
    BY <1>1, <1>2, <2>1
  <2>3. QED
    BY <2>1, <2>2 DEF MovedUp
<1>6. to \in Arena
  OBVIOUS
<1> HIDE DEF list
<1>7. list[to] = [prev |-> block[b].prev, next |-> block[b].next, size |-> block[b].size - n]
      /\ list[to] \in Header
  <2>1. block[b] \in Header
    BY <1>1
  <2>2. block[b].size - n \in 1 .. HeapSize
    BY <1>1, ArenaIs
  <2>3. QED
    BY <1>4, <2>1, <2>2 DEF Header
<1>8. ASSUME NEW a \in D \ {b}
      PROVE  /\ list[a] \in Header /\ list[a].size = block[a].size
             /\ list[a].next = IF a = block[b].prev THEN to ELSE block[a].next
             /\ list[a].prev = IF a = block[b].next THEN to ELSE block[a].prev
  <2>1. block[a] \in Header
    BY <1>1
  <2>2. ~(a = block[b].prev /\ a = block[b].next)
    BY <1>1, <1>2
  <2>3. QED
    BY <1>5, <1>6, <2>1, <2>2 DEF Header
<1>9. \A a \in DOMAIN list : list[a] \in Header
  BY <1>3, <1>7, <1>8
<1>10. list = [a \in DOMAIN list |-> list[a]]
  BY <1>3 DEF list, MovedUp
<1>11. QED
  <2>1. IsMovedUp(list, b, n)
    BY <1>3, <1>7, <1>8, <1>9, <1>10 DEF IsMovedUp
  <2>2. QED
    BY <2>1 DEF list

LEMMA MovedUpLinked ==
  ASSUME Linked(block, first_free), NEW b \in DOMAIN block, NEW n \in Nat,
         0 < n, n < block[b].size, b + n \in Arena,
         \A c \in DOMAIN block : b < c => b + block[b].size <= c
  PROVE  Linked(MovedUp(b, n), NewFirst(b, n))
<1> DEFINE D == DOMAIN block
           to == b + n
           list == MovedUp(b, n)
           E == DOMAIN list
           f == NewFirst(b, n)
<1>1. D \subseteq Arena /\ D \subseteq Nat /\ NULL \notin D /\ b \in Nat /\ block[b].size \in Nat
  BY LinkFacts
<1>2. to \in Nat /\ b < to /\ \A c \in D : c < b => c < to
  BY <1>1
<1>3. ASSUME NEW c \in D, c # b PROVE c \in Nat /\ c # to /\ (c < b \/ to < c) /\ (c < b <=> c < to)
  <2>1. c \in Nat /\ (c < b \/ b < c)
    BY <1>1, <1>3
  <2>2. b < c => to < c
    BY <1>1, <2>1
  <2>3. QED
    BY <1>1, <1>2, <2>1, <2>2
<1>4. to \notin D
  BY <1>1, <1>2, <1>3
<1>5. /\ E = (D \ {b}) \cup {to}
      /\ list[to].prev = block[b].prev /\ list[to].next = block[b].next
      /\ \A a \in D \ {b} :
           /\ list[a].next = IF a = block[b].prev THEN to ELSE block[a].next
           /\ list[a].prev = IF a = block[b].next THEN to ELSE block[a].prev
      /\ list \in [E -> Header]
  <2>1. b + n \notin DOMAIN block
    BY <1>4
  <2>2. /\ DOMAIN list = ((DOMAIN block) \ {b}) \cup {b + n}
        /\ list[b + n] = [prev |-> block[b].prev, next |-> block[b].next, size |-> block[b].size - n]
        /\ \A a \in (DOMAIN block) \ {b} :
             /\ list[a] \in Header /\ list[a].size = block[a].size
             /\ list[a].next = IF a = block[b].prev THEN b + n ELSE block[a].next
             /\ list[a].prev = IF a = block[b].next THEN b + n ELSE block[a].prev
        /\ list \in [DOMAIN list -> Header]
    BY <2>1, MovedUpFields DEF IsMovedUp
  <2> HIDE DEF list
  <2>3. list[to].prev = block[b].prev /\ list[to].next = block[b].next
    BY <2>2
  <2>4. QED
    BY <2>2, <2>3
<1>6. \A a \in D : /\ block[a].next = NULL \/ (block[a].next \in D /\ a < block[a].next)
                   /\ block[a].prev = NULL \/ (block[a].prev \in D /\ block[a].prev < a)
                   /\ \A c \in D : a < c => block[a].next \in D /\ block[a].next <= c
                   /\ \A c \in D : c < a => block[a].prev \in D /\ c <= block[a].prev
  BY LinkFacts
<1>7. f = IF block[b].prev = NULL THEN to ELSE first_free
  BY DEF NewFirst
<1>8. first_free \in D /\ \A c \in D : first_free <= c
  BY LinkFacts
<1> HIDE DEF list, E, f
<1> HIDE DEF to
<1>9. f \in E /\ \A c \in E : f <= c
  <2>1. CASE block[b].prev = NULL
    <3>1. \A c \in D : ~(c < b)
      BY <1>1, <1>6, <2>1
    <3>2. QED
      BY <1>2, <1>3, <1>5, <1>7, <2>1, <3>1
  <2>2. CASE block[b].prev # NULL
    <3>1. block[b].prev \in D /\ block[b].prev < b
      BY <1>6, <2>2
    <3>2. block[b].prev \in Nat /\ first_free \in Nat /\ first_free <= block[b].prev
      BY <1>1, <1>8, <3>1
    <3>3. first_free # b /\ first_free < b
      BY <1>1, <3>1, <3>2
    <3>4. QED
      BY <1>2, <1>3, <1>5, <1>7, <1>8, <2>2, <3>2, <3>3
  <2>3. QED
    BY <2>1, <2>2
<1>10. ASSUME NEW a \in E PROVE IsNext(E, a, list[a].next)
  <2>1. CASE a = to
    <3>1. CASE block[b].next = NULL
      <4>1. \A c \in D : ~(b < c)
        BY <1>1, <1>6, <3>1
      <4>2. \A c \in E : c <= to
        <5>1. \A c \in D : c <= b
          BY <1>1, <4>1
        <5>2. QED
          BY <1>1, <1>2, <1>5, <5>1
      <4>3. QED
        BY <1>5, <2>1, <3>1, <4>2 DEF IsNext
    <3>2. CASE block[b].next # NULL
      <4> DEFINE x == block[b].next
      <4>1. x \in D /\ b < x /\ \A c \in D : b < c => x <= c
        BY <1>6, <3>2
      <4> HIDE DEF x
      <4>2. x # b /\ x \in E /\ to < x
        BY <1>1, <1>3, <1>5, <4>1
      <4>3. \A c \in E : c <= to \/ x <= c
        <5>1. \A c \in D : c <= b \/ x <= c
          BY <1>1, <4>1
        <5>2. QED
          BY <1>1, <1>2, <1>5, <5>1
      <4>4. QED
        BY <1>5, <2>1, <4>2, <4>3 DEF IsNext, x
    <3>3. QED
      BY <3>1, <3>2
  <2>2. CASE a # to /\ a = block[b].prev
    <3>1. a \in D /\ a # b /\ a < b /\ list[a].next = to
      BY <1>1, <1>5, <1>6, <2>2
    <3>2. \A c \in D : c < b => c <= a
      BY <1>6, <2>2
    <3>3. a < to /\ \A c \in E : c <= a \/ to <= c
      BY <1>2, <1>3, <1>5, <3>1, <3>2
    <3>4. QED
      BY <1>5, <3>1, <3>3 DEF IsNext
  <2>3. CASE a # to /\ a # block[b].prev
    <3> DEFINE x == block[a].next
    <3>1. a \in D /\ a # b /\ list[a].next = x
      BY <1>5, <2>3
    <3>2. x # b
      <4>1. SUFFICES ASSUME x = b PROVE FALSE
        OBVIOUS
      <4>2. a < b /\ \A c \in D : a < c => b <= c
        BY <1>1, <1>6, <3>1, <4>1
      <4>3. block[b].prev \in D /\ a <= block[b].prev /\ block[b].prev < b
        BY <1>1, <1>6, <3>1, <4>2
      <4>4. block[b].prev \in Nat /\ a \in Nat
        BY <1>1, <3>1, <4>3
      <4>5. QED
        BY <1>1, <2>3, <4>2, <4>3, <4>4
    <3>3. CASE x = NULL
      <4>1. \A c \in D : ~(a < c)
        BY <1>1, <1>6, <3>1, <3>3
      <4>2. \A c \in E : c <= a
        BY <1>2, <1>3, <1>5, <3>1, <4>1
      <4>3. QED
        BY <3>1, <3>3, <4>2 DEF IsNext
    <3>4. CASE x # NULL
      <4>1. x \in D /\ a < x /\ \A c \in D : a < c => x <= c
        BY <1>6, <3>1, <3>4
      <4> HIDE DEF x
      <4>2. x \in E /\ x \in Nat /\ a \in Nat
        BY <1>1, <1>5, <3>1, <3>2, <4>1
      <4>3. to <= a \/ x <= to
        <5>1. a < b \/ to < a
          BY <1>3, <3>1
        <5>2. a < b => x <= b
          BY <1>1, <4>1
        <5>3. QED
          BY <1>1, <1>2, <4>2, <5>1, <5>2
      <4>4. \A c \in D : c <= a \/ x <= c
        BY <1>1, <4>1, <4>2
      <4>5. \A c \in E : c <= a \/ x <= c
        BY <1>5, <4>3, <4>4
      <4>6. QED
        BY <3>1, <4>1, <4>2, <4>5 DEF IsNext
    <3>5. QED
      BY <3>3, <3>4
  <2>4. QED
    BY <2>1, <2>2, <2>3
<1>11. ASSUME NEW a \in E PROVE IsPrev(E, a, list[a].prev)
  <2>1. CASE a = to
    <3>1. CASE block[b].prev = NULL
      <4>1. \A c \in D : ~(c < b)
        BY <1>1, <1>6, <3>1
      <4>2. \A c \in E : to <= c
        BY <1>2, <1>3, <1>5, <4>1
      <4>3. QED
        BY <1>5, <2>1, <3>1, <4>2 DEF IsPrev
    <3>2. CASE block[b].prev # NULL
      <4> DEFINE x == block[b].prev
      <4>1. x \in D /\ x < b /\ \A c \in D : c < b => c <= x
        BY <1>6, <3>2
      <4> HIDE DEF x
      <4>2. x # b /\ x \in E /\ x < to
        BY <1>1, <1>3, <1>5, <4>1
      <4>3. \A c \in E : c <= x \/ to <= c
        BY <1>2, <1>3, <1>5, <4>1
      <4>4. QED
        BY <1>5, <2>1, <4>2, <4>3 DEF IsPrev, x
    <3>3. QED
      BY <3>1, <3>2
  <2>2. CASE a # to /\ a = block[b].next
    <3>1. a \in D /\ a # b /\ b < a /\ list[a].prev = to
      BY <1>1, <1>5, <1>6, <2>2
    <3>2. \A c \in D : b < c => a <= c
      BY <1>6, <2>2
    <3>3. to < a /\ \A c \in E : c <= to \/ a <= c
      BY <1>1, <1>2, <1>3, <1>5, <3>1, <3>2
    <3>4. QED
      BY <1>5, <3>1, <3>3 DEF IsPrev
  <2>3. CASE a # to /\ a # block[b].next
    <3> DEFINE x == block[a].prev
    <3>1. a \in D /\ a # b /\ list[a].prev = x
      BY <1>5, <2>3
    <3>2. x # b
      <4>1. SUFFICES ASSUME x = b PROVE FALSE
        OBVIOUS
      <4>2. b < a /\ \A c \in D : c < a => c <= b
        BY <1>1, <1>6, <3>1, <4>1
      <4>3. block[b].next \in D /\ block[b].next <= a /\ b < block[b].next
        BY <1>1, <1>6, <3>1, <4>2
      <4>4. block[b].next \in Nat /\ a \in Nat
        BY <1>1, <3>1, <4>3
      <4>5. QED
        BY <1>1, <2>3, <4>2, <4>3, <4>4
    <3>3. CASE x = NULL
      <4>1. \A c \in D : ~(c < a)
        BY <1>1, <1>6, <3>1, <3>3
      <4>2. \A c \in E : a <= c
        BY <1>1, <1>2, <1>3, <1>5, <3>1, <4>1
      <4>3. QED
        BY <3>1, <3>3, <4>2 DEF IsPrev
    <3>4. CASE x # NULL
      <4>1. x \in D /\ x < a /\ \A c \in D : c < a => c <= x
        BY <1>6, <3>1, <3>4
      <4> HIDE DEF x
      <4>2. x \in E /\ x \in Nat /\ a \in Nat
        BY <1>1, <1>5, <3>1, <3>2, <4>1
      <4>3. to <= x \/ a <= to
        <5>1. a < b \/ to < a
          BY <1>3, <3>1
        <5>2. to < a => b <= x
          BY <1>1, <1>2, <4>1, <4>2
        <5>3. b <= x => to < x
          BY <1>1, <1>3, <3>2, <4>1, <4>2
        <5>4. QED
          BY <1>1, <1>2, <4>2, <5>1, <5>2, <5>3
      <4>4. \A c \in D : c <= x \/ a <= c
        BY <1>1, <4>1, <4>2
      <4>5. \A c \in E : c <= x \/ a <= c
        BY <1>5, <4>3, <4>4
      <4>6. QED
        BY <3>1, <4>1, <4>2, <4>5 DEF IsPrev
    <3>5. QED
      BY <3>3, <3>4
  <2>4. QED
    BY <2>1, <2>2, <2>3
<1>12. E \subseteq Arena
  BY <1>1, <1>5 DEF to
<1>13. QED
  BY <1>5, <1>9, <1>10, <1>11, <1>12 DEF Linked, list, E, f

-----------------------------------------------------------------------------
(* A block is cut in two, or two that touch become one: the tiles fill the *)
(* same arena.                                                             *)
LEMMA TileSplit ==
  ASSUME NEW s, Tiled(s), NEW b \in DOMAIN s, NEW n \in Nat, 0 < n, n < s[b],
         NEW t, DOMAIN t = (DOMAIN s) \cup {b + n}, t = [a \in DOMAIN t |-> t[a]],
         t[b] = n, t[b + n] = s[b] - n, \A a \in (DOMAIN s) \ {b} : t[a] = s[a]
  PROVE  Tiled(t) /\ b + n \notin DOMAIN s /\ b + n \in Arena
<1> DEFINE S == DOMAIN s
           to == b + n
           T == DOMAIN t
<1>1. /\ S \subseteq Arena /\ \A a \in S : s[a] \in 1 .. HeapSize /\ a + s[a] <= Base + HeapSize
      /\ \A a, c \in S : a < c => a + s[a] <= c
      /\ \A x \in Arena : \E a \in S : a <= x /\ x < a + s[a]
  BY DEF Tiled
<1>2. S \subseteq Nat /\ s[b] \in Nat /\ b \in Nat /\ to \in Nat /\ b < to /\ to < b + s[b]
      /\ to + (s[b] - n) = b + s[b] /\ s[b] - n \in 1 .. HeapSize /\ n \in 1 .. HeapSize
  BY <1>1, ArenaIs
<1>3. to \in Arena
  <2>1. Base <= b /\ b + s[b] <= Base + HeapSize
    BY <1>1, ArenaIs
  <2>2. QED
    BY <1>2, <2>1, ArenaIs
<1>4. to \notin S
  <2>1. SUFFICES ASSUME to \in S PROVE FALSE
    OBVIOUS
  <2>2. b + s[b] <= to
    BY <1>1, <1>2, <2>1
  <2>3. QED
    BY <1>2, <2>2
<1>5. to # b /\ \A a \in S : a # b => a # to /\ t[a] = s[a] /\ a \in Nat /\ s[a] \in Nat
  BY <1>1, <1>2, <1>4
<1>6. T = S \cup {to} /\ t[b] = n /\ t[to] = s[b] - n
  OBVIOUS
<1> HIDE DEF to, S, T
<1>7. ASSUME NEW a \in T PROVE t[a] \in 1 .. HeapSize /\ a + t[a] <= Base + HeapSize
  <2>1. CASE a = b
    <3>1. b + s[b] <= Base + HeapSize /\ b + n <= b + s[b]
      BY <1>1, <1>2 DEF S
    <3>2. QED
      BY <1>2, <1>6, <2>1, <3>1, ArenaIs
  <2>2. CASE a = to
    BY <1>1, <1>2, <1>6, <2>2 DEF S
  <2>3. CASE a # b /\ a # to
    BY <1>1, <1>5, <1>6, <2>3
  <2>4. QED
    BY <2>1, <2>2, <2>3
<1>8. ASSUME NEW a \in T, NEW c \in T, a < c PROVE a + t[a] <= c
  <2>0. b \in S /\ a \in Nat /\ c \in Nat
    BY <1>2, <1>6, <1>8 DEF S
  <2>1. CASE a = b
    <3>1. c # b
      BY <1>8, <2>0, <2>1
    <3>2. c # to => b + s[b] <= c
      BY <1>1, <1>6, <1>8, <2>0, <2>1
    <3>3. QED
      BY <1>2, <1>6, <2>0, <2>1, <3>1, <3>2 DEF to
  <2>2. CASE a = to
    <3>1. c # b /\ c # to /\ b < c
      BY <1>2, <1>8, <2>0, <2>2
    <3>2. b + s[b] <= c
      BY <1>1, <1>6, <2>0, <3>1
    <3>3. QED
      BY <1>2, <1>6, <2>2, <3>2
  <2>3. CASE a # b /\ a # to
    <3>1. a \in S /\ t[a] = s[a] /\ s[a] \in Nat
      BY <1>5, <1>6, <2>3
    <3>2. CASE c = to
      <4>1. a < b \/ b < a
        BY <1>2, <2>0, <2>3
      <4>2. b < a => b + s[b] <= a
        BY <1>1, <2>0, <3>1
      <4>3. a < b
        BY <1>2, <1>8, <2>0, <3>2, <4>1, <4>2
      <4>4. a + s[a] <= b
        BY <1>1, <2>0, <3>1, <4>3
      <4>5. QED
        BY <1>2, <2>0, <3>1, <3>2, <4>4
    <3>3. CASE c # to
      BY <1>1, <1>6, <1>8, <3>1, <3>3
    <3>4. QED
      BY <3>2, <3>3
  <2>4. QED
    BY <2>1, <2>2, <2>3
<1>9. ASSUME NEW x \in Arena PROVE \E a \in T : a <= x /\ x < a + t[a]
  <2>1. PICK a \in S : a <= x /\ x < a + s[a]
    BY <1>1
  <2>2. CASE a # b
    BY <1>5, <1>6, <2>1, <2>2
  <2>3. CASE a = b
    <3>1. x \in Nat
      BY ArenaIs
    <3>2. b \in T /\ to \in T
      BY <1>6, <2>1, <2>3
    <3>3. x < to \/ to <= x
      BY <1>2, <3>1
    <3>4. x < to => b <= x /\ x < b + t[b]
      BY <1>6, <2>1, <2>3 DEF to
    <3>5. to <= x => x < to + t[to]
      BY <1>2, <1>6, <2>1, <2>3
    <3>6. QED
      BY <3>2, <3>3, <3>4, <3>5
  <2>4. QED
    BY <2>2, <2>3
<1>10. T \subseteq Arena /\ t \in [T -> 1 .. HeapSize]
  <2>1. t = [a \in T |-> t[a]]
    BY DEF T
  <2>2. T \subseteq Arena
    BY <1>1, <1>3, <1>6
  <2>3. QED
    BY <1>7, <2>1, <2>2
<1>11. Tiled(t)
  BY <1>7, <1>8, <1>9, <1>10 DEF Tiled, T
<1>12. QED
  BY <1>3, <1>4, <1>11 DEF to, S

LEMMA TileJoin ==
  ASSUME NEW s, Tiled(s), NEW b \in DOMAIN s, NEW m \in DOMAIN s, m = b + s[b],
         NEW t, DOMAIN t = (DOMAIN s) \ {m}, t = [a \in DOMAIN t |-> t[a]],
         t[b] = s[b] + s[m], \A a \in (DOMAIN s) \ {b, m} : t[a] = s[a]
  PROVE  Tiled(t)
<1> DEFINE S == DOMAIN s
           T == DOMAIN t
<1>1. /\ S \subseteq Arena /\ \A a \in S : s[a] \in 1 .. HeapSize /\ a + s[a] <= Base + HeapSize
      /\ \A a, c \in S : a < c => a + s[a] <= c
      /\ \A x \in Arena : \E a \in S : a <= x /\ x < a + s[a]
  BY DEF Tiled
<1>2. /\ S \subseteq Nat /\ \A a \in S : s[a] \in Nat /\ Base <= a
      /\ s[b] \in Nat /\ s[m] \in Nat /\ b \in Nat /\ m \in Nat /\ b < m
      /\ b + t[b] = m + s[m] /\ t[b] \in Nat /\ 0 < t[b]
  BY <1>1, ArenaIs
<1>3. /\ T \subseteq S /\ b \in T /\ m \in S /\ b # m /\ \A a \in S : a # m => a \in T
      /\ \A a \in T : a # b => a # m /\ t[a] = s[a]
  BY <1>2
<1> HIDE DEF S, T
<1>4. ASSUME NEW a \in T PROVE t[a] \in 1 .. HeapSize /\ a + t[a] <= Base + HeapSize
  <2>1. CASE a = b
    <3>1. m + s[m] <= Base + HeapSize /\ Base <= b
      BY <1>1, <1>2, <1>3
    <3>2. QED
      BY <1>2, <2>1, <3>1, ArenaIs
  <2>2. CASE a # b
    BY <1>1, <1>3, <2>2
  <2>3. QED
    BY <2>1, <2>2
<1>5. ASSUME NEW a \in T, NEW c \in T, a < c PROVE a + t[a] <= c
  <2>1. a \in S /\ c \in S /\ c # m /\ a \in Nat /\ c \in Nat
    BY <1>2, <1>3
  <2>2. CASE a = b
    <3>1. m <= c
      BY <1>1, <1>5, <1>3, <2>1, <2>2 DEF S
    <3>2. m < c
      BY <1>2, <2>1, <3>1
    <3>3. m + s[m] <= c
      BY <1>1, <1>3, <2>1, <3>2
    <3>4. QED
      BY <1>2, <2>2, <3>3
  <2>3. CASE a # b
    BY <1>1, <1>3, <1>5, <2>1, <2>3
  <2>4. QED
    BY <2>2, <2>3
<1>6. ASSUME NEW x \in Arena PROVE \E a \in T : a <= x /\ x < a + t[a]
  <2>1. PICK a \in S : a <= x /\ x < a + s[a]
    BY <1>1
  <2>2. x \in Nat
    BY ArenaIs
  <2>3. CASE a = b
    BY <1>2, <1>3, <2>1, <2>2, <2>3
  <2>4. CASE a = m
    BY <1>2, <1>3, <2>1, <2>2, <2>4
  <2>5. CASE a # b /\ a # m
    BY <1>3, <2>1, <2>5
  <2>6. QED
    BY <2>3, <2>4, <2>5
<1>7. T \subseteq Arena /\ t \in [T -> 1 .. HeapSize]
  <2>1. t = [a \in T |-> t[a]]
    BY DEF T
  <2>2. T \subseteq Arena
    BY <1>1, <1>3
  <2>3. QED
    BY <1>4, <2>1, <2>2
<1>8. QED
  BY <1>4, <1>5, <1>6, <1>7 DEF Tiled, T

-----------------------------------------------------------------------------
LEMMA DataSizeIs ==
  ASSUME NEW size \in Sizes
  PROVE  /\ DataSize(size) \in Nat /\ Needed(size) \in Nat
         /\ WORD + size <= DataSize(size) /\ 0 < DataSize(size)
         /\ DataSize(size) < Needed(size)
<1> DEFINE header == BLOCK_HEADER_SIZE
           least == Max({WORD + size, header})
<1>1. header \in Nat /\ 0 < header /\ WORD \in Nat /\ 0 < WORD /\ size \in Nat /\ 0 < size
  BY HeapAssumption
<1>2. least \in Nat /\ WORD + size <= least
  <2>1. CASE WORD + size >= header
    <3>1. {WORD + size, header} \subseteq Nat /\ \A y \in {WORD + size, header} : WORD + size >= y
      BY <1>1, <2>1
    <3>2. QED
      BY <1>1, <3>1, MaxIs
  <2>2. CASE ~(WORD + size >= header)
    <3>1. {WORD + size, header} \subseteq Nat /\ \A y \in {WORD + size, header} : header >= y
      BY <1>1, <2>2
    <3>2. QED
      BY <1>1, <2>2, <3>1, MaxIs
  <2>3. QED
    BY <2>1, <2>2
<1> HIDE DEF least
<1>3. least % header \in Nat /\ least % header < header
  BY <1>1, <1>2
<1>4. DataSize(size) = least + header - (least % header)
  BY DEF DataSize, least
<1>5. QED
  BY <1>1, <1>2, <1>3, <1>4 DEF Needed

(* nmalloc_malloc keeps the heap whole. *)
LEMMA MallocKeeps ==
  ASSUME HeapInv, NEW size \in Sizes, nmalloc_malloc(size)
  PROVE  HeapInv'
<1> DEFINE c == Find(Needed(size))
           n == DataSize(size)
           to == c + n
<1>1. /\ Heaped(block, first_free, data) /\ Linked(block, first_free) /\ Merged(block)
      /\ Tiled(Layout(block, data)) /\ data \in [DOMAIN data -> 1 .. HeapSize]
      /\ (DOMAIN block) \cap (DOMAIN data) = {}
  BY DEF HeapInv, Heaped
<1>2. n \in Nat /\ Needed(size) \in Nat /\ 0 < n /\ n < Needed(size)
  BY DataSizeIs
<1>3. c \in DOMAIN block
  BY <1>1, <1>2, FindIs
<1>4. CASE block[c].size < Needed(size)
  <2>1. result' = NULL /\ UNCHANGED <<first_free, block, data>>
    BY <1>4 DEF nmalloc_malloc
  <2>2. QED
    BY <1>1, <2>1 DEF HeapInv
<1>5. CASE ~(block[c].size < Needed(size))
  <2>1. /\ block' = MovedUp(c, n) /\ first_free' = NewFirst(c, n) /\ result' = c
        /\ data' = [b \in (DOMAIN data) \cup {c} |-> IF b = c THEN n ELSE data[b]]
    BY <1>5 DEF nmalloc_malloc
  <2> HIDE DEF c, n
  <2>2. c \in Nat /\ block[c].size \in 1 .. HeapSize /\ n < block[c].size /\ DOMAIN block \subseteq Arena
    <3>1. c \in Nat /\ block[c].size \in 1 .. HeapSize /\ DOMAIN block \subseteq Arena
      BY <1>1, <1>3, LinkFacts
    <3>2. QED
      BY <1>2, <1>5, <3>1
  <2> DEFINE s == Layout(block, data)
             E == ((DOMAIN block) \ {c}) \cup {to}
             L == (DOMAIN data) \cup {c}
             t == [a \in (DOMAIN s) \cup {to} |->
                     IF a = c THEN n ELSE IF a = to THEN block[c].size - n ELSE s[a]]
  <2>3. /\ DOMAIN s = (DOMAIN block) \cup (DOMAIN data) /\ c \in DOMAIN s /\ s[c] = block[c].size
        /\ \A a \in DOMAIN block : s[a] = block[a].size
        /\ \A a \in DOMAIN data : a \notin DOMAIN block /\ s[a] = data[a]
    BY <1>1, <1>3 DEF Layout
  <2>4. Tiled(s)
    BY <1>1
  <2> HIDE DEF s
  <2>5. /\ DOMAIN t = (DOMAIN s) \cup {c + n} /\ t = [a \in DOMAIN t |-> t[a]]
        /\ t[c] = n /\ t[c + n] = s[c] - n /\ \A a \in (DOMAIN s) \ {c} : a # to => t[a] = s[a]
    <3>1. to # c
      BY <1>2, <2>2
    <3>2. QED
      BY <2>3, <3>1
  <2>6. to \notin DOMAIN s
    <3>1. SUFFICES ASSUME to \in DOMAIN s PROVE FALSE
      OBVIOUS
    <3>2. c < to
      BY <1>2, <2>2
    <3>3. c + s[c] <= to
      BY <2>3, <2>4, <3>1, <3>2 DEF Tiled
    <3>4. QED
      BY <1>2, <2>2, <2>3, <3>3
  <2>7. Tiled(t) /\ to \in Arena
    <3>1. \A a \in (DOMAIN s) \ {c} : t[a] = s[a]
      BY <2>5, <2>6
    <3> HIDE DEF t
    <3>2. n < s[c]
      BY <2>2, <2>3
    <3>3. QED
      BY <1>2, <2>3, <2>4, <2>5, <3>1, <3>2, TileSplit
  <2>8. \A a \in DOMAIN block : c < a => c + block[c].size <= a
    BY <1>1, <1>3, LayoutFacts
  <2>9. /\ DOMAIN block' = E /\ block'[to].size = block[c].size - n
        /\ \A a \in (DOMAIN block) \ {c} : block'[a].size = block[a].size
    <3>1. c + n \notin DOMAIN block /\ c + n \in Arena
      BY <2>3, <2>6, <2>7
    <3> HIDE DEF s, t
    <3>2. /\ DOMAIN MovedUp(c, n) = ((DOMAIN block) \ {c}) \cup {c + n}
          /\ MovedUp(c, n)[c + n] = [prev |-> block[c].prev, next |-> block[c].next,
                                     size |-> block[c].size - n]
          /\ \A a \in (DOMAIN block) \ {c} : MovedUp(c, n)[a].size = block[a].size
      <4>1. Linked(block, first_free) /\ c \in DOMAIN block /\ n \in Nat /\ 0 < n /\ n < block[c].size
        BY <1>1, <1>2, <1>3, <2>2
      <4>2. QED
        <5>1. IsMovedUp(MovedUp(c, n), c, n)
          BY <3>1, <4>1, MovedUpFields
        <5>2. QED
          BY <5>1 DEF IsMovedUp
    <3>3. QED
      BY <2>1, <3>2
  <2>10. Linked(block', first_free')
    <3>1. c + n \in Arena
      BY <2>7
    <3>2. QED
      BY <1>1, <1>2, <1>3, <2>1, <2>2, <2>8, <3>1, MovedUpLinked
  <2>11. /\ DOMAIN data' = L /\ data'[c] = n /\ \A a \in DOMAIN data : a # c => data'[a] = data[a]
         /\ data' \in [DOMAIN data' -> 1 .. HeapSize]
    <3>1. n \in 1 .. HeapSize
      BY <1>2, <2>2, ArenaIs
    <3>2. QED
      BY <1>1, <2>1, <3>1
  <2>12. (DOMAIN block') \cap (DOMAIN data') = {}
    BY <1>1, <2>3, <2>5, <2>6, <2>9, <2>11
  <2>13. Layout(block', data') = t
    <3>1. E \cup L = (DOMAIN s) \cup {to} /\ to # c /\ c \notin E
      BY <1>3, <2>3, <2>6
    <3>2. ASSUME NEW a \in (DOMAIN s) \cup {to}
          PROVE  (IF a \in DOMAIN block' THEN block'[a].size ELSE data'[a]) = t[a]
      <4>1. CASE a = c
        BY <2>9, <2>11, <3>1, <4>1
      <4>2. CASE a = to
        BY <2>9, <3>1, <4>2
      <4>3. CASE a # c /\ a # to /\ a \in DOMAIN block
        BY <2>3, <2>9, <4>3
      <4>4. CASE a # c /\ a # to /\ a \in DOMAIN data
        BY <2>3, <2>9, <2>11, <4>4
      <4>5. QED
        BY <2>3, <4>1, <4>2, <4>3, <4>4
    <3>3. QED
      BY <2>9, <2>11, <3>1, <3>2 DEF Layout
  <2>14. Heaped(block', first_free', data')
    BY <2>7, <2>10, <2>11, <2>12, <2>13 DEF Heaped
  <2>15. Merged(block')
    <3>0. DOMAIN block \subseteq Nat /\ \A a \in DOMAIN block : block[a].size \in Nat
      BY <1>1, LinkFacts
    <3>1. ASSUME NEW a \in E PROVE a + block'[a].size \notin E
      <4>1. CASE a = to
        <5>1. to + block'[to].size = c + block[c].size
          BY <1>2, <2>2, <2>9
        <5>2. c + block[c].size \notin DOMAIN block /\ c + block[c].size # to
          BY <1>1, <1>2, <1>3, <2>2 DEF Merged
        <5>3. QED
          BY <4>1, <5>1, <5>2
      <4>2. CASE a # to
        <5>1. a \in DOMAIN block /\ a # c /\ block'[a].size = block[a].size
          BY <2>9, <4>2
        <5>2. a + block[a].size \notin DOMAIN block
          BY <1>1, <5>1 DEF Merged
        <5>3. a + block[a].size # to
          <6>1. a < c \/ c < a
            BY <2>2, <3>0, <5>1
          <6>2. a < c => a + block[a].size <= c
            BY <1>1, <1>3, <5>1, LayoutFacts
          <6>3. c < a => c + block[c].size <= a
            BY <2>8, <5>1
          <6>4. a \in Nat /\ block[a].size \in Nat
            BY <3>0, <5>1
          <6>5. QED
            BY <1>2, <2>2, <6>1, <6>2, <6>3, <6>4
        <5>4. QED
          BY <5>1, <5>2, <5>3
      <4>3. QED
        BY <4>1, <4>2
    <3>2. QED
      BY <2>9, <3>1 DEF Merged
  <2>16. result' \in Arena \cup {NULL}
    BY <1>3, <2>1, <2>2
  <2>17. QED
    BY <2>14, <2>15, <2>16 DEF HeapInv
<1>6. QED
  BY <1>4, <1>5

-----------------------------------------------------------------------------
(* nmalloc_free: the block takes its place in the list before the merge.   *)
IsInserted(list, new, prev, next) ==
  /\ DOMAIN list = (DOMAIN block) \cup {new}
  /\ list[new] = [prev |-> prev, next |-> next, size |-> data[new]]
  /\ \A a \in DOMAIN block :
       /\ list[a].size = block[a].size
       /\ list[a].next = IF a = prev THEN new ELSE block[a].next
       /\ list[a].prev = IF a = next THEN new ELSE block[a].prev
  /\ list \in [DOMAIN list -> Header]

LEMMA InsertedFields ==
  ASSUME Linked(block, first_free), NEW new \in Arena, new \notin DOMAIN block,
         data[new] \in 1 .. HeapSize, NEW prev, NEW next,
         IsPrev(DOMAIN block, new, prev), IsNext(DOMAIN block, new, next)
  PROVE  IsInserted(Inserted(new, prev, next), new, prev, next)
<1> DEFINE D == DOMAIN block
           list == Inserted(new, prev, next)
<1>1. /\ D \subseteq Arena /\ D \subseteq Nat /\ NULL \notin D /\ new \in Nat /\ new # NULL
      /\ \A a \in D : block[a] \in Header
  BY LinkFacts, ArenaIs
<1>2. /\ prev = NULL \/ (prev \in D /\ prev < new)
      /\ next = NULL \/ (next \in D /\ new < next)
  BY DEF IsPrev, IsNext
<1>3. DOMAIN list = D \cup {new} /\ list = [a \in DOMAIN list |-> list[a]]
  BY DEF Inserted
<1>4. list[new] = [prev |-> prev, next |-> next, size |-> data[new]]
  <2>1. new # prev /\ new # next
    BY <1>1, <1>2
  <2>2. QED
    BY <2>1 DEF Inserted
<1>5. ASSUME NEW a \in D
      PROVE  list[a] = IF a = prev THEN [block[a] EXCEPT !.next = new]
                       ELSE IF a = next THEN [block[a] EXCEPT !.prev = new]
                       ELSE block[a]
  <2>1. a # new /\ a # NULL /\ a \in Nat
    BY <1>1
  <2>2. ~(a = prev /\ a = next)
    BY <1>1, <1>2, <2>1
  <2>3. QED
    BY <2>1, <2>2 DEF Inserted
<1> HIDE DEF list
<1>6. list[new] \in Header
  BY <1>1, <1>2, <1>4 DEF Header
<1>7. ASSUME NEW a \in D
      PROVE  /\ list[a] \in Header /\ list[a].size = block[a].size
             /\ list[a].next = IF a = prev THEN new ELSE block[a].next
             /\ list[a].prev = IF a = next THEN new ELSE block[a].prev
  <2>1. block[a] \in Header
    BY <1>1
  <2>2. ~(a = prev /\ a = next)
    BY <1>1, <1>2
  <2>3. QED
    BY <1>5, <2>1, <2>2 DEF Header
<1>8. \A a \in DOMAIN list : list[a] \in Header
  BY <1>3, <1>6, <1>7
<1>9. IsInserted(list, new, prev, next)
  BY <1>3, <1>4, <1>7, <1>8 DEF IsInserted
<1>10. QED
  BY <1>9 DEF list

LEMMA InsertedLinked ==
  ASSUME Linked(block, first_free), NEW new \in Arena, new \notin DOMAIN block,
         data[new] \in 1 .. HeapSize, NEW prev, NEW next, NEW first,
         IsPrev(DOMAIN block, new, prev), IsNext(DOMAIN block, new, next),
         first = IF prev = NULL THEN new ELSE first_free
  PROVE  Linked(Inserted(new, prev, next), first)
<1> DEFINE D == DOMAIN block
           list == Inserted(new, prev, next)
           E == DOMAIN list
<1>1. D \subseteq Arena /\ D \subseteq Nat /\ NULL \notin D /\ new \in Nat /\ new # NULL
  BY LinkFacts, ArenaIs
<1>2. /\ E = D \cup {new}
      /\ list[new].prev = prev /\ list[new].next = next
      /\ \A a \in D :
           /\ list[a].next = IF a = prev THEN new ELSE block[a].next
           /\ list[a].prev = IF a = next THEN new ELSE block[a].prev
      /\ list \in [E -> Header]
  <2>1. IsInserted(list, new, prev, next)
    BY InsertedFields
  <2> HIDE DEF list
  <2>2. QED
    BY <2>1 DEF IsInserted
<1>3. \A a \in D : /\ block[a].next = NULL \/ (block[a].next \in D /\ a < block[a].next)
                   /\ block[a].prev = NULL \/ (block[a].prev \in D /\ block[a].prev < a)
                   /\ \A c \in D : a < c => block[a].next \in D /\ block[a].next <= c
                   /\ \A c \in D : c < a => block[a].prev \in D /\ c <= block[a].prev
  BY LinkFacts
<1>4. /\ prev = NULL \/ (prev \in D /\ prev < new)
      /\ next = NULL \/ (next \in D /\ new < next)
      /\ \A c \in D : c < new => prev \in D /\ c <= prev
      /\ \A c \in D : new < c => next \in D /\ next <= c
  BY <1>1 DEF IsPrev, IsNext
<1>5. first_free \in D /\ \A c \in D : first_free <= c
  BY LinkFacts
<1>6. \A c \in D : c # new /\ (c < new \/ new < c)
  BY <1>1
<1> HIDE DEF list, E
<1>7. first \in E /\ \A c \in E : first <= c
  <2>1. CASE prev = NULL
    <3>1. \A c \in D : new < c
      BY <1>1, <1>4, <1>6, <2>1
    <3>2. QED
      BY <1>1, <1>2, <2>1, <3>1
  <2>2. CASE prev # NULL
    <3>1. prev \in Nat /\ prev < new /\ first_free \in Nat /\ first_free <= prev
      BY <1>1, <1>4, <1>5, <2>2
    <3>2. QED
      BY <1>1, <1>2, <1>5, <2>2, <3>1
  <2>3. QED
    BY <2>1, <2>2
<1>8. ASSUME NEW a \in E PROVE IsNext(E, a, list[a].next)
  <2>1. CASE a = new
    <3>1. next = NULL => \A c \in E : c <= new
      BY <1>1, <1>2, <1>4, <1>6
    <3>2. next # NULL => next \in E /\ new < next /\ \A c \in E : c <= new \/ next <= c
      BY <1>1, <1>2, <1>4, <1>6
    <3>3. QED
      BY <1>2, <2>1, <3>1, <3>2 DEF IsNext
  <2>2. CASE a # new /\ a = prev
    <3>0. a \in D
      BY <1>2, <2>2
    <3>1. a \in D /\ a < new /\ list[a].next = new
      BY <1>1, <1>2, <1>4, <2>2, <3>0
    <3>2. \A c \in E : c <= a \/ new <= c
      BY <1>1, <1>2, <1>4, <1>6, <2>2
    <3>3. QED
      BY <1>2, <3>1, <3>2, <1>4, <2>2 DEF IsNext
  <2>3. CASE a # new /\ a # prev
    <3> DEFINE x == block[a].next
    <3>1. a \in D /\ a \in Nat /\ list[a].next = x
      BY <1>1, <1>2, <2>3
    <3>2. a < new => prev \in D /\ a < prev /\ prev < new /\ x \in D /\ x <= prev
      <4>1. SUFFICES ASSUME a < new PROVE prev \in D /\ a < prev /\ prev < new /\ x \in D /\ x <= prev
        OBVIOUS
      <4>2. prev \in D /\ a <= prev /\ prev < new
        BY <1>1, <1>4, <3>1, <4>1
      <4>3. prev \in Nat /\ a < prev
        BY <1>1, <2>3, <3>1, <4>2
      <4>4. QED
        BY <1>3, <3>1, <4>2, <4>3
    <3>3. x = NULL \/ (x \in D /\ a < x)
      BY <1>3, <3>1
    <3>4. \A c \in D : c <= a \/ (x \in D /\ x <= c)
      <4>1. \A c \in D : a < c => x \in D /\ x <= c
        BY <1>3, <3>1
      <4>2. QED
        BY <1>1, <3>1, <4>1
    <3> HIDE DEF x
    <3>5. x = NULL => \A c \in E : c <= a
      BY <1>1, <1>2, <1>6, <3>1, <3>2, <3>4
    <3>6. x # NULL => x \in E /\ a < x /\ \A c \in E : c <= a \/ x <= c
      <4>1. SUFFICES ASSUME x # NULL PROVE new <= a \/ x <= new
        BY <1>2, <3>3, <3>4
      <4>2. a < new => x <= new
        <5>1. a < new => x \in Nat /\ prev \in Nat
          BY <1>1, <3>2
        <5>2. QED
          BY <1>1, <3>2, <5>1
      <4>3. QED
        BY <1>1, <3>1, <4>2
    <3>7. QED
      BY <3>1, <3>5, <3>6 DEF IsNext
  <2>4. QED
    BY <2>1, <2>2, <2>3
<1>9. ASSUME NEW a \in E PROVE IsPrev(E, a, list[a].prev)
  <2>1. CASE a = new
    <3>1. prev = NULL => \A c \in E : new <= c
      BY <1>1, <1>2, <1>4, <1>6
    <3>2. prev # NULL => prev \in E /\ prev < new /\ \A c \in E : c <= prev \/ new <= c
      BY <1>1, <1>2, <1>4, <1>6
    <3>3. QED
      BY <1>2, <2>1, <3>1, <3>2 DEF IsPrev
  <2>2. CASE a # new /\ a = next
    <3>1. a \in D /\ list[a].prev = new
      BY <1>2, <2>2
    <3>2. new < a
      BY <1>1, <1>4, <2>2, <3>1
    <3>3. \A c \in E : c <= new \/ a <= c
      BY <1>1, <1>2, <1>4, <1>6, <2>2
    <3>4. QED
      BY <1>2, <3>1, <3>2, <3>3 DEF IsPrev
  <2>3. CASE a # new /\ a # next
    <3> DEFINE x == block[a].prev
    <3>1. a \in D /\ a \in Nat /\ list[a].prev = x
      BY <1>1, <1>2, <2>3
    <3>2. new < a => next \in D /\ next < a /\ new < next /\ x \in D /\ next <= x
      <4>1. SUFFICES ASSUME new < a PROVE next \in D /\ next < a /\ new < next /\ x \in D /\ next <= x
        OBVIOUS
      <4>2. next \in D /\ next <= a /\ new < next
        <5>1. next \in D /\ next <= a
          BY <1>4, <3>1, <4>1
        <5>2. QED
          BY <1>1, <1>4, <5>1
      <4>3. next \in Nat /\ next < a
        BY <1>1, <2>3, <3>1, <4>2
      <4>4. QED
        BY <1>3, <3>1, <4>2, <4>3
    <3>3. x = NULL \/ (x \in D /\ x < a)
      BY <1>3, <3>1
    <3>4. \A c \in D : a <= c \/ (x \in D /\ c <= x)
      <4>1. \A c \in D : c < a => x \in D /\ c <= x
        BY <1>3, <3>1
      <4>2. QED
        BY <1>1, <3>1, <4>1
    <3> HIDE DEF x
    <3>5. x = NULL => \A c \in E : a <= c
      BY <1>1, <1>2, <1>6, <3>1, <3>2, <3>4
    <3>6. x # NULL => x \in E /\ x < a /\ \A c \in E : c <= x \/ a <= c
      <4>1. SUFFICES ASSUME x # NULL PROVE new <= x \/ a <= new
        BY <1>2, <3>3, <3>4
      <4>2. new < a => new <= x
        <5>1. new < a => x \in Nat /\ next \in Nat
          BY <1>1, <3>2
        <5>2. QED
          BY <1>1, <3>2, <5>1
      <4>3. QED
        BY <1>1, <3>1, <4>2
    <3>7. QED
      BY <3>1, <3>5, <3>6 DEF IsPrev
  <2>4. QED
    BY <2>1, <2>2, <2>3
<1>10. E \subseteq Arena
  BY <1>1, <1>2
<1>11. QED
  BY <1>2, <1>7, <1>8, <1>9, <1>10 DEF Linked, list, E

LEMMA InsertKeeps ==
  ASSUME Heaped(block, first_free, data), NEW new \in DOMAIN data, NEW first, NEW prev, NEW next,
         IsPrev(DOMAIN block, new, prev), IsNext(DOMAIN block, new, next),
         first = IF prev = NULL THEN new ELSE first_free
  PROVE  Heaped(Inserted(new, prev, next), first, Restrict(data, (DOMAIN data) \ {new}))
<1> DEFINE list == Inserted(new, prev, next)
           live == Restrict(data, (DOMAIN data) \ {new})
<1>1. /\ Linked(block, first_free) /\ data \in [DOMAIN data -> 1 .. HeapSize]
      /\ (DOMAIN block) \cap (DOMAIN data) = {} /\ Tiled(Layout(block, data))
  BY DEF Heaped
<1>2. new \in Arena /\ new \notin DOMAIN block /\ data[new] \in 1 .. HeapSize
  BY <1>1, LayoutFacts
<1>3. Linked(list, first)
  BY <1>1, <1>2, InsertedLinked
<1>4. DOMAIN list = (DOMAIN block) \cup {new} /\ list[new].size = data[new]
      /\ \A a \in DOMAIN block : list[a].size = block[a].size
  <2>1. IsInserted(list, new, prev, next)
    BY <1>1, <1>2, InsertedFields
  <2> HIDE DEF list
  <2>2. QED
    BY <2>1 DEF IsInserted
<1>5. live = [a \in (DOMAIN data) \ {new} |-> data[a]]
  BY DEF Restrict
<1> HIDE DEF list, live
<1>6. /\ DOMAIN live = (DOMAIN data) \ {new} /\ live \in [DOMAIN live -> 1 .. HeapSize]
      /\ \A a \in DOMAIN live : live[a] = data[a]
  BY <1>1, <1>5
<1>7. Layout(list, live) = Layout(block, data)
  <2>1. (DOMAIN list) \cup (DOMAIN live) = (DOMAIN block) \cup (DOMAIN data)
    BY <1>4, <1>6
  <2>2. ASSUME NEW a \in (DOMAIN block) \cup (DOMAIN data)
        PROVE  (IF a \in DOMAIN list THEN list[a].size ELSE live[a]) =
               (IF a \in DOMAIN block THEN block[a].size ELSE data[a])
    <3>1. CASE a \in DOMAIN block
      BY <1>4, <3>1
    <3>2. CASE a = new
      BY <1>2, <1>4, <3>2
    <3>3. CASE a \in DOMAIN data /\ a # new
      BY <1>1, <1>4, <1>6, <3>3
    <3>4. QED
      BY <3>1, <3>2, <3>3
  <2>3. QED
    BY <2>1, <2>2 DEF Layout
<1>8. (DOMAIN list) \cap (DOMAIN live) = {}
  BY <1>1, <1>4, <1>6
<1>9. Heaped(list, first, live)
  BY <1>1, <1>3, <1>6, <1>7, <1>8 DEF Heaped
<1>10. QED
  BY <1>9 DEF list, live

-----------------------------------------------------------------------------
(* One turn of the merge. *)
Swallowed(list, b) ==
  LET next == list[b].next
      over == list[next].next
  IN  [a \in (DOMAIN list) \ {next} |->
         CASE a = b    -> [list[a] EXCEPT !.size = @ + list[next].size, !.next = over]
           [] a = over -> [list[a] EXCEPT !.prev = b]
           [] OTHER    -> list[a]]

IsSwallowed(k, list, b, m) ==
  /\ m \in DOMAIN list /\ b < m
  /\ DOMAIN k = (DOMAIN list) \ {m} /\ b \in DOMAIN k /\ k \in [DOMAIN k -> Header]
  /\ k[b].prev = list[b].prev /\ k[b].next = list[m].next
  /\ k[b].size = list[b].size + list[m].size
  /\ \A a \in (DOMAIN list) \ {b, m} :
       /\ k[a].size = list[a].size /\ k[a].next = list[a].next
       /\ k[a].prev = IF a = list[m].next THEN b ELSE list[a].prev

LEMMA MergeTurnIs ==
  ASSUME NEW h
  PROVE  MergeTurn(h) =
           IF h.block[h.cb].next = NULL THEN h
           ELSE IF h.cb + h.block[h.cb].size # h.block[h.cb].next
                THEN [block |-> h.block, cb |-> h.block[h.cb].next]
                ELSE [block |-> Swallowed(h.block, h.cb), cb |-> h.cb]
BY DEF MergeTurn, Swallowed

(* What swallowing the next block does to the headers. *)
LEMMA SwallowedFields ==
  ASSUME NEW list, NEW first, NEW live, Heaped(list, first, live), NEW b \in DOMAIN list,
         list[b].next # NULL, b + list[b].size = list[b].next
  PROVE  IsSwallowed(Swallowed(list, b), list, b, list[b].next)
<1> DEFINE D == DOMAIN list
           m == list[b].next
           over == list[m].next
           k == Swallowed(list, b)
<1>2. /\ D \subseteq Nat /\ NULL \notin D /\ m \in D /\ b < m
      /\ over = NULL \/ (over \in D /\ m < over)
      /\ \A a \in D : list[a] \in Header /\ list[a].size \in Nat
  <2>1. Linked(list, first)
    BY DEF Heaped
  <2>2. QED
    BY <2>1, LinkFacts, ArenaIs
<1>3. list[b].size + list[m].size \in 1 .. HeapSize
  <2>1. /\ list[b].size \in 1 .. HeapSize /\ list[m].size \in 1 .. HeapSize
        /\ m + list[m].size <= Base + HeapSize /\ b \in Arena
    <3>1. Linked(list, first)
      BY DEF Heaped
    <3>2. QED
      BY <1>2, <3>1, LayoutFacts, LinkFacts
  <2>2. QED
    BY <1>2, <2>1, ArenaIs
<1>4. DOMAIN k = D \ {m} /\ k = [a \in DOMAIN k |-> k[a]]
  <2> DEFINE Of(a) == CASE a = b    -> [list[a] EXCEPT !.size = @ + list[m].size, !.next = over]
                        [] a = over -> [list[a] EXCEPT !.prev = b]
                        [] OTHER    -> list[a]
  <2>1. k = [a \in D \ {m} |-> Of(a)]
    BY Zenon DEF Swallowed
  <2> HIDE DEF Of, k
  <2>2. QED
    BY <2>1
<1>5. b # m /\ b # over /\ over # m
  BY <1>2
<1>6. k[b] = [list[b] EXCEPT !.size = list[b].size + list[m].size, !.next = over]
  BY <1>5 DEF Swallowed
<1>7. ASSUME NEW a \in D \ {b, m}
      PROVE  k[a] = IF a = over THEN [list[a] EXCEPT !.prev = b] ELSE list[a]
  BY DEF Swallowed
<1> HIDE DEF k
<1>8. list[b] \in Header /\ over \in Arena \cup {NULL} /\ b \in Arena
  <2>1. list[b] \in Header /\ list[m] \in Header
    BY <1>2
  <2>2. D \subseteq Arena
    BY DEF Heaped, Linked
  <2>3. QED
    BY <2>1, <2>2 DEF Header
<1>9. /\ k[b] \in Header /\ k[b].prev = list[b].prev /\ k[b].next = over
      /\ k[b].size = list[b].size + list[m].size
  <2> DEFINE n == list[b].size + list[m].size
  <2>1. n \in 1 .. HeapSize
    BY <1>3
  <2> HIDE DEF n, over
  <2>2. QED
    BY <1>6, <1>8, <2>1 DEF Header, n
<1>10. ASSUME NEW a \in D \ {b, m}
       PROVE  /\ k[a] \in Header /\ k[a].size = list[a].size /\ k[a].next = list[a].next
              /\ k[a].prev = IF a = over THEN b ELSE list[a].prev
  <2>1. list[a] \in Header
    BY <1>2
  <2>2. QED
    BY <1>7, <1>8, <2>1 DEF Header
<1>11. \A a \in DOMAIN k : k[a] \in Header
  BY <1>4, <1>9, <1>10
<1>12. IsSwallowed(k, list, b, m)
  BY <1>2, <1>4, <1>5, <1>9, <1>10, <1>11 DEF IsSwallowed
<1>13. QED
  BY <1>12 DEF k

LEMMA SwallowedLinked ==
  ASSUME NEW list, NEW first, NEW live, Heaped(list, first, live), NEW b \in DOMAIN list,
         list[b].next # NULL, b + list[b].size = list[b].next
  PROVE  Linked(Swallowed(list, b), first)
<1> DEFINE D == DOMAIN list
           m == list[b].next
           over == list[m].next
           k == Swallowed(list, b)
           E == DOMAIN k
<1>1. Linked(list, first)
  BY DEF Heaped
<1>2. /\ D \subseteq Arena /\ D \subseteq Nat /\ NULL \notin D /\ b \in Nat
      /\ first \in D /\ \A c \in D : first <= c
  BY <1>1, LinkFacts
<1>3. \A a \in D : /\ list[a].next = NULL \/ (list[a].next \in D /\ a < list[a].next)
                   /\ list[a].prev = NULL \/ (list[a].prev \in D /\ list[a].prev < a)
                   /\ \A c \in D : a < c => list[a].next \in D /\ list[a].next <= c
                   /\ \A c \in D : c < a => list[a].prev \in D /\ c <= list[a].prev
  BY <1>1, LinkFacts
<1>4. /\ m \in D /\ b < m /\ E = D \ {m} /\ b \in E /\ k \in [E -> Header]
      /\ k[b].prev = list[b].prev /\ k[b].next = over
      /\ \A a \in D \ {b, m} :
           /\ k[a].next = list[a].next
           /\ k[a].prev = IF a = over THEN b ELSE list[a].prev
  <2>1. IsSwallowed(k, list, b, m)
    BY SwallowedFields
  <2> HIDE DEF k
  <2>2. QED
    BY <2>1 DEF IsSwallowed
<1>5. /\ over = NULL \/ (over \in D /\ m < over)
      /\ \A c \in D : m < c => over \in D /\ over <= c
      /\ \A c \in D : b < c => m <= c
  BY <1>3, <1>4
<1> HIDE DEF k, E, m, over
<1>6. m \in Nat /\ (over = NULL \/ over \in Nat)
  BY <1>2, <1>4, <1>5
<1>7. \A c \in E : c \in D /\ c # m /\ c \in Nat /\ (c <= b \/ m < c)
  BY <1>2, <1>4, <1>5
<1>8. first \in E /\ \A c \in E : first <= c
  <2>1. first <= b /\ first \in Nat /\ m \in Nat
    BY <1>2, <1>4
  <2>2. QED
    BY <1>2, <1>4, <2>1
<1>9. ASSUME NEW a \in E PROVE IsNext(E, a, k[a].next)
  <2>1. CASE a = b
    <3>1. over = NULL => \A c \in E : c <= b
      BY <1>2, <1>5, <1>7
    <3>2. over # NULL => over \in E /\ b < over /\ \A c \in E : c <= b \/ over <= c
      BY <1>2, <1>4, <1>5, <1>7
    <3>3. QED
      BY <1>4, <2>1, <3>1, <3>2 DEF IsNext
  <2>2. CASE a # b
    <3> DEFINE x == list[a].next
    <3>1. a \in D /\ a # m /\ a \in Nat /\ k[a].next = x
      BY <1>2, <1>4, <1>7, <2>2
    <3>2. /\ x = NULL \/ (x \in D /\ a < x)
          /\ \A c \in D : a < c => x \in D /\ x <= c
      BY <1>3, <3>1
    <3> HIDE DEF x
    <3>3. x # m
      <4>1. SUFFICES ASSUME x = m PROVE FALSE
        OBVIOUS
      <4>2. a < m
        BY <1>2, <1>4, <3>2, <4>1
      <4>3. a <= b
        BY <1>7, <3>1, <4>2, <1>2, <1>4
      <4>4. a < b
        BY <1>2, <2>2, <3>1, <4>3
      <4>5. m <= b
        BY <1>4, <3>2, <4>1, <4>4
      <4>6. QED
        BY <1>2, <1>4, <4>5
    <3>4. x = NULL => \A c \in E : c <= a
      BY <1>2, <1>7, <3>1, <3>2
    <3>5. x # NULL => x \in E /\ a < x /\ \A c \in E : c <= a \/ x <= c
      BY <1>4, <1>7, <3>1, <3>2, <3>3
    <3>6. QED
      BY <3>1, <3>4, <3>5 DEF IsNext
  <2>3. QED
    BY <2>1, <2>2
<1>10. ASSUME NEW a \in E PROVE IsPrev(E, a, k[a].prev)
  <2> DEFINE x == list[a].prev
  <2>1. a \in D /\ a # m /\ a \in Nat
    BY <1>7
  <2>2. /\ x = NULL \/ (x \in D /\ x < a)
        /\ \A c \in D : c < a => x \in D /\ c <= x
    BY <1>3, <2>1
  <2>3. CASE a = b \/ a # over
    <3>1. k[a].prev = x
      BY <1>4, <2>1, <2>3
    <3> HIDE DEF x
    <3>2. x # m
      <4>1. SUFFICES ASSUME x = m PROVE FALSE
        OBVIOUS
      <4>2. m < a /\ m \in Nat
        BY <1>2, <1>4, <2>2, <4>1
      <4>3. a # b /\ a # over
        BY <1>2, <1>4, <2>3, <4>2
      <4>4. over \in D /\ over <= a /\ m < over
        BY <1>2, <1>5, <2>1, <4>2
      <4>5. over \in Nat /\ over < a
        BY <1>2, <2>1, <4>3, <4>4
      <4>6. over <= m
        BY <2>2, <4>1, <4>4, <4>5
      <4>7. QED
        BY <4>2, <4>4, <4>5, <4>6
    <3>3. x = NULL => \A c \in E : a <= c
      BY <1>2, <1>7, <2>1, <2>2
    <3>4. x # NULL => x \in E /\ x < a /\ \A c \in E : c <= x \/ a <= c
      BY <1>4, <1>7, <2>1, <2>2, <3>2
    <3>5. QED
      BY <3>1, <3>3, <3>4 DEF IsPrev
  <2>4. CASE a # b /\ a = over
    <3>1. k[a].prev = b
      BY <1>4, <2>1, <2>4
    <3>2. m < over /\ over \in Nat /\ m \in Nat
      BY <1>2, <1>4, <1>5, <2>1, <2>4
    <3>3. b < a
      BY <1>2, <1>4, <2>4, <3>2
    <3>4. \A c \in E : c <= b \/ a <= c
      BY <1>5, <1>7, <2>4
    <3>5. QED
      BY <1>4, <3>1, <3>3, <3>4 DEF IsPrev
  <2>5. QED
    BY <2>3, <2>4
<1>11. E \subseteq Arena
  BY <1>2, <1>4
<1>12. QED
  BY <1>4, <1>8, <1>9, <1>10, <1>11 DEF Linked, k, E

LEMMA SwallowedHeaped ==
  ASSUME NEW list, NEW first, NEW live, Heaped(list, first, live), NEW b \in DOMAIN list,
         list[b].next # NULL, b + list[b].size = list[b].next
  PROVE  Heaped(Swallowed(list, b), first, live)
<1> DEFINE m == list[b].next
           k == Swallowed(list, b)
           s == Layout(list, live)
           t == Layout(k, live)
<1>1. /\ live \in [DOMAIN live -> 1 .. HeapSize] /\ (DOMAIN list) \cap (DOMAIN live) = {}
      /\ Tiled(s)
  BY DEF Heaped
<1>2. Linked(k, first)
  BY SwallowedLinked
<1>3. /\ m \in DOMAIN list /\ DOMAIN k = (DOMAIN list) \ {m} /\ b \in DOMAIN k
      /\ k[b].size = list[b].size + list[m].size
      /\ \A a \in (DOMAIN list) \ {b, m} : k[a].size = list[a].size
  <2>1. IsSwallowed(k, list, b, m)
    BY SwallowedFields
  <2> HIDE DEF k
  <2>2. QED
    BY <2>1 DEF IsSwallowed
<1>4. /\ DOMAIN s = (DOMAIN list) \cup (DOMAIN live)
      /\ \A a \in DOMAIN list : s[a] = list[a].size
      /\ \A a \in DOMAIN live : a \notin DOMAIN list /\ s[a] = live[a]
  BY <1>1 DEF Layout
<1> HIDE DEF k
<1>5. /\ DOMAIN t = (DOMAIN k) \cup (DOMAIN live) /\ t = [a \in DOMAIN t |-> t[a]]
      /\ \A a \in DOMAIN k : t[a] = k[a].size
      /\ \A a \in DOMAIN live : a \notin DOMAIN k => t[a] = live[a]
  BY DEF Layout
<1> HIDE DEF s, t
<1>6. DOMAIN t = (DOMAIN s) \ {m}
  BY <1>1, <1>3, <1>4, <1>5
<1>7. t[b] = s[b] + s[m] /\ m = b + s[b] /\ b \in DOMAIN s /\ m \in DOMAIN s
  BY <1>3, <1>4, <1>5
<1>8. \A a \in (DOMAIN s) \ {b, m} : t[a] = s[a]
  BY <1>1, <1>3, <1>4, <1>5
<1>9. Tiled(t)
  <2>1. t = [a \in DOMAIN t |-> t[a]]
    BY <1>5
  <2> HIDE DEF m
  <2>2. QED
    BY <1>1, <1>6, <1>7, <1>8, <2>1, TileJoin
<1>10. (DOMAIN k) \cap (DOMAIN live) = {}
  BY <1>1, <1>3
<1>11. QED
  BY <1>1, <1>2, <1>9, <1>10 DEF Heaped, k, t

-----------------------------------------------------------------------------
(* merge_adjacent_free_blocks: every turn keeps the heap whole, no block   *)
(* behind the walk touches its successor, and every turn takes a block off *)
(* the walk until there is none ahead.                                     *)
Ahead(h) == {c \in DOMAIN h.block : h.cb < c}

Walking(h, first, live) ==
  /\ Heaped(h.block, first, live)
  /\ h.cb \in DOMAIN h.block
  /\ \A b \in DOMAIN h.block : b < h.cb => b + h.block[b].size \notin DOMAIN h.block

LEMMA TurnKeeps ==
  ASSUME NEW h, NEW first, NEW live, Walking(h, first, live)
  PROVE  /\ Walking(MergeTurn(h), first, live)
         /\ h.block[h.cb].next = NULL => MergeTurn(h) = h
         /\ h.block[h.cb].next # NULL =>
              /\ h.block[h.cb].next \in Ahead(h)
              /\ Ahead(MergeTurn(h)) = Ahead(h) \ {h.block[h.cb].next}
<1> DEFINE list == h.block
           b == h.cb
           m == list[b].next
           D == DOMAIN list
           g == MergeTurn(h)
           k == Swallowed(list, b)
<1>1. /\ Heaped(list, first, live) /\ Linked(list, first) /\ b \in D
      /\ \A a \in D : a < b => a + list[a].size \notin D
  BY DEF Walking, Heaped
<1>2. g = IF m = NULL THEN h
          ELSE IF b + list[b].size # m THEN [block |-> list, cb |-> m]
          ELSE [block |-> k, cb |-> b]
  BY MergeTurnIs
<1>3. /\ D \subseteq Nat /\ NULL \notin D /\ list[b].size \in Nat /\ 0 < list[b].size
      /\ m = NULL \/ (m \in D /\ b < m)
      /\ \A c \in D : b < c => m \in D /\ m <= c
  BY <1>1, LinkFacts, ArenaIs
<1>4. \A c \in D : b < c => b + list[b].size <= c
  BY <1>1, LayoutFacts
<1> HIDE DEF list, b, m, k, g
<1>5. CASE m = NULL
  <2>1. g = h
    BY <1>2, <1>5
  <2>2. QED
    BY <1>5, <2>1 DEF g, m, list, b
<1>6. CASE m # NULL /\ b + list[b].size # m
  <2>1. g.block = list /\ g.cb = m
    BY <1>2, <1>6
  <2>2. m \in D /\ b < m
    BY <1>3, <1>6
  <2>3. b + list[b].size \notin D
    <3>1. SUFFICES ASSUME b + list[b].size \in D PROVE FALSE
      OBVIOUS
    <3>2. b \in Nat /\ b < b + list[b].size
      BY <1>1, <1>3
    <3>3. m <= b + list[b].size /\ b + list[b].size <= m
      BY <1>3, <1>4, <2>2, <3>1, <3>2
    <3>4. m \in Nat /\ b + list[b].size \in Nat
      BY <1>1, <1>3, <2>2
    <3>5. QED
      BY <1>6, <3>3, <3>4
  <2>4. \A a \in D : a < m => a < b \/ a = b
    BY <1>1, <1>3, <2>2
  <2>5. Walking(g, first, live)
    BY <1>1, <2>1, <2>2, <2>3, <2>4 DEF Walking
  <2>6. {c \in D : m < c} = {c \in D : b < c} \ {m}
    BY <1>1, <1>3, <2>2
  <2>7. m \in Ahead(h) /\ Ahead(g) = Ahead(h) \ {m}
    BY <2>1, <2>2, <2>6 DEF Ahead, list, b
  <2>8. QED
    BY <1>6, <2>5, <2>7 DEF g, m, list, b
<1>7. CASE m # NULL /\ b + list[b].size = m
  <2>1. g.block = k /\ g.cb = b
    BY <1>2, <1>7
  <2>2. m \in D /\ b < m
    BY <1>3, <1>7
  <2>3. Heaped(k, first, live)
    BY <1>1, <1>7, SwallowedHeaped DEF m, k
  <2>4. /\ DOMAIN k = D \ {m} /\ b \in DOMAIN k
        /\ \A a \in D \ {b, m} : k[a].size = list[a].size
    <3>1. IsSwallowed(k, list, b, m)
      BY <1>1, <1>7, SwallowedFields DEF m, k
    <3>2. QED
      BY <3>1 DEF IsSwallowed
  <2>5. ASSUME NEW a \in DOMAIN k, a < b PROVE a + k[a].size \notin DOMAIN k
    <3>1. a \in D /\ a # m /\ a # b
      BY <1>1, <1>3, <2>4, <2>5
    <3>2. QED
      BY <1>1, <2>4, <2>5, <3>1
  <2>6. Walking(g, first, live)
    BY <2>1, <2>3, <2>4, <2>5 DEF Walking
  <2>7. m \in Ahead(h) /\ Ahead(g) = Ahead(h) \ {m}
    BY <2>1, <2>2, <2>4 DEF Ahead, list, b
  <2>8. QED
    BY <1>7, <2>6, <2>7 DEF g, m, list, b
<1>8. QED
  BY <1>5, <1>6, <1>7

(* The function of the turns exists. *)
LEMMA TurnsOneByOne ==
  ASSUME NEW list, NEW first, NEW N \in Nat, N = Cardinality(DOMAIN list)
  PROVE  /\ Turns(list, first)[0] = [block |-> list, cb |-> first]
         /\ \A i \in 1 .. N : Turns(list, first)[i] = MergeTurn(Turns(list, first)[i - 1])
<1> DEFINE start == [block |-> list, cb |-> first]
           Step(f, n) == [i \in 0 .. n |-> IF i = 0 THEN start ELSE MergeTurn(f[i - 1])]
           Bad == {n \in Nat : \A f : f # Step(f, n)}
<1> HIDE DEF start
<1>1. 0 \notin Bad
  <2> DEFINE f == [i \in 0 .. 0 |-> start]
  <2>1. f = Step(f, 0)
    OBVIOUS
  <2>2. QED
    BY <2>1
<1>2. ASSUME NEW n \in Nat, n \notin Bad PROVE n + 1 \notin Bad
  <2>1. PICK f : f = Step(f, n)
    BY <1>2
  <2> DEFINE g == [i \in 0 .. n + 1 |-> IF i = n + 1 THEN MergeTurn(f[n]) ELSE f[i]]
  <2>2. ASSUME NEW i \in 0 .. n + 1
        PROVE  g[i] = IF i = 0 THEN start ELSE MergeTurn(g[i - 1])
    <3>1. CASE i = n + 1
      BY <3>1
    <3>2. CASE i # n + 1
      <4>1. g[i] = f[i] /\ i \in 0 .. n
        BY <3>2
      <4>2. i # 0 => g[i - 1] = f[i - 1]
        BY <4>1
      <4>3. f[i] = IF i = 0 THEN start ELSE MergeTurn(f[i - 1])
        BY <2>1, <4>1
      <4>4. QED
        BY <4>1, <4>2, <4>3
    <3>3. QED
      BY <3>1, <3>2
  <2>3. g = Step(g, n + 1)
    BY <2>2
  <2>4. QED
    BY <2>3
<1>3. Bad = {}
  <2>1. SUFFICES ASSUME Bad # {} PROVE FALSE
    OBVIOUS
  <2> HIDE DEF Bad
  <2>2. PICK n \in Bad : \A m \in Bad : n <= m
    <3>1. Bad \subseteq Nat
      BY DEF Bad
    <3>2. QED
      BY <2>1, <3>1, LeastNatural
  <2>3. n \in Nat
    BY DEF Bad
  <2>4. n # 0 /\ n - 1 \in Nat /\ n - 1 \notin Bad
    BY <1>1, <2>2, <2>3
  <2>5. (n - 1) + 1 \notin Bad
    BY <1>2, <2>4
  <2>6. QED
    BY <2>2, <2>3, <2>5
<1>4. PICK f : f = Step(f, N)
  BY <1>3
<1>5. Turns(list, first) = Step(Turns(list, first), N)
  BY <1>4 DEF Turns, start
<1>6. QED
  BY <1>5 DEF start

LEMMA MergeKeeps ==
  ASSUME NEW list, NEW first, NEW live, Heaped(list, first, live)
  PROVE  LET merged == merge_adjacent_free_blocks(list, first)
         IN  Heaped(merged, first, live) /\ Merged(merged)
<1> DEFINE N == Cardinality(DOMAIN list)
           f == Turns(list, first)
           Following(i) == f[i].block[f[i].cb].next
           Good(i) == /\ Walking(f[i], first, live)
                      /\ IsFiniteSet(Ahead(f[i]))
                      /\ Following(i) = NULL \/ Cardinality(Ahead(f[i])) + i + 1 <= N
           Bad == {i \in 0 .. N : ~Good(i)}
<1>1. /\ Linked(list, first) /\ first \in DOMAIN list /\ \A c \in DOMAIN list : first <= c
      /\ DOMAIN list \subseteq Nat
  BY LinkFacts DEF Heaped
<1>2. IsFiniteSet(DOMAIN list) /\ N \in Nat
  <2>1. DOMAIN list \in SUBSET Arena
    BY DEF Heaped, Linked
  <2>2. IsFiniteSet(Arena)
    <3>1. Base \in Int /\ Base + HeapSize - 1 \in Int
      BY ArenaIs
    <3>2. QED
      BY <3>1, FS_Interval DEF Arena
  <2>3. QED
    BY <2>1, <2>2, FS_Subset, FS_CardinalityType
<1>3. /\ f[0] = [block |-> list, cb |-> first]
      /\ \A i \in 1 .. N : f[i] = MergeTurn(f[i - 1])
  BY <1>2, TurnsOneByOne
<1>4. merge_adjacent_free_blocks(list, first) = f[N].block
  BY DEF merge_adjacent_free_blocks
<1> HIDE DEF f, N
<1>5. Good(0)
  <2>1. f[0].block = list /\ f[0].cb = first
    BY <1>3
  <2>2. \A c \in DOMAIN list : ~(c < first)
    BY <1>1
  <2>3. Walking(f[0], first, live)
    BY <1>1, <2>1, <2>2 DEF Walking
  <2>4. Ahead(f[0]) = (DOMAIN list) \ {first}
    BY <1>1, <2>1 DEF Ahead
  <2>5. IsFiniteSet(Ahead(f[0])) /\ Cardinality(Ahead(f[0])) = N - 1
    BY <1>1, <1>2, <2>4, FS_RemoveElement DEF N
  <2>6. QED
    BY <1>2, <2>3, <2>5
<1>6. ASSUME NEW i \in 1 .. N, Good(i - 1) PROVE Good(i)
  <2> DEFINE h == f[i - 1]
             m == Following(i - 1)
  <2>1. f[i] = MergeTurn(h) /\ i - 1 \in Nat /\ i \in Nat
    BY <1>2, <1>3
  <2>2. Walking(h, first, live) /\ IsFiniteSet(Ahead(h))
        /\ (m = NULL \/ Cardinality(Ahead(h)) + (i - 1) + 1 <= N)
    BY <1>6
  <2> HIDE DEF h
  <2>3. Walking(MergeTurn(h), first, live)
    BY <2>2, TurnKeeps
  <2>4. CASE m = NULL
    <3>1. MergeTurn(h) = h
      BY <2>2, <2>4, TurnKeeps DEF h
    <3>2. f[i] = f[i - 1]
      BY <2>1, <3>1 DEF h
    <3>3. QED
      BY <2>2, <2>4, <3>2 DEF h
  <2>5. CASE m # NULL
    <3>1. m \in Ahead(h) /\ Ahead(MergeTurn(h)) = Ahead(h) \ {m}
      BY <2>2, <2>5, TurnKeeps DEF h
    <3>2. /\ IsFiniteSet(Ahead(MergeTurn(h)))
          /\ Cardinality(Ahead(MergeTurn(h))) = Cardinality(Ahead(h)) - 1
          /\ Cardinality(Ahead(h)) \in Nat
      <4> DEFINE A == Ahead(h)
      <4>1. IsFiniteSet(A) /\ m \in A /\ Ahead(MergeTurn(h)) = A \ {m}
        BY <2>2, <3>1
      <4> HIDE DEF A, m
      <4>2. Cardinality(A) \in Nat /\ IsFiniteSet(A \ {m}) /\ Cardinality(A \ {m}) = Cardinality(A) - 1
        BY <4>1, FS_RemoveElement, FS_CardinalityType
      <4>3. QED
        BY <4>1, <4>2 DEF A
    <3>3. Cardinality(Ahead(f[i])) + i + 1 <= N
      <4>1. Cardinality(Ahead(h)) + (i - 1) + 1 <= N
        BY <2>2, <2>5
      <4>2. QED
        BY <1>2, <2>1, <3>2, <4>1
    <3>4. QED
      BY <2>1, <2>3, <3>2, <3>3
  <2>6. QED
    BY <2>4, <2>5
<1> HIDE DEF Good
<1>7. Bad = {}
  <2>1. SUFFICES ASSUME Bad # {} PROVE FALSE
    OBVIOUS
  <2>2. Bad \subseteq Nat /\ \A j \in Bad : j \in 0 .. N /\ ~Good(j)
    BY <1>2
  <2> HIDE DEF Bad
  <2>3. PICK i \in Bad : \A j \in Bad : i <= j
    BY <2>1, <2>2, LeastNatural
  <2>4. i \in 1 .. N /\ i - 1 \in 0 .. N /\ i - 1 \notin Bad
    BY <1>2, <1>5, <2>2, <2>3
  <2>5. Good(i - 1)
    BY <2>4 DEF Bad
  <2>6. QED
    BY <1>6, <2>2, <2>3, <2>4, <2>5
<1>8. Good(N)
  BY <1>2, <1>7
<1> DEFINE h == f[N]
<1>9. Walking(h, first, live) /\ h.block[h.cb].next = NULL
  <2>1. /\ Walking(h, first, live) /\ IsFiniteSet(Ahead(h))
        /\ h.block[h.cb].next = NULL \/ Cardinality(Ahead(h)) + N + 1 <= N
    BY <1>8 DEF Good
  <2>2. Cardinality(Ahead(h)) \in Nat
    BY <2>1, FS_CardinalityType
  <2>3. QED
    BY <1>2, <2>1, <2>2
<1> HIDE DEF h
<1>10. Merged(h.block)
  <2>1. /\ Heaped(h.block, first, live) /\ h.cb \in DOMAIN h.block
        /\ \A b \in DOMAIN h.block : b < h.cb => b + h.block[b].size \notin DOMAIN h.block
    BY <1>9 DEF Walking
  <2>2. /\ DOMAIN h.block \subseteq Nat /\ NULL \notin DOMAIN h.block
        /\ \A c \in DOMAIN h.block : ~(h.cb < c)
        /\ h.block[h.cb].size \in Nat /\ 0 < h.block[h.cb].size
    BY <1>9, <2>1, LinkFacts, ArenaIs DEF Heaped
  <2>3. h.cb + h.block[h.cb].size \notin DOMAIN h.block
    BY <2>1, <2>2
  <2>4. \A b \in DOMAIN h.block : b < h.cb \/ b = h.cb
    BY <2>1, <2>2
  <2>5. QED
    BY <2>1, <2>3, <2>4 DEF Merged
<1>11. QED
  BY <1>4, <1>9, <1>10 DEF Walking, h

(* nmalloc_free keeps the heap whole. *)
LEMMA FreeKeeps ==
  ASSUME HeapInv, NEW new \in DOMAIN data, nmalloc_free(new)
  PROVE  HeapInv'
<1> DEFINE front == new < first_free
           prev == IF front THEN NULL ELSE Predecessor(new)
           next == IF front THEN first_free ELSE block[prev].next
           first == IF front THEN new ELSE first_free
           list == Inserted(new, prev, next)
           live == Restrict(data, (DOMAIN data) \ {new})
<1>1. /\ first_free' = first /\ data' = live /\ result' = result
      /\ block' = merge_adjacent_free_blocks(list, first)
  BY DEF nmalloc_free
<1>2. /\ Heaped(block, first_free, data) /\ Linked(block, first_free)
      /\ result \in Arena \cup {NULL} /\ (DOMAIN block) \cap (DOMAIN data) = {}
  BY DEF HeapInv, Heaped
<1>3. /\ new \in Nat /\ new \notin DOMAIN block
      /\ DOMAIN block \subseteq Nat /\ NULL \notin DOMAIN block
      /\ first_free \in DOMAIN block /\ \A c \in DOMAIN block : first_free <= c
  BY <1>2, LayoutFacts, LinkFacts, ArenaIs
<1> DEFINE Placed == /\ IsPrev(DOMAIN block, new, prev) /\ IsNext(DOMAIN block, new, next)
                     /\ first = IF prev = NULL THEN new ELSE first_free
<1>4. ASSUME front PROVE Placed
  <2>1. prev = NULL /\ next = first_free /\ first = new
    BY <1>4
  <2>2. IsPrev(DOMAIN block, new, prev) /\ IsNext(DOMAIN block, new, next)
    BY <1>3, <1>4, <2>1 DEF IsPrev, IsNext
  <2>3. QED
    BY <2>1, <2>2
<1>5. ASSUME ~front PROVE Placed
  <2>1. prev = Predecessor(new) /\ next = block[prev].next /\ first = first_free
    BY <1>5
  <2>2. first_free < new
    BY <1>3, <1>5
  <2>3. /\ prev \in DOMAIN block /\ prev < new /\ \A c \in DOMAIN block : c <= prev \/ new < c
    BY <1>2, <1>3, <2>1, <2>2, PredecessorIs
  <2> HIDE DEF prev, next, first
  <2>4. IsPrev(DOMAIN block, new, prev) /\ prev # NULL
    BY <1>3, <2>3 DEF IsPrev
  <2>5. /\ next = NULL \/ (next \in DOMAIN block /\ prev < next)
        /\ \A c \in DOMAIN block : prev < c => next \in DOMAIN block /\ next <= c
    BY <1>2, <2>1, <2>3, LinkFacts
  <2>6. IsNext(DOMAIN block, new, next)
    <3>1. next = NULL => \A c \in DOMAIN block : c <= new
      BY <1>3, <2>3, <2>5
    <3>2. next # NULL => new < next /\ \A c \in DOMAIN block : c <= new \/ next <= c
      BY <1>3, <2>3, <2>5
    <3>3. QED
      BY <2>5, <3>1, <3>2 DEF IsNext
  <2>7. QED
    BY <2>1, <2>4, <2>6
<1>6. /\ IsPrev(DOMAIN block, new, prev) /\ IsNext(DOMAIN block, new, next)
      /\ first = IF prev = NULL THEN new ELSE first_free
  BY <1>4, <1>5
<1>7. Heaped(list, first, live)
  BY <1>2, <1>6, InsertKeeps
<1>8. Heaped(block', first_free', data') /\ Merged(block')
  BY <1>1, <1>7, MergeKeeps
<1>9. QED
  BY <1>1, <1>2, <1>8 DEF HeapInv

-----------------------------------------------------------------------------
LEMMA InitialHeap == Init => HeapInv
<1> SUFFICES ASSUME Init PROVE HeapInv
  OBVIOUS
<1> DEFINE head == [prev |-> NULL, next |-> NULL, size |-> HeapSize]
<1>1. /\ first_free = Base /\ block = [b \in {Base} |-> head] /\ data = <<>> /\ result = NULL
  BY DEF Init
<1>2. /\ DOMAIN block = {Base} /\ block[Base] = head /\ DOMAIN data = {}
      /\ data \in [DOMAIN data -> 1 .. HeapSize]
  BY <1>1
<1>3. Base \in Arena /\ head \in Header
  BY ArenaIs DEF Header
<1>4. Linked(block, first_free)
  <2>1. block \in [DOMAIN block -> Header]
    BY <1>1, <1>3
  <2>2. IsNext({Base}, Base, NULL) /\ IsPrev({Base}, Base, NULL)
    BY ArenaIs DEF IsNext, IsPrev
  <2>3. QED
    BY <1>1, <1>2, <1>3, <2>1, <2>2, ArenaIs DEF Linked
<1>5. Layout(block, data) = [a \in {Base} |-> HeapSize]
  <2>1. Layout(block, data) = [a \in {Base} \cup {} |->
                                 IF a \in {Base} THEN block[a].size ELSE data[a]]
    BY <1>2 DEF Layout
  <2>2. block[Base].size = HeapSize
    BY <1>2
  <2>3. QED
    BY <2>1, <2>2
<1>6. Tiled([a \in {Base} |-> HeapSize])
  BY <1>3, ArenaIs DEF Tiled
<1>7. Merged(block)
  BY <1>2, ArenaIs DEF Merged
<1>8. QED
  BY <1>1, <1>2, <1>4, <1>5, <1>6, <1>7 DEF HeapInv, Heaped

LEMMA HeapStep == HeapInv /\ [AlgorithmsNext]_<<others, vars, baud, divisor>> => HeapInv'
<1> SUFFICES ASSUME HeapInv, [AlgorithmsNext]_<<others, vars, baud, divisor>> PROVE HeapInv'
  OBVIOUS
<1>1. CASE Heap
  <2>1. CASE \E size \in Sizes : nmalloc_malloc(size)
    BY <2>1, MallocKeeps
  <2>2. CASE \E b \in DOMAIN data : nmalloc_free(b)
    BY <2>2, FreeKeeps
  <2>3. QED
    BY <1>1, <2>1, <2>2 DEF Heap, Next
<1>2. CASE UNCHANGED vars
  BY <1>2 DEF vars, HeapInv
<1>3. QED
  BY <1>1, <1>2 DEF AlgorithmsNext, Baud, DrawFigure, Tick

(* The free list is sound, the blocks tile the arena, and no two free ones *)
(* touch: what every call of the heap finds and leaves.                    *)
THEOREM HeapIsWhole == AlgorithmsSpec => []HeapInv
<1>1. AlgorithmsInit => HeapInv
  BY InitialHeap DEF AlgorithmsInit
<1>2. QED
  BY <1>1, HeapStep, PTL DEF AlgorithmsSpec

(* Tiling: every byte of the arena belongs to one block, free or handed    *)
(* out, whatever was requested and freed before.                           *)
THEOREM NoByteIsLost == AlgorithmsSpec => []Tiling
BY HeapIsWhole, HeapTiling, PTL

(* ListSound: the free list is in the order of the addresses, linked both  *)
(* ways, and holds every free block.                                       *)
THEOREM FreeListIsSound == AlgorithmsSpec => []ListSound
BY HeapIsWhole, HeapListSound, PTL

(* TypeOK: the headers of the free blocks and the words of the live ones.  *)
THEOREM HeapTypeCorrect == AlgorithmsSpec => []TypeOK
BY HeapIsWhole, HeapTypes, PTL

-----------------------------------------------------------------------------
(* A gap of the abstract allocator lies in one free block: two that touch  *)
(* would have been merged.                                                 *)
LEMMA GapIsInBlock ==
  ASSUME HeapInv, NEW a \in Arena, NEW n \in Nat, 0 < n, Promise!Fits(a, n)
  PROVE  \E b \in DOMAIN block : b <= a /\ a + n <= b + block[b].size
<1> DEFINE size == Layout(block, data)
<1>1. /\ Merged(block) /\ Heaped(block, first_free, data) /\ Tiled(size)
  BY DEF HeapInv, Heaped
<1>2. /\ DOMAIN size = (DOMAIN block) \cup (DOMAIN data)
      /\ \A b \in DOMAIN block : size[b] = block[b].size
      /\ \A b \in DOMAIN data : b \notin DOMAIN block /\ size[b] = data[b]
  BY <1>1 DEF Layout, Heaped
<1> HIDE DEF size
<1>3. /\ DOMAIN size \subseteq Arena
      /\ \A b \in DOMAIN size : b \in Nat /\ size[b] \in Nat /\ 0 < size[b]
      /\ \A b, c \in DOMAIN size : b < c => b + size[b] <= c
      /\ \A x \in Arena : \E b \in DOMAIN size : b <= x /\ x < b + size[b]
  BY <1>1, ArenaIs DEF Tiled
<1>4. \A x \in Nat : a <= x /\ x < a + n =>
        /\ x \in Arena
        /\ \A b \in DOMAIN data : ~(b <= x /\ x < b + data[b])
  <2> SUFFICES ASSUME NEW x \in Nat, a <= x, x < a + n
               PROVE  x \in Arena /\ \A b \in DOMAIN data : ~(b <= x /\ x < b + data[b])
    OBVIOUS
  <2>1. a \in Nat
    BY ArenaIs
  <2>2. x \in a .. a + n - 1
    BY <2>1
  <2>3. x \in Arena /\ x \notin Promise!Occupied
    BY <2>2 DEF Promise!Fits, Promise!Extent
  <2>4. ASSUME NEW b \in DOMAIN data, b <= x, x < b + data[b] PROVE FALSE
    <3>1. b \in Nat /\ data[b] \in Nat
      BY <1>2, <1>3
    <3>2. x \in Promise!Extent(b, data[b])
      BY <2>4, <3>1 DEF Promise!Extent
    <3>3. QED
      BY <2>3, <3>2 DEF Promise!Occupied
  <2>5. QED
    BY <2>3, <2>4
<1>5. ASSUME NEW x \in Nat, a <= x, x < a + n
      PROVE  \E b \in DOMAIN block : b <= x /\ x < b + block[b].size
  <2>1. PICK b \in DOMAIN size : b <= x /\ x < b + size[b]
    BY <1>3, <1>4, <1>5
  <2>2. b \notin DOMAIN data
    BY <1>2, <1>4, <1>5, <2>1
  <2>3. QED
    BY <1>2, <2>1, <2>2
<1>6. a \in Nat /\ a < a + n
  BY ArenaIs
<1>7. PICK b \in DOMAIN block : b <= a /\ a < b + block[b].size
  BY <1>5, <1>6
<1>8. b \in Nat /\ block[b].size \in Nat /\ b \in DOMAIN size /\ size[b] = block[b].size
  BY <1>2, <1>3
<1>9. ASSUME ~(a + n <= b + block[b].size) PROVE FALSE
  <2> DEFINE x == b + block[b].size
  <2>1. x \in Nat /\ a <= x /\ x < a + n /\ b < x
    BY <1>6, <1>7, <1>8, <1>9
  <2> HIDE DEF x
  <2>2. PICK c \in DOMAIN block : c <= x /\ x < c + block[c].size
    BY <1>5, <2>1
  <2>3. c \in Nat /\ c \in DOMAIN size /\ size[c] = block[c].size /\ block[c].size \in Nat
    BY <1>2, <1>3, <2>2
  <2>4. c # b
    BY <2>2 , <2>1, <2>3 DEF x
  <2>5. c < b => c + block[c].size <= b
    BY <1>3, <1>8, <2>3
  <2>6. b < c
    BY <1>8, <2>1, <2>2, <2>3, <2>4, <2>5
  <2>7. x <= c
    BY <1>3, <1>8, <2>3, <2>6 DEF x
  <2>8. x = c
    BY <2>1, <2>2, <2>3, <2>7
  <2>9. QED
    BY <1>1, <2>2, <2>8 DEF Merged, x
<1>10. QED
  BY <1>7, <1>9

LEMMA BlockIsGap ==
  ASSUME HeapInv, NEW b \in DOMAIN block, NEW n \in Nat, 0 < n, n <= block[b].size
  PROVE  b \in Arena /\ Promise!Fits(b, n)
<1>1. Heaped(block, first_free, data) /\ Linked(block, first_free)
  BY DEF HeapInv, Heaped
<1>2. /\ b \in Arena /\ b \in Nat /\ Base <= b /\ block[b].size \in Nat
      /\ b + block[b].size <= Base + HeapSize
      /\ \A c \in DOMAIN data : b # c /\ (b < c => b + block[b].size <= c)
      /\ \A c \in DOMAIN data :
           /\ c \in Nat /\ data[c] \in Nat /\ (c < b => c + data[c] <= b)
  BY <1>1, LayoutFacts, LinkFacts, ArenaIs
<1>3. ASSUME NEW x \in b .. b + n - 1 PROVE x \in Arena \ Promise!Occupied
  <2>1. x \in Nat /\ b <= x /\ x < b + block[b].size
    BY <1>2, <1>3
  <2>2. x \in Arena
    BY <1>2, <2>1, ArenaIs
  <2>3. ASSUME NEW c \in DOMAIN data, x \in c .. c + data[c] - 1 PROVE FALSE
    <3>1. c <= x /\ x < c + data[c] /\ c \in Nat /\ data[c] \in Nat
      BY <1>2, <2>3
    <3>2. c < b \/ b < c
      BY <1>2, <3>1
    <3>3. (b < c => b + block[b].size <= c) /\ (c < b => c + data[c] <= b)
      BY <1>2
    <3>4. QED
      BY <1>2, <2>1, <3>1, <3>2, <3>3
  <2>4. QED
    BY <2>2, <2>3 DEF Promise!Occupied, Promise!Extent
<1>4. QED
  BY <1>2, <1>3 DEF Promise!Fits, Promise!Extent

(* A request gets the lowest place that holds it, and fails only if there  *)
(* is none.                                                                *)
LEMMA MallocRefines ==
  ASSUME HeapInv, NEW req \in Sizes, nmalloc_malloc(req)
  PROVE  Promise!Malloc(req)
<1> DEFINE c == Find(Needed(req))
           n == DataSize(req)
           need == Needed(req)
           places == {a \in Arena : Promise!Fits(a, need)}
<1>1. Heaped(block, first_free, data) /\ Linked(block, first_free)
  BY DEF HeapInv, Heaped
<1>2. /\ n \in Nat /\ need \in Nat /\ 0 < n /\ n < need /\ 0 < need
      /\ WORD + req <= n
  BY DataSizeIs
<1>3. /\ c \in DOMAIN block
      /\ block[c].next = NULL \/ block[c].size >= need
      /\ \A b \in DOMAIN block : b < c => block[b].size < need
  BY <1>1, <1>2, FindIs
<1>4. /\ DOMAIN block \subseteq Nat /\ DOMAIN block \subseteq Arena
      /\ \A b \in DOMAIN block : block[b].size \in Nat
      /\ block[c].next = NULL => \A b \in DOMAIN block : ~(c < b)
  <2>1. block[c].next = NULL => \A b \in DOMAIN block : ~(c < b)
    BY <1>1, <1>3, LinkFacts
  <2>2. QED
    BY <1>1, <2>1, LinkFacts
<1> HIDE DEF c, n, need
<1>5. ASSUME NEW a \in places
      PROVE  \E b \in DOMAIN block : b <= a /\ block[b].size >= need
  <2>1. a \in Arena /\ Promise!Fits(a, need) /\ a \in Nat
    BY ArenaIs
  <2>2. PICK b \in DOMAIN block : b <= a /\ a + need <= b + block[b].size
    BY <1>2, <2>1, GapIsInBlock
  <2>3. b \in Nat /\ block[b].size \in Nat
    BY <1>4
  <2>4. QED
    BY <1>2, <2>1, <2>2, <2>3
<1>6. CASE block[c].size < need
  <2>1. result' = NULL /\ UNCHANGED data
    BY <1>6 DEF nmalloc_malloc, c, need
  <2>2. \A b \in DOMAIN block : block[b].size < need
    <3>1. \A b \in DOMAIN block : b < c \/ b = c
      BY <1>2, <1>3, <1>4, <1>6
    <3>2. QED
      BY <1>3, <1>6, <3>1
  <2>3. places = {}
    <3>1. SUFFICES ASSUME NEW a \in places PROVE FALSE
      OBVIOUS
    <3>2. PICK b \in DOMAIN block : b <= a /\ block[b].size >= need
      BY <1>5
    <3>3. QED
      BY <1>2, <1>4, <2>2, <3>2
  <2>4. QED
    BY <2>1, <2>3 DEF Promise!Malloc, need
<1>7. CASE ~(block[c].size < need)
  <2>1. result' = c /\ data' = [b \in (DOMAIN data) \cup {c} |-> IF b = c THEN n ELSE data[b]]
    BY <1>7 DEF nmalloc_malloc, c, need, n
  <2>2. need <= block[c].size
    BY <1>2, <1>3, <1>4, <1>7
  <2>3. c \in places
    BY <1>2, <1>3, <2>2, BlockIsGap
  <2>4. ASSUME NEW a \in places PROVE c <= a
    <3>1. PICK b \in DOMAIN block : b <= a /\ block[b].size >= need
      BY <1>5
    <3>2. b \in Nat /\ block[b].size \in Nat /\ c \in Nat /\ a \in Nat
      BY <1>3, <1>4, ArenaIs
    <3>3. ~(b < c)
      BY <1>2, <1>3, <3>1, <3>2
    <3>4. QED
      BY <3>1, <3>2, <3>3
  <2>5. Min(places) = c
    <3>1. places \subseteq Nat
      BY ArenaIs
    <3> HIDE DEF places
    <3>2. QED
      BY <2>3, <2>4, <3>1, MinIs
  <2>6. n \in 1 .. need /\ n >= req + WORD
    <3>1. req \in Nat /\ WORD \in Nat
      BY HeapAssumption
    <3>2. QED
      BY <1>2, <3>1
  <2>7. /\ places # {} /\ result' = Min(places)
        /\ \E k \in 1 .. need :
             /\ k >= req + WORD
             /\ data' = [a \in (DOMAIN data) \cup {result'} |-> IF a = result' THEN k ELSE data[a]]
    <3> HIDE DEF places
    <3>1. QED
      BY <2>1, <2>3, <2>5, <2>6
  <2>8. Promise!Malloc(req) <=>
          IF places = {} THEN result' = NULL /\ UNCHANGED data
          ELSE /\ result' = Min(places)
               /\ \E k \in 1 .. need :
                    /\ k >= req + WORD
                    /\ data' = [a \in (DOMAIN data) \cup {result'} |->
                                  IF a = result' THEN k ELSE data[a]]
    BY Zenon DEF Promise!Malloc, Promise!Min, Min, need
  <2>9. QED
    <3> HIDE DEF places
    <3>1. QED
      BY <2>7, <2>8, Zenon
<1>8. QED
  BY <1>6, <1>7

LEMMA FreeRefines ==
  ASSUME NEW b \in DOMAIN data, nmalloc_free(b)
  PROVE  Promise!Free(b)
BY DEF nmalloc_free, Restrict, Promise!Free

LEMMA AllocatorStep ==
  HeapInv /\ [AlgorithmsNext]_<<others, vars, baud, divisor>> => [Promise!Next]_Promise!vars
<1> SUFFICES ASSUME HeapInv, [AlgorithmsNext]_<<others, vars, baud, divisor>>
             PROVE  [Promise!Next]_Promise!vars
  OBVIOUS
<1>1. CASE Heap
  <2>1. CASE \E size \in Sizes : nmalloc_malloc(size)
    BY <2>1, MallocRefines DEF Promise!Next
  <2>2. CASE \E b \in DOMAIN data : nmalloc_free(b)
    BY <2>2, FreeRefines DEF Promise!Next
  <2>3. QED
    BY <1>1, <2>1, <2>2 DEF Heap, Next
<1>2. CASE UNCHANGED vars
  BY <1>2 DEF vars, Promise!vars
<1>3. QED
  BY <1>1, <1>2 DEF AlgorithmsNext, Baud, DrawFigure, Tick

(* ImplementsAllocator: the free list keeps every promise of the allocator *)
(* that searches the memory itself.                                        *)
THEOREM HeapImplementsAllocator == AlgorithmsSpec => ImplementsAllocator
<1>1. AlgorithmsInit => Promise!Init
  BY DEF AlgorithmsInit, Init, Promise!Init
<1>2. QED
  BY <1>1, HeapIsWhole, AllocatorStep, PTL DEF AlgorithmsSpec, ImplementsAllocator, Promise!Spec

-----------------------------------------------------------------------------
(* The clock of the timers, for every width and slack. *)
LEMMA Wraps ==
  ASSUME NEW p \in Nat, p > 0, NEW r \in 0 .. p - 1
  PROVE  r % p = r /\ (r + p) % p = r /\ (r - p) % p = r
<1>1. r % p = r
  OBVIOUS
<1>2. (r + p) % p = r
  OBVIOUS
<1>3. (r - p) % p = r
  OBVIOUS
<1>4. QED
  BY <1>1, <1>2, <1>3

LEMMA DueIsInTime ==
  ASSUME NEW last \in 0 .. Period - 1, NEW elapsed \in -Slack .. Period - Slack - 1,
         NEW interval \in 0 .. Period - Slack - 1
  PROVE  DueInTime(last, elapsed, interval)
<1> DEFINE now == After(last, elapsed)
<1>1. Period \in Nat /\ Period > 0 /\ Slack \in Nat /\ Slack < Period
  BY ClockAssumption
<1>2. SUFFICES ASSUME ~(last + elapsed < 0)
               PROVE  Due(now, last, interval) <=> elapsed > interval
  BY DEF DueInTime
<1>3. last \in Nat /\ elapsed \in Int /\ interval \in Nat /\ last + elapsed \in Nat
  BY <1>1, <1>2
<1>4. CASE elapsed < 0
  <2>1. now = last + elapsed
    <3>1. last + elapsed \in 0 .. Period - 1
      BY <1>1, <1>3, <1>4
    <3>2. QED
      BY <1>1, <3>1, Wraps DEF After
  <2>2. now \in Nat /\ now < last /\ ~(last - now > Slack)
    BY <1>1, <1>3, <1>4, <2>1
  <2> HIDE DEF now
  <2>3. ~(now > last)
    BY <1>3, <2>2
  <2>4. QED
    BY <1>3, <1>4, <2>2, <2>3 DEF Due
<1>5. CASE elapsed >= 0
  <2>1. elapsed \in 0 .. Period - 1
    BY <1>1, <1>3, <1>5
  <2>2. CASE last + elapsed < Period
    <3>1. now = last + elapsed
      <4>1. last + elapsed \in 0 .. Period - 1
        BY <1>1, <1>3, <2>2
      <4>2. QED
        BY <1>1, <4>1, Wraps DEF After
    <3>2. now \in Nat /\ now - last = elapsed /\ (elapsed > 0 => now > last)
      BY <1>3, <3>1
    <3>3. (now - last) % Period = elapsed
      BY <1>1, <2>1, <3>2, Wraps
    <3> HIDE DEF now
    <3>4. elapsed > interval => elapsed > 0
      BY <1>3
    <3>5. QED
      BY <3>2, <3>3, <3>4 DEF Due
  <2>3. CASE ~(last + elapsed < Period)
    <3> DEFINE r == last + elapsed - Period
    <3>1. r \in 0 .. Period - 1 /\ last + elapsed = r + Period
      BY <1>1, <1>3, <2>1, <2>3
    <3>2. now = r
      BY <1>1, <3>1, Wraps DEF After
    <3>3. now \in Nat /\ now < last /\ last - now > Slack /\ now - last = elapsed - Period
      BY <1>1, <1>3, <2>1, <3>1, <3>2
    <3>4. (now - last) % Period = elapsed
      BY <1>1, <2>1, <3>3, Wraps
    <3> HIDE DEF now
    <3>5. QED
      BY <3>3, <3>4 DEF Due
  <2>4. QED
    BY <2>2, <2>3
<1>6. QED
  BY <1>3, <1>4, <1>5

ClockInv ==
  \/ clock = NoClock
  \/ clock \in [last : 0 .. Period - 1, elapsed : -Slack .. Period - Slack - 1,
                interval : 0 .. Period - Slack - 1]

(* TimersInTime: a timer is due when its interval has passed and not       *)
(* before, for every width of the clock and every slack below it.          *)
THEOREM TimersAreInTime == AlgorithmsSpec => []TimersInTime
<1>1. AlgorithmsInit => ClockInv
  BY DEF AlgorithmsInit, ClockInv
<1>2. ClockInv /\ [AlgorithmsNext]_<<others, vars, baud, divisor>> => ClockInv'
  <2> SUFFICES ASSUME ClockInv, [AlgorithmsNext]_<<others, vars, baud, divisor>> PROVE ClockInv'
    OBVIOUS
  <2>1. CASE Tick
    BY <2>1 DEF Tick, ClockInv
  <2>2. CASE UNCHANGED clock
    BY <2>2 DEF ClockInv
  <2>3. QED
    BY <2>1, <2>2 DEF AlgorithmsNext, Heap, Baud, DrawFigure, others
<1>3. ClockInv => TimersInTime
  <2> SUFFICES ASSUME ClockInv PROVE TimersInTime
    OBVIOUS
  <2>1. CASE clock = NoClock
    <3>1. clock.last = 0 /\ clock.elapsed = 0 /\ clock.interval = 0
      BY <2>1 DEF NoClock
    <3>2. 0 \in 0 .. Period - 1 /\ 0 \in -Slack .. Period - Slack - 1 /\ 0 \in 0 .. Period - Slack - 1
      BY ClockAssumption
    <3>3. QED
      BY <3>1, <3>2, DueIsInTime DEF TimersInTime
  <2>2. CASE clock # NoClock
    <3>1. /\ clock.last \in 0 .. Period - 1 /\ clock.elapsed \in -Slack .. Period - Slack - 1
          /\ clock.interval \in 0 .. Period - Slack - 1
      BY <2>2 DEF ClockInv
    <3>2. QED
      BY <3>1, DueIsInTime DEF TimersInTime
  <2>3. QED
    BY <2>1, <2>2
<1>4. QED
  BY <1>1, <1>2, <1>3, PTL DEF AlgorithmsSpec
-----------------------------------------------------------------------------
(* The lines of GSX, for every screen.  Sideways keeps the error between 0 *)
(* and n, and with it how far the line should have come.                   *)
LEMMA Multiples ==
  ASSUME NEW n \in Nat, n > 0, NEW a \in Int, NEW b \in Int
  PROVE  /\ a * n \in Int /\ (a + 1) * n = a * n + n /\ (a - 1) * n = a * n - n
         /\ a < b => a * n + n <= b * n
<1>1. a * n \in Int /\ (a + 1) * n = a * n + n /\ (a - 1) * n = a * n - n
  OBVIOUS
<1>2. ASSUME a < b PROVE a * n + n <= b * n
  <2>1. b - a - 1 \in Nat /\ (b - a - 1) * n >= 0
    BY <1>2
  <2>2. (b - a - 1) * n = b * n - a * n - n
    OBVIOUS
  <2>3. a * n \in Int /\ b * n \in Int
    OBVIOUS
  <2>4. QED
    BY <2>1, <2>2, <2>3
<1>3. QED
  BY <1>1, <1>2

(* Two multiples of n that are less than n apart are one. *)
LEMMA Nearby ==
  ASSUME NEW n \in Nat, n > 0, NEW a \in Int, NEW b \in Int, NEW c \in Int,
         a * n + c \in 0 .. n - 1, b * n + c \in 0 .. n - 1
  PROVE  a = b
<1>1. a * n \in Int /\ b * n \in Int
  BY Multiples
<1>2. /\ a < b => a * n + n <= b * n
      /\ b < a => b * n + n <= a * n
  BY Multiples
<1>3. ~(a < b) /\ ~(b < a)
  BY <1>1, <1>2
<1>4. QED
  BY <1>3

LEMMA Halves ==
  ASSUME NEW n \in Nat
  PROVE  /\ n \div 2 \in Nat /\ 2 * (n \div 2) <= n /\ n <= 2 * (n \div 2) + 1
         /\ n > 0 => n \div 2 < n
OBVIOUS

(* One step along the longer side. *)
Along(n, m, s) ==
  IF s.error - m < 0 THEN [error |-> s.error - m + n, aside |-> s.aside + 1]
                     ELSE [error |-> s.error - m, aside |-> s.aside]

Walked(n, m, at) ==
  at = [i \in 0 .. n |-> IF i = 0 THEN [error |-> n \div 2, aside |-> 0]
                         ELSE Along(n, m, at[i - 1])]

(* After i steps the line is s to the side and the error is e. *)
Drift(n, m, i, e, s) ==
  /\ s \in Nat /\ e \in 0 .. n - 1
  /\ s * n = i * m - n \div 2 + e

LEMMA DriftGoesOn ==
  ASSUME NEW n \in Nat, NEW m \in 0 .. n, NEW i \in Nat, NEW s, Drift(n, m, i, s.error, s.aside)
  PROVE  Drift(n, m, i + 1, Along(n, m, s).error, Along(n, m, s).aside)
<1>1. PICK e, a, h : e = s.error /\ a = s.aside /\ h = n \div 2
  OBVIOUS
<1>2. a \in Nat /\ e \in 0 .. n - 1 /\ a * n = i * m - h + e /\ n > 0 /\ h \in Nat
  BY <1>1, Halves DEF Drift
<1>3. PICK p, q : p = i * m /\ q = a * n
  OBVIOUS
<1>4. p \in Int /\ q \in Int /\ (i + 1) * m = p + m /\ (a + 1) * n = q + n
  BY <1>2, <1>3
<1>5. q = p - h + e
  BY <1>2, <1>3
<1>6. CASE e - m < 0
  <2>1. Along(n, m, s) = [error |-> e - m + n, aside |-> a + 1]
    BY <1>1, <1>6 DEF Along
  <2>2. e - m + n \in 0 .. n - 1 /\ a + 1 \in Nat
    BY <1>2, <1>6
  <2>3. (a + 1) * n = (i + 1) * m - h + (e - m + n)
    BY <1>2, <1>4, <1>5
  <2>4. QED
    BY <1>1, <2>1, <2>2, <2>3 DEF Drift
<1>7. CASE ~(e - m < 0)
  <2>1. Along(n, m, s) = [error |-> e - m, aside |-> a]
    BY <1>1, <1>7 DEF Along
  <2>2. e - m \in 0 .. n - 1
    BY <1>2, <1>7
  <2>3. a * n = (i + 1) * m - h + (e - m)
    BY <1>2, <1>3, <1>4, <1>5
  <2>4. QED
    BY <1>1, <1>2, <2>1, <2>2, <2>3 DEF Drift
<1>8. QED
  BY <1>6, <1>7

LEMMA DriftStarts ==
  ASSUME NEW n \in Nat, n > 0, NEW m \in 0 .. n
  PROVE  Drift(n, m, 0, n \div 2, 0)
<1>1. n \div 2 \in 0 .. n - 1
  BY Halves
<1>2. 0 * n = 0 /\ 0 * m = 0
  OBVIOUS
<1>3. QED
  BY <1>1, <1>2 DEF Drift

LEMMA DriftIsOne ==
  ASSUME NEW n \in Nat, NEW m \in 0 .. n, NEW i \in Nat, NEW e, NEW s, NEW f, NEW t,
         Drift(n, m, i, e, s), Drift(n, m, i, f, t)
  PROVE  e = f /\ s = t
<1>1. PICK p, q, r, h : p = i * m /\ q = s * n /\ r = t * n /\ h = n \div 2
  OBVIOUS
<1>2. /\ s \in Nat /\ t \in Nat /\ n > 0 /\ e \in 0 .. n - 1 /\ f \in 0 .. n - 1
      /\ q = p - h + e /\ r = p - h + f /\ p \in Int /\ h \in Int
  BY <1>1, Halves DEF Drift
<1>3. s * n + (h - p) \in 0 .. n - 1 /\ t * n + (h - p) \in 0 .. n - 1 /\ h - p \in Int
  BY <1>1, <1>2
<1>4. s = t
  BY <1>2, <1>3, Nearby
<1>5. QED
  BY <1>1, <1>2, <1>4

(* Where the line is after i steps can be computed at once, ... *)
LEMMA DriftIs ==
  ASSUME NEW n \in Nat, n > 0, NEW m \in 0 .. n, NEW i \in Nat
  PROVE  LET x == i * m - n \div 2 + n - 1
         IN  Drift(n, m, i, n - 1 - (x % n), x \div n)
<1>1. PICK p, h : p = i * m /\ h = n \div 2
  OBVIOUS
<1>2. p \in Nat /\ h \in Nat /\ h <= n - 1
  BY <1>1, Halves
<1> DEFINE x == p - h + n - 1
           q == x \div n
           r == x % n
<1>3. x \in Nat
  BY <1>2
<1>4. q \in Nat /\ r \in 0 .. n - 1 /\ x = q * n + r
  <2> HIDE DEF x
  <2>1. QED
    BY <1>3
<1> HIDE DEF q, r
<1>5. PICK t : t = q * n
  OBVIOUS
<1>6. t \in Int /\ t = p - h + (n - 1 - r) /\ n - 1 - r \in 0 .. n - 1
  BY <1>2, <1>4, <1>5
<1>7. Drift(n, m, i, n - 1 - r, q)
  BY <1>1, <1>4, <1>5, <1>6 DEF Drift
<1>8. QED
  BY <1>1, <1>7 DEF q, r

(* ... and that is a walk.  *)
LEMMA WalkExists ==
  ASSUME NEW n \in Nat, NEW m \in 0 .. n
  PROVE  \E at : Walked(n, m, at)
<1>1. CASE n = 0
  <2> DEFINE at == [i \in 0 .. n |-> [error |-> n \div 2, aside |-> 0]]
  <2>1. \A i \in 0 .. n : i = 0
    BY <1>1
  <2>2. Walked(n, m, at)
    BY <2>1 DEF Walked
  <2>3. QED
    BY <2>2
<1>2. CASE n > 0
  <2> DEFINE x(i) == i * m - n \div 2 + n - 1
             f(i) == [error |-> n - 1 - (x(i) % n), aside |-> x(i) \div n]
             at == [i \in 0 .. n |-> f(i)]
  <2>1. ASSUME NEW i \in Nat PROVE Drift(n, m, i, f(i).error, f(i).aside)
    BY <1>2, DriftIs
  <2>2. ASSUME NEW i \in Nat PROVE f(i) = [error |-> f(i).error, aside |-> f(i).aside]
    OBVIOUS
  <2> HIDE DEF f
  <2>3. f(0) = [error |-> n \div 2, aside |-> 0]
    <3>1. f(0).error = n \div 2 /\ f(0).aside = 0
      BY <1>2, <2>1, DriftStarts, DriftIsOne
    <3>2. QED
      BY <2>2, <3>1
  <2>4. ASSUME NEW i \in 1 .. n PROVE f(i) = Along(n, m, f(i - 1))
    <3>1. i - 1 \in Nat /\ i \in Nat /\ (i - 1) + 1 = i
      OBVIOUS
    <3>2. PICK s : s = f(i - 1)
      OBVIOUS
    <3>3. Drift(n, m, i - 1, s.error, s.aside)
      BY <2>1, <3>1, <3>2
    <3>4. Drift(n, m, i, Along(n, m, s).error, Along(n, m, s).aside)
      BY <3>1, <3>3, DriftGoesOn
    <3>5. f(i).error = Along(n, m, s).error /\ f(i).aside = Along(n, m, s).aside
      BY <2>1, <3>1, <3>4, DriftIsOne
    <3>6. Along(n, m, s) = [error |-> Along(n, m, s).error, aside |-> Along(n, m, s).aside]
      BY DEF Along
    <3>7. f(i) = [error |-> f(i).error, aside |-> f(i).aside]
      BY <2>2, <3>1
    <3>8. f(i) = Along(n, m, s)
      BY <3>5, <3>6, <3>7
    <3>9. QED
      BY <3>2, <3>8
  <2>5. ASSUME NEW i \in 0 .. n
        PROVE  at[i] = IF i = 0 THEN [error |-> n \div 2, aside |-> 0] ELSE Along(n, m, at[i - 1])
    <3>1. CASE i = 0
      BY <2>3, <3>1
    <3>2. CASE i # 0
      <4>1. i \in 1 .. n /\ i - 1 \in 0 .. n
        BY <3>2
      <4>2. at[i - 1] = f(i - 1) /\ at[i] = f(i)
        BY <4>1
      <4>3. QED
        BY <2>4, <3>2, <4>1, <4>2
    <3>3. QED
      BY <3>1, <3>2
  <2>6. at = [i \in 0 .. n |-> at[i]]
    OBVIOUS
  <2> HIDE DEF at
  <2>7. Walked(n, m, at)
    BY <2>5, <2>6 DEF Walked
  <2>8. QED
    BY <2>7
<1>3. QED
  BY <1>1, <1>2

(* Every walk drifts like that: the first step at which it would not is    *)
(* one step from where it does.                                            *)
LEMMA WalkDrifts ==
  ASSUME NEW n \in Nat, n > 0, NEW m \in 0 .. n, NEW at, Walked(n, m, at)
  PROVE  \A i \in 0 .. n : Drift(n, m, i, at[i].error, at[i].aside)
<1> DEFINE Bad == {i \in 0 .. n : ~Drift(n, m, i, at[i].error, at[i].aside)}
<1>1. SUFFICES ASSUME Bad # {} PROVE FALSE
  OBVIOUS
<1>2. PICK i \in Bad : \A j \in Bad : i <= j
  <2>1. Bad \subseteq Nat
    OBVIOUS
  <2> HIDE DEF Bad
  <2>2. QED
    BY <1>1, <2>1, LeastNatural
<1>3. i \in 0 .. n /\ ~Drift(n, m, i, at[i].error, at[i].aside)
  OBVIOUS
<1>4. i # 0
  <2>1. at[0] = [error |-> n \div 2, aside |-> 0]
    BY DEF Walked
  <2>2. Drift(n, m, 0, at[0].error, at[0].aside)
    BY <2>1, DriftStarts
  <2>3. QED
    BY <1>3, <2>2
<1>5. i - 1 \in 0 .. n /\ i - 1 \in Nat /\ (i - 1) + 1 = i /\ i - 1 \notin Bad
  <2>1. i - 1 \in 0 .. n /\ i - 1 \in Nat /\ (i - 1) + 1 = i /\ ~(i <= i - 1)
    BY <1>3, <1>4
  <2> HIDE DEF Bad
  <2>2. QED
    BY <1>2, <2>1
<1>6. PICK s : s = at[i - 1]
  OBVIOUS
<1>7. Drift(n, m, i - 1, s.error, s.aside)
  BY <1>5, <1>6
<1>8. at[i] = Along(n, m, s)
  BY <1>3, <1>4, <1>6 DEF Walked
<1>9. Drift(n, m, i, at[i].error, at[i].aside)
  BY <1>5, <1>7, <1>8, DriftGoesOn
<1>10. QED
  BY <1>3, <1>9

(* A line of n steps that is to come m to the side starts at its first end *)
(* and arrives at its second, and is never more than half a pixel off.     *)
LEMMA SidewaysIs ==
  ASSUME NEW n \in Nat, NEW m \in 0 .. n
  PROVE  LET s == Sideways(n, m)
         IN  /\ DOMAIN s = 0 .. n /\ s[0] = 0 /\ s[n] = m
             /\ \A i \in 0 .. n : /\ s[i] \in 0 .. m
                                  /\ -n <= 2 * (i * m - s[i] * n)
                                  /\ 2 * (i * m - s[i] * n) <= n
<1> DEFINE at == CHOOSE f : Walked(n, m, f)
           s == [i \in 0 .. n |-> at[i].aside]
<1>1. Walked(n, m, at)
  BY WalkExists
<1>2. Sideways(n, m) = s
  BY DEF Sideways, Walked, Along
<1> HIDE DEF at
<1>3. at[0] = [error |-> n \div 2, aside |-> 0]
  BY <1>1 DEF Walked
<1>4. DOMAIN s = 0 .. n /\ s[0] = 0
  BY <1>3
<1>5. CASE n = 0
  <2>1. m = 0 /\ \A i \in 0 .. n : i = 0 /\ s[i] = 0
    BY <1>4, <1>5
  <2> HIDE DEF s
  <2>2. QED
    BY <1>2, <1>4, <1>5, <2>1
<1>6. CASE n > 0
  <2>1. ASSUME NEW i \in 0 .. n
        PROVE  /\ Drift(n, m, i, at[i].error, at[i].aside) /\ s[i] = at[i].aside
    BY <1>1, <1>6, WalkDrifts
  <2> HIDE DEF s
  <2>2. ASSUME NEW i \in 0 .. n
        PROVE  /\ s[i] \in Nat /\ s[i] <= m
               /\ -n <= 2 * (i * m - s[i] * n) /\ 2 * (i * m - s[i] * n) <= n
               /\ i = n => s[i] = m
    <3>1. PICK a, e, h, p, q : /\ a = s[i] /\ e = at[i].error /\ h = n \div 2
                               /\ p = i * m /\ q = a * n
      OBVIOUS
    <3>2. /\ a \in Nat /\ e \in 0 .. n - 1 /\ q = p - h + e /\ h \in Nat /\ 2 * h <= n
          /\ n <= 2 * h + 1 /\ p \in Int
      BY <2>1, <3>1, Halves DEF Drift
    <3>3. -n <= 2 * (p - q) /\ 2 * (p - q) <= n
      BY <3>2
    <3>4. p <= m * n /\ (i = n => p = m * n) /\ m * n \in Int
      <4>1. m \in Int /\ i \in Int /\ n \in Int
        OBVIOUS
      <4>2. i < n => i * m + m <= n * m
        <5>1. CASE m = 0
          BY <5>1
        <5>2. CASE m > 0
          BY <5>2, Multiples
        <5>3. QED
          BY <5>1, <5>2
      <4>3. n * m = m * n /\ m * n \in Int
        BY <4>1
      <4>4. QED
        BY <3>1, <4>2, <4>3
    <3>5. ~(m < a)
      <4>1. m < a => m * n + n <= a * n
        BY <1>6, <3>2, Multiples
      <4>2. QED
        BY <3>1, <3>2, <3>4, <4>1
    <3>6. i = n => ~(a < m)
      <4>1. a < m => a * n + n <= m * n
        BY <1>6, <3>2, Multiples
      <4>2. QED
        BY <3>1, <3>2, <3>4, <4>1
    <3>7. a \in Nat /\ a <= m /\ (i = n => a = m)
      BY <3>2, <3>5, <3>6
    <3>8. -n <= 2 * (i * m - s[i] * n) /\ 2 * (i * m - s[i] * n) <= n
      BY <3>1, <3>3, ZenonT(60)
    <3>9. s[i] \in Nat /\ s[i] <= m /\ (i = n => s[i] = m)
      BY <3>1, <3>7, ZenonT(60)
    <3>10. QED
      BY <3>8, <3>9, ZenonT(60)
  <2>3. n \in 0 .. n
    OBVIOUS
  <2>4. s[n] = m
    BY <2>2, <2>3, ZenonT(60)
  <2>5. ASSUME NEW i \in 0 .. n PROVE s[i] \in 0 .. m
    BY <2>2
  <2>6. QED
    BY <1>2, <1>4, <2>2, <2>4, <2>5, ZenonT(60)
<1>7. QED
  BY <1>5, <1>6

LEMMA AbsIs ==
  ASSUME NEW n \in Int
  PROVE  AbsOf(n) \in Nat /\ (n >= 0 => AbsOf(n) = n) /\ (n <= 0 => AbsOf(n) = -n)
BY DEF AbsOf

(* The line from u, v along u, the longer side, in either orientation. *)
At(steep, u, v) == IF steep THEN <<v, u>> ELSE <<u, v>>
Beside(u0, v0, u1, v1, i) ==
  v0 + (IF v0 < v1 THEN 1 ELSE -1) * Sideways(u1 - u0, AbsOf(v1 - v0))[i]
Strip(steep, u0, v0, u1, v1) ==
  {At(steep, u0 + i, Beside(u0, v0, u1, v1, i)) : i \in 0 .. u1 - u0}

(* Ends in order, and the first coordinate of a strip the longer side. *)
Flat(u0, v0, u1, v1) ==
  u0 \in Int /\ v0 \in Int /\ u1 \in Int /\ v1 \in Int /\ u0 <= u1 /\ AbsOf(v1 - v0) <= u1 - u0

LEMMA BesideIs ==
  ASSUME NEW u0, NEW v0, NEW u1, NEW v1, Flat(u0, v0, u1, v1)
  PROVE  /\ Beside(u0, v0, u1, v1, 0) = v0 /\ Beside(u0, v0, u1, v1, u1 - u0) = v1
         /\ \A i \in 0 .. u1 - u0 :
              LET v == Beside(u0, v0, u1, v1, i)
              IN  /\ v \in Int
                  /\ v0 <= v1 => v \in v0 .. v1
                  /\ v1 <= v0 => v \in v1 .. v0
                  /\ 2 * AbsOf(i * (v1 - v0) - (v - v0) * (u1 - u0)) <= u1 - u0
<1> DEFINE n == u1 - u0
           m == AbsOf(v1 - v0)
           w == IF v0 < v1 THEN 1 ELSE -1
           s == Sideways(n, m)
<1>1. n \in Nat /\ m \in 0 .. n /\ v0 \in Int /\ v1 \in Int /\ u0 \in Int /\ u1 \in Int
  BY AbsIs DEF Flat
<1>2. (v0 < v1 => w = 1 /\ v1 = v0 + m) /\ (~(v0 < v1) => w = -1 /\ v1 = v0 - m)
  BY <1>1, AbsIs
<1>3. /\ DOMAIN s = 0 .. n /\ s[0] = 0 /\ s[n] = m
      /\ \A i \in 0 .. n : s[i] \in 0 .. m /\ -n <= 2 * (i * m - s[i] * n)
                           /\ 2 * (i * m - s[i] * n) <= n
  BY <1>1, SidewaysIs
<1>4. \A i : Beside(u0, v0, u1, v1, i) = v0 + w * s[i]
  BY DEF Beside
<1>5. PICK k : k = n
  OBVIOUS
<1>6. u1 - u0 = k
  BY <1>5
<1> HIDE DEF s, w, m, n
<1>7. Beside(u0, v0, u1, v1, 0) = v0 /\ Beside(u0, v0, u1, v1, n) = v1
  <2>1. Beside(u0, v0, u1, v1, 0) = v0 + w * 0 /\ Beside(u0, v0, u1, v1, n) = v0 + w * m
    BY <1>3, <1>4, ZenonT(60)
  <2>2. v0 + w * 0 = v0 /\ v0 + w * m = v1
    BY <1>1, <1>2
  <2>3. QED
    BY <2>1, <2>2
<1>8. ASSUME NEW i \in 0 .. n, NEW v, v = Beside(u0, v0, u1, v1, i)
      PROVE  /\ v \in Int
             /\ v0 <= v1 => v \in v0 .. v1
             /\ v1 <= v0 => v \in v1 .. v0
             /\ 2 * AbsOf(i * (v1 - v0) - (v - v0) * n) <= n
  <2>1. PICK z, p, q : z = s[i] /\ p = i * m /\ q = z * n
    OBVIOUS
  <2>2. z \in 0 .. m /\ p \in Int /\ q \in Int /\ -n <= 2 * (p - q) /\ 2 * (p - q) <= n
    <3>1. /\ s[i] \in 0 .. m /\ -n <= 2 * (i * m - s[i] * n)
          /\ 2 * (i * m - s[i] * n) <= n
      BY <1>3
    <3>2. z \in 0 .. m /\ -n <= 2 * (p - q) /\ 2 * (p - q) <= n
      BY <2>1, <3>1, ZenonT(60)
    <3>3. i \in Int /\ m \in Int /\ n \in Int /\ z \in Int
      BY <1>1, <3>2
    <3>4. QED
      BY <2>1, <3>2, <3>3
  <2>3. v = v0 + w * z
    BY <1>4, <1>8, <2>1
  <2>4. CASE v0 < v1
    <3>1. v = v0 + z /\ v1 = v0 + m /\ v1 - v0 = m /\ v - v0 = z
      BY <1>1, <1>2, <2>2, <2>3, <2>4
    <3>2. i * (v1 - v0) - (v - v0) * n = p - q
      BY <2>1, <3>1
    <3>3. 2 * AbsOf(p - q) <= n
      BY <1>1, <2>2, AbsIs
    <3>4. QED
      BY <1>1, <2>2, <3>1, <3>2, <3>3
  <2>5. CASE ~(v0 < v1)
    <3>1. v = v0 - z /\ v1 = v0 - m /\ v1 - v0 = -m /\ v - v0 = -z
      BY <1>1, <1>2, <2>2, <2>3, <2>5
    <3>2. i * (-m) - (-z) * n = q - p
      <4>1. i * (-m) = -p /\ (-z) * n = -q
        BY <1>1, <2>1, <2>2
      <4>2. QED
        BY <2>2, <4>1
    <3>3. 2 * AbsOf(q - p) <= n
      BY <1>1, <2>2, AbsIs
    <3>4. i * (v1 - v0) - (v - v0) * n = q - p
      BY <3>1, <3>2
    <3>5. QED
      BY <1>1, <2>2, <2>5, <3>1, <3>3, <3>4
  <2>6. QED
    BY <2>4, <2>5
<1>9. QED
  BY <1>7, <1>8 DEF n

(* A strip holds its ends and as many points as it has steps. *)
LEMMA StripIs ==
  ASSUME NEW steep \in BOOLEAN, NEW u0, NEW v0, NEW u1, NEW v1, Flat(u0, v0, u1, v1)
  PROVE  LET drawn == Strip(steep, u0, v0, u1, v1)
         IN  /\ At(steep, u0, v0) \in drawn /\ At(steep, u1, v1) \in drawn
             /\ Cardinality(drawn) = u1 - u0 + 1
             /\ \A p \in drawn : \E i \in 0 .. u1 - u0 :
                  p = At(steep, u0 + i, Beside(u0, v0, u1, v1, i))
<1> DEFINE n == u1 - u0
           P(i) == At(steep, u0 + i, Beside(u0, v0, u1, v1, i))
           drawn == Strip(steep, u0, v0, u1, v1)
<1>1. n \in Nat /\ u0 \in Int /\ u1 \in Int /\ u0 + 0 = u0 /\ u0 + n = u1 /\ 0 \in 0 .. n
      /\ n \in 0 .. n
  BY DEF Flat
<1>2. drawn = {P(i) : i \in 0 .. n}
  BY DEF Strip
<1>3. P(0) = At(steep, u0, v0) /\ P(n) = At(steep, u1, v1)
  BY <1>1, BesideIs
<1>4. ASSUME NEW i \in 0 .. n, NEW j \in 0 .. n, P(i) = P(j) PROVE i = j
  BY <1>1, <1>4 DEF At
<1> DEFINE f == [k \in 1 .. n + 1 |-> P(k - 1)]
<1>5. f \in Bijection(1 .. n + 1, drawn)
  <2> HIDE DEF P, n
  <2>1. ASSUME NEW k \in 1 .. n + 1 PROVE k - 1 \in 0 .. n /\ f[k] = P(k - 1)
    BY <1>1
  <2>2. ASSUME NEW i \in 0 .. n PROVE i + 1 \in 1 .. n + 1 /\ f[i + 1] = P(i)
    <3>1. i + 1 \in 1 .. n + 1 /\ (i + 1) - 1 = i
      BY <1>1
    <3>2. QED
      BY <2>1, <3>1
  <2>3. f \in [1 .. n + 1 -> drawn]
    BY <1>2, <2>1
  <2>4. \A k, l \in 1 .. n + 1 : f[k] = f[l] => k = l
    <3>1. SUFFICES ASSUME NEW k \in 1 .. n + 1, NEW l \in 1 .. n + 1, f[k] = f[l] PROVE k = l
      OBVIOUS
    <3>2. k - 1 = l - 1
      BY <1>4, <2>1, <3>1
    <3>3. QED
      BY <1>1, <3>2
  <2>5. \A p \in drawn : \E k \in 1 .. n + 1 : f[k] = p
    BY <1>2, <2>2
  <2> HIDE DEF f, drawn
  <2>6. f \in Injection(1 .. n + 1, drawn)
    BY <2>3, <2>4, Fun_IsInj
  <2>7. f \in Surjection(1 .. n + 1, drawn)
    BY <2>3, <2>5, Fun_IsSurj
  <2>8. QED
    BY <2>6, <2>7, Fun_IsBij
<1>6. Cardinality(drawn) = n + 1
  <2>1. ExistsBijection(1 .. n + 1, drawn) /\ n + 1 \in Nat
    BY <1>1, <1>5 DEF ExistsBijection
  <2>2. QED
    BY <2>1, FS_CountingElements
<1>7. QED
  BY <1>1, <1>2, <1>3, <1>6

LEMMA ClampedIs ==
  ASSUME NEW v \in Int, NEW n \in Nat \ {0}
  PROVE  Clamped(v, n) \in 0 .. n - 1
BY DEF Clamped

(* What line draws between ends in order. *)
Traced(major, a, b) ==
  LET minor == 3 - major
      away  == IF a[minor] < b[minor] THEN 1 ELSE -1
      aside == Sideways(b[major] - a[major], AbsOf(b[minor] - a[minor]))
  IN  {[c \in 1 .. 2 |-> IF c = major THEN a[c] + i ELSE a[c] + away * aside[i]] :
         i \in DOMAIN aside}

LEMMA TracedIs ==
  ASSUME NEW steep \in BOOLEAN, NEW u0, NEW v0, NEW u1, NEW v1, Flat(u0, v0, u1, v1)
  PROVE  Traced(IF steep THEN 2 ELSE 1, At(steep, u0, v0), At(steep, u1, v1))
           = Strip(steep, u0, v0, u1, v1)
<1> DEFINE n == u1 - u0
           aside == Sideways(n, AbsOf(v1 - v0))
           away == IF v0 < v1 THEN 1 ELSE -1
<1>1. DOMAIN aside = 0 .. n
  <2>1. n \in Nat /\ AbsOf(v1 - v0) \in 0 .. n
    BY AbsIs DEF Flat
  <2>2. QED
    BY <2>1, SidewaysIs
<1>2. CASE steep
  <2> DEFINE P(i) == [k \in 1 .. 2 |-> IF k = 2 THEN <<v0, u0>>[k] + i
                                            ELSE <<v0, u0>>[k] + away * aside[i]]
  <2>1. Traced(2, <<v0, u0>>, <<v1, u1>>) = {P(i) : i \in DOMAIN aside}
    BY DEF Traced
  <2>2. ASSUME NEW i
        PROVE  P(i) = At(steep, u0 + i, Beside(u0, v0, u1, v1, i))
    <3>1. Beside(u0, v0, u1, v1, i) = v0 + away * aside[i]
      BY DEF Beside
    <3> HIDE DEF aside, away
    <3>2. QED
      BY <1>2, <3>1 DEF At
  <2>3. Strip(steep, u0, v0, u1, v1)
          = {At(steep, u0 + i, Beside(u0, v0, u1, v1, i)) : i \in 0 .. n}
    BY DEF Strip
  <2> HIDE DEF aside, away, n, P
  <2>4. {P(i) : i \in DOMAIN aside} = Strip(steep, u0, v0, u1, v1)
    BY <1>1, <2>2, <2>3
  <2>5. At(steep, u0, v0) = <<v0, u0>> /\ At(steep, u1, v1) = <<v1, u1>>
    BY <1>2 DEF At
  <2>6. (IF steep THEN 2 ELSE 1) = 2
    BY <1>2
  <2>7. QED
    BY <2>1, <2>4, <2>5, <2>6, ZenonT(60)
<1>3. CASE ~steep
  <2> DEFINE P(i) == [k \in 1 .. 2 |-> IF k = 1 THEN <<u0, v0>>[k] + i
                                            ELSE <<u0, v0>>[k] + away * aside[i]]
  <2>1. Traced(1, <<u0, v0>>, <<u1, v1>>) = {P(i) : i \in DOMAIN aside}
    BY DEF Traced
  <2>2. ASSUME NEW i
        PROVE  P(i) = At(steep, u0 + i, Beside(u0, v0, u1, v1, i))
    <3>1. Beside(u0, v0, u1, v1, i) = v0 + away * aside[i]
      BY DEF Beside
    <3> HIDE DEF aside, away
    <3>2. QED
      BY <1>3, <3>1 DEF At
  <2>3. Strip(steep, u0, v0, u1, v1)
          = {At(steep, u0 + i, Beside(u0, v0, u1, v1, i)) : i \in 0 .. n}
    BY DEF Strip
  <2> HIDE DEF aside, away, n, P
  <2>4. {P(i) : i \in DOMAIN aside} = Strip(steep, u0, v0, u1, v1)
    BY <1>1, <2>2, <2>3
  <2>5. At(steep, u0, v0) = <<u0, v0>> /\ At(steep, u1, v1) = <<u1, v1>>
    BY <1>3 DEF At
  <2>6. (IF steep THEN 2 ELSE 1) = 1
    BY <1>3
  <2>7. QED
    BY <2>1, <2>4, <2>5, <2>6, ZenonT(60)
<1>4. QED
  BY <1>2, <1>3

LEMMA Turned ==
  ASSUME NEW a \in Int, NEW b \in Int, NEW dx \in Int, NEW dy \in Int
  PROVE  (a - dx) * (-dy) - (b - dy) * (-dx) = -(a * dy - b * dx)
<1>1. PICK p, q, r : p = a * dy /\ q = b * dx /\ r = dx * dy
  OBVIOUS
<1>2. p \in Int /\ q \in Int /\ r \in Int
  BY <1>1
<1>3. (a - dx) * (-dy) = r - p
  BY <1>1
<1>4. (b - dy) * (-dx) = r - q
  BY <1>1
<1>5. QED
  BY <1>1, <1>2, <1>3, <1>4

(* How far p is from the line through a and b, in units of its length.     *)
Off(a, b, p) == (p[1] - a[1]) * (b[2] - a[2]) - (p[2] - a[2]) * (b[1] - a[1])

LEMMA OffIsMutual ==
  ASSUME NEW a \in Int \X Int, NEW b \in Int \X Int, NEW p \in Int \X Int
  PROVE  Off(a, b, p) \in Int /\ Off(b, a, p) = -Off(a, b, p)
<1> DEFINE u == p[1] - a[1]
           v == p[2] - a[2]
           dx == b[1] - a[1]
           dy == b[2] - a[2]
<1>1. /\ p[1] \in Int /\ p[2] \in Int /\ a[1] \in Int /\ a[2] \in Int
      /\ b[1] \in Int /\ b[2] \in Int
  OBVIOUS
<1>2. /\ u \in Int /\ v \in Int /\ dx \in Int /\ dy \in Int
      /\ p[1] - b[1] = u - dx /\ p[2] - b[2] = v - dy
      /\ a[1] - b[1] = -dx /\ a[2] - b[2] = -dy
  BY <1>1
<1>3. Off(a, b, p) = u * dy - v * dx
  BY DEF Off
<1>4. Off(b, a, p) = (p[1] - b[1]) * (a[2] - b[2]) - (p[2] - b[2]) * (a[1] - b[1])
  BY DEF Off
<1> HIDE DEF u, v, dx, dy
<1>5. Off(b, a, p) = (u - dx) * (-dy) - (v - dy) * (-dx)
  BY <1>2, <1>4, ZenonT(60)
<1>6. (u - dx) * (-dy) - (v - dy) * (-dx) = -(u * dy - v * dx)
  BY <1>2, Turned
<1>7. u * dy - v * dx \in Int
  BY <1>2
<1>8. QED
  BY <1>3, <1>5, <1>6, <1>7, ZenonT(60)

(* A strip between two points of the screen is what a line should be.      *)
LEMMA StripSound ==
  ASSUME NEW steep \in BOOLEAN, NEW u0, NEW v0, NEW u1, NEW v1, Flat(u0, v0, u1, v1),
         At(steep, u0, v0) \in Screen, At(steep, u1, v1) \in Screen
  PROVE  LET drawn == Strip(steep, u0, v0, u1, v1)
             a == At(steep, u0, v0)
             b == At(steep, u1, v1)
         IN  /\ {a, b} \subseteq drawn /\ drawn \subseteq Screen
             /\ Cardinality(drawn) = u1 - u0 + 1
             /\ \A p \in drawn : /\ 2 * AbsOf(Off(a, b, p)) <= u1 - u0
                                 /\ 2 * AbsOf(Off(b, a, p)) <= u1 - u0
<1> DEFINE drawn == Strip(steep, u0, v0, u1, v1)
           a == At(steep, u0, v0)
           b == At(steep, u1, v1)
<1>1. /\ u0 \in Int /\ v0 \in Int /\ u1 \in Int /\ v1 \in Int /\ u0 <= u1
      /\ W \in Nat /\ H \in Nat
  BY GsxAssumption DEF Flat
<1>2. a \in Int \X Int /\ b \in Int \X Int
  BY <1>1 DEF At
<1>3. ASSUME NEW p \in drawn
      PROVE  /\ p \in Screen /\ 2 * AbsOf(Off(a, b, p)) <= u1 - u0
             /\ 2 * AbsOf(Off(b, a, p)) <= u1 - u0
  <2>1. PICK i \in 0 .. u1 - u0 : p = At(steep, u0 + i, Beside(u0, v0, u1, v1, i))
    BY StripIs
  <2>2. PICK v : v = Beside(u0, v0, u1, v1, i)
    OBVIOUS
  <2> DEFINE e == i * (v1 - v0) - (v - v0) * (u1 - u0)
  <2>3. /\ v \in Int
        /\ v0 <= v1 => v \in v0 .. v1
        /\ v1 <= v0 => v \in v1 .. v0
        /\ 2 * AbsOf(e) <= u1 - u0
    BY <2>2, BesideIs
  <2>4. p = At(steep, u0 + i, v)
    BY <2>1, <2>2
  <2>5. p \in Screen
    <3>1. u0 + i \in u0 .. u1 /\ (v \in v0 .. v1 \/ v \in v1 .. v0)
      BY <1>1, <2>3
    <3>2. CASE steep
      <4>1. p = <<v, u0 + i>> /\ <<v0, u0>> \in Screen /\ <<v1, u1>> \in Screen
        BY <2>4, <3>2 DEF At
      <4>2. v0 \in 0 .. W - 1 /\ v1 \in 0 .. W - 1 /\ u0 \in 0 .. H - 1 /\ u1 \in 0 .. H - 1
        BY <4>1 DEF Screen
      <4>3. v \in 0 .. W - 1 /\ u0 + i \in 0 .. H - 1
        BY <1>1, <3>1, <4>2
      <4>4. QED
        BY <4>1, <4>3 DEF Screen
    <3>3. CASE ~steep
      <4>1. p = <<u0 + i, v>> /\ <<u0, v0>> \in Screen /\ <<u1, v1>> \in Screen
        BY <2>4, <3>3 DEF At
      <4>2. v0 \in 0 .. H - 1 /\ v1 \in 0 .. H - 1 /\ u0 \in 0 .. W - 1 /\ u1 \in 0 .. W - 1
        BY <4>1 DEF Screen
      <4>3. v \in 0 .. H - 1 /\ u0 + i \in 0 .. W - 1
        BY <1>1, <3>1, <4>2
      <4>4. QED
        BY <4>1, <4>3 DEF Screen
    <3>4. QED
      BY <3>2, <3>3
  <2>6. p \in Int \X Int
    BY <1>1, <2>3, <2>4 DEF At
  <2>7. i \in Int /\ e \in Int /\ (u0 + i) - u0 = i
    BY <1>1, <2>3
  <2>8. Off(a, b, p) = e \/ Off(a, b, p) = -e
    <3>1. CASE ~steep
      <4>1. p = <<u0 + i, v>> /\ a = <<u0, v0>> /\ b = <<u1, v1>>
        BY <2>4, <3>1 DEF At
      <4>2. Off(a, b, p) = ((u0 + i) - u0) * (v1 - v0) - (v - v0) * (u1 - u0)
        BY <4>1 DEF Off
      <4>3. QED
        BY <2>7, <4>2, ZenonT(60)
    <3>2. CASE steep
      <4>1. p = <<v, u0 + i>> /\ a = <<v0, u0>> /\ b = <<v1, u1>>
        BY <2>4, <3>2 DEF At
      <4>2. Off(a, b, p) = (v - v0) * (u1 - u0) - ((u0 + i) - u0) * (v1 - v0)
        BY <4>1 DEF Off
      <4>3. Off(a, b, p) = (v - v0) * (u1 - u0) - i * (v1 - v0)
        BY <2>7, <4>2, ZenonT(60)
      <4>4. PICK k, l : k = (v - v0) * (u1 - u0) /\ l = i * (v1 - v0)
        OBVIOUS
      <4>5. k \in Int /\ l \in Int /\ e = l - k /\ Off(a, b, p) = k - l
        BY <1>1, <2>3, <2>7, <4>3, <4>4
      <4>6. QED
        BY <4>5
    <3>3. QED
      BY <3>1, <3>2
  <2> HIDE DEF e, a, b
  <2>9. AbsOf(-e) = AbsOf(e) /\ -(-e) = e
    BY <2>7 DEF AbsOf
  <2>10. Off(b, a, p) = -Off(a, b, p)
    BY <1>2, <2>6, OffIsMutual
  <2>11. AbsOf(Off(a, b, p)) = AbsOf(e) /\ AbsOf(Off(b, a, p)) = AbsOf(e)
    BY <2>8, <2>9, <2>10, ZenonT(60)
  <2>12. QED
    BY <2>3, <2>5, <2>11, ZenonT(60)
<1>4. a \in drawn /\ b \in drawn /\ Cardinality(drawn) = u1 - u0 + 1
  BY StripIs
<1> HIDE DEF drawn, a, b
<1>5. /\ {a, b} \subseteq drawn /\ drawn \subseteq Screen /\ Cardinality(drawn) = u1 - u0 + 1
      /\ \A p \in drawn : /\ 2 * AbsOf(Off(a, b, p)) <= u1 - u0
                          /\ 2 * AbsOf(Off(b, a, p)) <= u1 - u0
  BY <1>3, <1>4, ZenonT(60)
<1>6. QED
  BY <1>5 DEF drawn, a, b

(* The line between two points of the screen, ... *)
Run(p, q) ==
  LET steep == AbsOf(q[2] - p[2]) > AbsOf(q[1] - p[1])
      major == IF steep THEN 2 ELSE 1
  IN  Traced(major, IF p[major] > q[major] THEN q ELSE p, IF p[major] > q[major] THEN p ELSE q)

LEMMA LineIsRun ==
  ASSUME NEW x0, NEW y0, NEW x1, NEW y1
  PROVE  line(x0, y0, x1, y1)
           = Run(<<Clamped(x0, W), Clamped(y0, H)>>, <<Clamped(x1, W), Clamped(y1, H)>>)
BY DEF line, Run, Traced

Steep(p, q) == AbsOf(q[2] - p[2]) > AbsOf(q[1] - p[1])
Long(p, q)  == IF Steep(p, q) THEN 2 ELSE 1
Short(p, q) == IF Steep(p, q) THEN 1 ELSE 2
RunStrip(p, q) == Strip(Steep(p, q), p[Long(p, q)], p[Short(p, q)], q[Long(p, q)], q[Short(p, q)])

LEMMA AbsOfMinus ==
  ASSUME NEW a \in Int, NEW b \in Int
  PROVE  AbsOf(a - b) = AbsOf(b - a)
BY DEF AbsOf

(* ... when p comes first. *)
LEMMA RunIs ==
  ASSUME NEW p \in Int \X Int, NEW q \in Int \X Int, p[Long(p, q)] <= q[Long(p, q)]
  PROVE  /\ Flat(p[Long(p, q)], p[Short(p, q)], q[Long(p, q)], q[Short(p, q)])
         /\ Steep(p, q) \in BOOLEAN
         /\ p = At(Steep(p, q), p[Long(p, q)], p[Short(p, q)])
         /\ q = At(Steep(p, q), q[Long(p, q)], q[Short(p, q)])
         /\ Run(p, q) = RunStrip(p, q) /\ Run(q, p) = RunStrip(p, q)
         /\ Max({AbsOf(q[1] - p[1]), AbsOf(q[2] - p[2])}) = q[Long(p, q)] - p[Long(p, q)]
<1> DEFINE steep == Steep(p, q)
           l == Long(p, q)
           s == Short(p, q)
           A == AbsOf(q[1] - p[1])
           B == AbsOf(q[2] - p[2])
<1>1. /\ p[1] \in Int /\ p[2] \in Int /\ q[1] \in Int /\ q[2] \in Int
      /\ p = <<p[1], p[2]>> /\ q = <<q[1], q[2]>>
  OBVIOUS
<1>2. A \in Nat /\ B \in Nat /\ AbsOf(p[1] - q[1]) = A /\ AbsOf(p[2] - q[2]) = B
  BY <1>1, AbsIs, AbsOfMinus
<1>3. (steep <=> B > A) /\ steep \in BOOLEAN /\ Steep(q, p) = steep
  BY <1>2 DEF Steep
<1>4. /\ steep => l = 2 /\ s = 1
      /\ ~steep => l = 1 /\ s = 2
  BY DEF Long, Short
<1>5. l \in {1, 2} /\ s = 3 - l /\ (IF steep THEN 2 ELSE 1) = l
  BY <1>3, <1>4
<1>6. Flat(p[l], p[s], q[l], q[s])
  <2> HIDE DEF steep, l, s
  <2>1. CASE steep
    <3>1. p[2] <= q[2] /\ B = q[2] - p[2] /\ A <= B
      BY <1>1, <1>2, <1>3, <1>4, <2>1, AbsIs DEF l
    <3>2. Flat(p[2], p[1], q[2], q[1])
      BY <1>1, <3>1 DEF Flat
    <3>3. QED
      BY <1>4, <2>1, <3>2
  <2>2. CASE ~steep
    <3>1. p[1] <= q[1] /\ A = q[1] - p[1] /\ B <= A
      BY <1>1, <1>2, <1>3, <1>4, <2>2, AbsIs DEF l
    <3>2. Flat(p[1], p[2], q[1], q[2])
      BY <1>1, <3>1 DEF Flat
    <3>3. QED
      BY <1>4, <2>2, <3>2
  <2>3. QED
    BY <2>1, <2>2
<1>7. p = At(steep, p[l], p[s]) /\ q = At(steep, q[l], q[s])
  <2> HIDE DEF steep, l, s
  <2>1. QED
    BY <1>1, <1>3, <1>4 DEF At
<1>8. Traced(l, p, q) = RunStrip(p, q)
  <2>1. Traced(IF steep THEN 2 ELSE 1, At(steep, p[l], p[s]), At(steep, q[l], q[s]))
          = Strip(steep, p[l], p[s], q[l], q[s])
    BY <1>3, <1>6, TracedIs
  <2>2. RunStrip(p, q) = Strip(steep, p[l], p[s], q[l], q[s])
    BY DEF RunStrip
  <2> HIDE DEF steep, l, s
  <2>3. QED
    BY <1>5, <1>7, <2>1, <2>2
<1>9. Run(p, q) = Traced(l, IF p[l] > q[l] THEN q ELSE p, IF p[l] > q[l] THEN p ELSE q)
  BY DEF Run, Long, Steep
<1>10. Run(q, p) = Traced(l, IF q[l] > p[l] THEN p ELSE q, IF q[l] > p[l] THEN q ELSE p)
  <2>1. Long(q, p) = l
    BY <1>3 DEF Long
  <2>2. Run(q, p) = Traced(Long(q, p), IF q[Long(q, p)] > p[Long(q, p)] THEN p ELSE q,
                                       IF q[Long(q, p)] > p[Long(q, p)] THEN q ELSE p)
    BY DEF Run, Long, Steep
  <2>3. QED
    BY <2>1, <2>2
<1>11. p[l] \in Int /\ q[l] \in Int /\ p[l] <= q[l]
  BY <1>6 DEF Flat
<1>12. p[l] = q[l] => p = q
  <2>1. Flat(p[l], p[s], q[l], q[s]) /\ p[s] \in Int /\ q[s] \in Int
    BY <1>6 DEF Flat
  <2> HIDE DEF steep, l, s
  <2>2. AbsOf(q[s] - p[s]) <= q[l] - p[l]
    BY <2>1 DEF Flat
  <2>3. p[l] = q[l] => p[s] = q[s]
    BY <1>11, <2>1, <2>2 DEF AbsOf
  <2>4. QED
    BY <1>7, <2>3
<1>13. Run(p, q) = Traced(l, p, q) /\ Run(q, p) = Traced(l, p, q)
  <2> HIDE DEF l
  <2>1. ~(p[l] > q[l])
    BY <1>11
  <2>2. Run(p, q) = Traced(l, p, q)
    BY <1>9, <2>1
  <2>3. CASE q[l] > p[l]
    BY <1>10, <2>2, <2>3
  <2>4. CASE ~(q[l] > p[l])
    <3>1. p = q
      BY <1>11, <1>12, <2>4
    <3>2. QED
      BY <2>2, <3>1
  <2>5. QED
    BY <2>2, <2>3, <2>4
<1>14. Max({A, B}) = q[l] - p[l]
  <2>1. {A, B} \subseteq Nat
    BY <1>2
  <2> HIDE DEF A, B
  <2>2. CASE steep
    <3>1. l = 2 /\ B = q[2] - p[2] /\ A <= B
      BY <1>1, <1>2, <1>3, <1>4, <1>11, <2>2, AbsIs DEF B
    <3>2. Max({A, B}) = B
      BY <1>2, <2>1, <3>1, MaxIs
    <3>3. QED
      BY <3>1, <3>2
  <2>3. CASE ~steep
    <3>1. l = 1 /\ A = q[1] - p[1] /\ B <= A
      BY <1>1, <1>2, <1>3, <1>4, <1>11, <2>3, AbsIs DEF A
    <3>2. Max({A, B}) = A
      BY <1>2, <2>1, <3>1, MaxIs
    <3>3. QED
      BY <3>1, <3>2
  <2>4. QED
    BY <2>2, <2>3
<1>15. QED
  BY <1>3, <1>6, <1>7, <1>8, <1>13, <1>14

(* What a line should be, between points of the screen. *)
Sound(a, b) ==
  LET n == Max({AbsOf(b[1] - a[1]), AbsOf(b[2] - a[2])})
      drawn == Run(a, b)
  IN  /\ {a, b} \subseteq drawn /\ drawn \subseteq Screen /\ Cardinality(drawn) = n + 1
      /\ \A p \in drawn : 2 * AbsOf(Off(a, b, p)) <= n
      /\ drawn = Run(b, a)

LEMMA RunSound ==
  ASSUME NEW a \in Screen, NEW b \in Screen
  PROVE  Sound(a, b)
<1>1. a \in Int \X Int /\ b \in Int \X Int /\ Screen \subseteq Int \X Int
  BY GsxAssumption DEF Screen
<1>2. ASSUME NEW p \in Screen, NEW q \in Screen, p[Long(p, q)] <= q[Long(p, q)]
      PROVE  Sound(p, q) /\ Sound(q, p)
  <2> DEFINE n == q[Long(p, q)] - p[Long(p, q)]
             drawn == RunStrip(p, q)
  <2>1. p \in Int \X Int /\ q \in Int \X Int
    BY <1>1
  <2>2. /\ Flat(p[Long(p, q)], p[Short(p, q)], q[Long(p, q)], q[Short(p, q)])
        /\ Steep(p, q) \in BOOLEAN
        /\ p = At(Steep(p, q), p[Long(p, q)], p[Short(p, q)])
        /\ q = At(Steep(p, q), q[Long(p, q)], q[Short(p, q)])
        /\ Run(p, q) = drawn /\ Run(q, p) = drawn
        /\ Max({AbsOf(q[1] - p[1]), AbsOf(q[2] - p[2])}) = n
    BY <1>2, <2>1, RunIs
  <2>3. /\ {p, q} \subseteq drawn /\ drawn \subseteq Screen /\ Cardinality(drawn) = n + 1
        /\ \A z \in drawn : 2 * AbsOf(Off(p, q, z)) <= n /\ 2 * AbsOf(Off(q, p, z)) <= n
    <3>1. PICK u0, v0, u1, v1, steep :
             /\ u0 = p[Long(p, q)] /\ v0 = p[Short(p, q)] /\ u1 = q[Long(p, q)]
             /\ v1 = q[Short(p, q)] /\ steep = Steep(p, q)
      OBVIOUS
    <3>2. /\ Flat(u0, v0, u1, v1) /\ steep \in BOOLEAN
          /\ p = At(steep, u0, v0) /\ q = At(steep, u1, v1)
          /\ drawn = Strip(steep, u0, v0, u1, v1) /\ n = u1 - u0
      BY <2>2, <3>1 DEF RunStrip
    <3>3. LET d == Strip(steep, u0, v0, u1, v1)
              e == At(steep, u0, v0)
              f == At(steep, u1, v1)
          IN  /\ {e, f} \subseteq d /\ d \subseteq Screen /\ Cardinality(d) = u1 - u0 + 1
              /\ \A z \in d : /\ 2 * AbsOf(Off(e, f, z)) <= u1 - u0
                              /\ 2 * AbsOf(Off(f, e, z)) <= u1 - u0
      BY <3>2, StripSound
    <3> HIDE DEF n, drawn
    <3>4. QED
      BY <3>2, <3>3
  <2>4. Max({AbsOf(p[1] - q[1]), AbsOf(p[2] - q[2])}) = n
    <3>1. AbsOf(p[1] - q[1]) = AbsOf(q[1] - p[1]) /\ AbsOf(p[2] - q[2]) = AbsOf(q[2] - p[2])
      BY <2>1, AbsOfMinus
    <3>2. QED
      BY <2>2, <3>1
  <2>5. {q, p} = {p, q}
    OBVIOUS
  <2> HIDE DEF n, drawn
  <2>6. QED
    BY <2>2, <2>3, <2>4, <2>5 DEF Sound
<1>3. CASE a[Long(a, b)] <= b[Long(a, b)]
  BY <1>2, <1>3
<1>4. CASE ~(a[Long(a, b)] <= b[Long(a, b)])
  <2>1. AbsOf(b[1] - a[1]) = AbsOf(a[1] - b[1]) /\ AbsOf(b[2] - a[2]) = AbsOf(a[2] - b[2])
    BY <1>1, AbsOfMinus
  <2>2. Long(a, b) = Long(b, a)
    BY <2>1 DEF Long, Steep
  <2>3. Long(a, b) \in {1, 2}
    BY DEF Long
  <2>4. a[Long(a, b)] \in Int /\ b[Long(a, b)] \in Int
    BY <1>1, <2>3
  <2>5. b[Long(b, a)] <= a[Long(b, a)]
    BY <1>4, <2>2, <2>4
  <2>6. QED
    BY <1>2, <2>5
<1>5. QED
  BY <1>3, <1>4

(* gfx_line on every screen and between any two points, inside or outside: *)
(* it joins its ends, stays on the screen, draws one pixel for each step   *)
(* along its longer side, none more than half a pixel off, and draws the   *)
(* same from either end.                                                   *)
THEOREM LineIsExact ==
  ASSUME NEW x0 \in Int, NEW y0 \in Int, NEW x1 \in Int, NEW y1 \in Int
  PROVE  LineSound(x0, y0, x1, y1)
<1> DEFINE a == <<Clamped(x0, W), Clamped(y0, H)>>
           b == <<Clamped(x1, W), Clamped(y1, H)>>
<1>1. a \in Screen /\ b \in Screen
  BY ClampedIs, GsxAssumption DEF Screen
<1>2. Sound(a, b)
  BY <1>1, RunSound
<1>3. line(x0, y0, x1, y1) = Run(a, b) /\ line(x1, y1, x0, y0) = Run(b, a)
  BY LineIsRun
<1> HIDE DEF a, b
<1>4. QED
  <2>1. \A p : Off(a, b, p) = (p[1] - a[1]) * (b[2] - a[2]) - (p[2] - a[2]) * (b[1] - a[1])
    BY DEF Off
  <2>2. LET dx == b[1] - a[1]
            dy == b[2] - a[2]
            n  == Max({AbsOf(dx), AbsOf(dy)})
            drawn == line(x0, y0, x1, y1)
        IN  /\ {a, b} \subseteq drawn /\ drawn \subseteq Screen /\ Cardinality(drawn) = n + 1
            /\ \A p \in drawn : 2 * AbsOf((p[1] - a[1]) * dy - (p[2] - a[2]) * dx) <= n
            /\ drawn = line(x1, y1, x0, y0)
    BY <1>2, <1>3, <2>1, ZenonT(60) DEF Sound
  <2>3. QED
    BY <2>2, ZenonT(60) DEF LineSound, a, b

(* A line along a row or a column is that part of it. *)
LEMMA StraightStrip ==
  ASSUME NEW steep \in BOOLEAN, NEW u0 \in Int, NEW u1 \in Int, u0 <= u1, NEW v \in Int
  PROVE  Flat(u0, v, u1, v) /\ Strip(steep, u0, v, u1, v) = {At(steep, u, v) : u \in u0 .. u1}
<1>1. Flat(u0, v, u1, v)
  BY AbsIs DEF Flat
<1>2. ASSUME NEW i \in 0 .. u1 - u0 PROVE Beside(u0, v, u1, v, i) = v
  <2>1. LET b == Beside(u0, v, u1, v, i)
        IN  b \in Int /\ (v <= v => b \in v .. v)
    BY <1>1, BesideIs, ZenonT(60)
  <2>2. v <= v
    OBVIOUS
  <2>3. QED
    BY <2>1, <2>2
<1>3. Strip(steep, u0, v, u1, v) = {At(steep, u0 + i, v) : i \in 0 .. u1 - u0}
  BY <1>2 DEF Strip
<1>4. ASSUME NEW i \in 0 .. u1 - u0 PROVE u0 + i \in u0 .. u1
  OBVIOUS
<1>5. ASSUME NEW u \in u0 .. u1 PROVE u - u0 \in 0 .. u1 - u0 /\ u0 + (u - u0) = u
  OBVIOUS
<1>6. {At(steep, u0 + i, v) : i \in 0 .. u1 - u0} = {At(steep, u, v) : u \in u0 .. u1}
  BY <1>4, <1>5
<1>7. QED
  BY <1>1, <1>3, <1>6

LEMMA ClampedKeeps ==
  ASSUME NEW n \in Nat, NEW v \in 0 .. n - 1
  PROVE  Clamped(v, n) = v
BY DEF Clamped

LEMMA RowIs ==
  ASSUME NEW x0 \in 0 .. W - 1, NEW x1 \in 0 .. W - 1, x0 <= x1, NEW y \in 0 .. H - 1
  PROVE  /\ line(x0, y, x1, y) = (x0 .. x1) \X {y}
         /\ line(x1, y, x0, y) = (x0 .. x1) \X {y}
<1> DEFINE p == <<x0, y>>
           q == <<x1, y>>
<1>1. W \in Nat /\ H \in Nat /\ x0 \in Int /\ x1 \in Int /\ y \in Int
  BY GsxAssumption
<1>2. line(x0, y, x1, y) = Run(p, q) /\ line(x1, y, x0, y) = Run(q, p)
  BY <1>1, LineIsRun, ClampedKeeps
<1>3. Steep(p, q) = FALSE /\ Long(p, q) = 1 /\ Short(p, q) = 2
  <2>1. AbsOf(y - y) = 0 /\ AbsOf(x1 - x0) \in Nat
    BY <1>1, AbsIs
  <2>2. QED
    BY <2>1 DEF Steep, Long, Short
<1>4. p \in Int \X Int /\ q \in Int \X Int /\ p[1] = x0 /\ p[2] = y /\ q[1] = x1 /\ q[2] = y
  BY <1>1
<1> HIDE DEF p, q
<1>5. Run(p, q) = RunStrip(p, q) /\ Run(q, p) = RunStrip(p, q)
  <2>1. p[Long(p, q)] <= q[Long(p, q)]
    BY <1>3, <1>4
  <2>2. QED
    BY <1>4, <2>1, RunIs
<1>6. RunStrip(p, q) = Strip(FALSE, x0, y, x1, y)
  BY <1>3, <1>4 DEF RunStrip
<1>7. Strip(FALSE, x0, y, x1, y) = {At(FALSE, u, y) : u \in x0 .. x1}
  BY <1>1, StraightStrip
<1>8. {At(FALSE, u, y) : u \in x0 .. x1} = (x0 .. x1) \X {y}
  BY DEF At
<1>9. QED
  BY <1>2, <1>5, <1>6, <1>7, <1>8

LEMMA ColumnIs ==
  ASSUME NEW x \in 0 .. W - 1, NEW y0 \in 0 .. H - 1, NEW y1 \in 0 .. H - 1, y0 <= y1
  PROVE  /\ line(x, y0, x, y1) = {x} \X (y0 .. y1)
         /\ line(x, y1, x, y0) = {x} \X (y0 .. y1)
<1> DEFINE p == <<x, y0>>
           q == <<x, y1>>
<1>1. W \in Nat /\ H \in Nat /\ x \in Int /\ y0 \in Int /\ y1 \in Int
  BY GsxAssumption
<1>2. line(x, y0, x, y1) = Run(p, q) /\ line(x, y1, x, y0) = Run(q, p)
  BY <1>1, LineIsRun, ClampedKeeps
<1>3. AbsOf(x - x) = 0 /\ AbsOf(y1 - y0) = y1 - y0
  BY <1>1, AbsIs
<1>4. CASE y0 < y1
  <2> HIDE DEF p, q
  <2>0. p \in Int \X Int /\ q \in Int \X Int /\ p[1] = x /\ p[2] = y0 /\ q[1] = x /\ q[2] = y1
    BY <1>1 DEF p, q
  <2>1. Steep(p, q) = TRUE /\ Long(p, q) = 2 /\ Short(p, q) = 1
    BY <1>1, <1>3, <1>4, <2>0 DEF Steep, Long, Short
  <2>2. Run(p, q) = RunStrip(p, q) /\ Run(q, p) = RunStrip(p, q)
    <3>1. p[Long(p, q)] <= q[Long(p, q)]
      BY <2>0, <2>1
    <3>2. QED
      BY <2>0, <3>1, RunIs
  <2>3. RunStrip(p, q) = Strip(TRUE, y0, x, y1, x)
    BY <2>0, <2>1 DEF RunStrip
  <2>4. Strip(TRUE, y0, x, y1, x) = {At(TRUE, u, x) : u \in y0 .. y1}
    <3>1. ASSUME NEW t \in BOOLEAN PROVE Strip(t, y0, x, y1, x) = {At(t, u, x) : u \in y0 .. y1}
      BY <1>1, StraightStrip
    <3>2. TRUE \in BOOLEAN
      OBVIOUS
    <3>3. QED
      BY <3>1, <3>2, ZenonT(60)
  <2>5. {At(TRUE, u, x) : u \in y0 .. y1} = {x} \X (y0 .. y1)
    BY DEF At
  <2>6. QED
    BY <1>2, <2>2, <2>3, <2>4, <2>5
<1>5. CASE y0 = y1
  <2>1. line(x, y0, x, y1) = (x .. x) \X {y0} /\ line(x, y1, x, y0) = (x .. x) \X {y0}
    BY <1>1, <1>5, RowIs
  <2>2. x .. x = {x} /\ y0 .. y1 = {y0}
    BY <1>1, <1>5
  <2>3. QED
    BY <2>1, <2>2
<1>6. QED
  BY <1>1, <1>4, <1>5

(* gfx_draw_bar, solid, on every screen: the four sides and the rows       *)
(* between them are the rectangle, with no hole and nothing beside it.     *)
THEOREM BarIsItsRectangle ==
  ASSUME NEW llx \in 0 .. W - 1, NEW urx \in 0 .. W - 1, llx <= urx,
         NEW lly \in 0 .. H - 1, NEW ury \in 0 .. H - 1, ury <= lly
  PROVE  BarSound(llx, lly, urx, ury)
<1>1. llx \in Int /\ urx \in Int /\ lly \in Int /\ ury \in Int /\ H \in Nat /\ W \in Nat
  BY GsxAssumption
<1>2. /\ line(llx, lly, llx, ury) = {llx} \X (ury .. lly)
      /\ line(urx, ury, urx, lly) = {urx} \X (ury .. lly)
  BY ColumnIs
<1>3. /\ line(llx, ury, urx, ury) = (llx .. urx) \X {ury}
      /\ line(urx, lly, llx, lly) = (llx .. urx) \X {lly}
  BY RowIs
<1>4. ASSUME NEW y \in ury + 1 .. lly - 1
      PROVE  filled_hline(llx, urx, y, "solid") = (llx .. urx) \X {y}
  <2>1. y \in 0 .. H - 1
    BY <1>1
  <2>2. filled_hline(llx, urx, y, "solid") = line(llx, y, urx, y)
    BY DEF filled_hline
  <2>3. QED
    BY <2>1, <2>2, RowIs
<1> DEFINE inner == UNION {filled_hline(llx, urx, y, "solid") : y \in ury + 1 .. lly - 1}
<1>5. inner = (llx .. urx) \X (ury + 1 .. lly - 1)
  BY <1>4
<1>6. bar(llx, lly, urx, ury, "solid") =
        ({llx} \X (ury .. lly)) \cup ((llx .. urx) \X {ury}) \cup ({urx} \X (ury .. lly))
          \cup ((llx .. urx) \X {lly}) \cup ((llx .. urx) \X (ury + 1 .. lly - 1))
  BY <1>2, <1>3, <1>5 DEF bar
<1>7. /\ llx \in llx .. urx /\ urx \in llx .. urx /\ ury \in ury .. lly /\ lly \in ury .. lly
      /\ ury .. lly = {ury} \cup {lly} \cup (ury + 1 .. lly - 1)
  BY <1>1
<1>8. QED
  BY <1>6, <1>7 DEF BarSound

(* Addresses of one row of pixels do not reach the next. *)
LEMMA PixelAddress ==
  ASSUME NEW p \in 0 .. W - 1, NEW q \in 0 .. W - 1, NEW j \in Int, NEW k \in Int,
         PFB(p, j) = PFB(q, k)
  PROVE  j = k /\ p = q
<1>1. W \in Nat /\ W > 0
  BY GsxAssumption
<1>2. /\ j * W \in Int /\ k * W \in Int
      /\ j < k => j * W + W <= k * W
      /\ k < j => k * W + W <= j * W
  BY <1>1, Multiples
<1>3. j * W + p = k * W + q
  BY DEF PFB
<1>4. j = k
  BY <1>1, <1>2, <1>3
<1>5. QED
  BY <1>2, <1>3, <1>4

(* place_graphic_cursor on every screen that is wider than its arms.       *)
THEOREM GraphicCursorIsRestored ==
  ASSUME NEW x \in 0 .. W - 1, NEW y \in 0 .. H - 1, GSX_GC_ARMLNG \in 0 .. W - 1
  PROVE  GraphicCursorSound(x, y)
<1> DEFINE From(v) == IF v < GSX_GC_ARMLNG THEN 0 ELSE v - GSX_GC_ARMLNG
           Size(v) == 2 * GSX_GC_ARMLNG + 1
                        + (IF v < GSX_GC_ARMLNG THEN v - GSX_GC_ARMLNG ELSE 0)
           Span(v) == From(v) .. From(v) + Size(v) - 1
           across  == {PFB(i, y) : i \in Span(x)}
           down    == {PFB(x, j) : j \in Span(y)}
           cursor  == place_graphic_cursor(x, y)
           Times(p) == cursor.recoloured[PFB(p[1], p[2])]
<1>1. x \in Nat /\ y \in Nat /\ W \in Nat /\ H \in Nat /\ GSX_GC_ARMLNG \in Nat
  BY GsxAssumption
<1>2. ASSUME NEW v \in Nat
      PROVE  /\ v \in Span(v)
             /\ \A k \in Nat : k = v \/ AbsOf(k - v) \in 1 .. GSX_GC_ARMLNG => k \in Span(v)
             /\ \A k \in Span(v) : k \in Nat /\ k <= v + GSX_GC_ARMLNG
  BY <1>1, <1>2 DEF AbsOf
<1>3. cursor =
        [saved      |-> {PFB(i, j) : i \in Span(x), j \in Span(y)},
         recoloured |-> [a \in across \cup down |-> IF a \in across \cap down THEN 2 ELSE 1]]
  BY DEF place_graphic_cursor
<1> HIDE DEF Span, cursor
<1>4. DOMAIN cursor.recoloured \subseteq cursor.saved
  BY <1>1, <1>2, <1>3
<1>5. ASSUME NEW p \in Screen, p[1] = x, AbsOf(p[2] - y) \in 1 .. GSX_GC_ARMLNG
      PROVE  PFB(p[1], p[2]) \in DOMAIN cursor.recoloured /\ Times(p) = 1
  <2>1. p[2] \in Nat /\ p[2] # y
    BY <1>1, <1>5 DEF Screen, AbsOf
  <2>2. PFB(p[1], p[2]) \in down
    BY <1>1, <1>2, <1>5, <2>1
  <2>3. PFB(p[1], p[2]) \notin across
    <3>1. SUFFICES ASSUME NEW i \in Span(x), PFB(x, p[2]) = PFB(i, y) PROVE FALSE
      BY <1>5
    <3>2. i \in Nat /\ i <= x + GSX_GC_ARMLNG
      BY <1>1, <1>2
    <3>3. CASE i \in 0 .. W - 1
      BY <1>1, <2>1, <3>1, <3>3, PixelAddress
    <3>4. CASE i >= W
      <4>1. i - W \in 0 .. W - 1 /\ i - W < x
        BY <1>1, <3>2, <3>4
      <4>2. PFB(i, y) = PFB(i - W, y + 1)
        BY <1>1, <3>2, Multiples DEF PFB
      <4>3. i - W = x
        BY <1>1, <2>1, <3>1, <4>1, <4>2, PixelAddress
      <4>4. QED
        BY <1>1, <4>1, <4>3
    <3>5. QED
      BY <1>1, <3>2, <3>3, <3>4
  <2>4. QED
    BY <1>3, <2>2, <2>3
<1>6. ASSUME NEW p \in Screen, p[2] = y, AbsOf(p[1] - x) \in 1 .. GSX_GC_ARMLNG
      PROVE  PFB(p[1], p[2]) \in DOMAIN cursor.recoloured /\ Times(p) = 1
  <2>1. p[1] \in 0 .. W - 1 /\ p[1] \in Nat /\ p[1] # x
    BY <1>1, <1>6 DEF Screen, AbsOf
  <2>2. PFB(p[1], p[2]) \in across
    BY <1>1, <1>2, <1>6, <2>1
  <2>3. PFB(p[1], p[2]) \notin down
    <3>1. SUFFICES ASSUME NEW j \in Span(y), PFB(p[1], y) = PFB(x, j) PROVE FALSE
      BY <1>6
    <3>2. j \in Int /\ y \in Int
      BY <1>1, <1>2
    <3>3. QED
      BY <2>1, <3>1, <3>2, PixelAddress
  <2>4. QED
    BY <1>3, <2>2, <2>3
<1>7. Times(<<x, y>>) = 2
  <2>1. PFB(x, y) \in across /\ PFB(x, y) \in down
    BY <1>1, <1>2
  <2>2. QED
    BY <1>3, <2>1
<1>8. QED
  BY <1>4, <1>5, <1>6, <1>7 DEF GraphicCursorSound, cursor
-----------------------------------------------------------------------------
(* The circles of GSX.  One step of the loop of gfx_circle: *)
Onward(s) ==
  LET down == IF s.f >= 0 THEN 1 ELSE 0
      dy == s.dy + 2 * down
  IN  IF s.x >= s.y THEN s
      ELSE [f |-> s.f + down * dy + s.dx + 2, dx |-> s.dx + 2, dy |-> dy,
            x |-> s.x + 1, y |-> s.y - down]

Top(r) == [f |-> 1 - r, dx |-> 1, dy |-> -2 * r, x |-> 0, y |-> r]

Rounds(r, n, at) ==
  at = [k \in 0 .. n |-> IF k = 0 THEN Top(r) ELSE Onward(at[k - 1])]

LEMMA RoundsExist ==
  ASSUME NEW r \in Nat
  PROVE  \A n \in Nat : \E at : Rounds(r, n, at)
<1> DEFINE Bad == {n \in Nat : ~\E at : Rounds(r, n, at)}
<1>1. SUFFICES ASSUME Bad # {} PROVE FALSE
  OBVIOUS
<1>2. PICK n \in Bad : \A j \in Bad : n <= j
  <2>1. Bad \subseteq Nat
    OBVIOUS
  <2> HIDE DEF Bad
  <2>2. QED
    BY <1>1, <2>1, LeastNatural
<1>3. n \in Nat /\ ~\E at : Rounds(r, n, at)
  OBVIOUS
<1>4. n # 0
  <2>1. SUFFICES ASSUME n = 0 PROVE FALSE
    OBVIOUS
  <2> DEFINE at == [k \in 0 .. n |-> Top(r)]
  <2>2. at = [k \in 0 .. n |-> IF k = 0 THEN Top(r) ELSE Onward(at[k - 1])]
    <3>1. \A k \in 0 .. n : k = 0
      BY <2>1
    <3>2. QED
      BY <3>1
  <2>3. Rounds(r, n, at)
    BY <2>2 DEF Rounds
  <2>4. QED
    BY <1>3, <2>3
<1>5. n - 1 \in Nat /\ n - 1 \notin Bad
  <2>1. n - 1 \in Nat /\ ~(n <= n - 1)
    BY <1>3, <1>4
  <2> HIDE DEF Bad
  <2>2. QED
    BY <1>2, <2>1
<1>6. PICK before : Rounds(r, n - 1, before)
  BY <1>5
<1> DEFINE at == [k \in 0 .. n |-> IF k = n THEN Onward(before[n - 1]) ELSE before[k]]
<1>7. ASSUME NEW k \in 0 .. n
      PROVE  at[k] = IF k = 0 THEN Top(r) ELSE Onward(at[k - 1])
  <2>1. ASSUME NEW j \in 0 .. n - 1
        PROVE  /\ before[j] = (IF j = 0 THEN Top(r) ELSE Onward(before[j - 1]))
               /\ at[j] = before[j]
    <3>1. before[j] = (IF j = 0 THEN Top(r) ELSE Onward(before[j - 1]))
      BY <1>6 DEF Rounds
    <3>2. j \in 0 .. n /\ j # n
      BY <1>3
    <3>3. QED
      BY <3>1, <3>2
  <2>2. CASE k = n
    <3>1. n - 1 \in 0 .. n - 1 /\ n \in 0 .. n
      BY <1>3, <1>4
    <3>2. at[n - 1] = before[n - 1] /\ at[n] = Onward(before[n - 1])
      BY <2>1, <3>1
    <3>3. QED
      BY <1>4, <2>2, <3>2
  <2>3. CASE k # n
    <3>1. k \in 0 .. n - 1
      BY <1>3, <2>3
    <3>2. at[k] = before[k]
      BY <2>1, <3>1
    <3>3. CASE k = 0
      BY <2>1, <3>1, <3>2, <3>3
    <3>4. CASE k # 0
      <4>1. k - 1 \in 0 .. n - 1
        BY <3>1, <3>4
      <4>2. at[k - 1] = before[k - 1]
        BY <2>1, <4>1
      <4>3. QED
        BY <2>1, <3>1, <3>2, <3>4, <4>2
    <3>5. QED
      BY <3>3, <3>4
  <2>4. QED
    BY <2>2, <2>3
<1>8. at = [k \in 0 .. n |-> at[k]]
  OBVIOUS
<1> HIDE DEF at
<1>9. Rounds(r, n, at)
  BY <1>7, <1>8 DEF Rounds
<1>10. QED
  BY <1>3, <1>9

(* The invariant of the loop: f is what x and y make it, the point is     *)
(* within half a pixel of the circle, ...                                  *)
Near(r, s) ==
  LET e == Square(s.x) + Square(s.y) - Square(r)
  IN  /\ s.x \in Nat /\ s.y \in 0 .. r /\ s.x <= r
      /\ s.f \in Int /\ s.dx = 2 * s.x + 1 /\ s.dy = -2 * s.y
      /\ s.f = e + 2 * s.x + 1 - s.y
      /\ -s.y <= e /\ e <= s.y /\ (s.x < s.y => e < s.y)

LEMMA TopIsNear == \A r \in Nat : Near(r, Top(r))
<1> SUFFICES ASSUME NEW r \in Nat PROVE Near(r, Top(r))
  OBVIOUS
<1>1. Square(0) = 0 /\ Square(r) \in Int
  BY DEF Square
<1>2. Square(0) + Square(r) - Square(r) = 0
  BY <1>1
<1>3. /\ Top(r).x = 0 /\ Top(r).y = r /\ Top(r).f = 1 - r /\ Top(r).dx = 1
      /\ Top(r).dy = -2 * r
  BY DEF Top
<1> HIDE DEF Top
<1>4. PICK t, q : t = Top(r) /\ q = Square(r)
  OBVIOUS
<1>5. /\ t.x = 0 /\ t.y = r /\ t.f = 1 - r /\ t.dx = 1 /\ t.dy = -2 * r
      /\ Square(t.x) + Square(t.y) - Square(r) = 0
  BY <1>2, <1>3, <1>4
<1>6. Near(r, t)
  <2>1. PICK e : e = Square(t.x) + Square(t.y) - Square(r)
    OBVIOUS
  <2>2. e = 0
    BY <1>5, <2>1
  <2>3. /\ t.x \in Nat /\ t.y \in 0 .. r /\ t.x <= r
        /\ t.f \in Int /\ t.dx = 2 * t.x + 1 /\ t.dy = -2 * t.y
        /\ t.f = e + 2 * t.x + 1 - t.y
        /\ -t.y <= e /\ e <= t.y /\ (t.x < t.y => e < t.y)
    BY <1>5, <2>2
  <2>4. QED
    BY <2>1, <2>3 DEF Near
<1>7. QED
  BY <1>4, <1>6

LEMMA OnwardIsNear ==
  ASSUME NEW r \in Nat, NEW s, Near(r, s)
  PROVE  /\ Near(r, Onward(s))
         /\ Onward(s).x \in {s.x, s.x + 1} /\ Onward(s).y \in {s.y, s.y - 1}
         /\ s.x >= s.y => Onward(s) = s
         /\ s.x < s.y => Onward(s).x = s.x + 1
<1>1. s.x \in Int /\ s.y \in Int
  BY DEF Near
<1>2. CASE s.x >= s.y
  <2>1. Onward(s) = s
    BY <1>2, ZenonT(60) DEF Onward
  <2>2. ~(s.x < s.y)
    BY <1>1, <1>2
  <2>3. QED
    BY <2>1, <2>2, ZenonT(60)
<1>3. CASE s.x < s.y
  <2>1. PICK x, y, f, dx, dy, e, q, u, v :
          /\ x = s.x /\ y = s.y /\ f = s.f /\ dx = s.dx /\ dy = s.dy
          /\ q = Square(r) /\ u = Square(s.x) /\ v = Square(s.y) /\ e = u + v - q
    OBVIOUS
  <2>2. /\ x \in Nat /\ y \in 0 .. r /\ x < y /\ f \in Int /\ dx = 2 * x + 1 /\ dy = -2 * y
        /\ f = e + 2 * x + 1 - y /\ -y <= e /\ e < y
    BY <1>3, <2>1 DEF Near
  <2>3. q \in Int /\ u \in Int /\ v \in Int /\ e \in Int
    BY <2>1, <2>2 DEF Square
  <2>4. Square(x + 1) = u + 2 * x + 1 /\ Square(y - 1) = v - 2 * y + 1
    BY <2>1, <2>2 DEF Square
  <2>5. CASE f >= 0
    <3>1. Onward(s) = [f |-> f + 1 * (dy + 2) + dx + 2, dx |-> dx + 2, dy |-> dy + 2,
                       x |-> x + 1, y |-> y - 1]
      BY <1>3, <2>1, <2>2, <2>5 DEF Onward
    <3>2. PICK g : g = Square(x + 1) + Square(y - 1) - Square(r)
      OBVIOUS
    <3>3. g = e + 2 * x - 2 * y + 2
      BY <2>1, <2>2, <2>3, <2>4, <3>2
    <3>4. /\ x + 1 \in Nat /\ y - 1 \in 0 .. r /\ x + 1 <= r
          /\ f + 1 * (dy + 2) + dx + 2 \in Int
          /\ dx + 2 = 2 * (x + 1) + 1 /\ dy + 2 = -2 * (y - 1)
          /\ f + 1 * (dy + 2) + dx + 2 = g + 2 * (x + 1) + 1 - (y - 1)
          /\ -(y - 1) <= g /\ g <= y - 1 /\ (x + 1 < y - 1 => g < y - 1)
      BY <2>2, <2>3, <2>5, <3>3
    <3>5. Near(r, Onward(s))
      BY <3>1, <3>2, <3>4 DEF Near
    <3>6. QED
      BY <1>3, <2>1, <2>2, <3>1, <3>5
  <2>6. CASE ~(f >= 0)
    <3>1. Onward(s) = [f |-> f + 0 * (dy + 2 * 0) + dx + 2, dx |-> dx + 2, dy |-> dy + 2 * 0,
                       x |-> x + 1, y |-> y - 0]
      BY <1>3, <2>1, <2>2, <2>6 DEF Onward
    <3>2. PICK g : g = Square(x + 1) + Square(y) - Square(r)
      OBVIOUS
    <3>3. g = e + 2 * x + 1
      BY <2>1, <2>2, <2>3, <2>4, <3>2
    <3>4. f + 0 * (dy + 2 * 0) + dx + 2 = f + dx + 2 /\ dy + 2 * 0 = dy /\ y - 0 = y
      BY <2>2, <2>3
    <3>5. Onward(s) = [f |-> f + dx + 2, dx |-> dx + 2, dy |-> dy, x |-> x + 1, y |-> y]
      BY <3>1, <3>4
    <3>6. /\ x + 1 \in Nat /\ y \in 0 .. r /\ x + 1 <= r
          /\ f + dx + 2 \in Int
          /\ dx + 2 = 2 * (x + 1) + 1 /\ dy = -2 * y
          /\ f + dx + 2 = g + 2 * (x + 1) + 1 - y
          /\ -y <= g /\ g <= y /\ (x + 1 < y => g < y)
      BY <2>2, <2>3, <2>6, <3>3
    <3>7. Near(r, Onward(s))
      BY <3>2, <3>5, <3>6 DEF Near
    <3>8. QED
      BY <1>3, <2>1, <2>2, <3>5, <3>7
  <2>7. QED
    BY <2>5, <2>6
<1>4. QED
  BY <1>1, <1>2, <1>3

(* ... and it stays so all the way. *)
LEMMA RoundsAreNear ==
  ASSUME NEW r \in Nat, NEW at, Rounds(r, r, at)
  PROVE  \A k \in 0 .. r : Near(r, at[k]) /\ (at[k].x = k \/ at[k].x >= at[k].y)
<1> DEFINE Good(k) == Near(r, at[k]) /\ (at[k].x = k \/ at[k].x >= at[k].y)
           Bad == {k \in 0 .. r : ~Good(k)}
<1>1. SUFFICES ASSUME Bad # {} PROVE FALSE
  OBVIOUS
<1>2. PICK k \in Bad : \A j \in Bad : k <= j
  <2>1. Bad \subseteq Nat
    OBVIOUS
  <2> HIDE DEF Bad
  <2>2. QED
    BY <1>1, <2>1, LeastNatural
<1>3. k \in 0 .. r /\ ~Good(k)
  OBVIOUS
<1>4. k # 0
  <2>1. at[0] = Top(r)
    BY DEF Rounds
  <2>2. Top(r).x = 0
    BY DEF Top
  <2>3. Good(0)
    BY <2>1, <2>2, TopIsNear
  <2> HIDE DEF Good
  <2>4. QED
    BY <1>3, <2>3
<1>5. k - 1 \in 0 .. r /\ Good(k - 1)
  <2>1. k - 1 \in 0 .. r /\ ~(k <= k - 1)
    BY <1>3, <1>4
  <2> HIDE DEF Good
  <2>2. QED
    BY <1>2, <2>1
<1>6. PICK s : s = at[k - 1]
  OBVIOUS
<1>7. at[k] = Onward(s)
  BY <1>3, <1>4, <1>6 DEF Rounds
<1>8. Near(r, s) /\ (s.x = k - 1 \/ s.x >= s.y)
  BY <1>5, <1>6
<1>9. Near(r, Onward(s))
  BY <1>8, OnwardIsNear
<1>10. Onward(s).x = k \/ Onward(s).x >= Onward(s).y
  <2>1. s.x \in Int /\ s.y \in Int
    BY <1>8 DEF Near
  <2>2. CASE s.x >= s.y
    BY <1>8, <2>2, OnwardIsNear
  <2>3. CASE s.x < s.y
    <3>1. s.x = k - 1
      BY <1>8, <2>1, <2>3
    <3>2. Onward(s).x = s.x + 1
      BY <1>8, <2>3, OnwardIsNear
    <3>3. QED
      BY <1>3, <3>1, <3>2
  <2>4. QED
    BY <2>1, <2>2, <2>3
<1>11. QED
  BY <1>3, <1>7, <1>9, <1>10

(* Every row and column of the quarter is met. *)
LEMMA RoundsMeetAll ==
  ASSUME NEW r \in Nat, NEW at, Rounds(r, r, at), NEW j \in 0 .. r
  PROVE  \E k \in 0 .. r : at[k].x = j \/ at[k].y = j
<1>1. ASSUME NEW k \in 0 .. r
      PROVE  Near(r, at[k]) /\ at[k].x \in Nat /\ at[k].y \in Nat
  BY RoundsAreNear DEF Near
<1>2. at[0].x = 0 /\ at[0].y = r
  BY DEF Rounds, Top
<1>3. ASSUME NEW k \in 1 .. r
      PROVE  /\ k - 1 \in 0 .. r /\ at[k].x \in {at[k - 1].x, at[k - 1].x + 1}
             /\ at[k].y \in {at[k - 1].y, at[k - 1].y - 1}
  <2>1. k - 1 \in 0 .. r /\ k \in 0 .. r /\ k # 0
    OBVIOUS
  <2>2. at[k] = Onward(at[k - 1])
    BY <2>1 DEF Rounds
  <2>3. QED
    BY <1>1, <2>1, <2>2, OnwardIsNear
<1>4. r \in 0 .. r /\ at[r].y <= at[r].x
  <2>1. r \in 0 .. r
    OBVIOUS
  <2>2. at[r].x = r \/ at[r].x >= at[r].y
    BY <2>1, RoundsAreNear
  <2>3. at[r].y <= r /\ at[r].x \in Nat /\ at[r].y \in Nat
    BY <1>1, <2>1 DEF Near
  <2>4. QED
    BY <2>1, <2>2, <2>3
<1>5. CASE j <= at[r].x
  <2> DEFINE T == {k \in 0 .. r : at[k].x >= j}
  <2>1. T # {} /\ T \subseteq Nat
    BY <1>1, <1>4, <1>5
  <2>2. PICK k \in T : \A l \in T : k <= l
    <3> HIDE DEF T
    <3>1. QED
      BY <2>1, LeastNatural
  <2>3. k \in 0 .. r /\ at[k].x >= j
    OBVIOUS
  <2>4. CASE k = 0
    BY <1>2, <2>3, <2>4
  <2>5. CASE k # 0
    <3>1. k \in 1 .. r /\ k - 1 \in 0 .. r /\ ~(k <= k - 1)
      BY <2>3, <2>5
    <3>2. ~(at[k - 1].x >= j)
      BY <2>2, <3>1
    <3>3. at[k].x = j
      BY <1>1, <1>3, <2>3, <3>1, <3>2
    <3>4. QED
      BY <2>3, <3>3
  <2>6. QED
    BY <2>4, <2>5
<1>6. CASE ~(j <= at[r].x)
  <2> DEFINE T == {k \in 0 .. r : at[k].y <= j}
  <2>1. T # {} /\ T \subseteq Nat
    BY <1>1, <1>4, <1>6
  <2>2. PICK k \in T : \A l \in T : k <= l
    <3> HIDE DEF T
    <3>1. QED
      BY <2>1, LeastNatural
  <2>3. k \in 0 .. r /\ at[k].y <= j
    OBVIOUS
  <2>4. CASE k = 0
    BY <1>2, <2>3, <2>4
  <2>5. CASE k # 0
    <3>1. k \in 1 .. r /\ k - 1 \in 0 .. r /\ ~(k <= k - 1)
      BY <2>3, <2>5
    <3>2. ~(at[k - 1].y <= j)
      BY <2>2, <3>1
    <3>3. at[k].y = j
      BY <1>1, <1>3, <2>3, <3>1, <3>2
    <3>4. QED
      BY <2>3, <3>3
  <2>6. QED
    BY <2>4, <2>5
<1>7. QED
  BY <1>5, <1>6

LEMMA EighthIs ==
  ASSUME NEW r \in Nat
  PROVE  /\ <<0, r>> \in Eighth(r)
         /\ \A p \in Eighth(r) :
              /\ p \in (0 .. r) \X (0 .. r)
              /\ AbsOf(Square(p[1]) + Square(p[2]) - Square(r)) <= r
         /\ \A j \in 0 .. r : \E p \in Eighth(r) : p[1] = j \/ p[2] = j
<1> DEFINE at == CHOOSE f : Rounds(r, r, f)
<1>1. Rounds(r, r, at)
  BY RoundsExist
<1>2. Eighth(r) = {<<at[k].x, at[k].y>> : k \in 0 .. r}
  BY DEF Eighth, Rounds, Top, Onward
<1> HIDE DEF at
<1>3. <<0, r>> \in Eighth(r)
  <2>1. at[0].x = 0 /\ at[0].y = r /\ 0 \in 0 .. r
    BY <1>1 DEF Rounds, Top
  <2>2. QED
    BY <1>2, <2>1
<1>4. ASSUME NEW p \in Eighth(r)
      PROVE  p \in (0 .. r) \X (0 .. r) /\ AbsOf(Square(p[1]) + Square(p[2]) - Square(r)) <= r
  <2>1. PICK k \in 0 .. r : p = <<at[k].x, at[k].y>>
    BY <1>2
  <2>2. PICK x, y, e : x = at[k].x /\ y = at[k].y /\ e = Square(x) + Square(y) - Square(r)
    OBVIOUS
  <2>3. x \in 0 .. r /\ y \in 0 .. r /\ -y <= e /\ e <= y
    BY <1>1, <2>2, RoundsAreNear DEF Near
  <2>4. e \in Int
    BY <2>2, <2>3 DEF Square
  <2>5. AbsOf(e) <= r
    BY <2>3, <2>4, AbsIs
  <2>6. p = <<x, y>>
    BY <2>1, <2>2
  <2>7. QED
    BY <2>2, <2>3, <2>5, <2>6
<1>5. ASSUME NEW j \in 0 .. r PROVE \E p \in Eighth(r) : p[1] = j \/ p[2] = j
  <2>1. PICK k \in 0 .. r : at[k].x = j \/ at[k].y = j
    BY <1>1, RoundsMeetAll
  <2>2. <<at[k].x, at[k].y>> \in Eighth(r)
    BY <1>2
  <2>3. QED
    BY <2>1, <2>2
<1>6. QED
  BY <1>3, <1>4, <1>5

(* How far from the centre, to the side and up or down, a circle has       *)
(* points: the eighth and its image in the diagonal.                       *)
Corner(r) == Eighth(r) \cup {<<p[2], p[1]>> : p \in Eighth(r)}

LEMMA EighthPoint ==
  ASSUME NEW r \in Nat, NEW p \in Eighth(r)
  PROVE  /\ p[1] \in 0 .. r /\ p[2] \in 0 .. r /\ p = <<p[1], p[2]>>
         /\ AbsOf(Square(p[1]) + Square(p[2]) - Square(r)) <= r
         /\ p \in Corner(r) /\ <<p[2], p[1]>> \in Corner(r)
<1>1. p \in (0 .. r) \X (0 .. r) /\ AbsOf(Square(p[1]) + Square(p[2]) - Square(r)) <= r
  BY EighthIs
<1>2. p[1] \in 0 .. r /\ p[2] \in 0 .. r /\ p = <<p[1], p[2]>>
  BY <1>1
<1>3. p \in Corner(r) /\ <<p[2], p[1]>> \in Corner(r)
  BY DEF Corner
<1>4. QED
  BY <1>1, <1>2, <1>3

LEMMA CornerPoint ==
  ASSUME NEW r \in Nat, NEW d \in Corner(r)
  PROVE  /\ d[1] \in 0 .. r /\ d[2] \in 0 .. r /\ d = <<d[1], d[2]>>
         /\ AbsOf(Square(d[1]) + Square(d[2]) - Square(r)) <= r
<1>1. PICK p \in Eighth(r) : d = p \/ d = <<p[2], p[1]>>
  BY DEF Corner
<1>2. /\ p[1] \in 0 .. r /\ p[2] \in 0 .. r /\ p = <<p[1], p[2]>>
      /\ AbsOf(Square(p[1]) + Square(p[2]) - Square(r)) <= r
  BY EighthPoint
<1>3. CASE d = p
  BY <1>2, <1>3
<1>4. CASE d = <<p[2], p[1]>>
  <2>1. d[1] = p[2] /\ d[2] = p[1]
    BY <1>4
  <2>2. d[1] \in 0 .. r /\ d[2] \in 0 .. r /\ d = <<d[1], d[2]>>
    BY <1>2, <1>4, <2>1
  <2>3. PICK u, v, w : u = Square(p[1]) /\ v = Square(p[2]) /\ w = Square(r)
    OBVIOUS
  <2>4. u + v - w = v + u - w
    BY <1>2, <2>3 DEF Square
  <2>5. AbsOf(u + v - w) <= r
    BY <1>2, <2>3
  <2>6. Square(d[1]) = v /\ Square(d[2]) = u
    BY <2>1, <2>3
  <2>7. AbsOf(Square(d[1]) + Square(d[2]) - Square(r)) <= r
    BY <2>3, <2>4, <2>5, <2>6
  <2>8. QED
    BY <2>2, <2>7
<1>5. QED
  BY <1>1, <1>3, <1>4

LEMMA CornerIs ==
  ASSUME NEW r \in Nat
  PROVE  /\ <<0, r>> \in Corner(r) /\ <<r, 0>> \in Corner(r)
         /\ \A j \in 0 .. r : \E d \in Corner(r) : d[2] = j
<1>1. <<0, r>> \in Corner(r) /\ <<r, 0>> \in Corner(r)
  <2>1. <<0, r>> \in Eighth(r)
    BY EighthIs
  <2>2. <<(<<0, r>>)[2], (<<0, r>>)[1]>> \in Corner(r)
    BY <2>1 DEF Corner
  <2>3. QED
    BY <2>1, <2>2 DEF Corner
<1>2. ASSUME NEW j \in 0 .. r PROVE \E d \in Corner(r) : d[2] = j
  <2>1. PICK p \in Eighth(r) : p[1] = j \/ p[2] = j
    BY EighthIs
  <2>2. p \in Corner(r) /\ <<p[2], p[1]>> \in Corner(r) /\ (<<p[2], p[1]>>)[2] = p[1]
    BY DEF Corner
  <2>3. QED
    BY <2>1, <2>2
<1>3. QED
  BY <1>1, <1>2

(* The image of c + a in c, or itself. *)
Mirror(c, s, a) == c + s * a

LEMMA SignIs ==
  ASSUME NEW c \in Int, NEW a \in Nat, NEW x \in Int, AbsOf(x - c) = a
  PROVE  \E s \in {1, -1} : x = Mirror(c, s, a)
<1>1. x = c + 1 * a \/ x = c + (-1) * a
  BY DEF AbsOf
<1>2. QED
  BY <1>1 DEF Mirror

LEMMA SignGone ==
  ASSUME NEW c \in Int, NEW a \in Nat, NEW s \in {1, -1}
  PROVE  LET x == Mirror(c, s, a)
         IN  x \in c - a .. c + a /\ x \in Int /\ AbsOf(x - c) = a
<1>1. CASE s = 1
  BY <1>1 DEF AbsOf, Mirror
<1>2. CASE s = -1
  BY <1>2 DEF AbsOf, Mirror
<1>3. QED
  BY <1>1, <1>2

LEMMA Band ==
  ASSUME NEW c \in Int, NEW a \in Nat, NEW x \in Int
  PROVE  AbsOf(x - c) <= a <=> x \in c - a .. c + a
BY DEF AbsOf

LEMMA OnePixel ==
  ASSUME NEW r \in Nat, NEW x0 \in r .. W - 1 - r, NEW y0 \in r .. H - 1 - r,
         NEW a \in 0 .. r, NEW b \in 0 .. r, NEW sx \in {1, -1}, NEW sy \in {1, -1}
  PROVE  pixel(Mirror(x0, sx, a), Mirror(y0, sy, b))
           = {<<Mirror(x0, sx, a), Mirror(y0, sy, b)>>}
<1>1. W \in Nat /\ H \in Nat /\ x0 \in Int /\ y0 \in Int
  BY GsxAssumption
<1>2. Mirror(x0, sx, a) \in 0 .. W - 1 /\ Mirror(y0, sy, b) \in 0 .. H - 1
  BY <1>1 DEF Mirror
<1>3. QED
  BY <1>2 DEF pixel, Screen

(* The ring of a circle that is on the screen as a whole, ... *)
LEMMA RingIs ==
  ASSUME NEW r \in Nat, NEW x0 \in r .. W - 1 - r, NEW y0 \in r .. H - 1 - r
  PROVE  circle(x0, y0, r, FALSE, "hollow") =
           {q \in Int \X Int : <<AbsOf(q[1] - x0), AbsOf(q[2] - y0)>> \in Corner(r)}
<1> DEFINE ring == circle(x0, y0, r, FALSE, "hollow")
           P(p, sx, sy) == pixel(Mirror(x0, sx, p[1]), Mirror(y0, sy, p[2]))
                             \cup pixel(Mirror(x0, sx, p[2]), Mirror(y0, sy, p[1]))
<1>1. W \in Nat /\ H \in Nat /\ x0 \in Int /\ y0 \in Int
  BY GsxAssumption
<1>2. ring = UNION {UNION {P(p, sx, sy) : sx \in {1, -1}, sy \in {1, -1}} : p \in Eighth(r)}
  BY DEF circle, Mirror
<1>3. ASSUME NEW p \in Eighth(r), NEW sx \in {1, -1}, NEW sy \in {1, -1}
      PROVE  P(p, sx, sy) = {<<Mirror(x0, sx, p[1]), Mirror(y0, sy, p[2])>>,
                             <<Mirror(x0, sx, p[2]), Mirror(y0, sy, p[1])>>}
  <2>1. p[1] \in 0 .. r /\ p[2] \in 0 .. r
    BY EighthPoint
  <2>2. pixel(Mirror(x0, sx, p[1]), Mirror(y0, sy, p[2]))
          = {<<Mirror(x0, sx, p[1]), Mirror(y0, sy, p[2])>>}
    BY <2>1, OnePixel
  <2>3. pixel(Mirror(x0, sx, p[2]), Mirror(y0, sy, p[1]))
          = {<<Mirror(x0, sx, p[2]), Mirror(y0, sy, p[1])>>}
    BY <2>1, OnePixel
  <2>4. QED
    BY <2>2, <2>3
<1> HIDE DEF ring, P
<1> DEFINE All(p) == UNION {P(p, sx, sy) : sx \in {1, -1}, sy \in {1, -1}}
<1>4. ring = UNION {All(p) : p \in Eighth(r)}
  BY <1>2
<1>5. ASSUME NEW p, NEW q
      PROVE  q \in All(p) <=> \E sx \in {1, -1}, sy \in {1, -1} : q \in P(p, sx, sy)
  OBVIOUS
<1> HIDE DEF All
<1>6. ASSUME NEW q PROVE q \in ring <=> \E p \in Eighth(r) : q \in All(p)
  BY <1>4
<1>7. ASSUME NEW q
      PROVE  q \in ring <=> \E p \in Eighth(r), sx \in {1, -1}, sy \in {1, -1} : q \in P(p, sx, sy)
  BY <1>5, <1>6, ZenonT(60)
<1>8. ASSUME NEW q \in ring
      PROVE  q \in Int \X Int /\ <<AbsOf(q[1] - x0), AbsOf(q[2] - y0)>> \in Corner(r)
  <2>1. PICK p \in Eighth(r), sx \in {1, -1}, sy \in {1, -1} : q \in P(p, sx, sy)
    BY <1>7
  <2>2. p[1] \in 0 .. r /\ p[2] \in 0 .. r /\ p \in Corner(r) /\ <<p[2], p[1]>> \in Corner(r)
    BY EighthPoint
  <2>3. PICK d \in Corner(r) : q = <<Mirror(x0, sx, d[1]), Mirror(y0, sy, d[2])>>
    <3>1. \/ q = <<Mirror(x0, sx, p[1]), Mirror(y0, sy, p[2])>>
          \/ q = <<Mirror(x0, sx, p[2]), Mirror(y0, sy, p[1])>>
      BY <1>3, <2>1
    <3>2. QED
      BY <2>2, <3>1
  <2>4. d[1] \in Nat /\ d[2] \in Nat /\ d = <<d[1], d[2]>>
    <3>1. d[1] \in 0 .. r /\ d[2] \in 0 .. r /\ d = <<d[1], d[2]>>
      BY CornerPoint
    <3>2. QED
      BY <3>1
  <2>5. /\ q[1] \in Int /\ q[2] \in Int /\ q = <<q[1], q[2]>>
        /\ q[1] = Mirror(x0, sx, d[1]) /\ q[2] = Mirror(y0, sy, d[2])
    <3>1. Mirror(x0, sx, d[1]) \in Int /\ Mirror(y0, sy, d[2]) \in Int
      BY <1>1, <2>4, SignGone
    <3>2. QED
      BY <2>3, <3>1
  <2>6. AbsOf(q[1] - x0) = d[1] /\ AbsOf(q[2] - y0) = d[2]
    <3>1. /\ AbsOf(Mirror(x0, sx, d[1]) - x0) = d[1]
          /\ AbsOf(Mirror(y0, sy, d[2]) - y0) = d[2]
      BY <1>1, <2>4, SignGone
    <3>2. QED
      BY <2>5, <3>1, ZenonT(60)
  <2>7. <<AbsOf(q[1] - x0), AbsOf(q[2] - y0)>> = d
    BY <2>4, <2>6, ZenonT(60)
  <2>8. q \in Int \X Int
    BY <2>5
  <2>9. QED
    BY <2>7, <2>8
<1>9. ASSUME NEW p \in Eighth(r), NEW sx \in {1, -1}, NEW sy \in {1, -1}
      PROVE  /\ <<Mirror(x0, sx, p[1]), Mirror(y0, sy, p[2])>> \in ring
             /\ <<Mirror(x0, sx, p[2]), Mirror(y0, sy, p[1])>> \in ring
  BY <1>3, <1>7
<1>10. ASSUME NEW q \in Int \X Int, <<AbsOf(q[1] - x0), AbsOf(q[2] - y0)>> \in Corner(r)
       PROVE  q \in ring
  <2>1. PICK d : d = <<AbsOf(q[1] - x0), AbsOf(q[2] - y0)>>
    OBVIOUS
  <2>2. d \in Corner(r) /\ AbsOf(q[1] - x0) = d[1] /\ AbsOf(q[2] - y0) = d[2]
    BY <1>10, <2>1
  <2>3. d[1] \in 0 .. r /\ d[2] \in 0 .. r
    BY <2>2, CornerPoint
  <2>4. q[1] \in Int /\ q[2] \in Int /\ q = <<q[1], q[2]>> /\ d[1] \in Nat /\ d[2] \in Nat
    BY <2>3
  <2>5. PICK sx \in {1, -1} : q[1] = Mirror(x0, sx, d[1])
    BY <1>1, <2>2, <2>4, SignIs
  <2>6. PICK sy \in {1, -1} : q[2] = Mirror(y0, sy, d[2])
    BY <1>1, <2>2, <2>4, SignIs
  <2>7. PICK p \in Eighth(r) : p = d \/ <<p[2], p[1]>> = d
    BY <2>2 DEF Corner
  <2>8. (p[1] = d[1] /\ p[2] = d[2]) \/ (p[2] = d[1] /\ p[1] = d[2])
    BY <2>7
  <2>9. <<Mirror(x0, sx, d[1]), Mirror(y0, sy, d[2])>> \in ring
    BY <1>9, <2>8, ZenonT(60)
  <2>10. QED
    BY <2>4, <2>5, <2>6, <2>9, ZenonT(60)
<1>11. QED
  BY <1>8, <1>10 DEF ring

(* ... and the same circle filled. *)
LEMMA DiscIs ==
  ASSUME NEW r \in Nat, NEW x0 \in r .. W - 1 - r, NEW y0 \in r .. H - 1 - r
  PROVE  \A q : q \in circle(x0, y0, r, TRUE, "solid") <=>
                 /\ q \in Int \X Int
                 /\ \E d \in Corner(r) : AbsOf(q[2] - y0) = d[2] /\ AbsOf(q[1] - x0) <= d[1]
<1> DEFINE ring == circle(x0, y0, r, FALSE, "hollow")
           disc == circle(x0, y0, r, TRUE, "solid")
           Row(a, b, sy) == filled_hline(x0 - a, x0 + a, y0 + sy * b, "solid")
           R(p, sy) == Row(p[1], p[2], sy) \cup Row(p[2], p[1], sy)
           inner == UNION {UNION {R(p, sy) : sy \in {1, -1}} : p \in Eighth(r) \ {<<0, r>>}}
           middle == filled_hline(x0 - r, x0 + r, y0, "solid")
           Within(q, d) == AbsOf(q[2] - y0) = d[2] /\ AbsOf(q[1] - x0) <= d[1]
<1>1. W \in Nat /\ H \in Nat /\ x0 \in Int /\ y0 \in Int
  BY GsxAssumption
<1>2. disc = ring \cup inner \cup middle
  BY DEF circle
<1>3. ASSUME NEW a \in 0 .. r, NEW y \in y0 - r .. y0 + r
      PROVE  filled_hline(x0 - a, x0 + a, y, "solid") = (x0 - a .. x0 + a) \X {y}
  <2>1. /\ x0 - a \in 0 .. W - 1 /\ x0 + a \in 0 .. W - 1 /\ x0 - a <= x0 + a
        /\ y \in 0 .. H - 1
    BY <1>1
  <2>2. filled_hline(x0 - a, x0 + a, y, "solid") = line(x0 - a, y, x0 + a, y)
    BY DEF filled_hline
  <2>3. QED
    BY <2>1, <2>2, RowIs
<1>4. ASSUME NEW a \in 0 .. r, NEW b \in 0 .. r, NEW sy \in {1, -1}
      PROVE  Row(a, b, sy) = (x0 - a .. x0 + a) \X {y0 + sy * b}
  <2>1. y0 + sy * b \in y0 - r .. y0 + r
    BY <1>1
  <2>2. QED
    BY <1>3, <2>1
<1>5. ASSUME NEW a \in 0 .. r, NEW b \in 0 .. r, NEW sy \in {1, -1}, NEW q \in Row(a, b, sy)
      PROVE  q \in Int \X Int /\ AbsOf(q[2] - y0) = b /\ AbsOf(q[1] - x0) <= a
  <2>1. /\ q[1] \in x0 - a .. x0 + a /\ q[2] = y0 + sy * b /\ q = <<q[1], q[2]>>
    BY <1>4
  <2>2. q[1] \in Int /\ q[2] \in Int /\ a \in Nat /\ b \in Nat
    BY <1>1, <2>1
  <2>3. AbsOf(q[2] - y0) = b
    <3>1. AbsOf((y0 + sy * b) - y0) = b
      BY <1>1, <2>2, SignGone DEF Mirror
    <3>2. QED
      BY <2>1, <3>1, ZenonT(60)
  <2>4. AbsOf(q[1] - x0) <= a
    BY <1>1, <2>1, <2>2, Band
  <2>5. QED
    BY <2>1, <2>2, <2>3, <2>4
<1>6. ring = {q \in Int \X Int : <<AbsOf(q[1] - x0), AbsOf(q[2] - y0)>> \in Corner(r)}
  BY RingIs
<1> HIDE DEF disc, ring, inner, middle, Row
<1>7. ASSUME NEW q \in disc PROVE q \in Int \X Int /\ \E d \in Corner(r) : Within(q, d)
  <2>1. CASE q \in ring
    <3>1. q \in Int \X Int /\ <<AbsOf(q[1] - x0), AbsOf(q[2] - y0)>> \in Corner(r)
      BY <1>6, <2>1
    <3>2. AbsOf(q[1] - x0) <= AbsOf(q[1] - x0)
      BY <1>1, <3>1, AbsIs
    <3>3. Within(q, <<AbsOf(q[1] - x0), AbsOf(q[2] - y0)>>)
      BY <3>2
    <3>4. QED
      BY <3>1, <3>3
  <2>2. CASE q \in inner
    <3>1. PICK p \in Eighth(r), sy \in {1, -1} : q \in R(p, sy)
      BY <2>2 DEF inner
    <3>2. /\ p[1] \in 0 .. r /\ p[2] \in 0 .. r /\ p \in Corner(r)
          /\ <<p[2], p[1]>> \in Corner(r)
      BY EighthPoint
    <3>3. CASE q \in Row(p[1], p[2], sy)
      <4>1. q \in Int \X Int /\ Within(q, p)
        BY <1>5, <3>2, <3>3
      <4>2. QED
        BY <3>2, <4>1
    <3>4. CASE q \in Row(p[2], p[1], sy)
      <4>1. q \in Int \X Int /\ Within(q, <<p[2], p[1]>>)
        BY <1>5, <3>2, <3>4
      <4>2. QED
        BY <3>2, <4>1
    <3>5. QED
      BY <3>1, <3>3, <3>4
  <2>3. CASE q \in middle
    <3>1. q \in (x0 - r .. x0 + r) \X {y0}
      BY <1>1, <1>3, <2>3 DEF middle
    <3>2. q[1] \in x0 - r .. x0 + r /\ q[1] \in Int /\ q[2] = y0 /\ q \in Int \X Int
      BY <1>1, <3>1
    <3>3. AbsOf(q[1] - x0) <= r /\ AbsOf(q[2] - y0) = 0
      BY <1>1, <3>2 DEF AbsOf
    <3>4. Within(q, <<r, 0>>)
      BY <3>3
    <3>5. QED
      BY <3>2, <3>4, CornerIs
  <2>4. QED
    BY <1>2, <2>1, <2>2, <2>3
<1>8. ASSUME NEW q \in Int \X Int, NEW d \in Corner(r), Within(q, d) PROVE q \in disc
  <2>1. d[1] \in 0 .. r /\ d[2] \in 0 .. r /\ d = <<d[1], d[2]>>
    BY CornerPoint
  <2>2. q[1] \in Int /\ q[2] \in Int /\ q = <<q[1], q[2]>> /\ d[1] \in Nat /\ d[2] \in Nat
    BY <2>1
  <2>3. PICK sy \in {1, -1} : q[2] = y0 + sy * d[2]
    BY <1>1, <1>8, <2>2, SignIs DEF Mirror
  <2>4. q[1] \in x0 - d[1] .. x0 + d[1]
    BY <1>1, <1>8, <2>2, Band
  <2>5. q \in Row(d[1], d[2], sy)
    BY <1>4, <2>1, <2>2, <2>3, <2>4
  <2>6. CASE d = <<0, r>>
    <3>1. AbsOf(q[1] - x0) = 0 /\ AbsOf(q[2] - y0) = r
      BY <1>1, <1>8, <2>2, <2>6, AbsIs
    <3>2. q \in ring
      BY <1>6, <2>6, <3>1
    <3>3. QED
      BY <1>2, <3>2
  <2>7. CASE d = <<r, 0>>
    <3>1. q \in (x0 - r .. x0 + r) \X {y0}
      <4>1. y0 + sy * d[2] = y0
        BY <1>1, <2>7
      <4>2. q[1] \in x0 - r .. x0 + r /\ q[2] = y0
        BY <2>3, <2>4, <2>7, <4>1
      <4>3. QED
        BY <2>2, <4>2
    <3>2. y0 \in y0 - r .. y0 + r /\ r \in 0 .. r
      BY <1>1
    <3>3. q \in middle
      BY <1>3, <3>1, <3>2 DEF middle
    <3>4. QED
      BY <1>2, <3>3
  <2>8. CASE d # <<0, r>> /\ d # <<r, 0>>
    <3>1. PICK p \in Eighth(r) : p = d \/ <<p[2], p[1]>> = d
      BY DEF Corner
    <3>2. p # <<0, r>>
      BY <2>8, <3>1
    <3>3. q \in R(p, sy)
      BY <2>5, <3>1
    <3>4. q \in inner
      BY <3>2, <3>3 DEF inner
    <3>5. QED
      BY <1>2, <3>4
  <2>9. QED
    BY <2>6, <2>7, <2>8
<1>9. QED
  BY <1>7, <1>8 DEF disc

(* The widest point of a circle in a row. *)
LEMMA Widest ==
  ASSUME NEW r \in Nat, NEW j \in 0 .. r
  PROVE  \E m \in 0 .. r : <<m, j>> \in Corner(r) /\ \A d \in Corner(r) : d[2] = j => d[1] <= m
<1> DEFINE Left == {k \in 0 .. r : <<r - k, j>> \in Corner(r)}
<1>1. ASSUME NEW d \in Corner(r), d[2] = j PROVE r - d[1] \in Left /\ d[1] \in 0 .. r
  <2>1. d[1] \in 0 .. r /\ d = <<d[1], d[2]>>
    BY CornerPoint
  <2>2. r - d[1] \in 0 .. r /\ r - (r - d[1]) = d[1] /\ d = <<d[1], j>>
    BY <1>1, <2>1
  <2>3. <<r - (r - d[1]), j>> \in Corner(r)
    BY <2>2
  <2>4. QED
    BY <2>1, <2>2, <2>3
<1>2. Left # {} /\ Left \subseteq Nat
  <2>1. PICK d \in Corner(r) : d[2] = j
    BY CornerIs
  <2>2. r - d[1] \in Left
    BY <1>1, <2>1
  <2>3. QED
    BY <2>2
<1>3. PICK k \in Left : \A l \in Left : k <= l
  <2> HIDE DEF Left
  <2>1. QED
    BY <1>2, LeastNatural
<1>4. k \in 0 .. r /\ <<r - k, j>> \in Corner(r) /\ r - k \in 0 .. r
  OBVIOUS
<1> HIDE DEF Left
<1>5. ASSUME NEW d \in Corner(r), d[2] = j PROVE d[1] <= r - k
  <2>1. k <= r - d[1] /\ d[1] \in 0 .. r
    BY <1>1, <1>3, <1>5
  <2>2. QED
    BY <1>4, <2>1
<1>6. QED
  BY <1>4, <1>5

LEMMA SquareOfAbs == ASSUME NEW n \in Int PROVE Square(AbsOf(n)) = Square(n)
<1>1. AbsOf(n) = n \/ AbsOf(n) = -n
  BY DEF AbsOf
<1>2. (-n) * (-n) = n * n
  OBVIOUS
<1>3. QED
  BY <1>1, <1>2 DEF Square

(* gfx_circle on every screen that has room for it: the ring is within     *)
(* half a pixel of the radius, runs through every row of its height, and   *)
(* filled solid it is what lies between the ends of each row.              *)
THEOREM CircleIsRound ==
  ASSUME NEW r \in Nat, NEW x0 \in r .. W - 1 - r, NEW y0 \in r .. H - 1 - r
  PROVE  CircleSound(x0, y0, r)
<1> DEFINE ring == circle(x0, y0, r, FALSE, "hollow")
           disc == circle(x0, y0, r, TRUE, "solid")
           Xs(y) == {p[1] : p \in {q \in ring : q[2] = y}}
           rows == y0 - r .. y0 + r
           In(x, y) == <<AbsOf(x - x0), AbsOf(y - y0)>> \in Corner(r)
<1>1. W \in Nat /\ H \in Nat /\ x0 \in Int /\ y0 \in Int /\ r <= x0
  BY GsxAssumption
<1>2. ring = {q \in Int \X Int : In(q[1], q[2])}
  BY RingIs, ZenonT(60)
<1>3. ASSUME NEW q
      PROVE  q \in disc <=>
               /\ q \in Int \X Int
               /\ \E d \in Corner(r) : AbsOf(q[2] - y0) = d[2] /\ AbsOf(q[1] - x0) <= d[1]
  BY DiscIs, ZenonT(60)
<1> HIDE DEF ring, disc
<1>4. ASSUME NEW p \in ring
      PROVE  AbsOf(Square(p[1] - x0) + Square(p[2] - y0) - Square(r)) <= r
  <2>1. PICK d : d = <<AbsOf(p[1] - x0), AbsOf(p[2] - y0)>>
    OBVIOUS
  <2>2. /\ d \in Corner(r) /\ d[1] = AbsOf(p[1] - x0) /\ d[2] = AbsOf(p[2] - y0)
        /\ p[1] - x0 \in Int /\ p[2] - y0 \in Int
    BY <1>1, <1>2, <2>1
  <2>3. AbsOf(Square(d[1]) + Square(d[2]) - Square(r)) <= r
    BY <2>2, CornerPoint
  <2>4. Square(d[1]) = Square(p[1] - x0) /\ Square(d[2]) = Square(p[2] - y0)
    BY <2>2, SquareOfAbs
  <2>5. QED
    BY <2>3, <2>4, ZenonT(60)
<1>5. ASSUME NEW y \in Int, NEW x PROVE x \in Xs(y) <=> x \in Int /\ In(x, y)
  <2>1. x \in Xs(y) <=> \E q \in ring : q[2] = y /\ q[1] = x
    BY ZenonT(60)
  <2> HIDE DEF Xs, In
  <2>2. ASSUME NEW q \in ring, q[2] = y, q[1] = x PROVE x \in Int /\ In(x, y)
    BY <1>2, <2>2
  <2>3. ASSUME x \in Int, In(x, y) PROVE \E q \in ring : q[2] = y /\ q[1] = x
    <3>1. <<x, y>> \in ring /\ (<<x, y>>)[1] = x /\ (<<x, y>>)[2] = y
      BY <1>2, <2>3
    <3>2. QED
      BY <3>1
  <2>4. QED
    BY <2>1, <2>2, <2>3
<1>6. ASSUME NEW y \in rows
      PROVE  \E m \in 0 .. r :
               /\ Xs(y) # {} /\ Min(Xs(y)) = x0 - m /\ Max(Xs(y)) = x0 + m
               /\ \E d \in Corner(r) : AbsOf(y - y0) = d[2] /\ d[1] = m
               /\ \A d \in Corner(r) : AbsOf(y - y0) = d[2] => d[1] <= m
  <2>1. PICK j : j = AbsOf(y - y0)
    OBVIOUS
  <2>2. y \in Int /\ j \in 0 .. r
    BY <1>1, <2>1 DEF AbsOf
  <2>3. PICK m \in 0 .. r : /\ <<m, j>> \in Corner(r)
                            /\ \A d \in Corner(r) : d[2] = j => d[1] <= m
    BY <2>2, Widest
  <2>4. m \in Nat /\ m <= r
    OBVIOUS
  <2>5. x0 - m \in Int /\ AbsOf((x0 - m) - x0) = m /\ x0 + m \in Int /\ AbsOf((x0 + m) - x0) = m
    BY <1>1, <2>4 DEF AbsOf
  <2>6. In(x0 - m, y) /\ In(x0 + m, y)
    BY <2>1, <2>3, <2>5, ZenonT(60)
  <2>7. x0 - m \in Xs(y) /\ x0 + m \in Xs(y)
    <3> HIDE DEF Xs, In
    <3>1. QED
      BY <1>5, <2>2, <2>5, <2>6
  <2>8. ASSUME NEW x \in Xs(y) PROVE x \in x0 - m .. x0 + m
    <3>1. x \in Int /\ In(x, y)
      <4> HIDE DEF Xs, In
      <4>1. QED
        BY <1>5, <2>2, <2>8
    <3>2. <<AbsOf(x - x0), j>> \in Corner(r)
      BY <2>1, <3>1
    <3>3. AbsOf(x - x0) <= m
      BY <2>3, <3>2
    <3>4. QED
      BY <1>1, <2>4, <3>1, <3>3, Band
  <2> HIDE DEF Xs, In
  <2>9. Xs(y) \subseteq Nat /\ (\A x \in Xs(y) : x0 - m <= x) /\ (\A x \in Xs(y) : x0 + m >= x)
    BY <1>1, <2>4, <2>8
  <2>10. Min(Xs(y)) = x0 - m /\ Max(Xs(y)) = x0 + m
    BY <2>7, <2>9, MinIs, MaxIs
  <2>11. \E d \in Corner(r) : AbsOf(y - y0) = d[2] /\ d[1] = m
    <3>1. (<<m, j>>)[1] = m /\ (<<m, j>>)[2] = j
      OBVIOUS
    <3>2. QED
      BY <2>1, <2>3, <3>1
  <2>12. QED
    BY <2>1, <2>3, <2>7, <2>10, <2>11
<1> DEFINE Span(y) == (Min(Xs(y)) .. Max(Xs(y))) \X {y}
<1>7. ASSUME NEW q PROVE q \in disc <=> \E y \in rows : q \in Span(y)
  <2>1. ASSUME q \in disc PROVE \E y \in rows : q \in Span(y)
    <3>1. PICK d \in Corner(r) : /\ q \in Int \X Int /\ AbsOf(q[2] - y0) = d[2]
                                 /\ AbsOf(q[1] - x0) <= d[1]
      BY <1>3, <2>1
    <3>2. /\ d[1] \in 0 .. r /\ d[2] \in 0 .. r /\ q[1] \in Int /\ q[2] \in Int
          /\ q = <<q[1], q[2]>>
      BY <3>1, CornerPoint
    <3>3. q[2] \in rows
      BY <1>1, <3>1, <3>2 DEF AbsOf
    <3>4. PICK m \in 0 .. r :
            /\ Min(Xs(q[2])) = x0 - m /\ Max(Xs(q[2])) = x0 + m
            /\ \A e \in Corner(r) : AbsOf(q[2] - y0) = e[2] => e[1] <= m
      <4> HIDE DEF Xs, rows
      <4>1. QED
        BY <1>6, <3>3
    <3> HIDE DEF Xs, rows
    <3>5. AbsOf(q[1] - x0) <= m
      <4>1. d[1] <= m /\ AbsOf(q[1] - x0) \in Int
        BY <1>1, <3>1, <3>2, <3>4, AbsIs
      <4>2. QED
        BY <3>1, <3>2, <4>1
    <3>6. q[1] \in x0 - m .. x0 + m
      BY <1>1, <3>2, <3>5, Band
    <3>7. q \in Span(q[2])
      BY <3>2, <3>4, <3>6
    <3>8. QED
      BY <3>3, <3>7
  <2>2. ASSUME NEW y \in rows, q \in Span(y) PROVE q \in disc
    <3>1. y \in Int
      BY <1>1
    <3> HIDE DEF rows, Xs
    <3>2. PICK m \in 0 .. r :
            /\ Min(Xs(y)) = x0 - m /\ Max(Xs(y)) = x0 + m
            /\ \E d \in Corner(r) : AbsOf(y - y0) = d[2] /\ d[1] = m
      BY <1>6
    <3>3. q[1] \in x0 - m .. x0 + m /\ q[2] = y /\ q = <<q[1], q[2]>>
      BY <2>2, <3>2
    <3>4. q[1] \in Int /\ AbsOf(q[1] - x0) <= m /\ q \in Int \X Int
      BY <1>1, <3>1, <3>3, Band
    <3>5. \E d \in Corner(r) : AbsOf(q[2] - y0) = d[2] /\ AbsOf(q[1] - x0) <= d[1]
      BY <3>2, <3>3, <3>4
    <3>6. QED
      BY <1>3, <3>4, <3>5
  <2>3. QED
    BY <2>1, <2>2
<1>8. disc = UNION {Span(y) : y \in rows}
  <2> HIDE DEF Span, rows
  <2>1. QED
    BY <1>7
<1>9. \A y \in rows : Xs(y) # {}
  <2> HIDE DEF Xs, rows
  <2>1. QED
    BY <1>6
<1>10. /\ \A p \in ring : AbsOf(Square(p[1] - x0) + Square(p[2] - y0) - Square(r)) <= r
       /\ \A y \in y0 - r .. y0 + r : Xs(y) # {}
       /\ disc = UNION {(Min(Xs(y)) .. Max(Xs(y))) \X {y} : y \in y0 - r .. y0 + r}
  BY <1>4, <1>8, <1>9
<1>11. QED
  BY <1>10, ZenonT(60) DEF CircleSound, ring, disc

-----------------------------------------------------------------------------
(* Fill styles. *)

(* Where a style shows. *)
Shows(style, p) ==
  \/ style = "solid"
  \/ style \in {"horizontal", "cross"} /\ p[2] % 4 = 0
  \/ Inked(style, p[1], p[2])

(* A row of the screen, from t[1] to t[2]. *)
OnScreen(t) == t[1] \in 0 .. W - 1 /\ t[2] \in 0 .. W - 1 /\ t[1] <= t[2] /\ t[3] \in 0 .. H - 1

LEMMA HlineIs ==
  ASSUME NEW t, OnScreen(t), NEW style \in Styles
  PROVE  filled_hline(t[1], t[2], t[3], style) = {p \in (t[1] .. t[2]) \X {t[3]} : Shows(style, p)}
<1> DEFINE row == (t[1] .. t[2]) \X {t[3]}
<1>1. W \in Nat /\ H \in Nat /\ t[1] \in Int /\ t[2] \in Int /\ t[3] \in Int
  BY GsxAssumption DEF OnScreen
<1>2. line(t[1], t[3], t[2], t[3]) = row
  BY RowIs DEF OnScreen
<1>3. row \subseteq Screen /\ \A p \in row : p[2] = t[3]
  BY <1>1 DEF OnScreen, Screen
<1>4. CASE style = "solid" \/ (style \in {"horizontal", "cross"} /\ t[3] % 4 = 0)
  <2>1. filled_hline(t[1], t[2], t[3], style) = row
    BY <1>2, <1>4 DEF filled_hline
  <2>2. \A p \in row : Shows(style, p)
    BY <1>3, <1>4 DEF Shows
  <2>3. QED
    BY <2>1, <2>2
<1>5. CASE ~(style = "solid" \/ (style \in {"horizontal", "cross"} /\ t[3] % 4 = 0))
  <2>1. filled_hline(t[1], t[2], t[3], style) = {p \in row : Inked(style, p[1], t[3])} \cap Screen
    BY <1>5 DEF filled_hline
  <2>2. \A p \in row : Shows(style, p) <=> Inked(style, p[1], t[3])
    BY <1>3, <1>5 DEF Shows
  <2>3. QED
    BY <1>3, <2>1, <2>2
<1>6. QED
  BY <1>4, <1>5

(* Rows, filled. *)
Filled(rows, style) == UNION {filled_hline(t[1], t[2], t[3], style) : t \in rows}

LEMMA FilledIs ==
  ASSUME NEW rows, \A t \in rows : OnScreen(t)
  PROVE  /\ Filled(rows, "hollow") = {}
         /\ \A style \in Styles :
              Filled(rows, style) = {p \in Filled(rows, "solid") : Shows(style, p)}
<1>1. {"hollow", "solid"} \subseteq Styles
  BY DEF Styles
<1>2. \A p : Shows("solid", p) /\ ~Shows("hollow", p)
  BY DEF Shows, Inked
<1>3. ASSUME NEW style \in Styles, NEW t \in rows
      PROVE  filled_hline(t[1], t[2], t[3], style) =
               {p \in filled_hline(t[1], t[2], t[3], "solid") : Shows(style, p)}
  <2>1. filled_hline(t[1], t[2], t[3], style) = {p \in (t[1] .. t[2]) \X {t[3]} : Shows(style, p)}
    BY HlineIs
  <2>2. filled_hline(t[1], t[2], t[3], "solid")
          = {p \in (t[1] .. t[2]) \X {t[3]} : Shows("solid", p)}
    BY <1>1, HlineIs
  <2>3. QED
    BY <1>2, <2>1, <2>2
<1>4. ASSUME NEW style \in Styles
      PROVE  Filled(rows, style) = {p \in Filled(rows, "solid") : Shows(style, p)}
  BY <1>3 DEF Filled
<1>5. Filled(rows, "hollow") = {}
  BY <1>1, <1>2, <1>4
<1>6. QED
  BY <1>4, <1>5

(* What is beside the outline is filled in the style. *)
LEMMA StylesAre ==
  ASSUME NEW outline, NEW rows, \A t \in rows : OnScreen(t), NEW style \in Styles
  PROVE  LET Figure(s) == outline \cup Filled(rows, s)
         IN  Figure(style) \ Figure("hollow")
               = {p \in Figure("solid") \ Figure("hollow") : Shows(style, p)}
<1>1. Filled(rows, "hollow") = {}
  BY FilledIs
<1>2. Filled(rows, style) = {p \in Filled(rows, "solid") : Shows(style, p)}
  BY FilledIs
<1>3. QED
  BY <1>1, <1>2

(* gfx_draw_bar in any style. *)
THEOREM BarsShowStyles ==
  ASSUME NEW llx \in 0 .. W - 1, NEW urx \in 0 .. W - 1, llx <= urx,
         NEW lly \in 0 .. H - 1, NEW ury \in 0 .. H - 1, ury <= lly
  PROVE  StyleSound(LAMBDA s : bar(llx, lly, urx, ury, s))
<1> DEFINE outline == line(llx, lly, llx, ury) \cup line(llx, ury, urx, ury)
                        \cup line(urx, ury, urx, lly) \cup line(urx, lly, llx, lly)
           rows == {<<llx, urx, y>> : y \in ury + 1 .. lly - 1}
<1>1. W \in Nat /\ H \in Nat
  BY GsxAssumption
<1>2. ASSUME NEW style PROVE bar(llx, lly, urx, ury, style) = outline \cup Filled(rows, style)
  <2> DEFINE Hline(t) == filled_hline(t[1], t[2], t[3], style)
             across(y) == <<llx, urx, y>>
  <2>1. Filled(rows, style) = UNION {filled_hline(llx, urx, y, style) : y \in ury + 1 .. lly - 1}
    <3>1. \A y : Hline(across(y)) = filled_hline(llx, urx, y, style)
      OBVIOUS
    <3>2. Filled(rows, style) = UNION {Hline(t) : t \in {across(y) : y \in ury + 1 .. lly - 1}}
      BY DEF Filled
    <3> HIDE DEF Hline, across
    <3>3. UNION {Hline(t) : t \in {across(y) : y \in ury + 1 .. lly - 1}}
            = UNION {Hline(across(y)) : y \in ury + 1 .. lly - 1}
      OBVIOUS
    <3>4. UNION {Hline(across(y)) : y \in ury + 1 .. lly - 1}
            = UNION {filled_hline(llx, urx, y, style) : y \in ury + 1 .. lly - 1}
      BY <3>1
    <3>5. QED
      BY <3>2, <3>3, <3>4
  <2>2. QED
    BY <2>1 DEF bar
<1>3. \A t \in rows : OnScreen(t)
  BY <1>1 DEF OnScreen
<1> HIDE DEF outline, rows
<1>4. ASSUME NEW style \in Styles
      PROVE  bar(llx, lly, urx, ury, style) \ bar(llx, lly, urx, ury, "hollow") =
               {p \in bar(llx, lly, urx, ury, "solid") \ bar(llx, lly, urx, ury, "hollow") :
                  Shows(style, p)}
  <2>1. LET Figure(s) == outline \cup Filled(rows, s)
        IN  Figure(style) \ Figure("hollow")
              = {p \in Figure("solid") \ Figure("hollow") : Shows(style, p)}
    BY <1>3, StylesAre
  <2>2. /\ bar(llx, lly, urx, ury, style) = outline \cup Filled(rows, style)
        /\ bar(llx, lly, urx, ury, "hollow") = outline \cup Filled(rows, "hollow")
        /\ bar(llx, lly, urx, ury, "solid") = outline \cup Filled(rows, "solid")
    BY <1>2
  <2>3. QED
    BY <2>1, <2>2
<1>5. QED
  BY <1>4 DEF StyleSound, Shows

(* gfx_circle in any style. *)
THEOREM CirclesShowStyles ==
  ASSUME NEW r \in Nat, NEW x0 \in r .. W - 1 - r, NEW y0 \in r .. H - 1 - r
  PROVE  StyleSound(LAMBDA s : circle(x0, y0, r, TRUE, s))
<1> DEFINE ring == UNION {UNION {pixel(x0 + sx * p[1], y0 + sy * p[2])
                              \cup pixel(x0 + sx * p[2], y0 + sy * p[1]) :
                              sx \in {1, -1}, sy \in {1, -1}} : p \in Eighth(r)}
           low(p, sy)  == <<x0 - p[1], x0 + p[1], y0 + sy * p[2]>>
           high(p, sy) == <<x0 - p[2], x0 + p[2], y0 + sy * p[1]>>
           points == Eighth(r) \ {<<0, r>>}
           rows == {low(p, sy) : p \in points, sy \in {1, -1}}
                     \cup {high(p, sy) : p \in points, sy \in {1, -1}}
                     \cup {<<x0 - r, x0 + r, y0>>}
           Hline(t, s) == filled_hline(t[1], t[2], t[3], s)
<1>1. W \in Nat /\ H \in Nat /\ x0 \in Int /\ y0 \in Int
  BY GsxAssumption
<1>2. ASSUME NEW style PROVE circle(x0, y0, r, TRUE, style) = ring \cup Filled(rows, style)
  <2> DEFINE inner == UNION {UNION {Hline(low(p, sy), style) \cup Hline(high(p, sy), style) :
                                 sy \in {1, -1}} : p \in points}
  <2>1. circle(x0, y0, r, TRUE, style)
          = ring \cup inner \cup Hline(<<x0 - r, x0 + r, y0>>, style)
    BY DEF circle
  <2> HIDE DEF ring, low, high, points, Hline
  <2>2. Filled(rows, style) = UNION {Hline(t, style) : t \in rows}
    BY DEF Filled, Hline
  <2>3. UNION {Hline(t, style) : t \in rows} = inner \cup Hline(<<x0 - r, x0 + r, y0>>, style)
    <3> DEFINE middle == <<x0 - r, x0 + r, y0>>
               Both(p, sy) == Hline(low(p, sy), style) \cup Hline(high(p, sy), style)
    <3>1. ASSUME NEW q
          PROVE  q \in inner <=> \E p \in points, sy \in {1, -1} : q \in Both(p, sy)
      OBVIOUS
    <3> HIDE DEF middle, inner
    <3>2. ASSUME NEW q
          PROVE  q \in UNION {Hline(t, style) : t \in rows}
                   <=> \/ \E p \in points, sy \in {1, -1} : q \in Both(p, sy)
                       \/ q \in Hline(middle, style)
      <4>1. q \in UNION {Hline(t, style) : t \in rows} <=> \E t \in rows : q \in Hline(t, style)
        OBVIOUS
      <4>2. ASSUME NEW t
            PROVE  t \in rows <=> \/ \E p \in points, sy \in {1, -1} :
                                       t \in {low(p, sy), high(p, sy)}
                                 \/ t = middle
        BY DEF middle
      <4> HIDE DEF rows
      <4>3. QED
        BY <4>1, <4>2, ZenonT(60)
    <3>3. QED
      BY <3>1, <3>2 DEF middle
  <2> HIDE DEF inner, rows
  <2>4. QED
    BY <2>1, <2>2, <2>3
<1>3. ASSUME NEW p \in Eighth(r), NEW sy \in {1, -1}
      PROVE  OnScreen(low(p, sy)) /\ OnScreen(high(p, sy))
  <2>1. p[1] \in 0 .. r /\ p[2] \in 0 .. r
    BY EighthPoint
  <2>2. QED
    BY <1>1, <2>1 DEF OnScreen
<1>4. OnScreen(<<x0 - r, x0 + r, y0>>)
  BY <1>1 DEF OnScreen
<1> HIDE DEF low, high
<1>5. \A t \in rows : OnScreen(t)
  BY <1>3, <1>4
<1> HIDE DEF ring, rows
<1>6. ASSUME NEW style \in Styles
      PROVE  circle(x0, y0, r, TRUE, style) \ circle(x0, y0, r, TRUE, "hollow") =
               {p \in circle(x0, y0, r, TRUE, "solid") \ circle(x0, y0, r, TRUE, "hollow") :
                  Shows(style, p)}
  <2>1. LET Figure(s) == ring \cup Filled(rows, s)
        IN  Figure(style) \ Figure("hollow")
              = {p \in Figure("solid") \ Figure("hollow") : Shows(style, p)}
    BY <1>5, StylesAre
  <2>2. /\ circle(x0, y0, r, TRUE, style) = ring \cup Filled(rows, style)
        /\ circle(x0, y0, r, TRUE, "hollow") = ring \cup Filled(rows, "hollow")
        /\ circle(x0, y0, r, TRUE, "solid") = ring \cup Filled(rows, "solid")
    BY <1>2
  <2>3. QED
    BY <2>1, <2>2
<1>7. QED
  BY <1>6 DEF StyleSound, Shows

-----------------------------------------------------------------------------
(* Polylines and bitmaps. *)

(* A line on the screen joins its ends. *)
LEMMA LineJoins ==
  ASSUME NEW p \in Screen, NEW q \in Screen
  PROVE  {p, q} \subseteq line(p[1], p[2], q[1], q[2])
<1>1. /\ p[1] \in 0 .. W - 1 /\ p[2] \in 0 .. H - 1 /\ p = <<p[1], p[2]>>
      /\ q[1] \in 0 .. W - 1 /\ q[2] \in 0 .. H - 1 /\ q = <<q[1], q[2]>>
      /\ W \in Nat /\ H \in Nat
  BY GsxAssumption DEF Screen
<1>2. /\ Clamped(p[1], W) = p[1] /\ Clamped(p[2], H) = p[2]
      /\ Clamped(q[1], W) = q[1] /\ Clamped(q[2], H) = q[2]
  BY <1>1, ClampedKeeps
<1>3. LineSound(p[1], p[2], q[1], q[2])
  BY <1>1, LineIsExact
<1>4. {<<p[1], p[2]>>, <<q[1], q[2]>>} \subseteq line(p[1], p[2], q[1], q[2])
  BY <1>2, <1>3 DEF LineSound
<1>5. QED
  BY <1>1, <1>4

(* gfx_draw_polyline on every screen passes through all its points. *)
THEOREM PolylineJoinsItsPoints ==
  ASSUME NEW points \in Seq(Screen), Len(points) >= 2
  PROVE  Range(points) \subseteq draw_polyline(points)
<1> DEFINE Part(i) == line(points[i][1], points[i][2], points[i + 1][1], points[i + 1][2])
<1>1. draw_polyline(points) = UNION {Part(i) : i \in 1 .. Len(points) - 1}
  BY DEF draw_polyline
<1>2. Len(points) \in Nat /\ DOMAIN points = 1 .. Len(points)
  OBVIOUS
<1>3. ASSUME NEW i \in 1 .. Len(points) - 1 PROVE {points[i], points[i + 1]} \subseteq Part(i)
  <2>1. points[i] \in Screen /\ points[i + 1] \in Screen
    BY <1>2
  <2>2. QED
    BY <2>1, LineJoins
<1> HIDE DEF Part
<1>4. ASSUME NEW i \in 1 .. Len(points) PROVE points[i] \in draw_polyline(points)
  <2>1. CASE i < Len(points)
    <3>1. i \in 1 .. Len(points) - 1
      BY <1>2, <2>1
    <3>2. QED
      BY <1>1, <1>3, <3>1
  <2>2. CASE i = Len(points)
    <3>1. i - 1 \in 1 .. Len(points) - 1 /\ (i - 1) + 1 = i
      BY <1>2, <2>2
    <3>2. points[i] \in Part(i - 1)
      BY <1>3, <3>1
    <3>3. QED
      BY <1>1, <3>1, <3>2
  <2>3. i < Len(points) \/ i = Len(points)
    <3>1. \A n \in Nat : \A j \in 1 .. n : j < n \/ j = n
      OBVIOUS
    <3>2. QED
      BY <1>2, <3>1, ZenonT(30)
  <2>4. QED
    BY <2>1, <2>2, <2>3
<1>5. QED
  BY <1>2, <1>4 DEF Range

(* gfx_draw_bitmap draws the part of its row that is on the screen. *)
LEMMA BitmapIs ==
  ASSUME NEW x \in Int, NEW y \in Int, NEW w \in Nat
  PROVE  draw_bitmap(x, y, w) = {p \in Screen : p[2] = y /\ p[1] - x \in 0 .. w - 1}
<1>1. W \in Nat /\ H \in Nat
  BY GsxAssumption
<1>2. ASSUME NEW p \in draw_bitmap(x, y, w)
      PROVE  p \in Screen /\ p[2] = y /\ p[1] - x \in 0 .. w - 1
  <2>1. PICK i \in 0 .. w - 1 : p \in pixel(x + i, y)
    BY DEF draw_bitmap
  <2>2. p \in Screen /\ p = <<x + i, y>>
    BY <2>1 DEF pixel
  <2>3. QED
    BY <2>2
<1>3. ASSUME NEW p \in Screen, p[2] = y, p[1] - x \in 0 .. w - 1 PROVE p \in draw_bitmap(x, y, w)
  <2>1. p[1] \in Int /\ p = <<p[1], p[2]>>
    BY <1>1 DEF Screen
  <2>2. p = <<x + (p[1] - x), y>>
    BY <1>3, <2>1
  <2>3. p \in pixel(x + (p[1] - x), y)
    BY <2>2 DEF pixel
  <2>4. QED
    BY <1>3, <2>3 DEF draw_bitmap
<1>4. QED
  BY <1>2, <1>3

-----------------------------------------------------------------------------
(* Markers. *)

(* The points whose distances from x, y are in C. *)
Around(x, y, C) == {q \in Int \X Int : <<AbsOf(q[1] - x), AbsOf(q[2] - y)>> \in C}

LEMMA AroundIsEven ==
  ASSUME NEW x \in Int, NEW y \in Int, NEW C
  PROVE  /\ {<<2 * x - p[1], p[2]>> : p \in Around(x, y, C)} = Around(x, y, C)
         /\ {<<p[1], 2 * y - p[2]>> : p \in Around(x, y, C)} = Around(x, y, C)
<1>1. ASSUME NEW p \in Around(x, y, C)
      PROVE  /\ p[1] \in Int /\ p[2] \in Int /\ p = <<p[1], p[2]>>
             /\ <<2 * x - p[1], p[2]>> \in Around(x, y, C)
             /\ <<p[1], 2 * y - p[2]>> \in Around(x, y, C)
  <2>1. p[1] \in Int /\ p[2] \in Int /\ p = <<p[1], p[2]>>
    BY DEF Around
  <2>2. /\ AbsOf((2 * x - p[1]) - x) = AbsOf(p[1] - x)
        /\ AbsOf((2 * y - p[2]) - y) = AbsOf(p[2] - y)
    BY <2>1 DEF AbsOf
  <2>3. 2 * x - p[1] \in Int /\ 2 * y - p[2] \in Int
    BY <2>1
  <2>4. QED
    BY <2>1, <2>2, <2>3 DEF Around
<1>2. ASSUME NEW p \in Around(x, y, C)
      PROVE  /\ \E q \in Around(x, y, C) : p = <<2 * x - q[1], q[2]>>
             /\ \E q \in Around(x, y, C) : p = <<q[1], 2 * y - q[2]>>
  <2>1. /\ p[1] \in Int /\ p[2] \in Int /\ p = <<p[1], p[2]>>
        /\ <<2 * x - p[1], p[2]>> \in Around(x, y, C)
        /\ <<p[1], 2 * y - p[2]>> \in Around(x, y, C)
    BY <1>1
  <2>2. 2 * x - (2 * x - p[1]) = p[1] /\ 2 * y - (2 * y - p[2]) = p[2]
    BY <2>1
  <2>3. /\ p = <<2 * x - (<<2 * x - p[1], p[2]>>)[1], (<<2 * x - p[1], p[2]>>)[2]>>
        /\ p = <<(<<p[1], 2 * y - p[2]>>)[1], 2 * y - (<<p[1], 2 * y - p[2]>>)[2]>>
    BY <2>1, <2>2
  <2>4. QED
    BY <2>1, <2>3
<1>3. PICK A : A = Around(x, y, C)
  OBVIOUS
<1>4. ASSUME NEW p \in A
      PROVE  /\ <<2 * x - p[1], p[2]>> \in A /\ \E q \in A : p = <<2 * x - q[1], q[2]>>
             /\ <<p[1], 2 * y - p[2]>> \in A /\ \E q \in A : p = <<q[1], 2 * y - q[2]>>
  BY <1>1, <1>2, <1>3
<1>5. {<<2 * x - p[1], p[2]>> : p \in A} = A /\ {<<p[1], 2 * y - p[2]>> : p \in A} = A
  BY <1>4
<1>6. QED
  BY <1>3, <1>5

(* Distances up to arm, and one of them arm. *)
Reaching(C, arm) ==
  C \subseteq (0 .. arm) \X (0 .. arm) /\ \E k \in 0 .. arm : <<arm, k>> \in C

LEMMA AroundReaches ==
  ASSUME NEW x \in Int, NEW y \in Int, NEW arm \in Nat, NEW C, Reaching(C, arm)
  PROVE  Max({p[1] - x : p \in Around(x, y, C)}) = arm
<1> USE DEF Reaching
<1> DEFINE S == {p[1] - x : p \in Around(x, y, C)}
<1>1. ASSUME NEW s \in S PROVE s \in Int /\ s <= arm
  <2>1. PICK p \in Around(x, y, C) : s = p[1] - x
    OBVIOUS
  <2>2. p[1] \in Int /\ <<AbsOf(p[1] - x), AbsOf(p[2] - y)>> \in C
    BY DEF Around
  <2>3. AbsOf(p[1] - x) \in 0 .. arm
    BY <2>2
  <2>4. QED
    BY <2>1, <2>2, <2>3 DEF AbsOf
<1>2. arm \in S
  <2>1. PICK k \in 0 .. arm : <<arm, k>> \in C
    OBVIOUS
  <2>2. AbsOf((x + arm) - x) = arm /\ AbsOf((y + k) - y) = k
    BY DEF AbsOf
  <2>3. <<x + arm, y + k>> \in Around(x, y, C)
    BY <2>1, <2>2 DEF Around
  <2>4. (<<x + arm, y + k>>)[1] - x = arm
    OBVIOUS
  <2>5. QED
    BY <2>3, <2>4
<1> HIDE DEF S
<1>3. \A s \in S : (\A t \in S : s >= t) => s = arm
  BY <1>1, <1>2
<1>4. Max(S) = arm
  BY <1>1, <1>2, <1>3 DEF Max
<1>5. QED
  BY <1>4 DEF S

(* Lines along the two diagonals. *)
Diagonal(x, y, n, away) == {<<x + i, y + away * i>> : i \in 0 .. n}

LEMMA DiagonalStrip ==
  ASSUME NEW u0 \in Int, NEW v0 \in Int, NEW n \in Nat, NEW away \in {1, -1}
  PROVE  /\ Flat(u0, v0, u0 + n, v0 + away * n)
         /\ Strip(FALSE, u0, v0, u0 + n, v0 + away * n) = Diagonal(u0, v0, n, away)
<1> DEFINE u1 == u0 + n
           v1 == v0 + away * n
<1>1. u1 \in Int /\ v1 \in Int /\ u1 - u0 = n /\ v1 - v0 = away * n /\ AbsOf(v1 - v0) = n
  <2>1. CASE away = 1
    BY <2>1 DEF AbsOf
  <2>2. CASE away = -1
    BY <2>2 DEF AbsOf
  <2>3. QED
    BY <2>1, <2>2
<1>2. Flat(u0, v0, u1, v1)
  BY <1>1 DEF Flat
<1> HIDE DEF u1, v1
<1>3. ASSUME NEW i \in 0 .. n PROVE Beside(u0, v0, u1, v1, i) = v0 + away * i
  <2> DEFINE d == Beside(u0, v0, u1, v1, i) - v0
  <2>1. Beside(u0, v0, u1, v1, i) \in Int /\ 2 * AbsOf(i * (away * n) - d * n) <= n
    <3>1. i \in 0 .. u1 - u0
      BY <1>1
    <3>2. LET v == Beside(u0, v0, u1, v1, i)
          IN  v \in Int /\ 2 * AbsOf(i * (v1 - v0) - (v - v0) * (u1 - u0)) <= u1 - u0
      BY <1>2, <3>1, BesideIs, ZenonT(60)
    <3>3. QED
      BY <1>1, <3>2
  <2>2. d \in Int /\ Beside(u0, v0, u1, v1, i) = v0 + d
    BY <2>1
  <2> HIDE DEF d
  <2>3. CASE n = 0
    <3>1. i = 0 /\ away * 0 = 0 /\ v0 + 0 = v0
      BY <2>3
    <3>2. Beside(u0, v0, u1, v1, 0) = v0
      BY <1>2, BesideIs
    <3>3. Beside(u0, v0, u1, v1, i) = v0
      BY <3>1, <3>2, ZenonT(30)
    <3>4. v0 + away * i = v0
      BY <3>1
    <3>5. QED
      BY <3>3, <3>4
  <2>4. CASE n > 0
    <3>1. PICK e \in Int : e = away * i - d
      BY <2>2
    <3>2. i * (away * n) - d * n = e * n
      <4>1. CASE away = 1
        BY <2>2, <3>1, <4>1
      <4>2. CASE away = -1
        BY <2>2, <3>1, <4>2
      <4>3. QED
        BY <4>1, <4>2
    <3>3. 2 * AbsOf(e * n) <= n
      BY <2>1, <3>2
    <3>4. ~(0 < e) /\ ~(e < 0)
      <4>1. e * n \in Int /\ 0 * n = 0
        BY Multiples
      <4>2. ASSUME 0 < e PROVE FALSE
        <5>1. 0 * n + n <= e * n
          BY <2>4, <4>2, Multiples
        <5>2. QED
          BY <2>4, <3>3, <4>1, <5>1 DEF AbsOf
      <4>3. ASSUME e < 0 PROVE FALSE
        <5>1. e * n + n <= 0 * n
          BY <2>4, <4>3, Multiples
        <5>2. QED
          BY <2>4, <3>3, <4>1, <5>1 DEF AbsOf
      <4>4. QED
        BY <4>2, <4>3
    <3>5. QED
      BY <2>2, <3>1, <3>4
  <2>5. QED
    BY <2>3, <2>4
<1>4. Strip(FALSE, u0, v0, u1, v1) = {<<u0 + i, v0 + away * i>> : i \in 0 .. n}
  <2>1. Strip(FALSE, u0, v0, u1, v1) = {<<u0 + i, Beside(u0, v0, u1, v1, i)>> : i \in 0 .. n}
    BY <1>1 DEF Strip, At
  <2>2. QED
    BY <1>3, <2>1
<1>5. QED
  BY <1>2, <1>4 DEF u1, v1, Diagonal

LEMMA DiagonalIs ==
  ASSUME NEW x \in Int, NEW y \in Int, NEW n \in Nat, NEW away \in {1, -1},
         x \in 0 .. W - 1, x + n \in 0 .. W - 1, y \in 0 .. H - 1, y + away * n \in 0 .. H - 1
  PROVE  line(x, y, x + n, y + away * n) = Diagonal(x, y, n, away)
<1> DEFINE p == <<x, y>>
           q == <<x + n, y + away * n>>
<1>1. W \in Nat /\ H \in Nat /\ y + away * n \in Int
  BY GsxAssumption
<1>2. line(x, y, x + n, y + away * n) = Run(p, q)
  <2>1. /\ Clamped(x, W) = x /\ Clamped(x + n, W) = x + n
        /\ Clamped(y, H) = y /\ Clamped(y + away * n, H) = y + away * n
    BY <1>1, ClampedKeeps
  <2>2. QED
    BY <2>1, LineIsRun
<1>3. p \in Int \X Int /\ q \in Int \X Int /\ p[1] = x /\ p[2] = y /\ q[1] = x + n
      /\ q[2] = y + away * n
  BY <1>1
<1>4. Steep(p, q) = FALSE /\ Long(p, q) = 1 /\ Short(p, q) = 2
  <2>1. AbsOf((x + n) - x) = n
    BY DEF AbsOf
  <2>2. AbsOf((y + away * n) - y) = n
    <3>1. CASE away = 1
      BY <3>1 DEF AbsOf
    <3>2. CASE away = -1
      BY <3>2 DEF AbsOf
    <3>3. QED
      BY <3>1, <3>2
  <2>3. Steep(p, q) = FALSE
    BY <2>1, <2>2 DEF Steep
  <2>4. QED
    BY <2>3 DEF Long, Short
<1> HIDE DEF p, q
<1>5. Run(p, q) = RunStrip(p, q)
  <2>1. p[Long(p, q)] <= q[Long(p, q)]
    BY <1>3, <1>4
  <2>2. QED
    BY <1>3, <2>1, RunIs
<1>6. RunStrip(p, q) = Strip(FALSE, x, y, x + n, y + away * n)
  BY <1>3, <1>4 DEF RunStrip
<1>7. Strip(FALSE, x, y, x + n, y + away * n) = Diagonal(x, y, n, away)
  BY DiagonalStrip
<1>8. QED
  BY <1>2, <1>5, <1>6, <1>7

Arms(a)   == {<<i, 0>> : i \in 0 .. a} \cup {<<0, i>> : i \in 0 .. a}
Slants(a) == {<<i, i>> : i \in 0 .. a}

LEMMA PlusIs ==
  ASSUME NEW a \in Nat, NEW x \in a .. W - 1 - a, NEW y \in a .. H - 1 - a
  PROVE  line(x - a, y, x + a, y) \cup line(x, y - a, x, y + a) = Around(x, y, Arms(a))
<1>1. W \in Nat /\ H \in Nat /\ x \in Int /\ y \in Int
  BY GsxAssumption
<1>2. line(x - a, y, x + a, y) = (x - a .. x + a) \X {y}
  <2>1. /\ x - a \in 0 .. W - 1 /\ x + a \in 0 .. W - 1 /\ x - a <= x + a /\ y \in 0 .. H - 1
    BY <1>1
  <2>2. QED
    BY <2>1, RowIs
<1>3. line(x, y - a, x, y + a) = {x} \X (y - a .. y + a)
  <2>1. /\ y - a \in 0 .. H - 1 /\ y + a \in 0 .. H - 1 /\ y - a <= y + a /\ x \in 0 .. W - 1
    BY <1>1
  <2>2. QED
    BY <2>1, ColumnIs
<1>4. ASSUME NEW q \in Around(x, y, Arms(a))
      PROVE  q \in (x - a .. x + a) \X {y} \/ q \in {x} \X (y - a .. y + a)
  <2>1. /\ q[1] \in Int /\ q[2] \in Int /\ q = <<q[1], q[2]>>
        /\ <<AbsOf(q[1] - x), AbsOf(q[2] - y)>> \in Arms(a)
    BY DEF Around
  <2>2. \/ AbsOf(q[1] - x) \in 0 .. a /\ AbsOf(q[2] - y) = 0
        \/ AbsOf(q[1] - x) = 0 /\ AbsOf(q[2] - y) \in 0 .. a
    BY <2>1 DEF Arms
  <2>3. \/ q[1] \in x - a .. x + a /\ q[2] = y
        \/ q[1] = x /\ q[2] \in y - a .. y + a
    BY <1>1, <2>1, <2>2 DEF AbsOf
  <2>4. QED
    BY <2>1, <2>3
<1>5. ASSUME NEW u \in x - a .. x + a PROVE <<u, y>> \in Around(x, y, Arms(a))
  <2>1. u \in Int /\ AbsOf(u - x) \in 0 .. a /\ AbsOf(y - y) = 0
    BY <1>1 DEF AbsOf
  <2>2. <<AbsOf(u - x), AbsOf(y - y)>> \in Arms(a)
    BY <2>1 DEF Arms
  <2>3. QED
    BY <1>1, <2>1, <2>2 DEF Around
<1>6. ASSUME NEW v \in y - a .. y + a PROVE <<x, v>> \in Around(x, y, Arms(a))
  <2>1. v \in Int /\ AbsOf(v - y) \in 0 .. a /\ AbsOf(x - x) = 0
    BY <1>1 DEF AbsOf
  <2>2. <<AbsOf(x - x), AbsOf(v - y)>> \in Arms(a)
    BY <2>1 DEF Arms
  <2>3. QED
    BY <1>1, <2>1, <2>2 DEF Around
<1>7. (x - a .. x + a) \X {y} \cup {x} \X (y - a .. y + a) = Around(x, y, Arms(a))
  BY <1>4, <1>5, <1>6
<1>8. QED
  BY <1>2, <1>3, <1>7

LEMMA CrossIs ==
  ASSUME NEW a \in Nat, NEW x \in a .. W - 1 - a, NEW y \in a .. H - 1 - a
  PROVE  line(x - a, y - a, x + a, y + a) \cup line(x - a, y + a, x + a, y - a)
           = Around(x, y, Slants(a))
<1> DEFINE n == 2 * a
<1>1. W \in Nat /\ H \in Nat /\ x \in Int /\ y \in Int /\ n \in Nat
  BY GsxAssumption
<1>2. line(x - a, y - a, x + a, y + a) = Diagonal(x - a, y - a, n, 1)
  <2>1. x + a = (x - a) + n /\ y + a = (y - a) + 1 * n
    BY <1>1
  <2>2. /\ x - a \in Int /\ y - a \in Int /\ x - a \in 0 .. W - 1 /\ (x - a) + n \in 0 .. W - 1
        /\ y - a \in 0 .. H - 1 /\ (y - a) + 1 * n \in 0 .. H - 1
    BY <1>1
  <2>3. line(x - a, y - a, (x - a) + n, (y - a) + 1 * n) = Diagonal(x - a, y - a, n, 1)
    <3> HIDE DEF n
    <3>1. QED
      BY <1>1, <2>2, DiagonalIs
  <2> HIDE DEF n
  <2>4. QED
    BY <2>1, <2>3
<1>3. line(x - a, y + a, x + a, y - a) = Diagonal(x - a, y + a, n, -1)
  <2>1. x + a = (x - a) + n /\ y - a = (y + a) + (-1) * n
    BY <1>1
  <2>2. /\ x - a \in Int /\ y + a \in Int /\ x - a \in 0 .. W - 1 /\ (x - a) + n \in 0 .. W - 1
        /\ y + a \in 0 .. H - 1 /\ (y + a) + (-1) * n \in 0 .. H - 1
    BY <1>1
  <2>3. line(x - a, y + a, (x - a) + n, (y + a) + (-1) * n) = Diagonal(x - a, y + a, n, -1)
    <3> HIDE DEF n
    <3>1. QED
      BY <1>1, <2>2, DiagonalIs
  <2> HIDE DEF n
  <2>4. QED
    BY <2>1, <2>3
<1>4. ASSUME NEW q
      PROVE  q \in Diagonal(x - a, y - a, n, 1)
               <=> q \in Int \X Int /\ q[1] - x \in -a .. a /\ q[2] - y = q[1] - x
  <2>1. ASSUME NEW i \in 0 .. n, q = <<(x - a) + i, (y - a) + 1 * i>>
        PROVE  q \in Int \X Int /\ q[1] - x \in -a .. a /\ q[2] - y = q[1] - x
    BY <1>1, <2>1
  <2>2. ASSUME q \in Int \X Int, q[1] - x \in -a .. a, q[2] - y = q[1] - x
        PROVE  \E i \in 0 .. n : q = <<(x - a) + i, (y - a) + 1 * i>>
    <3>1. PICK i \in 0 .. n : i = q[1] - x + a
      BY <1>1, <2>2
    <3>2. q[1] = (x - a) + i /\ q[2] = (y - a) + 1 * i /\ q = <<q[1], q[2]>>
      BY <1>1, <2>2, <3>1
    <3>3. QED
      BY <3>2
  <2>3. QED
    BY <2>1, <2>2 DEF Diagonal
<1>5. ASSUME NEW q
      PROVE  q \in Diagonal(x - a, y + a, n, -1)
               <=> q \in Int \X Int /\ q[1] - x \in -a .. a /\ q[2] - y = -(q[1] - x)
  <2>1. ASSUME NEW i \in 0 .. n, q = <<(x - a) + i, (y + a) + (-1) * i>>
        PROVE  q \in Int \X Int /\ q[1] - x \in -a .. a /\ q[2] - y = -(q[1] - x)
    BY <1>1, <2>1
  <2>2. ASSUME q \in Int \X Int, q[1] - x \in -a .. a, q[2] - y = -(q[1] - x)
        PROVE  \E i \in 0 .. n : q = <<(x - a) + i, (y + a) + (-1) * i>>
    <3>1. PICK i \in 0 .. n : i = q[1] - x + a
      BY <1>1, <2>2
    <3>2. q[1] = (x - a) + i /\ q[2] = (y + a) + (-1) * i /\ q = <<q[1], q[2]>>
      BY <1>1, <2>2, <3>1
    <3>3. QED
      BY <3>2
  <2>3. QED
    BY <2>1, <2>2 DEF Diagonal
<1>6. ASSUME NEW q
      PROVE  q \in Around(x, y, Slants(a))
               <=> /\ q \in Int \X Int /\ q[1] - x \in -a .. a
                   /\ q[2] - y = q[1] - x \/ q[2] - y = -(q[1] - x)
  <2>1. <<AbsOf(q[1] - x), AbsOf(q[2] - y)>> \in Slants(a)
          <=> AbsOf(q[1] - x) \in 0 .. a /\ AbsOf(q[2] - y) = AbsOf(q[1] - x)
    BY DEF Slants
  <2>2. ASSUME q \in Int \X Int
        PROVE  AbsOf(q[1] - x) \in 0 .. a /\ AbsOf(q[2] - y) = AbsOf(q[1] - x)
                 <=> /\ q[1] - x \in -a .. a
                     /\ q[2] - y = q[1] - x \/ q[2] - y = -(q[1] - x)
    <3>1. q[1] \in Int /\ q[2] \in Int
      BY <2>2
    <3>2. QED
      BY <1>1, <3>1 DEF AbsOf
  <2>3. QED
    BY <2>1, <2>2 DEF Around
<1> HIDE DEF n
<1>7. Diagonal(x - a, y - a, n, 1) \cup Diagonal(x - a, y + a, n, -1) = Around(x, y, Slants(a))
  BY <1>4, <1>5, <1>6
<1>8. QED
  BY <1>2, <1>3, <1>7

LEMMA RingIsAround ==
  ASSUME NEW r \in Nat, NEW x0 \in r .. W - 1 - r, NEW y0 \in r .. H - 1 - r
  PROVE  circle(x0, y0, r, FALSE, "hollow") = Around(x0, y0, Corner(r))
BY RingIs DEF Around

(* gfx_draw_polymarkers: a marker that is on the screen looks the same in  *)
(* a mirror and is as large as its arms, whatever its height.              *)
THEOREM MarkersAreEven ==
  ASSUME NEW height \in Nat, NEW style \in Markers,
         NEW x \in MarkerArm(height) .. W - 1 - MarkerArm(height),
         NEW y \in MarkerArm(height) .. H - 1 - MarkerArm(height)
  PROVE  MarkerSound(style, x, y, height)
<1> DEFINE half  == MarkerArm(height)
           short == (half * 707) \div 1000
           drawn == marker(style, x, y, height)
           arm   == IF style = "dot" THEN 0 ELSE half
           Drawn(C) == drawn = Around(x, y, C) /\ Reaching(C, arm)
<1>1. /\ W \in Nat /\ H \in Nat /\ half \in Nat /\ short \in Nat /\ short <= half
      /\ x \in half .. W - 1 - half /\ y \in half .. H - 1 - half
  <2>1. height # 0 => height - 1 \in Nat
    OBVIOUS
  <2>2. half \in Nat
    BY <2>1 DEF MarkerArm
  <2> HIDE DEF half
  <2>3. short \in Nat /\ short <= half
    BY <2>2
  <2>4. QED
    BY <2>2, <2>3, GsxAssumption DEF half
<1>2. x \in Int /\ y \in Int /\ x \in short .. W - 1 - short /\ y \in short .. H - 1 - short
  <2> HIDE DEF half, short
  <2>1. QED
    BY <1>1
<1>3. ASSUME style = "dot" PROVE \E C : Drawn(C)
  <2>1. drawn = pixel(x, y) /\ arm = 0
    BY <1>3 DEF marker
  <2>2. x \in 0 .. W - 1 /\ y \in 0 .. H - 1
    <3> HIDE DEF half
    <3>1. QED
      BY <1>1, <1>2
  <2>3. pixel(x, y) = {<<x, y>>}
    BY <2>2 DEF pixel, Screen
  <2>4. Around(x, y, {<<0, 0>>}) = {<<x, y>>}
    <3>1. \A q \in Int \X Int : <<AbsOf(q[1] - x), AbsOf(q[2] - y)>> = <<0, 0>> <=> q = <<x, y>>
      <4>1. ASSUME NEW q \in Int \X Int
            PROVE  AbsOf(q[1] - x) = 0 /\ AbsOf(q[2] - y) = 0 <=> q[1] = x /\ q[2] = y
        BY <1>2 DEF AbsOf
      <4>2. QED
        BY <4>1
    <3>2. <<x, y>> \in Int \X Int
      BY <1>2
    <3>3. QED
      BY <3>1, <3>2 DEF Around
  <2>5. Drawn({<<0, 0>>})
    <3> HIDE DEF drawn, arm
    <3>1. drawn = Around(x, y, {<<0, 0>>}) /\ 0 \in 0 .. 0
      BY <2>1, <2>3, <2>4
    <3>2. QED
      BY <2>1, <3>1 DEF Reaching
  <2>6. QED
    BY <2>5
<1>4. ASSUME style = "plus" PROVE \E C : Drawn(C)
  <2>1. drawn = Around(x, y, Arms(half)) /\ arm = half
    BY <1>1, <1>4, PlusIs DEF marker
  <2>2. Arms(half) \in SUBSET ((0 .. half) \X (0 .. half)) /\ <<half, 0>> \in Arms(half)
    BY <1>1 DEF Arms
  <2> HIDE DEF drawn, arm, half
  <2>3. QED
    BY <1>1, <2>1, <2>2 DEF Reaching
<1>5. ASSUME style = "cross" PROVE \E C : Drawn(C)
  <2>1. drawn = Around(x, y, Slants(half)) /\ arm = half
    BY <1>1, <1>5, CrossIs DEF marker
  <2>2. Slants(half) \in SUBSET ((0 .. half) \X (0 .. half)) /\ <<half, half>> \in Slants(half)
    BY <1>1 DEF Slants
  <2> HIDE DEF drawn, arm, half
  <2>3. QED
    BY <1>1, <2>1, <2>2 DEF Reaching
<1>6. ASSUME style = "asterisk" PROVE \E C : Drawn(C)
  <2>1. drawn = Around(x, y, Arms(half)) \cup Around(x, y, Slants(short)) /\ arm = half
    <3>1. drawn = (line(x - half, y, x + half, y) \cup line(x, y - half, x, y + half))
                    \cup (line(x - short, y - short, x + short, y + short)
                            \cup line(x - short, y + short, x + short, y - short))
      BY <1>6 DEF marker
    <3>2. line(x - half, y, x + half, y) \cup line(x, y - half, x, y + half)
            = Around(x, y, Arms(half))
      <4> HIDE DEF half
      <4>1. QED
        BY <1>1, PlusIs
    <3>3. line(x - short, y - short, x + short, y + short)
            \cup line(x - short, y + short, x + short, y - short) = Around(x, y, Slants(short))
      <4> HIDE DEF half, short
      <4>1. QED
        BY <1>1, <1>2, CrossIs
    <3>4. arm = half
      BY <1>6
    <3> HIDE DEF drawn, half, short
    <3>5. QED
      BY <3>1, <3>2, <3>3, <3>4
  <2>2. Around(x, y, Arms(half)) \cup Around(x, y, Slants(short))
          = Around(x, y, Arms(half) \cup Slants(short))
    BY DEF Around
  <2> HIDE DEF drawn, arm, half, short
  <2>3. /\ Arms(half) \in SUBSET ((0 .. half) \X (0 .. half)) /\ <<half, 0>> \in Arms(half)
        /\ Slants(short) \in SUBSET ((0 .. half) \X (0 .. half)) /\ 0 \in 0 .. half
    BY <1>1 DEF Arms, Slants
  <2>4. Drawn(Arms(half) \cup Slants(short))
    BY <2>1, <2>2, <2>3 DEF Reaching
  <2>5. QED
    BY <2>4
<1>7. ASSUME style = "circle" PROVE \E C : Drawn(C)
  <2>1. drawn = Around(x, y, Corner(half)) /\ arm = half
    <3>1. drawn = circle(x, y, half, FALSE, "hollow") /\ arm = half
      BY <1>7 DEF marker
    <3> HIDE DEF drawn, half
    <3>2. PICK n \in Nat : n = half /\ x \in n .. W - 1 - n /\ y \in n .. H - 1 - n
      BY <1>1
    <3>3. circle(x, y, n, FALSE, "hollow") = Around(x, y, Corner(n))
      BY <3>2, RingIsAround
    <3>4. QED
      BY <3>1, <3>2, <3>3, Zenon
  <2> HIDE DEF drawn, arm, half
  <2>2. Corner(half) \in SUBSET ((0 .. half) \X (0 .. half)) /\ <<half, 0>> \in Corner(half)
    <3>1. ASSUME NEW d \in Corner(half) PROVE d \in (0 .. half) \X (0 .. half)
      <4>1. d[1] \in 0 .. half /\ d[2] \in 0 .. half /\ d = <<d[1], d[2]>>
        BY <1>1, CornerPoint
      <4>2. QED
        BY <4>1
    <3>2. PICK n \in Nat : n = half
      BY <1>1
    <3>3. <<n, 0>> \in Corner(n)
      BY CornerIs
    <3>4. QED
      BY <3>1, <3>2, <3>3
  <2>3. QED
    BY <1>1, <2>1, <2>2 DEF Reaching
<1>8. \E C : Drawn(C)
  <2> HIDE DEF Drawn
  <2>1. QED
    BY <1>3, <1>4, <1>5, <1>6, <1>7 DEF Markers
<1>9. arm \in Nat
  <2> HIDE DEF half
  <2>1. QED
    BY <1>1
<1> HIDE DEF drawn, arm, half
<1>10. PICK C : Drawn(C)
  BY <1>8
<1>11. drawn = Around(x, y, C) /\ Reaching(C, arm)
  BY <1>10
<1> HIDE DEF Drawn
<1>12. /\ {<<2 * x - p[1], p[2]>> : p \in drawn} = drawn
       /\ {<<p[1], 2 * y - p[2]>> : p \in drawn} = drawn
  <2>1. /\ {<<2 * x - p[1], p[2]>> : p \in Around(x, y, C)} = Around(x, y, C)
        /\ {<<p[1], 2 * y - p[2]>> : p \in Around(x, y, C)} = Around(x, y, C)
    BY <1>2, AroundIsEven
  <2>2. QED
    BY <1>11, <2>1, Zenon
<1>13. Max({p[1] - x : p \in drawn}) = arm
  <2>1. Max({p[1] - x : p \in Around(x, y, C)}) = arm
    BY <1>2, <1>9, <1>11, AroundReaches
  <2>2. PICK A : A = Around(x, y, C) /\ A = drawn
    BY <1>11, Zenon
  <2>3. Max({p[1] - x : p \in A}) = arm
    BY <2>1, <2>2
  <2>4. QED
    BY <2>2, <2>3
<1>14. QED
  BY <1>12, <1>13 DEF MarkerSound, drawn, arm, half

-----------------------------------------------------------------------------
(* Text. *)

(* The pixels of a text from its start: so far along, and so far down.     *)
Stroke(i, g, a, b, size, height) ==
  <<i * FONT_WIDTH * size + (g[1] * size + a), (g[2] * size + b) - (height - 1)>>

Strokes(n, size, height) ==
  {Stroke(i, g, a, b, size, height) : i \in 0 .. n - 1, g \in Glyph,
                                      a \in 0 .. size - 1, b \in 0 .. size - 1}

(* n characters that reach no further than R. *)
Legible(n, size, height, R) ==
  /\ n \in Nat \ {0} /\ size \in Nat \ {0} /\ height \in Nat \ {0} /\ R \in Nat
  /\ Glyph # {} /\ Glyph \subseteq (0 .. FONT_WIDTH - 1) \X Nat
  /\ \A g \in Glyph : g[2] * size + size <= height
  /\ n * FONT_WIDTH * size <= R + 1 /\ height <= R + 1

LEMMA StrokeReaches ==
  ASSUME NEW n, NEW size, NEW height, NEW R, Legible(n, size, height, R),
         NEW i \in 0 .. n - 1, NEW g \in Glyph, NEW a \in 0 .. size - 1, NEW b \in 0 .. size - 1
  PROVE  LET s == Stroke(i, g, a, b, size, height)
         IN  s[1] \in 0 .. R /\ s[2] \in -R .. 0
<1>1. /\ n \in Nat /\ size \in Nat /\ size > 0 /\ height \in Nat /\ R \in Nat
      /\ g[1] \in 0 .. FONT_WIDTH - 1 /\ g[2] \in Nat /\ g[2] * size + size <= height
      /\ FONT_WIDTH \in Nat /\ FONT_WIDTH > 0
  BY GsxAssumption DEF Legible
<1>2. /\ i * FONT_WIDTH \in Nat /\ n * FONT_WIDTH \in Nat
      /\ i * FONT_WIDTH + FONT_WIDTH <= n * FONT_WIDTH
  <2>1. i \in Int /\ i < n
    BY <1>1
  <2>2. i * FONT_WIDTH + FONT_WIDTH <= n * FONT_WIDTH
    BY <1>1, <2>1, Multiples
  <2>3. QED
    BY <1>1, <2>1, <2>2
<1>3. PICK j \in Nat : j = i * FONT_WIDTH
  BY <1>2
<1>4. PICK w \in Nat : w = n * FONT_WIDTH
  BY <1>2
<1>5. j + g[1] < w
  BY <1>1, <1>2, <1>3, <1>4
<1>6. (j + g[1]) * size = j * size + g[1] * size
  BY <1>1
<1>7. (j + g[1]) * size + size <= w * size
  BY <1>1, <1>5, Multiples
<1>8. j * size \in Nat /\ g[1] * size \in Nat /\ g[2] * size \in Nat /\ w * size <= R + 1
      /\ height <= R + 1 /\ w * size \in Nat
  BY <1>1, <1>4 DEF Legible
<1>9. j * size + (g[1] * size + a) \in 0 .. R
  <2>1. PICK p \in Nat, q \in Nat, v \in Nat : p = j * size /\ q = g[1] * size /\ v = w * size
    BY <1>8
  <2>2. p + q + size <= v /\ v <= R + 1
    BY <1>6, <1>7, <1>8, <2>1
  <2>3. p + (q + a) \in 0 .. R
    BY <1>1, <2>2
  <2>4. QED
    BY <2>1, <2>3
<1>10. (g[2] * size + b) - (height - 1) \in -R .. 0
  <2>1. PICK q \in Nat : q = g[2] * size
    BY <1>8
  <2>2. q + size <= height /\ height <= R + 1
    BY <1>1, <1>8, <2>1
  <2>3. (q + b) - (height - 1) \in -R .. 0
    BY <1>1, <2>2
  <2>4. QED
    BY <2>1, <2>3
<1>11. QED
  BY <1>3, <1>9, <1>10 DEF Stroke

(* Where a stroke is drawn. *)
Placed(x, y, direction, s) ==
  IF direction = 900 THEN <<x + s[2], y - s[1]>>
  ELSE IF direction = 1800 THEN <<x - s[1], y - s[2]>>
  ELSE IF direction = 2700 THEN <<x - s[2], y + s[1]>>
  ELSE <<x + s[1], y + s[2]>>

LEMMA TextIs ==
  ASSUME NEW n, NEW size, NEW height, NEW R, Legible(n, size, height, R),
         NEW x \in R .. W - 1 - R, NEW y \in R .. H - 1 - R, NEW direction \in {0, 900, 1800, 2700}
  PROVE  draw_text(n, x, y, direction, size, height)
           = {Placed(x, y, direction, s) : s \in Strokes(n, size, height)}
<1> DEFINE rise == height - 1
           Set(i, xx, yy) ==
             CASE direction = 900  -> pixel(x - rise + yy, y - i * FONT_WIDTH * size - xx)
               [] direction = 1800 -> pixel(x - i * FONT_WIDTH * size - xx, y + rise - yy)
               [] direction = 2700 -> pixel(x + rise - yy, y + i * FONT_WIDTH * size + xx)
               [] OTHER            -> pixel(x + i * FONT_WIDTH * size + xx, y - rise + yy)
           Part(i, g, a, b) == Set(i, g[1] * size + a, g[2] * size + b)
           drawn == draw_text(n, x, y, direction, size, height)
           S(i, g, a, b) == Stroke(i, g, a, b, size, height)
<1>1. /\ W \in Nat /\ H \in Nat /\ x \in Int /\ y \in Int /\ R \in Nat
      /\ n \in Nat /\ size \in Nat /\ height \in Nat /\ FONT_WIDTH \in Nat
  BY GsxAssumption DEF Legible
<1>2. drawn = UNION {Part(i, g, a, b) : i \in 0 .. n - 1, g \in Glyph,
                                        a \in 0 .. size - 1, b \in 0 .. size - 1}
  BY DEF draw_text
<1>3. ASSUME NEW i \in 0 .. n - 1, NEW g \in Glyph, NEW a \in 0 .. size - 1, NEW b \in 0 .. size - 1
      PROVE  Part(i, g, a, b) = {Placed(x, y, direction, S(i, g, a, b))}
  <2>1. PICK along : along = i * FONT_WIDTH * size
    OBVIOUS
  <2>2. PICK xx : xx = g[1] * size + a
    OBVIOUS
  <2>3. PICK yy : yy = g[2] * size + b
    OBVIOUS
  <2>4. along \in Int /\ xx \in Int /\ yy \in Int /\ rise \in Int
    <3>1. g[1] \in Nat /\ g[2] \in Nat
      BY <1>1 DEF Legible
    <3>2. i * FONT_WIDTH \in Nat
      BY <1>1
    <3>3. i * FONT_WIDTH * size \in Nat /\ g[1] * size \in Nat /\ g[2] * size \in Nat
      BY <1>1, <3>1, <3>2
    <3>4. QED
      BY <1>1, <2>1, <2>2, <2>3, <3>3
  <2>5. S(i, g, a, b) = <<along + xx, yy - rise>>
    BY <2>1, <2>2, <2>3 DEF Stroke
  <2>6. along + xx \in 0 .. R /\ yy - rise \in -R .. 0
    <3>1. LET s == Stroke(i, g, a, b, size, height)
          IN  s[1] \in 0 .. R /\ s[2] \in -R .. 0
      BY StrokeReaches
    <3> HIDE DEF rise
    <3>2. QED
      BY <2>5, <3>1
  <2>7. Part(i, g, a, b) = CASE direction = 900  -> pixel(x - rise + yy, y - along - xx)
                             [] direction = 1800 -> pixel(x - along - xx, y + rise - yy)
                             [] direction = 2700 -> pixel(x + rise - yy, y + along + xx)
                             [] OTHER            -> pixel(x + along + xx, y - rise + yy)
    BY <2>1, <2>2, <2>3
  <2> HIDE DEF rise, Part, S
  <2>8. ASSUME NEW u \in Int, NEW v \in Int, u \in x - R .. x + R, v \in y - R .. y + R
        PROVE  pixel(u, v) = {<<u, v>>}
    <3>1. u \in 0 .. W - 1 /\ v \in 0 .. H - 1
      BY <1>1, <2>8
    <3>2. QED
      BY <3>1 DEF pixel, Screen
  <2>9. CASE direction = 900
    <3>1. x - rise + yy = x + (yy - rise) /\ y - along - xx = y - (along + xx)
      BY <1>1, <2>4
    <3>2. Part(i, g, a, b) = pixel(x + (yy - rise), y - (along + xx))
      BY <2>7, <2>9, <3>1
    <3>3. pixel(x + (yy - rise), y - (along + xx)) = {<<x + (yy - rise), y - (along + xx)>>}
      BY <1>1, <2>4, <2>6, <2>8
    <3>4. QED
      BY <2>5, <2>9, <3>2, <3>3 DEF Placed
  <2>10. CASE direction = 1800
    <3>1. x - along - xx = x - (along + xx) /\ y + rise - yy = y - (yy - rise)
      BY <1>1, <2>4
    <3>2. Part(i, g, a, b) = pixel(x - (along + xx), y - (yy - rise))
      BY <2>7, <2>10, <3>1
    <3>3. pixel(x - (along + xx), y - (yy - rise)) = {<<x - (along + xx), y - (yy - rise)>>}
      BY <1>1, <2>4, <2>6, <2>8
    <3>4. QED
      BY <2>5, <2>10, <3>2, <3>3 DEF Placed
  <2>11. CASE direction = 2700
    <3>1. x + rise - yy = x - (yy - rise) /\ y + along + xx = y + (along + xx)
      BY <1>1, <2>4
    <3>2. Part(i, g, a, b) = pixel(x - (yy - rise), y + (along + xx))
      BY <2>7, <2>11, <3>1
    <3>3. pixel(x - (yy - rise), y + (along + xx)) = {<<x - (yy - rise), y + (along + xx)>>}
      BY <1>1, <2>4, <2>6, <2>8
    <3>4. QED
      BY <2>5, <2>11, <3>2, <3>3 DEF Placed
  <2>12. CASE direction = 0
    <3>1. x + along + xx = x + (along + xx) /\ y - rise + yy = y + (yy - rise)
      BY <1>1, <2>4
    <3>2. Part(i, g, a, b) = pixel(x + (along + xx), y + (yy - rise))
      BY <2>7, <2>12, <3>1
    <3>3. pixel(x + (along + xx), y + (yy - rise)) = {<<x + (along + xx), y + (yy - rise)>>}
      BY <1>1, <2>4, <2>6, <2>8
    <3>4. QED
      BY <2>5, <2>12, <3>2, <3>3 DEF Placed
  <2>13. QED
    BY <2>9, <2>10, <2>11, <2>12
<1> HIDE DEF Part, S
<1>4. UNION {Part(i, g, a, b) : i \in 0 .. n - 1, g \in Glyph,
                                a \in 0 .. size - 1, b \in 0 .. size - 1}
        = {Placed(x, y, direction, S(i, g, a, b)) : i \in 0 .. n - 1, g \in Glyph,
                                                    a \in 0 .. size - 1, b \in 0 .. size - 1}
  BY <1>3
<1>5. {Placed(x, y, direction, s) : s \in Strokes(n, size, height)}
        = {Placed(x, y, direction, S(i, g, a, b)) : i \in 0 .. n - 1, g \in Glyph,
                                                    a \in 0 .. size - 1, b \in 0 .. size - 1}
  BY DEF Strokes, S
<1> HIDE DEF drawn
<1>6. drawn = {Placed(x, y, direction, s) : s \in Strokes(n, size, height)}
  BY <1>2, <1>4, <1>5
<1>7. QED
  BY <1>6 DEF drawn

(* gfx_draw_text: text that has room in every direction is, a quarter      *)
(* further, the same text turned about its start, in any font and size.    *)
THEOREM TextTurns ==
  ASSUME NEW n, NEW size, NEW height, NEW R, Legible(n, size, height, R),
         NEW x \in R .. W - 1 - R, NEW y \in R .. H - 1 - R
  PROVE  TextSound(n, x, y, size, height)
<1> DEFINE S == Strokes(n, size, height)
           Text(d) == draw_text(n, x, y, d, size, height)
           Drawn(d) == {Placed(x, y, d, s) : s \in S}
           turn(p) == <<x + (p[2] - y), y - (p[1] - x)>>
<1>1. x \in Int /\ y \in Int
  BY GsxAssumption DEF Legible
<1>2. Text(0) = Drawn(0) /\ Text(900) = Drawn(900) /\ Text(1800) = Drawn(1800)
      /\ Text(2700) = Drawn(2700)
  BY TextIs
<1>3. S # {} /\ \A s \in S : s[1] \in Int /\ s[2] \in Int
  <2>1. PICK g \in Glyph : TRUE
    BY DEF Legible
  <2>2. 0 \in 0 .. n - 1 /\ 0 \in 0 .. size - 1
    BY DEF Legible
  <2>3. Stroke(0, g, 0, 0, size, height) \in S
    BY <2>2 DEF Strokes
  <2>4. ASSUME NEW s \in S PROVE s[1] \in Int /\ s[2] \in Int
    <3>1. PICK i \in 0 .. n - 1, h \in Glyph, a \in 0 .. size - 1, b \in 0 .. size - 1 :
            s = Stroke(i, h, a, b, size, height)
      BY DEF Strokes
    <3>2. LET t == Stroke(i, h, a, b, size, height)
          IN  t[1] \in 0 .. R /\ t[2] \in -R .. 0
      BY StrokeReaches
    <3>3. s[1] \in 0 .. R /\ s[2] \in -R .. 0 /\ R \in Nat
      BY <3>1, <3>2 DEF Legible
    <3>4. QED
      BY <3>3
  <2>5. QED
    BY <2>3, <2>4
<1> HIDE DEF S, Text
<1>4. ASSUME NEW s \in S
      PROVE  /\ Placed(x, y, 900, s) = turn(Placed(x, y, 0, s))
             /\ Placed(x, y, 1800, s) = turn(Placed(x, y, 900, s))
             /\ Placed(x, y, 2700, s) = turn(Placed(x, y, 1800, s))
  <2>1. s[1] \in Int /\ s[2] \in Int
    BY <1>3
  <2>2. /\ Placed(x, y, 0, s) = <<x + s[1], y + s[2]>>
        /\ Placed(x, y, 900, s) = <<x + s[2], y - s[1]>>
        /\ Placed(x, y, 1800, s) = <<x - s[1], y - s[2]>>
        /\ Placed(x, y, 2700, s) = <<x - s[2], y + s[1]>>
    BY DEF Placed
  <2>3. /\ turn(<<x + s[1], y + s[2]>>) = <<x + s[2], y - s[1]>>
        /\ turn(<<x + s[2], y - s[1]>>) = <<x - s[1], y - s[2]>>
        /\ turn(<<x - s[1], y - s[2]>>) = <<x - s[2], y + s[1]>>
    BY <1>1, <2>1
  <2>4. QED
    BY <2>2, <2>3
<1> HIDE DEF turn
<1>5. /\ Drawn(900) = {turn(p) : p \in Drawn(0)} /\ Drawn(1800) = {turn(p) : p \in Drawn(900)}
      /\ Drawn(2700) = {turn(p) : p \in Drawn(1800)} /\ Drawn(0) # {}
  BY <1>3, <1>4
<1> HIDE DEF Drawn
<1>6. /\ Text(900) = {turn(p) : p \in Text(0)} /\ Text(1800) = {turn(p) : p \in Text(900)}
      /\ Text(2700) = {turn(p) : p \in Text(1800)} /\ Text(0) # {}
  BY <1>2, <1>5
<1>7. PICK A, B, C, D : A = Text(0) /\ B = Text(900) /\ C = Text(1800) /\ D = Text(2700)
  OBVIOUS
<1>8. A # {} /\ B = {turn(p) : p \in A} /\ C = {turn(p) : p \in B} /\ D = {turn(p) : p \in C}
  BY <1>6, <1>7
<1> HIDE DEF Text
<1>9. /\ A # {} /\ B = {<<x + (p[2] - y), y - (p[1] - x)>> : p \in A}
      /\ C = {<<x + (p[2] - y), y - (p[1] - x)>> : p \in B}
      /\ D = {<<x + (p[2] - y), y - (p[1] - x)>> : p \in C}
  BY <1>8 DEF turn
<1>10. /\ draw_text(n, x, y, 0, size, height) = A /\ draw_text(n, x, y, 900, size, height) = B
       /\ draw_text(n, x, y, 1800, size, height) = C /\ draw_text(n, x, y, 2700, size, height) = D
  BY <1>7 DEF Text
<1>11. QED
  BY <1>9, <1>10 DEF TextSound

-----------------------------------------------------------------------------
(* Arcs.  The last point of an eighth may be past the diagonal; then the   *)
(* one before it is its image.                                             *)
LEMMA EighthFolds ==
  ASSUME NEW r \in Nat, NEW p \in Eighth(r), p[1] > p[2]
  PROVE  <<p[2], p[1]>> \in Eighth(r)
<1> DEFINE at == CHOOSE f : Rounds(r, r, f)
           Bad == {k \in 0 .. r : at[k].x > at[k].y /\ <<at[k].y, at[k].x>> \notin Eighth(r)}
<1>1. Rounds(r, r, at)
  BY RoundsExist
<1>2. Eighth(r) = {<<at[k].x, at[k].y>> : k \in 0 .. r}
  BY DEF Eighth, Rounds, Top, Onward
<1> HIDE DEF at
<1>3. Bad = {}
  <2> SUFFICES ASSUME Bad # {} PROVE FALSE
    OBVIOUS
  <2>1. PICK k \in Bad : \A j \in Bad : k <= j
    <3>1. Bad \subseteq Nat
      OBVIOUS
    <3> HIDE DEF Bad
    <3>2. QED
      BY <3>1, LeastNatural
  <2>2. k \in 0 .. r /\ at[k].x > at[k].y /\ <<at[k].y, at[k].x>> \notin Eighth(r)
    OBVIOUS
  <2>3. at[0].x = 0 /\ at[0].y = r
    BY <1>1 DEF Rounds, Top
  <2>4. k # 0
    BY <2>2, <2>3
  <2>5. k - 1 \in 0 .. r /\ k - 1 < k
    BY <2>2, <2>4
  <2>6. at[k] = Onward(at[k - 1]) /\ Near(r, at[k - 1])
    BY <1>1, <2>2, <2>4, <2>5, RoundsAreNear DEF Rounds
  <2>7. PICK x, y : x = at[k - 1].x /\ y = at[k - 1].y
    OBVIOUS
  <2>8. x \in 0 .. r /\ y \in 0 .. r
    BY <2>6, <2>7 DEF Near
  <2>9. <<x, y>> \in Eighth(r)
    BY <1>2, <2>5, <2>7
  <2>10. CASE x >= y
    <3>1. at[k] = at[k - 1]
      BY <2>6, <2>7, <2>10, OnwardIsNear
    <3>2. k - 1 \in Bad
      BY <2>2, <2>5, <3>1
    <3>3. QED
      BY <2>1, <2>2, <2>5, <3>2
  <2>11. CASE x < y
    <3>1. at[k].x = x + 1 /\ at[k].y \in {y, y - 1}
      BY <2>6, <2>7, <2>11, OnwardIsNear
    <3>2. at[k].x = y /\ at[k].y = x
      BY <2>2, <2>8, <2>11, <3>1
    <3>3. QED
      BY <2>2, <2>9, <3>2
  <2>12. QED
    BY <2>8, <2>10, <2>11
<1>4. PICK k \in 0 .. r : p = <<at[k].x, at[k].y>>
  BY <1>2
<1>5. k \notin Bad /\ p[1] = at[k].x /\ p[2] = at[k].y
  BY <1>3, <1>4
<1>6. QED
  BY <1>5

(* The points of the eighth that gfx_draw_arc_point draws, ... *)
Half(r) == {p \in Eighth(r) : p[1] <= p[2]}

LEMMA HalfPoint ==
  ASSUME NEW r \in Nat, NEW p \in Half(r)
  PROVE  p[1] \in 0 .. r /\ p[2] \in 0 .. r /\ p = <<p[1], p[2]>> /\ p[1] \in Int /\ p[2] \in Int
<1>1. p \in Eighth(r)
  BY DEF Half
<1>2. p[1] \in 0 .. r /\ p[2] \in 0 .. r /\ p = <<p[1], p[2]>>
  BY <1>1, EighthPoint
<1>3. QED
  BY <1>2

LEMMA CornerIsHalf ==
  ASSUME NEW r \in Nat, NEW d
  PROVE  d \in Corner(r) <=> \E p \in Half(r) : d = p \/ d = <<p[2], p[1]>>
<1>1. ASSUME NEW p \in Half(r) PROVE p \in Corner(r) /\ <<p[2], p[1]>> \in Corner(r)
  BY DEF Half, Corner
<1>2. ASSUME NEW e \in Eighth(r) PROVE \E p \in Half(r) : e = p \/ e = <<p[2], p[1]>>
  <2>1. e[1] \in Int /\ e[2] \in Int /\ e = <<e[1], e[2]>>
    <3>1. e[1] \in 0 .. r /\ e[2] \in 0 .. r /\ e = <<e[1], e[2]>>
      BY EighthPoint
    <3>2. QED
      BY <3>1
  <2>2. CASE e[1] <= e[2]
    BY <2>2 DEF Half
  <2>3. CASE e[1] > e[2]
    <3>1. <<e[2], e[1]>> \in Eighth(r)
      BY <2>3, EighthFolds
    <3>2. <<e[2], e[1]>> \in Half(r)
      BY <2>1, <2>3, <3>1 DEF Half
    <3>3. e = <<(<<e[2], e[1]>>)[2], (<<e[2], e[1]>>)[1]>>
      BY <2>1
    <3>4. QED
      BY <3>2, <3>3
  <2>4. QED
    BY <2>1, <2>2, <2>3
<1>3. ASSUME NEW e \in Eighth(r), d = <<e[2], e[1]>>
      PROVE  \E p \in Half(r) : d = p \/ d = <<p[2], p[1]>>
  <2>1. PICK p \in Half(r) : e = p \/ e = <<p[2], p[1]>>
    BY <1>2
  <2>2. p = <<p[1], p[2]>>
    BY HalfPoint
  <2>3. d = <<p[2], p[1]>> \/ d = p
    BY <1>3, <2>1, <2>2
  <2>4. QED
    BY <2>3
<1>4. QED
  BY <1>1, <1>2, <1>3 DEF Corner

(* ... and where it draws them: the eight images, counter-clockwise, and   *)
(* their angles.                                                           *)
Spot(k, x0, y0, p) ==
  CASE k = 1 -> <<x0 + p[2], y0 - p[1]>> [] k = 2 -> <<x0 + p[1], y0 - p[2]>>
    [] k = 3 -> <<x0 - p[1], y0 - p[2]>> [] k = 4 -> <<x0 - p[2], y0 - p[1]>>
    [] k = 5 -> <<x0 - p[2], y0 + p[1]>> [] k = 6 -> <<x0 - p[1], y0 + p[2]>>
    [] k = 7 -> <<x0 + p[1], y0 + p[2]>> [] k = 8 -> <<x0 + p[2], y0 + p[1]>>

Bearing(k, a) ==
  CASE k = 1 -> 900 - a  [] k = 2 -> a        [] k = 3 -> 1800 - a [] k = 4 -> a + 900
    [] k = 5 -> 2700 - a [] k = 6 -> a + 1800 [] k = 7 -> 3600 - a [] k = 8 -> a + 2700

LEMMA SpotsAre ==
  ASSUME NEW x0, NEW y0, NEW p, NEW a
  PROVE  /\ Spot(1, x0, y0, p) = <<x0 + p[2], y0 - p[1]>> /\ Bearing(1, a) = 900 - a
         /\ Spot(2, x0, y0, p) = <<x0 + p[1], y0 - p[2]>> /\ Bearing(2, a) = a
         /\ Spot(3, x0, y0, p) = <<x0 - p[1], y0 - p[2]>> /\ Bearing(3, a) = 1800 - a
         /\ Spot(4, x0, y0, p) = <<x0 - p[2], y0 - p[1]>> /\ Bearing(4, a) = a + 900
         /\ Spot(5, x0, y0, p) = <<x0 - p[2], y0 + p[1]>> /\ Bearing(5, a) = 2700 - a
         /\ Spot(6, x0, y0, p) = <<x0 - p[1], y0 + p[2]>> /\ Bearing(6, a) = a + 1800
         /\ Spot(7, x0, y0, p) = <<x0 + p[1], y0 + p[2]>> /\ Bearing(7, a) = 3600 - a
         /\ Spot(8, x0, y0, p) = <<x0 + p[2], y0 + p[1]>> /\ Bearing(8, a) = a + 2700
BY DEF Spot, Bearing

LEMMA SpotOnScreen ==
  ASSUME NEW r \in Nat, NEW x0 \in r .. W - 1 - r, NEW y0 \in r .. H - 1 - r,
         NEW p \in Half(r), NEW k \in 1 .. 8
  PROVE  LET s == Spot(k, x0, y0, p)
         IN  /\ s = <<s[1], s[2]>> /\ pixel(s[1], s[2]) = {s} /\ s \in Int \X Int
             /\ \/ AbsOf(s[1] - x0) = p[1] /\ AbsOf(s[2] - y0) = p[2]
                \/ AbsOf(s[1] - x0) = p[2] /\ AbsOf(s[2] - y0) = p[1]
<1> DEFINE s == Spot(k, x0, y0, p)
<1>1. W \in Nat /\ H \in Nat /\ x0 \in Int /\ y0 \in Int
  BY GsxAssumption
<1>2. p[1] \in 0 .. r /\ p[2] \in 0 .. r
  BY HalfPoint
<1> DEFINE Here == /\ s = <<s[1], s[2]>>
                   /\ \/ s[1] \in {x0 - p[1], x0 + p[1]} /\ s[2] \in {y0 - p[2], y0 + p[2]}
                      \/ s[1] \in {x0 - p[2], x0 + p[2]} /\ s[2] \in {y0 - p[1], y0 + p[1]}
<1>3. Here
  <2>1. CASE k = 1
    BY <2>1 DEF Spot
  <2>2. CASE k = 2
    BY <2>2 DEF Spot
  <2>3. CASE k = 3
    BY <2>3 DEF Spot
  <2>4. CASE k = 4
    BY <2>4 DEF Spot
  <2>5. CASE k = 5
    BY <2>5 DEF Spot
  <2>6. CASE k = 6
    BY <2>6 DEF Spot
  <2>7. CASE k = 7
    BY <2>7 DEF Spot
  <2>8. CASE k = 8
    BY <2>8 DEF Spot
  <2>9. k = 1 \/ k = 2 \/ k = 3 \/ k = 4 \/ k = 5 \/ k = 6 \/ k = 7 \/ k = 8
    OBVIOUS
  <2> HIDE DEF Here
  <2>10. QED
    BY <2>1, <2>2, <2>3, <2>4, <2>5, <2>6, <2>7, <2>8, <2>9
<1>4. s = <<s[1], s[2]>>
  BY <1>3
<1>5. \/ s[1] \in {x0 - p[1], x0 + p[1]} /\ s[2] \in {y0 - p[2], y0 + p[2]}
      \/ s[1] \in {x0 - p[2], x0 + p[2]} /\ s[2] \in {y0 - p[1], y0 + p[1]}
  BY <1>3
<1> HIDE DEF s
<1>6. s[1] \in 0 .. W - 1 /\ s[2] \in 0 .. H - 1
  BY <1>1, <1>2, <1>5
<1>7. pixel(s[1], s[2]) = {<<s[1], s[2]>>}
  BY <1>6 DEF pixel, Screen
<1>8. /\ \/ AbsOf(s[1] - x0) = p[1] /\ AbsOf(s[2] - y0) = p[2]
         \/ AbsOf(s[1] - x0) = p[2] /\ AbsOf(s[2] - y0) = p[1]
  <2>1. /\ s[1] \in {x0 - p[1], x0 + p[1]} => AbsOf(s[1] - x0) = p[1]
        /\ s[1] \in {x0 - p[2], x0 + p[2]} => AbsOf(s[1] - x0) = p[2]
        /\ s[2] \in {y0 - p[1], y0 + p[1]} => AbsOf(s[2] - y0) = p[1]
        /\ s[2] \in {y0 - p[2], y0 + p[2]} => AbsOf(s[2] - y0) = p[2]
    BY <1>1, <1>2, <1>6 DEF AbsOf
  <2>2. QED
    BY <1>5, <2>1
<1>9. s \in Int \X Int
  BY <1>1, <1>4, <1>6
<1>10. QED
  BY <1>4, <1>7, <1>8, <1>9 DEF s

LEMMA ImagesAre ==
  ASSUME NEW x0, NEW y0, NEW r \in Nat, NEW p \in Half(r), NEW i
  PROVE  i \in Images(x0, y0, p[1], p[2]) <=>
           \E k \in 1 .. 8 : i = <<Bearing(k, Angle[p]), Spot(k, x0, y0, p)[1],
                                   Spot(k, x0, y0, p)[2]>>
<1> DEFINE a == Angle[p]
           I(k) == <<Bearing(k, a), Spot(k, x0, y0, p)[1], Spot(k, x0, y0, p)[2]>>
<1>1. Angle[<<p[1], p[2]>>] = a
  <2>1. <<p[1], p[2]>> = p
    BY HalfPoint
  <2>2. QED
    BY <2>1, ZenonT(30)
<1> HIDE DEF a
<1>2. /\ I(1) = <<900 - a, x0 + p[2], y0 - p[1]>> /\ I(2) = <<a, x0 + p[1], y0 - p[2]>>
      /\ I(3) = <<1800 - a, x0 - p[1], y0 - p[2]>> /\ I(4) = <<a + 900, x0 - p[2], y0 - p[1]>>
      /\ I(5) = <<2700 - a, x0 - p[2], y0 + p[1]>> /\ I(6) = <<a + 1800, x0 - p[1], y0 + p[2]>>
      /\ I(7) = <<3600 - a, x0 + p[1], y0 + p[2]>> /\ I(8) = <<a + 2700, x0 + p[2], y0 + p[1]>>
  BY SpotsAre
<1> HIDE DEF I
<1>3. Images(x0, y0, p[1], p[2]) = {I(1), I(2), I(3), I(4), I(5), I(6), I(7), I(8)}
  BY <1>1, <1>2 DEF Images
<1>4. (\E k \in 1 .. 8 : i = I(k)) <=> i \in {I(1), I(2), I(3), I(4), I(5), I(6), I(7), I(8)}
  <2>1. \A k \in 1 .. 8 : k = 1 \/ k = 2 \/ k = 3 \/ k = 4 \/ k = 5 \/ k = 6 \/ k = 7 \/ k = 8
    OBVIOUS
  <2>2. 1 \in 1 .. 8 /\ 2 \in 1 .. 8 /\ 3 \in 1 .. 8 /\ 4 \in 1 .. 8
        /\ 5 \in 1 .. 8 /\ 6 \in 1 .. 8 /\ 7 \in 1 .. 8 /\ 8 \in 1 .. 8
    OBVIOUS
  <2>3. QED
    BY <2>1, <2>2
<1>5. QED
  BY <1>3, <1>4 DEF I, a

LEMMA ArcIs ==
  ASSUME NEW r \in Nat, NEW x0 \in r .. W - 1 - r, NEW y0 \in r .. H - 1 - r, NEW a0, NEW a1, NEW q
  PROVE  q \in draw_arc(x0, y0, r, a0, a1) <=>
           \E p \in Half(r), k \in 1 .. 8 : Bearing(k, Angle[p]) \in a0 .. a1
                                            /\ q = Spot(k, x0, y0, p)
<1> DEFINE all == UNION {Images(x0, y0, p[1], p[2]) : p \in Half(r)}
           within == {i \in all : i[1] \in a0 .. a1}
           I(k, p) == <<Bearing(k, Angle[p]), Spot(k, x0, y0, p)[1], Spot(k, x0, y0, p)[2]>>
<1>1. draw_arc(x0, y0, r, a0, a1) = UNION {pixel(i[2], i[3]) : i \in within}
  BY DEF draw_arc, Half
<1>2. ASSUME NEW i
      PROVE  i \in within <=> \E p \in Half(r), k \in 1 .. 8 :
                                i = I(k, p) /\ Bearing(k, Angle[p]) \in a0 .. a1
  <2>1. i \in all <=> \E p \in Half(r) : i \in Images(x0, y0, p[1], p[2])
    OBVIOUS
  <2> HIDE DEF all
  <2>2. ASSUME NEW p \in Half(r)
        PROVE  i \in Images(x0, y0, p[1], p[2]) <=> \E k \in 1 .. 8 : i = I(k, p)
    BY ImagesAre
  <2>3. \A k, p : I(k, p)[1] = Bearing(k, Angle[p])
    OBVIOUS
  <2> HIDE DEF I
  <2>4. i \in within <=> i \in all /\ i[1] \in a0 .. a1
    OBVIOUS
  <2>5. i \in all <=> \E p \in Half(r), k \in 1 .. 8 : i = I(k, p)
    BY <2>1, <2>2, ZenonT(30)
  <2> HIDE DEF within
  <2>6. ASSUME i \in within
        PROVE  \E p \in Half(r), k \in 1 .. 8 : i = I(k, p) /\ Bearing(k, Angle[p]) \in a0 .. a1
    <3>1. PICK p \in Half(r), k \in 1 .. 8 : i = I(k, p)
      BY <2>4, <2>5, <2>6
    <3>2. Bearing(k, Angle[p]) \in a0 .. a1
      BY <2>3, <2>4, <2>6, <3>1
    <3>3. QED
      BY <3>1, <3>2
  <2>7. ASSUME NEW p \in Half(r), NEW k \in 1 .. 8,
               i = I(k, p), Bearing(k, Angle[p]) \in a0 .. a1
        PROVE  i \in within
    <3>1. i \in all
      BY <2>5, <2>7
    <3>2. i[1] \in a0 .. a1
      BY <2>3, <2>7
    <3>3. QED
      BY <2>4, <3>1, <3>2
  <2>8. QED
    BY <2>6, <2>7
<1>3. ASSUME NEW p \in Half(r), NEW k \in 1 .. 8
      PROVE  pixel(I(k, p)[2], I(k, p)[3]) = {Spot(k, x0, y0, p)}
  <2>1. pixel(Spot(k, x0, y0, p)[1], Spot(k, x0, y0, p)[2]) = {Spot(k, x0, y0, p)}
    <3>1. LET s == Spot(k, x0, y0, p)
          IN  /\ s = <<s[1], s[2]>> /\ pixel(s[1], s[2]) = {s} /\ s \in Int \X Int
              /\ \/ AbsOf(s[1] - x0) = p[1] /\ AbsOf(s[2] - y0) = p[2]
                 \/ AbsOf(s[1] - x0) = p[2] /\ AbsOf(s[2] - y0) = p[1]
      BY SpotOnScreen
    <3>2. QED
      BY <3>1
  <2>2. I(k, p)[2] = Spot(k, x0, y0, p)[1] /\ I(k, p)[3] = Spot(k, x0, y0, p)[2]
    OBVIOUS
  <2>3. QED
    BY <2>1, <2>2
<1> HIDE DEF within, I
<1>4. q \in draw_arc(x0, y0, r, a0, a1) <=> \E i \in within : q \in pixel(i[2], i[3])
  BY <1>1
<1>5. ASSUME NEW i \in within, q \in pixel(i[2], i[3])
      PROVE  \E p \in Half(r), k \in 1 .. 8 : Bearing(k, Angle[p]) \in a0 .. a1
                                              /\ q = Spot(k, x0, y0, p)
  <2>1. PICK p \in Half(r), k \in 1 .. 8 : i = I(k, p) /\ Bearing(k, Angle[p]) \in a0 .. a1
    BY <1>2
  <2>2. q = Spot(k, x0, y0, p)
    BY <1>3, <1>5, <2>1
  <2>3. QED
    BY <2>1, <2>2
<1>6. ASSUME NEW p \in Half(r), NEW k \in 1 .. 8, Bearing(k, Angle[p]) \in a0 .. a1,
             q = Spot(k, x0, y0, p)
      PROVE  \E i \in within : q \in pixel(i[2], i[3])
  <2>1. I(k, p) \in within
    BY <1>2, <1>6
  <2>2. QED
    BY <1>3, <1>6, <2>1
<1>7. QED
  BY <1>4, <1>5, <1>6

(* The angles are those of the first quarter; none but the point on the    *)
(* axis is at its end, and none at its beginning but the centre.           *)
UpTo(a, n) == a \in Int /\ 0 <= a /\ a <= n
InTurn(a)  == UpTo(a, 3600)

Measured(r) == \A p \in Half(r) : UpTo(Angle[p], 900)
Apart(r) ==
  \A p \in Half(r) : /\ Angle[p] = 900 => p[1] = 0
                     /\ Angle[p] = 0 => p[1] = 0 /\ p[2] = 0

LEMMA BearingIs ==
  ASSUME NEW k \in 1 .. 8, NEW a, UpTo(a, 900)
  PROVE  InTurn(Bearing(k, a))
<1>1. CASE k = 1
  BY <1>1 DEF Bearing, UpTo, InTurn
<1>2. CASE k = 2
  BY <1>2 DEF Bearing, UpTo, InTurn
<1>3. CASE k = 3
  BY <1>3 DEF Bearing, UpTo, InTurn
<1>4. CASE k = 4
  BY <1>4 DEF Bearing, UpTo, InTurn
<1>5. CASE k = 5
  BY <1>5 DEF Bearing, UpTo, InTurn
<1>6. CASE k = 6
  BY <1>6 DEF Bearing, UpTo, InTurn
<1>7. CASE k = 7
  BY <1>7 DEF Bearing, UpTo, InTurn
<1>8. CASE k = 8
  BY <1>8 DEF Bearing, UpTo, InTurn
<1>9. k = 1 \/ k = 2 \/ k = 3 \/ k = 4 \/ k = 5 \/ k = 6 \/ k = 7 \/ k = 8
  OBVIOUS
<1>10. QED
  BY <1>1, <1>2, <1>3, <1>4, <1>5, <1>6, <1>7, <1>8, <1>9

LEMMA BearingsAre ==
  ASSUME NEW r \in Nat, Measured(r), NEW p \in Half(r), NEW k \in 1 .. 8
  PROVE  InTurn(Bearing(k, Angle[p]))
BY BearingIs DEF Measured

LEMMA WholeArc ==
  ASSUME NEW r \in Nat, NEW x0 \in r .. W - 1 - r, NEW y0 \in r .. H - 1 - r, Measured(r),
         NEW a0, NEW a1, \A a : InTurn(a) => a \in a0 .. a1, NEW q
  PROVE  q \in draw_arc(x0, y0, r, a0, a1) <=> q \in Around(x0, y0, Corner(r))
<1>1. x0 \in Int /\ y0 \in Int
  BY GsxAssumption
<1>2. q \in draw_arc(x0, y0, r, a0, a1)
        <=> \E p \in Half(r), k \in 1 .. 8 : q = Spot(k, x0, y0, p)
  <2>1. \A p \in Half(r), k \in 1 .. 8 : Bearing(k, Angle[p]) \in a0 .. a1
    <3> TAKE p \in Half(r), k \in 1 .. 8
    <3>1. InTurn(Bearing(k, Angle[p]))
      BY BearingsAre
    <3>2. QED
      BY <3>1
  <2>2. q \in draw_arc(x0, y0, r, a0, a1)
          <=> \E p \in Half(r), k \in 1 .. 8 : Bearing(k, Angle[p]) \in a0 .. a1
                                               /\ q = Spot(k, x0, y0, p)
    BY ArcIs
  <2>3. QED
    BY <2>1, <2>2, ZenonT(40)
<1>3. ASSUME NEW p \in Half(r), NEW k \in 1 .. 8, q = Spot(k, x0, y0, p)
      PROVE  q \in Around(x0, y0, Corner(r))
  <2>1. LET s == Spot(k, x0, y0, p)
        IN  /\ s = <<s[1], s[2]>> /\ pixel(s[1], s[2]) = {s} /\ s \in Int \X Int
            /\ \/ AbsOf(s[1] - x0) = p[1] /\ AbsOf(s[2] - y0) = p[2]
               \/ AbsOf(s[1] - x0) = p[2] /\ AbsOf(s[2] - y0) = p[1]
    BY SpotOnScreen
  <2>2. /\ q \in Int \X Int
        /\ \/ AbsOf(q[1] - x0) = p[1] /\ AbsOf(q[2] - y0) = p[2]
           \/ AbsOf(q[1] - x0) = p[2] /\ AbsOf(q[2] - y0) = p[1]
    BY <1>3, <2>1
  <2>3. p = <<p[1], p[2]>>
    BY HalfPoint
  <2>4. \/ <<AbsOf(q[1] - x0), AbsOf(q[2] - y0)>> = p
        \/ <<AbsOf(q[1] - x0), AbsOf(q[2] - y0)>> = <<p[2], p[1]>>
    BY <2>2, <2>3
  <2>5. <<AbsOf(q[1] - x0), AbsOf(q[2] - y0)>> \in Corner(r)
    BY <2>4, CornerIsHalf
  <2>6. QED
    BY <2>2, <2>5 DEF Around
<1>4. ASSUME q \in Around(x0, y0, Corner(r))
      PROVE  \E p \in Half(r), k \in 1 .. 8 : q = Spot(k, x0, y0, p)
  <2>1. /\ q[1] \in Int /\ q[2] \in Int /\ q = <<q[1], q[2]>>
        /\ <<AbsOf(q[1] - x0), AbsOf(q[2] - y0)>> \in Corner(r)
    BY <1>4 DEF Around
  <2>2. PICK p \in Half(r) : \/ <<AbsOf(q[1] - x0), AbsOf(q[2] - y0)>> = p
                             \/ <<AbsOf(q[1] - x0), AbsOf(q[2] - y0)>> = <<p[2], p[1]>>
    BY <2>1, CornerIsHalf
  <2>3. \/ AbsOf(q[1] - x0) = p[1] /\ AbsOf(q[2] - y0) = p[2]
        \/ AbsOf(q[1] - x0) = p[2] /\ AbsOf(q[2] - y0) = p[1]
    BY <2>2
  <2>4. /\ q[1] = x0 + AbsOf(q[1] - x0) \/ q[1] = x0 - AbsOf(q[1] - x0)
        /\ q[2] = y0 + AbsOf(q[2] - y0) \/ q[2] = y0 - AbsOf(q[2] - y0)
    BY <1>1, <2>1 DEF AbsOf
  <2>5. /\ 1 \in 1 .. 8 /\ 2 \in 1 .. 8 /\ 3 \in 1 .. 8 /\ 4 \in 1 .. 8
        /\ 5 \in 1 .. 8 /\ 6 \in 1 .. 8 /\ 7 \in 1 .. 8 /\ 8 \in 1 .. 8
    OBVIOUS
  <2>6. /\ Spot(1, x0, y0, p) = <<x0 + p[2], y0 - p[1]>>
        /\ Spot(2, x0, y0, p) = <<x0 + p[1], y0 - p[2]>>
        /\ Spot(3, x0, y0, p) = <<x0 - p[1], y0 - p[2]>>
        /\ Spot(4, x0, y0, p) = <<x0 - p[2], y0 - p[1]>>
        /\ Spot(5, x0, y0, p) = <<x0 - p[2], y0 + p[1]>>
        /\ Spot(6, x0, y0, p) = <<x0 - p[1], y0 + p[2]>>
        /\ Spot(7, x0, y0, p) = <<x0 + p[1], y0 + p[2]>>
        /\ Spot(8, x0, y0, p) = <<x0 + p[2], y0 + p[1]>>
    BY SpotsAre
  <2>7. CASE AbsOf(q[1] - x0) = p[1] /\ AbsOf(q[2] - y0) = p[2]
    <3>1. \/ q = Spot(2, x0, y0, p) \/ q = Spot(3, x0, y0, p)
          \/ q = Spot(6, x0, y0, p) \/ q = Spot(7, x0, y0, p)
      <4>1. \/ q = <<x0 + p[1], y0 - p[2]>> \/ q = <<x0 - p[1], y0 - p[2]>>
            \/ q = <<x0 - p[1], y0 + p[2]>> \/ q = <<x0 + p[1], y0 + p[2]>>
        BY <2>1, <2>4, <2>7
      <4>2. QED
        BY <4>1, <2>6
    <3>2. QED
      BY <2>5, <3>1
  <2>8. CASE AbsOf(q[1] - x0) = p[2] /\ AbsOf(q[2] - y0) = p[1]
    <3>1. \/ q = Spot(1, x0, y0, p) \/ q = Spot(4, x0, y0, p)
          \/ q = Spot(5, x0, y0, p) \/ q = Spot(8, x0, y0, p)
      <4>1. \/ q = <<x0 + p[2], y0 - p[1]>> \/ q = <<x0 - p[2], y0 - p[1]>>
            \/ q = <<x0 - p[2], y0 + p[1]>> \/ q = <<x0 + p[2], y0 + p[1]>>
        BY <2>1, <2>4, <2>8
      <4>2. QED
        BY <4>1, <2>6
    <3>2. QED
      BY <2>5, <3>1
  <2>9. QED
    BY <2>3, <2>7, <2>8
<1>5. QED
  BY <1>2, <1>3, <1>3, <1>4

(* Two arcs that follow each other. *)
LEMMA ArcsJoin ==
  ASSUME NEW r \in Nat, NEW x0 \in r .. W - 1 - r, NEW y0 \in r .. H - 1 - r, Measured(r),
         NEW a \in Int, NEW b \in Int, NEW c \in Int, a <= b, b <= c, NEW q
  PROVE  q \in draw_arc(x0, y0, r, a, c)
           <=> q \in draw_arc(x0, y0, r, a, b) \/ q \in draw_arc(x0, y0, r, b, c)
<1>1. ASSUME NEW p \in Half(r), NEW k \in 1 .. 8
      PROVE  Bearing(k, Angle[p]) \in a .. c
               <=> Bearing(k, Angle[p]) \in a .. b \/ Bearing(k, Angle[p]) \in b .. c
  <2>1. Bearing(k, Angle[p]) \in Int
    BY BearingsAre DEF UpTo, InTurn
  <2>2. QED
    BY <2>1
<1> DEFINE Hit(i, j) == \E p \in Half(r), k \in 1 .. 8 : Bearing(k, Angle[p]) \in i .. j
                                                       /\ q = Spot(k, x0, y0, p)
<1>2. Hit(a, c) <=> Hit(a, b) \/ Hit(b, c)
  BY <1>1
<1>3. /\ q \in draw_arc(x0, y0, r, a, c) <=> Hit(a, c)
      /\ q \in draw_arc(x0, y0, r, a, b) <=> Hit(a, b)
      /\ q \in draw_arc(x0, y0, r, b, c) <=> Hit(b, c)
  BY ArcIs
<1> HIDE DEF Hit
<1>4. QED
  BY <1>2, <1>3

LEMMA RingAround ==
  ASSUME NEW r \in Nat, NEW x0 \in r .. W - 1 - r, NEW y0 \in r .. H - 1 - r
  PROVE  Ring(x0, y0, r) = Around(x0, y0, Corner(r))
BY RingIs DEF Around, Ring

(* gfx_draw_arc: an arc and the rest of the way round make the circle of   *)
(* gfx_circle, wherever they meet, as long as the angles are those of the  *)
(* first quarter.                                                          *)
THEOREM ArcsMakeTheCircle ==
  ASSUME NEW r \in Nat, NEW x0 \in r .. W - 1 - r, NEW y0 \in r .. H - 1 - r, Measured(r),
         NEW start, NEW end, InTurn(start), InTurn(end), start # end
  PROVE  arc(x0, y0, r, start, end) \cup arc(x0, y0, r, end, start) = Ring(x0, y0, r)
<1>1. PICK z \in Int, n \in Int : z = 0 /\ n = 3600
  OBVIOUS
<1>2. PICK round : round = Around(x0, y0, Corner(r))
  OBVIOUS
<1>3. ASSUME NEW q PROVE q \in draw_arc(x0, y0, r, z, n) <=> q \in round
  <2>1. \A a : InTurn(a) => a \in z .. n
    BY <1>1 DEF UpTo, InTurn
  <2>2. q \in draw_arc(x0, y0, r, z, n) <=> q \in Around(x0, y0, Corner(r))
    BY <2>1, WholeArc
  <2>3. QED
    BY <1>2, <2>2
<1>4. ASSUME NEW a, NEW b, InTurn(a), InTurn(b), a < b
      PROVE  arc(x0, y0, r, a, b) \cup arc(x0, y0, r, b, a) = round
  <2>1. a \in Int /\ b \in Int /\ z <= a /\ a <= b /\ b <= n /\ ~ b <= a /\ z <= b
    BY <1>1, <1>4 DEF UpTo, InTurn
  <2>2. arc(x0, y0, r, a, b) = draw_arc(x0, y0, r, a, b)
    BY <2>1 DEF arc
  <2>3. arc(x0, y0, r, b, a) = draw_arc(x0, y0, r, b, n) \cup draw_arc(x0, y0, r, z, a)
    BY <1>1, <2>1 DEF arc
  <2>4. PICK first, middle, last : /\ first = draw_arc(x0, y0, r, z, a)
                                   /\ middle = draw_arc(x0, y0, r, a, b)
                                   /\ last = draw_arc(x0, y0, r, b, n)
    OBVIOUS
  <2>5. ASSUME NEW q
        PROVE  q \in round <=> q \in first \/ q \in middle \/ q \in last
    <3>1. q \in draw_arc(x0, y0, r, z, b) <=> q \in first \/ q \in middle
      BY <2>1, <2>4, ArcsJoin
    <3>2. q \in draw_arc(x0, y0, r, z, n) <=> q \in draw_arc(x0, y0, r, z, b) \/ q \in last
      BY <2>1, <2>4, ArcsJoin
    <3>3. QED
      BY <1>3, <3>1, <3>2
  <2>6. round = middle \cup (last \cup first)
    BY <2>5
  <2>7. QED
    BY <2>2, <2>3, <2>4, <2>6
<1>5. arc(x0, y0, r, start, end) \cup arc(x0, y0, r, end, start) = round
  <2>1. start < end \/ end < start
    BY DEF UpTo, InTurn
  <2>2. CASE start < end
    BY <1>4, <2>2
  <2>3. CASE end < start
    <3>1. arc(x0, y0, r, end, start) \cup arc(x0, y0, r, start, end) = round
      BY <1>4, <2>3
    <3>2. QED
      BY <3>1
  <2>4. QED
    BY <2>1, <2>2, <2>3
<1>6. Ring(x0, y0, r) = round
  BY <1>2, RingAround
<1>7. QED
  BY <1>5, <1>6

TurnedAbout(x0, y0, p) == <<x0 + (p[2] - y0), y0 - (p[1] - x0)>>

(* A quarter of a turn takes an image to the next but one. *)
LEMMA SpotsTurn ==
  ASSUME NEW x0 \in Int, NEW y0 \in Int, NEW p, p[1] \in Int, p[2] \in Int
  PROVE  /\ \A k \in 1 .. 6 : TurnedAbout(x0, y0, Spot(k, x0, y0, p)) = Spot(k + 2, x0, y0, p)
         /\ TurnedAbout(x0, y0, Spot(7, x0, y0, p)) = Spot(1, x0, y0, p)
         /\ TurnedAbout(x0, y0, Spot(8, x0, y0, p)) = Spot(2, x0, y0, p)
<1>1. /\ Spot(1, x0, y0, p) = <<x0 + p[2], y0 - p[1]>>
      /\ Spot(2, x0, y0, p) = <<x0 + p[1], y0 - p[2]>>
      /\ Spot(3, x0, y0, p) = <<x0 - p[1], y0 - p[2]>>
      /\ Spot(4, x0, y0, p) = <<x0 - p[2], y0 - p[1]>>
      /\ Spot(5, x0, y0, p) = <<x0 - p[2], y0 + p[1]>>
      /\ Spot(6, x0, y0, p) = <<x0 - p[1], y0 + p[2]>>
      /\ Spot(7, x0, y0, p) = <<x0 + p[1], y0 + p[2]>>
      /\ Spot(8, x0, y0, p) = <<x0 + p[2], y0 + p[1]>>
  BY SpotsAre
<1>2. ASSUME NEW u \in Int, NEW v \in Int
      PROVE  /\ TurnedAbout(x0, y0, <<x0 + u, y0 - v>>) = <<x0 - v, y0 - u>>
             /\ TurnedAbout(x0, y0, <<x0 - u, y0 - v>>) = <<x0 - v, y0 + u>>
             /\ TurnedAbout(x0, y0, <<x0 - u, y0 + v>>) = <<x0 + v, y0 + u>>
             /\ TurnedAbout(x0, y0, <<x0 + u, y0 + v>>) = <<x0 + v, y0 - u>>
  BY DEF TurnedAbout
<1>3. /\ TurnedAbout(x0, y0, <<x0 + p[1], y0 - p[2]>>) = <<x0 - p[2], y0 - p[1]>>
      /\ TurnedAbout(x0, y0, <<x0 - p[1], y0 - p[2]>>) = <<x0 - p[2], y0 + p[1]>>
      /\ TurnedAbout(x0, y0, <<x0 - p[1], y0 + p[2]>>) = <<x0 + p[2], y0 + p[1]>>
      /\ TurnedAbout(x0, y0, <<x0 + p[1], y0 + p[2]>>) = <<x0 + p[2], y0 - p[1]>>
  BY <1>2
<1>4. /\ TurnedAbout(x0, y0, <<x0 + p[2], y0 - p[1]>>) = <<x0 - p[1], y0 - p[2]>>
      /\ TurnedAbout(x0, y0, <<x0 - p[2], y0 - p[1]>>) = <<x0 - p[1], y0 + p[2]>>
      /\ TurnedAbout(x0, y0, <<x0 - p[2], y0 + p[1]>>) = <<x0 + p[1], y0 + p[2]>>
      /\ TurnedAbout(x0, y0, <<x0 + p[2], y0 + p[1]>>) = <<x0 + p[1], y0 - p[2]>>
  BY <1>2
<1>5. /\ TurnedAbout(x0, y0, Spot(7, x0, y0, p)) = Spot(1, x0, y0, p)
      /\ TurnedAbout(x0, y0, Spot(8, x0, y0, p)) = Spot(2, x0, y0, p)
  BY <1>1, <1>3, <1>4
<1>6. /\ TurnedAbout(x0, y0, Spot(1, x0, y0, p)) = Spot(3, x0, y0, p)
      /\ TurnedAbout(x0, y0, Spot(2, x0, y0, p)) = Spot(4, x0, y0, p)
      /\ TurnedAbout(x0, y0, Spot(3, x0, y0, p)) = Spot(5, x0, y0, p)
      /\ TurnedAbout(x0, y0, Spot(4, x0, y0, p)) = Spot(6, x0, y0, p)
      /\ TurnedAbout(x0, y0, Spot(5, x0, y0, p)) = Spot(7, x0, y0, p)
      /\ TurnedAbout(x0, y0, Spot(6, x0, y0, p)) = Spot(8, x0, y0, p)
  BY <1>1, <1>3, <1>4
<1>7. ASSUME NEW k \in 1 .. 6
      PROVE  TurnedAbout(x0, y0, Spot(k, x0, y0, p)) = Spot(k + 2, x0, y0, p)
  <2>1. k = 1 \/ k = 2 \/ k = 3 \/ k = 4 \/ k = 5 \/ k = 6
    OBVIOUS
  <2>2. QED
    BY <1>6, <2>1
<1>8. QED
  BY <1>5, <1>6, <1>7

LEMMA BearingsTurn ==
  ASSUME NEW a \in Int
  PROVE  \A k \in 1 .. 6 : Bearing(k + 2, a) = Bearing(k, a) + 900
<1>1. /\ Bearing(1, a) = 900 - a /\ Bearing(2, a) = a /\ Bearing(3, a) = 1800 - a
      /\ Bearing(4, a) = a + 900 /\ Bearing(5, a) = 2700 - a /\ Bearing(6, a) = a + 1800
      /\ Bearing(7, a) = 3600 - a /\ Bearing(8, a) = a + 2700
  BY DEF Bearing
<1>2. TAKE k \in 1 .. 6
<1>3. k = 1 \/ k = 2 \/ k = 3 \/ k = 4 \/ k = 5 \/ k = 6
  OBVIOUS
<1>4. QED
  BY <1>1, <1>3

Quarter(k, j, x0, y0, p) ==
  /\ Bearing(j, Angle[p]) = Bearing(k, Angle[p]) + 900
  /\ TurnedAbout(x0, y0, Spot(k, x0, y0, p)) = Spot(j, x0, y0, p)

(* Every image but those of the last quarter is a quarter before another,  *)
(* and every image but those of the first a quarter after one.             *)
LEMMA QuarterOn ==
  ASSUME NEW r \in Nat, NEW x0 \in Int, NEW y0 \in Int, Measured(r), Apart(r),
         NEW p \in Half(r), NEW k \in 1 .. 8, Bearing(k, Angle[p]) <= 2700
  PROVE  \E j \in 1 .. 8 : Quarter(k, j, x0, y0, p)
<1> DEFINE a == Angle[p]
<1>1. p[1] \in Int /\ p[2] \in Int /\ a \in Int /\ 0 <= a /\ a <= 900
  BY HalfPoint DEF Measured, UpTo
<1>2. (a = 900 => p[1] = 0) /\ (a = 0 => p[1] = 0 /\ p[2] = 0)
  BY DEF Apart
<1>3. /\ Bearing(7, a) = 3600 - a /\ Bearing(8, a) = a + 2700
  BY DEF Bearing
<1>4. CASE k \in 1 .. 6
  <2>1. k + 2 \in 1 .. 8
    BY <1>4
  <2>2. Bearing(k + 2, a) = Bearing(k, a) + 900
    BY <1>1, <1>4, BearingsTurn
  <2>3. TurnedAbout(x0, y0, Spot(k, x0, y0, p)) = Spot(k + 2, x0, y0, p)
    BY <1>1, <1>4, SpotsTurn
  <2> HIDE DEF a
  <2>4. QED
    BY <2>1, <2>2, <2>3 DEF a, Quarter
<1>5. CASE k = 7
  <2>1. a = 900 /\ p[1] = 0
    BY <1>1, <1>2, <1>3, <1>5
  <2>2. Bearing(8, a) = Bearing(7, a) + 900
    BY <1>3, <2>1
  <2>3. Spot(1, x0, y0, p) = Spot(8, x0, y0, p)
    <3>1. /\ Spot(1, x0, y0, p) = <<x0 + p[2], y0 - p[1]>>
          /\ Spot(8, x0, y0, p) = <<x0 + p[2], y0 + p[1]>>
      BY DEF Spot
    <3>2. QED
      BY <1>1, <2>1, <3>1
  <2>4. TurnedAbout(x0, y0, Spot(7, x0, y0, p)) = Spot(8, x0, y0, p)
    BY <1>1, <2>3, SpotsTurn
  <2> HIDE DEF a
  <2>5. QED
    BY <1>5, <2>2, <2>4 DEF a, Quarter
<1>6. CASE k = 8
  <2>1. a = 0 /\ p[1] = 0 /\ p[2] = 0
    BY <1>1, <1>2, <1>3, <1>6
  <2>2. Bearing(7, a) = Bearing(8, a) + 900
    BY <1>3, <2>1
  <2>3. Spot(2, x0, y0, p) = Spot(7, x0, y0, p)
    <3>1. /\ Spot(2, x0, y0, p) = <<x0 + p[1], y0 - p[2]>>
          /\ Spot(7, x0, y0, p) = <<x0 + p[1], y0 + p[2]>>
      BY DEF Spot
    <3>2. QED
      BY <1>1, <2>1, <3>1
  <2>4. TurnedAbout(x0, y0, Spot(8, x0, y0, p)) = Spot(7, x0, y0, p)
    BY <1>1, <2>3, SpotsTurn
  <2> HIDE DEF a
  <2>5. QED
    BY <1>6, <2>2, <2>4 DEF a, Quarter
<1>7. QED
  BY <1>4, <1>5, <1>6

LEMMA QuarterBack ==
  ASSUME NEW r \in Nat, NEW x0 \in Int, NEW y0 \in Int, Measured(r), Apart(r),
         NEW p \in Half(r), NEW j \in 1 .. 8, Bearing(j, Angle[p]) >= 900
  PROVE  \E k \in 1 .. 8 : Quarter(k, j, x0, y0, p)
<1> DEFINE a == Angle[p]
<1>1. p[1] \in Int /\ p[2] \in Int /\ a \in Int /\ 0 <= a /\ a <= 900
  BY HalfPoint DEF Measured, UpTo
<1>2. (a = 900 => p[1] = 0) /\ (a = 0 => p[1] = 0 /\ p[2] = 0)
  BY DEF Apart
<1>3. /\ Bearing(1, a) = 900 - a /\ Bearing(2, a) = a
  BY DEF Bearing
<1>4. CASE j \in 3 .. 8
  <2>1. j - 2 \in 1 .. 6 /\ j - 2 \in 1 .. 8 /\ (j - 2) + 2 = j
    BY <1>4
  <2>2. Bearing(j, a) = Bearing(j - 2, a) + 900
    BY <1>1, <2>1, BearingsTurn
  <2>3. TurnedAbout(x0, y0, Spot(j - 2, x0, y0, p)) = Spot(j, x0, y0, p)
    BY <1>1, <2>1, SpotsTurn
  <2> HIDE DEF a
  <2>4. QED
    BY <2>1, <2>2, <2>3 DEF a, Quarter
<1>5. CASE j = 1
  <2>1. a = 0 /\ p[1] = 0 /\ p[2] = 0
    BY <1>1, <1>2, <1>3, <1>5
  <2>2. Bearing(1, a) = Bearing(2, a) + 900
    BY <1>3, <2>1
  <2>3. Spot(4, x0, y0, p) = Spot(1, x0, y0, p)
    <3>1. /\ Spot(4, x0, y0, p) = <<x0 - p[2], y0 - p[1]>>
          /\ Spot(1, x0, y0, p) = <<x0 + p[2], y0 - p[1]>>
      BY DEF Spot
    <3>2. QED
      BY <1>1, <2>1, <3>1
  <2>4. TurnedAbout(x0, y0, Spot(2, x0, y0, p)) = Spot(4, x0, y0, p)
    <3>1. PICK i \in 1 .. 6 : i = 2 /\ i + 2 = 4
      OBVIOUS
    <3>2. TurnedAbout(x0, y0, Spot(i, x0, y0, p)) = Spot(i + 2, x0, y0, p)
      BY <1>1, SpotsTurn
    <3>3. QED
      BY <3>1, <3>2
  <2> HIDE DEF a
  <2>5. QED
    BY <1>5, <2>2, <2>3, <2>4 DEF a, Quarter
<1>6. CASE j = 2
  <2>1. a = 900
    BY <1>1, <1>3, <1>6
  <2>2. Bearing(2, a) = Bearing(1, a) + 900
    BY <1>3, <2>1
  <2>3. p[1] = 0
    BY <1>2, <2>1
  <2>4. Spot(3, x0, y0, p) = Spot(2, x0, y0, p)
    <3>1. /\ Spot(3, x0, y0, p) = <<x0 - p[1], y0 - p[2]>>
          /\ Spot(2, x0, y0, p) = <<x0 + p[1], y0 - p[2]>>
      BY DEF Spot
    <3>2. QED
      BY <2>3, <3>1
  <2>5. TurnedAbout(x0, y0, Spot(1, x0, y0, p)) = Spot(3, x0, y0, p)
    <3>1. PICK i \in 1 .. 6 : i = 1 /\ i + 2 = 3
      OBVIOUS
    <3>2. TurnedAbout(x0, y0, Spot(i, x0, y0, p)) = Spot(i + 2, x0, y0, p)
      BY <1>1, SpotsTurn
    <3>3. QED
      BY <3>1, <3>2
  <2> HIDE DEF a
  <2>6. QED
    BY <1>6, <2>2, <2>4, <2>5 DEF a, Quarter
<1>7. QED
  BY <1>4, <1>5, <1>6

(* gfx_draw_arc: an arc that starts and ends a quarter of a turn later is  *)
(* the arc turned by a quarter.                                            *)
THEOREM ArcsTurn ==
  ASSUME NEW r \in Nat, NEW x0 \in r .. W - 1 - r, NEW y0 \in r .. H - 1 - r,
         Measured(r), Apart(r),
         NEW start, NEW end, InTurn(start), InTurn(end), start <= end, end <= 2700
  PROVE  arc(x0, y0, r, start + 900, end + 900) =
           {<<x0 + (p[2] - y0), y0 - (p[1] - x0)>> : p \in arc(x0, y0, r, start, end)}
<1>1. /\ x0 \in Int /\ y0 \in Int /\ start \in Int /\ end \in Int
      /\ 0 <= start /\ start + 900 <= end + 900
  BY GsxAssumption DEF InTurn, UpTo
<1>2. PICK a, b, c, d : a = start /\ b = end /\ c = start + 900 /\ d = end + 900
  OBVIOUS
<1>3. \A v \in Int : v \in a .. b <=> v + 900 \in c .. d
  BY <1>1, <1>2
<1>4. \A v \in Int : v \in a .. b => v <= 2700
  BY <1>1, <1>2
<1>5. \A v \in Int : v \in c .. d => v >= 900
  BY <1>1, <1>2
<1>6. ASSUME NEW p \in Half(r), NEW k \in 1 .. 8 PROVE Bearing(k, Angle[p]) \in Int
  BY BearingsAre DEF InTurn, UpTo
<1>7. ASSUME NEW q, q \in draw_arc(x0, y0, r, a, b)
      PROVE  TurnedAbout(x0, y0, q) \in draw_arc(x0, y0, r, c, d)
  <2>1. PICK p \in Half(r), k \in 1 .. 8 : Bearing(k, Angle[p]) \in a .. b
                                         /\ q = Spot(k, x0, y0, p)
    BY <1>7, ArcIs
  <2>2. Bearing(k, Angle[p]) <= 2700
    BY <1>4, <1>6, <2>1
  <2>3. PICK j \in 1 .. 8 : Quarter(k, j, x0, y0, p)
    BY <1>1, <2>2, QuarterOn
  <2>4. Bearing(j, Angle[p]) \in c .. d
    <3>1. Bearing(k, Angle[p]) \in Int
      BY <1>6
    <3>2. QED
      BY <1>3, <2>1, <2>3, <3>1 DEF Quarter
  <2>5. TurnedAbout(x0, y0, q) = Spot(j, x0, y0, p)
    BY <2>1, <2>3 DEF Quarter
  <2>6. QED
    BY <2>4, <2>5, ArcIs
<1>8. ASSUME NEW q, q \in draw_arc(x0, y0, r, c, d)
      PROVE  \E o \in draw_arc(x0, y0, r, a, b) : q = TurnedAbout(x0, y0, o)
  <2>1. PICK p \in Half(r), j \in 1 .. 8 : Bearing(j, Angle[p]) \in c .. d
                                         /\ q = Spot(j, x0, y0, p)
    BY <1>8, ArcIs
  <2>2. Bearing(j, Angle[p]) >= 900
    BY <1>5, <1>6, <2>1
  <2>3. PICK k \in 1 .. 8 : Quarter(k, j, x0, y0, p)
    BY <1>1, <2>2, QuarterBack
  <2>4. Bearing(k, Angle[p]) \in a .. b
    <3>1. Bearing(k, Angle[p]) \in Int
      BY <1>6
    <3>2. QED
      BY <1>3, <2>1, <2>3, <3>1 DEF Quarter
  <2>5. PICK o : o = Spot(k, x0, y0, p)
    OBVIOUS
  <2>6. o \in draw_arc(x0, y0, r, a, b)
    BY <2>4, <2>5, ArcIs
  <2>7. q = TurnedAbout(x0, y0, o)
    BY <2>1, <2>3, <2>5 DEF Quarter
  <2>8. QED
    BY <2>6, <2>7
<1>9. PICK before, after : /\ before = draw_arc(x0, y0, r, a, b)
                           /\ after = draw_arc(x0, y0, r, c, d)
  OBVIOUS
<1>10. after = {TurnedAbout(x0, y0, q) : q \in before}
  BY <1>7, <1>8, <1>9
<1>11. arc(x0, y0, r, a, b) = before /\ arc(x0, y0, r, c, d) = after
  BY <1>1, <1>2, <1>9 DEF arc
<1>12. arc(x0, y0, r, c, d) =
         {<<x0 + (p[2] - y0), y0 - (p[1] - x0)>> : p \in arc(x0, y0, r, a, b)}
  BY <1>10, <1>11 DEF TurnedAbout
<1>13. QED
  BY <1>2, <1>12

-----------------------------------------------------------------------------
(* What the run draws, and what it takes for it to be on the screen: seven *)
(* pixels each way, a character of two by two, and the angles of the first *)
(* quarter for the circles up to a radius of three.                        *)
Fits ==
  /\ W >= 7 /\ H >= 7 /\ FONT_WIDTH = 2 /\ GSX_GC_ARMLNG \in 0 .. W - 1
  /\ Glyph # {} /\ Glyph \subseteq (0 .. 1) \X (0 .. 1)
  /\ \A r \in 0 .. 3 : Measured(r) /\ Apart(r)

FigureInv == figure = NoFigure \/ figure \in Figures

LEMMA LinesSound ==
  ASSUME figure \in [kind : {"line"}, from : Points(7, 7), to : Points(8, 8)]
  PROVE  FiguresSound
<1>1. /\ figure.kind = "line"
      /\ figure.from[1] \in Int /\ figure.from[2] \in Int
      /\ figure.to[1] \in Int /\ figure.to[2] \in Int
  BY DEF Points
<1>2. LineSound(figure.from[1], figure.from[2], figure.to[1], figure.to[2])
  BY <1>1, LineIsExact
<1>3. QED
  BY <1>1, <1>2, Zenon DEF FiguresSound

LEMMA CirclesSound ==
  ASSUME Fits,
         figure \in {f \in [kind : {"circle"}, at : Points(W - 1, H - 1), r : 0 .. 3] :
                       \A c \in 1 .. 2 : f.at[c] \in f.r .. 6 - f.r}
  PROVE  FiguresSound
<1>1. /\ figure.kind = "circle" /\ figure.r \in Nat
      /\ figure.at[1] \in figure.r .. 6 - figure.r /\ figure.at[2] \in figure.r .. 6 - figure.r
  OBVIOUS
<1>2. /\ figure.at[1] \in figure.r .. W - 1 - figure.r
      /\ figure.at[2] \in figure.r .. H - 1 - figure.r
  BY <1>1, GsxAssumption DEF Fits
<1>3. CircleSound(figure.at[1], figure.at[2], figure.r)
  BY <1>1, <1>2, CircleIsRound
<1>4. StyleSound(LAMBDA s : circle(figure.at[1], figure.at[2], figure.r, TRUE, s))
  BY <1>1, <1>2, CirclesShowStyles, Zenon
<1>5. QED
  BY <1>1, <1>3, <1>4, Zenon DEF FiguresSound

LEMMA BarsSound ==
  ASSUME Fits,
         figure \in {f \in [kind : {"bar"}, ll : Points(6, 6), ur : Points(6, 6)] :
                       f.ll[1] <= f.ur[1] /\ f.ur[2] <= f.ll[2]}
  PROVE  FiguresSound
<1>1. /\ figure.kind = "bar" /\ figure.ll[1] <= figure.ur[1] /\ figure.ur[2] <= figure.ll[2]
      /\ figure.ll[1] \in 0 .. 6 /\ figure.ll[2] \in 0 .. 6
      /\ figure.ur[1] \in 0 .. 6 /\ figure.ur[2] \in 0 .. 6
  BY DEF Points
<1>2. /\ figure.ll[1] \in 0 .. W - 1 /\ figure.ll[2] \in 0 .. H - 1
      /\ figure.ur[1] \in 0 .. W - 1 /\ figure.ur[2] \in 0 .. H - 1
  BY <1>1, GsxAssumption DEF Fits
<1>3. BarSound(figure.ll[1], figure.ll[2], figure.ur[1], figure.ur[2])
  BY <1>1, <1>2, BarIsItsRectangle
<1>4. StyleSound(LAMBDA s : bar(figure.ll[1], figure.ll[2], figure.ur[1], figure.ur[2], s))
  BY <1>1, <1>2, BarsShowStyles, Zenon
<1>5. QED
  BY <1>1, <1>3, <1>4, Zenon DEF FiguresSound

LEMMA MarkersSound ==
  ASSUME Fits, figure \in [kind : {"marker"}, style : Markers, height : 0 .. 7]
  PROVE  FiguresSound
<1>1. /\ figure.kind = "marker" /\ figure.style \in Markers
      /\ figure.height \in 0 .. 7 /\ figure.height \in Nat
  OBVIOUS
<1>2. PICK arm : arm = MarkerArm(figure.height)
  OBVIOUS
<1>3. arm \in 0 .. 3
  BY <1>1, <1>2 DEF MarkerArm
<1>4. 3 \in arm .. W - 1 - arm /\ 3 \in arm .. H - 1 - arm
  BY <1>3, GsxAssumption DEF Fits
<1>5. MarkerSound(figure.style, 3, 3, figure.height)
  BY <1>1, <1>2, <1>4, MarkersAreEven
<1>6. QED
  BY <1>1, <1>5, Zenon DEF FiguresSound

LEMMA TextsSound ==
  ASSUME Fits, figure \in [kind : {"text"}, length : 1 .. 2]
  PROVE  FiguresSound
<1>1. figure.kind = "text" /\ figure.length \in 1 .. 2
  OBVIOUS
<1>2. Legible(figure.length, 1, 2, 3)
  <2>1. ASSUME NEW g \in Glyph PROVE g \in (0 .. FONT_WIDTH - 1) \X Nat /\ g[2] * 1 + 1 <= 2
    BY DEF Fits
  <2>2. figure.length * FONT_WIDTH * 1 <= 3 + 1
    BY <1>1 DEF Fits
  <2>3. QED
    BY <1>1, <2>1, <2>2 DEF Fits, Legible
<1>3. 3 \in 3 .. W - 1 - 3 /\ 3 \in 3 .. H - 1 - 3
  BY GsxAssumption DEF Fits
<1>4. TextSound(figure.length, 3, 3, 1, 2)
  BY <1>2, <1>3, TextTurns
<1>5. QED
  BY <1>1, <1>4, Zenon DEF FiguresSound

LEMMA PolylinesSound ==
  ASSUME Fits, figure \in [kind : {"polyline"}, points : [1 .. 3 -> Points(2, 2)]]
  PROVE  FiguresSound
<1>1. figure.kind = "polyline" /\ figure.points \in [1 .. 3 -> Points(2, 2)]
  OBVIOUS
<1>2. Points(2, 2) \subseteq Screen
  BY GsxAssumption DEF Fits, Points, Screen
<1>3. ASSUME NEW n \in Nat, NEW points \in [1 .. n -> Screen]
      PROVE  points \in Seq(Screen) /\ Len(points) = n
  OBVIOUS
<1>4. PICK n \in Nat : n = 3
  OBVIOUS
<1>5. PICK points : points = figure.points /\ points \in [1 .. n -> Screen]
  BY <1>1, <1>2, <1>4
<1>6. points \in Seq(Screen) /\ Len(points) = n
  BY <1>3, <1>5
<1>7. points \in Seq(Screen) /\ Len(points) >= 2
  BY <1>4, <1>6
<1>8. Range(points) \subseteq draw_polyline(points)
  BY <1>7, PolylineJoinsItsPoints, Zenon
<1>9. QED
  BY <1>1, <1>5, <1>8, Zenon DEF FiguresSound

LEMMA ArcsSound ==
  ASSUME Fits, figure \in [kind : {"arc"}, r : 0 .. 3, from : Tenths, to : Tenths]
  PROVE  FiguresSound
<1>1. figure.kind = "arc" /\ figure.r \in 0 .. 3 /\ figure.from \in Tenths /\ figure.to \in Tenths
  OBVIOUS
<1>2. PICK r, from, to : r = figure.r /\ from = figure.from /\ to = figure.to
  OBVIOUS
<1>3. InTurn(from) /\ InTurn(to)
  BY <1>1, <1>2 DEF Tenths, InTurn, UpTo
<1>4. /\ r \in Nat /\ 3 \in r .. W - 1 - r /\ 3 \in r .. H - 1 - r
      /\ Measured(r) /\ Apart(r)
  BY <1>1, <1>2, GsxAssumption DEF Fits
<1>5. ASSUME from # to
      PROVE  arc(3, 3, r, from, to) \cup arc(3, 3, r, to, from) = Ring(3, 3, r)
  BY <1>3, <1>4, <1>5, ArcsMakeTheCircle
<1>6. ASSUME from <= to, to <= 2700
      PROVE  arc(3, 3, r, from + 900, to + 900) =
               {<<3 + (p[2] - 3), 3 - (p[1] - 3)>> : p \in arc(3, 3, r, from, to)}
  BY <1>3, <1>4, <1>6, ArcsTurn
<1>7. ArcSound(3, 3, r, from, to)
  BY <1>5, <1>6 DEF ArcSound
<1>8. QED
  BY <1>1, <1>2, <1>7, Zenon DEF FiguresSound

LEMMA GraphicCursorsSound ==
  ASSUME Fits, figure \in [kind : {"graphic_cursor"}, at : Points(W - 1, H - 1)]
  PROVE  FiguresSound
<1>1. /\ figure.kind = "graphic_cursor"
      /\ figure.at[1] \in 0 .. W - 1 /\ figure.at[2] \in 0 .. H - 1
  BY DEF Points
<1>2. GraphicCursorSound(figure.at[1], figure.at[2])
  BY <1>1, GraphicCursorIsRestored DEF Fits
<1>3. QED
  BY <1>1, <1>2, Zenon DEF FiguresSound

LEMMA BitmapsSound ==
  ASSUME figure \in [kind : {"bitmap"}, at : Points(7, 7), width : 0 .. 4]
  PROVE  FiguresSound
<1>1. /\ figure.kind = "bitmap" /\ figure.at[1] \in Int /\ figure.at[2] \in Int
      /\ figure.width \in Nat
  BY DEF Points
<1>2. draw_bitmap(figure.at[1], figure.at[2], figure.width) =
        {p \in Screen : p[2] = figure.at[2] /\ p[1] - figure.at[1] \in 0 .. figure.width - 1}
  BY <1>1, BitmapIs
<1>3. QED
  BY <1>1, <1>2, Zenon DEF FiguresSound

LEMMA FigureIsSound ==
  ASSUME Fits, FigureInv
  PROVE  FiguresSound
<1>1. CASE figure = NoFigure
  <2>1. figure.kind = "none"
    BY <1>1 DEF NoFigure
  <2>2. QED
    BY <2>1, Zenon DEF FiguresSound
<1>2. CASE figure.kind = "polygon"
  BY <1>2, Zenon DEF FiguresSound
<1>3. CASE figure \in Figures /\ figure.kind # "polygon"
  <2>1. \/ figure \in [kind : {"line"}, from : Points(7, 7), to : Points(8, 8)]
        \/ figure \in {f \in [kind : {"circle"}, at : Points(W - 1, H - 1), r : 0 .. 3] :
                         \A c \in 1 .. 2 : f.at[c] \in f.r .. 6 - f.r}
        \/ figure \in {f \in [kind : {"bar"}, ll : Points(6, 6), ur : Points(6, 6)] :
                         f.ll[1] <= f.ur[1] /\ f.ur[2] <= f.ll[2]}
        \/ figure \in [kind : {"marker"}, style : Markers, height : 0 .. 7]
        \/ figure \in [kind : {"text"}, length : 1 .. 2]
        \/ figure \in [kind : {"polyline"}, points : [1 .. 3 -> Points(2, 2)]]
        \/ figure \in [kind : {"arc"}, r : 0 .. 3, from : Tenths, to : Tenths]
        \/ figure \in [kind : {"graphic_cursor"}, at : Points(W - 1, H - 1)]
        \/ figure \in [kind : {"bitmap"}, at : Points(7, 7), width : 0 .. 4]
        \/ figure \in [kind : {"polygon"}, points : Polygons \cup Zigzags]
    BY <1>3, Zenon DEF Figures
  <2>2. figure \notin [kind : {"polygon"}, points : Polygons \cup Zigzags]
    BY <1>3
  <2>3. QED
    BY <2>1, <2>2, LinesSound, CirclesSound, BarsSound, MarkersSound, TextsSound,
       PolylinesSound, ArcsSound, GraphicCursorsSound, BitmapsSound, Zenon
<1>4. QED
  BY <1>1, <1>2, <1>3 DEF FigureInv

LEMMA FigureStep ==
  FigureInv /\ [AlgorithmsNext]_<<others, vars, baud, divisor>> => FigureInv'
<1> SUFFICES ASSUME FigureInv, [AlgorithmsNext]_<<others, vars, baud, divisor>>
             PROVE  FigureInv'
  OBVIOUS
<1>1. CASE figure' \in Figures
  BY <1>1 DEF FigureInv, Figures, Markers, Tenths, Polygons, Zigzags, Points
<1>2. CASE UNCHANGED figure
  BY <1>2 DEF FigureInv
<1>3. QED
  BY <1>1, <1>2 DEF AlgorithmsNext, Heap, Baud, DrawFigure, Tick, others

(* FiguresSound: every figure the run draws is what it should be, on every *)
(* screen of seven by seven or more, for every halftone, every character   *)
(* of two by two, every arm of the graphic cursor and every angle of the   *)
(* first quarter.                                                          *)
THEOREM FiguresAreSound == ASSUME Fits PROVE AlgorithmsSpec => []FiguresSound
<1>1. AlgorithmsInit => FigureInv
  BY DEF AlgorithmsInit, FigureInv
<1>2. FigureInv /\ [AlgorithmsNext]_<<others, vars, baud, divisor>> => FigureInv'
  BY FigureStep
<1>3. FigureInv => FiguresSound
  BY FigureIsSound
<1>4. QED
  BY <1>1, <1>2, <1>3, PTL DEF AlgorithmsSpec

-----------------------------------------------------------------------------
(* Polygons. *)

(* How many of I have a column of x or less. *)
Upto(I, col, x) == Cardinality({i \in I : col[i] <= x})

(* The k-th column, in order. *)
Nth(I, col, k) == Min({x \in {col[i] : i \in I} : Upto(I, col, x) >= k})

LEMMA UptoCounts ==
  ASSUME NEW I, IsFiniteSet(I), NEW col \in [I -> Int]
  PROVE  /\ \A x \in Int : Upto(I, col, x) \in 0 .. Cardinality(I)
         /\ \A x, z \in Int : x <= z => Upto(I, col, x) <= Upto(I, col, z)
         /\ \A x, z \in Int : (\A i \in I : col[i] <= x <=> col[i] <= z) =>
              Upto(I, col, x) = Upto(I, col, z)
         /\ \A i \in I : Upto(I, col, col[i]) > Upto(I, col, col[i] - 1)
<1> DEFINE C(x) == {i \in I : col[i] <= x}
<1>1. \A x \in Int : C(x) \subseteq I /\ IsFiniteSet(C(x)) /\ Cardinality(C(x)) \in Nat
  BY FS_Subset, FS_CardinalityType
<1>2. \A x \in Int : Cardinality(C(x)) \in 0 .. Cardinality(I)
  BY <1>1, FS_Subset, FS_CardinalityType
<1>3. ASSUME NEW x \in Int, NEW z \in Int, x <= z PROVE Cardinality(C(x)) <= Cardinality(C(z))
  <2>1. C(x) \subseteq C(z)
    BY <1>3
  <2>2. QED
    BY <1>1, <2>1, FS_Subset
<1>4. ASSUME NEW x \in Int, NEW z \in Int, \A i \in I : col[i] <= x <=> col[i] <= z
      PROVE  C(x) = C(z)
  BY <1>4
<1>5. ASSUME NEW i \in I PROVE Cardinality(C(col[i])) > Cardinality(C(col[i] - 1))
  <2>1. col[i] \in Int /\ col[i] - 1 \in Int
    OBVIOUS
  <2>2. C(col[i] - 1) \subseteq C(col[i]) /\ i \in C(col[i]) /\ i \notin C(col[i] - 1)
    BY <2>1
  <2>3. PICK S, T : S = C(col[i] - 1) /\ T = C(col[i])
    OBVIOUS
  <2>4. /\ IsFiniteSet(T) /\ Cardinality(T) \in Nat /\ Cardinality(S) \in Nat
        /\ S \subseteq T /\ S # T
    BY <1>1, <2>1, <2>2, <2>3
  <2>5. Cardinality(S) <= Cardinality(T) /\ Cardinality(S) # Cardinality(T)
    BY <2>4, FS_Subset
  <2>6. QED
    BY <2>3, <2>4, <2>5
<1>6. \A x : Upto(I, col, x) = Cardinality(C(x))
  BY DEF Upto
<1> HIDE DEF C
<1>7. QED
  BY <1>2, <1>3, <1>4, <1>5, <1>6

(* The last column at or before x. *)
LEMMA LastBefore ==
  ASSUME NEW I, IsFiniteSet(I), NEW col \in [I -> Int], NEW x \in Int, Upto(I, col, x) >= 1
  PROVE  \E i \in I : col[i] <= x /\ Upto(I, col, col[i]) = Upto(I, col, x)
<1> DEFINE C == {i \in I : col[i] <= x}
           T == {x - col[i] : i \in C}
<1>1. C # {}
  <2>1. Upto(I, col, x) = Cardinality(C)
    BY DEF Upto
  <2>2. QED
    BY <2>1, FS_EmptySet
<1>2. T \subseteq Nat /\ T # {}
  BY <1>1
<1>3. PICK t \in T : \A u \in T : t <= u
  BY <1>2, LeastNatural
<1>4. PICK i \in C : t = x - col[i]
  OBVIOUS
<1>5. col[i] \in Int /\ col[i] <= x
  OBVIOUS
<1>6. ASSUME NEW j \in I PROVE col[j] <= col[i] <=> col[j] <= x
  <2>1. ASSUME col[j] <= x PROVE col[j] <= col[i]
    <3>1. x - col[j] \in T
      BY <2>1
    <3>2. QED
      BY <1>3, <1>4, <3>1
  <2>2. QED
    BY <1>5, <2>1
<1>7. QED
  BY <1>5, <1>6, UptoCounts

(* The k-th column is passed where k are. *)
LEMMA NthIs ==
  ASSUME NEW I, IsFiniteSet(I), NEW B \in Nat, NEW col \in [I -> 0 .. B],
         NEW k \in 1 .. Cardinality(I)
  PROVE  /\ Nth(I, col, k) \in {col[i] : i \in I}
         /\ \A x \in Int : Nth(I, col, k) <= x <=> Upto(I, col, x) >= k
<1> DEFINE S == {x \in {col[i] : i \in I} : Upto(I, col, x) >= k}
<1>1. col \in [I -> Int]
  OBVIOUS
<1>2. \A i \in I : col[i] \in 0 .. B
  OBVIOUS
<1>3. Cardinality(I) \in Nat /\ k \in Int /\ k >= 1
  BY FS_CardinalityType
<1>4. ASSUME NEW x \in Int, Upto(I, col, x) >= k PROVE \E c \in S : c <= x
  <2>1. Upto(I, col, x) \in Int
    BY <1>1, UptoCounts
  <2>2. Upto(I, col, x) >= 1
    BY <1>3, <1>4, <2>1
  <2>3. PICK i \in I : col[i] <= x /\ Upto(I, col, col[i]) = Upto(I, col, x)
    BY <1>1, <2>2, LastBefore
  <2>4. col[i] \in S
    BY <1>4, <2>3
  <2>5. QED
    BY <2>3, <2>4
<1>5. S # {}
  <2>1. {i \in I : col[i] <= B} = I
    BY <1>2
  <2>2. Upto(I, col, B) = Cardinality(I)
    BY <2>1 DEF Upto
  <2>3. Upto(I, col, B) >= k
    BY <1>3, <2>2
  <2>4. QED
    BY <1>4, <2>3
<1>6. S \subseteq Nat
  BY <1>2
<1>7. PICK c \in S : \A z \in S : c <= z
  BY <1>5, <1>6, LeastNatural
<1>8. Nth(I, col, k) = Min(S)
  BY DEF Nth
<1>9. Nth(I, col, k) = c
  BY <1>6, <1>7, <1>8, MinIs
<1>10. c \in {col[i] : i \in I} /\ Upto(I, col, c) >= k /\ c \in Int
  BY <1>6
<1>11. ASSUME NEW x \in Int PROVE c <= x <=> Upto(I, col, x) >= k
  <2>1. ASSUME c <= x PROVE Upto(I, col, x) >= k
    <3>1. Upto(I, col, c) <= Upto(I, col, x) /\ Upto(I, col, c) \in Int /\ Upto(I, col, x) \in Int
      BY <1>1, <1>10, <2>1, UptoCounts
    <3>2. QED
      BY <1>3, <1>10, <3>1
  <2>2. ASSUME Upto(I, col, x) >= k PROVE c <= x
    <3>1. PICK z \in S : z <= x
      BY <1>4, <2>2
    <3>2. QED
      BY <1>6, <1>7, <3>1
  <2>3. QED
    BY <2>1, <2>2
<1> HIDE DEF S
<1>12. QED
  BY <1>9, <1>10, <1>11

LEMMA OddAndEven == \A c \in Nat : (c + 1) % 2 = 0 <=> c % 2 # 0
OBVIOUS

(* Going round a ring of n, the side changes an even number of times. *)
LEMMA ChangesAreEven ==
  ASSUME NEW n \in Nat \ {0}, NEW side \in [1 .. n -> 0 .. 1]
  PROVE  LET Follower(i) == IF i = n THEN 1 ELSE i + 1
         IN  Cardinality({i \in 1 .. n : side[i] # side[Follower(i)]}) % 2 = 0
<1> DEFINE Follower(i) == IF i = n THEN 1 ELSE i + 1
           C(j) == {i \in 1 .. j - 1 : side[i] # side[i + 1]}
           Wrong == {j \in 1 .. n :
                       ~(Cardinality(C(j)) \in Nat
                           /\ (Cardinality(C(j)) % 2 = 0 <=> side[1] = side[j]))}
<1>1. \A j \in 1 .. n : IsFiniteSet(C(j))
  <2>1. ASSUME NEW j \in 1 .. n PROVE IsFiniteSet(C(j))
    <3>1. C(j) \subseteq 1 .. j - 1 /\ IsFiniteSet(1 .. j - 1)
      BY FS_Interval
    <3>2. QED
      BY <3>1, FS_Subset
  <2>2. QED
    BY <2>1
<1>2. Wrong = {}
  <2> SUFFICES ASSUME Wrong # {} PROVE FALSE
    OBVIOUS
  <2>1. PICK j \in Wrong : \A z \in Wrong : j <= z
    <3>1. Wrong \subseteq Nat
      OBVIOUS
    <3> HIDE DEF Wrong
    <3>2. QED
      BY <3>1, LeastNatural
  <2>2. j \in 1 .. n
    OBVIOUS
  <2>3. CASE j = 1
    <3>1. C(j) = {}
      BY <2>3
    <3>2. QED
      BY <2>3, <3>1, FS_EmptySet
  <2>4. CASE j # 1
    <3>1. j - 1 \in 1 .. n /\ j - 1 \notin Wrong
      BY <2>1, <2>2, <2>4
    <3>2. /\ Cardinality(C(j - 1)) \in Nat
          /\ Cardinality(C(j - 1)) % 2 = 0 <=> side[1] = side[j - 1]
      BY <3>1
    <3>3. side[1] \in 0 .. 1 /\ side[j] \in 0 .. 1 /\ side[j - 1] \in 0 .. 1
      BY <2>2, <3>1
    <3>4. CASE side[j - 1] = side[j]
      <4>1. C(j) = C(j - 1)
        BY <2>2, <3>4
      <4>2. QED
        BY <3>2, <3>4, <4>1
    <3>5. CASE side[j - 1] # side[j]
      <4>1. C(j) = C(j - 1) \cup {j - 1} /\ j - 1 \notin C(j - 1)
        BY <2>2, <2>4, <3>5
      <4>2. Cardinality(C(j)) = Cardinality(C(j - 1)) + 1
        <5>1. IsFiniteSet(C(j - 1))
          BY <1>1, <3>1
        <5> HIDE DEF C
        <5>2. QED
          BY <4>1, <5>1, FS_AddElement
      <4>3. PICK c \in Nat : c = Cardinality(C(j - 1))
        BY <3>2
      <4>4. c + 1 \in Nat /\ ((c + 1) % 2 = 0 <=> c % 2 # 0)
        BY OddAndEven
      <4>5. Cardinality(C(j)) \in Nat /\ (Cardinality(C(j)) % 2 = 0 <=> side[1] # side[j - 1])
        <5> HIDE DEF C
        <5>1. QED
          BY <3>2, <4>2, <4>3, <4>4
      <4>6. side[1] = side[j] <=> side[1] # side[j - 1]
        BY <3>3, <3>5
      <4>7. QED
        BY <4>5, <4>6
    <3>6. QED
      BY <3>4, <3>5
  <2>5. QED
    BY <2>3, <2>4
<1>3. /\ Cardinality(C(n)) \in Nat
      /\ Cardinality(C(n)) % 2 = 0 <=> side[1] = side[n]
  <2>1. n \in 1 .. n /\ n \notin Wrong
    <3>1. n \in 1 .. n
      OBVIOUS
    <3> HIDE DEF Wrong
    <3>2. QED
      BY <1>2, <3>1
  <2>2. Cardinality(C(n)) \in Nat /\ (Cardinality(C(n)) % 2 = 0 <=> side[1] = side[n])
    <3> HIDE DEF C
    <3>1. QED
      BY <2>1, Zenon
  <2>3. QED
    BY <2>2
<1> DEFINE all == {i \in 1 .. n : side[i] # side[Follower(i)]}
<1>4. CASE side[1] = side[n]
  <2>1. all = C(n)
    BY <1>4
  <2>2. QED
    BY <1>3, <1>4, <2>1
<1>5. CASE side[1] # side[n]
  <2>1. all = C(n) \cup {n} /\ n \notin C(n) /\ IsFiniteSet(C(n))
    BY <1>1, <1>5
  <2>2. Cardinality(all) = Cardinality(C(n)) + 1
    <3> HIDE DEF C, all
    <3>1. QED
      BY <2>1, FS_AddElement
  <2>3. PICK c \in Nat : c = Cardinality(C(n)) /\ c % 2 # 0
    BY <1>3, <1>5
  <2>4. (c + 1) % 2 = 0
    BY <2>3, OddAndEven
  <2>5. Cardinality(all) % 2 = 0
    BY <2>2, <2>3, <2>4
  <2>6. QED
    BY <2>5
<1>6. QED
  BY <1>4, <1>5

(* An edge from its upper end, and how far x, y is to the right of it, scaled. *)
Fall(p, q) == IF p[2] < q[2] THEN <<p, q>> ELSE <<q, p>>
Beyond(e, x, y) == (x - e[1][1]) * (e[2][2] - e[1][2]) - (e[2][1] - e[1][1]) * (y - e[1][2])

(* Column c is where the edge meets the row, cut off. *)
Meets(e, y, c) ==
  \A x \in Int : /\ Beyond(e, x, y) >= 0 => c <= x
                 /\ c < x => Beyond(e, x, y) >= 0
                 /\ Beyond(e, x, y) = 0 => c = x
                 /\ c = x => Beyond(e, x, y) <= 0 /\ Beyond(e, x + 1, y) > 0

LEMMA DivIs ==
  ASSUME NEW n \in Int, NEW d \in Nat, d > 0
  PROVE  n \div d \in Int /\ (n \div d) * d <= n /\ n < (n \div d) * d + d
<1>1. n \div d \in Int /\ n % d \in 0 .. d - 1 /\ n = (n \div d) * d + (n % d)
  OBVIOUS
<1>2. PICK m : m = (n \div d) * d
  OBVIOUS
<1>3. QED
  BY <1>1, <1>2

(* t rows below its upper end an edge from u to s that falls by d. *)
LEMMA CutOff ==
  ASSUME NEW B \in Nat, NEW u \in 0 .. B, NEW s \in 0 .. B, NEW d \in Nat, NEW t \in Nat, t < d,
         NEW c, c = (u * d + (s - u) * t) \div d
  PROVE  /\ c \in 0 .. B
         /\ \A x \in Int :
              LET right(z) == (z - u) * d - (s - u) * t
              IN  /\ right(x) >= 0 => c <= x
                  /\ c < x => right(x) >= 0
                  /\ right(x) = 0 => c = x
                  /\ c = x => right(x) <= 0 /\ right(x + 1) > 0
<1>1. u \in Nat /\ s \in Nat /\ B - u \in Nat /\ B - s \in Nat /\ d > 0 /\ d - t \in Nat
  OBVIOUS
<1> DEFINE n == u * d + (s - u) * t
<1>2. n \in Int
  BY <1>1
<1>3. n >= 0
  <2>1. u * (d - t) >= 0 /\ s * t >= 0
    BY <1>1
  <2>2. u * (d - t) + s * t = n /\ u * (d - t) \in Int /\ s * t \in Int
    BY <1>1
  <2> HIDE DEF n
  <2>3. QED
    BY <2>1, <2>2
<1>4. n <= B * d
  <2>1. (B - u) * (d - t) >= 0 /\ (B - s) * t >= 0
    BY <1>1
  <2>2. (B - u) * (d - t) + (B - s) * t = B * d - n
    BY <1>1
  <2>3. (B - u) * (d - t) \in Int /\ (B - s) * t \in Int /\ B * d \in Int
    BY <1>1
  <2> HIDE DEF n
  <2>4. QED
    BY <1>2, <2>1, <2>2, <2>3
<1>5. c = n \div d
  OBVIOUS
<1>6. \A z \in Int : (z - u) * d - (s - u) * t = z * d - n
  BY <1>1
<1> HIDE DEF n
<1>7. c \in Int /\ c * d <= n /\ n < c * d + d
  BY <1>1, <1>2, <1>5, DivIs
<1>8. \A a, b \in Int : /\ a * d \in Int /\ (a + 1) * d = a * d + d
                        /\ a < b => a * d + d <= b * d
  BY <1>1, Multiples
<1>9. c >= 0
  <2>1. c < 0 => c * d + d <= 0 * d
    BY <1>7, <1>8
  <2>2. 0 * d = 0
    BY <1>1
  <2>3. QED
    BY <1>2, <1>3, <1>7, <1>8, <2>1, <2>2
<1>10. c <= B
  <2>1. B < c => B * d + d <= c * d
    BY <1>7, <1>8
  <2>2. c * d \in Int /\ B * d \in Int
    BY <1>7, <1>8
  <2>3. QED
    BY <1>1, <1>2, <1>4, <1>7, <2>1, <2>2
<1>11. ASSUME NEW x \in Int
       PROVE  /\ x * d - n >= 0 => c <= x
              /\ c < x => x * d - n >= 0
              /\ x * d - n = 0 => c = x
              /\ c = x => x * d - n <= 0 /\ (x + 1) * d - n > 0
  <2>1. /\ x < c => x * d + d <= c * d
        /\ c < x => c * d + d <= x * d
        /\ (x + 1) * d = x * d + d /\ x * d \in Int /\ c * d \in Int
    BY <1>7, <1>8
  <2>2. QED
    BY <1>1, <1>2, <1>7, <2>1
<1>12. ASSUME NEW x \in Int
       PROVE  LET right(z) == (z - u) * d - (s - u) * t
              IN  /\ right(x) >= 0 => c <= x
                  /\ c < x => right(x) >= 0
                  /\ right(x) = 0 => c = x
                  /\ c = x => right(x) <= 0 /\ right(x + 1) > 0
  <2>1. /\ (x - u) * d - (s - u) * t = x * d - n
        /\ ((x + 1) - u) * d - (s - u) * t = (x + 1) * d - n
    <3>1. x + 1 \in Int
      OBVIOUS
    <3>2. QED
      BY <1>6, <3>1, Zenon
  <2>2. QED
    BY <1>11, <2>1
<1>13. QED
  BY <1>7, <1>9, <1>10, <1>12

LEMMA EdgeIsCut ==
  ASSUME NEW p \in Screen, NEW q \in Screen, NEW y \in Int
  PROVE  /\ Cut(p, q, y) <=> Fall(p, q)[1][2] <= y /\ y < Fall(p, q)[2][2]
         /\ Cut(p, q, y) => /\ Column(p, q, y) \in 0 .. W - 1
                            /\ Meets(Fall(p, q), y, Column(p, q, y))
<1>1. /\ p[1] \in 0 .. W - 1 /\ p[2] \in Int /\ q[1] \in 0 .. W - 1 /\ q[2] \in Int
      /\ W - 1 \in Nat
  BY GsxAssumption DEF Screen
<1>2. Cut(p, q, y) <=> Fall(p, q)[1][2] <= y /\ y < Fall(p, q)[2][2]
  BY <1>1 DEF Cut, Fall
<1>3. ASSUME NEW e, e \in {<<p, q>>, <<q, p>>}, e[1][2] <= y, y < e[2][2],
             NEW c, c = (e[1][1] * (e[2][2] - e[1][2]) + (e[2][1] - e[1][1]) * (y - e[1][2]))
                          \div (e[2][2] - e[1][2])
      PROVE  c \in 0 .. W - 1 /\ Meets(e, y, c)
  <2>1. PICK u, s, d, t : /\ u = e[1][1] /\ s = e[2][1]
                          /\ d = e[2][2] - e[1][2] /\ t = y - e[1][2]
    OBVIOUS
  <2>2. /\ u \in 0 .. W - 1 /\ s \in 0 .. W - 1 /\ d \in Nat /\ t \in Nat /\ t < d
    BY <1>1, <1>3, <2>1
  <2>3. c = (u * d + (s - u) * t) \div d
    BY <1>3, <2>1
  <2>4. /\ c \in 0 .. W - 1
        /\ \A x \in Int :
              LET right(z) == (z - u) * d - (s - u) * t
              IN  /\ right(x) >= 0 => c <= x
                  /\ c < x => right(x) >= 0
                  /\ right(x) = 0 => c = x
                  /\ c = x => right(x) <= 0 /\ right(x + 1) > 0
    BY <1>1, <2>2, <2>3, CutOff
  <2>5. \A z : Beyond(e, z, y) = (z - u) * d - (s - u) * t
    BY <2>1 DEF Beyond
  <2>6. QED
    BY <2>4, <2>5 DEF Meets
<1>4. ASSUME NEW e, e = Fall(p, q), Cut(p, q, y)
      PROVE  Column(p, q, y) =
               (e[1][1] * (e[2][2] - e[1][2]) + (e[2][1] - e[1][1]) * (y - e[1][2]))
                 \div (e[2][2] - e[1][2])
  <2>1. CASE p[2] < q[2]
    <3>1. e[1] = p /\ e[2] = q
      BY <1>4, <2>1 DEF Fall
    <3>2. PICK a, b, d, t : a = p[1] /\ b = q[1] /\ d = q[2] - p[2] /\ t = y - p[2]
      OBVIOUS
    <3>3. a \in Int /\ b \in Int /\ d \in Nat /\ d > 0 /\ t \in Int
      BY <1>1, <2>1, <3>2
    <3>4. Column(p, q, y) = IF b - a = 0 THEN a ELSE (a * d + (b - a) * t) \div d
      BY <3>2, <3>3 DEF Column
    <3>5. CASE b - a = 0
      <4>1. a * d + (b - a) * t = a * d /\ (a * d) \div d = a
        BY <3>3, <3>5
      <4>2. QED
        BY <3>1, <3>2, <3>4, <3>5, <4>1
    <3>6. CASE b - a # 0
      BY <3>1, <3>2, <3>4, <3>6
    <3>7. QED
      BY <3>5, <3>6
  <2>2. CASE ~(p[2] < q[2])
    <3>1. e[1] = q /\ e[2] = p
      BY <1>4, <2>2 DEF Fall
    <3>2. PICK a, b, d, t : a = q[1] /\ b = p[1] /\ d = p[2] - q[2] /\ t = y - q[2]
      OBVIOUS
    <3>3. a \in Int /\ b \in Int /\ d \in Nat /\ d > 0 /\ t \in Int
      BY <1>1, <1>4, <2>2, <3>2 DEF Cut
    <3>4. Column(p, q, y) = IF a - b = 0 THEN b ELSE (b * d - (a - b) * (t - d)) \div d
      <4>1. q[2] - p[2] = -d /\ -(q[2] - p[2]) = d /\ y - p[2] = t - d /\ ~(q[2] - p[2] > 0)
        BY <1>1, <3>2, <3>3
      <4>2. QED
        BY <3>2, <4>1 DEF Column
    <3>5. CASE a - b = 0
      <4>1. a = b /\ a * d + (b - a) * t = a * d /\ (a * d) \div d = a
        BY <3>3, <3>5
      <4>2. QED
        BY <3>1, <3>2, <3>4, <3>5, <4>1
    <3>6. CASE a - b # 0
      <4>1. b * d - (a - b) * (t - d) = a * d + (b - a) * t
        BY <3>3
      <4>2. QED
        BY <3>1, <3>2, <3>4, <3>6, <4>1
    <3>7. QED
      BY <3>5, <3>6
  <2>3. QED
    BY <2>1, <2>2
<1>5. ASSUME Cut(p, q, y)
      PROVE  Column(p, q, y) \in 0 .. W - 1 /\ Meets(Fall(p, q), y, Column(p, q, y))
  <2>1. PICK e : e = Fall(p, q)
    OBVIOUS
  <2>2. e \in {<<p, q>>, <<q, p>>}
    BY <2>1 DEF Fall
  <2>3. e[1][2] <= y /\ y < e[2][2]
    BY <1>2, <1>5, <2>1
  <2>4. QED
    BY <1>3, <1>4, <1>5, <2>1, <2>2, <2>3
<1>6. QED
  BY <1>2, <1>5

(* The pairs of columns that are filled. *)
LEMMA PairsAre ==
  ASSUME NEW I, IsFiniteSet(I), Cardinality(I) % 2 = 0, NEW B \in Nat, NEW col \in [I -> 0 .. B],
         NEW k \in 1 .. Cardinality(I) \div 2
  PROVE  /\ 2 * k \in 1 .. Cardinality(I) /\ 2 * k - 1 \in 1 .. Cardinality(I)
         /\ Nth(I, col, 2 * k) \in 0 .. B /\ Nth(I, col, 2 * k - 1) \in 0 .. B
         /\ Nth(I, col, 2 * k - 1) <= Nth(I, col, 2 * k)
<1>1. PICK m \in Nat : m = Cardinality(I)
  BY FS_CardinalityType
<1>2. k \in 1 .. m \div 2
  BY <1>1
<1>3. 2 * k \in 1 .. m /\ 2 * k - 1 \in 1 .. m
  BY <1>2
<1>4. PICK a, b : a = Nth(I, col, 2 * k - 1) /\ b = Nth(I, col, 2 * k)
  OBVIOUS
<1>5. {col[i] : i \in I} \subseteq 0 .. B
  OBVIOUS
<1>6. /\ a \in 0 .. B /\ \A x \in Int : a <= x <=> Upto(I, col, x) >= 2 * k - 1
  BY <1>1, <1>3, <1>4, <1>5, NthIs
<1>7. /\ b \in 0 .. B /\ \A x \in Int : b <= x <=> Upto(I, col, x) >= 2 * k
  BY <1>1, <1>3, <1>4, <1>5, NthIs
<1>8. Upto(I, col, b) \in Int
  <2>1. b \in Int /\ col \in [I -> Int]
    BY <1>7
  <2>2. QED
    BY <1>1, <2>1, UptoCounts
<1>9. a <= b
  <2>1. b \in Int /\ a \in Int /\ b <= b
    BY <1>6, <1>7
  <2>2. Upto(I, col, b) >= 2 * k
    BY <1>7, <2>1
  <2>3. Upto(I, col, b) >= 2 * k - 1
    BY <1>2, <1>8, <2>2
  <2>4. QED
    BY <1>6, <2>1, <2>3
<1>10. QED
  BY <1>1, <1>3, <1>4, <1>6, <1>7, <1>9

InPair(I, col, x) ==
  \E k \in 1 .. Cardinality(I) \div 2 :
    Nth(I, col, 2 * k - 1) <= x /\ x <= Nth(I, col, 2 * k)

(* An even number of edges, their columns, and those x is not to the left of. *)
Sided(I, B, col, x, L) ==
  /\ IsFiniteSet(I) /\ Cardinality(I) % 2 = 0 /\ B \in Nat /\ col \in [I -> 0 .. B]
  /\ x \in Int /\ L \subseteq I
  /\ \A i \in I : (col[i] < x => i \in L) /\ (i \in L => col[i] <= x)

(* A pixel is between the columns of a pair if an odd number of the edges  *)
(* are to its left, or one of them meets it.                               *)
LEMMA PairsFill ==
  ASSUME NEW I, NEW B, NEW col, NEW x, NEW L, Sided(I, B, col, x, L)
  PROVE  InPair(I, col, x) <=> Cardinality(L) % 2 = 1 \/ \E i \in I : col[i] = x
<1>0. /\ IsFiniteSet(I) /\ Cardinality(I) % 2 = 0 /\ B \in Nat /\ col \in [I -> 0 .. B]
      /\ x \in Int /\ L \subseteq I
      /\ \A i \in I : (col[i] < x => i \in L) /\ (i \in L => col[i] <= x)
  BY DEF Sided
<1> USE <1>0
<1>1. PICK m \in Nat : m = Cardinality(I) /\ m % 2 = 0
  BY FS_CardinalityType
<1>2. col \in [I -> Int] /\ x - 1 \in Int /\ \A i \in I : col[i] \in 0 .. B /\ col[i] \in Int
  OBVIOUS
<1>3. PICK before, upto : before = Upto(I, col, x - 1) /\ upto = Upto(I, col, x)
  OBVIOUS
<1>4. before \in 0 .. m /\ upto \in 0 .. m
  BY <1>1, <1>2, <1>3, UptoCounts
<1>5. PICK l : l = Cardinality(L)
  OBVIOUS
<1>6. l \in Nat /\ before <= l /\ l <= upto
  <2> DEFINE S == {i \in I : col[i] <= x - 1}
             T == {i \in I : col[i] <= x}
  <2>1. S \subseteq L
    <3>1. \A i \in S : i \in I /\ col[i] < x
      BY <1>2
    <3>2. QED
      BY <3>1
  <2>2. L \subseteq T /\ T \subseteq I
    OBVIOUS
  <2>3. before = Cardinality(S) /\ upto = Cardinality(T)
    BY <1>3 DEF Upto
  <2> HIDE DEF S, T
  <2>4. IsFiniteSet(T) /\ IsFiniteSet(L)
    BY <2>2, FS_Subset
  <2>5. Cardinality(S) <= Cardinality(L) /\ Cardinality(L) <= Cardinality(T)
    BY <2>1, <2>2, <2>4, FS_Subset
  <2>6. QED
    BY <1>5, <2>3, <2>4, <2>5, FS_CardinalityType
<1>7. ASSUME NEW j \in 1 .. m
      PROVE  /\ Nth(I, col, j) \in {col[i] : i \in I} /\ Nth(I, col, j) \in Int
             /\ Nth(I, col, j) <= x <=> upto >= j
             /\ Nth(I, col, j) <= x - 1 <=> before >= j
  <2>1. Nth(I, col, j) \in {col[i] : i \in I}
    BY <1>1, NthIs
  <2>2. \A z \in Int : Nth(I, col, j) <= z <=> Upto(I, col, z) >= j
    BY <1>1, NthIs
  <2>3. QED
    BY <1>2, <1>3, <2>1, <2>2
<1>8. \A k \in 1 .. m \div 2 : k \in Int /\ 2 * k \in 1 .. m /\ 2 * k - 1 \in 1 .. m
  OBVIOUS
<1> DEFINE Within == \E k \in 1 .. m \div 2 : Nth(I, col, 2 * k - 1) <= x /\ x <= Nth(I, col, 2 * k)
<1>9. ASSUME NEW j \in 1 .. m, Nth(I, col, j) <= x,
             j % 2 = 1 => x <= Nth(I, col, j + 1),
             j % 2 = 0 => Nth(I, col, j - 1) <= x /\ x <= Nth(I, col, j)
      PROVE  Within
  <2>1. CASE j % 2 = 1
    <3>1. PICK k : k = (j + 1) \div 2
      OBVIOUS
    <3>2. k \in 1 .. m \div 2 /\ 2 * k - 1 = j /\ 2 * k = j + 1
      BY <1>1, <2>1, <3>1
    <3>3. QED
      BY <1>9, <2>1, <3>2
  <2>2. CASE j % 2 = 0
    <3>1. PICK k : k = j \div 2
      OBVIOUS
    <3>2. k \in 1 .. m \div 2 /\ 2 * k - 1 = j - 1 /\ 2 * k = j
      BY <1>1, <2>2, <3>1
    <3>3. QED
      BY <1>9, <2>2, <3>2
  <2>3. j % 2 = 1 \/ j % 2 = 0
    OBVIOUS
  <2>4. QED
    BY <2>1, <2>2, <2>3
<1>10. ASSUME NEW j \in 1 .. m, before < j PROVE x <= Nth(I, col, j)
  <2>1. ~(before >= j)
    BY <1>4, <1>10
  <2>2. QED
    BY <1>7, <2>1
<1>11. ASSUME l % 2 = 1 PROVE Within
  <2>1. l \in 1 .. m /\ l + 1 \in 1 .. m
    BY <1>1, <1>4, <1>6, <1>11
  <2>2. Nth(I, col, l) <= x
    BY <1>6, <1>7, <2>1
  <2>3. x <= Nth(I, col, l + 1)
    BY <1>4, <1>6, <1>10, <2>1
  <2> HIDE DEF Within
  <2>4. QED
    BY <1>9, <1>11, <2>1, <2>2, <2>3
<1>12. ASSUME NEW i \in I, col[i] = x PROVE Within
  <2>1. before < upto
    BY <1>2, <1>3, <1>4, <1>12, UptoCounts
  <2>2. upto \in 1 .. m /\ upto >= upto
    BY <1>4, <2>1
  <2>3. Nth(I, col, upto) <= x /\ x <= Nth(I, col, upto)
    BY <1>7, <1>10, <2>1, <2>2
  <2>4. ASSUME upto % 2 = 1 PROVE x <= Nth(I, col, upto + 1)
    <3>1. upto + 1 \in 1 .. m /\ before < upto + 1
      BY <1>1, <1>4, <2>1, <2>2, <2>4
    <3>2. QED
      BY <1>10, <3>1
  <2>5. ASSUME upto % 2 = 0 PROVE Nth(I, col, upto - 1) <= x
    <3>1. upto - 1 \in 1 .. m /\ upto >= upto - 1
      BY <2>2, <2>5
    <3>2. QED
      BY <1>7, <3>1
  <2> HIDE DEF Within
  <2>6. QED
    BY <1>9, <2>2, <2>3, <2>4, <2>5
<1>13. ASSUME Within, \A i \in I : col[i] # x PROVE l % 2 = 1
  <2>1. PICK k \in 1 .. m \div 2 : Nth(I, col, 2 * k - 1) <= x /\ x <= Nth(I, col, 2 * k)
    BY <1>13
  <2>2. k \in Int /\ 2 * k \in 1 .. m /\ 2 * k - 1 \in 1 .. m
    BY <1>8
  <2>3. upto >= 2 * k - 1
    BY <1>7, <2>1, <2>2
  <2>4. PICK c : c = Nth(I, col, 2 * k)
    OBVIOUS
  <2>5. c \in Int /\ c # x /\ x <= c
    BY <1>7, <1>13, <2>1, <2>2, <2>4
  <2>6. ~(upto >= 2 * k)
    BY <1>7, <2>2, <2>4, <2>5
  <2>7. upto = 2 * k - 1
    BY <1>4, <2>2, <2>3, <2>6
  <2>8. before = upto
    <3>1. \A i \in I : col[i] <= x - 1 <=> col[i] <= x
      BY <1>2, <1>13
    <3>2. QED
      BY <1>2, <1>3, <3>1, UptoCounts
  <2>9. l = 2 * k - 1
    BY <1>4, <1>6, <2>7, <2>8
  <2>10. QED
    BY <2>2, <2>9
<1>14. Within <=> l % 2 = 1 \/ \E i \in I : col[i] = x
  <2> HIDE DEF Within
  <2>1. QED
    BY <1>11, <1>12, <1>13
<1>15. QED
  BY <1>1, <1>5, <1>14 DEF InPair

Cuts(points, y) == {i \in DOMAIN points : Cut(points[i], EndOf(points, i), y)}
Columns(points, y) ==
  [i \in Cuts(points, y) |-> Column(points[i], EndOf(points, i), y)]
FallOf(points, i) == Fall(points[i], EndOf(points, i))

LEMMA CrossingsAre ==
  ASSUME NEW points, NEW y
  PROVE  Crossings(points, y) =
           [k \in 1 .. Cardinality(Cuts(points, y)) |-> Nth(Cuts(points, y), Columns(points, y), k)]
BY DEF Crossings, Cuts, Columns, Nth, Upto

(* The edges that meet a row. *)
LEMMA CutsAre ==
  ASSUME NEW n \in Nat \ {0}, NEW points \in [1 .. n -> Screen], NEW y \in Int
  PROVE  /\ Cuts(points, y) \subseteq 1 .. n /\ IsFiniteSet(Cuts(points, y))
         /\ Cardinality(Cuts(points, y)) \in Nat /\ Cardinality(Cuts(points, y)) % 2 = 0
         /\ Columns(points, y) \in [Cuts(points, y) -> 0 .. W - 1]
         /\ \A i \in 1 .. n :
              i \in Cuts(points, y) <=>
                FallOf(points, i)[1][2] <= y /\ y < FallOf(points, i)[2][2]
         /\ \A i \in Cuts(points, y) : Meets(FallOf(points, i), y, Columns(points, y)[i])
<1> DEFINE Follower(i) == IF i = n THEN 1 ELSE i + 1
           side == [i \in 1 .. n |-> IF points[i][2] <= y THEN 1 ELSE 0]
           I == Cuts(points, y)
<1>1. DOMAIN points = 1 .. n /\ Len(points) = n
  OBVIOUS
<1>2. ASSUME NEW i \in 1 .. n
      PROVE  /\ Follower(i) \in 1 .. n /\ EndOf(points, i) = points[Follower(i)]
             /\ points[i] \in Screen /\ EndOf(points, i) \in Screen
  <2>1. Follower(i) \in 1 .. n
    OBVIOUS
  <2>2. EndOf(points, i) = points[Follower(i)]
    BY <1>1 DEF EndOf
  <2> HIDE DEF Follower
  <2>3. QED
    BY <2>1, <2>2
<1>3. I = {i \in 1 .. n : side[i] # side[Follower(i)]}
  <2>1. ASSUME NEW i \in 1 .. n
        PROVE  Cut(points[i], EndOf(points, i), y) <=> side[i] # side[Follower(i)]
    <3>1. PICK j \in 1 .. n : j = Follower(i) /\ EndOf(points, i) = points[j]
      BY <1>2
    <3>2. points[i][2] \in Int /\ points[j][2] \in Int
      BY <1>2, <3>1, GsxAssumption DEF Screen
    <3>3. Cut(points[i], points[j], y) <=> side[i] # side[j]
      BY <3>2 DEF Cut
    <3>4. QED
      BY <3>1, <3>3
  <2> HIDE DEF side, Follower
  <2>2. QED
    BY <1>1, <2>1 DEF Cuts
<1>4. side \in [1 .. n -> 0 .. 1]
  OBVIOUS
<1>5. Cardinality(I) % 2 = 0
  <2>1. Cardinality({i \in 1 .. n : side[i] # side[Follower(i)]}) % 2 = 0
    <3> HIDE DEF side
    <3>1. QED
      BY <1>4, ChangesAreEven
  <2> HIDE DEF side, Follower, I
  <2>2. QED
    BY <1>3, <2>1
<1>6. I \subseteq 1 .. n /\ IsFiniteSet(I) /\ Cardinality(I) \in Nat
  <2>1. I \subseteq 1 .. n
    BY <1>1 DEF Cuts
  <2> HIDE DEF I
  <2>2. IsFiniteSet(1 .. n)
    BY FS_Interval
  <2>3. IsFiniteSet(I)
    BY <2>1, <2>2, FS_Subset
  <2>4. QED
    BY <2>1, <2>3, FS_CardinalityType
<1>7. ASSUME NEW i \in 1 .. n
      PROVE  /\ i \in I <=> FallOf(points, i)[1][2] <= y /\ y < FallOf(points, i)[2][2]
             /\ i \in I => /\ Column(points[i], EndOf(points, i), y) \in 0 .. W - 1
                           /\ Meets(FallOf(points, i), y, Column(points[i], EndOf(points, i), y))
  <2>1. PICK p, q : p = points[i] /\ q = EndOf(points, i)
    OBVIOUS
  <2>2. p \in Screen /\ q \in Screen
    BY <1>2, <2>1
  <2>3. i \in I <=> Cut(p, q, y)
    BY <1>1, <2>1 DEF Cuts
  <2>4. FallOf(points, i) = Fall(p, q)
    BY <2>1 DEF FallOf
  <2>5. /\ Cut(p, q, y) <=> Fall(p, q)[1][2] <= y /\ y < Fall(p, q)[2][2]
        /\ Cut(p, q, y) => /\ Column(p, q, y) \in 0 .. W - 1
                           /\ Meets(Fall(p, q), y, Column(p, q, y))
    BY <2>2, EdgeIsCut
  <2> HIDE DEF I
  <2>6. QED
    BY <2>1, <2>3, <2>4, <2>5, Zenon
<1> HIDE DEF side, Follower
<1>8. \A i \in I : /\ Columns(points, y)[i] = Column(points[i], EndOf(points, i), y)
                   /\ Columns(points, y)[i] \in 0 .. W - 1
  BY <1>6, <1>7 DEF Columns
<1>9. Columns(points, y) \in [I -> 0 .. W - 1]
  <2>1. Columns(points, y) = [i \in I |-> Columns(points, y)[i]]
    BY DEF Columns
  <2>2. QED
    BY <1>8, <2>1
<1>10. \A i \in I : Meets(FallOf(points, i), y, Columns(points, y)[i])
  BY <1>6, <1>7, <1>8
<1>11. QED
  BY <1>5, <1>6, <1>7, <1>9, <1>10

LEMMA Extremes ==
  ASSUME NEW B \in Nat, NEW T, T \subseteq 0 .. B, T # {}
  PROVE  /\ Min(T) \in T /\ Max(T) \in T
         /\ \A v \in T : Min(T) <= v /\ v <= Max(T)
<1>1. T \subseteq Nat
  OBVIOUS
<1>2. PICK a \in T : \A v \in T : a <= v
  BY <1>1, LeastNatural
<1>3. Min(T) = a
  BY <1>1, <1>2, MinIs
<1>4. PICK b \in T : \A v \in T : v <= b
  <2> DEFINE S == {B - v : v \in T}
  <2>1. S \subseteq Nat /\ S # {}
    OBVIOUS
  <2>2. PICK s \in S : \A u \in S : s <= u
    BY <2>1, LeastNatural
  <2>3. PICK b \in T : s = B - b
    OBVIOUS
  <2>4. ASSUME NEW v \in T PROVE v <= b
    <3>1. s <= B - v /\ v \in Int /\ b \in Int
      BY <2>2
    <3>2. QED
      BY <2>3, <3>1
  <2>5. QED
    BY <2>4
<1>5. Max(T) = b
  BY <1>1, <1>4, MaxIs
<1>6. QED
  BY <1>2, <1>3, <1>4, <1>5

LEMMA LengthIs ==
  ASSUME NEW S, NEW m \in Nat, NEW f \in [1 .. m -> S]
  PROVE  Len(f) = m
OBVIOUS

(* The rows that fill a polygon. *)
Pair(points, y, k) ==
  LET I == Cuts(points, y)  col == Columns(points, y)
  IN  <<Nth(I, col, 2 * k - 1), Nth(I, col, 2 * k), y>>
Pairs(points, y) == 1 .. Cardinality(Cuts(points, y)) \div 2
Heights(points) ==
  LET ys == {points[i][2] : i \in DOMAIN points} IN Min(ys) .. Max(ys)
Rows(points) == UNION {{Pair(points, y, k) : k \in Pairs(points, y)} : y \in Heights(points)}

LEMMA HeightsAre ==
  ASSUME NEW n \in Nat \ {0}, NEW points \in [1 .. n -> Screen]
  PROVE  /\ Heights(points) \subseteq 0 .. H - 1
         /\ \A y \in Int : Cuts(points, y) # {} => y \in Heights(points)
<1> DEFINE ys == {points[i][2] : i \in DOMAIN points}
<1>1. DOMAIN points = 1 .. n /\ Len(points) = n /\ 1 \in 1 .. n /\ H - 1 \in Nat
  BY GsxAssumption
<1>2. \A i \in 1 .. n : points[i][2] \in 0 .. H - 1
  BY DEF Screen
<1>3. ys \subseteq 0 .. H - 1 /\ ys # {} /\ \A i \in 1 .. n : points[i][2] \in ys
  BY <1>1, <1>2
<1> HIDE DEF ys
<1>4. PICK low, high : low = Min(ys) /\ high = Max(ys)
  OBVIOUS
<1>5. low \in ys /\ high \in ys /\ \A v \in ys : low <= v /\ v <= high
  BY <1>1, <1>3, <1>4, Extremes
<1>6. Heights(points) = low .. high
  BY <1>4 DEF Heights, ys
<1>7. low \in 0 .. H - 1 /\ high \in 0 .. H - 1
  BY <1>3, <1>5
<1>8. ASSUME NEW y \in Int, Cuts(points, y) # {} PROVE y \in low .. high
  <2>1. PICK i \in 1 .. n : Cut(points[i], EndOf(points, i), y)
    BY <1>1, <1>8 DEF Cuts
  <2>2. PICK j \in 1 .. n : EndOf(points, i) = points[j]
    BY <1>1 DEF EndOf
  <2>3. PICK v, w : v = points[i][2] /\ w = points[j][2]
    OBVIOUS
  <2>4. v \in ys /\ w \in ys
    BY <1>3, <2>3
  <2>5. v \in Int /\ w \in Int /\ low <= v /\ low <= w /\ v <= high /\ w <= high
    BY <1>3, <1>5, <2>4
  <2>6. (v <= y /\ w > y) \/ (v > y /\ w <= y)
    BY <2>1, <2>2, <2>3 DEF Cut
  <2>7. low \in Int /\ high \in Int
    BY <1>7
  <2>8. QED
    BY <2>5, <2>6, <2>7
<1>9. low .. high \subseteq 0 .. H - 1
  BY <1>1, <1>7
<1>10. QED
  BY <1>6, <1>8, <1>9

LEMMA RowsAreOnScreen ==
  ASSUME NEW n \in Nat \ {0}, NEW points \in [1 .. n -> Screen]
  PROVE  /\ \A y \in Int : \A k \in Pairs(points, y) :
              LET t == Pair(points, y, k)
              IN  t[1] \in 0 .. W - 1 /\ t[2] \in 0 .. W - 1 /\ t[1] <= t[2] /\ t[3] = y
         /\ \A t \in Rows(points) : OnScreen(t)
<1>1. ASSUME NEW y \in Int, NEW k \in Pairs(points, y), NEW t, t = Pair(points, y, k)
      PROVE  t[1] \in 0 .. W - 1 /\ t[2] \in 0 .. W - 1 /\ t[1] <= t[2] /\ t[3] = y
  <2>1. PICK I, col : I = Cuts(points, y) /\ col = Columns(points, y)
    OBVIOUS
  <2>2. /\ IsFiniteSet(I) /\ Cardinality(I) % 2 = 0 /\ col \in [I -> 0 .. W - 1]
        /\ W - 1 \in Nat
    BY <2>1, CutsAre, GsxAssumption
  <2>3. k \in 1 .. Cardinality(I) \div 2
    BY <2>1 DEF Pairs
  <2>4. /\ Nth(I, col, 2 * k) \in 0 .. W - 1 /\ Nth(I, col, 2 * k - 1) \in 0 .. W - 1
        /\ Nth(I, col, 2 * k - 1) <= Nth(I, col, 2 * k)
    BY <2>2, <2>3, PairsAre
  <2>5. t = <<Nth(I, col, 2 * k - 1), Nth(I, col, 2 * k), y>>
    BY <1>1, <2>1 DEF Pair
  <2>6. QED
    BY <2>4, <2>5
<1>2. ASSUME NEW t \in Rows(points) PROVE OnScreen(t)
  <2>1. PICK y \in Heights(points) : t \in {Pair(points, y, k) : k \in Pairs(points, y)}
    BY DEF Rows
  <2>2. PICK k \in Pairs(points, y) : t = Pair(points, y, k)
    BY <2>1
  <2>3. y \in 0 .. H - 1 /\ y \in Int
    BY HeightsAre, GsxAssumption
  <2>4. QED
    BY <1>1, <2>2, <2>3 DEF OnScreen
<1>3. QED
  BY <1>1, <1>2

(* gfx_filled_polygon: its outline and its rows. *)
LEMMA PolygonIs ==
  ASSUME NEW n \in Nat \ {0}, NEW points \in [1 .. n -> Screen], NEW style
  PROVE  filled_polygon(points, style)
           = Outline(points) \cup (IF style = "hollow" THEN {} ELSE Filled(Rows(points), style))
<1> DEFINE Hline(t) == filled_hline(t[1], t[2], t[3], style)
           Row(y) == LET xi == Crossings(points, y)
                     IN  UNION {filled_hline(xi[2 * k - 1], xi[2 * k], y, style) :
                                  k \in 1 .. Len(xi) \div 2}
<1>1. ASSUME NEW y \in Int
      PROVE  Row(y) = UNION {Hline(Pair(points, y, k)) : k \in Pairs(points, y)}
  <2>1. PICK I, col, m, xi : /\ I = Cuts(points, y) /\ col = Columns(points, y)
                             /\ m = Cardinality(I) /\ xi = Crossings(points, y)
    OBVIOUS
  <2>2. m \in Nat /\ IsFiniteSet(I) /\ m % 2 = 0 /\ col \in [I -> 0 .. W - 1] /\ W - 1 \in Nat
    BY <2>1, CutsAre, GsxAssumption
  <2>3. xi = [k \in 1 .. m |-> Nth(I, col, k)]
    BY <2>1, CrossingsAre
  <2>4. Len(xi) = m
    <3>1. xi \in [1 .. m -> {Nth(I, col, k) : k \in 1 .. m}]
      BY <2>3
    <3>2. QED
      BY <2>2, <3>1, LengthIs
  <2>5. ASSUME NEW k \in 1 .. m \div 2
        PROVE  filled_hline(xi[2 * k - 1], xi[2 * k], y, style) = Hline(Pair(points, y, k))
    <3>1. 2 * k \in 1 .. m /\ 2 * k - 1 \in 1 .. m
      BY <2>1, <2>2, PairsAre
    <3>2. xi[2 * k] = Nth(I, col, 2 * k) /\ xi[2 * k - 1] = Nth(I, col, 2 * k - 1)
      BY <2>3, <3>1
    <3>3. Pair(points, y, k) = <<xi[2 * k - 1], xi[2 * k], y>>
      BY <2>1, <3>2 DEF Pair
    <3>4. QED
      BY <3>3
  <2>6. Row(y) = UNION {filled_hline(xi[2 * k - 1], xi[2 * k], y, style) : k \in 1 .. m \div 2}
    BY <2>1, <2>4
  <2>7. Pairs(points, y) = 1 .. m \div 2
    BY <2>1 DEF Pairs
  <2> HIDE DEF Hline, Row
  <2>8. QED
    BY <2>5, <2>6, <2>7
<1>2. filled_polygon(points, style)
        = Outline(points) \cup
            IF style = "hollow" THEN {} ELSE UNION {Row(y) : y \in Heights(points)}
  BY DEF filled_polygon, Heights
<1>3. \A y \in Heights(points) : y \in Int
  BY HeightsAre, GsxAssumption
<1> HIDE DEF Row
<1>4. Filled(Rows(points), style) = UNION {Hline(t) : t \in Rows(points)}
  BY DEF Filled
<1> HIDE DEF Hline
<1>5. UNION {Hline(t) : t \in Rows(points)}
        = UNION {UNION {Hline(Pair(points, y, k)) : k \in Pairs(points, y)} : y \in Heights(points)}
  BY DEF Rows
<1>6. UNION {UNION {Hline(Pair(points, y, k)) : k \in Pairs(points, y)} : y \in Heights(points)}
        = UNION {Row(y) : y \in Heights(points)}
  BY <1>1, <1>3
<1>7. QED
  BY <1>2, <1>4, <1>5, <1>6

(* The edges a pixel is not to the left of. *)
ToTheLeft(points, x, y) ==
  {i \in DOMAIN points : /\ FallOf(points, i)[1][2] <= y /\ y < FallOf(points, i)[2][2]
                         /\ Beyond(FallOf(points, i), x, y) >= 0}

LEMMA RowIsInside ==
  ASSUME NEW n \in Nat \ {0}, NEW points \in [1 .. n -> Screen], NEW x \in Int, NEW y \in Int
  PROVE  LET filled == \E k \in Pairs(points, y) :
                          Pair(points, y, k)[1] <= x /\ x <= Pair(points, y, k)[2]
             odd    == Cardinality(ToTheLeft(points, x, y)) % 2 = 1
         IN  /\ odd => filled
             /\ (\E i \in Cuts(points, y) : Beyond(FallOf(points, i), x, y) = 0) => filled
             /\ filled => \/ odd
                          \/ \E i \in Cuts(points, y) :
                               /\ Beyond(FallOf(points, i), x, y) <= 0
                               /\ Beyond(FallOf(points, i), x + 1, y) > 0
<1>1. PICK I, col, L : /\ I = Cuts(points, y) /\ col = Columns(points, y)
                       /\ L = ToTheLeft(points, x, y)
  OBVIOUS
<1>2. /\ IsFiniteSet(I) /\ Cardinality(I) % 2 = 0 /\ col \in [I -> 0 .. W - 1]
      /\ W - 1 \in Nat /\ I \subseteq 1 .. n
  <2>1. /\ Cuts(points, y) \subseteq 1 .. n /\ IsFiniteSet(Cuts(points, y))
        /\ Cardinality(Cuts(points, y)) % 2 = 0
        /\ Columns(points, y) \in [Cuts(points, y) -> 0 .. W - 1]
    BY CutsAre
  <2>2. W - 1 \in Nat
    BY GsxAssumption
  <2>3. QED
    BY <1>1, <2>1, <2>2
<1>3. \A i \in 1 .. n :
        i \in I <=> FallOf(points, i)[1][2] <= y /\ y < FallOf(points, i)[2][2]
  BY <1>1, CutsAre
<1>4. \A i \in I : Meets(FallOf(points, i), y, col[i])
  BY <1>1, CutsAre
<1>5. L = {i \in I : Beyond(FallOf(points, i), x, y) >= 0}
  <2>1. DOMAIN points = 1 .. n
    OBVIOUS
  <2>2. QED
    BY <1>1, <1>2, <1>3, <2>1 DEF ToTheLeft
<1>6. ASSUME NEW i \in I
      PROVE  LET e == FallOf(points, i)
             IN  /\ i \in L => col[i] <= x
                 /\ col[i] < x => i \in L
                 /\ Beyond(e, x, y) = 0 => col[i] = x
                 /\ col[i] = x => Beyond(e, x, y) <= 0 /\ Beyond(e, x + 1, y) > 0
  BY <1>4, <1>5 DEF Meets
<1>7. InPair(I, col, x) <=> Cardinality(L) % 2 = 1 \/ \E i \in I : col[i] = x
  <2>1. L \subseteq I
    BY <1>5
  <2>2. \A i \in I : (col[i] < x => i \in L) /\ (i \in L => col[i] <= x)
    BY <1>6
  <2>3. PICK B \in Nat : B = W - 1
    BY <1>2
  <2>4. /\ IsFiniteSet(I) /\ Cardinality(I) % 2 = 0 /\ col \in [I -> 0 .. B]
    BY <1>2, <2>3
  <2>5. Sided(I, B, col, x, L)
    BY <2>1, <2>2, <2>4 DEF Sided
  <2>6. QED
    BY <2>5, PairsFill
<1>8. InPair(I, col, x) <=> \E k \in Pairs(points, y) :
                   Pair(points, y, k)[1] <= x /\ x <= Pair(points, y, k)[2]
  BY <1>1 DEF Pairs, Pair, InPair
<1>9. QED
  BY <1>1, <1>6, <1>7, <1>8

(* gfx_filled_polygon, solid, for every polygon on the screen: see         *)
(* PolygonSound.                                                           *)
THEOREM PolygonIsFilled ==
  ASSUME NEW n \in Nat \ {0}, NEW points \in [1 .. n -> Screen]
  PROVE  PolygonSound(points)
<1> DEFINE Edges(y) == {e \in {FallOf(points, i) : i \in DOMAIN points} :
                          e[1][2] <= y /\ y < e[2][2]}
           Left(x, y) == {i \in DOMAIN points :
                            FallOf(points, i) \in Edges(y) /\ Beyond(FallOf(points, i), x, y) >= 0}
           Inside(x, y) == \/ Cardinality(Left(x, y)) % 2 = 1
                           \/ \E e \in Edges(y) : Beyond(e, x, y) = 0
           CutBy(x, y)  == \E e \in Edges(y) : Beyond(e, x, y) <= 0 /\ Beyond(e, x + 1, y) > 0
           drawn == filled_polygon(points, "solid")
           Between(x, y) == \E k \in Pairs(points, y) :
                              Pair(points, y, k)[1] <= x /\ x <= Pair(points, y, k)[2]
<1>1. DOMAIN points = 1 .. n
  OBVIOUS
<1>2. ASSUME NEW y \in Int, NEW e
      PROVE  e \in Edges(y) <=> \E i \in Cuts(points, y) : e = FallOf(points, i)
  <2>1. Cuts(points, y) \subseteq 1 .. n
    BY CutsAre
  <2>2. \A i \in 1 .. n : i \in Cuts(points, y) <=>
                            FallOf(points, i)[1][2] <= y /\ y < FallOf(points, i)[2][2]
    BY CutsAre
  <2>3. QED
    BY <1>1, <2>1, <2>2
<1>3. ASSUME NEW x \in Int, NEW y \in Int PROVE Left(x, y) = ToTheLeft(points, x, y)
  BY DEF ToTheLeft
<1> HIDE DEF Edges, Left
<1>4. ASSUME NEW x \in Int, NEW y \in Int
      PROVE  /\ Inside(x, y) => Between(x, y)
             /\ Between(x, y) => Inside(x, y) \/ CutBy(x, y)
  <2>1. /\ Cardinality(ToTheLeft(points, x, y)) % 2 = 1 => Between(x, y)
        /\ (\E i \in Cuts(points, y) : Beyond(FallOf(points, i), x, y) = 0) => Between(x, y)
        /\ Between(x, y) => \/ Cardinality(ToTheLeft(points, x, y)) % 2 = 1
                            \/ \E i \in Cuts(points, y) :
                                 /\ Beyond(FallOf(points, i), x, y) <= 0
                                 /\ Beyond(FallOf(points, i), x + 1, y) > 0
    BY RowIsInside
  <2>2. (\E e \in Edges(y) : Beyond(e, x, y) = 0)
          => \E i \in Cuts(points, y) : Beyond(FallOf(points, i), x, y) = 0
    BY <1>2
  <2>3. (\E i \in Cuts(points, y) : /\ Beyond(FallOf(points, i), x, y) <= 0
                                    /\ Beyond(FallOf(points, i), x + 1, y) > 0)
          => CutBy(x, y)
    BY <1>2
  <2> HIDE DEF CutBy, Between
  <2>4. QED
    BY <1>3, <2>1, <2>2, <2>3
<1>5. drawn = Outline(points) \cup Filled(Rows(points), "solid")
  BY PolygonIs
<1>6. ASSUME NEW p
      PROVE  p \in Filled(Rows(points), "solid")
               <=> \E x, y \in Int : p = <<x, y>> /\ y \in Heights(points) /\ Between(x, y)
  <2> DEFINE Hline(t) == filled_hline(t[1], t[2], t[3], "solid")
  <2>1. p \in Filled(Rows(points), "solid")
          <=> \E y \in Heights(points) : \E k \in Pairs(points, y) : p \in Hline(Pair(points, y, k))
    <3>1. Filled(Rows(points), "solid") = UNION {Hline(t) : t \in Rows(points)}
      BY DEF Filled
    <3> HIDE DEF Hline
    <3>2. QED
      BY <3>1 DEF Rows
  <2>2. \A y \in Heights(points) : y \in Int
    BY HeightsAre, GsxAssumption
  <2>3. ASSUME NEW y \in Heights(points), NEW k \in Pairs(points, y)
        PROVE  p \in Hline(Pair(points, y, k))
                 <=> \E x \in Int : /\ p = <<x, y>> /\ Pair(points, y, k)[1] <= x
                                    /\ x <= Pair(points, y, k)[2]
    <3>1. PICK t : t = Pair(points, y, k)
      OBVIOUS
    <3>2. t[1] \in Int /\ t[2] \in Int /\ t[3] = y
      BY <2>2, <3>1, RowsAreOnScreen
    <3>3. t \in Rows(points)
      BY <3>1 DEF Rows
    <3>4. OnScreen(t)
      BY <3>3, RowsAreOnScreen
    <3>5. "solid" \in Styles /\ \A q : Shows("solid", q)
      BY DEF Styles, Shows
    <3>6. filled_hline(t[1], t[2], t[3], "solid")
            = {q \in (t[1] .. t[2]) \X {t[3]} : Shows("solid", q)}
      BY <3>4, <3>5, HlineIs
    <3>7. filled_hline(t[1], t[2], t[3], "solid") = (t[1] .. t[2]) \X {y}
      BY <3>2, <3>5, <3>6
    <3>8. QED
      BY <3>1, <3>2, <3>7
  <2> HIDE DEF Hline
  <2>4. QED
    BY <2>1, <2>2, <2>3
<1> HIDE DEF drawn, Between
<1>7. \A y \in Int : Cuts(points, y) # {} => y \in Heights(points)
  BY HeightsAre
<1>8. ASSUME NEW p \in Screen, Inside(p[1], p[2]) PROVE p \in drawn
  <2>1. PICK x, y : x \in Int /\ y \in Int /\ p = <<x, y>>
    BY GsxAssumption DEF Screen
  <2>2. Between(x, y)
    BY <1>4, <1>8, <2>1
  <2>3. Cuts(points, y) # {}
    <3>1. Pairs(points, y) # {}
      BY <2>2 DEF Between
    <3>2. Cardinality(Cuts(points, y)) # 0
      BY <3>1 DEF Pairs
    <3>3. QED
      BY <3>2, FS_EmptySet
  <2>4. y \in Heights(points)
    BY <1>7, <2>1, <2>3
  <2>5. QED
    BY <1>5, <1>6, <2>1, <2>2, <2>4
<1>9. ASSUME NEW p \in drawn \ Outline(points) PROVE Inside(p[1], p[2]) \/ CutBy(p[1], p[2])
  <2>1. PICK x, y : x \in Int /\ y \in Int /\ p = <<x, y>> /\ Between(x, y)
    BY <1>5, <1>6
  <2>2. Inside(x, y) \/ CutBy(x, y)
    BY <1>4, <2>1
  <2>3. p[1] = x /\ p[2] = y
    BY <2>1
  <2> HIDE DEF Inside, CutBy
  <2>4. QED
    BY <2>2, <2>3
<1>10. /\ \A p \in Screen : Inside(p[1], p[2]) => p \in drawn
      /\ \A p \in drawn \ Outline(points) : Inside(p[1], p[2]) \/ CutBy(p[1], p[2])
  <2> HIDE DEF Inside, CutBy
  <2>1. QED
    BY <1>8, <1>9
<1>11. QED
  BY <1>10, Zenon DEF PolygonSound, drawn, Edges, Left, FallOf, Fall, Beyond

(* gfx_filled_polygon in any style. *)
THEOREM PolygonsShowStyles ==
  ASSUME NEW n \in Nat \ {0}, NEW points \in [1 .. n -> Screen]
  PROVE  StyleSound(LAMBDA s : filled_polygon(points, s))
<1> DEFINE outline == Outline(points)
           rows == Rows(points)
<1>1. \A t \in rows : OnScreen(t)
  BY RowsAreOnScreen
<1>2. ASSUME NEW style PROVE filled_polygon(points, style) = outline \cup Filled(rows, style)
  <2>1. filled_polygon(points, style)
          = outline \cup (IF style = "hollow" THEN {} ELSE Filled(rows, style))
    BY PolygonIs
  <2> HIDE DEF outline, rows
  <2>2. Filled(rows, "hollow") = {}
    BY <1>1, FilledIs
  <2>3. QED
    BY <2>1, <2>2
<1> HIDE DEF outline, rows
<1>3. ASSUME NEW style \in Styles
      PROVE  filled_polygon(points, style) \ filled_polygon(points, "hollow") =
               {p \in filled_polygon(points, "solid") \ filled_polygon(points, "hollow") :
                  Shows(style, p)}
  <2>1. LET Figure(s) == outline \cup Filled(rows, s)
        IN  Figure(style) \ Figure("hollow")
              = {p \in Figure("solid") \ Figure("hollow") : Shows(style, p)}
    BY <1>1, StylesAre
  <2>2. /\ filled_polygon(points, style) = outline \cup Filled(rows, style)
        /\ filled_polygon(points, "hollow") = outline \cup Filled(rows, "hollow")
        /\ filled_polygon(points, "solid") = outline \cup Filled(rows, "solid")
    BY <1>2
  <2>3. QED
    BY <2>1, <2>2
<1>4. QED
  BY <1>3 DEF StyleSound, Shows

(* The polygons of the run are on the screen. *)
LEMMA PolygonsFit ==
  ASSUME W >= 5, H >= 5, NEW points \in Polygons \cup Zigzags
  PROVE  \E n \in Nat \ {0} : points \in [1 .. n -> Screen]
<1>1. Points(3, 4) \subseteq Screen /\ Points(2, 2) \subseteq Screen
  BY GsxAssumption DEF Points, Screen
<1>2. ASSUME NEW n, NEW S, S \subseteq Screen, points \in [1 .. n -> S]
      PROVE  points \in [1 .. n -> Screen]
  BY <1>2
<1>3. CASE points \in [1 .. 3 -> Points(3, 4)]
  BY <1>1, <1>2, <1>3
<1>4. CASE points \in [1 .. 4 -> Points(2, 2)]
  BY <1>1, <1>2, <1>4
<1>5. CASE points \in Zigzags
  <2>1. PICK ys \in [1 .. 5 -> 0 .. 3] : points = [i \in 1 .. 5 |-> <<i - 1, ys[i]>>]
    BY <1>5 DEF Zigzags
  <2>2. \A i \in 1 .. 5 : <<i - 1, ys[i]>> \in Screen
    BY GsxAssumption DEF Screen
  <2>3. points \in [1 .. 5 -> Screen]
    BY <2>1, <2>2
  <2>4. QED
    BY <2>3
<1>6. QED
  BY <1>3, <1>4, <1>5 DEF Polygons

(* PolygonsSound: every polygon the run draws is filled as the even-odd    *)
(* rule says and in every style, on every screen of five by five or more.  *)
THEOREM PolygonsAreSound ==
  ASSUME W >= 5, H >= 5 PROVE AlgorithmsSpec => []PolygonsSound
<1>1. AlgorithmsInit => FigureInv
  BY DEF AlgorithmsInit, FigureInv
<1>2. FigureInv /\ [AlgorithmsNext]_<<others, vars, baud, divisor>> => FigureInv'
  BY FigureStep
<1>3. FigureInv => PolygonsSound
  <2> SUFFICES ASSUME FigureInv, figure.kind = "polygon"
               PROVE  /\ PolygonSound(figure.points)
                      /\ StyleSound(LAMBDA s : filled_polygon(figure.points, s))
    BY Zenon DEF PolygonsSound
  <2>1. figure \in [kind : {"polygon"}, points : Polygons \cup Zigzags]
    BY DEF FigureInv, NoFigure, Figures
  <2>2. PICK points : points = figure.points /\ points \in Polygons \cup Zigzags
    BY <2>1
  <2>3. PICK n \in Nat \ {0} : points \in [1 .. n -> Screen]
    BY <2>2, PolygonsFit
  <2>4. PolygonSound(points)
    BY <2>3, PolygonIsFilled
  <2>5. StyleSound(LAMBDA s : filled_polygon(points, s))
    BY <2>3, PolygonsShowStyles
  <2>6. QED
    BY <2>2, <2>4, <2>5
<1>4. QED
  BY <1>1, <1>2, <1>3, PTL DEF AlgorithmsSpec
=============================================================================
