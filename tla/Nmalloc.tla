------------------------------- MODULE Nmalloc -------------------------------
(***************************************************************************)
(* nmalloc.c, the heap of the firmware: a doubly linked list of free       *)
(* blocks whose headers lie in the free memory itself, first fit, merge on *)
(* free.  Addresses and sizes are in bytes.                                *)
(***************************************************************************)
EXTENDS Integers, FiniteSetsExt, SequencesExt

CONSTANTS
  BLOCK_HEADER_SIZE,  \* sizeof(block), 12 in the code
  WORD,               \* sizeof(size_T), 4 in the code
  Base, HeapSize,     \* the arena of nmalloc_set_memory_area
  Sizes,              \* the sizes that are requested
  NULL

Arena == Base .. Base + HeapSize - 1

ASSUME HeapAssumption ==
  /\ BLOCK_HEADER_SIZE \in Nat \ {0} /\ WORD \in Nat \ {0}
  /\ Base \in Nat \ {0} /\ HeapSize \in Nat /\ HeapSize >= BLOCK_HEADER_SIZE
  /\ Sizes \subseteq Nat \ {0}
  /\ NULL \notin Arena

VARIABLES
  first_free,  \* head of the list
  block,       \* the headers of the free blocks: [address -> [prev, next, size]]
  data,        \* the size words of the blocks handed out: [address -> size]
  result       \* what the last nmalloc_malloc returned

vars == <<first_free, block, data, result>>

TypeOK ==
  /\ first_free \in DOMAIN block
  /\ DOMAIN block \subseteq Arena /\ DOMAIN data \subseteq Arena
  /\ \A b \in DOMAIN block :
       block[b] \in [prev : Arena \cup {NULL}, next : Arena \cup {NULL}, size : 1 .. HeapSize]
  /\ \A b \in DOMAIN data : data[b] \in 1 .. HeapSize
  /\ result \in Arena \cup {NULL}

Init ==
  /\ first_free = Base
  /\ block = [b \in {Base} |-> [prev |-> NULL, next |-> NULL, size |-> HeapSize]]
  /\ data = <<>>
  /\ result = NULL

-----------------------------------------------------------------------------
(* The size word and the data, at least a header, rounded up; a multiple   *)
(* of the header grows by one more.                                        *)
DataSize(size) ==
  LET least == Max({WORD + size, BLOCK_HEADER_SIZE})
  IN  least + BLOCK_HEADER_SIZE - (least % BLOCK_HEADER_SIZE)

Needed(size) == DataSize(size) + BLOCK_HEADER_SIZE

(* Slip: the walk stops before it has looked at the last block. *)
FindSkippingLast(needed) ==
  LET walk[b \in DOMAIN block] ==
        IF block[b].next = NULL \/ block[block[b].next].next = NULL
           \/ block[b].size >= needed
        THEN b ELSE walk[block[b].next]
  IN  walk[first_free]

(* Where the walk along the list stops: the first block that is large      *)
(* enough, or the last one.                                                *)
Find(needed) ==
  LET walk[b \in DOMAIN block] ==
        IF block[b].next = NULL \/ block[b].size >= needed
        THEN b ELSE walk[block[b].next]
  IN  walk[first_free]

(* Slip: the remainder keeps the size of the whole block. *)
MovedUpWhole(b, n) ==
  LET to == b + n
  IN  [a \in ((DOMAIN block) \ {b}) \cup {to} |->
         CASE a = to            -> block[b]
           [] a = block[b].prev -> [block[a] EXCEPT !.next = to]
           [] a = block[b].next -> [block[a] EXCEPT !.prev = to]
           [] OTHER             -> block[a]]

(* The list with the header at b moved up by n: what precedes and follows  *)
(* it is linked to the new place, and the block is n bytes shorter.        *)
MovedUp(b, n) ==
  LET to == b + n
  IN  [a \in ((DOMAIN block) \ {b}) \cup {to} |->
         CASE a = to            -> [block[b] EXCEPT !.size = @ - n]
           [] a = block[b].prev -> [block[a] EXCEPT !.next = to]
           [] a = block[b].next -> [block[a] EXCEPT !.prev = to]
           [] OTHER             -> block[a]]

(* Slip: the head of the list is not moved with the first block. *)
HeadKept(cfree, n) == first_free

NewFirst(cfree, n) == IF block[cfree].prev = NULL THEN cfree + n ELSE first_free

nmalloc_malloc(size) ==
  LET cfree == Find(Needed(size))
      n     == DataSize(size)
  IN  IF block[cfree].size < Needed(size)
      THEN result' = NULL /\ UNCHANGED <<first_free, block, data>>
      ELSE /\ block' = MovedUp(cfree, n)
           /\ first_free' = NewFirst(cfree, n)
           /\ data' = [b \in (DOMAIN data) \cup {cfree} |-> IF b = cfree THEN n ELSE data[b]]
           /\ result' = cfree

-----------------------------------------------------------------------------
(* One turn of the loop of merge_adjacent_free_blocks: cb swallows the     *)
(* block it touches, or the walk goes on.                                  *)

(* Slip: the block after the swallowed one still points back to it. *)
MergeStaleLink(h) ==
  LET next == h.block[h.cb].next
      kept == [a \in (DOMAIN h.block) \ {next} |->
                 IF a # h.cb THEN h.block[a]
                 ELSE [h.block[a] EXCEPT !.size = @ + h.block[next].size,
                                         !.next = h.block[next].next]]
  IN  IF next = NULL THEN h
      ELSE IF h.cb + h.block[h.cb].size # next THEN [block |-> h.block, cb |-> next]
      ELSE [block |-> kept, cb |-> h.cb]

MergeTurn(h) ==
  LET next == h.block[h.cb].next
      over == h.block[next].next
      kept == [a \in (DOMAIN h.block) \ {next} |->
                 CASE a = h.cb -> [h.block[a] EXCEPT !.size = @ + h.block[next].size, !.next = over]
                   [] a = over -> [h.block[a] EXCEPT !.prev = h.cb]
                   [] OTHER    -> h.block[a]]
  IN  IF next = NULL THEN h
      ELSE IF h.cb + h.block[h.cb].size # next THEN [block |-> h.block, cb |-> next]
      ELSE [block |-> kept, cb |-> h.cb]

(* The walk after none, one, ... turns: every turn but the last takes one  *)
(* block off it.                                                           *)
Turns(list, first) ==
  LET turn[i \in 0 .. Cardinality(DOMAIN list)] ==
        IF i = 0 THEN [block |-> list, cb |-> first] ELSE MergeTurn(turn[i - 1])
  IN  turn

merge_adjacent_free_blocks(list, first) ==
  Turns(list, first)[Cardinality(DOMAIN list)].block

(* The block after which a new one is inserted: the walk stops where the   *)
(* new block lies between two, or at the end.                              *)
Predecessor(new) ==
  LET walk[b \in DOMAIN block] ==
        IF block[b].next = NULL \/ (b < new /\ new < block[b].next)
        THEN b ELSE walk[block[b].next]
  IN  walk[first_free]

Inserted(new, prev, next) ==
  [a \in (DOMAIN block) \cup {new} |->
     CASE a = new  -> [prev |-> prev, next |-> next, size |-> data[new]]
       [] a = prev -> [block[a] EXCEPT !.next = new]
       [] a = next -> [block[a] EXCEPT !.prev = new]
       [] OTHER    -> block[a]]

nmalloc_free(new) ==
  LET front == new < first_free
      prev  == IF front THEN NULL ELSE Predecessor(new)
      next  == IF front THEN first_free ELSE block[prev].next
      first == IF front THEN new ELSE first_free
  IN  /\ first_free' = first
      /\ block' = merge_adjacent_free_blocks(Inserted(new, prev, next), first)
      /\ data' = Restrict(data, (DOMAIN data) \ {new})
      /\ UNCHANGED result

Next ==
  \/ \E size \in Sizes : nmalloc_malloc(size)
  \/ \E b \in DOMAIN data : nmalloc_free(b)

Spec == Init /\ [][Next]_vars

-----------------------------------------------------------------------------
(* Properties. *)

Extent(at, n) == at .. at + n - 1

(* The list is in the order of the addresses, its back links are the       *)
(* inverse of its forward links, and every free block is on it.            *)
ListSound ==
  /\ block[first_free].prev = NULL
  /\ \A b \in (DOMAIN block) \ {first_free} : block[b].prev \in DOMAIN block
  /\ \A b \in DOMAIN block :
       LET next == block[b].next
       IN  IF next = NULL THEN b = Max(DOMAIN block)
           ELSE next = Min({c \in DOMAIN block : c > b}) /\ block[next].prev = b

(* Every byte of the arena belongs to one block, free or handed out, and   *)
(* no block reaches out of the arena: none is lost, none is in two.        *)
Tiling ==
  LET extents == [b \in (DOMAIN block) \cup (DOMAIN data) |->
                    Extent(b, IF b \in DOMAIN block THEN block[b].size ELSE data[b])]
  IN  /\ (DOMAIN block) \cap (DOMAIN data) = {}
      /\ UNION Range(extents) = Arena
      /\ \A b, c \in DOMAIN extents : b # c => extents[b] \cap extents[c] = {}

(* The free list keeps every promise of an allocator that searches the     *)
(* memory itself: a request gets the lowest gap that holds it and fails    *)
(* only if there is none, however the heap was cut up before.              *)
Promise == INSTANCE Allocator WITH live <- data, Room <- Needed,
  Overhead <- WORD
ImplementsAllocator == Promise!Spec
=============================================================================
