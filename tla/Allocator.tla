------------------------------ MODULE Allocator ------------------------------
(***************************************************************************)
(* What an allocator promises: live blocks lie in the arena and never      *)
(* overlap, and a request is refused only when no contiguous gap would     *)
(* hold it.  Which addresses are free is a consequence of which blocks are *)
(* live; there is no free list that could lose or hand out an address      *)
(* twice.                                                                  *)
(***************************************************************************)
EXTENDS Integers, FiniteSetsExt

CONSTANTS Arena, Sizes, Room(_), Overhead, NULL

VARIABLES live, result

vars == <<live, result>>

Extent(at, n) == at .. at + n - 1
Occupied == UNION {Extent(a, live[a]) : a \in DOMAIN live}
Fits(at, n) == Extent(at, n) \subseteq Arena \ Occupied

Init == live = <<>> /\ result = NULL

(* The lowest gap that holds the block and the room kept behind it. *)
Malloc(n) ==
  LET places == {a \in Arena : Fits(a, Room(n))}
  IN  IF places = {} THEN result' = NULL /\ UNCHANGED live
      ELSE /\ result' = Min(places)
           /\ \E size \in 1 .. Room(n) :
                /\ size >= n + Overhead
                /\ live' = [a \in (DOMAIN live) \cup {result'} |->
                              IF a = result' THEN size ELSE live[a]]

Free(a) ==
  /\ live' = [b \in (DOMAIN live) \ {a} |-> live[b]]
  /\ UNCHANGED result

Next == (\E n \in Sizes : Malloc(n)) \/ (\E a \in DOMAIN live : Free(a))

Spec == Init /\ [][Next]_vars
=============================================================================
