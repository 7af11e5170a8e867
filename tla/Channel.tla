------------------------------- MODULE Channel -------------------------------
(***************************************************************************)
(* What the serial side of the terminal promises: bytes are shown in the   *)
(* order in which they were sent.  Bytes are lost only when at least       *)
(* Capacity of them are waiting and the host does not obey the line that   *)
(* tells it to stop; then the oldest go, but not the one already taken.    *)
(***************************************************************************)
EXTENDS Naturals, Sequences

CONSTANTS Bytes, Capacity

VARIABLES
  pending,    \* the bytes sent and not yet shown, the oldest first
  obeys       \* the host stops when it is told to

Init == pending = <<>> /\ obeys \in BOOLEAN

Send == \E b \in Bytes : pending' = Append(pending, b)

Show == pending # <<>> /\ pending' = Tail(pending)

Without(s, i, j) == SubSeq(s, 1, i) \o SubSeq(s, j + 1, Len(s))

Lose ==
  /\ ~obeys /\ Len(pending) >= Capacity
  /\ \E i \in 0 .. 1, j \in 1 .. Len(pending) : i < j /\ pending' = Without(pending, i, j)

Spec == Init /\ [][UNCHANGED obeys /\ (Send \/ Show \/ Lose)]_<<pending, obeys>>
=============================================================================
