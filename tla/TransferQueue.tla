---------------------------- MODULE TransferQueue ----------------------------
(***************************************************************************)
(* What dma.c promises to its callers: the transfers of a job are done one *)
(* after the other, each once and with the operands it was given, and jobs *)
(* in the order they were asked for.  There are no control blocks.         *)
(***************************************************************************)
EXTENDS Sequences

CONSTANTS Channels, Jobs   \* a job is a sequence of transfers

VARIABLE owed              \* [channel -> the transfers asked for and not yet done]

Init == owed = [ch \in Channels |-> <<>>]

(* A caller hands over whole jobs. *)
Ask ==
  /\ DOMAIN owed' = Channels
  /\ \A ch \in Channels :
       owed'[ch] = owed[ch] \/ \E job \in Jobs : owed'[ch] = owed[ch] \o job

(* An engine has finished the transfer it was at. *)
Done(ch) == owed[ch] # <<>> /\ owed' = [owed EXCEPT ![ch] = Tail(@)]

Next == Ask \/ \E ch \in Channels : Done(ch)

Spec == Init /\ [][Next]_owed
=============================================================================
