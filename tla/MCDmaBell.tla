------------------------------ MODULE MCDmaBell ------------------------------
(***************************************************************************)
(* Values for the model checker.                                           *)
(***************************************************************************)
EXTENDS DmaBell

(* A hidden cursor only leaves the last transfer of a scroll out.          *)
Shown == Requests \ {"scroll_hidden"}

Resizing == {"F10", "F12"}

(* The keys that resize do not wait for channel 0, the others do.          *)
Harmless == [key \in Keys |-> IF key \in Resizing THEN {"idle"} ELSE {"idle", "busy"}]

(* Points opened one at a time: see the README.                            *)
Also(keys, point) ==
  [key \in Keys |-> Harmless[key] \cup IF key \in keys THEN {point} ELSE {}]
=============================================================================
