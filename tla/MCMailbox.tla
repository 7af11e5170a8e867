----------------------------- MODULE MCMailbox ------------------------------
(***************************************************************************)
(* Values for the model checker.                                           *)
(***************************************************************************)
EXTENDS Mailbox

(* One frame for each C function, as fb_init makes three requests in its.  *)
Functions == {"release", "init", "palette", "size", "power", "mac"}

Own == [r \in Requests |-> IF r \in {"display", "setup", "pitch"} THEN "init" ELSE r]

(* Functions whose frames have the same layout: see the README.            *)
Same == [Own EXCEPT !["size"] = "release", !["mac"] = "power"]
=============================================================================
