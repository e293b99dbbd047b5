------------------------------ MODULE Missing -------------------------------
(***************************************************************************)
(* What the modules share: None stands for an absent value (Python's None, *)
(* an empty string or a missing field, wherever the code treats them       *)
(* alike).                                                                 *)
(***************************************************************************)
CONSTANT None

(* A record after some of its fields were changed. *)
With(record, changes) ==
    [f \in DOMAIN record |-> IF f \in DOMAIN changes THEN changes[f] ELSE record[f]]
=============================================================================
