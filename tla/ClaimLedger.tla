---------------------------- MODULE ClaimLedger ----------------------------
(***************************************************************************)
(* What the claim protocol promises, with nothing said of how: an issue is *)
(* waiting, held by one worker, in review or done; a holder is named while *)
(* and only while the issue is held; a held issue never changes hands      *)
(* without first being put down; and a worker holds one issue at a time.   *)
(***************************************************************************)
CONSTANTS Issues, Keys, Nobody

VARIABLES phase, holder

vars == <<phase, holder>>

Init ==
    /\ phase = [i \in Issues |-> "waiting"]
    /\ holder = [i \in Issues |-> Nobody]

Acquire(k, i) ==
    /\ phase[i] = "waiting"
    /\ \A j \in Issues : holder[j] # k
    /\ phase' = [phase EXCEPT ![i] = "held"]
    /\ holder' = [holder EXCEPT ![i] = k]

PutDown(i) ==
    /\ phase[i] = "held"
    /\ phase' = [phase EXCEPT ![i] = "waiting"]
    /\ holder' = [holder EXCEPT ![i] = Nobody]

(* Work is delivered by the holder, or late by a worker that lost its hold. *)
Deliver(i) ==
    /\ phase' = [phase EXCEPT ![i] = "review"]
    /\ holder' = [holder EXCEPT ![i] = Nobody]

SendBack(i) ==
    /\ phase[i] = "review"
    /\ phase' = [phase EXCEPT ![i] = "waiting"]
    /\ UNCHANGED holder

Accept(i) ==
    /\ phase[i] = "review"
    /\ phase' = [phase EXCEPT ![i] = "done"]
    /\ UNCHANGED holder

Next ==
    \E i \in Issues :
        \/ \E k \in Keys : Acquire(k, i)
        \/ PutDown(i) \/ Deliver(i) \/ SendBack(i) \/ Accept(i)

Spec == Init /\ [][Next]_vars
=============================================================================
