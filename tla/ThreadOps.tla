------------------------------ MODULE ThreadOps ------------------------------
(***************************************************************************)
(* What the entries of a negotiation thread say (negotiation/thread.py),   *)
(* whether the tracker keeps the thread or a file of the checkout.         *)
(***************************************************************************)
EXTENDS Missing, Integers, Sequences, FiniteSetsExt

CONSTANT Contracts

Sides == {"provider", "consumer"}

(* What an agent's turn may say; propose and counter are not told apart. *)
AllTurns == [verdict : {"counter", "agree"}, contract : Contracts \cup {None}]
            \cup [verdict : {"blocked"}, contract : {None}]

OtherSide(side) == CHOOSE other \in Sides : other # side

(* Fault: the sides are not compared. *)
LatestAgreesWithAny(entries) ==
    LET last == entries[Len(entries)]
    IN  /\ last.verdict = "agree" /\ last.contract # None
        /\ \E n \in 1 .. Len(entries) - 1 : entries[n].contract = last.contract

LatestAgrees(entries) ==
    LET last == entries[Len(entries)]
    IN  /\ last.verdict = "agree" /\ last.contract # None
        /\ \E n \in 1 .. Len(entries) - 1 :
              entries[n].side # last.side /\ entries[n].contract = last.contract

(* The contract a side agreed to last. *)
Agreement(entries, side) ==
    LET agreed == {n \in DOMAIN entries : /\ entries[n].side = side
                                          /\ entries[n].verdict = "agree"
                                          /\ entries[n].contract # None}
    IN  IF agreed = {} THEN None ELSE entries[Max(agreed)].contract

Outcome(entries) ==
    IF \E n \in DOMAIN entries : entries[n].verdict = "blocked" THEN "blocked"
    ELSE IF entries # <<>> /\ LatestAgrees(entries) THEN "agreed"
    ELSE IF /\ Agreement(entries, "provider") # None
            /\ Agreement(entries, "provider") = Agreement(entries, "consumer")
    THEN "agreed" ELSE "negotiating"

LatestContract(entries) ==
    LET stated == {n \in DOMAIN entries : entries[n].contract # None}
    IN  IF stated = {} THEN None ELSE entries[Max(stated)].contract

(* An entry's origin names the issue, the side and the round. *)
Entry(side, round, turn) ==
    [side |-> side, round |-> round, verdict |-> turn.verdict, contract |-> turn.contract]

(* A thread that is being negotiated takes an entry of a new origin. *)
ReplyAccepts(t, side, round) ==
    /\ t.status = "negotiating"
    /\ ~ \E n \in DOMAIN t.entries : t.entries[n].side = side /\ t.entries[n].round = round
=============================================================================
