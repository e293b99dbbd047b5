----------------------------- MODULE ProposalOps ----------------------------
(***************************************************************************)
(* The tracker's proposal inbox of one project and what its operations do  *)
(* (the proposal surface of issuekit/testing/proposals.py; each is atomic  *)
(* under the surface's lock).  An inbox is a sequence, a proposal's id its *)
(* place in it.                                                            *)
(***************************************************************************)
EXTENDS Missing, Integers, Sequences, FiniteSetsExt

NewProposal(origin, text) == [origin |-> origin, text |-> text, status |-> "pending"]

Undecided(inbox) == {p \in DOMAIN inbox : inbox[p].status = "pending"}

PendingOf(inbox, origin) == {p \in Undecided(inbox) : inbox[p].origin = origin}

(* Fault: every proposal is stored. *)
WithProposalAlways(inbox, proposal) == Append(inbox, proposal)

(* create_proposal: while one of the same origin is pending it is returned  *)
(* in the place of a new one, whatever its text.                            *)
WithProposal(inbox, proposal) ==
    IF PendingOf(inbox, proposal.origin) = {} THEN Append(inbox, proposal) ELSE inbox

ReturnedId(inbox, proposal) ==
    IF PendingOf(inbox, proposal.origin) = {}
    THEN Len(inbox) + 1 ELSE Min(PendingOf(inbox, proposal.origin))

(* send_proposal: the returned proposal is not the one that was sent. *)
PayloadMismatch(inbox, proposal) ==
    \E p \in PendingOf(inbox, proposal.origin) :
        p = ReturnedId(inbox, proposal) /\ inbox[p].text # proposal.text

(* adopt_proposal and discard_proposal take a pending proposal only. *)
Decide(inbox, p, status) == [inbox EXCEPT ![p].status = status]
=============================================================================
