----------------------------- MODULE MCServices -----------------------------
(***************************************************************************)
(* What `issuekit serve` does: the poll loop of implement mode, its triage *)
(* step, the review loop and the proposal checks.  They share no state but *)
(* the tracker's, of which each uses issues of its own, so TLC explores    *)
(* them one at a time: part says which one this behaviour is about.  The   *)
(* keys by which all of them tell workers apart are a part of their own.   *)
(***************************************************************************)
EXTENDS ServeFleet, Triage, ServeReview, ProposalChecks, KeyPairs, TLC

VARIABLE part

allVars == <<part, vars, triageVars, reviewVars, checkVars, keyVars>>

ServicesInit ==
    /\ part \in {"implement", "triage", "review", "checks", "keys"}
    /\ Init /\ TriageInit /\ ReviewInit /\ CheckInit /\ KeyInit
    /\ part # "triage" => ~ authored
    /\ part # "keys" => key = (CHOOSE k \in Keys : TRUE) /\ row = (CHOOSE r \in Rows : TRUE)

ServicesNext ==
    /\ UNCHANGED part
    /\ \/ part = "implement" /\ Next /\ UNCHANGED <<triageVars, reviewVars, checkVars, keyVars>>
       \/ part = "triage" /\ TriageNext /\ UNCHANGED <<vars, reviewVars, checkVars, keyVars>>
       \/ part = "review" /\ ReviewNext /\ UNCHANGED <<vars, triageVars, checkVars, keyVars>>
       \/ part = "checks" /\ CheckNext /\ UNCHANGED <<vars, triageVars, reviewVars, keyVars>>
       \/ part = "keys" /\ KeyNext /\ UNCHANGED <<vars, triageVars, reviewVars, checkVars>>

(* Every serve that is up takes its next step sooner or later, and one that  *)
(* is down falls silent.                                                    *)
ServicesSpec ==
    /\ ServicesInit /\ [][ServicesNext]_allVars
    /\ \A w \in Workers :
          /\ WF_vars(part = "implement" /\ ServeStep(w))
          /\ WF_vars(part = "implement" /\ pc[w] = "down" /\ FallSilent(w))
    /\ \A s \in Triagers : WF_triageVars(part = "triage" /\ TriageStep(s))
    /\ \A r \in Reviewers : WF_reviewVars(part = "review" /\ ReviewStep(r))
    /\ \A s \in LoopingCheckers : WF_checkVars(part = "checks" /\ CheckerStep(s))

MCKeyOf == [w \in Workers |-> [name |-> w, repo |-> "repo", machine |-> "host"]]

MCAgentOf == [w \in Workers |-> "codex"]

Key(machine) == [name |-> "w", repo |-> "r", machine |-> machine]

(* Proposal 1 comes from a project that is not trusted, 3 is itself a reply  *)
(* and supersedes 2.                                                        *)
MCLetter ==
    [p \in Incoming |->
        [trusted |-> p # 1, blocking |-> TRUE, locked |-> FALSE, reply |-> p = 3,
         supersedes |-> IF p = 3 THEN 2 ELSE None]]

MCReviewerAgent == [r \in Reviewers |-> "claude"]

MCReviewerKey == [r \in Reviewers |-> Key("h1")]

(* Another agent elsewhere, and the reviewer's own agent in its checkout. *)
MCBuilders == {[agent |-> "codex", key |-> Key("h9")], [agent |-> "claude", key |-> Key("h1")]}

MCCheckerRow == [s \in Checkers |-> Key(s)]

(* No --worker, and the bare key both checkouts share. *)
MCAddresses == {None, Key(None)}
=============================================================================
