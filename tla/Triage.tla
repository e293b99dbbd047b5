------------------------------- MODULE Triage -------------------------------
(***************************************************************************)
(* Adopting incoming proposals automatically: the triage step of           *)
(* `issuekit serve --triage` and one-cycle `issuekit triage --once`, both  *)
(* in one checkout, mechanical by policy or judged by an agent.  An        *)
(* adopted issue enters the pool at once; a second call holds it for a     *)
(* person to release.  A hold that failed is kept in memory and retried    *)
(* before the serve does anything else.                                    *)
(***************************************************************************)
EXTENDS IssueOps, FiniteSetsExt

CONSTANTS
    Incoming,       \* proposals, by id; also the id of the issue made of each
    Letter,         \* [Incoming -> what a proposal says], see Letters
    Triagers,       \* processes
    RequireBlocking, HoldAdopted,   \* the [triage] policy
    MaxAdoptions,
    MaxFaults       \* bound: calls and agent runs that fail

VARIABLES
    authored,   \* whether author_agent is set
    mail,       \* status of each proposal in the inbox
    adoptedAs,  \* the issue made of each proposal, or None
    asked,      \* proposals with a reply pending at their origin
    stateFile,  \* triage-author-state.json: proposals replied to
    serving,    \* processes that run serve; the others run one cycle
    step,       \* where each process is
    queue,      \* pending proposals its listing showed, still to handle
    left,       \* what remains of max_adoptions_per_cycle
    on,         \* the proposal or issue in hand
    alsoReply,  \* the decision is adopt_and_reply
    memo,       \* its copy of the state file
    pendingHolds,
    holdFailed, \* a hold failed in this cycle
    faults,
    sought,     \* ghost: issues this process has asked a hold for
    freed       \* ghost: issues a person has released

triageTracker == <<authored, mail, adoptedAs, asked, freed>>
triageMind == <<queue, left, on, alsoReply, memo, pendingHolds, holdFailed, sought>>
triageVars == <<triageTracker, stateFile, serving, step, triageMind, faults>>

Letters == [trusted : BOOLEAN, blocking : BOOLEAN, locked : BOOLEAN,
            reply : BOOLEAN, supersedes : Incoming \cup {None}]

TriageAssumption ==
    /\ Incoming \subseteq Nat /\ None \notin Incoming
    /\ Letter \in [Incoming -> Letters]
    /\ RequireBlocking \in BOOLEAN /\ HoldAdopted \in BOOLEAN
    /\ MaxAdoptions \in Nat \ {0} /\ MaxFaults \in Nat

ASSUME TriageAssumption

TriageInit ==
    /\ authored \in BOOLEAN
    /\ mail = [p \in Incoming |-> "unsent"]
    /\ adoptedAs = [p \in Incoming |-> None]
    /\ asked = {} /\ stateFile = {} /\ freed = {} /\ faults = 0
    /\ serving = {}
    /\ step = [s \in Triagers |-> "down"]
    /\ queue = [s \in Triagers |-> {}]
    /\ left = [s \in Triagers |-> 0]
    /\ on = [s \in Triagers |-> None]
    /\ alsoReply = [s \in Triagers |-> FALSE]
    /\ memo = [s \in Triagers |-> {}]
    /\ pendingHolds = [s \in Triagers |-> {}]
    /\ holdFailed = [s \in Triagers |-> FALSE]
    /\ sought = [s \in Triagers |-> {}]

(* A negotiation's turns, untrusted origins and, if the policy says so,     *)
(* proposals that block nothing are passed over.                           *)
Matches(p) ==
    /\ ~ Letter[p].locked /\ Letter[p].trusted
    /\ RequireBlocking => Letter[p].blocking

-----------------------------------------------------------------------------
(* People, other workers and the projects the proposals come from *)

Around(p) == UNCHANGED <<authored, stateFile, serving, step, triageMind, faults>>

ProposalArrives(p) ==
    /\ mail[p] = "unsent"
    /\ mail' = [mail EXCEPT ![p] = "pending"]
    /\ UNCHANGED <<adoptedAs, asked, freed>> /\ Around(p)

PersonDiscards(p) ==
    /\ mail[p] = "pending"
    /\ mail' = [mail EXCEPT ![p] = "discarded"]
    /\ UNCHANGED <<adoptedAs, asked, freed>> /\ Around(p)

Stage(p, issue) == adoptedAs' = [adoptedAs EXCEPT ![p] = issue]

InPool(p, stages) == adoptedAs[p] # None /\ adoptedAs[p].stage \in stages

(* issuekit plan <id> --stage todo *)
PersonReleases(p) ==
    /\ InPool(p, {"planned"})
    /\ Stage(p, Planned(adoptedAs[p], "todo"))
    /\ freed' = freed \cup {p}
    /\ UNCHANGED <<mail, asked>> /\ Around(p)

OtherClaims(p) ==
    /\ adoptedAs[p] # None /\ Offered(adoptedAs[p], "other", NoKey)
    /\ Stage(p, Claimed(adoptedAs[p], "other", NoKey, None))
    /\ UNCHANGED <<mail, asked, freed>> /\ Around(p)

OtherReleases(p) ==
    /\ InPool(p, {"implementing"}) /\ adoptedAs[p].assignee = "other"
    /\ Stage(p, Reclaimed(adoptedAs[p]))
    /\ UNCHANGED <<mail, asked, freed>> /\ Around(p)

OriginDecidesReply(p) ==
    /\ p \in asked
    /\ asked' = asked \ {p}
    /\ UNCHANGED <<mail, adoptedAs, freed>> /\ Around(p)

-----------------------------------------------------------------------------
(* A process and its polls *)

At(s, here) == step[s] = here

Goes(s, there) ==
    /\ step' = [step EXCEPT ![s] = there]
    /\ serving' = IF there = "down" THEN serving \ {s} ELSE serving

Fault == faults < MaxFaults /\ faults' = faults + 1

(* What is left when a poll, or the process, is over. *)
Clears(s, there, holds, holding) ==
    /\ Goes(s, there)
    /\ queue' = [queue EXCEPT ![s] = {}]
    /\ left' = [left EXCEPT ![s] = 0]
    /\ on' = [on EXCEPT ![s] = None]
    /\ alsoReply' = [alsoReply EXCEPT ![s] = FALSE]
    /\ memo' = [memo EXCEPT ![s] = {}]
    /\ pendingHolds' = [pendingHolds EXCEPT ![s] = holds]
    /\ holdFailed' = [holdFailed EXCEPT ![s] = FALSE]
    /\ sought' = [sought EXCEPT ![s] = holding]

PollOver(s) ==
    IF s \in serving THEN Clears(s, "retry", pendingHolds[s], sought[s])
    ELSE Clears(s, "down", {}, {})

(* serve --triage, or triage --once, which always has an agent. *)
StartTriager(s) ==
    /\ At(s, "down")
    /\ \/ step' = [step EXCEPT ![s] = "retry"] /\ serving' = serving \cup {s}
       \/ authored /\ Goes(s, "list")
    /\ UNCHANGED <<triageTracker, stateFile, triageMind, faults>>

(* A signal, the failure limit or a kill: pending holds are forgotten. *)
StopTriager(s) ==
    /\ ~ At(s, "down")
    /\ Clears(s, "down", {}, {})
    /\ UNCHANGED <<triageTracker, stateFile, faults>>

(* plan(issue, stage="planned") is served. *)
HoldIsServed(p) ==
    /\ PlanAccepts(adoptedAs[p])
    /\ Stage(p, Planned(adoptedAs[p], "planned"))
    /\ UNCHANGED <<authored, mail, asked, freed>>

(* Fault: the entry is removed before the request. *)
RetryHoldForgets(s, p) ==
    /\ At(s, "retry") /\ p \in pendingHolds[s]
    /\ pendingHolds' = [pendingHolds EXCEPT ![s] = @ \ {p}]
    /\ \/ HoldIsServed(p) /\ UNCHANGED faults
       \/ Fault /\ UNCHANGED triageTracker
    /\ UNCHANGED <<stateFile, serving, step, queue, left, on, alsoReply, memo, holdFailed, sought>>

(* The holds are retried one by one, here in any order; the first that fails *)
(* ends the poll.                                                           *)
RetryHold(s, p) ==
    /\ At(s, "retry") /\ p \in pendingHolds[s]
    /\ \/ /\ HoldIsServed(p)
          /\ pendingHolds' = [pendingHolds EXCEPT ![s] = @ \ {p}]
          /\ UNCHANGED <<serving, step, queue, left, on, alsoReply, memo, holdFailed, sought, faults>>
       \/ HoldIsServed(p) /\ Fault /\ PollOver(s)
       \/ ~ PlanAccepts(adoptedAs[p]) /\ PollOver(s) /\ UNCHANGED <<triageTracker, faults>>
       \/ Fault /\ PollOver(s) /\ UNCHANGED triageTracker
    /\ UNCHANGED stateFile

HoldsRetried(s) ==
    /\ At(s, "retry") /\ pendingHolds[s] = {}
    /\ Goes(s, "list")
    /\ UNCHANGED <<triageTracker, stateFile, triageMind, faults>>

Matching == {p \in Incoming : mail[p] = "pending" /\ Matches(p)}

(* Fault: the limit is applied to the listing. *)
ListMailFirst(s) ==
    LET listed == {p \in Incoming : mail[p] = "pending"}
    IN  /\ At(s, "list")
        /\ Goes(s, "next")
        /\ queue' = [queue EXCEPT ![s] =
              {p \in listed : /\ Matches(p)
                              /\ Cardinality({q \in listed : q < p}) < MaxAdoptions}]
        /\ left' = [left EXCEPT ![s] = MaxAdoptions]
        /\ memo' = [memo EXCEPT ![s] = stateFile]
        /\ UNCHANGED <<triageTracker, stateFile, faults, on, alsoReply,
                       pendingHolds, holdFailed, sought>>

(* The state file is loaded just before; the two reads are one step here. *)
ListMail(s) ==
    /\ At(s, "list")
    /\ Goes(s, "next")
    /\ queue' = [queue EXCEPT ![s] = Matching]
    /\ left' = [left EXCEPT ![s] = MaxAdoptions]
    /\ memo' = [memo EXCEPT ![s] = stateFile]
    /\ UNCHANGED <<triageTracker, stateFile, faults, on, alsoReply,
                   pendingHolds, holdFailed, sought>>

(* A failing binary check, listing or claim request. *)
PollBreaks(s) ==
    /\ step[s] \in {"list", "claim"}
    /\ Fault /\ PollOver(s)
    /\ UNCHANGED <<triageTracker, stateFile>>

(* Proposals are taken in the order of their ids.  Mechanical adoption       *)
(* counts what it adopts, the agent what it evaluates.                      *)
TakeNext(s, p) ==
    /\ At(s, "next") /\ queue[s] # {} /\ left[s] > 0 /\ p = Min(queue[s])
    /\ queue' = [queue EXCEPT ![s] = @ \ {p}]
    /\ on' = [on EXCEPT ![s] = p]
    /\ IF ~ authored
       THEN Goes(s, "adopt") /\ UNCHANGED left
       ELSE IF p \in memo[s]
       THEN UNCHANGED <<serving, step, left>>
       ELSE Goes(s, "judge") /\ left' = [left EXCEPT ![s] = @ - 1]
    /\ UNCHANGED <<triageTracker, stateFile, faults, alsoReply, memo,
                   pendingHolds, holdFailed, sought>>

(* With an agent the whole state file is written back; a failed hold in     *)
(* the cycle ends the poll before its claim.                                *)
CycleOver(s) ==
    /\ At(s, "next") /\ (queue[s] = {} \/ left[s] = 0)
    /\ stateFile' = IF authored THEN memo[s] ELSE stateFile
    /\ IF s \notin serving \/ holdFailed[s]
       THEN PollOver(s)
       ELSE Clears(s, "claim", pendingHolds[s], sought[s])
    /\ UNCHANGED <<triageTracker, faults>>

-----------------------------------------------------------------------------
(* Handling one proposal *)

Mulls(s, there) ==
    /\ Goes(s, there)
    /\ UNCHANGED <<stateFile, queue, memo, pendingHolds, holdFailed>>

(* The agent's decision. *)
Judge(s, decision) ==
    /\ At(s, "judge")
    /\ Mulls(s, IF decision = "adopt_and_reply" THEN "adopt" ELSE decision)
    /\ alsoReply' = [alsoReply EXCEPT ![s] = decision = "adopt_and_reply"]
    /\ UNCHANGED <<triageTracker, left, on, sought, faults>>

Decisions == {"adopt", "adopt_and_reply", "reply", "discard"}

(* The agent fails or changes the checkout, or the call does not arrive. *)
HandlingFails(s) ==
    /\ step[s] \in {"judge", "adopt", "reply", "alsoReply", "discard"}
    /\ Fault /\ Mulls(s, "next")
    /\ UNCHANGED <<triageTracker, left, on, alsoReply, sought>>

HandlingRefused(s) ==
    /\ step[s] \in {"adopt", "discard"} /\ mail[on[s]] # "pending"
    /\ Mulls(s, "next")
    /\ UNCHANGED <<triageTracker, left, on, alsoReply, sought, faults>>

AfterAdoption == IF HoldAdopted THEN "hold" ELSE IF authored THEN "tidy" ELSE "next"

(* adopt_proposal makes the issue, in the open pool.  If its answer is lost *)
(* the process knows of no issue, and never asks for its hold.              *)
Adopt(s, answered) ==
    LET p == on[s]
    IN  /\ At(s, "adopt") /\ mail[p] = "pending"
        /\ mail' = [mail EXCEPT ![p] = "adopted"]
        /\ Stage(p, NewIssue(None, None, NoKey))
        /\ IF answered
           THEN /\ Mulls(s, IF authored THEN "append" ELSE AfterAdoption)
                /\ left' = IF authored THEN left ELSE [left EXCEPT ![s] = @ - 1]
                /\ UNCHANGED faults
           ELSE Fault /\ Mulls(s, "next") /\ UNCHANGED left
        /\ UNCHANGED <<authored, asked, freed, on, alsoReply, sought>>

(* The agent's text is appended to the issue and looked for in it, with      *)
(* retries while the issue is not found yet.  If that fails the proposal is  *)
(* done with: nobody holds the issue, although its id is known.              *)
AppendText(s) ==
    /\ At(s, "append")
    /\ \/ Mulls(s, AfterAdoption) /\ UNCHANGED faults
       \/ Fault /\ Mulls(s, "next")
    /\ UNCHANGED <<triageTracker, left, on, alsoReply, sought>>

HoldFails(s) ==
    /\ pendingHolds' = [pendingHolds EXCEPT ![s] = IF s \in serving THEN @ \cup {on[s]} ELSE @]
    /\ holdFailed' = [holdFailed EXCEPT ![s] = TRUE]
    /\ Goes(s, "next")

Hold(s) ==
    LET p == on[s]
    IN  /\ At(s, "hold")
        /\ sought' = [sought EXCEPT ![s] = @ \cup {p}]
        /\ \/ /\ HoldIsServed(p)
              /\ Goes(s, IF authored THEN "tidy" ELSE "next")
              /\ UNCHANGED <<pendingHolds, holdFailed, faults>>
           \/ HoldIsServed(p) /\ Fault /\ HoldFails(s)
           \/ ~ PlanAccepts(adoptedAs[p]) /\ HoldFails(s) /\ UNCHANGED <<triageTracker, faults>>
           \/ Fault /\ HoldFails(s) /\ UNCHANGED triageTracker
        /\ UNCHANGED <<stateFile, queue, left, on, alsoReply, memo>>

(* After an adoption: the proposal is forgotten, and a pending one of the     *)
(* same origin that it supersedes is discarded, or not if a call fails.       *)
Tidy(s) ==
    LET p == on[s]
        old == Letter[p].supersedes
        discards == old # None /\ mail[old] = "pending" /\ Letter[old].trusted = Letter[p].trusted
        next == IF alsoReply[s] /\ ~ Letter[p].reply THEN "alsoReply" ELSE "next"
    IN  /\ At(s, "tidy")
        /\ Goes(s, next)
        /\ \/ /\ mail' = IF discards THEN [mail EXCEPT ![old] = "discarded"] ELSE mail
              /\ memo' = [memo EXCEPT ![s] = @ \ {p, IF discards THEN old ELSE p}]
              /\ UNCHANGED faults
           \/ discards /\ Fault /\ memo' = [memo EXCEPT ![s] = @ \ {p}] /\ UNCHANGED mail
        /\ UNCHANGED <<authored, adoptedAs, asked, freed, stateFile, queue, left, on,
                       alsoReply, pendingHolds, holdFailed, sought>>

(* The proposal is recorded as replied to, in the file at once. *)
Records(s) ==
    /\ memo' = [memo EXCEPT ![s] = @ \cup {on[s]}]
    /\ stateFile' = memo'[s]
    /\ Goes(s, "next")
    /\ UNCHANGED <<queue, left, on, alsoReply, pendingHolds, holdFailed, sought, faults>>

(* A reply to a reply is not sent. *)
SuppressReply(s) ==
    /\ At(s, "reply") /\ Letter[on[s]].reply
    /\ Records(s)
    /\ UNCHANGED triageTracker

(* An earlier reply that is still pending is returned in its place: an error. *)
SendReply(s) ==
    LET p == on[s]
    IN  /\ \/ At(s, "reply") /\ ~ Letter[p].reply
           \/ At(s, "alsoReply")
        /\ asked' = asked \cup {p}
        /\ \/ /\ Mulls(s, IF At(s, "reply") /\ p \notin asked THEN "save" ELSE "next")
              /\ UNCHANGED faults
           \/ Fault /\ Mulls(s, "next")
        /\ UNCHANGED <<authored, mail, adoptedAs, freed, left, on, alsoReply, sought>>

SaveReply(s) ==
    /\ At(s, "save")
    /\ Records(s)
    /\ UNCHANGED triageTracker

Discard(s) ==
    LET p == on[s]
    IN  /\ At(s, "discard") /\ mail[p] = "pending"
        /\ mail' = [mail EXCEPT ![p] = "discarded"]
        /\ Goes(s, "next")
        /\ \/ memo' = [memo EXCEPT ![s] = @ \ {p}] /\ UNCHANGED faults
           \/ Fault /\ UNCHANGED memo
        /\ UNCHANGED <<authored, adoptedAs, asked, freed, stateFile, queue, left, on,
                       alsoReply, pendingHolds, holdFailed, sought>>

-----------------------------------------------------------------------------
(* The serve's own work *)

ClaimAfterTriage(s, p) ==
    /\ At(s, "claim")
    /\ adoptedAs[p] # None /\ Offered(adoptedAs[p], "serve", NoKey)
    /\ Stage(p, Claimed(adoptedAs[p], "serve", NoKey, None))
    /\ Goes(s, "work") /\ on' = [on EXCEPT ![s] = p]
    /\ UNCHANGED <<authored, mail, asked, freed, stateFile, faults, queue, left,
                   alsoReply, memo, pendingHolds, holdFailed, sought>>

NothingToClaim(s) ==
    /\ At(s, "claim")
    /\ \A p \in Incoming : adoptedAs[p] # None => ~ Offered(adoptedAs[p], "serve", NoKey)
    /\ PollOver(s)
    /\ UNCHANGED <<triageTracker, stateFile, faults>>

(* However the run went; a failed one is ServeFleet's matter. *)
WorkDone(s) ==
    /\ At(s, "work")
    /\ Stage(on[s], Submitted(adoptedAs[on[s]], None, None))
    /\ PollOver(s)
    /\ UNCHANGED <<authored, mail, asked, freed, stateFile, faults>>

TriageStep(s) ==
    \/ \E p \in Incoming : RetryHold(s, p) \/ TakeNext(s, p) \/ ClaimAfterTriage(s, p)
    \/ HoldsRetried(s) \/ ListMail(s) \/ PollBreaks(s) \/ CycleOver(s)
    \/ \E decision \in Decisions : Judge(s, decision)
    \/ HandlingFails(s) \/ HandlingRefused(s)
    \/ \E answered \in BOOLEAN : Adopt(s, answered)
    \/ AppendText(s) \/ Hold(s) \/ Tidy(s)
    \/ SuppressReply(s) \/ SendReply(s) \/ SaveReply(s) \/ Discard(s)
    \/ NothingToClaim(s) \/ WorkDone(s)

TriageNext ==
    \/ \E s \in Triagers : TriageStep(s) \/ StartTriager(s) \/ StopTriager(s)
    \/ \E p \in Incoming :
          \/ ProposalArrives(p) \/ PersonDiscards(p) \/ PersonReleases(p)
          \/ OtherClaims(p) \/ OtherReleases(p) \/ OriginDecidesReply(p)

TriageSpec == TriageInit /\ [][TriageNext]_triageVars

-----------------------------------------------------------------------------
(* Properties *)

(* Each variable has its type; a hold is only asked for, and only kept for  *)
(* a retry, when there is an issue to hold.                                 *)
TriageTypes ==
    /\ mail \in [Incoming -> {"unsent", "pending", "adopted", "discarded"}]
    /\ \A p \in Incoming : (adoptedAs[p] # None) = (mail[p] = "adopted")
    /\ asked \subseteq Incoming /\ stateFile \subseteq Incoming
    /\ serving = {s \in serving : step[s] # "down"}
    /\ step \in [Triagers -> {"down", "retry", "list", "next", "claim", "work", "save",
                              "judge", "adopt", "append", "hold", "tidy", "reply",
                              "alsoReply", "discard"}]
    /\ left \in [Triagers -> 0 .. MaxAdoptions]
    /\ \A s \in Triagers :
          /\ step[s] \in {"append", "hold", "tidy"} => mail[on[s]] = "adopted"
          /\ \A p \in pendingHolds[s] : mail[p] = "adopted"
          /\ queue[s] \cup memo[s] \subseteq Incoming

(* Whatever happened to its requests, a serve that comes to claim has placed *)
(* every hold it ever asked for, in this poll or an earlier one: none of     *)
(* those issues is in the pool unless a person released it.  Of adopted      *)
(* issues whose hold it never asks for nothing is promised, and the serve may *)
(* claim them at once: those of a lost answer, and those whose text could not *)
(* be appended, though their id is known.                                    *)
SoughtIsHeldAtClaim ==
    \A s \in Triagers : step[s] = "claim" =>
        \A p \in sought[s] : p \in freed \/ adoptedAs[p].stage \notin ReadyStages

(* A serve that triages by policy and stays up works off the proposals that  *)
(* match, unless a hold it cannot place keeps it from its inbox.  As at most  *)
(* all of Incoming arrive, each one is decided.                             *)
MatchingIsDecided ==
    \A s \in Triagers :
        []<> (authored \/ Matching = {} \/ step[s] = "down" \/ pendingHolds[s] # {})
=============================================================================
