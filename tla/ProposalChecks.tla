--------------------------- MODULE ProposalChecks ---------------------------
(***************************************************************************)
(* Directed proposal checks: a sender asks one registered worker of the    *)
(* target project to judge a pending proposal; `serve --proposal-checks`   *)
(* or `proposal-checks --once` in that worker's checkout lets an agent     *)
(* judge it, adopts and holds what it approves, and posts the answer.      *)
(* The proposal is read before the agent runs; people and other checkouts  *)
(* under the same worker key may decide it before the adoption arrives.    *)
(***************************************************************************)
EXTENDS WorkerKeys, Integers, Sequences, FiniteSets

CONSTANTS
    Offers,          \* pending proposals of the target project
    Checkers,        \* processes; those not in LoopingCheckers run one cycle
    LoopingCheckers,
    CheckerRow,      \* the registry row of each one's checkout
    Addresses,       \* what a sender may pass as --worker, None for nothing
    CheckLimit,      \* --proposal-check-limit
    MaxCheckErrors,  \* --max-run-failures; 0 never gives up
    MaxChecks,       \* bound: checks asked for
    MaxCheckFaults   \* bound: calls and agent runs that fail

VARIABLES
    offers,      \* status of each proposal
    made,        \* stage of the issue made of it, or None
    checks,      \* the checks, a check's id its place
    rows,        \* processes whose checkout is registered
    checker,     \* what each process remembers
    checkFaults,
    automatic,   \* ghost: proposals a check's approval adopted
    heldOnce     \* ghost: proposals whose issue was ever held

checkVars == <<offers, made, checks, rows, checker, checkFaults, automatic, heldOnce>>

Rulings == {"approve", "reject", "revise"}

CheckAssumption ==
    /\ None \notin Offers /\ None \notin Rulings
    /\ LoopingCheckers \subseteq Checkers
    /\ \A s \in Checkers : CheckerRow[s].name # None /\ CheckerRow[s].repo # None
    /\ CheckLimit \in Nat \ {0} /\ MaxCheckErrors \in Nat
    /\ MaxChecks \in Nat /\ MaxCheckFaults \in Nat

ASSUME CheckAssumption

(* A process that is not running.  "saw" is the proposal's status as read    *)
(* before the run, "owed" the pending holds; "sought" is a ghost: proposals  *)
(* whose issue it asked to hold.                                            *)
Away == [phase |-> "down", duty |-> {}, check |-> None, saw |-> None, ruling |-> None,
         owed |-> {}, erred |-> FALSE, streak |-> 0, sought |-> {}]

CheckInit ==
    /\ offers = [p \in Offers |-> "pending"]
    /\ made = [p \in Offers |-> None]
    /\ checks = <<>> /\ rows = LoopingCheckers /\ checkFaults = 0
    /\ checker = [s \in Checkers |-> Away]
    /\ automatic = {} /\ heldOnce = {}

Unanswered == {c \in DOMAIN checks : checks[c].ruling = None}

-----------------------------------------------------------------------------
(* Senders, people and other workers *)

(* resolve_registered_worker_address: the rows an address may mean, and the   *)
(* key of a row the check is addressed to.                                  *)
Candidates(address) ==
    {s \in rows : address = None \/ KeyMatchesRow(address, CheckerRow[s], TRUE)}

AddressOf(s, address) ==
    IF address # None /\ address.machine = None
    THEN Bare(CheckerRow[s]) ELSE CheckerRow[s]

RequestCheck(p, address) ==
    /\ Len(checks) < MaxChecks
    /\ offers[p] = "pending"
    /\ \E s \in rows :
          /\ Candidates(address) = {s}
          /\ \A c \in Unanswered :
                <<checks[c].offer, checks[c].worker>> # <<p, AddressOf(s, address)>>
          /\ checks' = Append(checks, [offer |-> p, worker |-> AddressOf(s, address),
                                       ruling |-> None, ref |-> None])
    /\ UNCHANGED <<offers, made, rows, checker, checkFaults, automatic, heldOnce>>

Registers(s) ==
    /\ rows' = rows \cup {s} /\ s \notin rows
    /\ UNCHANGED <<offers, made, checks, checker, checkFaults, automatic, heldOnce>>

DecidedByPerson(p) ==
    /\ offers[p] = "pending"
    /\ \/ /\ offers' = [offers EXCEPT ![p] = "adopted"]
          /\ made' = [made EXCEPT ![p] = "todo"]
       \/ offers' = [offers EXCEPT ![p] = "discarded"] /\ UNCHANGED made
    /\ UNCHANGED <<checks, rows, checker, checkFaults, automatic, heldOnce>>

(* Its release by a person, a claim by another worker, and the claim's end. *)
IssueMoves(p) ==
    /\ \E move \in {<<"planned", "todo">>, <<"todo", "implementing">>, <<"implementing", "todo">>} :
          made[p] = move[1] /\ made' = [made EXCEPT ![p] = move[2]]
    /\ UNCHANGED <<offers, checks, rows, checker, checkFaults, automatic, heldOnce>>

-----------------------------------------------------------------------------
(* The poll loop *)

Now(s, phase) == checker[s].phase = phase

Becomes(s, memory) == checker' = [checker EXCEPT ![s] = memory]

CallFails == checkFaults < MaxCheckFaults /\ checkFaults' = checkFaults + 1

(* The top of the loop, with this failure count. *)
NextPoll(s, streak) ==
    IF s \in LoopingCheckers
    THEN [Away EXCEPT !.phase = "holds", !.owed = checker[s].owed,
                      !.streak = streak, !.sought = checker[s].sought]
    ELSE Away

PollErrs(s) ==
    LET streak == checker[s].streak + 1
    IN  IF MaxCheckErrors = 0 THEN NextPoll(s, 0)
        ELSE IF streak >= MaxCheckErrors THEN Away
        ELSE NextPoll(s, streak)

CheckerStarts(s) ==
    /\ Now(s, "down") /\ s \in rows
    /\ Becomes(s, [Away EXCEPT !.phase = IF s \in LoopingCheckers THEN "holds" ELSE "list"])
    /\ UNCHANGED <<offers, made, checks, rows, checkFaults, automatic, heldOnce>>

CheckerStops(s) ==
    /\ ~ Now(s, "down")
    /\ Becomes(s, Away)
    /\ UNCHANGED <<offers, made, checks, rows, checkFaults, automatic, heldOnce>>

(* plan(issue, stage = "planned"): refused once the issue is being worked on. *)
CanHold(p) == made[p] \in {"todo", "planned"}

HoldTaken(p) ==
    /\ CanHold(p)
    /\ made' = [made EXCEPT ![p] = "planned"]
    /\ heldOnce' = heldOnce \cup {p}

HoldRefused(p) == ~ CanHold(p) /\ UNCHANGED <<made, heldOnce, checkFaults>>

HoldUnknown(p) == CallFails /\ (HoldTaken(p) \/ UNCHANGED <<made, heldOnce>>)

(* retry_pending_holds: the first that fails ends the poll. *)
RetryOwed(s, p) ==
    /\ Now(s, "holds") /\ p \in checker[s].owed
    /\ \/ /\ HoldTaken(p) /\ UNCHANGED checkFaults
          /\ Becomes(s, [checker[s] EXCEPT !.owed = @ \ {p}])
       \/ (HoldRefused(p) \/ HoldUnknown(p)) /\ Becomes(s, PollErrs(s))
    /\ UNCHANGED <<offers, checks, rows, automatic>>

OwedRetried(s) ==
    /\ Now(s, "holds") /\ checker[s].owed = {}
    /\ Becomes(s, [checker[s] EXCEPT !.phase = "list"])
    /\ UNCHANGED <<offers, made, checks, rows, checkFaults, automatic, heldOnce>>

(* Fault: the checkout asks for its qualified key only. *)
AddressedQualified(s) == {c \in Unanswered : checks[c].worker = CheckerRow[s]}

(* One list per lookup key, merged by id. *)
Addressed(s) == {c \in Unanswered : checks[c].worker \in LookupKeys(CheckerRow[s])}

FirstAddressed(s) ==
    {c \in Addressed(s) : Cardinality({d \in Addressed(s) : d < c}) < CheckLimit}

(* Without --check the cycle takes the first pending checks, with it one. *)
ListChecks(s) ==
    /\ Now(s, "list")
    /\ \E duty \in {FirstAddressed(s)} \cup
                   (IF s \in LoopingCheckers THEN {} ELSE {{c} : c \in Addressed(s)}) :
          Becomes(s, IF duty = {} THEN NextPoll(s, 0)
                     ELSE [checker[s] EXCEPT !.phase = "next", !.duty = duty])
    /\ UNCHANGED <<offers, made, checks, rows, checkFaults, automatic, heldOnce>>

ListChecksFails(s) ==
    /\ Now(s, "list")
    /\ CallFails /\ Becomes(s, PollErrs(s))
    /\ UNCHANGED <<offers, made, checks, rows, automatic, heldOnce>>

-----------------------------------------------------------------------------
(* One check *)

Subject(s) == checks[checker[s].check].offer

(* Whatever failed: an error decision, and on to the next check. *)
Erred(s) ==
    [checker[s] EXCEPT !.phase = "next", !.check = None, !.saw = None, !.ruling = None,
                       !.erred = TRUE]

ReadProposal(s, c) ==
    /\ Now(s, "next") /\ c \in checker[s].duty /\ \A d \in checker[s].duty : c <= d
    /\ Becomes(s, [checker[s] EXCEPT !.phase = "judge", !.duty = @ \ {c}, !.check = c,
                                     !.saw = offers[checks[c].offer]])
    /\ UNCHANGED <<offers, made, checks, rows, checkFaults, automatic, heldOnce>>

(* The read, the run or its parsing fails, or a call that never arrives. *)
CheckFails(s) ==
    /\ checker[s].phase \in {"judge", "adopt", "post"}
    /\ CallFails /\ Becomes(s, Erred(s))
    /\ UNCHANGED <<offers, made, checks, rows, automatic, heldOnce>>

(* An approval is not adopted again if the proposal was read as adopted. *)
AgentRules(s, ruling) ==
    /\ Now(s, "judge")
    /\ Becomes(s, [checker[s] EXCEPT
          !.ruling = ruling, !.saw = None,
          !.phase = IF ruling = "approve" /\ checker[s].saw # "adopted"
                    THEN "adopt" ELSE "post"])
    /\ UNCHANGED <<offers, made, checks, rows, checkFaults, automatic, heldOnce>>

(* The agent's text, if it wrote one, is appended to the issue next. *)
AdoptApproved(s) ==
    LET p == Subject(s)
    IN  /\ Now(s, "adopt") /\ offers[p] = "pending"
        /\ offers' = [offers EXCEPT ![p] = "adopted"]
        /\ made' = [made EXCEPT ![p] = "todo"]
        /\ automatic' = automatic \cup {p}
        /\ \/ /\ \E phase \in {"append", "hold"} :
                    Becomes(s, [checker[s] EXCEPT !.phase = phase])
              /\ UNCHANGED checkFaults
           \/ CallFails /\ Becomes(s, Erred(s))   \* no answer
        /\ UNCHANGED <<checks, rows, heldOnce>>

(* If it fails the process knows the issue, which is in the pool, but neither *)
(* holds it nor keeps the hold for later.                                   *)
AppendSpec(s) ==
    /\ Now(s, "append")
    /\ \/ Becomes(s, [checker[s] EXCEPT !.phase = "hold"]) /\ UNCHANGED checkFaults
       \/ CallFails /\ Becomes(s, Erred(s))
    /\ UNCHANGED <<offers, made, checks, rows, automatic, heldOnce>>

(* Fault: a refused adoption is answered as if it had been made. *)
AdoptionRefusedIgnored(s) ==
    /\ Now(s, "adopt") /\ offers[Subject(s)] # "pending"
    /\ Becomes(s, [checker[s] EXCEPT !.phase = "post"])
    /\ UNCHANGED <<offers, made, checks, rows, checkFaults, automatic, heldOnce>>

AdoptionRefused(s) ==
    /\ Now(s, "adopt") /\ offers[Subject(s)] # "pending"
    /\ Becomes(s, Erred(s))
    /\ UNCHANGED <<offers, made, checks, rows, checkFaults, automatic, heldOnce>>

(* Fault: the failed hold is not kept for a retry. *)
HoldApprovedForgets(s) ==
    LET p == Subject(s)
    IN  /\ Now(s, "hold")
        /\ \/ /\ HoldTaken(p) /\ UNCHANGED checkFaults
              /\ Becomes(s, [checker[s] EXCEPT !.phase = "post", !.sought = @ \cup {p}])
           \/ /\ HoldRefused(p) \/ HoldUnknown(p)
              /\ Becomes(s, [Erred(s) EXCEPT !.sought = @ \cup {p}])
        /\ UNCHANGED <<offers, checks, rows, automatic>>

(* A hold that fails leaves the check unanswered. *)
HoldApproved(s) ==
    LET p == Subject(s)
    IN  /\ Now(s, "hold")
        /\ \/ /\ HoldTaken(p) /\ UNCHANGED checkFaults
              /\ Becomes(s, [checker[s] EXCEPT !.phase = "post", !.sought = @ \cup {p}])
           \/ /\ HoldRefused(p) \/ HoldUnknown(p)
              /\ Becomes(s, [Erred(s) EXCEPT !.owed = @ \cup {p}, !.sought = @ \cup {p}])
        /\ UNCHANGED <<offers, checks, rows, automatic>>

Handled(s) == [Erred(s) EXCEPT !.erred = checker[s].erred]

(* The answer names the issue the proposal became; its loss is an error. *)
PostResult(s) ==
    LET c == checker[s].check
    IN  /\ Now(s, "post") /\ c \in Unanswered
        /\ checks' = [checks EXCEPT
              ![c].ruling = checker[s].ruling,
              ![c].ref = IF checker[s].ruling = "approve" THEN Subject(s) ELSE None]
        /\ \/ Becomes(s, Handled(s)) /\ UNCHANGED checkFaults
           \/ CallFails /\ Becomes(s, Erred(s))
        /\ UNCHANGED <<offers, made, rows, automatic, heldOnce>>

(* already_decided is no error. *)
AlreadyDecided(s) ==
    /\ Now(s, "post") /\ checker[s].check \notin Unanswered
    /\ Becomes(s, Handled(s))
    /\ UNCHANGED <<offers, made, checks, rows, checkFaults, automatic, heldOnce>>

CheckCycleEnds(s) ==
    /\ Now(s, "next") /\ checker[s].duty = {}
    /\ Becomes(s, IF checker[s].erred THEN PollErrs(s) ELSE NextPoll(s, 0))
    /\ UNCHANGED <<offers, made, checks, rows, checkFaults, automatic, heldOnce>>

-----------------------------------------------------------------------------
CheckerStep(s) ==
    \/ OwedRetried(s) \/ ListChecks(s) \/ ListChecksFails(s)
    \/ \E p \in Offers : RetryOwed(s, p)
    \/ CheckFails(s) \/ \E c \in DOMAIN checks : ReadProposal(s, c)
    \/ \E ruling \in Rulings : AgentRules(s, ruling)
    \/ AdoptApproved(s) \/ AdoptionRefused(s) \/ AppendSpec(s) \/ HoldApproved(s)
    \/ PostResult(s) \/ AlreadyDecided(s) \/ CheckCycleEnds(s)

CheckNext ==
    \/ \E s \in Checkers : CheckerStep(s) \/ CheckerStarts(s) \/ CheckerStops(s) \/ Registers(s)
    \/ \E p \in Offers :
          \/ DecidedByPerson(p) \/ IssueMoves(p)
          \/ \E address \in Addresses : RequestCheck(p, address)

CheckSpec == CheckInit /\ [][CheckNext]_checkVars

-----------------------------------------------------------------------------
(* Properties *)

Phases == {"down", "holds", "list", "next", "judge", "adopt", "append", "hold", "post"}

(* Each variable has its type, and a process that handles a check has one. *)
CheckTypes ==
    /\ offers \in [Offers -> {"pending", "adopted", "discarded"}]
    /\ \A p \in Offers :
          made[p] \in IF offers[p] = "adopted"
                      THEN {"todo", "planned", "implementing"} ELSE {None}
    /\ \A s \in Checkers :
          /\ checker[s].phase \in Phases
          /\ Now(s, "down") => checker[s] = Away
          /\ checker[s].check # None <=>
                checker[s].phase \in {"judge", "adopt", "append", "hold", "post"}
          /\ checker[s].duty \subseteq DOMAIN checks
          /\ \A p \in checker[s].owed : offers[p] = "adopted"

(* Whoever decides a proposal while the agent reads it, a check is answered   *)
(* "approve" only when the proposal has become an issue.                    *)
ApprovalHasIssue ==
    \A c \in DOMAIN checks :
        checks[c].ruling = "approve" => offers[checks[c].offer] = "adopted"

(* An issue a process asked to hold has been held before the process looks   *)
(* for new checks, whatever people and other processes do with it meanwhile: *)
(* failed holds outlive their cycle, and the retries at the top of the loop  *)
(* come first.  Within the cycle itself it may answer another check of the  *)
(* same proposal, which it then reads as adopted.  An adoption whose answer  *)
(* was lost, or whose text could not be appended, never comes to its hold:   *)
(* ApprovedIsHeld is about those.                                           *)
HeldBeforeNextCycle ==
    \A s \in Checkers : Now(s, "list") => checker[s].sought \subseteq heldOnce

(* docs/guides/cross-project-proposals.md: "All automatic adoption paths,     *)
(* including proposal-check approvals, hold the created issue at planned".    *)
(* Not if the answer of the adoption is lost or its text is not appended.    *)
ApprovedIsHeld ==
    \A c \in DOMAIN checks :
        checks[c].ruling = "approve" /\ checks[c].offer \in automatic =>
            checks[c].offer \in heldOnce

(* A serve works off all checks it is addressed by, unless it is stopped or  *)
(* gives up after too many polls with an error.  There are MaxChecks at most, *)
(* so that each of them is answered.                                        *)
CheckIsAnswered ==
    \A s \in LoopingCheckers :
        []<> \/ Now(s, "down")
             \/ \A c \in Unanswered : checks[c].worker \notin LookupKeys(CheckerRow[s])
=============================================================================
