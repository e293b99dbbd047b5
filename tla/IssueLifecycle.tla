--------------------------- MODULE IssueLifecycle ---------------------------
(***************************************************************************)
(* The whole life of an issue under every lifecycle command, run by people *)
(* and agents of several names in several checkouts at once.  Commands     *)
(* that only write are one API call.  reclaim --force, readdress and       *)
(* approve read the issue first and then send what they concluded, so that *)
(* other commands act between their two calls.                             *)
(***************************************************************************)
EXTENDS IssueOps

CONSTANTS
    Issues,      \* issue ids
    Agents,      \* assignee names
    Checkouts,   \* machine-qualified keys of registered checkouts
    Sessions,    \* session tokens
    Clients,     \* commands that can be between their two calls at once
    ReviewerFor  \* ReviewerFor[a]: the first configured assignee other than a

VARIABLES
    issues,
    call,        \* the second call each client is about to make
    builder      \* ghost: agent and checkout of the last claim

vars == <<issues, call, builder>>

LifecycleAssumption ==
    /\ Issues \subseteq Nat
    /\ None \notin Agents
    /\ \A k \in Checkouts :   \* a registered checkout has a worker name and a repo
          /\ k = [name |-> k.name, repo |-> k.repo, machine |-> k.machine]
          /\ k.name # None /\ k.repo # None
    /\ FallbackAgent \in Agents
    /\ \A a \in Agents : ReviewerFor[a] \in Agents \ {a}

ASSUME LifecycleAssumption

(* A command may run in a checkout that is not registered as a worker. *)
From == Checkouts \cup {NoKey}

Optional(S) == S \cup {None}

Nothing == [kind |-> "none", issue |-> None, saw |-> NoKey, as |-> None, from |-> NoKey]

Nobody == [agent |-> None, from |-> NoKey]

Init ==
    /\ issues \in [Issues -> {NewIssue(a, s, t) :
                                a \in Agents, s \in Optional(Sessions), t \in From}]
    /\ call = [c \in Clients |-> Nothing]
    /\ builder = [i \in Issues |-> Nobody]

Stored(i, issue) == issues' = [issues EXCEPT ![i] = issue]

-----------------------------------------------------------------------------
(* Commands of one call *)

Plan(i, stage) ==
    /\ PlanAccepts(issues[i])
    /\ Stored(i, Planned(issues[i], stage))
    /\ UNCHANGED <<call, builder>>

Dispatch(i, target, assignee, stage) ==
    /\ DispatchAccepts(issues[i])
    /\ Stored(i, Dispatched(issues[i], target, assignee, stage))
    /\ UNCHANGED <<call, builder>>

Built(i, a, k) == builder' = [builder EXCEPT ![i] = [agent |-> a, from |-> k]]

Claim(i, a, k, s, allowSelf) ==
    /\ ClaimAccepts(issues[i], a, k, s, allowSelf)
    /\ Stored(i, Claimed(issues[i], a, k, s))
    /\ Built(i, a, k)
    /\ UNCHANGED call

(* The head of the pool is chosen before the author guard looks at it. *)
ClaimNext(i, a, k, s, allowSelf) ==
    /\ HeadOfPool(issues, i, a, k)
    /\ Claim(i, a, k, s, allowSelf)

Submit(i, reviewer, s) ==
    /\ SubmitAccepts(issues[i], reviewer)
    /\ Stored(i, Submitted(issues[i], reviewer, s))
    /\ UNCHANGED <<call, builder>>

RequestChanges(i, assignee) ==
    /\ Stored(i, ChangesRequested(issues[i], assignee))
    /\ UNCHANGED <<call, builder>>

Complete(i) ==
    /\ Stored(i, Completed(issues[i]))
    /\ UNCHANGED <<call, builder>>

-----------------------------------------------------------------------------
(* Commands that read first *)

Remember(c, kind, i, saw, as, from) ==
    /\ call[c] = Nothing
    /\ call' = [call EXCEPT ![c] = [kind |-> kind, issue |-> i, saw |-> saw,
                                    as |-> as, from |-> from]]
    /\ UNCHANGED <<issues, builder>>

(* A held issue without a worker is reclaimed with no race guard at all. *)
ReclaimRead(c, i) ==
    /\ issues[i].stage = "implementing"
    /\ Remember(c, "reclaim", i, issues[i].worker, None, NoKey)

ReaddressRead(c, i) ==
    /\ issues[i].target # NoKey
    /\ Remember(c, "readdress", i, issues[i].target, None, NoKey)

(* A named reviewer must be the assigned one or find the review open.  With  *)
(* none named the assignee decides, or, in the open pool, the first agent    *)
(* that is not the implementer.  The worker sent is the bare worker.repo.    *)
ApproveRead(c, i, named, k) ==
    LET assigned == issues[i].assignee
        resolved == IF named # None THEN named
                    ELSE IF assigned # None THEN assigned
                    ELSE IF issues[i].implementer # None
                    THEN ReviewerFor[issues[i].implementer]
                    ELSE FallbackAgent
    IN  /\ named # None => assigned \in {None, named}
        /\ Remember(c, "approve", i, NoKey, resolved, Bare(k))

Answered(c, kind) ==
    call[c].kind = kind /\ call' = [call EXCEPT ![c] = Nothing]

Reclaim(c) ==
    LET i == call[c].issue
    IN  /\ Answered(c, "reclaim")
        /\ ReclaimAccepts(issues[i], call[c].saw)
        /\ Stored(i, Reclaimed(issues[i]))
        /\ UNCHANGED builder

Readdress(c) ==
    LET i == call[c].issue
    IN  /\ Answered(c, "readdress")
        /\ ReaddressAccepts(issues[i], call[c].saw)
        /\ Stored(i, Readdressed(issues[i]))
        /\ UNCHANGED builder

Approve(c) ==
    LET i == call[c].issue
    IN  /\ Answered(c, "approve")
        /\ ApproveAccepts(issues[i], call[c].as, call[c].from)
        /\ Stored(i, Completed(issues[i]))
        /\ UNCHANGED builder

(* The tracker refuses (race_lost, invalid_transition) or the call fails. *)
CallFails(c) ==
    /\ call[c] # Nothing
    /\ call' = [call EXCEPT ![c] = Nothing]
    /\ UNCHANGED <<issues, builder>>

-----------------------------------------------------------------------------
WriteStep(i) ==
    \/ \E stage \in {"planned", "todo"} : Plan(i, stage)
    \/ \E t \in Checkouts, a \in Optional(Agents),
          stage \in Optional({"planned", "todo"}) : Dispatch(i, t, a, stage)
    \/ \E a \in Agents, k \in From, s \in Optional(Sessions), allow \in BOOLEAN :
          Claim(i, a, k, s, allow) \/ ClaimNext(i, a, k, s, allow)
    \/ \E r \in Optional(Agents), s \in Optional(Sessions) : Submit(i, r, s)
    \/ \E a \in Optional(Agents) : RequestChanges(i, a)
    \/ Complete(i)

ReadStep(c, i) ==
    \/ ReclaimRead(c, i) \/ ReaddressRead(c, i)
    \/ \E named \in Optional(Agents), k \in From : ApproveRead(c, i, named, k)

CallStep(c) == Reclaim(c) \/ Readdress(c) \/ Approve(c) \/ CallFails(c)

Next ==
    \/ \E i \in Issues : WriteStep(i)
    \/ \E c \in Clients : CallStep(c) \/ \E i \in Issues : ReadStep(c, i)

Spec == Init /\ [][Next]_vars

-----------------------------------------------------------------------------
(* Properties *)

IssueType ==
    [status : Statuses, stage : Stages, assignee : Optional(Agents),
     implementer : Optional(Agents), worker : From, target : From,
     author : Agents, authorSession : Optional(Sessions),
     implementerSession : Optional(Sessions), blocked : {FALSE}, rank : {0}]

(* Every variable has its type. *)
TypeOK ==
    /\ issues \in [Issues -> IssueType]
    /\ call \in [Clients -> [kind : {"none", "reclaim", "readdress", "approve"},
                             issue : Issues \cup {None}, saw : From,
                             as : Optional(Agents),
                             from : {Bare(k) : k \in From}]]
    /\ \A c \in Clients : call[c].kind # "none" => call[c].issue \in Issues
    /\ builder \in [Issues -> [agent : Optional(Agents), from : From]]

(* After any order of dispatches, takeovers, reclaims and late submissions,   *)
(* who implements an issue is on record: the agent that claimed it is its     *)
(* assignee and its implementer.  Directed work is only ever implemented from *)
(* the checkout it is directed to, even when the recorded worker is left over *)
(* from an earlier claim.                                                   *)
DirectedClaimRespected ==
    \A i \in Issues : issues[i].stage = "implementing" =>
        /\ issues[i].status = "in_progress"
        /\ issues[i].assignee = builder[i].agent /\ issues[i].implementer = builder[i].agent
        /\ issues[i].target # NoKey =>
              /\ MatchesTarget(issues[i], issues[i].worker)
              /\ builder[i].from = issues[i].worker

(* As long as the issue names an implementer, nobody approves what the same  *)
(* agent name claimed last in the same checkout, registered or not, although *)
(* the reviewer is resolved from an earlier read and unregistered checkouts  *)
(* leave no trace in the issue.  A reclaim takes the name off the issue: of  *)
(* work that is submitted after its claim was reclaimed nothing is promised: *)
(* it has no implementer, and whoever claimed it last may approve it.        *)
BuilderNeverApproves ==
    [][\A c \in Clients : Approve(c) =>
          LET issue == issues[call[c].issue]
              last == builder[call[c].issue]
          IN  issue.implementer # None =>
                 ~ (call[c].as = last.agent /\ call[c].from = Bare(last.from))]_vars
=============================================================================
