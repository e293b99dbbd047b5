------------------------------ MODULE IssueOps ------------------------------
(***************************************************************************)
(* The tracker's issue record and what each API operation demands of it    *)
(* and makes of it.  The repository's statement of that contract is the    *)
(* client surface in issuekit/testing/issues.py, which the command code    *)
(* is written against; each operation is one atomic step there (it holds   *)
(* the surface's lock).  "XAccepts" is the operation's guard, the         *)
(* participle ("Claimed") its effect.                                      *)
(***************************************************************************)
EXTENDS WorkerKeys, Integers

CONSTANT FallbackAgent   \* the agent request_changes names when nobody implemented

ReadyStages == {"todo", "changes_requested"}

Stages == ReadyStages \cup {"planned", "implementing", "review", "done"}

Statuses == {"active", "in_progress", "completed"}

(* An issue as create_issue stores it. *)
NewIssue(author, session, target) ==
    [status |-> "active", stage |-> "todo", assignee |-> None,
     implementer |-> None, worker |-> NoKey, target |-> target,
     author |-> author, authorSession |-> session,
     implementerSession |-> None, blocked |-> FALSE, rank |-> 0]

MatchesTarget(issue, worker) ==
    issue.target = NoKey \/ KeysMatch(issue.target, worker, TRUE)

(* The author-implementer guard of a claim. *)
SelfImplements(issue, agent, session) ==
    /\ issue.author = agent /\ agent # None
    /\ ~ (issue.implementer = agent /\ issue.stage = "changes_requested")
    /\ \/ issue.authorSession # None /\ session \in {None, issue.authorSession}
       \/ issue.authorSession = None /\ issue.assignee = agent

ClaimAccepts(issue, agent, worker, session, allowSelf) ==
    /\ issue.status # "completed"
    /\ issue.stage \in ReadyStages \cup {"implementing"}
    /\ issue.assignee \in {None, agent}
    /\ MatchesTarget(issue, worker)
    /\ allowSelf \/ ~ SelfImplements(issue, agent, session)

(* Faults: the status is left as it was; the first implementer stays. *)
ClaimedQuietly(issue, agent, worker, session) ==
    [issue EXCEPT !.stage = "implementing", !.assignee = agent, !.implementer = agent,
                  !.worker = IF worker = NoKey THEN @ ELSE worker]

ClaimedForFirst(issue, agent, worker, session) ==
    [ClaimedQuietly(issue, agent, worker, session) EXCEPT
        !.status = "in_progress",
        !.implementer = IF issue.implementer = None THEN agent ELSE issue.implementer]

(* A claim that names no worker or no session leaves the recorded one. *)
Claimed(issue, agent, worker, session) ==
    [issue EXCEPT !.status = "in_progress", !.stage = "implementing",
                  !.assignee = agent, !.implementer = agent,
                  !.worker = IF worker = NoKey THEN @ ELSE worker,
                  !.implementerSession = IF session = None THEN @ ELSE session]

(* Fault: held issues are offered too. *)
OfferedHeld(issue, agent, worker) ==
    /\ issue.status # "completed"
    /\ issue.assignee \in {None, agent}
    /\ MatchesTarget(issue, worker)

(* What the pool offers an agent: never an issue already implementing, and *)
(* never one whose dependencies are waiting.                               *)
Offered(issue, agent, worker) ==
    /\ issue.status # "completed"
    /\ issue.stage \in ReadyStages
    /\ issue.assignee \in {None, agent}
    /\ MatchesTarget(issue, worker)
    /\ ~ issue.blocked

(* claim_next takes the offered issue of best priority, then lowest id. *)
HeadOfPool(issues, i, agent, worker) ==
    /\ Offered(issues[i], agent, worker)
    /\ \A j \in DOMAIN issues :
          Offered(issues[j], agent, worker) =>
             \/ issues[i].rank < issues[j].rank
             \/ issues[i].rank = issues[j].rank /\ i <= j

(* Fault: the expected holder is ignored. *)
ReclaimAcceptsBlind(issue, expected) == issue.stage = "implementing"

(* An issue that is already back in the pool is answered without a change. *)
ReclaimAccepts(issue, expected) ==
    /\ issue.stage = "implementing"
    /\ expected = NoKey \/ issue.worker = expected

(* The claim is dropped; the directed target stays. *)
Reclaimed(issue) ==
    [issue EXCEPT !.status = "active", !.stage = "todo", !.assignee = None,
                  !.implementer = None, !.worker = NoKey]

(* Submitting checks neither the stage nor the holder. *)
SubmitAccepts(issue, reviewer) == reviewer = None \/ issue.implementer # reviewer

Submitted(issue, reviewer, session) ==
    [issue EXCEPT !.stage = "review", !.assignee = reviewer,
                  !.implementerSession = IF session = None THEN @ ELSE session]

ChangesRequested(issue, assignee) ==
    [issue EXCEPT !.stage = "changes_requested",
                  !.assignee = IF assignee # None THEN assignee
                               ELSE IF issue.implementer # None THEN issue.implementer
                               ELSE FallbackAgent]

(* Fault: the reviewer must name the machine to count as the same checkout. *)
SelfReviewStrict(issue, reviewer, worker) ==
    /\ issue.implementer = reviewer
    /\ issue.worker # NoKey /\ worker # NoKey => KeysMatch(issue.worker, worker, TRUE)

(* Approval by the implementer's own name needs two known, different checkouts. *)
SelfReview(issue, reviewer, worker) ==
    /\ issue.implementer = reviewer
    /\ issue.worker # NoKey /\ worker # NoKey => KeysMatch(issue.worker, worker, FALSE)

ApproveAccepts(issue, reviewer, worker) ==
    issue.stage = "review" /\ ~ SelfReview(issue, reviewer, worker)

(* approve and complete leave the issue in the same state. *)
Completed(issue) ==
    [issue EXCEPT !.status = "completed", !.stage = "done", !.assignee = None]

PlanAccepts(issue) == issue.stage \in {"todo", "planned"}

Planned(issue, stage) == [issue EXCEPT !.stage = stage]

(* Fault: a held issue can be redirected. *)
DispatchAcceptsHeld(issue) ==
    issue.stage \in {"todo", "planned", "changes_requested", "implementing"}

DispatchAccepts(issue) == issue.stage \in {"todo", "planned", "changes_requested"}

Dispatched(issue, target, assignee, stage) ==
    [issue EXCEPT !.target = target,
                  !.assignee = IF assignee = None THEN @ ELSE assignee,
                  !.stage = IF stage = None THEN @ ELSE stage]

ReaddressAccepts(issue, expected) ==
    issue.target # NoKey /\ (expected = NoKey \/ issue.target = expected)

Readdressed(issue) == [issue EXCEPT !.target = NoKey]
=============================================================================
