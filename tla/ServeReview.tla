---------------------------- MODULE ServeReview -----------------------------
(***************************************************************************)
(* `issuekit serve --review`: processes that poll the review pool, let an  *)
(* agent judge a submission in their checkout, and apply its verdict       *)
(* minutes after they read the issue.  In the meantime people decide,      *)
(* implementers submit again, and other review serves judge the same       *)
(* issue.  A review that fails is not tried again by this process until    *)
(* a poll has seen the issue out of the pool.                              *)
(***************************************************************************)
EXTENDS IssueOps

CONSTANTS
    ReviewIssues,      \* issue ids
    Reviewers,         \* review serves
    ReviewerAgent,     \* the agent each runs
    ReviewerKey,       \* the machine-qualified key of each one's checkout
    Builders,          \* [agent, key]: who implements, and where
    MaxRounds,         \* bound: submissions of one issue
    MaxReviewFailures  \* --max-run-failures; 0 never gives up

VARIABLES
    desk,       \* the tracker's issues
    round,      \* ghost: how often each issue was submitted
    at,         \* where each serve is; "down" when it does not run
    reading,    \* the submission it reviews, or None
    failedIds,  \* failed_review_ids
    tries,      \* consecutive_failures
    givenUp     \* ghost: submissions whose review failed in this process

reviewVars == <<desk, round, at, reading, failedIds, tries, givenUp>>

ReviewAssumption ==
    /\ ReviewIssues \subseteq Nat /\ None \notin ReviewIssues
    /\ \A r \in Reviewers : ReviewerAgent[r] # None /\ ReviewerKey[r].name # None
    /\ \A b \in Builders : b.agent # None
    /\ MaxRounds \in Nat /\ MaxReviewFailures \in Nat

ASSUME ReviewAssumption

ReviewInit ==
    /\ desk = [i \in ReviewIssues |-> NewIssue(None, None, NoKey)]
    /\ round = [i \in ReviewIssues |-> 0]
    /\ at = [r \in Reviewers |-> "down"]
    /\ reading = [r \in Reviewers |-> None]
    /\ failedIds = [r \in Reviewers |-> {}]
    /\ tries = [r \in Reviewers |-> 0]
    /\ givenUp = [r \in Reviewers |-> {}]

Tabled(i, issue) == desk' = [desk EXCEPT ![i] = issue]

-----------------------------------------------------------------------------
(* The environment: implementers and people *)

SubmitFrom(i, b, reviewer, issue) ==
    /\ round[i] < MaxRounds
    /\ SubmitAccepts(issue, reviewer)
    /\ Tabled(i, Submitted(issue, reviewer, None))
    /\ round' = [round EXCEPT ![i] = @ + 1]
    /\ UNCHANGED <<at, reading, failedIds, tries, givenUp>>

(* An implementer claims the issue, builds and submits. *)
Build(i, b, reviewer) ==
    /\ ClaimAccepts(desk[i], b.agent, b.key, None, TRUE)
    /\ desk[i].stage \in ReadyStages
    /\ SubmitFrom(i, b, reviewer, Claimed(desk[i], b.agent, b.key, None))

(* Submitting again corrects a handoff, or comes late; the tracker looks at  *)
(* no stage, not even of a completed issue.                                 *)
SubmitAgain(i, b, reviewer) ==
    /\ desk[i].implementer = b.agent /\ desk[i].worker = b.key
    /\ SubmitFrom(i, b, reviewer, desk[i])

PersonApproves(i) ==
    /\ desk[i].stage = "review"
    /\ Tabled(i, Completed(desk[i]))
    /\ UNCHANGED <<round, at, reading, failedIds, tries, givenUp>>

PersonRequestsChanges(i) ==
    /\ desk[i].stage = "review"
    /\ Tabled(i, ChangesRequested(desk[i], None))
    /\ UNCHANGED <<round, at, reading, failedIds, tries, givenUp>>

-----------------------------------------------------------------------------
(* The loop *)

Leave(r) ==
    /\ at' = [at EXCEPT ![r] = "down"]
    /\ reading' = [reading EXCEPT ![r] = None]
    /\ failedIds' = [failedIds EXCEPT ![r] = {}]
    /\ tries' = [tries EXCEPT ![r] = 0]
    /\ givenUp' = [givenUp EXCEPT ![r] = {}]

(* Back at the top of the loop with this count and these excluded ids. *)
Loop(r, count, excluded) ==
    /\ at' = [at EXCEPT ![r] = "poll"]
    /\ reading' = [reading EXCEPT ![r] = None]
    /\ failedIds' = [failedIds EXCEPT ![r] = excluded]
    /\ tries' = [tries EXCEPT ![r] = count]

PollFailed(r, excluded) ==
    LET count == tries[r] + 1
    IN  IF MaxReviewFailures > 0 /\ count >= MaxReviewFailures
        THEN Leave(r)
        ELSE /\ Loop(r, IF MaxReviewFailures = 0 THEN 0 ELSE count, excluded)
             /\ givenUp' = [givenUp EXCEPT ![r] =
                               @ \cup {<<i, round[i]>> : i \in excluded \ failedIds[r]}]

(* A failing review of i, whatever failed. *)
ReviewFailed(r, i) == PollFailed(r, failedIds[r] \cup {i})

StartReviewer(r) ==
    /\ at[r] = "down"
    /\ Loop(r, 0, {})
    /\ UNCHANGED <<desk, round, givenUp>>

(* A signal, --once, --max-issues, or a kill: a review under way is lost. *)
StopReviewer(r) ==
    /\ at[r] # "down"
    /\ Leave(r)
    /\ UNCHANGED <<desk, round>>

(* next_review: the reviews assigned to the agent and the open ones.  They  *)
(* are two lists, read together here: only a new submission moves an issue  *)
(* from one to the other.                                                   *)
ReviewPool(r) ==
    {i \in ReviewIssues : /\ desk[i].status # "completed"
                          /\ desk[i].stage = "review"
                          /\ desk[i].assignee \in {None, ReviewerAgent[r]}}

(* Faults: ids are excluded for good; ids are forgotten at every poll. *)
StillExcludedForGood(r) == failedIds[r]

StillExcludedNever(r) == {}

(* An excluded issue that has left the pool counts as new when it returns. *)
StillExcluded(r) == failedIds[r] \cap ReviewPool(r)

(* _ensure_registered_distinct_worker: by the checkout if one is recorded,  *)
(* else by the agent's name.                                                *)
Distinct(r, issue) ==
    IF issue.worker # NoKey
    THEN ~ KeysMatch(issue.worker, ReviewerKey[r], FALSE)
    ELSE issue.implementer # ReviewerAgent[r]

(* Changed files in this checkout, or a handoff that is evidence by itself; *)
(* an agent's run log in the handoff shows the changes are elsewhere.       *)
Evident(e) == e.changed \/ (e.handoff /\ ~ e.runLog)

Evidence == [changed : BOOLEAN, handoff : BOOLEAN, runLog : BOOLEAN]

Todo(r) == ReviewPool(r) \ StillExcluded(r)

NextReview(r, i) == i \in Todo(r) /\ \A j \in Todo(r) : i <= j

ReviewIdle(r) ==
    /\ at[r] = "poll"
    /\ Todo(r) = {}
    /\ Loop(r, 0, StillExcluded(r))
    /\ UNCHANGED <<desk, round, givenUp>>

StartReview(r, i) ==
    /\ at[r] = "poll"
    /\ NextReview(r, i)
    /\ Distinct(r, desk[i])
    /\ at' = [at EXCEPT ![r] = "run"]
    /\ reading' = [reading EXCEPT ![r] = [issue |-> i, round |-> round[i]]]
    /\ failedIds' = [failedIds EXCEPT ![r] = StillExcluded(r)]
    /\ UNCHANGED <<desk, round, tries, givenUp>>

(* The checks before the run refuse: own work, or nothing here to review. *)
RefuseReview(r, i) ==
    /\ at[r] = "poll"
    /\ NextReview(r, i)
    /\ \/ ~ Distinct(r, desk[i])
       \/ \E e \in Evidence : ~ Evident(e)
    /\ PollFailed(r, StillExcluded(r) \cup {i})
    /\ UNCHANGED <<desk, round>>

(* The pool could not be read: no id to exclude. *)
ReviewPollError(r) ==
    /\ at[r] = "poll"
    /\ PollFailed(r, failedIds[r])
    /\ UNCHANGED <<desk, round>>

-----------------------------------------------------------------------------
(* The run and its verdict *)

Blocks == [verdict : {"approve", "request-changes", "other"},
           verification : BOOLEAN, notes : BOOLEAN]

(* A block without the text its verdict needs is discarded. *)
Parsed(block) ==
    \/ block.verdict = "approve" /\ block.verification
    \/ block.verdict = "request-changes" /\ block.notes

(* The agent timed out, failed, changed the repository or wrote no block. *)
ReviewRunFails(r) ==
    /\ at[r] = "run"
    /\ ReviewFailed(r, reading[r].issue)
    /\ UNCHANGED <<desk, round>>

RunDecides(r, block) ==
    /\ at[r] = "run"
    /\ Parsed(block)
    /\ at' = [at EXCEPT ![r] = block.verdict]
    /\ UNCHANGED <<desk, round, reading, failedIds, tries, givenUp>>

(* approve_issue reads the issue again and checks who is assigned. *)
ReadForApproval(r) ==
    LET i == reading[r].issue
    IN  /\ at[r] = "approve"
        /\ IF desk[i].assignee \in {None, ReviewerAgent[r]}
           THEN /\ at' = [at EXCEPT ![r] = "approving"]
                /\ UNCHANGED <<reading, failedIds, tries, givenUp>>
           ELSE ReviewFailed(r, i)
        /\ UNCHANGED <<desk, round>>

ApprovalServed(r) ==
    LET i == reading[r].issue
    IN  /\ at[r] = "approving"
        /\ ApproveAccepts(desk[i], ReviewerAgent[r], Bare(ReviewerKey[r]))
        /\ Tabled(i, Completed(desk[i]))
        /\ \/ Loop(r, 0, failedIds[r]) /\ UNCHANGED givenUp
           \/ ReviewFailed(r, i)   \* the answer is lost
        /\ UNCHANGED round

(* Fault: asking for changes reopens the issue. *)
ChangesServedReopens(r) ==
    LET i == reading[r].issue
    IN  /\ at[r] = "request-changes"
        /\ Tabled(i, [ChangesRequested(desk[i], None) EXCEPT !.status = "in_progress"])
        /\ Loop(r, 0, failedIds[r])
        /\ UNCHANGED <<round, givenUp>>

(* request_changes is sent without another look, and taken at any stage. *)
ChangesServed(r) ==
    LET i == reading[r].issue
    IN  /\ at[r] = "request-changes"
        /\ Tabled(i, ChangesRequested(desk[i], None))
        /\ \/ Loop(r, 0, failedIds[r]) /\ UNCHANGED givenUp
           \/ ReviewFailed(r, i)   \* the answer is lost
        /\ UNCHANGED round

(* Refused, or never arrived. *)
DecisionFails(r) ==
    /\ at[r] \in {"approving", "request-changes"}
    /\ ReviewFailed(r, reading[r].issue)
    /\ UNCHANGED <<desk, round>>

-----------------------------------------------------------------------------
ReviewStep(r) ==
    \/ ReviewIdle(r) \/ ReviewPollError(r)
    \/ \E i \in ReviewIssues : StartReview(r, i) \/ RefuseReview(r, i)
    \/ ReviewRunFails(r) \/ \E block \in Blocks : RunDecides(r, block)
    \/ ReadForApproval(r) \/ ApprovalServed(r) \/ ChangesServed(r) \/ DecisionFails(r)

ReviewNext ==
    \/ \E r \in Reviewers : ReviewStep(r) \/ StartReviewer(r) \/ StopReviewer(r)
    \/ \E i \in ReviewIssues :
          \/ PersonApproves(i) \/ PersonRequestsChanges(i)
          \/ \E b \in Builders, reviewer \in {None} \cup {ReviewerAgent[r] : r \in Reviewers} :
                Build(i, b, reviewer) \/ SubmitAgain(i, b, reviewer)

ReviewSpec == ReviewInit /\ [][ReviewNext]_reviewVars

-----------------------------------------------------------------------------
(* Properties *)

ReviewSteps ==
    {"down", "poll", "run", "approve", "approving", "request-changes"}

(* Each variable has its type, and a serve past its poll has a submission. *)
ReviewTypes ==
    /\ \A i \in ReviewIssues : desk[i].stage \in Stages /\ desk[i].status \in Statuses
    /\ round \in [ReviewIssues -> 0 .. MaxRounds]
    /\ at \in [Reviewers -> ReviewSteps]
    /\ \A r \in Reviewers :
          reading[r] \in IF at[r] \in {"down", "poll"} THEN {None}
                         ELSE [issue : ReviewIssues, round : 0 .. MaxRounds]
    /\ failedIds \in [Reviewers -> SUBSET ReviewIssues]
    /\ \A r \in Reviewers :
          tries[r] \in Nat /\ (tries[r] = 0 \/ tries[r] < MaxReviewFailures)

(* One process never spends a second agent run on a submission whose review *)
(* failed, although its exclusion list is keyed by issue and pruned at      *)
(* every poll, and a failed answer may stand for a verdict that arrived.    *)
NoSecondRunOnFailure ==
    \A r \in Reviewers :
        at[r] = "run" => <<reading[r].issue, reading[r].round>> \notin givenUp[r]

(* Whatever verdict or submission comes after an approval, the issue stays   *)
(* closed: the late call may rewrite stage and assignee, but no reviewer    *)
(* sees the issue in the pool again and no implementer may claim it.        *)
CompletedIsFinal ==
    [][\A i \in ReviewIssues : desk[i].status = "completed" =>
          /\ \A r \in Reviewers : i \notin ReviewPool(r)'
          /\ \A b \in Builders : ~ ClaimAccepts(desk'[i], b.agent, b.key, None, TRUE)
      ]_reviewVars

(* In the pool and not tried, or excluded although it has left the pool. *)
Neglected(r, i) ==
    /\ at[r] # "down"
    /\ IF i \in failedIds[r] THEN i \notin ReviewPool(r)
       ELSE i \in ReviewPool(r) /\ (reading[r] = None \/ reading[r].issue # i)

(* An issue in the pool gets its review from a serve that stays up, whatever *)
(* other issues do, and an issue whose review failed gets a new chance once  *)
(* it has left the pool for long enough.                                    *)
EveryReviewTried ==
    \A r \in Reviewers, i \in ReviewIssues : []<> ~ Neglected(r, i)
=============================================================================
