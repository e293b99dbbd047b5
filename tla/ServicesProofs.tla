-------------------------- MODULE ServicesProofs --------------------------
(*************************************************************************)
(* Proofs about the serves that review and that triage.                  *)
(*************************************************************************)
EXTENDS ServeReview, Triage, TLAPS

---------------------------------------------------------------------------
(*************************************************************************)
(* The review serves, for any issues, reviewers and implementers, and    *)
(* any number of submissions.                                            *)
(*************************************************************************)

Readings == [issue : ReviewIssues, round : Nat]

(* What was given up on is a submission made so far; while its issue is in    *)
(* the pool with that submission, the process excludes it.                  *)
GivenUpIsExcluded ==
    \A r \in Reviewers : \A i \in ReviewIssues :
        /\ \A n \in Nat : <<i, n>> \in givenUp[r] => n <= round[i]
        /\ <<i, round[i]>> \in givenUp[r] /\ i \in ReviewPool(r) => i \in failedIds[r]

(* An issue is stored with the fields create_issue gives it. *)
IssueTyped(issue) ==
    /\ DOMAIN issue = DOMAIN NewIssue(None, None, NoKey)
    /\ issue.stage \in Stages /\ issue.status \in Statuses

DeskTyped ==
    /\ desk = [i \in ReviewIssues |-> desk[i]]
    /\ \A i \in ReviewIssues : IssueTyped(desk[i])

ReviewIInv ==
    /\ DeskTyped
    /\ round \in [ReviewIssues -> Nat]
    /\ at \in [Reviewers -> ReviewSteps]
    /\ reading \in [Reviewers -> Readings \cup {None}]
    /\ failedIds \in [Reviewers -> SUBSET ReviewIssues]
    /\ givenUp \in [Reviewers -> SUBSET (ReviewIssues \X Nat)]
    /\ tries \in [Reviewers -> Nat]
    /\ \A r \in Reviewers : tries[r] = 0 \/ tries[r] < MaxReviewFailures
    /\ \A r \in Reviewers : at[r] \notin {"down", "poll"} => reading[r] \in Readings
    /\ \A r \in Reviewers : at[r] = "down" => failedIds[r] = {}
    /\ GivenUpIsExcluded
    /\ NoSecondRunOnFailure

(* The pool of a reviewer after the desk changed for one issue. *)
LEMMA PoolOf ==
    ASSUME NEW r \in Reviewers, NEW i \in ReviewIssues
    PROVE  i \in ReviewPool(r) <=>
              /\ desk[i].status # "completed" /\ desk[i].stage = "review"
              /\ desk[i].assignee \in {None, ReviewerAgent[r]}
BY DEF ReviewPool

(* A step at the desk that puts no issue into review. *)
LEMMA DeskSound ==
    ASSUME ReviewIInv, NEW i \in ReviewIssues, NEW issue,
           Tabled(i, issue), issue.stage # "review", IssueTyped(issue)
    PROVE  DeskTyped' /\ \A r \in Reviewers : ReviewPool(r)' \subseteq ReviewPool(r)
<1>1. DeskTyped'
    BY DEF ReviewIInv, DeskTyped, IssueTyped, Tabled
<1>2. \A r \in Reviewers : ReviewPool(r)' \subseteq ReviewPool(r)
    BY DEF ReviewIInv, DeskTyped, Tabled, ReviewPool
<1> QED
    BY <1>1, <1>2

LEMMA DecidedTyped ==
    ASSUME NEW issue, IssueTyped(issue), NEW assignee
    PROVE  /\ IssueTyped(Completed(issue)) /\ Completed(issue).stage = "done"
           /\ IssueTyped(ChangesRequested(issue, assignee))
           /\ ChangesRequested(issue, assignee).stage = "changes_requested"
           /\ Completed(issue).status = "completed"
           /\ ChangesRequested(issue, assignee).status = issue.status
BY DEF IssueTyped, Completed, ChangesRequested, NewIssue, Stages, Statuses, ReadyStages

LEMMA SubmittedTyped ==
    ASSUME NEW issue, IssueTyped(issue), NEW reviewer, NEW session
    PROVE  /\ IssueTyped(Submitted(issue, reviewer, session))
           /\ Submitted(issue, reviewer, session).status = issue.status
BY DEF IssueTyped, Submitted, NewIssue, Stages, Statuses

LEMMA ClaimedTyped ==
    ASSUME NEW issue, IssueTyped(issue), NEW a, NEW k, NEW session
    PROVE  IssueTyped(Claimed(issue, a, k, session))
BY DEF IssueTyped, Claimed, NewIssue, Stages, Statuses

(* A new submission is in nobody's list of what was given up on. *)
LEMMA SubmitSound ==
    ASSUME ReviewIInv, NEW i \in ReviewIssues, NEW b, NEW reviewer, NEW issue,
           SubmitFrom(i, b, reviewer, issue), IssueTyped(issue)
    PROVE  ReviewIInv'
<1>1. /\ desk' = [desk EXCEPT ![i] = Submitted(issue, reviewer, None)]
      /\ round' = [round EXCEPT ![i] = @ + 1]
      /\ UNCHANGED <<at, reading, failedIds, tries, givenUp>>
    BY DEF SubmitFrom, Tabled
<1>2. round' \in [ReviewIssues -> Nat] /\ round'[i] = round[i] + 1
    BY <1>1 DEF ReviewIInv
<1>3. \A j \in ReviewIssues \ {i} : round'[j] = round[j] /\ desk'[j] = desk[j]
    BY <1>1 DEF ReviewIInv, DeskTyped
<1>4. DeskTyped'
    BY <1>1, SubmittedTyped DEF ReviewIInv, DeskTyped
<1>5. ASSUME NEW r \in Reviewers, NEW j \in ReviewIssues
      PROVE  /\ \A n \in Nat : <<j, n>> \in givenUp'[r] => n <= round'[j]
             /\ <<j, round'[j]>> \in givenUp'[r] /\ j \in ReviewPool(r)' => j \in failedIds'[r]
    <2>1. CASE j = i
        <3>1. \A n \in Nat : <<i, n>> \in givenUp[r] => n <= round[i]
            BY DEF ReviewIInv, GivenUpIsExcluded
        <3>2. round[i] \in Nat
            BY DEF ReviewIInv
        <3>3. <<i, round[i] + 1>> \notin givenUp[r]
            BY <3>1, <3>2
        <3> QED
            BY <1>1, <1>2, <2>1, <3>1, <3>2, <3>3
    <2>2. CASE j # i
        BY <1>1, <1>3, <2>2 DEF ReviewIInv, GivenUpIsExcluded, ReviewPool
    <2> QED
        BY <2>1, <2>2
<1>6. GivenUpIsExcluded'
    BY <1>5 DEF GivenUpIsExcluded
<1> QED
    BY <1>1, <1>2, <1>4, <1>6 DEF ReviewIInv, NoSecondRunOnFailure

-----------------------------------------------------------------------------
(* What a process remembers when it is back at its loop or gone *)

LEMMA LeaveSound ==
    ASSUME ReviewIInv, NEW r \in Reviewers, Leave(r), UNCHANGED round, DeskTyped',
           \A x \in Reviewers : ReviewPool(x)' \subseteq ReviewPool(x)
    PROVE  ReviewIInv'
<1>1. /\ at' \in [Reviewers -> ReviewSteps] /\ round' \in [ReviewIssues -> Nat]
      /\ reading' \in [Reviewers -> Readings \cup {None}]
      /\ failedIds' \in [Reviewers -> SUBSET ReviewIssues]
      /\ tries' \in [Reviewers -> Nat]
      /\ givenUp' \in [Reviewers -> SUBSET (ReviewIssues \X Nat)]
    BY DEF Leave, ReviewIInv, ReviewSteps
<1>2. /\ at'[r] = "down" /\ tries'[r] = 0 /\ givenUp'[r] = {} /\ failedIds'[r] = {}
      /\ \A x \in Reviewers \ {r} :
            /\ at'[x] = at[x] /\ reading'[x] = reading[x] /\ failedIds'[x] = failedIds[x]
            /\ tries'[x] = tries[x] /\ givenUp'[x] = givenUp[x]
    BY DEF Leave, ReviewIInv
<1>3. GivenUpIsExcluded'
    BY <1>2 DEF ReviewIInv, GivenUpIsExcluded
<1>4. NoSecondRunOnFailure'
    BY <1>2 DEF ReviewIInv, NoSecondRunOnFailure
<1>5. \A x \in Reviewers : tries'[x] = 0 \/ tries'[x] < MaxReviewFailures
    BY <1>2 DEF ReviewIInv
<1>6. \A x \in Reviewers : at'[x] \notin {"down", "poll"} => reading'[x] \in Readings
    BY <1>2 DEF ReviewIInv
<1>7. \A x \in Reviewers : at'[x] = "down" => failedIds'[x] = {}
    BY <1>2 DEF ReviewIInv
<1> QED
    BY <1>1, <1>3, <1>4, <1>5, <1>6, <1>7 DEF ReviewIInv

(* The exclusions go on as long as the issue stays in the pool; what is added *)
(* to what was given up on is excluded from now on.                         *)
LEMMA LoopSound ==
    ASSUME ReviewIInv, NEW r \in Reviewers, NEW count \in Nat,
           count = 0 \/ count < MaxReviewFailures,
           NEW excluded \in SUBSET ReviewIssues, Loop(r, count, excluded),
           \A i \in ReviewIssues : i \in failedIds[r] /\ i \in ReviewPool(r) => i \in excluded,
           \/ UNCHANGED givenUp
           \/ givenUp' = [givenUp EXCEPT ![r] =
                             @ \cup {<<i, round[i]>> : i \in excluded \ failedIds[r]}],
           UNCHANGED round, DeskTyped',
           \A x \in Reviewers : ReviewPool(x)' \subseteq ReviewPool(x)
    PROVE  ReviewIInv'
<1> DEFINE added == {<<i, round[i]>> : i \in excluded \ failedIds[r]}
<1>1. /\ at' \in [Reviewers -> ReviewSteps] /\ round' \in [ReviewIssues -> Nat]
      /\ reading' \in [Reviewers -> Readings \cup {None}]
      /\ failedIds' \in [Reviewers -> SUBSET ReviewIssues]
      /\ tries' \in [Reviewers -> Nat]
    BY DEF Loop, ReviewIInv, ReviewSteps
<1>2. added \in SUBSET (ReviewIssues \X Nat)
    BY DEF ReviewIInv
<1>3. /\ givenUp' \in [Reviewers -> SUBSET (ReviewIssues \X Nat)]
      /\ givenUp'[r] \subseteq givenUp[r] \cup added
      /\ \A x \in Reviewers \ {r} : givenUp'[x] = givenUp[x]
    BY <1>2 DEF ReviewIInv
<1>4. /\ at'[r] = "poll" /\ tries'[r] = count /\ failedIds'[r] = excluded
      /\ \A x \in Reviewers \ {r} :
            /\ at'[x] = at[x] /\ reading'[x] = reading[x] /\ failedIds'[x] = failedIds[x]
            /\ tries'[x] = tries[x]
    BY DEF Loop, ReviewIInv
<1>5. ASSUME NEW x \in Reviewers, NEW i \in ReviewIssues
      PROVE  /\ \A n \in Nat : <<i, n>> \in givenUp'[x] => n <= round'[i]
             /\ <<i, round'[i]>> \in givenUp'[x] /\ i \in ReviewPool(x)' => i \in failedIds'[x]
    <2>1. CASE x = r
        <3>1. ASSUME NEW n \in Nat, <<i, n>> \in givenUp[r] \cup added
              PROVE  n <= round[i]
            <4>1. round[i] \in Nat
                BY DEF ReviewIInv
            <4>2. CASE <<i, n>> \in givenUp[r]
                BY <4>2 DEF ReviewIInv, GivenUpIsExcluded
            <4>3. CASE <<i, n>> \in added
                <5>1. PICK j \in excluded \ failedIds[r] : <<i, n>> = <<j, round[j]>>
                    BY <4>3
                <5>2. n = round[i]
                    BY <5>1
                <5> QED
                    BY <4>1, <5>2
            <4> QED
                BY <3>1, <4>2, <4>3
        <3>2. <<i, round[i]>> \in added => i \in excluded
            OBVIOUS
        <3>3. <<i, round[i]>> \in givenUp[r] /\ i \in ReviewPool(r) => i \in excluded
            BY DEF ReviewIInv, GivenUpIsExcluded
        <3> QED
            BY <1>3, <1>4, <2>1, <3>1, <3>2, <3>3
    <2>2. CASE x # r
        BY <1>3, <1>4, <2>2 DEF ReviewIInv, GivenUpIsExcluded
    <2> QED
        BY <2>1, <2>2
<1>6. GivenUpIsExcluded'
    BY <1>5 DEF GivenUpIsExcluded
<1>7. NoSecondRunOnFailure'
    BY <1>3, <1>4 DEF ReviewIInv, NoSecondRunOnFailure
<1>8. \A x \in Reviewers : tries'[x] = 0 \/ tries'[x] < MaxReviewFailures
    BY <1>4 DEF ReviewIInv
<1>9. \A x \in Reviewers : at'[x] \notin {"down", "poll"} => reading'[x] \in Readings
    BY <1>4 DEF ReviewIInv
<1>10. \A x \in Reviewers : at'[x] = "down" => failedIds'[x] = {}
    BY <1>4 DEF ReviewIInv
<1> QED
    BY <1>1, <1>3, <1>6, <1>7, <1>8, <1>9, <1>10 DEF ReviewIInv

LEMMA PollFailedSound ==
    ASSUME ReviewIInv, NEW r \in Reviewers, NEW excluded \in SUBSET ReviewIssues,
           PollFailed(r, excluded),
           \A i \in ReviewIssues : i \in failedIds[r] /\ i \in ReviewPool(r) => i \in excluded,
           UNCHANGED round, DeskTyped',
           \A x \in Reviewers : ReviewPool(x)' \subseteq ReviewPool(x)
    PROVE  ReviewIInv'
<1> DEFINE count == IF MaxReviewFailures = 0 THEN 0 ELSE tries[r] + 1
<1>1. CASE Leave(r)
    BY <1>1, LeaveSound
<1>2. CASE ~ (MaxReviewFailures > 0 /\ tries[r] + 1 >= MaxReviewFailures)
    <2>1. count \in Nat /\ (count = 0 \/ count < MaxReviewFailures)
        BY <1>2, ReviewAssumption DEF ReviewIInv, ReviewAssumption
    <2>2. /\ Loop(r, count, excluded)
          /\ givenUp' = [givenUp EXCEPT ![r] =
                            @ \cup {<<i, round[i]>> : i \in excluded \ failedIds[r]}]
        BY <1>2 DEF PollFailed
    <2> HIDE DEF count
    <2> QED
        BY <2>1, <2>2, LoopSound
<1> QED
    BY <1>1, <1>2 DEF PollFailed

LEMMA PoolsOnlyShrink ==
    ASSUME ReviewIInv, UNCHANGED desk
    PROVE  DeskTyped' /\ \A x \in Reviewers : ReviewPool(x)' \subseteq ReviewPool(x)
BY DEF ReviewIInv, DeskTyped, ReviewPool

-----------------------------------------------------------------------------
(* The steps *)

LEMMA PeopleSound ==
    ASSUME ReviewIInv, NEW i \in ReviewIssues,
           \/ PersonApproves(i) \/ PersonRequestsChanges(i)
           \/ \E b \in Builders, reviewer \in {None} \cup {ReviewerAgent[r] : r \in Reviewers} :
                 Build(i, b, reviewer) \/ SubmitAgain(i, b, reviewer)
    PROVE  ReviewIInv'
<1>1. IssueTyped(desk[i])
    BY DEF ReviewIInv, DeskTyped
<1>2. CASE PersonApproves(i) \/ PersonRequestsChanges(i)
    <2>1. /\ UNCHANGED <<round, at, reading, failedIds, tries, givenUp>>
          /\ \E issue : Tabled(i, issue) /\ issue.stage # "review" /\ IssueTyped(issue)
        BY <1>1, <1>2, DecidedTyped DEF PersonApproves, PersonRequestsChanges
    <2>2. DeskTyped' /\ \A r \in Reviewers : ReviewPool(r)' \subseteq ReviewPool(r)
        BY <2>1, DeskSound
    <2>3. GivenUpIsExcluded'
        BY <2>1, <2>2 DEF ReviewIInv, GivenUpIsExcluded
    <2> QED
        BY <2>1, <2>2, <2>3 DEF ReviewIInv, NoSecondRunOnFailure
<1>3. ASSUME NEW b \in Builders, NEW reviewer, Build(i, b, reviewer) \/ SubmitAgain(i, b, reviewer)
      PROVE  ReviewIInv'
    BY <1>1, <1>3, ClaimedTyped, SubmitSound DEF Build, SubmitAgain
<1> QED
    BY <1>2, <1>3

LEMMA PollSound ==
    ASSUME ReviewIInv, NEW r \in Reviewers,
           \/ StartReviewer(r) \/ StopReviewer(r) \/ ReviewIdle(r) \/ ReviewPollError(r)
           \/ \E i \in ReviewIssues : RefuseReview(r, i)
    PROVE  ReviewIInv'
<1>1. /\ UNCHANGED <<desk, round>> /\ DeskTyped'
      /\ \A x \in Reviewers : ReviewPool(x)' \subseteq ReviewPool(x)
    BY PoolsOnlyShrink DEF StartReviewer, StopReviewer, ReviewIdle, ReviewPollError, RefuseReview
<1>2. CASE StopReviewer(r)
    BY <1>1, <1>2, LeaveSound DEF StopReviewer
<1>3. CASE StartReviewer(r)
    <2>1. failedIds[r] = {}
        BY <1>3 DEF StartReviewer, ReviewIInv
    <2> QED
        BY <1>1, <1>3, <2>1, LoopSound DEF StartReviewer
<1>4. CASE ReviewIdle(r)
    <2>1. StillExcluded(r) \in SUBSET ReviewIssues
        BY DEF StillExcluded, ReviewPool
    <2>2. \A i \in ReviewIssues :
             i \in failedIds[r] /\ i \in ReviewPool(r) => i \in StillExcluded(r)
        BY DEF StillExcluded
    <2> QED
        BY <1>1, <1>4, <2>1, <2>2, LoopSound DEF ReviewIdle
<1>5. CASE ReviewPollError(r)
    <2>1. failedIds[r] \in SUBSET ReviewIssues
        BY DEF ReviewIInv
    <2> QED
        BY <1>1, <1>5, <2>1, PollFailedSound DEF ReviewPollError
<1>6. ASSUME NEW i \in ReviewIssues, RefuseReview(r, i)
      PROVE  ReviewIInv'
    <2>1. StillExcluded(r) \cup {i} \in SUBSET ReviewIssues
        BY DEF StillExcluded, ReviewPool
    <2>2. \A j \in ReviewIssues :
             j \in failedIds[r] /\ j \in ReviewPool(r) => j \in StillExcluded(r) \cup {i}
        BY DEF StillExcluded
    <2> QED
        BY <1>1, <1>6, <2>1, <2>2, PollFailedSound DEF RefuseReview
<1> QED
    BY <1>2, <1>3, <1>4, <1>5, <1>6

(* The first issue of the pool that is not excluded was not given up on. *)
LEMMA StartSound ==
    ASSUME ReviewIInv, NEW r \in Reviewers, NEW i \in ReviewIssues, StartReview(r, i)
    PROVE  ReviewIInv'
<1>1. /\ UNCHANGED <<desk, round>> /\ DeskTyped'
      /\ \A x \in Reviewers : ReviewPool(x)' \subseteq ReviewPool(x)
    BY PoolsOnlyShrink DEF StartReview
<1>2. i \in ReviewPool(r) /\ i \notin failedIds[r]
    BY DEF StartReview, NextReview, Todo, StillExcluded
<1>3. /\ at' = [at EXCEPT ![r] = "run"] /\ tries' = tries /\ givenUp' = givenUp
      /\ reading' = [reading EXCEPT ![r] = [issue |-> i, round |-> round[i]]]
      /\ failedIds' = [failedIds EXCEPT ![r] = failedIds[r] \cap ReviewPool(r)]
    BY DEF StartReview, StillExcluded
<1>4. /\ at' \in [Reviewers -> ReviewSteps]
      /\ reading' \in [Reviewers -> Readings \cup {None}]
      /\ failedIds' \in [Reviewers -> SUBSET ReviewIssues]
      /\ [issue |-> i, round |-> round[i]] \in Readings
    BY <1>3 DEF ReviewIInv, ReviewSteps, Readings
<1>5. <<i, round[i]>> \notin givenUp[r]
    BY <1>2 DEF ReviewIInv, GivenUpIsExcluded
<1>6. NoSecondRunOnFailure'
    BY <1>3, <1>5 DEF ReviewIInv, NoSecondRunOnFailure
<1>7. GivenUpIsExcluded'
    BY <1>1, <1>3 DEF ReviewIInv, GivenUpIsExcluded
<1>8. \A x \in Reviewers : /\ at'[x] \notin {"down", "poll"} => reading'[x] \in Readings
                           /\ at'[x] = "down" => failedIds'[x] = {}
    BY <1>3, <1>4 DEF ReviewIInv
<1> QED
    BY <1>1, <1>3, <1>4, <1>6, <1>7, <1>8 DEF ReviewIInv

(* A process that has read an issue moves on to its verdict. *)
LEMMA MovesOnSound ==
    ASSUME ReviewIInv, NEW r \in Reviewers, at[r] \notin {"down", "poll"},
           NEW verdict \in {"approve", "request-changes", "approving"},
           at' = [at EXCEPT ![r] = verdict],
           UNCHANGED <<desk, round, reading, failedIds, tries, givenUp>>
    PROVE  ReviewIInv'
<1>1. at' \in [Reviewers -> ReviewSteps]
    BY DEF ReviewIInv, ReviewSteps
<1>2. GivenUpIsExcluded' /\ DeskTyped'
    BY DEF ReviewIInv, GivenUpIsExcluded, DeskTyped, ReviewPool
<1>3. NoSecondRunOnFailure'
    BY DEF ReviewIInv, NoSecondRunOnFailure
<1>4. \A x \in Reviewers : /\ at'[x] \notin {"down", "poll"} => reading'[x] \in Readings
                           /\ at'[x] = "down" => failedIds'[x] = {}
    BY DEF ReviewIInv
<1> QED
    BY <1>1, <1>2, <1>3, <1>4 DEF ReviewIInv

LEMMA VerdictSound ==
    ASSUME ReviewIInv, NEW r \in Reviewers,
           \/ ReviewRunFails(r) \/ \E block \in Blocks : RunDecides(r, block)
           \/ ReadForApproval(r) \/ ApprovalServed(r) \/ ChangesServed(r) \/ DecisionFails(r)
    PROVE  ReviewIInv'
<1> DEFINE i == reading[r].issue
<1>1. at[r] \notin {"down", "poll"} /\ i \in ReviewIssues
    BY DEF ReviewRunFails, RunDecides, ReadForApproval, ApprovalServed, ChangesServed,
           DecisionFails, ReviewIInv, Readings
<1>2. ASSUME ReviewFailed(r, i), UNCHANGED round, DeskTyped',
             \A x \in Reviewers : ReviewPool(x)' \subseteq ReviewPool(x)
      PROVE  ReviewIInv'
    <2>1. failedIds[r] \cup {i} \in SUBSET ReviewIssues
        BY <1>1 DEF ReviewIInv
    <2> QED
        BY <1>2, <2>1, PollFailedSound DEF ReviewFailed
<1>3. ASSUME Loop(r, 0, failedIds[r]), UNCHANGED <<round, givenUp>>, DeskTyped',
             \A x \in Reviewers : ReviewPool(x)' \subseteq ReviewPool(x)
      PROVE  ReviewIInv'
    <2>1. failedIds[r] \in SUBSET ReviewIssues
        BY DEF ReviewIInv
    <2> QED
        BY <1>3, <2>1, LoopSound
<1>4. CASE ReviewRunFails(r) \/ DecisionFails(r)
    BY <1>2, <1>4, PoolsOnlyShrink DEF ReviewRunFails, DecisionFails
<1>5. ASSUME NEW block \in Blocks, RunDecides(r, block)
      PROVE  ReviewIInv'
    <2>1. block.verdict \in {"approve", "request-changes", "approving"}
        BY <1>5 DEF RunDecides, Parsed
    <2> QED
        BY <1>1, <1>5, <2>1, MovesOnSound DEF RunDecides
<1>6. CASE ReadForApproval(r)
    <2>1. CASE desk[i].assignee \in {None, ReviewerAgent[r]}
        BY <1>1, <1>6, <2>1, MovesOnSound DEF ReadForApproval
    <2>2. CASE desk[i].assignee \notin {None, ReviewerAgent[r]}
        BY <1>2, <1>6, <2>2, PoolsOnlyShrink DEF ReadForApproval
    <2> QED
        BY <2>1, <2>2
<1>7. CASE ApprovalServed(r) \/ ChangesServed(r)
    <2>1. IssueTyped(desk[i])
        BY <1>1 DEF ReviewIInv, DeskTyped
    <2>2. \/ Tabled(i, Completed(desk[i]))
          \/ Tabled(i, ChangesRequested(desk[i], None))
        BY <1>7 DEF ApprovalServed, ChangesServed
    <2>3. DeskTyped' /\ \A x \in Reviewers : ReviewPool(x)' \subseteq ReviewPool(x)
        BY <1>1, <2>1, <2>2, DecidedTyped, DeskSound
    <2> QED
        BY <1>2, <1>3, <1>7, <2>3 DEF ApprovalServed, ChangesServed
<1> QED
    BY <1>4, <1>5, <1>6, <1>7

LEMMA ReviewInvariant == ReviewSpec => []ReviewIInv
<1>1. ReviewInit => ReviewIInv
    <2> SUFFICES ASSUME ReviewInit PROVE ReviewIInv
        OBVIOUS
    <2>1. IssueTyped(NewIssue(None, None, NoKey))
        BY DEF IssueTyped, NewIssue, Stages, Statuses, ReadyStages
    <2>2. DeskTyped
        BY <2>1 DEF ReviewInit, DeskTyped
    <2>3. GivenUpIsExcluded /\ NoSecondRunOnFailure
        BY DEF ReviewInit, GivenUpIsExcluded, NoSecondRunOnFailure
    <2> QED
        BY <2>2, <2>3 DEF ReviewInit, ReviewIInv, ReviewSteps
<1>2. ReviewIInv /\ [ReviewNext]_reviewVars => ReviewIInv'
    <2>1. ASSUME ReviewIInv, UNCHANGED reviewVars
          PROVE  ReviewIInv'
        BY <2>1 DEF reviewVars, ReviewIInv, DeskTyped, GivenUpIsExcluded,
                    NoSecondRunOnFailure, ReviewPool
    <2>2. ASSUME ReviewIInv, NEW r \in Reviewers,
                 ReviewStep(r) \/ StartReviewer(r) \/ StopReviewer(r)
          PROVE  ReviewIInv'
        BY <2>2, PollSound, StartSound, VerdictSound DEF ReviewStep
    <2>3. ASSUME ReviewIInv, NEW i \in ReviewIssues,
                 \/ PersonApproves(i) \/ PersonRequestsChanges(i)
                 \/ \E b \in Builders, reviewer \in {None} \cup {ReviewerAgent[r] : r \in Reviewers} :
                       Build(i, b, reviewer) \/ SubmitAgain(i, b, reviewer)
          PROVE  ReviewIInv'
        BY <2>3, PeopleSound
    <2> QED
        BY <2>1, <2>2, <2>3 DEF ReviewNext
<1> QED
    BY <1>1, <1>2, PTL DEF ReviewSpec

(* However many submissions, verdicts and lost answers come between, one      *)
(* process never launches a second agent for a submission whose review it   *)
(* has seen fail.                                                           *)
THEOREM FailedReviewNotRepeated == ReviewSpec => []NoSecondRunOnFailure
<1>1. ReviewIInv => NoSecondRunOnFailure
    BY DEF ReviewIInv
<1> QED
    BY <1>1, ReviewInvariant, PTL

-----------------------------------------------------------------------------
(* Completed issues *)

(* Every step writes at most one issue, and leaves a completed one completed: *)
(* an implementer cannot claim it, the others never touch the status.       *)
LEMMA CompletedStays ==
    ASSUME ReviewIInv, ReviewNext, NEW i \in ReviewIssues, desk[i].status = "completed"
    PROVE  desk'[i].status = "completed"
<1>1. ASSUME NEW j \in ReviewIssues, NEW issue, Tabled(j, issue),
             issue.status = "completed" \/ issue.status = desk[j].status
      PROVE  desk'[i].status = "completed"
    BY <1>1 DEF Tabled, ReviewIInv, DeskTyped
<1>2. ASSUME NEW j \in ReviewIssues
      PROVE  /\ IssueTyped(desk[j])
             /\ Completed(desk[j]).status = "completed"
             /\ ChangesRequested(desk[j], None).status = desk[j].status
    BY DecidedTyped DEF ReviewIInv, DeskTyped
<1>3. ASSUME NEW j \in ReviewIssues, PersonApproves(j) \/ PersonRequestsChanges(j)
      PROVE  desk'[i].status = "completed"
    BY <1>1, <1>2, <1>3 DEF PersonApproves, PersonRequestsChanges
<1>4. ASSUME NEW j \in ReviewIssues, NEW b, NEW reviewer, SubmitAgain(j, b, reviewer)
      PROVE  desk'[i].status = "completed"
    BY <1>1, <1>2, <1>4, SubmittedTyped DEF SubmitAgain, SubmitFrom
<1>5. ASSUME NEW j \in ReviewIssues, NEW b, NEW reviewer, Build(j, b, reviewer)
      PROVE  desk'[i].status = "completed"
    <2>1. j # i
        BY <1>5 DEF Build, ClaimAccepts
    <2> QED
        BY <1>5, <2>1 DEF Build, SubmitFrom, Tabled, ReviewIInv, DeskTyped
<1>6. ASSUME NEW r \in Reviewers, ApprovalServed(r) \/ ChangesServed(r)
      PROVE  desk'[i].status = "completed"
    <2>1. reading[r].issue \in ReviewIssues
        BY <1>6 DEF ApprovalServed, ChangesServed, ReviewIInv, Readings
    <2> QED
        BY <1>1, <1>2, <1>6, <2>1 DEF ApprovalServed, ChangesServed
<1>7. ASSUME NEW r \in Reviewers,
             ReviewStep(r) \/ StartReviewer(r) \/ StopReviewer(r),
             ~ (ApprovalServed(r) \/ ChangesServed(r))
      PROVE  UNCHANGED desk
    BY <1>7 DEF ReviewStep, StartReviewer, StopReviewer, ReviewIdle, ReviewPollError,
                StartReview, RefuseReview, ReviewRunFails, RunDecides, ReadForApproval,
                DecisionFails
<1> QED
    BY <1>3, <1>4, <1>5, <1>6, <1>7 DEF ReviewNext

(* A verdict or a submission that comes after the approval never brings the   *)
(* issue back, to a reviewer or to an implementer.                          *)
THEOREM ApprovalIsFinal == ReviewSpec => CompletedIsFinal
<1>1. ReviewIInv /\ [ReviewNext]_reviewVars =>
         [\A i \in ReviewIssues : desk[i].status = "completed" =>
            /\ \A r \in Reviewers : i \notin ReviewPool(r)'
            /\ \A b \in Builders : ~ ClaimAccepts(desk'[i], b.agent, b.key, None, TRUE)
         ]_reviewVars
    <2> SUFFICES ASSUME ReviewIInv, ReviewNext,
                        NEW i \in ReviewIssues, desk[i].status = "completed"
                 PROVE  /\ \A r \in Reviewers : i \notin ReviewPool(r)'
                        /\ \A b \in Builders :
                              ~ ClaimAccepts(desk'[i], b.agent, b.key, None, TRUE)
        OBVIOUS
    <2>1. desk'[i].status = "completed"
        BY CompletedStays
    <2> QED
        BY <2>1 DEF ReviewPool, ClaimAccepts
<1> QED
    BY <1>1, ReviewInvariant, PTL DEF ReviewSpec, CompletedIsFinal

---------------------------------------------------------------------------
(*************************************************************************)
(* Triage and automatic adoption, for any serves, proposals and limits.  *)
(*************************************************************************)

AdoptedType ==
    [status : Statuses, stage : Stages, assignee : {None, "other", "serve"},
     implementer : {None, "other", "serve"}, worker : {NoKey}, target : {NoKey},
     author : {None}, authorSession : {None}, implementerSession : {None},
     blocked : BOOLEAN, rank : Int]

Places ==
    {"down", "retry", "list", "next", "claim", "work", "save", "judge", "adopt", "append",
     "hold", "tidy", "reply", "alsoReply", "discard"}

AdoptedMail == {p \in Incoming : mail[p] = "adopted"}

Made == {p \in Incoming : adoptedAs[p] \in AdoptedType}

TrackerTyped ==
    /\ mail \in [Incoming -> {"unsent", "pending", "adopted", "discarded"}]
    /\ adoptedAs \in [Incoming -> AdoptedType \cup {None}]
    /\ AdoptedMail \subseteq Made

MindTyped ==
    /\ serving \subseteq Triagers
    /\ step \in [Triagers -> Places]
    /\ on \in [Triagers -> Incoming \cup {None}]
    /\ pendingHolds \in [Triagers -> SUBSET Incoming]
    /\ holdFailed \in [Triagers -> BOOLEAN]
    /\ sought \in [Triagers -> SUBSET Incoming]

(* An issue that only a person brings back to the pool. *)
OutOfPool(p) == p \in freed \/ adoptedAs[p].stage \in {"planned", "review"}

(* What a serve asked to hold is out of the pool, or the serve owes its      *)
(* hold; it owes one past its retries only if a hold failed in this cycle.   *)
MindOK(s) ==
    /\ pendingHolds[s] \cup sought[s] \subseteq AdoptedMail
    /\ At(s, "down") => pendingHolds[s] = {} /\ sought[s] = {}
    /\ At(s, "retry") \/ At(s, "claim") => s \in serving
    /\ ~ At(s, "down") /\ ~ At(s, "retry") /\ pendingHolds[s] # {} => holdFailed[s] = TRUE
    /\ At(s, "claim") => pendingHolds[s] = {}
    /\ At(s, "work") => on[s] \in Made
    /\ step[s] \in {"append", "hold", "tidy"} => on[s] \in AdoptedMail
    /\ step[s] \in {"judge", "adopt", "discard"} => on[s] \in Incoming
    /\ s \in serving => \A p \in sought[s] \ pendingHolds[s] : OutOfPool(p)

TriageIInv == TrackerTyped /\ MindTyped /\ \A s \in Triagers : MindOK(s)

(* What the tracker may do to the issues of others. *)
TrackerGoes ==
    /\ TrackerTyped' /\ AdoptedMail \subseteq AdoptedMail' /\ Made \subseteq Made'
    /\ \A p \in AdoptedMail : OutOfPool(p) => OutOfPool(p)'

(* The processes but one do nothing. *)
OthersWait(s) ==
    \A t \in Triagers \ {s} :
        /\ step'[t] = step[t] /\ on'[t] = on[t] /\ pendingHolds'[t] = pendingHolds[t]
        /\ holdFailed'[t] = holdFailed[t] /\ sought'[t] = sought[t]
        /\ t \in serving' <=> t \in serving

LEMMA TriagerWaits ==
    ASSUME TriageIInv, TrackerGoes, NEW t \in Triagers,
           step'[t] = step[t], on'[t] = on[t], pendingHolds'[t] = pendingHolds[t],
           holdFailed'[t] = holdFailed[t], sought'[t] = sought[t], t \in serving' <=> t \in serving
    PROVE  MindOK(t)'
BY DEF TriageIInv, TrackerGoes, MindOK, At

LEMMA OneTriager ==
    ASSUME TriageIInv, TrackerGoes, NEW s \in Triagers, OthersWait(s), MindTyped', MindOK(s)'
    PROVE  TriageIInv'
BY TriagerWaits DEF OthersWait, TriageIInv, TrackerGoes

LEMMA TrackerSame ==
    ASSUME TriageIInv, mail' = mail, adoptedAs' = adoptedAs, freed' = freed
    PROVE  TrackerGoes /\ AdoptedMail' = AdoptedMail /\ Made' = Made
BY DEF TriageIInv, TrackerTyped, TrackerGoes, AdoptedMail, Made, OutOfPool

(* A proposal that is not adopted changes its status. *)
LEMMA MailMoves ==
    ASSUME TriageIInv, NEW p \in Incoming, mail[p] # "adopted",
           NEW status \in {"unsent", "pending", "discarded"},
           mail' = [mail EXCEPT ![p] = status], adoptedAs' = adoptedAs, freed' = freed
    PROVE  TrackerGoes /\ AdoptedMail' = AdoptedMail /\ Made' = Made
BY DEF TriageIInv, TrackerTyped, TrackerGoes, AdoptedMail, Made, OutOfPool

(* An issue changes: it enters the pool only when it was not out of it, or     *)
(* when a person frees it.                                                  *)
LEMMA IssueMoves ==
    ASSUME TriageIInv, NEW p \in Incoming, NEW issue \in AdoptedType, Stage(p, issue), mail' = mail,
           \/ freed' = freed /\ issue.stage \in {"planned", "review"}
           \/ freed' = freed /\ adoptedAs[p].stage \notin {"planned", "review"}
           \/ freed' = freed \cup {p}
    PROVE  TrackerGoes /\ AdoptedMail' = AdoptedMail /\ Made \subseteq Made' /\ p \in Made'
           /\ (issue.stage \in {"planned", "review"} => OutOfPool(p)')
<1>1. /\ adoptedAs \in [Incoming -> AdoptedType \cup {None}]
      /\ mail \in [Incoming -> {"unsent", "pending", "adopted", "discarded"}]
      /\ adoptedAs' = [adoptedAs EXCEPT ![p] = issue]
    BY DEF TriageIInv, TrackerTyped, Stage
<1>2. adoptedAs' \in [Incoming -> AdoptedType \cup {None}] /\ adoptedAs'[p] = issue
      /\ \A q \in Incoming \ {p} : adoptedAs'[q] = adoptedAs[q]
    BY <1>1
<1>3. AdoptedMail' = AdoptedMail /\ Made \subseteq Made' /\ p \in Made'
    BY <1>2 DEF AdoptedMail, Made
<1>4. TrackerTyped'
    BY <1>1, <1>2, <1>3 DEF TriageIInv, TrackerTyped
<1>5. \A q \in AdoptedMail : OutOfPool(q) => OutOfPool(q)'
    BY <1>2 DEF AdoptedMail, OutOfPool
<1> QED
    BY <1>2, <1>3, <1>4, <1>5 DEF TrackerGoes, OutOfPool

LEMMA IssueFacts ==
    ASSUME NEW issue \in AdoptedType
    PROVE  /\ \A stage \in Stages : Planned(issue, stage) \in AdoptedType /\ Planned(issue, stage).stage = stage
           /\ \A agent \in {"other", "serve"} :
                 /\ Claimed(issue, agent, NoKey, None) \in AdoptedType
                 /\ Claimed(issue, agent, NoKey, None).stage = "implementing"
           /\ Reclaimed(issue) \in AdoptedType
           /\ Submitted(issue, None, None) \in AdoptedType /\ Submitted(issue, None, None).stage = "review"
<1>1. /\ "planned" \in Stages /\ "todo" \in Stages /\ "implementing" \in Stages /\ "review" \in Stages
      /\ "active" \in Statuses /\ "in_progress" \in Statuses
    BY DEF Stages, ReadyStages, Statuses
<1>2. ASSUME NEW stage \in Stages
      PROVE  Planned(issue, stage) \in AdoptedType /\ Planned(issue, stage).stage = stage
    BY DEF AdoptedType, Planned
<1>3. ASSUME NEW agent \in {"other", "serve"}
      PROVE  /\ Claimed(issue, agent, NoKey, None) \in AdoptedType
             /\ Claimed(issue, agent, NoKey, None).stage = "implementing"
    BY <1>1 DEF AdoptedType, Claimed
<1>4. Reclaimed(issue) \in AdoptedType
    BY <1>1 DEF AdoptedType, Reclaimed
<1>5. Submitted(issue, None, None) \in AdoptedType /\ Submitted(issue, None, None).stage = "review"
    BY <1>1 DEF AdoptedType, Submitted
<1> QED
    BY <1>2, <1>3, <1>4, <1>5

LEMMA FreshIssue == NewIssue(None, None, NoKey) \in AdoptedType
BY DEF NewIssue, AdoptedType, Stages, ReadyStages, Statuses

(* The tracker's part of a hold. *)
LEMMA HoldGoes ==
    ASSUME TriageIInv, NEW p \in AdoptedMail, HoldIsServed(p)
    PROVE  TrackerGoes /\ AdoptedMail' = AdoptedMail /\ Made \subseteq Made' /\ OutOfPool(p)'
<1>1. p \in Incoming /\ adoptedAs[p] \in AdoptedType
    BY DEF AdoptedMail, Made, TriageIInv, TrackerTyped
<1>2. /\ Stage(p, Planned(adoptedAs[p], "planned")) /\ mail' = mail /\ freed' = freed
      /\ Planned(adoptedAs[p], "planned") \in AdoptedType
      /\ Planned(adoptedAs[p], "planned").stage = "planned"
    BY <1>1, IssueFacts DEF HoldIsServed, Stages
<1> QED
    BY <1>1, <1>2, IssueMoves

-----------------------------------------------------------------------------
(* The world *)

LEMMA EverybodyWaits ==
    ASSUME TriageIInv, TrackerGoes,
           UNCHANGED <<serving, step, on, pendingHolds, holdFailed, sought>>
    PROVE  TriageIInv'
<1>1. MindTyped'
    BY DEF TriageIInv, MindTyped
<1> QED
    BY <1>1, TriagerWaits DEF TriageIInv, TrackerGoes

LEMMA WorldStep ==
    ASSUME TriageIInv, NEW p \in Incoming,
           \/ ProposalArrives(p) \/ PersonDiscards(p) \/ PersonReleases(p)
           \/ OtherClaims(p) \/ OtherReleases(p) \/ OriginDecidesReply(p)
    PROVE  TriageIInv'
<1>1. UNCHANGED <<serving, step, on, pendingHolds, holdFailed, sought>>
    BY DEF ProposalArrives, PersonDiscards, PersonReleases, OtherClaims, OtherReleases,
           OriginDecidesReply, Around, triageMind
<1>2. CASE ProposalArrives(p) \/ PersonDiscards(p)
    BY <1>1, <1>2, MailMoves, EverybodyWaits DEF ProposalArrives, PersonDiscards
<1>3. adoptedAs[p] # None => adoptedAs[p] \in AdoptedType
    BY DEF TriageIInv, TrackerTyped
<1>4. CASE PersonReleases(p)
    <2>1. /\ Stage(p, Planned(adoptedAs[p], "todo")) /\ mail' = mail /\ freed' = freed \cup {p}
          /\ Planned(adoptedAs[p], "todo") \in AdoptedType
        BY <1>3, <1>4, IssueFacts DEF PersonReleases, InPool, Stages, ReadyStages
    <2> QED
        BY <1>1, <2>1, IssueMoves, EverybodyWaits
<1>5. CASE OtherClaims(p)
    <2>1. /\ Stage(p, Claimed(adoptedAs[p], "other", NoKey, None)) /\ mail' = mail /\ freed' = freed
          /\ Claimed(adoptedAs[p], "other", NoKey, None) \in AdoptedType
          /\ adoptedAs[p].stage \notin {"planned", "review"}
        BY <1>3, <1>5, IssueFacts DEF OtherClaims, Offered, ReadyStages
    <2> QED
        BY <1>1, <2>1, IssueMoves, EverybodyWaits
<1>6. CASE OtherReleases(p)
    <2>1. /\ Stage(p, Reclaimed(adoptedAs[p])) /\ mail' = mail /\ freed' = freed
          /\ Reclaimed(adoptedAs[p]) \in AdoptedType
          /\ adoptedAs[p].stage \notin {"planned", "review"}
        BY <1>3, <1>6, IssueFacts DEF OtherReleases, InPool
    <2> QED
        BY <1>1, <2>1, IssueMoves, EverybodyWaits
<1>7. CASE OriginDecidesReply(p)
    BY <1>1, <1>7, TrackerSame, EverybodyWaits DEF OriginDecidesReply
<1> QED
    BY <1>2, <1>4, <1>5, <1>6, <1>7

-----------------------------------------------------------------------------
(* A process *)

LEMMA MindFacts ==
    ASSUME TriageIInv, NEW s \in Triagers
    PROVE  /\ MindTyped /\ MindOK(s) /\ step[s] \in Places
           /\ on[s] \in Incoming \cup {None} /\ on = [on EXCEPT ![s] = on[s]]
           /\ pendingHolds[s] \in SUBSET Incoming /\ sought[s] \in SUBSET Incoming
           /\ holdFailed[s] \in BOOLEAN /\ serving \subseteq Triagers
BY DEF TriageIInv, MindTyped

(* What a process does between the retries and the end of its poll. *)
LEMMA Moves ==
    ASSUME TriageIInv, TrackerGoes, NEW s \in Triagers, NEW p \in Incoming \cup {None},
           NEW there \in Places \ {"down", "retry", "claim", "work"}, Goes(s, there),
           pendingHolds[s] = {} \/ ~ (At(s, "down") \/ At(s, "retry")),
           on' = [on EXCEPT ![s] = p], UNCHANGED <<pendingHolds, holdFailed, sought>>,
           there \in {"append", "hold", "tidy"} => p \in AdoptedMail',
           there \in {"judge", "adopt", "discard"} => p \in Incoming
    PROVE  TriageIInv'
<1>1. /\ step' = [step EXCEPT ![s] = there] /\ serving' = serving
      /\ MindTyped /\ MindOK(s)
    BY MindFacts DEF Goes
<1>2. MindTyped' /\ step'[s] = there /\ on'[s] = p /\ OthersWait(s)
    BY <1>1 DEF MindTyped, OthersWait
<1>3. MindOK(s)'
    BY <1>1, <1>2 DEF MindOK, At, TrackerGoes
<1> QED
    BY <1>2, <1>3, OneTriager

(* The same, with the proposal in hand. *)
LEMMA MovesOn ==
    ASSUME TriageIInv, TrackerGoes, NEW s \in Triagers,
           NEW there \in Places \ {"down", "retry", "claim", "work"}, Goes(s, there),
           pendingHolds[s] = {} \/ ~ (At(s, "down") \/ At(s, "retry")),
           UNCHANGED <<on, pendingHolds, holdFailed, sought>>,
           there \in {"append", "hold", "tidy"} => on[s] \in AdoptedMail',
           there \in {"judge", "adopt", "discard"} => on[s] \in Incoming
    PROVE  TriageIInv'
BY MindFacts, Moves

LEMMA Cleared ==
    ASSUME TriageIInv, TrackerGoes, NEW s \in Triagers, NEW there, NEW holds, NEW answered,
           Clears(s, there, holds, answered),
           \/ there = "down" /\ holds = {} /\ answered = {}
           \/ /\ holds = pendingHolds[s] /\ answered = sought[s] /\ s \in serving
              /\ there = "retry" \/ (there = "claim" /\ holds = {})
    PROVE  TriageIInv'
<1>1. /\ step' = [step EXCEPT ![s] = there] /\ on' = [on EXCEPT ![s] = None]
      /\ serving' = IF there = "down" THEN serving \ {s} ELSE serving
      /\ pendingHolds' = [pendingHolds EXCEPT ![s] = holds]
      /\ holdFailed' = [holdFailed EXCEPT ![s] = FALSE]
      /\ sought' = [sought EXCEPT ![s] = answered]
    BY DEF Clears, Goes
<1>2. /\ MindTyped /\ MindOK(s) /\ holds \in SUBSET Incoming /\ answered \in SUBSET Incoming
      /\ there \in Places
    BY MindFacts DEF Places
<1>3. /\ MindTyped' /\ OthersWait(s) /\ step'[s] = there
      /\ pendingHolds'[s] = holds /\ sought'[s] = answered
    BY <1>1, <1>2 DEF MindTyped, OthersWait
<1>4. MindOK(s)'
    BY <1>1, <1>2, <1>3 DEF MindOK, At, TrackerGoes, MindTyped
<1> QED
    BY <1>3, <1>4, OneTriager

LEMMA PollEnds ==
    ASSUME TriageIInv, TrackerGoes, NEW s \in Triagers, PollOver(s) PROVE TriageIInv'
<1>1. CASE s \in serving /\ Clears(s, "retry", pendingHolds[s], sought[s])
    BY <1>1, Cleared
<1>2. CASE Clears(s, "down", {}, {})
    BY <1>2, Cleared
<1> QED
    BY <1>1, <1>2 DEF PollOver

LEMMA StartsStops ==
    ASSUME TriageIInv, NEW s \in Triagers, StartTriager(s) \/ StopTriager(s) \/ HoldsRetried(s) \/ ListMail(s)
    PROVE  TriageIInv'
<1>1. TrackerGoes
    BY TrackerSame DEF StartTriager, StopTriager, HoldsRetried, ListMail, triageTracker
<1>2. CASE StartTriager(s)
    <2>1. /\ At(s, "down") /\ MindTyped /\ MindOK(s) /\ pendingHolds[s] = {} /\ sought[s] = {}
          /\ UNCHANGED <<on, pendingHolds, holdFailed, sought>>
        BY <1>2, MindFacts DEF StartTriager, MindOK, triageMind
    <2>2. CASE step' = [step EXCEPT ![s] = "retry"] /\ serving' = serving \cup {s}
        <3>1. MindTyped' /\ OthersWait(s) /\ step'[s] = "retry" /\ s \in serving'
            BY <2>1, <2>2 DEF MindTyped, OthersWait, Places
        <3>2. MindOK(s)'
            BY <2>1, <3>1 DEF MindOK, At
        <3> QED
            BY <1>1, <3>1, <3>2, OneTriager
    <2>3. CASE Goes(s, "list")
        BY <1>1, <2>1, <2>3, MovesOn DEF Places
    <2> QED
        BY <1>2, <2>2, <2>3 DEF StartTriager
<1>3. CASE StopTriager(s)
    BY <1>1, <1>3, Cleared DEF StopTriager
<1>4. CASE HoldsRetried(s)
    BY <1>1, <1>4, MovesOn DEF HoldsRetried, Places, triageMind
<1>5. CASE ListMail(s)
    BY <1>1, <1>5, MovesOn DEF ListMail, Places, At
<1> QED
    BY <1>2, <1>3, <1>4, <1>5

LEMMA RetryStep ==
    ASSUME TriageIInv, NEW s \in Triagers, NEW p \in Incoming, RetryHold(s, p) PROVE TriageIInv'
<1>1. p \in AdoptedMail /\ p \in pendingHolds[s] /\ At(s, "retry") /\ MindTyped /\ MindOK(s)
    BY MindFacts DEF RetryHold, MindOK
<1>2. CASE /\ HoldIsServed(p)
           /\ pendingHolds' = [pendingHolds EXCEPT ![s] = @ \ {p}]
           /\ UNCHANGED <<serving, step, on, holdFailed, sought>>
    <2>1. TrackerGoes /\ OutOfPool(p)'
        BY <1>1, <1>2, HoldGoes
    <2>2. MindTyped' /\ OthersWait(s) /\ pendingHolds'[s] = pendingHolds[s] \ {p}
        BY <1>1, <1>2 DEF MindTyped, OthersWait
    <2>3. MindOK(s)'
        BY <1>1, <1>2, <2>1, <2>2 DEF MindOK, At, TrackerGoes
    <2> QED
        BY <2>1, <2>2, <2>3, OneTriager
<1>3. CASE HoldIsServed(p) /\ PollOver(s)
    BY <1>1, <1>3, HoldGoes, PollEnds
<1>4. CASE PollOver(s) /\ UNCHANGED triageTracker
    BY <1>4, TrackerSame, PollEnds DEF triageTracker
<1> QED
    BY <1>2, <1>3, <1>4 DEF RetryHold

LEMMA PollStep ==
    ASSUME TriageIInv, NEW s \in Triagers, PollBreaks(s) \/ CycleOver(s) \/ NothingToClaim(s)
    PROVE  TriageIInv'
<1>1. TrackerGoes
    BY TrackerSame DEF PollBreaks, CycleOver, NothingToClaim, triageTracker
<1>2. CASE PollOver(s)
    BY <1>1, <1>2, PollEnds
<1>3. CASE s \in serving /\ ~ holdFailed[s] /\ At(s, "next") /\ Clears(s, "claim", pendingHolds[s], sought[s])
    <2>1. pendingHolds[s] = {}
        BY <1>3, MindFacts DEF MindOK, At
    <2> QED
        BY <1>1, <1>3, <2>1, Cleared
<1> QED
    BY <1>2, <1>3 DEF PollBreaks, CycleOver, NothingToClaim

LEMMA TakeStep ==
    ASSUME TriageIInv, NEW s \in Triagers, NEW p \in Incoming, TakeNext(s, p) PROVE TriageIInv'
<1>1. TrackerGoes
    BY TrackerSame DEF TakeNext, triageTracker
<1>2. At(s, "next") /\ on' = [on EXCEPT ![s] = p] /\ UNCHANGED <<pendingHolds, holdFailed, sought>>
    BY DEF TakeNext
<1>3. Goes(s, "next") \/ Goes(s, "adopt") \/ Goes(s, "judge")
    BY <1>2, MindFacts DEF TakeNext, Goes, At, MindTyped
<1> QED
    BY <1>1, <1>2, <1>3, Moves DEF At, Places

(* The steps of handling a proposal but its adoption and the hold. *)
LEMMA HandlingStep ==
    ASSUME TriageIInv, NEW s \in Triagers,
           \/ \E decision \in Decisions : Judge(s, decision)
           \/ HandlingFails(s) \/ HandlingRefused(s) \/ AppendText(s) \/ Tidy(s)
           \/ SuppressReply(s) \/ SendReply(s) \/ SaveReply(s) \/ Discard(s)
    PROVE  TriageIInv'
<1>1. UNCHANGED <<on, pendingHolds, holdFailed, sought>> /\ ~ (At(s, "down") \/ At(s, "retry"))
    BY DEF Judge, HandlingFails, HandlingRefused, AppendText, Tidy, SuppressReply, SendReply, SaveReply,
           Discard, Mulls, Records, At
<1>2. MindOK(s) /\ TrackerTyped /\ on[s] \in Incoming \cup {None}
    BY MindFacts DEF TriageIInv
<1>3. ASSUME NEW there \in {"next", "adopt", "reply", "discard", "hold", "tidy", "alsoReply", "save"},
             Goes(s, there), TrackerGoes,
             there \in {"hold", "tidy"} => on[s] \in AdoptedMail',
             there \in {"adopt", "discard"} => on[s] \in Incoming
      PROVE  TriageIInv'
    BY <1>1, <1>3, MovesOn DEF Places
<1>4. CASE \E decision \in Decisions : Judge(s, decision)
    <2>1. TrackerGoes /\ on[s] \in Incoming
        BY <1>2, <1>4, TrackerSame DEF Judge, triageTracker, MindOK, At
    <2>2. Goes(s, "adopt") \/ Goes(s, "reply") \/ Goes(s, "discard")
        BY <1>4 DEF Judge, Decisions, Mulls
    <2> QED
        BY <1>3, <2>1, <2>2
<1>5. CASE HandlingFails(s) \/ HandlingRefused(s)
    BY <1>3, <1>5, TrackerSame DEF HandlingFails, HandlingRefused, Mulls, triageTracker
<1>6. CASE AppendText(s)
    <2>1. TrackerGoes /\ on[s] \in AdoptedMail'
        BY <1>2, <1>6, TrackerSame DEF AppendText, triageTracker, MindOK, At
    <2>2. Goes(s, "hold") \/ Goes(s, "tidy") \/ Goes(s, "next")
        BY <1>6 DEF AppendText, AfterAdoption, Mulls
    <2> QED
        BY <1>3, <2>1, <2>2
<1>7. ASSUME \/ mail' = mail
             \/ \E q \in Incoming : mail[q] = "pending" /\ mail' = [mail EXCEPT ![q] = "discarded"],
             adoptedAs' = adoptedAs, freed' = freed
      PROVE  TrackerGoes
    BY <1>7, TrackerSame, MailMoves
<1>8. CASE Tidy(s)
    <2>1. Goes(s, "alsoReply") \/ Goes(s, "next")
        BY <1>8 DEF Tidy
    <2>2. Letter[on[s]].supersedes # None => Letter[on[s]].supersedes \in Incoming
        <3>1. on[s] \in Incoming
            BY <1>2, <1>8 DEF Tidy, MindOK, At, AdoptedMail
        <3> QED
            BY <3>1, TriageAssumption DEF TriageAssumption, Letters
    <2>3. TrackerGoes
        BY <1>7, <1>8, <2>2 DEF Tidy
    <2> QED
        BY <1>3, <2>1, <2>3
<1>9. CASE SuppressReply(s) \/ SaveReply(s)
    BY <1>3, <1>9, TrackerSame DEF SuppressReply, SaveReply, Records, triageTracker
<1>10. CASE SendReply(s)
    <2>1. Goes(s, "save") \/ Goes(s, "next")
        BY <1>10 DEF SendReply, Mulls
    <2> QED
        BY <1>3, <1>10, <2>1, TrackerSame DEF SendReply
<1>11. CASE Discard(s)
    <2>1. on[s] \in Incoming
        BY <1>2, <1>11 DEF Discard, MindOK, At
    <2> QED
        BY <1>3, <1>7, <1>11, <2>1 DEF Discard
<1> QED
    BY <1>4, <1>5, <1>6, <1>8, <1>9, <1>10, <1>11

LEMMA AdoptStep ==
    ASSUME TriageIInv, NEW s \in Triagers, NEW answered \in BOOLEAN, Adopt(s, answered)
    PROVE  TriageIInv'
<1> DEFINE p == on[s]
           issue == NewIssue(None, None, NoKey)
<1>1. /\ p \in Incoming /\ mail[p] = "pending" /\ issue \in AdoptedType
      /\ ~ (At(s, "down") \/ At(s, "retry"))
    BY MindFacts, FreshIssue DEF Adopt, MindOK, At
<1>2. /\ mail' = [mail EXCEPT ![p] = "adopted"] /\ freed' = freed
      /\ adoptedAs' = [adoptedAs EXCEPT ![p] = issue]
      /\ UNCHANGED <<on, pendingHolds, holdFailed, sought>>
    BY DEF Adopt, Stage, Mulls
<1> HIDE DEF issue
<1>3. /\ mail' \in [Incoming -> {"unsent", "pending", "adopted", "discarded"}]
      /\ adoptedAs' \in [Incoming -> AdoptedType \cup {None}]
      /\ mail'[p] = "adopted" /\ adoptedAs'[p] = issue
      /\ \A q \in Incoming \ {p} : mail'[q] = mail[q] /\ adoptedAs'[q] = adoptedAs[q]
    BY <1>1, <1>2 DEF TriageIInv, TrackerTyped
<1>4. /\ AdoptedMail \subseteq AdoptedMail' /\ Made \subseteq Made' /\ p \notin AdoptedMail
      /\ AdoptedMail' \subseteq Made' /\ p \in AdoptedMail'
    BY <1>1, <1>3 DEF TriageIInv, TrackerTyped, AdoptedMail, Made
<1>5. TrackerGoes
    BY <1>2, <1>3, <1>4 DEF TrackerGoes, TrackerTyped, OutOfPool, AdoptedMail
<1>6. PICK there \in {"append", "hold", "tidy", "next"} : Goes(s, there)
    BY DEF Adopt, Mulls, AfterAdoption
<1> QED
    BY <1>1, <1>2, <1>4, <1>5, <1>6, MovesOn DEF Places

LEMMA HoldStep ==
    ASSUME TriageIInv, NEW s \in Triagers, Hold(s) PROVE TriageIInv'
<1> DEFINE p == on[s]
<1>1. /\ MindTyped /\ MindOK(s) /\ p \in AdoptedMail /\ p \in Incoming /\ At(s, "hold")
      /\ sought' = [sought EXCEPT ![s] = @ \cup {p}] /\ on' = on
    BY MindFacts DEF Hold, MindOK, At, AdoptedMail
<1>2. CASE /\ HoldIsServed(p) /\ Goes(s, IF authored THEN "tidy" ELSE "next")
           /\ UNCHANGED <<pendingHolds, holdFailed>>
    <2>1. TrackerGoes /\ AdoptedMail' = AdoptedMail /\ OutOfPool(p)'
        BY <1>1, <1>2, HoldGoes
    <2>2. PICK there \in {"tidy", "next"} : Goes(s, there)
        BY <1>2
    <2>3. /\ MindTyped' /\ OthersWait(s) /\ step'[s] = there /\ serving' = serving
          /\ sought'[s] = sought[s] \cup {p} /\ pendingHolds'[s] = pendingHolds[s]
        BY <1>1, <1>2, <2>2 DEF MindTyped, OthersWait, Goes, Places
    <2>4. MindOK(s)'
        BY <1>1, <1>2, <2>1, <2>3 DEF MindOK, At, TrackerGoes
    <2> QED
        BY <2>1, <2>3, <2>4, OneTriager
<1>3. ASSUME TrackerGoes, HoldFails(s) PROVE TriageIInv'
    <2>1. /\ pendingHolds' = [pendingHolds EXCEPT ![s] = IF s \in serving THEN @ \cup {p} ELSE @]
          /\ holdFailed' = [holdFailed EXCEPT ![s] = TRUE]
          /\ step' = [step EXCEPT ![s] = "next"] /\ serving' = serving
        BY <1>3 DEF HoldFails, Goes
    <2>2. /\ MindTyped' /\ OthersWait(s) /\ step'[s] = "next" /\ holdFailed'[s] = TRUE
          /\ sought'[s] = sought[s] \cup {p}
          /\ pendingHolds'[s] = IF s \in serving THEN pendingHolds[s] \cup {p} ELSE pendingHolds[s]
        BY <1>1, <2>1 DEF MindTyped, OthersWait, Places
    <2>3. MindOK(s)'
        BY <1>1, <1>3, <2>1, <2>2 DEF MindOK, At, TrackerGoes
    <2> QED
        BY <1>3, <2>2, <2>3, OneTriager
<1>4. HoldIsServed(p) => TrackerGoes
    BY <1>1, HoldGoes
<1>5. UNCHANGED triageTracker => TrackerGoes
    BY TrackerSame DEF triageTracker
<1> QED
    BY <1>2, <1>3, <1>4, <1>5 DEF Hold

LEMMA ClaimStep ==
    ASSUME TriageIInv, NEW s \in Triagers, NEW p \in Incoming, ClaimAfterTriage(s, p) PROVE TriageIInv'
<1>1. /\ adoptedAs[p] \in AdoptedType /\ adoptedAs[p].stage \notin {"planned", "review"}
      /\ MindTyped /\ MindOK(s) /\ At(s, "claim")
    BY MindFacts DEF ClaimAfterTriage, Offered, ReadyStages, TriageIInv, TrackerTyped
<1>2. TrackerGoes /\ p \in Made'
    <2>1. /\ Claimed(adoptedAs[p], "serve", NoKey, None) \in AdoptedType
          /\ Stage(p, Claimed(adoptedAs[p], "serve", NoKey, None)) /\ mail' = mail /\ freed' = freed
        BY <1>1, IssueFacts DEF ClaimAfterTriage
    <2> QED
        BY <1>1, <2>1, IssueMoves
<1>3. /\ step' = [step EXCEPT ![s] = "work"] /\ serving' = serving /\ on' = [on EXCEPT ![s] = p]
      /\ UNCHANGED <<pendingHolds, holdFailed, sought>>
    BY DEF ClaimAfterTriage, Goes
<1>4. MindTyped' /\ OthersWait(s) /\ step'[s] = "work" /\ on'[s] = p
    BY <1>1, <1>3 DEF MindTyped, OthersWait, Places
<1>5. MindOK(s)'
    BY <1>1, <1>2, <1>3, <1>4 DEF MindOK, At, TrackerGoes
<1> QED
    BY <1>2, <1>4, <1>5, OneTriager

LEMMA WorkStep ==
    ASSUME TriageIInv, NEW s \in Triagers, WorkDone(s) PROVE TriageIInv'
<1>1. on[s] \in Incoming /\ adoptedAs[on[s]] \in AdoptedType
    BY MindFacts DEF WorkDone, MindOK, Made
<1>2. TrackerGoes
    BY <1>1, IssueFacts, IssueMoves DEF WorkDone
<1> QED
    BY <1>2, PollEnds DEF WorkDone

LEMMA TriageInitially == TriageInit => TriageIInv
BY DEF TriageInit, TriageIInv, TrackerTyped, MindTyped, MindOK, AdoptedMail, Made, At, Places

LEMMA TriageNextStep == TriageIInv /\ [TriageNext]_triageVars => TriageIInv'
<1>1. SUFFICES ASSUME TriageIInv, [TriageNext]_triageVars PROVE TriageIInv'
    OBVIOUS
<1>2. ASSUME NEW s \in Triagers, TriageStep(s) PROVE TriageIInv'
    BY <1>1, <1>2, RetryStep, TakeStep, ClaimStep, StartsStops, PollStep, HandlingStep, AdoptStep,
       HoldStep, WorkStep DEF TriageStep
<1>3. CASE UNCHANGED triageVars
    BY <1>1, <1>3, TrackerSame, EverybodyWaits DEF triageVars, triageTracker, triageMind
<1> QED
    BY <1>1, <1>2, <1>3, StartsStops, WorldStep DEF TriageNext

LEMMA TriageInvariant == TriageSpec => []TriageIInv
BY TriageInitially, TriageNextStep, PTL DEF TriageSpec

(* SoughtIsHeldAtClaim: what a serve finds in the pool is not an issue that  *)
(* it ever asked to hold, unless a person released it, whatever became of    *)
(* its requests.                                                            *)
THEOREM SoughtAreHeld == TriageSpec => []SoughtIsHeldAtClaim
<1>1. ASSUME TriageIInv PROVE SoughtIsHeldAtClaim
    <2>1. SUFFICES ASSUME NEW s \in Triagers, step[s] = "claim", NEW p \in sought[s]
                   PROVE  p \in freed \/ adoptedAs[p].stage \notin ReadyStages
        BY DEF SoughtIsHeldAtClaim
    <2>2. OutOfPool(p)
        BY <1>1, <2>1, MindFacts DEF MindOK, At
    <2> QED
        BY <2>2 DEF OutOfPool, ReadyStages
<1> QED
    BY <1>1, TriageInvariant, PTL
===========================================================================
