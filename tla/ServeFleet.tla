----------------------------- MODULE ServeFleet -----------------------------
(***************************************************************************)
(* A fleet of `issuekit serve` processes in implement mode, one per        *)
(* checkout, sharing one tracker with reviewers, with operators who run    *)
(* `issuekit reclaim` on claims that look orphaned, and with people who    *)
(* claim by hand in a served checkout.                                     *)
(*                                                                         *)
(* A poll of a serve is a sequence of API calls with the agent's run in    *)
(* the middle.  Between any two of them another process may act, and each  *)
(* call may be lost before the tracker sees it or have its answer lost     *)
(* afterwards.  A process may die anywhere.  Heartbeats are a second       *)
(* channel, which can fall silent while the process works on.              *)
(***************************************************************************)
EXTENDS IssueOps

CONSTANTS
    Issues,           \* issue ids
    Workers,          \* registered checkouts
    KeyOf,            \* the machine-qualified key of a checkout
    AgentOf,          \* the agent its serve runs (--agent)
    MaxRunFailures,   \* --max-run-failures; 0 never gives up
    ForceModes,       \* the kinds of reclaim operators run: --force or not
    ByHand,           \* TRUE: people also claim and submit with the CLI
    LateClaims        \* TRUE: a claim_next that timed out may still be served

VARIABLES
    issues,     \* the tracker's issues
    late,       \* workers with a timed-out claim_next still under way
    fresh,      \* workers whose registry row has a recent last_seen
    pc,         \* where each serve is; "down" when no process holds serve.lock
    cur,        \* the issue a serve works on or releases
    failures,   \* consecutive_failures
    lastFailed, \* last_failed_issue_id
    holder,     \* the worker a release read before its reclaim call
    givingUp,   \* a release at the failure limit, after which serve exits
    op          \* the reclaim command under way

serveVars == <<pc, cur, failures, lastFailed, holder, givingUp>>
vars == <<issues, late, fresh, serveVars, op>>

Steps == {"down", "poll", "claim", "run", "submit", "release", "reclaim"}

NoOp == [at |-> "idle", issue |-> None, force |-> FALSE,
         silent |-> {}, expected |-> NoKey]

FleetAssumption ==
    /\ Issues \subseteq Nat /\ None \notin Issues
    /\ \A w \in Workers :
          /\ KeyOf[w].name # None /\ KeyOf[w].repo # None
          /\ NoKey \notin LookupKeys(KeyOf[w])
    /\ \A v, w \in Workers : v # w => KeyOf[v] \notin LookupKeys(KeyOf[w])
    /\ \A w \in Workers : AgentOf[w] # None
    /\ MaxRunFailures \in Nat
    /\ ForceModes \subseteq BOOLEAN
    /\ ByHand \in BOOLEAN /\ LateClaims \in BOOLEAN

ASSUME FleetAssumption

-----------------------------------------------------------------------------
(* Claims *)

Implementing(i) == issues[i].stage = "implementing"

(* find_implementing_for_workers: the claims recovery takes as its own. *)
Held(w, i) == Implementing(i) /\ issues[i].worker \in LookupKeys(KeyOf[w])

FirstHeld(w, i) == Held(w, i) /\ \A j \in Issues : Held(w, j) => i <= j

Idle(w) == \A i \in Issues : ~ Held(w, i)

(* Fault: only a missing row flags a claim, not a silent one. *)
FlaggedNoRow(i, silent) ==
    /\ Implementing(i) /\ issues[i].worker # NoKey
    /\ \A w \in Workers : ~ KeyMatchesRow(issues[i].worker, KeyOf[w], FALSE)

(* detect_stale_claims, given the workers whose rows are missing or silent. *)
Flagged(i, silent) ==
    /\ Implementing(i) /\ issues[i].worker # NoKey
    /\ \A w \in Workers :
          KeyMatchesRow(issues[i].worker, KeyOf[w], FALSE) => w \in silent

Silent == Workers \ fresh

Init ==
    /\ issues = [i \in Issues |-> NewIssue(None, None, NoKey)]
    /\ late = {}
    /\ fresh = {}
    /\ pc = [w \in Workers |-> "down"]
    /\ cur = [w \in Workers |-> None]
    /\ failures = [w \in Workers |-> 0]
    /\ lastFailed = [w \in Workers |-> None]
    /\ holder = [w \in Workers |-> NoKey]
    /\ givingUp = [w \in Workers |-> FALSE]
    /\ op = NoOp

-----------------------------------------------------------------------------
(* How a poll ends *)

(* Back at the top of the loop, or gone: nothing of the poll is kept. *)
ServeAt(w, step, count, failed) ==
    /\ pc' = [pc EXCEPT ![w] = step]
    /\ cur' = [cur EXCEPT ![w] = None]
    /\ failures' = [failures EXCEPT ![w] = count]
    /\ lastFailed' = [lastFailed EXCEPT ![w] = failed]
    /\ holder' = [holder EXCEPT ![w] = NoKey]
    /\ givingUp' = [givingUp EXCEPT ![w] = FALSE]

Exit(w) == ServeAt(w, "down", 0, None)

(* Fault: one failure too many is counted before the limit acts. *)
PollFailsLate(w, i) ==
    IF failures[w] <= MaxRunFailures
    THEN ServeAt(w, "poll", failures[w] + 1, i)
    ELSE Exit(w)

(* An "error" or "failed" result.  At the limit serve releases the issue of *)
(* the result, else the one that failed last, and exits; with none to       *)
(* release it just exits.  The count is only kept when there is a limit.    *)
PollFails(w, i) ==
    LET failed == IF i = None THEN lastFailed[w] ELSE i
        count == failures[w] + 1
    IN  IF MaxRunFailures = 0
        THEN ServeAt(w, "poll", 0, failed)
        ELSE IF count < MaxRunFailures
        THEN ServeAt(w, "poll", count, failed)
        ELSE IF failed = None
        THEN Exit(w)
        ELSE /\ pc' = [pc EXCEPT ![w] = "release"]
             /\ cur' = [cur EXCEPT ![w] = failed]
             /\ failures' = [failures EXCEPT ![w] = count]
             /\ lastFailed' = [lastFailed EXCEPT ![w] = failed]
             /\ givingUp' = [givingUp EXCEPT ![w] = TRUE]
             /\ UNCHANGED holder

PollSucceeds(w) == ServeAt(w, "poll", 0, None)

(* Moving on within a poll. *)
GoTo(w, step, i) ==
    /\ pc' = [pc EXCEPT ![w] = step]
    /\ cur' = [cur EXCEPT ![w] = i]
    /\ UNCHANGED <<failures, lastFailed, holder, givingUp>>

-----------------------------------------------------------------------------
(* The serve process *)

(* serve.lock keeps a checkout to one process; the kernel frees it at death. *)
Start(w) ==
    /\ pc[w] = "down"
    /\ ServeAt(w, "poll", 0, None)
    /\ UNCHANGED <<issues, late, fresh, op>>

(* A kill, a second signal, or a requested stop: claims stay as they are. *)
Stop(w) ==
    /\ pc[w] # "down"
    /\ Exit(w)
    /\ UNCHANGED <<issues, late, fresh, op>>

(* A pending hold, the binary check, triage or the recovery read fails. *)
PollError(w) ==
    /\ pc[w] = "poll"
    /\ PollFails(w, None)
    /\ UNCHANGED <<issues, late, fresh, op>>

(* Recovery comes before the pool: a claim found under this checkout's keys *)
(* is run first, the lowest id of several.                                  *)
Recover(w) ==
    /\ pc[w] = "poll"
    /\ \E i \in Issues : FirstHeld(w, i) /\ GoTo(w, "run", i)
    /\ UNCHANGED <<issues, late, fresh, op>>

(* Fault: the pool is asked without looking for held claims. *)
RecoverNothingBlind(w) ==
    /\ pc[w] = "poll"
    /\ pc' = [pc EXCEPT ![w] = "claim"]
    /\ lastFailed' = [lastFailed EXCEPT ![w] = None]
    /\ UNCHANGED <<cur, failures, holder, givingUp, issues, late, fresh, op>>

RecoverNothing(w) ==
    /\ pc[w] = "poll"
    /\ Idle(w)
    /\ pc' = [pc EXCEPT ![w] = "claim"]
    /\ lastFailed' = [lastFailed EXCEPT ![w] = None]
    /\ UNCHANGED <<cur, failures, holder, givingUp, issues, late, fresh, op>>

(* The tracker's side of claim_next. *)
ServesClaim(w, i) ==
    /\ HeadOfPool(issues, i, AgentOf[w], KeyOf[w])
    /\ issues' = [issues EXCEPT ![i] = Claimed(@, AgentOf[w], KeyOf[w], None)]

PoolEmpty(w) == \A i \in Issues : ~ Offered(issues[i], AgentOf[w], KeyOf[w])

ClaimNext(w) ==
    /\ pc[w] = "claim"
    /\ \E i \in Issues : ServesClaim(w, i) /\ GoTo(w, "run", i)
    /\ UNCHANGED <<late, fresh, op>>

(* An idle poll clears the failures counted so far. *)
ClaimIdle(w) ==
    /\ pc[w] = "claim"
    /\ PoolEmpty(w)
    /\ ServeAt(w, "poll", 0, None)
    /\ UNCHANGED <<issues, late, fresh, op>>

(* A local guard refuses, or the request never arrives. *)
ClaimError(w) ==
    /\ pc[w] = "claim"
    /\ PollFails(w, None)
    /\ UNCHANGED <<issues, late, fresh, op>>

(* The tracker claims, the answer is lost: serve does not know what it holds. *)
ClaimAnswerLost(w) ==
    /\ pc[w] = "claim"
    /\ \E i \in Issues : ServesClaim(w, i)
    /\ PollFails(w, None)
    /\ UNCHANGED <<late, fresh, op>>

(* The call times out while the request is still on its way. *)
ClaimTimesOut(w) ==
    /\ LateClaims
    /\ pc[w] = "claim"
    /\ w \notin late
    /\ late' = late \cup {w}
    /\ PollFails(w, None)
    /\ UNCHANGED <<issues, fresh, op>>

LateClaim(w) ==
    /\ w \in late
    /\ late' = late \ {w}
    /\ \/ \E i \in Issues : ServesClaim(w, i)
       \/ PoolEmpty(w) /\ UNCHANGED issues
    /\ UNCHANGED <<fresh, serveVars, op>>

(* Adapter or executable missing at launch: the claim is released first. *)
SetupFails(w) ==
    /\ pc[w] = "run"
    /\ GoTo(w, "release", cur[w])
    /\ UNCHANGED <<issues, late, fresh, op>>

(* A failing or timed-out agent, a missing report, a rejected diff, or an *)
(* error on the way.                                                      *)
RunFails(w) ==
    /\ pc[w] = "run"
    /\ PollFails(w, cur[w])
    /\ UNCHANGED <<issues, late, fresh, op>>

(* No changes: a success when the issue turns out to be at review already. *)
RunChangesNothing(w) ==
    /\ pc[w] = "run"
    /\ IF issues[cur[w]].stage = "review"
       THEN PollSucceeds(w)
       ELSE PollFails(w, cur[w])
    /\ UNCHANGED <<issues, late, fresh, op>>

RunPasses(w) ==
    /\ pc[w] = "run"
    /\ GoTo(w, "submit", cur[w])
    /\ UNCHANGED <<issues, late, fresh, op>>

SubmitTo(i) ==
    issues' = [issues EXCEPT ![i] = Submitted(@, None, None)]

Submit(w) ==
    /\ pc[w] = "submit"
    /\ SubmitTo(cur[w])
    /\ PollSucceeds(w)
    /\ UNCHANGED <<late, fresh, op>>

SubmitError(w) ==
    /\ pc[w] = "submit"
    /\ PollFails(w, cur[w])
    /\ UNCHANGED <<issues, late, fresh, op>>

SubmitAnswerLost(w) ==
    /\ pc[w] = "submit"
    /\ SubmitTo(cur[w])
    /\ PollFails(w, cur[w])
    /\ UNCHANGED <<late, fresh, op>>

(* Fault: the release at the limit is followed by one more poll. *)
ReleasedAgain(w) == PollFails(w, cur[w])

(* release_claim_after_run_error swallows whatever goes wrong: afterwards a *)
(* giving-up serve exits, and a failed setup counts as a failed poll.       *)
Released(w) ==
    IF givingUp[w] THEN Exit(w) ELSE PollFails(w, cur[w])

(* The release reads the issue and takes its present holder as expected. *)
ReleaseRead(w) ==
    /\ pc[w] = "release"
    /\ Implementing(cur[w])
    /\ pc' = [pc EXCEPT ![w] = "reclaim"]
    /\ holder' = [holder EXCEPT ![w] = issues[cur[w]].worker]
    /\ UNCHANGED <<cur, failures, lastFailed, givingUp, issues, late, fresh, op>>

ReleaseReclaim(w) ==
    /\ pc[w] = "reclaim"
    /\ ReclaimAccepts(issues[cur[w]], holder[w])
    /\ issues' = [issues EXCEPT ![cur[w]] = Reclaimed(@)]
    /\ Released(w)
    /\ UNCHANGED <<late, fresh, op>>

(* Not implementing any more, race_lost, or a call that did not arrive. *)
ReleaseFails(w) ==
    /\ pc[w] \in {"release", "reclaim"}
    /\ Released(w)
    /\ UNCHANGED <<issues, late, fresh, op>>

-----------------------------------------------------------------------------
(* The worker registry *)

Beat(w) ==
    /\ pc[w] # "down"
    /\ fresh' = fresh \cup {w}
    /\ UNCHANGED <<issues, late, serveVars, op>>

(* The staleness window passes without a beat getting through, or the row *)
(* is removed: the orphan check treats a stale and a missing row alike.    *)
FallSilent(w) ==
    /\ w \in fresh
    /\ fresh' = fresh \ {w}
    /\ UNCHANGED <<issues, late, serveVars, op>>

-----------------------------------------------------------------------------
(* issuekit reclaim: four calls, one after the other *)

(* --force takes the holder it read; otherwise the orphan check comes next. *)
OpRead(i, force) ==
    /\ op.at = "idle"
    /\ Implementing(i)
    /\ op' = [NoOp EXCEPT !.at = IF force THEN "reclaim" ELSE "list",
                          !.issue = i, !.force = force,
                          !.expected = IF force THEN issues[i].worker ELSE NoKey]
    /\ UNCHANGED <<issues, late, fresh, serveVars>>

OpListWorkers ==
    /\ op.at = "list"
    /\ op' = [op EXCEPT !.at = "detect", !.silent = Silent]
    /\ UNCHANGED <<issues, late, fresh, serveVars>>

OpDetect ==
    /\ op.at = "detect"
    /\ Flagged(op.issue, op.silent)
    /\ op' = [op EXCEPT !.at = "reclaim", !.expected = issues[op.issue].worker]
    /\ UNCHANGED <<issues, late, fresh, serveVars>>

OpReclaim ==
    /\ op.at = "reclaim"
    /\ ReclaimAccepts(issues[op.issue], op.expected)
    /\ issues' = [issues EXCEPT ![op.issue] = Reclaimed(@)]
    /\ op' = NoOp
    /\ UNCHANGED <<late, fresh, serveVars>>

(* not_stale, race_lost, invalid_transition, or a failed call. *)
OpFails ==
    /\ op.at # "idle"
    /\ op' = NoOp
    /\ UNCHANGED <<issues, late, fresh, serveVars>>

-----------------------------------------------------------------------------
(* Reviewers, dispatchers and people at the command line *)

Approve(i) ==
    /\ issues[i].stage = "review"
    /\ issues' = [issues EXCEPT ![i] = Completed(@)]
    /\ UNCHANGED <<late, fresh, serveVars, op>>

RequestChanges(i) ==
    /\ issues[i].stage = "review"
    /\ issues' = [issues EXCEPT ![i] = ChangesRequested(@, None)]
    /\ UNCHANGED <<late, fresh, serveVars, op>>

(* Explicit claims may take over an implementing issue of the same agent. *)
ClaimByHand(w, i) ==
    /\ ByHand
    /\ ClaimAccepts(issues[i], AgentOf[w], KeyOf[w], None, FALSE)
    /\ issues' = [issues EXCEPT ![i] = Claimed(@, AgentOf[w], KeyOf[w], None)]
    /\ UNCHANGED <<late, fresh, serveVars, op>>

SubmitByHand(i) ==
    /\ ByHand
    /\ Implementing(i)
    /\ SubmitTo(i)
    /\ UNCHANGED <<late, fresh, serveVars, op>>

-----------------------------------------------------------------------------
ServeStep(w) ==
    \/ PollError(w) \/ Recover(w) \/ RecoverNothing(w)
    \/ ClaimNext(w) \/ ClaimIdle(w) \/ ClaimError(w)
    \/ ClaimAnswerLost(w) \/ ClaimTimesOut(w)
    \/ SetupFails(w) \/ RunFails(w) \/ RunChangesNothing(w) \/ RunPasses(w)
    \/ Submit(w) \/ SubmitError(w) \/ SubmitAnswerLost(w)
    \/ ReleaseRead(w) \/ ReleaseReclaim(w) \/ ReleaseFails(w)

RegistryStep(w) == Beat(w) \/ FallSilent(w)

OperatorStep ==
    \/ \E i \in Issues, force \in ForceModes : OpRead(i, force)
    \/ OpListWorkers \/ OpDetect \/ OpReclaim \/ OpFails

PeopleStep ==
    \E i \in Issues :
        \/ Approve(i) \/ RequestChanges(i) \/ SubmitByHand(i)
        \/ \E w \in Workers : ClaimByHand(w, i)

Next ==
    \/ \E w \in Workers :
          Start(w) \/ Stop(w) \/ ServeStep(w) \/ LateClaim(w) \/ RegistryStep(w)
    \/ OperatorStep
    \/ PeopleStep

Spec == Init /\ [][Next]_vars

-----------------------------------------------------------------------------
(* Properties *)

HolderKeys == {KeyOf[w] : w \in Workers} \cup {NoKey}

Agents == {AgentOf[w] : w \in Workers} \cup {FallbackAgent, None}

FleetIssues ==
    [status : Statuses, stage : Stages, assignee : Agents, implementer : Agents,
     worker : HolderKeys, target : {NoKey}, author : {None},
     authorSession : {None}, implementerSession : {None},
     blocked : {FALSE}, rank : {0}]

Failures == 0 .. MaxRunFailures

(* Every variable has its type, and a serve in the middle of a poll has the *)
(* issue that step needs.                                                   *)
TypeOK ==
    /\ issues \in [Issues -> FleetIssues]
    /\ late \in SUBSET Workers
    /\ fresh \in SUBSET Workers
    /\ pc \in [Workers -> Steps]
    /\ cur \in [Workers -> Issues \cup {None}]
    /\ failures \in [Workers -> Failures]
    /\ lastFailed \in [Workers -> Issues \cup {None}]
    /\ holder \in [Workers -> HolderKeys]
    /\ givingUp \in [Workers -> BOOLEAN]
    /\ op \in [at : {"idle", "list", "detect", "reclaim"},
               issue : Issues \cup {None}, force : BOOLEAN,
               silent : SUBSET Workers, expected : HolderKeys]
    /\ \A w \in Workers :
          pc[w] \in {"run", "submit", "release", "reclaim"} => cur[w] \in Issues
    /\ op.at # "idle" => op.issue \in Issues

(* A serve gives up exactly when its count reaches the limit, and giving up  *)
(* ends the process: from poll to run to submit the count stays below the    *)
(* limit, whichever of a dozen ways each poll before ended.                  *)
GivesUpAtLimit ==
    \A w \in Workers :
        /\ givingUp[w] => pc[w] \in {"release", "reclaim"}
        /\ ~ givingUp[w] /\ MaxRunFailures # 0 => failures[w] < MaxRunFailures

(* Only serve claims, and every claim is served before it times out. *)
ServeOnly == ~ ByHand /\ ~ LateClaims

(* serve "processes one issue at a time" (docs/guides/serve.md): through    *)
(* lost answers, kills, failed releases and reclaims, a checkout never      *)
(* holds two implementing issues, because recovery precedes every claim.    *)
OneClaimPerWorker ==
    ServeOnly =>
        \A w \in Workers : \A i, j \in Issues : Held(w, i) /\ Held(w, j) => i = j

(* What an implementing issue says of itself is consistent: someone's agent *)
(* is both assignee and implementer, a checkout is recorded, and the issue  *)
(* is in progress.  Reclaim, resubmission, late claims and takeovers by     *)
(* hand each rewrite only some of these fields.                             *)
ClaimsAreOwned ==
    \A i \in Issues : Implementing(i) =>
        /\ issues[i].status = "in_progress"
        /\ issues[i].assignee # None
        /\ issues[i].assignee = issues[i].implementer
        /\ \E w \in Workers : /\ issues[i].worker = KeyOf[w]
                              /\ issues[i].assignee = AgentOf[w]

(* The unforced reclaim only ever takes an issue from a worker whose row   *)
(* was missing or silent when the command listed the workers, although the *)
(* issue may change hands between that listing and the reclaim request.    *)
ReclaimTakesFromSilent ==
    [][OpReclaim /\ ~ op.force =>
          \A w \in Workers : issues[op.issue].worker = KeyOf[w] => w \in op.silent]_vars

(* The orphan guide: "a resumed holder is not overwritten" and, of a worker *)
(* that resumes between the read and the request, "the API returns          *)
(* `race_lost` instead of overwriting the current holder".                  *)
ResumedHolderKeepsClaim ==
    [][OpReclaim =>
          \A w \in Workers :
             ~ (/\ issues[op.issue].worker = KeyOf[w]
                /\ pc[w] = "run" /\ cur[w] = op.issue
                /\ w \in fresh)]_vars

(* serve "retries the same claim with backoff" and "after three consecutive *)
(* failures serve releases the claim": what a serve releases is a claim its *)
(* own checkout holds.                                                      *)
ReleasesOwnClaim ==
    [][\A w \in Workers : ReleaseReclaim(w) => Held(w, cur[w])]_vars

(* A claim does not sleep in a running serve: as long as the process stays  *)
(* up, each issue it holds is submitted or released, however often the run, *)
(* the submit or the release fails and however many answers are lost.       *)
HeldIsWorkedOff ==
    \A w \in Workers, i \in Issues :
        Held(w, i) ~> ~ Held(w, i) \/ pc[w] = "down"

(* A claim left behind by a dead serve becomes visible to `issuekit         *)
(* orphans`, unless the process comes back or the claim is taken away.      *)
OrphanIsFlagged ==
    \A w \in Workers, i \in Issues :
        Held(w, i) /\ pc[w] = "down" ~>
            ~ Held(w, i) \/ pc[w] # "down" \/ Flagged(i, Silent)

(* The fleet implements the ledger of claims. *)
Phase(i) ==
    CASE Implementing(i) -> "held"
      [] issues[i].stage = "review" -> "review"
      [] issues[i].stage = "done" -> "done"
      [] OTHER -> "waiting"

Holder(i) == IF Implementing(i) THEN issues[i].worker ELSE NoKey

Ledger == INSTANCE ClaimLedger WITH
    Keys <- {KeyOf[w] : w \in Workers}, Nobody <- NoKey,
    phase <- [i \in Issues |-> Phase(i)], holder <- [i \in Issues |-> Holder(i)]

(* An issue changes hands only by being put down first, and a worker holds *)
(* one at a time: every fleet step is a ledger step or leaves it alone.     *)
ImplementsLedger == Ledger!Spec
=============================================================================
