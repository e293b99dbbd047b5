# A TLA+ development of issuekit

issuekit is a command-line client, a long-running worker (`issuekit serve`) and
an MCP server through which coding agents and people share an issue tracker.
The tracker itself (a web service) is not in the repository; the repository
states its contract as the client surface of `issuekit/testing/`, which the
tests run every command against.  These modules model the client code together
with that contract: who may claim what, what happens when several serves,
reviewers, operators and people act at once, when calls are lost or answered
late, when processes are killed, and what a run leaves behind on disk.

Paths below are relative to the repository's `issuekit/` package unless they
begin with `docs/`.

## Inventory

| Component | State | Operations | Interacts with | Hard behaviour | Correct when |
|---|---|---|---|---|---|
| Issue lifecycle (`workflow.py`, `issues/service.py`, `store.py`, tracker contract `testing/issues.py`) | status, stage, assignee, implementer, worker, target, author and sessions of an issue | create, plan, dispatch, claim, claim_next, submit, request_changes, approve, complete, reclaim, readdress | every command and MCP tool | read, check, then call: the issue changes in between; fields are rewritten in part | an implementing issue says who builds it; nobody approves their own work while the issue shows whose it is; directed work stays with its target |
| Worker keys (`core.py`, `config/model.py`) | bare and machine-qualified keys in claims, rows and config | match two keys, match a key with a row, look up one's own claims | recovery, orphan detection, directed claims, checks | several comparisons with different rules | a worker finds exactly its own claims; a sibling never masks a dead holder |
| Serve, implement mode (`commands/serve/implement.py`, `agents/implementer_flow.py`, `run_claimed.py`) | current issue, consecutive failures, last failed issue | recover, claim, run, submit, release, give up | tracker, agent process, registry | kill between any two calls, lost answers, late requests, failure limit | one claim at a time; every held claim is worked off; gives up at the limit |
| Serve runtime (`commands/serve/command.py`, `runtime.py`, `loop.py`, `workers/registration.py`) | serve.lock, stop and abort events, heartbeat failures, counters, exit code | start, first and second signal, beat, poll, sleep, leave | OS, registry | signals during a run, the heartbeat thread stops the loop, limits reached together | one serve per checkout; after a stop nothing begins but what is left of the poll it came in |
| Serve, review mode (`commands/serve/review.py`, `agents/review.py`) | ids it has given up on, failures | next_review, run, approve, request changes | tracker, agent process | a verdict minutes after the read; a resubmission of what failed | a failed review is not repeated and everything else is reviewed; an approval stands |
| Orphans and reclaim (`issues/orphans.py`, `commands/reclaim.py`) | none of its own | list, detect, reclaim, force | tracker, registry | the holder resumes between calls | takes only from the silent; dead claims become visible |
| Agent run records (`agentrun/`, `commands/runs.py`) | run ids, locks, status files, logs | reserve, record, launch, tick, finalize, reconcile | other runs of the checkout, `issuekit runs` | two runs in one second, kill anywhere, tick against final write, stale read against write | ids and logs are not shared; a finished run does not show as running; a killed one looks dead |
| Triage and adoption (`commands/serve/triage.py`, `proposals/adopt.py`, `agents/triage_author.py`) | pending holds, state file of replied proposals | adopt, append, hold, reply, discard, retry holds | tracker, the serve's own poll | adoption and hold are two calls; a few proposals per cycle | a hold that was asked for is in place before the serve claims; every matching proposal is decided |
| Proposal checks (`agents/proposal_check.py`, `commands/proposal_checks.py`) | duties by worker key, holds owed | ask, poll, judge, adopt, hold, answer | tracker, agent process, people | a proposal decided while an agent judges it; answers lost between calls | an approval has an issue; holds that were asked for come before the next cycle; checks are answered |
| Proposals between projects (`proposals/`) | inbox, outbox | send, adopt, discard, reply, deduplicate | all of the above and below | an answer that is lost, a request repeated | one pending proposal per subject |
| Negotiation (`negotiation/`) | thread, status, contract, issue refs | open or resume, turn, converge, cancel, finalize | two projects, two agents | turns on a stale copy, caps, two issues created in two calls | one open thread; a concluded thread stays so; refs name issues of the agreement |
| PM requests (`commands/request/`) | request state file | route, send, clarify, answer, link | proposals, router agent | kill between send and save, re-routing | each target is sent once, after what it depends on; no question is dropped unanswered |
| App Server sessions (`agents/app_server_runtime.py`, `agentrun/app_server.py`, `api/agent_sessions.py`) | lease, commands, event journal | acquire, heartbeat, execute, flush, tear down | tracker, codex app-server | three threads; lease expiry against retries; a teardown of several calls | events complete and in order; closed means done; a silent lease is reported; every attempt ends |
| Guards (`guards/`, `commands/author.py`) | author guard entries in issuekit.local.toml | create, enforce, clear | claims, submits, other writers of the file | the guard is written after the issue exists; the file is rewritten whole | the author's session does not implement, and an orchestrated run that was let past may submit |
| Registry and identity (`workers/`) | worker rows, claims and directions that name them | beat, remove, prune | serve, orphans, operators | rows are listed, then deleted, and beats come in between | only idle rows are deleted; a live worker is listed again |
| Transport, login (`api/`) | a client's token and login lock, the token cache of all processes | call, retry, login, refresh, logout | everything | several threads refused at once; the cache is rewritten whole and unlocked; timeouts | one login serves them all; nobody else's token is lost |
| MCP server (`mcp/runtime.py`) | two caches of settings with signatures, mutation locks | call a tool | edits of the files it reads | an edit between signature, load and use | an edit before a call is noticed by it |
| Read-only agents, CLI, setup, config, prompts, encoding | files | wrappers, text | - | sequential | not modelled |

Hazards, each at the line where it bites and with the properties that cover
it, are listed in `PROJECT.json`.

## Modules

| Module | Models | Uses |
|---|---|---|
| `Missing` | an absent value; a record with fields changed | - |
| `WorkerKeys` | key comparison on the client and on the tracker | Missing |
| `KeyPairs` | every pair of a key and a registry row, to check `WorkerKeys` over them | WorkerKeys |
| `IssueOps` | the issue record; guard ("XAccepts") and effect ("Xed") of each tracker operation | WorkerKeys |
| `IssueLifecycle` | issues under every operation, with two-call commands of concurrent clients | IssueOps |
| `ServeFleet` | serves in implement mode, reclaiming operators, reviewers, hand-made claims, the registry | IssueOps |
| `ClaimLedger` | abstract: an issue waits, is held by one worker, is in review or done | - |
| `ServeReview` | serves in review mode beside implementers and people | IssueOps |
| `Triage` | both kinds of triage in serves and single cycles, up to the serve's own claim | IssueOps |
| `ProposalOps` | an inbox as a sequence of proposals, and what each call does to it | Missing |
| `ProposalChecks` | senders, checkers and people around directed checks | WorkerKeys |
| `ThreadOps` | a thread's entries: whose turn, what they conclude, the contract | Missing |
| `Negotiation` | drivers and finalizers of negotiation threads on the tracker | ThreadOps |
| `LocalThreads` | the same with `--mock`: threads in a file of the checkout | ThreadOps |
| `PmRequest` | the PM checkout, its state file and the projects' inboxes | ProposalOps |
| `AppServerAttempt` | one attempt: main thread, reader, remote commands, provider | Missing |
| `LeaseHeartbeat` | the heartbeat thread of that attempt against the lease's clock | - |
| `AgentRuns` | runs of one checkout and their files | Missing |
| `ServeProcess` | serve processes of a checkout: lock, signals, heartbeat, loop, exit code | Missing |
| `AuthorGuards` | the author guards of a checkout and the file that holds them | IssueOps |
| `WorkerRegistry` | the catalog under heartbeats, `workers remove` and `workers prune` | WorkerKeys |
| `ApiLogin` | the tokens of clients and threads, and the cache they share | Missing |
| `McpRuntime` | the settings caches and mutation locks of the MCP server | Missing |
| `ServeFleetProofs`, `WorkerRegistryProofs` | theorems about the module of that name | it, TLAPS |
| `AttemptProofs` | theorems about one attempt of an agent | AgentRuns, LeaseHeartbeat, AppServerAttempt, TLAPS |
| `ClientsProofs` | theorems about the clients of the tracker | IssueLifecycle, ApiLogin, McpRuntime, TLAPS |
| `NegotiationProofs` | theorems about threads, on the tracker and in a file | Negotiation, LocalThreads, TLAPS |
| `ProposalsProofs` | theorems about checks and requests | ProposalChecks, PmRequest, TLAPS |
| `CheckoutProofs` | theorems about the processes and the guards of a checkout | ServeProcess, AuthorGuards, TLAPS |
| `ServicesProofs` | theorems about reviewing and triage | ServeReview, Triage, TLAPS |
| `MCServeFleet` | values and symmetry for TLC | ServeFleet |
| `MCClients` | issue lifecycle, logins, settings, local threads, negotiations and PM requests, one `matter` at a time | IssueLifecycle, ApiLogin, McpRuntime, LocalThreads, Negotiation, PmRequest |
| `MCServices` | the fleet's liveness, triage, review, checks and key pairs, one `part` at a time | ServeFleet, Triage, ServeReview, ProposalChecks, KeyPairs |
| `MCCheckouts` | runs, serve process, guards, registry, attempt and lease, one `desk` at a time | AgentRuns, ServeProcess, AuthorGuards, WorkerRegistry, AppServerAttempt, LeaseHeartbeat |

The last three are sums, not products: their components share no state, so a
behaviour is about one of them and its first variable says which.  What does
interact is one module: serves, operators and tracker in `ServeFleet`; triage,
its holds and the claim of the same serve in `Triage`; main thread, reader,
remote commands and provider in `AppServerAttempt`.

Definitions keep the code's names where they can (`MatchesTarget` is
`_matches_target_worker`, `Flagged` is `detect_stale_claims`); `PROJECT.json`
maps each to its lines.  Operators marked "Fault:" are not part of any
specification: each is a wrong version of the definition below it, against
which a property has been seen to fail.

### The tracker (`IssueOps`, `IssueLifecycle`)

An issue is a record of model values.  Every operation of `testing/issues.py`
holds the surface's lock, so it is one step, with its guard and its effect kept
apart so that all specifications share them.  The guards are the contract's
and no stronger: `submit` takes an issue from any stage, `complete` is
unconditional, `request_changes` does not look at the stage.  A reclaim of an
issue that is back in the pool already is answered without a change; as the
caller learns nothing it did not expect, that is the failing branch here.

`IssueLifecycle` gives commands that read before they call (`reclaim`,
`readdress`, `approve`) two steps with anything in between, and records in
`builder` who last claimed an issue and from where: a history variable the code
does not have, to compare what the issue says with what happened.  A reclaim
leaves it alone: it is the issue that forgets its implementer then.  Work that
is submitted after its claim was reclaimed has no implementer, the separation
check has nothing to compare, and whoever claimed it last may approve it:
`BuilderNeverApproves` is about issues that name an implementer, and says so.

### The fleet (`ServeFleet`)

`pc[w]` is where the serve of checkout `w` is: `down`, at the top of a `poll`,
about to `claim`, in an agent `run`, about to `submit`, or in the two calls of
a release (`release`, `reclaim`).  Each API call is an action, and has up to
four outcomes: served, refused or never arrived, served with its answer lost,
or (for `claim_next`, `LateClaims`) timed out and served later.  `Stop` covers
every way a process ends: kill, second signal, requested stop, `--once`,
`--max-issues`.  `Start` needs the process to be down: serve.lock is an OS lock
and the kernel frees it.  `failures`, `lastFailed` and `givingUp` are the loop's
counters, written where the code writes them: an idle poll clears the count, a
recovery that finds nothing clears the last failed issue, the count is bounded
by the limit itself.  A failing pending hold, binary check, triage or recovery
read is `PollError`; a refusing local guard is `ClaimError`.

`fresh` holds the workers whose registry row has a recent `last_seen`.  A row
that was removed and one that is stale are treated alike by the orphan check.
Rows whose time stamp is missing or unreadable count as live in the code and do
not occur here.

The operator's `reclaim` is four steps: read, list workers, list claims and
detect, reclaim; `--force` skips the middle two.  One such command runs at a
time; several serves release concurrently through the same tracker call.

Assumed of constants (`FleetAssumption`): checkouts have distinct
machine-qualified keys, found by their own lookup and by no other's.

### Runs on disk (`AgentRuns`)

Each process starts one run, all in the same second, so they search the same
sequence of ids.  Every `exists()`, exclusive open and replace is a step.  A
status record keeps its owner (standing for the agent, issue, plan and log
fields), its status, whether it has a heartbeat, and whether its stamp is older
than `STALE_AFTER_SEC`.  `Age` lets that time pass whether or not the process
lives: a machine can be suspended, and a disk or git call can hang.  The two
logs of a run are opened together.  A replace is atomic (POSIX).
`issuekit runs` is two steps per record: the read that finds it stale, and the
write.

### The process around a loop (`ServeProcess`)

`serve[p]` is the record of one `issuekit serve`: where it is (`at`), its
options, the stop and abort events, signals received, failures, missed beats,
finished runs and the exit code.  The loop is `run_poll_loop` step by step, so
that a signal, a missed beat or a kill can come between any two of its lines.
`allowed` is a history variable: how many runs the poll under way may still begin
when a stop is first asked for (`MayBegin`), one less with each that begins after
it.  `lockOwner` is the OS lock on serve.lock;
the kernel frees it with its process, whatever the file says.  A cycle of
triage or checks makes up to `CycleRuns` agent runs before the loop looks again.

### Reviewing (`ServeReview`)

`desk[i]` is the issue as the tracker has it and `round[i]` counts its
submissions.  `at[r]` is where a reviewer is: polling, looking at the evidence,
in the run, or about to send a verdict; `reading[r]` is the issue and the
submission it read, which by the time of the verdict may be another one's.
`failedIds` is the code's set of excluded ids, with its reset when the pool is
otherwise empty, and `givenUp` the history of submissions whose review failed.
Builders submit again, people approve or complete, and any call may fail.

### Triage and its holds (`Triage`)

`mail` is the status of each proposal and `adoptedAs` the issue made of it.
`step[s]` follows one poll: retry the pending holds, list, handle proposals one
by one (judge, adopt, append, hold, tidy up, reply), and then the serve's own
claim.  `queue` is what the listing showed, `left` the remainder of the cycle's
limit, `memo` the process's copy of the state file.  `authored` distinguishes
mechanical adoption from an author agent, and the processes not in `serving`
run one cycle and exit, with holds that failed forgotten.  `sought` and `freed`
(the holds a process has asked for, the issues a person has released) are
history variables, to say whose claim of an adopted issue would be wrong.  An
adoption that is answered but whose text cannot be appended ends before the
hold, as one whose answer is lost does: neither is in `sought`, and the serve
may claim either issue at once.

### Checks (`ProposalChecks`)

`checker[s]` is the memory of one process: what it is doing, the check and the
status of the proposal it read, the ruling, the holds it owes.  The adoption, the
append of the agent's text and the hold are three steps, each of which may
fail; `sought` is what a process has ever asked to hold.  A check is
addressed to the bare or the qualified key of a worker, and `Candidates` and
`AddressOf` are how the sender's address is resolved against the rows present.
A cycle handles up to `CheckLimit` checks, the ones addressed to either of the
process's keys, in order; errors in a row end a looping process.

### Negotiations (`ThreadOps`, `Negotiation`, `LocalThreads`)

A thread is an append-only sequence of entries with a status, contract and refs;
a process's stale copy is the length it saw.  A driver resolves its thread
(resume or open), then per turn: look, let the agent speak, append, look again
and conclude on convergence, a block or the cap.  A finalizer creates the
provider's issue, the consumer's, and records both, in three calls.  Agents are
what they may say, a verdict and a contract.

With `--mock` there is no tracker (`LocalThreads`): a process reads the file of
threads when it starts, works on its `copy`, and after each change replaces the
file by it.  `saved` is the file.  What a process does between two saves is
local to it, so it is one step.

### PM requests (`PmRequest`, `ProposalOps`)

A command loads the state file, routes, and sends target by target with a save
after each; a dependency is the proposal of an earlier target.  A command may
be killed at any step and another started.  Projects adopt, discard or ask, and
an answer is an amended proposal followed by the discard of the question.
Deduplication is the tracker's: a pending proposal with the same source is
returned in place of a new one; the client refuses it if it has other words,
which after an answer it may always have.  The code sends the ready targets as
a batch before it looks for more, here any ready one is next: the orders
include the code's.  `request link` is two steps, the file being loaded before
the proposal is looked up.

### An App Server attempt (`AppServerAttempt`, `LeaseHeartbeat`)

`main` is the next call of the main thread, from listing sessions to releasing
the lease; after the turn has started it loops over: interrupt, heartbeat,
flush, commands, deadline.  `pending` is the list the reader thread appends to,
`sent` how much of it is under way.  The provider's part (`session`, `commands`,
`uploaded`, `lease`) is what the calls rely on: keys that make creation
idempotent, and fencing of a lost lease.  Errors swallowed by the teardown are
`SwallowedFails`, the others `StepFails`.

`LeaseHeartbeat` counts time in tenths of the lease's life: an interval is 4,
the limit since the last success 5, a retry 1.  `CallTicks` is the API timeout:
5 at the defaults, 30 s for a lease of 60 s, which is the value of the run; the
theorems have it open.

### Logins and settings (`ApiLogin`, `McpRuntime`)

`caller[t]` is where a thread's request is: away, at its login, sent, refused
and at its second login, sent again; or in one of the login commands.  A login
is made under the lock of the thread's client: post, read the cache, write it.
Tokens are numbered as the server hands them out; `lapsed` are those the clock
says are over, `dead` those the server refuses.  The cache is replaced by a
rename after it was read, and nothing locks it: `crossed` is a history variable
that says two such rewrites overlapped, `stored` what the last login or logout
of each URL left.

`tool[t]` is one call of a tool: it looks up the root, takes the root's mutation
lock if the tool changes something, and looks up the configuration.  A lookup
compares the signature of the entry with that of the files, which for the root
is taken before the cache is locked; if they differ it loads and signs under
the lock.  `version` stands for everything a signature looks at; an edit raises
it at any time.

### Guards and registry (`AuthorGuards`, `WorkerRegistry`)

`localFile` is issuekit.local.toml: guards and everything else in it, which each
writer reads as a whole and later writes back as a whole.  Shells author, claim,
implement or submit; the issue exists before its guard does.  The head of the
pool is refused to its author's session, as the tracker has it.

`catalog` maps a row's id (name and repo, as the client deletes it) to the
checkout that last registered it.  `workers remove` lists, looks at the claims
and deletes; `workers prune` lists, previews, asks, lists again and deletes,
each call a step.  Beats put rows back.

## Runs

| Run | Bounds | Shows |
|---|---|---|
| `fleet_claims` | 2 serves, 2 issues, limit 1, forced reclaims | `OneClaimPerWorker`; `ImplementsLedger` |
| `fleet_reclaim` | 2 serves, 1 issue, limit 2, hand-made and late claims, both kinds of reclaim | `TypeOK`, `ClaimsAreOwned`, `ReclaimTakesFromSilent` |
| `clients`: issue | 1 issue, 2 agents, 2 checkouts and none, 1 session and none, 2 clients | `DirectedClaimRespected`, `BuilderNeverApproves` |
| `clients`: login | 2 threads of one client and 1 process for another URL, 2 tokens handed out | `RefusedTokenReplacedOnce`, `CacheKeepsOthers` |
| `clients`: settings | 2 concurrent calls, 2 edits | `EditsAreNoticed` |
| `clients`: file | 2 processes, 1 issue, 2 threads, 2 rounds, 3 turns an agent may take | `FileIsOneHistory` |
| `clients`: negotiation | 2 drivers, 2 finalizers, 2 contracts, 3 rounds, 2 threads, 3 entries, 2 pairs of issues, 1 fault | `OneNegotiatingThread`, `ConvergedIsFinal`, `IssuesCarryAgreement` |
| `clients`: request | 1 command at a time, 3 projects, 3 routes, 3 proposals, 1 clarification, 1 fault | `PendingOnce`, `DependenciesFollowProjects`, `QuestionKeptUntilAnswered` |
| `checkouts`: runs | 2 processes in one second, 2 ids | `OneAgentPerId`, `EndedIsNotRunning`, `KilledLooksDead` |
| `checkouts`: serve | 2 processes of one checkout, 2 starts each, 8 command lines over all modes | `NoPollAfterStop` |
| `checkouts`: guards | 2 shells, one with a session token, 2 issues, 3 commands | `RunMaySubmit`, `GuardsKept` |
| `checkouts`: registry | 3 checkouts (two share a name, two a machine), 2 ways they are enrolled, 1 issue, 1 operator | `DeletesOnlyIdle`, `LiveIsListed` |
| `checkouts`: attempt | 2 notifications in batches of 1, 2 commands besides the attempt's own, 1 fault | `EventsInOrder`, `ClosedIsDone`, `AttemptEnds` |
| `checkouts`: lease | the default timeouts | `SilenceIsReported` |
| `services`: implement | 1 serve, 2 issues, limit 2, late claims | `HeldIsWorkedOff`, `OrphanIsFlagged` |
| `services`: triage | 3 proposals (one untrusted, one a reply that supersedes another), 1 process, 1 adoption per cycle, 2 faults | `SoughtIsHeldAtClaim`, `MatchingIsDecided` |
| `services`: review | 2 issues, 1 reviewer, builders with and without its agent, 2 submissions each, 2 failures | `NoSecondRunOnFailure`, `CompletedIsFinal`, `EveryReviewTried` |
| `services`: checks | 1 proposal, 2 checks, 1 looping and 1 one-cycle process sharing a bare key, 2 checks per cycle, 1 fault | `ApprovalHasIssue`, `HeldBeforeNextCycle`, `CheckIsAnswered` |
| `services`: keys | 2 names, 2 repos, 2 machines, parts missing | `KeysAgree` |
| `fleet_resumed` | 2 serves, 1 issue | counterexample to `ResumedHolderKeepsClaim` |
| `fleet_give_up` | 2 serves, 1 issue, limit 3 | counterexample to `ReleasesOwnClaim` |
| `checks_held` | as `services` | counterexample to `ApprovedIsHeld` |
| `serve_stop` | as `checkouts` | counterexample to `StopsAfterCurrentRun` |
| `settings_cached` | 2 concurrent calls, 2 edits | counterexample to `ToolsSeeEdits` |
| `agent_runs_reserve` | 2 processes | counterexample to `ReservedOnce` |
| `agent_runs_result` | 1 process | counterexample to `OwnResultKept` |

The types of most modules are proved, not run: `FleetTypes`, `LifecycleTyped`,
`RunsTypes`, `LoginTyping`, `RegistryTyped` and `HeartbeatTyped` are theorems, and
the other inductive invariants have the types among their parts.

Why these bounds.  Two serves are enough for every race of the fleet, as each
call concerns one serve, one issue and the tracker; two issues are needed for a
checkout to hold two, and one is enough for what is said of one issue.  A limit
of 2 has a failing poll before the limit and one at it; `fleet_claims`, whose
properties do not look at the count, has both issues and a limit of 1.  Two processes around
one run id, two serves around one lock, two shells around one file and two
drivers around one thread are where their races are; a third repeats them.
Reviews need a second issue for one to be excluded while another is there, and
a second submission for a verdict to be late.  Triage needs one proposal that
is passed over in front of two that match, with a limit of one, so that the
limit could starve the last.  Checks need two of one proposal, in one cycle and
under both keys.  One fault is a single call that fails, or is served and not
answered, at any place; triage has two, so that a hold fails and its retry
fails as well.  Two pairs of issues let a second finalization follow, or race,
one that was interrupted.  A heartbeat's clock runs over its whole range.  The
theorems below cover all sizes.  Where names play no part (the checkouts of a
fleet, the processes and machines of `clients`) they are declared
symmetric; runs with a liveness property declare no symmetry.

The deadlock check is off where a bounded behaviour really stops: all processes
have ended, or the bound on commands, threads or starts is used up.  The fleet
keeps it on.

### Fairness

- Services, implement part (`ServicesSpec`): weak fairness of `ServeStep(w)`, as
  every API call and every agent run has a timeout, so that a serve that is not
  stopped takes its next step; and of the row of a dead worker growing old.  A lost answer or a
  failing call may recur for ever: `HeldIsWorkedOff` holds all the same because
  the failure limit ends in a release or in the end of the process.  It is
  checked without hand-made claims: with them a second held issue starves as
  long as people keep claiming lower ids in the same checkout.
- Checkouts (`DeskSpec`): weak fairness of each run's own steps, of time
  passing over a record, of the beats of a checkout that is serving (a thread on
  a timer), of an attempt's main thread, whose calls time out, and of its
  deadline, a clock.  Nobody is assumed to run `issuekit runs` or to prune, and
  the turn may never report its end.
- Services, other parts: weak fairness of each looping process's next step.
  The environment owes nothing: people need not decide, builders need not
  submit, one-cycle processes need not be started.

Nowhere is a process obliged to start, or a person to act.

### What the counterexamples say

- `ResumedHolderKeepsClaim`: the race guard of a reclaim is the worker's key.
  It catches another worker, but not the same worker back at work.
- `ReleasesOwnClaim`: at the failure limit serve releases the issue that failed
  last, with force.  If the claim was reclaimed and taken by another checkout
  in between, it is the other checkout's claim that is released.
- `ApprovedIsHeld`: an adoption whose answer was lost, or whose text could not be
  appended, is found done by the next check of the same proposal, which is
  answered as approved; nobody holds the issue.  What still holds is
  `HeldBeforeNextCycle`: what a process has asked to hold is held before it
  lists again.  An author agent's triage has the same gap (`proposals/adopt.py:155`
  raises before the hold at the caller), and the serve's own claim comes next;
  `SoughtIsHeldAtClaim` is about the holds that were asked for.
- `StopsAfterCurrentRun`: `docs/guides/serve.md:162` lets the current run finish and
  the loop exit afterwards.  A cycle of triage or checks looks only at the abort
  event between its runs (`agents/proposal_check.py:141`,
  `agents/triage_author.py:183`) and goes on after a first signal.  What still
  holds, in every mode, is `NoPollAfterStop`: only the poll in which the stop
  came begins runs.  A stop during the claim of the other two modes does not
  keep the run it leads to from being begun either.
- `ToolsSeeEdits`: `docs/guides/mcp-server.md:159` says the server re-reads its
  settings on each call.  An edit that comes between the load of a file and the
  signature taken after it is not seen until the next edit.  What still holds
  is `EditsAreNoticed`: no call works with an entry signed before an edit that
  preceded it.
- `ReservedOnce`: a run may look for the status file before its peer writes it
  and for the lock after its peer removed it.  What still holds is
  `OneAgentPerId`: the exclusive open of the logs stops the second one, after
  it has overwritten the first one's record.
- `OwnResultKept`: `issuekit runs` may replace `completed` by `abandoned`.

### Met on the way

What the models show and no run of its own states:

- A stop that is counted as the last allowed failure exits with 1 and releases
  the claim (`commands/serve/loop.py:114`), where a graceful stop exits with 0.
- A check that is judged "approve" on a proposal a person discarded fails in
  every cycle, until a looping process stops on its errors.
- A remote command that arrives as the turn completes is claimed where the
  attempt expects its own close command, and the attempt fails; so does a
  remote close in mid-turn.
- Two finalizers each create a pair of issues; the later refs win.  Both pairs
  carry the agreement (`IssuesCarryAgreement`), one is orphaned.
- A hold that is retried late may put back an issue a person released.
- With the default timeouts (`CallTicks = 5`) a lease may lapse on the server up
  to four ticks, 24 s, before the thread reports it: it looks at the half-life
  only between calls, and counts from the answer, not from the extension.
  `SilenceIsReported` is the bound that holds; below three ticks it implies that
  the report comes before the lapse.  The guides promise retries until half
  the lease time and no more, so this contradicts none of them; the provider's
  fencing is what protects the session.
- Work that is submitted after a reclaim has no implementer, and its builder may
  approve it (see *The tracker*).
- Overlapping runs of `negotiate --mock` lose entries: the last to save wins.
  What is never lost is a thread that makes sense (`FileIsOneHistory`).
- Two logins at once lose one cached token (`api/token_cache.py:65`), which costs
  another login; `CacheKeepsOthers` is about rewrites that do not overlap.
- A row is deleted by name and repo, which another machine may own by then;
  its next beat puts it back (`LiveIsListed`).

## Proofs

All theorems are checked by TLAPS from the modules' named assumptions only, for
any values of the constants that meet them, all bounds included.  With them
every invariant and every action property that a passing run checks is a
theorem.  In most modules the inductive strengthening is the definition named
`...IInv`.

What is assumed of constants:

| Assumption | Says | Why |
|---|---|---|
| `FleetAssumption` | checkouts have distinct machine-qualified keys, found by their own lookup and by no other's; the limit is a number | what registration is for; the runs show what happens to keys that are not (`KeysAgree`) |
| `RunnersAssumption` | finitely many processes start in the second | - |
| `LifecycleAssumption` | a registered checkout has a name and a repo; an agent's default reviewer is another agent | `workers/identity.py` resolves both ids or refuses; the first other configured assignee is taken |
| `GuardAssumption` | the session a run is started with is no shell's own token | `session.py:47` draws it at random |
| `PmAssumption` | finitely many projects; routes are of the kind the router's answer is checked to be | `agents/router.py` refuses others |
| `NegotiationAssumption`, `LocalAssumption` | turns are of the kind `rounds.py` parses; at least one round | it refuses others |
| `TriageAssumption`, `CheckAssumption`, `ReviewAssumption`, `RegistryAssumption`, `OptionsAssumption`, `AttemptAssumption`, `LoginAssumption`, `RuntimeAssumption`, `NamesAssumption`, `CallTicksAssumption` | types of the parameters; limits on a cycle or a batch are at least 1 | - |

Two pairs of theorems have a hypothesis of their own, each of which says what
the property needs and the code alone does not give:

- `FleetOneClaim` and `FleetImplementsLedger`: only serves claim, and no request
  is served late (`ServeOnly`).
- `OnePendingProposal` and `QuestionsStay`: `OneCommand`, one PM command at a
  time.  Two that load the state file together take the same request id, and
  the later save drops what the earlier one recorded
  (`commands/request/state.py:145`).  `DependenciesKept` needs no such hypothesis.

`ServeFleetProofs`

- `FleetTypes`: `Spec => [](TypeOK /\ GivesUpAtLimit)`.  `TypeOK` is not
  inductive alone: a count at the limit could be raised once more.  That it is
  only at the limit while the process gives up is `GivesUpAtLimit`, and the two
  together are.
- `FleetClaimsOwned`: by the classification of what one step may do to one
  issue (`Touched`): it is claimed for a worker, put down, submitted, reviewed,
  or left alone.  The lemma `NextTouches` has the case analysis over all
  actions, and each property needs one argument per kind of touch.
- `FleetOneClaim`: the strengthening is `ClaimWindow`: without late requests, a
  serve about to claim holds nothing.  It needs that a worker only gains a
  claim by its own claim step (`OnlyTakerGains`).
- `FleetReclaimsFromSilent`: the strengthening is `ChecksHolder`: an unforced
  command about to reclaim expects a worker whose rows were all silent at the
  listing.
- `FleetImplementsLedger`: every touch is a step of the ledger or stutters;
  `OneClaimPerWorker` and `ClaimWindow` give the guard of `Acquire`.

`AttemptProofs`

- `RunsTypes`: that ids stay in `1 .. Cardinality(Runners)` is a counting
  argument.  Every id below a process's own was taken by a process that keeps
  it (`SkipsTaken`), so a process with id n has n - 1 others below it
  (`IdsSuffice`).
- `RunsOneAgent`: whoever has launched has its id among the existing logs, and
  the open is exclusive.
- `RunsEnded`: if an ended run's record is at running, another process that
  keeps the same id wrote it (`RunningByOther`); the join of the watcher is
  what rules out the run's own thread.
- `HeartbeatTyped`, `SilenceReported`: for every `CallTicks`, linear bounds between the thread's timer,
  the time since its last success and the lease's age, one for waiting
  (`WaitBound`) and one for calling (`CallBound`).
- `AttemptInvariant`, `EventsArriveInOrder`, `ClosedMeansDone`: `AttemptIInv` has
  three parts.  `EventsKept`: `pending` is the unbroken end of what the reader
  was told, `uploaded` an unbroken beginning, and they meet or overlap, by what
  of a batch was stored before its answer was lost.  `CommandsKept`: for each
  group of the main thread's places, which commands there are, which is in
  hand, and what the exit code and the session may say.  `EndKept`: a turn is
  acknowledged only after the event that ended it was stored.

`ClientsProofs`

- `LifecycleTyped`, `DirectedClaims`, `BuildersDoNotApprove`: the properties
  compare an issue with the history variable `builder`.  `OnRecord` is what an
  issue shows of its last claim in each stage: while implemented the assignee,
  and the checkout if the issue is directed; later the implementer, and the
  checkout if it was registered.  Every operation keeps it, including those
  that rewrite the fields only in part; `CallOK` types the calls under way.
- `LoginTyping`, `OneLoginReplacesToken`, `CacheIsKept`: `Holding` says who has the
  login lock where, so that nobody replaces the token between a thread's check
  and its request (`Refusals`); `Writing` that, as long as no two rewrites
  overlapped, the one under way began from the file as it is.
- `EditsNoticed`: `CallInOrder`, the order of a call's start, what it has seen and
  what it loads.  An entry is good for a call that began after its signature
  was last confirmed, or it has the window described above.

`NegotiationProofs`

- `OriginHeldBack`, `NothingAfterConclusion`, `AgreementsCarried`: an entry is
  appended where the server finds the thread as long as the process has seen
  it, and then the process's copy is the thread (`TalkInOrder`).  With the
  lemmas on what entries conclude (`Regular`: sides alternate, nothing follows
  a conclusion) a concluded thread stays so, its contract with it, which ties
  the issues made of it to what both sides said (`IssuesInOrder`).
- `HistoryIsKept`: every step lemma concludes `NegotiationKept`, the invariant and
  what the step may not undo, so the action property (`NothingTakenBack`) comes
  with the invariant.  It holds on the tracker only: of a local file (below)
  the later of two overlapping processes drops what the earlier one wrote.
- `FileStaysWhole`: no process sees another's work after its start, so the
  invariant holds of the file and of every copy by itself (`Sound`); and a
  replaced file is one of the copies.

`ProposalsProofs`

- `ApprovalsHaveIssues`: `SubjectOK`, that a proposal read as adopted, or adopted
  by the process, still is when the answer is posted.
- `HoldsComeFirst`: `HoldsAccounted`, that each hold a process has asked for is in
  place, is under way, or is owed; listing needs nothing owed.  The proof is
  for every `CheckLimit`: an earlier and stronger property, that an answer comes
  after the hold, was true for a limit of one only.
- `PmInvariant`, `DependenciesKept`: the saved targets are sound in the file and in
  every copy (`FileOK`).  The index a new target gets is a count
  (`TargetIndex`); `CountStep`, `CountGrows` and `CountReaches` show that counting
  the new ones numbers them one by one, in order and without a gap, from which
  `MergedFacts` has what the merged list is at each index.
- `OnePendingProposal`, `QuestionsStay`: `PmSolo`, which needs `OneCommand`: the copy
  at work is the file, or what the file has grown from; each proposal names a
  target that the file has.
- `FileOnlyGrows`: under `OneCommand` too, from the same step lemmas (`PmKept`):
  what a command writes is `FileGrows` of the copy it read, and that copy is
  the file.  With two commands a save can drop a request (see the hazards).

`CheckoutProofs`

- `OneServePerCheckout`: who is past the lock owns it.
- `StopEndsTheLoop`: `StopIsKept`: a stop is never taken back, and as long as the
  poll goes on it is allowed what it may still begin.
- `GuardsStay`: as long as no two rewrites overlap, the one under way has in its
  copy every guard but those it clears (`CopiesKeep`).
- `RunsReachSubmit`: only a run has a session of its own (`ShellSound`), and no
  guard in the file was recorded with a run's session.

`ServicesProofs`

- `FailedReviewNotRepeated`: inductive with `GivenUpIsExcluded`: a submission a
  process has given up on, if it is still the current one and in the pool, is
  among the ids it excludes.  The reset of the ids when the pool is otherwise
  empty is the case the proof turns on.
- `ApprovalIsFinal`: by cases on the steps; no guard of a verdict or a
  submission takes a completed issue.
- `SoughtAreHeld`: `MindOK`, what a triage process asked to hold is out of the pool
  or owed a hold, and owed past the retries only if a hold has failed in
  this cycle, in which case it does not come to claim.

`WorkerRegistryProofs`

- `KeysAlike`: by cases on which parts of two keys are missing (`OwnClaimFound`
  and the lemmas after it), for any names, repos and machines.
- `RegistryTyped`, `DeletedWasIdle`: `Careful`, what an operator's memory says at
  each step of a command about the rows it listed, and `TicketsOwned`, that an
  issue names its holder by one of that checkout's keys.

Three techniques recur.  A step is first classified (it touches one issue, one
thread, one process) and what it preserves is a lemma per class.  `Min` and `Max`
are `CHOOSE`s, whose witnesses come from the well-foundedness of the order on
the naturals (`LeastNumber`).  What a filtered list has at an index is stated by
counting, since the provers cannot unfold `SelectSeq`; `Merged` and `WithBatch` are
written that way.

Only model-checked: the liveness properties (`HeldIsWorkedOff`, `OrphanIsFlagged`,
`KilledLooksDead`, `LiveIsListed`, `MatchingIsDecided`, `EveryReviewTried`,
`CheckIsAnswered`, `AttemptEnds`), as fairness and ENABLED are out of the prover's
reach, and the counterexamples.  Recursive operators are avoided throughout.

## Not modelled

What `PROJECT.json` lists as not modelled, each with its reason: read-only agent
roles and prompts (text around one run), encoding checks (bytes of files), argument parsing, setup
and developer tools.

Within the modelled parts: backoff times, logging, priorities and filters of
listings, the wording of what agents read and write (only what they decide), an
agent's edits, branches and worktrees (a guard that looks at git is a refusal),
the process group of an agent (a killed serve may leave its agent running),
Windows' fallback of an in-place status write, rows without a readable time
stamp (they count as live), paging through a list, recovery's limit to the first 100
sessions, the result file an attempt writes after its teardown
(`agents/app_server_runtime.py:617`).  Two PM commands at once are in the model and in `DependenciesKept`,
not in the runs: the state file has no lock and nothing more is promised.

After a serve gave up on a claim whose answer it never saw, a claim may remain
until the next start in that checkout; the orphan check is what reports it
(`OrphanIsFlagged`).

## Plan

Done: every component that keeps state across calls, with its runs; theorems for
every safety property of a passing run.

Left, in this order:

1. Refinements: `ServeReview` against a ledger of reviews, `Triage` and
   `ProposalChecks` against one specification of automatic adoption, and
   `LocalThreads` against threads that one process writes.
2. The remaining type invariants of the inductive ones as theorems of their own.
3. Larger instances: two triage processes, two reviewers with resubmissions.
4. The removal of a repo from the registry; two PM commands at once, and what
   the state file then still keeps.
