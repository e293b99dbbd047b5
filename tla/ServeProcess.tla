---------------------------- MODULE ServeProcess ----------------------------
(***************************************************************************)
(* The `issuekit serve` processes of one checkout (commands/serve/): the   *)
(* lock that lets one of them run, the two stages in which signals stop    *)
(* it, the heartbeat thread that may ask it to stop as well, and the poll  *)
(* loop that decides when it goes on and with which code it exits.         *)
(***************************************************************************)
EXTENDS Missing, Integers

CONSTANTS
    Serves,         \* processes, each started any number of times
    ServeOptions,   \* [Serves -> the command lines it may be started with]
    CycleRuns,      \* bound: agent runs of one cycle of triage or checks
    MaxStarts       \* bound: processes that are started

(* Of a command line: the mode (triage: implement with an agent to triage),   *)
(* --once, and --max-issues, --max-run-failures and --max-heartbeat-failures. *)
OptionsAssumption ==
    /\ None \notin Serves
    /\ \A p \in Serves :
          ServeOptions[p] \subseteq
             [mode : {"implement", "review", "triage", "checks"}, once : BOOLEAN,
              maxCount : Nat, maxFailures : Nat, maxMissed : Nat]
    /\ CycleRuns \in Nat \ {0} /\ MaxStarts \in Nat

ASSUME OptionsAssumption

VARIABLES
    serve,      \* each process
    lockOwner,  \* whose descriptor holds the kernel's lock on serve.lock
    starts

processVars == <<serve, lockOwner, starts>>

Down ==
    [at |-> "down", opts |-> None, stop |-> FALSE, abort |-> FALSE, signals |-> 0,
     failures |-> 0, missed |-> 0, count |-> 0, runs |-> 0, exit |-> None,
     allowed |-> 0]

ProcessInit ==
    /\ serve = [p \in Serves |-> Down]
    /\ lockOwner = None /\ starts = 0

Is(p, steps) == serve[p].at \in steps

Set(p, changes) == serve' = [serve EXCEPT ![p] = With(@, changes)]

(* Where the heartbeat thread beats, and where the handlers are installed. *)
Beating(p) ==
    Is(p, {"loop", "cycle", "cycleRun", "claim", "run", "good", "bad", "sleep"})

Handled(p) == Beating(p) \/ Is(p, {"beat", "leave"})

(* A poll that goes over what came in asks an agent about each: the triage   *)
(* author before it claims, the proposal checks instead.                     *)
Cycles(p) == serve[p].opts.mode \in {"triage", "checks"}

Limit(p) == serve[p].opts.maxFailures

(* How many agent runs a process may still begin before it looks at the stop  *)
(* flag: what is left of a cycle, and the run that a claim leads to.         *)
MayBegin(process) ==
    IF process.at = "claim" THEN 1
    ELSE IF process.at \notin {"cycle", "cycleRun"} THEN 0
    ELSE CycleRuns - process.runs + (IF process.opts.mode = "triage" THEN 1 ELSE 0)

(* allowed is a ghost, set when a stop is first asked for: the runs that the  *)
(* poll it came in may still begin, one less with each that begins after it. *)
Stop(process) ==
    IF process.stop THEN process
    ELSE With(process, [stop |-> TRUE, allowed |-> MayBegin(process)])

-----------------------------------------------------------------------------
(* Starting *)

(* The command line is valid, the agent is there and .agent-runs is safe. *)
PrepareServe(p, opts) ==
    /\ Is(p, {"down"}) /\ starts < MaxStarts
    /\ starts' = starts + 1
    /\ serve' = [serve EXCEPT ![p] = [Down EXCEPT !.at = "lock", !.opts = opts]]
    /\ UNCHANGED lockOwner

TakeLock(p) ==
    /\ Is(p, {"lock"})
    /\ IF lockOwner = None
       THEN lockOwner' = p /\ Set(p, [at |-> "beat"])
       ELSE UNCHANGED lockOwner /\ Set(p, [at |-> "down", exit |-> 1])
    /\ UNCHANGED starts

(* A count past its limit asks for nothing, and need not be told apart. *)
Missed(p) ==
    LET limit == serve[p].opts.maxMissed
        missed == IF serve[p].missed > limit THEN limit + 1 ELSE serve[p].missed + 1
        counted == With(serve[p], [missed |-> IF limit = 0 THEN 0 ELSE missed])
    IN  IF limit > 0 /\ missed = limit THEN Stop(counted) ELSE counted

Beaten(p, ok) == IF ok THEN With(serve[p], [missed |-> 0]) ELSE Missed(p)

(* The first beat is the main thread's, before the thread starts. *)
FirstBeat(p, ok) ==
    /\ Is(p, {"beat"})
    /\ serve' = [serve EXCEPT ![p] = [Beaten(p, ok) EXCEPT !.at = "loop"]]
    /\ UNCHANGED <<lockOwner, starts>>

ThreadBeats(p, ok) ==
    /\ Beating(p)
    /\ serve' = [serve EXCEPT ![p] = Beaten(p, ok)]
    /\ UNCHANGED <<lockOwner, starts>>

HandleSignal(p) ==
    /\ Handled(p) /\ serve[p].signals < 2
    /\ serve' = [serve EXCEPT ![p] = With(Stop(@), [signals |-> serve[p].signals + 1,
                                                    abort |-> serve[p].signals = 1])]
    /\ UNCHANGED <<lockOwner, starts>>

-----------------------------------------------------------------------------
(* Polling *)

Steps(p, changes) == Set(p, changes) /\ UNCHANGED <<lockOwner, starts>>

Leaves(p, code) == Steps(p, [at |-> "leave", exit |-> code])

(* Fault: a stop ends a wait, and nothing looks at it afterwards. *)
PollsAnyway(p) ==
    /\ Is(p, {"loop"})
    /\ Steps(p, [at |-> IF Cycles(p) THEN "cycle" ELSE "claim", runs |-> 0])

Polls(p) ==
    /\ Is(p, {"loop"})
    /\ IF serve[p].stop THEN Leaves(p, 0)
       ELSE Steps(p, [at |-> IF Cycles(p) THEN "cycle" ELSE "claim", runs |-> 0])

Idles(p) ==
    IF serve[p].opts.once THEN Leaves(p, 0)
                          ELSE Steps(p, [at |-> "sleep", failures |-> 0])

(* aborted: an implementing or reviewing run has failed and the flag is set. *)
Fails(p, code, aborted) ==
    LET failures == serve[p].failures + 1
    IN  IF Limit(p) > 0 /\ failures >= Limit(p) THEN Leaves(p, 1)
        ELSE IF serve[p].opts.once THEN Leaves(p, code)
        ELSE IF aborted \/ (serve[p].opts.mode = "checks" /\ serve[p].stop)
        THEN Leaves(p, 0)
        ELSE Steps(p, [at |-> "sleep", failures |-> IF Limit(p) > 0 THEN failures ELSE 0])

Succeeds(p) ==
    LET count == serve[p].count + 1
        max == IF serve[p].opts.mode = "checks" THEN 0 ELSE serve[p].opts.maxCount
    IN  IF serve[p].opts.once \/ (max > 0 /\ count >= max) THEN Leaves(p, 0)
        ELSE Steps(p, [at |-> IF serve[p].opts.mode = "checks" THEN "sleep" ELSE "loop",
                       failures |-> 0, count |-> IF max > 0 THEN count ELSE 0])

Launches(p, at) ==
    Steps(p, [at |-> at, runs |-> serve[p].runs + 1,
              allowed |-> IF serve[p].stop THEN serve[p].allowed - 1 ELSE 0])

(* A cycle looks at the abort flag between its runs, and at nothing else. *)
ReadsNext(p) ==
    /\ Is(p, {"cycle"}) /\ ~ serve[p].abort /\ serve[p].runs < CycleRuns
    /\ Launches(p, "cycleRun")

CycleRunEnds(p) == Is(p, {"cycleRun"}) /\ Steps(p, [at |-> "cycle"])

CycleOver(p) ==
    /\ Is(p, {"cycle"})
    /\ IF serve[p].opts.mode = "triage" THEN Steps(p, [at |-> "claim"])
       ELSE IF serve[p].runs = 0 THEN Idles(p)
       ELSE Succeeds(p)

(* The list cannot be read, a hold was not placed, a check was not answered. *)
CycleFails(p) == Is(p, {"cycle"}) /\ Fails(p, 1, FALSE)

FindsNothing(p) == Is(p, {"claim"}) /\ Idles(p)

ClaimFails(p) == Is(p, {"claim"}) /\ Fails(p, 1, FALSE)

(* An issue was claimed, recovered or found to review. *)
RunsAgent(p) == Is(p, {"claim"}) /\ Launches(p, "run")

(* By itself, by its timeout, or interrupted. *)
RunOver(p, at) ==
    /\ Is(p, {"run"})
    /\ at = "good" => ~ serve[p].abort
    /\ Steps(p, [at |-> at])

RunSucceeded(p) == Is(p, {"good"}) /\ Succeeds(p)

(* 124 for a timeout; a good run may fail the gates, or its submit.  failed:  *)
(* reported as a failed run and not as an error.                             *)
RunFailed(p, code, failed) ==
    /\ Is(p, {"good", "bad"})
    /\ Fails(p, code, failed /\ serve[p].abort)

(* The interval or the backoff is over, or the event ends the wait early. *)
LoopWakes(p) == Is(p, {"sleep"}) /\ Steps(p, [at |-> "loop"])

(* The heartbeat thread is joined, the handlers are restored, the file closed. *)
Exits(p) ==
    /\ Is(p, {"leave"})
    /\ serve' = [serve EXCEPT ![p] = [Down EXCEPT !.exit = serve[p].exit]]
    /\ lockOwner' = None /\ UNCHANGED starts

(* SIGKILL, or a signal before the handlers are there. *)
KilledHard(p) ==
    /\ ~ Is(p, {"down"})
    /\ serve' = [serve EXCEPT ![p] = Down]
    /\ lockOwner' = IF lockOwner = p THEN None ELSE lockOwner
    /\ UNCHANGED starts

-----------------------------------------------------------------------------
MainThread(p) ==
    \/ TakeLock(p) \/ FirstBeat(p, TRUE) \/ FirstBeat(p, FALSE)
    \/ Polls(p) \/ ReadsNext(p) \/ CycleRunEnds(p) \/ CycleOver(p) \/ CycleFails(p)
    \/ FindsNothing(p) \/ ClaimFails(p) \/ RunsAgent(p)
    \/ RunOver(p, "good") \/ RunOver(p, "bad") \/ RunSucceeded(p)
    \/ \E code \in {1, 124}, failed \in BOOLEAN : RunFailed(p, code, failed)
    \/ LoopWakes(p) \/ Exits(p)

ProcessNext ==
    \E p \in Serves :
        \/ \E opts \in ServeOptions[p] : PrepareServe(p, opts)
        \/ MainThread(p)
        \/ \E ok \in BOOLEAN : ThreadBeats(p, ok)
        \/ HandleSignal(p) \/ KilledHard(p)

ProcessSpec == ProcessInit /\ [][ProcessNext]_processVars

-----------------------------------------------------------------------------
(* Properties *)

(* Every variable has its type, and one process at most is past the lock,     *)
(* which it holds until it is gone, killed or not.                           *)
ProcessTypes ==
    /\ lockOwner \in Serves \cup {None} /\ starts \in 0 .. MaxStarts
    /\ \A p \in Serves :
          /\ Is(p, {"down", "lock"}) \/ lockOwner = p
          /\ ~ Is(p, {"down"}) =>
                /\ serve[p].opts \in ServeOptions[p]
                /\ Limit(p) > 0 => serve[p].failures < Limit(p)
          /\ serve[p].abort => serve[p].stop
          /\ serve[p].exit \in {None, 0, 1, 124} /\ serve[p].runs \in 0 .. CycleRuns + 1

(* Once a stop was asked for, by a signal or by the heartbeat, only the poll  *)
(* it came in begins agent runs, and no more than it had left to begin:      *)
(* whatever fails, succeeds, waits or wakes afterwards, no further poll does. *)
(* So a stop during a wait or an implementing or reviewing run is followed   *)
(* by no run, one during a claim by the run it leads to, and one during a    *)
(* cycle of triage or of checks, which never looks at the flag, by the rest  *)
(* of the cycle.                                                            *)
NoPollAfterStop ==
    \A p \in Serves : serve[p].allowed >= 0

(* What the guide says of a stop in every mode: once it is asked for, and an  *)
(* agent run of the poll is over, the loop exits and begins no other run.    *)
StopsAfterCurrentRun ==
    [][\A p \in Serves :
          ReadsNext(p) \/ RunsAgent(p) => ~ (serve[p].stop /\ serve[p].runs > 0)]_processVars
=============================================================================
