----------------------------- MODULE AgentRuns ------------------------------
(***************************************************************************)
(* Headless agent runs of one checkout (agentrun/): processes that start   *)
(* runs in the same second, each with its status watcher thread, and       *)
(* `issuekit runs`, which reads the records they leave in .agent-runs/.    *)
(*                                                                         *)
(* A run reserves an id, writes a record, opens its logs, launches the     *)
(* agent, and writes the final record when the agent ends.  The files are  *)
(* all there is between the processes: every exists(), open and replace is *)
(* a step of its own, and a process may be killed between any two.         *)
(***************************************************************************)
EXTENDS Missing, Naturals, FiniteSets

CONSTANT
    Runners    \* processes that start one run each, in the same second

ASSUME RunnersAssumption == IsFiniteSet(Runners)

VARIABLES
    file,      \* <id>.status.json: a record, or None
    lock,      \* ids whose <id>.lock exists
    logs,      \* ids whose <id>.out.log exists
    pc,        \* where each process is; "gone" when it was killed or raised
    try,       \* the id it is trying, later the id it runs under
    watching,  \* processes whose watcher thread may still write
    result,    \* the terminal status a process has determined
    merged,    \* the record _finalize_status read before its write
    seen       \* the stale record `issuekit runs` read of an id, or None

runVars == <<pc, try, watching, result, merged>>
vars == <<file, lock, logs, runVars, seen>>

(* The n-th id of the second: base, base-02, base-03, ... *)
Ids == 1 .. Cardinality(Runners)

Results == {"completed", "failed", "timed_out"}

(* owner stands for the agent, issue, plan and logs a record names, stamp   *)
(* for the age of its heartbeat_at, or of started_at before the first beat. *)
Running(r, beat) ==
    [owner |-> r, status |-> "running", beat |-> beat, stamp |-> "recent"]

(* Fault: only a heartbeat can go stale. *)
IsStaleByBeat(rec) ==
    rec.status = "running" /\ rec.beat /\ rec.stamp = "old"

IsStale(rec) == rec.status = "running" /\ rec.stamp = "old"

IsDead(rec) == IsStale(rec) \/ rec.status = "abandoned"

Init ==
    /\ file = [i \in Ids |-> None]
    /\ lock = {}
    /\ logs = {}
    /\ pc = [r \in Runners |-> "exists"]
    /\ try = [r \in Runners |-> 1]
    /\ watching = {}
    /\ result = [r \in Runners |-> None]
    /\ merged = [r \in Runners |-> None]
    /\ seen = [i \in Ids |-> None]

-----------------------------------------------------------------------------
(* _reserve_run_id *)

Goto(r, step) == pc' = [pc EXCEPT ![r] = step]

NextId(r) ==
    /\ try' = [try EXCEPT ![r] = @ + 1]
    /\ Goto(r, "exists")

StatusExists(r) ==
    /\ pc[r] = "exists"
    /\ IF file[try[r]] # None
       THEN NextId(r)
       ELSE Goto(r, "locked") /\ UNCHANGED try
    /\ UNCHANGED <<file, lock, logs, watching, result, merged, seen>>

LockExists(r) ==
    /\ pc[r] = "locked"
    /\ IF try[r] \in lock
       THEN NextId(r)
       ELSE Goto(r, "create") /\ UNCHANGED try
    /\ UNCHANGED <<file, lock, logs, watching, result, merged, seen>>

(* O_EXCL: of several processes that got here at once one creates it. *)
CreateLock(r) ==
    /\ pc[r] = "create"
    /\ IF try[r] \in lock
       THEN NextId(r) /\ UNCHANGED lock
       ELSE /\ lock' = lock \cup {try[r]}
            /\ Goto(r, "record") /\ UNCHANGED try
    /\ UNCHANGED <<file, logs, watching, result, merged, seen>>

-----------------------------------------------------------------------------
(* The rest of _prepare_run_files, the launch, and the run *)

Write(r, rec) == file' = [file EXCEPT ![try[r]] = rec]

WriteRecord(r) ==
    /\ pc[r] = "record"
    /\ Write(r, Running(r, FALSE))
    /\ Goto(r, "unlock")
    /\ UNCHANGED <<lock, logs, try, watching, result, merged, seen>>

ReleaseLock(r) ==
    /\ pc[r] = "unlock"
    /\ lock' = lock \ {try[r]}
    /\ Goto(r, "logs")
    /\ UNCHANGED <<file, logs, try, watching, result, merged, seen>>

(* Fault: the logs are opened without O_EXCL. *)
OpenLogsShared(r) ==
    /\ pc[r] = "logs"
    /\ logs' = logs \cup {try[r]}
    /\ Goto(r, "launch")
    /\ UNCHANGED <<file, lock, try, watching, result, merged, seen>>

(* O_EXCL again: the second process to open them raises FileExistsError. *)
OpenLogs(r) ==
    /\ pc[r] = "logs"
    /\ logs' = logs \cup {try[r]}
    /\ Goto(r, IF try[r] \in logs THEN "gone" ELSE "launch")
    /\ UNCHANGED <<file, lock, try, watching, result, merged, seen>>

LaunchFails(r) ==
    /\ pc[r] = "launch"
    /\ Write(r, [Running(r, FALSE) EXCEPT !.status = "failed"])
    /\ Goto(r, "ended")
    /\ UNCHANGED <<lock, logs, try, watching, result, merged, seen>>

(* Popen, the record with the pid, and the watcher's start. *)
Launch(r) ==
    /\ pc[r] = "launch"
    /\ Write(r, Running(r, FALSE))
    /\ watching' = watching \cup {r}
    /\ Goto(r, "run")
    /\ UNCHANGED <<lock, logs, try, result, merged, seen>>

(* _tick writes the record the thread keeps, without reading the file. *)
Tick(r) ==
    /\ r \in watching
    /\ Write(r, Running(r, TRUE))
    /\ UNCHANGED <<lock, logs, runVars, seen>>

(* The agent exits, or is killed for a timeout, an abort or an interrupt. *)
AgentEnds(r, res) ==
    /\ pc[r] = "run"
    /\ result' = [result EXCEPT ![r] = res]
    /\ Goto(r, "stop")
    /\ UNCHANGED <<file, lock, logs, try, watching, merged, seen>>

(* Fault: the stop event is set and the thread not joined. *)
StopWatcherUnjoined(r) ==
    /\ pc[r] = "stop"
    /\ Goto(r, "merge")
    /\ UNCHANGED <<file, lock, logs, try, watching, result, merged, seen>>

(* stop() returns when the thread has finished its last tick. *)
StopWatcher(r) ==
    /\ pc[r] = "stop"
    /\ watching' = watching \ {r}
    /\ Goto(r, "merge")
    /\ UNCHANGED <<file, lock, logs, try, result, merged, seen>>

(* _finalize_status keeps the fields of whatever record it finds, and uses *)
(* the one it launched with when the file cannot be read.                   *)
FinalRead(r) ==
    /\ pc[r] = "merge"
    /\ \E rec \in {file[try[r]], Running(r, FALSE)} :
          merged' = [merged EXCEPT ![r] = rec]
    /\ Goto(r, "final")
    /\ UNCHANGED <<file, lock, logs, try, watching, result, seen>>

(* Local variables of a process that is through. *)
Forget(r) ==
    /\ result' = [result EXCEPT ![r] = None]
    /\ merged' = [merged EXCEPT ![r] = None]

FinalWrite(r) ==
    /\ pc[r] = "final"
    /\ Write(r, [merged[r] EXCEPT !.status = result[r]])
    /\ Goto(r, "ended")
    /\ Forget(r)
    /\ UNCHANGED <<lock, logs, try, watching, seen>>

(* SIGKILL, a power cut, or an error no handler covers: the thread dies too. *)
Crash(r) ==
    /\ pc[r] \notin {"ended", "gone"}
    /\ Goto(r, "gone")
    /\ watching' = watching \ {r}
    /\ Forget(r)
    /\ UNCHANGED <<file, lock, logs, try, seen>>

-----------------------------------------------------------------------------
(* Time, and `issuekit runs` *)

(* STALE_AFTER_SEC pass with no new beat: the process is gone, or it, its  *)
(* disk or the whole machine was suspended.                                 *)
Age(i) ==
    /\ file[i] # None
    /\ file[i].status = "running" /\ file[i].stamp = "recent"
    /\ file' = [file EXCEPT ![i].stamp = "old"]
    /\ UNCHANGED <<lock, logs, runVars, seen>>

ReadStale(i) ==
    /\ file[i] # None
    /\ IsStale(file[i])
    /\ seen' = [seen EXCEPT ![i] = file[i]]
    /\ UNCHANGED <<file, lock, logs, runVars>>

(* reconcile_stale writes the record it was given, without another look. *)
Reconcile(i) ==
    /\ seen[i] # None
    /\ file' = [file EXCEPT ![i] = [seen[i] EXCEPT !.status = "abandoned"]]
    /\ seen' = [seen EXCEPT ![i] = None]
    /\ UNCHANGED <<lock, logs, runVars>>

-----------------------------------------------------------------------------
RunStep(r) ==
    \/ StatusExists(r) \/ LockExists(r) \/ CreateLock(r)
    \/ WriteRecord(r) \/ ReleaseLock(r) \/ OpenLogs(r)
    \/ LaunchFails(r) \/ Launch(r)
    \/ \E res \in Results : AgentEnds(r, res)
    \/ StopWatcher(r) \/ FinalRead(r) \/ FinalWrite(r)

Next ==
    \/ \E r \in Runners : RunStep(r) \/ Tick(r) \/ Crash(r)
    \/ \E i \in Ids : Age(i) \/ ReadStale(i) \/ Reconcile(i)

Spec == Init /\ [][Next]_vars

-----------------------------------------------------------------------------
(* Properties *)

RunSteps == {"exists", "locked", "create", "record", "unlock", "logs", "launch",
             "run", "stop", "merge", "final", "ended", "gone"}

Records == [owner : Runners, status : Results \cup {"running", "abandoned"},
            beat : BOOLEAN, stamp : {"recent", "old"}]

(* Each variable has its type.  That ids stay in Ids says that the search  *)
(* for a free one ends: a process skips at most one id per other process.  *)
TypeOK ==
    /\ file \in [Ids -> Records \cup {None}]
    /\ lock \in SUBSET Ids
    /\ logs \in SUBSET Ids
    /\ pc \in [Runners -> RunSteps]
    /\ try \in [Runners -> Ids]
    /\ watching \in SUBSET Runners
    /\ result \in [Runners -> Results \cup {None}]
    /\ merged \in [Runners -> Records \cup {None}]
    /\ seen \in [Ids -> Records \cup {None}]

(* Under its id, from the open logs on, a process is alone. *)
Launched == {"launch", "run", "stop", "merge", "final"}

(* Two agents never write into the same logs, although two processes may   *)
(* reserve the same id: whoever loses the race for the logs launches none. *)
OneAgentPerId ==
    \A r, s \in Runners :
        pc[r] \in Launched /\ pc[s] \in Launched /\ try[r] = try[s] => r = s

Alone(r) == \A s \in Runners : s # r => try[s] # try[r]

(* A run that ended by itself does not show as running: after the final    *)
(* write no tick comes, and a reconciliation under way only leaves another *)
(* final status.  (Alone: a process that shares the id may write a record.) *)
EndedIsNotRunning ==
    \A r \in Runners :
        pc[r] = "ended" /\ Alone(r) => file[try[r]].status # "running"

(* A record at running that no live process keeps. *)
Orphaned(i) ==
    /\ file[i] # None
    /\ file[i].status = "running"
    /\ \A r \in Runners : try[r] = i => pc[r] \in {"gone", "ended"}

(* "A killed run's heartbeat goes stale": whatever a killed process leaves *)
(* at running, with or without a first beat, comes to look dead to         *)
(* `issuekit show`, `runs` and the resume warning.                          *)
KilledLooksDead == \A i \in Ids : []<> (Orphaned(i) => IsDead(file[i]))

(* "Each exec runtime invocation reserves a run id": two processes past the *)
(* reservation have different ids.                                          *)
ReservedOnce ==
    \A r, s \in Runners :
        /\ pc[r] \notin {"exists", "locked", "create", "gone"}
        /\ pc[s] \notin {"exists", "locked", "create", "gone"}
        /\ try[r] = try[s]
        => r = s

(* "When the process that owned status was killed before it could write    *)
(* its own terminal status": only such records are abandoned; the outcome  *)
(* a run wrote for itself stays.                                            *)
OwnResultKept ==
    [][\A i \in Ids :
          Reconcile(i) /\ file[i] # None => file[i].status \notin Results]_vars
=============================================================================
