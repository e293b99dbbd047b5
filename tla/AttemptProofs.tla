-------------------------- MODULE AttemptProofs ---------------------------
(*************************************************************************)
(* Proofs about one attempt of an agent: its record among those of its   *)
(* checkout, the heartbeat of its lease, and its session on an App       *)
(* Server.                                                               *)
(*************************************************************************)
EXTENDS AgentRuns, LeaseHeartbeat, AppServerAttempt, FiniteSetTheorems,
        SequenceTheorems, TLAPS

---------------------------------------------------------------------------
(*************************************************************************)
(* The runs of one checkout, for any finite number of processes that     *)
(* start in the same second.                                             *)
(*************************************************************************)

(* A process that has stopped searching keeps its id for good. *)
Settled(s) == pc[s] \notin {"exists", "locked", "create"}

Taken(i) == \E s \in Runners : Settled(s) /\ try[s] = i

(* An id that is in use, or that some process skipped, has been taken. *)
SkipsTaken ==
    /\ \A i \in Ids :
          file[i] # None \/ i \in lock \/ seen[i] # None => Taken(i)
    /\ \A r \in Runners : \A i \in Ids : i < try[r] => Taken(i)

(* What a process past its first record can count on. *)
Progress ==
    \A r \in Runners :
        /\ Settled(r) /\ pc[r] \notin {"record", "gone"} => file[try[r]] \in Records
        /\ r \in watching => pc[r] \in {"run", "stop"}
        /\ pc[r] \in {"stop", "merge", "final"} => result[r] \in Results
        /\ pc[r] = "final" => merged[r] \in Records

LogsTaken == \A r \in Runners : pc[r] \in Launched => try[r] \in logs

(* Only another process can put an ended run's record back to running. *)
RunningByOther ==
    \A r \in Runners :
        pc[r] = "ended" /\ file[try[r]].status = "running" =>
            \E s \in Runners : s # r /\ Settled(s) /\ try[s] = try[r]

IInv ==
    /\ TypeOK /\ SkipsTaken /\ Progress
    /\ LogsTaken /\ OneAgentPerId /\ RunningByOther

-----------------------------------------------------------------------------
(* The ids below a process's own are distinct from it and each has been     *)
(* taken, so there are no more of them than other processes.                *)
LEMMA IdsSuffice ==
    ASSUME NEW t \in [Runners -> Nat \ {0}], NEW r \in Runners,
           \A i \in Nat \ {0} : i < t[r] => \E s \in Runners : t[s] = i
    PROVE  t[r] \in Ids
<1> DEFINE tried == {t[s] : s \in Runners}
<1>1. t \in Surjection(Runners, tried)
    BY DEF Surjection
<1>2. /\ IsFiniteSet(tried)
      /\ Cardinality(tried) <= Cardinality(Runners)
    BY <1>1, FS_Surjection, RunnersAssumption DEF RunnersAssumption
<1>3. 1 .. t[r] \in SUBSET tried
    OBVIOUS
<1>4. /\ IsFiniteSet(1 .. t[r])
      /\ Cardinality(1 .. t[r]) = t[r]
    BY FS_Interval
<1>5. Cardinality(1 .. t[r]) <= Cardinality(tried)
    BY <1>2, <1>3, FS_Subset
<1>6. Cardinality(Runners) \in Nat /\ Cardinality(tried) \in Nat
    BY <1>2, FS_CardinalityType, RunnersAssumption DEF RunnersAssumption
<1> QED
    BY <1>2, <1>4, <1>5, <1>6 DEF Ids

LEMMA IdsAreNumbers == \A i \in Ids : i \in Nat \ {0}
BY DEF Ids

LEMMA RunningType == \A r \in Runners, b \in BOOLEAN : Running(r, b) \in Records
BY DEF Running, Records, Results

LEMMA FailedRecord ==
    \A r \in Runners : [Running(r, FALSE) EXCEPT !.status = "failed"] \in Records
BY DEF Running, Records, Results

LEMMA IdsAreInitial ==
    ASSUME NEW i \in Ids, NEW j \in Nat \ {0}, j <= i
    PROVE  j \in Ids
BY FS_CardinalityType, RunnersAssumption DEF Ids, RunnersAssumption

-----------------------------------------------------------------------------
(* A search that goes on stays among the ids, and leaves only taken ids     *)
(* behind.                                                                   *)
LEMMA SearchGoesOn ==
    ASSUME TypeOK, SkipsTaken, NEW r \in Runners, ~ Settled(r), NextId(r),
           Taken(try[r])
    PROVE  /\ try' \in [Runners -> Ids]
           /\ pc' \in [Runners -> RunSteps]
           /\ UNCHANGED <<file, lock, seen>> => SkipsTaken'
<1>1. /\ try \in [Runners -> Ids]
      /\ \A s \in Runners : try[s] \in Nat \ {0}
    BY IdsAreNumbers DEF TypeOK
<1>2. /\ try' = [try EXCEPT ![r] = try[r] + 1]
      /\ pc' = [pc EXCEPT ![r] = "exists"]
    BY DEF NextId, Goto
<1>3. try' \in [Runners -> Nat \ {0}]
    BY <1>1, <1>2
<1>4. ASSUME NEW i \in Ids, Taken(i)
      PROVE  Taken(i)' /\ \E s \in Runners : try'[s] = i
    <2>1. PICK s \in Runners : Settled(s) /\ try[s] = i
        BY <1>4 DEF Taken
    <2>2. s # r
        BY <2>1
    <2>3. try'[s] = i /\ pc'[s] = pc[s]
        BY <1>1, <1>2, <2>1, <2>2 DEF TypeOK
    <2> QED
        BY <2>1, <2>3 DEF Taken, Settled
<1>5. ASSUME NEW i \in Nat \ {0}, i < try'[r]
      PROVE  i \in Ids /\ Taken(i)
    <2>1. i <= try[r]
        BY <1>1, <1>2, <1>5
    <2>2. i \in Ids
        BY <1>1, <2>1, IdsAreInitial
    <2>3. i < try[r] \/ i = try[r]
        BY <1>1, <2>1
    <2> QED
        BY <2>2, <2>3 DEF SkipsTaken
<1>6. try'[r] \in Ids
    BY <1>3, <1>4, <1>5, IdsSuffice
<1>7. try' \in [Runners -> Ids] /\ pc' \in [Runners -> RunSteps]
    BY <1>1, <1>2, <1>6 DEF TypeOK, RunSteps
<1>8. ASSUME UNCHANGED <<file, lock, seen>>, NEW i \in Ids
      PROVE  /\ file'[i] # None \/ i \in lock' \/ seen'[i] # None => Taken(i)'
             /\ \A s \in Runners : i < try'[s] => Taken(i)'
    <2>1. file'[i] # None \/ i \in lock' \/ seen'[i] # None => Taken(i)
        BY <1>8 DEF SkipsTaken
    <2>2. ASSUME NEW s \in Runners, i < try'[s]
          PROVE  Taken(i)
        <3>1. CASE s = r
            BY <1>5, <2>2, <3>1, IdsAreNumbers
        <3>2. CASE s # r
            BY <1>1, <1>2, <2>2, <3>2 DEF SkipsTaken
        <3> QED
            BY <3>1, <3>2
    <2> QED
        BY <1>4, <2>1, <2>2
<1>9. UNCHANGED <<file, lock, seen>> => SkipsTaken'
    BY <1>8 DEF SkipsTaken
<1> QED
    BY <1>7, <1>9

LEMMA TypeStep ==
    ASSUME IInv, [Next]_vars
    PROVE  TypeOK'
<1>1. ASSUME NEW r \in Runners, StatusExists(r)
      PROVE  TypeOK'
    <2>1. CASE file[try[r]] # None
        BY <1>1, <2>1, SearchGoesOn DEF StatusExists, IInv, SkipsTaken, TypeOK, Settled
    <2>2. CASE ~ (file[try[r]] # None)
        BY <1>1, <2>2 DEF StatusExists, IInv, TypeOK, Goto, RunSteps
    <2> QED
        BY <2>1, <2>2
<1>2. ASSUME NEW r \in Runners, LockExists(r)
      PROVE  TypeOK'
    <2>1. CASE try[r] \in lock
        BY <1>2, <2>1, SearchGoesOn DEF LockExists, IInv, SkipsTaken, TypeOK, Settled
    <2>2. CASE ~ (try[r] \in lock)
        BY <1>2, <2>2 DEF LockExists, IInv, TypeOK, Goto, RunSteps
    <2> QED
        BY <2>1, <2>2
<1>3. ASSUME NEW r \in Runners, CreateLock(r)
      PROVE  TypeOK'
    <2>1. CASE try[r] \in lock
        BY <1>3, <2>1, SearchGoesOn DEF CreateLock, IInv, SkipsTaken, TypeOK, Settled
    <2>2. CASE ~ (try[r] \in lock)
        BY <1>3, <2>2 DEF CreateLock, IInv, TypeOK, Goto, RunSteps
    <2> QED
        BY <2>1, <2>2
<1>4. ASSUME NEW r \in Runners, WriteRecord(r)
      PROVE  TypeOK'
    BY <1>4 DEF WriteRecord, IInv, TypeOK, Progress, Goto, Write, Running,
       Records, Results, RunSteps, Settled
<1>5. ASSUME NEW r \in Runners, ReleaseLock(r)
      PROVE  TypeOK'
    BY <1>5 DEF ReleaseLock, IInv, TypeOK, Progress, Goto, RunSteps, Settled
<1>6. ASSUME NEW r \in Runners, OpenLogs(r)
      PROVE  TypeOK'
    <2>1. CASE try[r] \in logs
        BY <1>6, <2>1 DEF OpenLogs, IInv, TypeOK, Goto, RunSteps
    <2>2. CASE try[r] \notin logs
        BY <1>6, <2>2 DEF OpenLogs, IInv, TypeOK, Goto, RunSteps
    <2> QED
        BY <2>1, <2>2
<1>7. ASSUME NEW r \in Runners, LaunchFails(r)
      PROVE  TypeOK'
    BY <1>7, FailedRecord DEF LaunchFails, IInv, TypeOK, Goto, Write, RunSteps
<1>8. ASSUME NEW r \in Runners, Launch(r)
      PROVE  TypeOK'
    BY <1>8 DEF Launch, IInv, TypeOK, Progress, Goto, Write, Running, Records,
       Results, RunSteps, Settled
<1>9. ASSUME NEW r \in Runners, NEW res \in Results, AgentEnds(r, res)
      PROVE  TypeOK'
    BY <1>9 DEF AgentEnds, IInv, TypeOK, Progress, Goto, Results, RunSteps,
       Settled
<1>10. ASSUME NEW r \in Runners, StopWatcher(r)
      PROVE  TypeOK'
    BY <1>10 DEF StopWatcher, IInv, TypeOK, Progress, Goto, RunSteps, Settled
<1>11. ASSUME NEW r \in Runners, FinalRead(r)
      PROVE  TypeOK'
    <2>1. PICK rec \in {file[try[r]], Running(r, FALSE)} :
             merged' = [merged EXCEPT ![r] = rec]
        BY <1>11 DEF FinalRead
    <2>2. rec \in Records
        <3>1. file[try[r]] \in Records
            BY <1>11 DEF FinalRead, IInv, Progress, Settled
        <3> QED
            BY <2>1, <3>1, RunningType
    <2> QED
        BY <1>11, <2>1, <2>2 DEF FinalRead, IInv, TypeOK, Goto, RunSteps
<1>12. ASSUME NEW r \in Runners, FinalWrite(r)
      PROVE  TypeOK'
    BY <1>12 DEF FinalWrite, IInv, TypeOK, Progress, Goto, Write, Forget,
       Records, Results, RunSteps, Settled
<1>13. ASSUME NEW r \in Runners, Tick(r)
      PROVE  TypeOK'
    BY <1>13 DEF Tick, IInv, TypeOK, Progress, Write, Running, Records,
       Results, runVars, Settled
<1>14. ASSUME NEW r \in Runners, Crash(r)
      PROVE  TypeOK'
    BY <1>14 DEF Crash, IInv, TypeOK, Progress, Goto, Forget, RunSteps, Settled
<1>15. ASSUME NEW i \in Ids, Age(i)
      PROVE  TypeOK'
    BY <1>15 DEF Age, IInv, TypeOK, Progress, Records, Results, runVars,
       Settled
<1>16. ASSUME NEW i \in Ids, ReadStale(i)
      PROVE  TypeOK'
    BY <1>16 DEF ReadStale, IInv, TypeOK, Progress, Records, runVars, Settled
<1>17. ASSUME NEW i \in Ids, Reconcile(i)
      PROVE  TypeOK'
    BY <1>17 DEF Reconcile, IInv, TypeOK, Progress, Records, Results, runVars,
       Settled
<1>18. CASE UNCHANGED vars
    BY <1>18 DEF vars, runVars, IInv, TypeOK, Progress, Records, Results,
       RunSteps, Settled
<1> QED
    BY <1>1, <1>2, <1>3, <1>4, <1>5, <1>6, <1>7, <1>8, <1>9, <1>10, <1>11,
       <1>12, <1>13, <1>14, <1>15, <1>16, <1>17, <1>18 DEF Next, RunStep

LEMMA SkipsStep ==
    ASSUME IInv, [Next]_vars
    PROVE  SkipsTaken'
<1>1. ASSUME NEW r \in Runners, StatusExists(r)
      PROVE  SkipsTaken'
    <2>1. CASE file[try[r]] # None
        BY <1>1, <2>1, SearchGoesOn DEF StatusExists, IInv, SkipsTaken, TypeOK, Settled
    <2>2. CASE ~ (file[try[r]] # None)
        BY <1>1, <2>2 DEF StatusExists, IInv, TypeOK, SkipsTaken, Taken, Settled, Goto
    <2> QED
        BY <2>1, <2>2
<1>2. ASSUME NEW r \in Runners, LockExists(r)
      PROVE  SkipsTaken'
    <2>1. CASE try[r] \in lock
        BY <1>2, <2>1, SearchGoesOn DEF LockExists, IInv, SkipsTaken, TypeOK, Settled
    <2>2. CASE ~ (try[r] \in lock)
        BY <1>2, <2>2 DEF LockExists, IInv, TypeOK, SkipsTaken, Taken, Settled, Goto
    <2> QED
        BY <2>1, <2>2
<1>3. ASSUME NEW r \in Runners, CreateLock(r)
      PROVE  SkipsTaken'
    <2>1. CASE try[r] \in lock
        BY <1>3, <2>1, SearchGoesOn DEF CreateLock, IInv, SkipsTaken, TypeOK, Settled
    <2>2. CASE ~ (try[r] \in lock)
        BY <1>3, <2>2 DEF CreateLock, IInv, TypeOK, SkipsTaken, Taken, Settled, Goto
    <2> QED
        BY <2>1, <2>2
<1>4. ASSUME NEW r \in Runners, WriteRecord(r)
      PROVE  SkipsTaken'
    BY <1>4 DEF WriteRecord, IInv, TypeOK, SkipsTaken, Taken, Settled, Goto,
       Write
<1>5. ASSUME NEW r \in Runners, ReleaseLock(r)
      PROVE  SkipsTaken'
    BY <1>5 DEF ReleaseLock, IInv, TypeOK, SkipsTaken, Taken, Settled, Goto
<1>6. ASSUME NEW r \in Runners, OpenLogs(r)
      PROVE  SkipsTaken'
    BY <1>6 DEF OpenLogs, IInv, TypeOK, SkipsTaken, Taken, Settled, Goto
<1>7. ASSUME NEW r \in Runners, LaunchFails(r)
      PROVE  SkipsTaken'
    BY <1>7 DEF LaunchFails, IInv, TypeOK, SkipsTaken, Taken, Settled, Goto,
       Write
<1>8. ASSUME NEW r \in Runners, Launch(r)
      PROVE  SkipsTaken'
    BY <1>8 DEF Launch, IInv, TypeOK, SkipsTaken, Taken, Settled, Goto, Write
<1>9. ASSUME NEW r \in Runners, NEW res \in Results, AgentEnds(r, res)
      PROVE  SkipsTaken'
    BY <1>9 DEF AgentEnds, IInv, TypeOK, SkipsTaken, Taken, Settled, Goto
<1>10. ASSUME NEW r \in Runners, StopWatcher(r)
      PROVE  SkipsTaken'
    BY <1>10 DEF StopWatcher, IInv, TypeOK, SkipsTaken, Taken, Settled, Goto
<1>11. ASSUME NEW r \in Runners, FinalRead(r)
      PROVE  SkipsTaken'
    BY <1>11 DEF FinalRead, IInv, TypeOK, SkipsTaken, Taken, Settled, Goto
<1>12. ASSUME NEW r \in Runners, FinalWrite(r)
      PROVE  SkipsTaken'
    BY <1>12 DEF FinalWrite, IInv, TypeOK, SkipsTaken, Taken, Settled, Goto,
       Write, Forget
<1>13. ASSUME NEW r \in Runners, Tick(r)
      PROVE  SkipsTaken'
    BY <1>13 DEF Tick, IInv, TypeOK, SkipsTaken, Taken, Settled, Write,
       runVars, Progress
<1>14. ASSUME NEW r \in Runners, Crash(r)
      PROVE  SkipsTaken'
    BY <1>14 DEF Crash, IInv, TypeOK, SkipsTaken, Taken, Settled, Goto, Forget
<1>15. ASSUME NEW i \in Ids, Age(i)
      PROVE  SkipsTaken'
    BY <1>15 DEF Age, IInv, TypeOK, SkipsTaken, Taken, Settled, runVars
<1>16. ASSUME NEW i \in Ids, ReadStale(i)
      PROVE  SkipsTaken'
    BY <1>16 DEF ReadStale, IInv, TypeOK, SkipsTaken, Taken, Settled, runVars
<1>17. ASSUME NEW i \in Ids, Reconcile(i)
      PROVE  SkipsTaken'
    BY <1>17 DEF Reconcile, IInv, TypeOK, SkipsTaken, Taken, Settled, runVars
<1>18. CASE UNCHANGED vars
    BY <1>18 DEF vars, runVars, IInv, TypeOK, SkipsTaken, Taken, Settled
<1> QED
    BY <1>1, <1>2, <1>3, <1>4, <1>5, <1>6, <1>7, <1>8, <1>9, <1>10, <1>11,
       <1>12, <1>13, <1>14, <1>15, <1>16, <1>17, <1>18 DEF Next, RunStep

LEMMA ProgressStep ==
    ASSUME IInv, [Next]_vars
    PROVE  Progress'
<1>1. ASSUME NEW r \in Runners, StatusExists(r)
      PROVE  Progress'
    <2>1. CASE file[try[r]] # None
    BY <1>1, <2>1 DEF StatusExists, IInv, TypeOK, Progress, NextId, Goto, Settled
    <2>2. CASE ~ (file[try[r]] # None)
    BY <1>1, <2>2 DEF StatusExists, IInv, TypeOK, Progress, NextId, Goto, Settled
    <2> QED
        BY <2>1, <2>2
<1>2. ASSUME NEW r \in Runners, LockExists(r)
      PROVE  Progress'
    <2>1. CASE try[r] \in lock
    BY <1>2, <2>1 DEF LockExists, IInv, TypeOK, Progress, NextId, Goto, Settled
    <2>2. CASE ~ (try[r] \in lock)
    BY <1>2, <2>2 DEF LockExists, IInv, TypeOK, Progress, NextId, Goto, Settled
    <2> QED
        BY <2>1, <2>2
<1>3. ASSUME NEW r \in Runners, CreateLock(r)
      PROVE  Progress'
    <2>1. CASE try[r] \in lock
    BY <1>3, <2>1 DEF CreateLock, IInv, TypeOK, Progress, NextId, Goto, Settled
    <2>2. CASE ~ (try[r] \in lock)
    BY <1>3, <2>2 DEF CreateLock, IInv, TypeOK, Progress, NextId, Goto, Settled
    <2> QED
        BY <2>1, <2>2
<1>4. ASSUME NEW r \in Runners, WriteRecord(r)
      PROVE  Progress'
    BY <1>4 DEF WriteRecord, IInv, TypeOK, Progress, Goto, Write, Running,
       Records, Results, Settled
<1>5. ASSUME NEW r \in Runners, ReleaseLock(r)
      PROVE  Progress'
    BY <1>5 DEF ReleaseLock, IInv, TypeOK, Progress, Goto, Settled
<1>6. ASSUME NEW r \in Runners, OpenLogs(r)
      PROVE  Progress'
    BY <1>6 DEF OpenLogs, IInv, TypeOK, Progress, Goto, Settled
<1>7. ASSUME NEW r \in Runners, LaunchFails(r)
      PROVE  Progress'
    BY <1>7, FailedRecord DEF LaunchFails, IInv, TypeOK, Progress, Goto, Write,
       Settled
<1>8. ASSUME NEW r \in Runners, Launch(r)
      PROVE  Progress'
    BY <1>8 DEF Launch, IInv, TypeOK, Progress, Goto, Write, Running, Records,
       Results, Settled
<1>9. ASSUME NEW r \in Runners, NEW res \in Results, AgentEnds(r, res)
      PROVE  Progress'
    BY <1>9 DEF AgentEnds, IInv, TypeOK, Progress, Goto, Results, Settled
<1>10. ASSUME NEW r \in Runners, StopWatcher(r)
      PROVE  Progress'
    BY <1>10 DEF StopWatcher, IInv, TypeOK, Progress, Goto, Settled
<1>11. ASSUME NEW r \in Runners, FinalRead(r)
      PROVE  Progress'
    <2>1. PICK rec \in {file[try[r]], Running(r, FALSE)} :
             merged' = [merged EXCEPT ![r] = rec]
        BY <1>11 DEF FinalRead
    <2>2. rec \in Records
        <3>1. file[try[r]] \in Records
            BY <1>11 DEF FinalRead, IInv, Progress, Settled
        <3> QED
            BY <2>1, <3>1, RunningType
    <2> QED
        BY <1>11, <2>1, <2>2 DEF FinalRead, IInv, TypeOK, Progress, Goto, Settled
<1>12. ASSUME NEW r \in Runners, FinalWrite(r)
      PROVE  Progress'
    BY <1>12 DEF FinalWrite, IInv, TypeOK, Progress, Goto, Write, Forget,
       Records, Results, Settled
<1>13. ASSUME NEW r \in Runners, Tick(r)
      PROVE  Progress'
    BY <1>13 DEF Tick, IInv, TypeOK, Progress, Write, Running, Records,
       Results, runVars, Settled
<1>14. ASSUME NEW r \in Runners, Crash(r)
      PROVE  Progress'
    BY <1>14 DEF Crash, IInv, TypeOK, Progress, Goto, Forget, Settled
<1>15. ASSUME NEW i \in Ids, Age(i)
      PROVE  Progress'
    BY <1>15 DEF Age, IInv, TypeOK, Progress, Records, Results, runVars,
       Settled
<1>16. ASSUME NEW i \in Ids, ReadStale(i)
      PROVE  Progress'
    BY <1>16 DEF ReadStale, IInv, TypeOK, Progress, Records, runVars, Settled
<1>17. ASSUME NEW i \in Ids, Reconcile(i)
      PROVE  Progress'
    BY <1>17 DEF Reconcile, IInv, TypeOK, Progress, Records, Results, runVars,
       Settled
<1>18. CASE UNCHANGED vars
    BY <1>18 DEF vars, runVars, IInv, TypeOK, Progress, NextId, Records,
       Results, Settled
<1> QED
    BY <1>1, <1>2, <1>3, <1>4, <1>5, <1>6, <1>7, <1>8, <1>9, <1>10, <1>11,
       <1>12, <1>13, <1>14, <1>15, <1>16, <1>17, <1>18 DEF Next, RunStep

LEMMA LogsStep ==
    ASSUME IInv, [Next]_vars
    PROVE  (LogsTaken /\ OneAgentPerId)'
<1>1. ASSUME NEW r \in Runners, StatusExists(r)
      PROVE  (LogsTaken /\ OneAgentPerId)'
    BY <1>1 DEF StatusExists, IInv, TypeOK, Progress, LogsTaken,
       OneAgentPerId, Launched, NextId, Goto
<1>2. ASSUME NEW r \in Runners, LockExists(r)
      PROVE  (LogsTaken /\ OneAgentPerId)'
    BY <1>2 DEF LockExists, IInv, TypeOK, Progress, LogsTaken, OneAgentPerId,
       Launched, NextId, Goto
<1>3. ASSUME NEW r \in Runners, CreateLock(r)
      PROVE  (LogsTaken /\ OneAgentPerId)'
    BY <1>3 DEF CreateLock, IInv, TypeOK, Progress, LogsTaken, OneAgentPerId,
       Launched, NextId, Goto
<1>4. ASSUME NEW r \in Runners, WriteRecord(r)
      PROVE  (LogsTaken /\ OneAgentPerId)'
    BY <1>4 DEF WriteRecord, IInv, TypeOK, Progress, LogsTaken, OneAgentPerId,
       Launched, Goto
<1>5. ASSUME NEW r \in Runners, ReleaseLock(r)
      PROVE  (LogsTaken /\ OneAgentPerId)'
    BY <1>5 DEF ReleaseLock, IInv, TypeOK, Progress, LogsTaken, OneAgentPerId,
       Launched, Goto
<1>6. ASSUME NEW r \in Runners, OpenLogs(r)
      PROVE  (LogsTaken /\ OneAgentPerId)'
    BY <1>6 DEF OpenLogs, IInv, TypeOK, Progress, LogsTaken, OneAgentPerId,
       Launched, Goto
<1>7. ASSUME NEW r \in Runners, LaunchFails(r)
      PROVE  (LogsTaken /\ OneAgentPerId)'
    BY <1>7 DEF LaunchFails, IInv, TypeOK, Progress, LogsTaken, OneAgentPerId,
       Launched, Goto
<1>8. ASSUME NEW r \in Runners, Launch(r)
      PROVE  (LogsTaken /\ OneAgentPerId)'
    BY <1>8 DEF Launch, IInv, TypeOK, Progress, LogsTaken, OneAgentPerId,
       Launched, Goto
<1>9. ASSUME NEW r \in Runners, NEW res \in Results, AgentEnds(r, res)
      PROVE  (LogsTaken /\ OneAgentPerId)'
    BY <1>9 DEF AgentEnds, IInv, TypeOK, Progress, LogsTaken, OneAgentPerId,
       Launched, Goto
<1>10. ASSUME NEW r \in Runners, StopWatcher(r)
      PROVE  (LogsTaken /\ OneAgentPerId)'
    BY <1>10 DEF StopWatcher, IInv, TypeOK, Progress, LogsTaken,
       OneAgentPerId, Launched, Goto
<1>11. ASSUME NEW r \in Runners, FinalRead(r)
      PROVE  (LogsTaken /\ OneAgentPerId)'
    BY <1>11 DEF FinalRead, IInv, TypeOK, Progress, LogsTaken, OneAgentPerId,
       Launched, Goto
<1>12. ASSUME NEW r \in Runners, FinalWrite(r)
      PROVE  (LogsTaken /\ OneAgentPerId)'
    BY <1>12 DEF FinalWrite, IInv, TypeOK, Progress, LogsTaken, OneAgentPerId,
       Launched, Goto
<1>13. ASSUME NEW r \in Runners, Tick(r)
      PROVE  (LogsTaken /\ OneAgentPerId)'
    BY <1>13 DEF Tick, IInv, TypeOK, Progress, LogsTaken, OneAgentPerId,
       Launched, runVars
<1>14. ASSUME NEW r \in Runners, Crash(r)
      PROVE  (LogsTaken /\ OneAgentPerId)'
    BY <1>14 DEF Crash, IInv, TypeOK, Progress, LogsTaken, OneAgentPerId,
       Launched, Goto
<1>15. ASSUME NEW i \in Ids, Age(i)
      PROVE  (LogsTaken /\ OneAgentPerId)'
    BY <1>15 DEF Age, IInv, TypeOK, Progress, LogsTaken, OneAgentPerId,
       Launched, runVars
<1>16. ASSUME NEW i \in Ids, ReadStale(i)
      PROVE  (LogsTaken /\ OneAgentPerId)'
    BY <1>16 DEF ReadStale, IInv, TypeOK, Progress, LogsTaken, OneAgentPerId,
       Launched, runVars
<1>17. ASSUME NEW i \in Ids, Reconcile(i)
      PROVE  (LogsTaken /\ OneAgentPerId)'
    BY <1>17 DEF Reconcile, IInv, TypeOK, Progress, LogsTaken, OneAgentPerId,
       Launched, runVars
<1>18. CASE UNCHANGED vars
    BY <1>18 DEF vars, runVars, IInv, TypeOK, Progress, LogsTaken,
       OneAgentPerId, Launched, NextId
<1> QED
    BY <1>1, <1>2, <1>3, <1>4, <1>5, <1>6, <1>7, <1>8, <1>9, <1>10, <1>11,
       <1>12, <1>13, <1>14, <1>15, <1>16, <1>17, <1>18 DEF Next, RunStep

LEMMA RunningStep ==
    ASSUME IInv, [Next]_vars
    PROVE  RunningByOther'
<1>1. ASSUME NEW r \in Runners, StatusExists(r)
      PROVE  RunningByOther'
    BY <1>1 DEF StatusExists, IInv, TypeOK, Progress, RunningByOther, Settled,
       NextId, Goto
<1>2. ASSUME NEW r \in Runners, LockExists(r)
      PROVE  RunningByOther'
    BY <1>2 DEF LockExists, IInv, TypeOK, Progress, RunningByOther, Settled,
       NextId, Goto
<1>3. ASSUME NEW r \in Runners, CreateLock(r)
      PROVE  RunningByOther'
    BY <1>3 DEF CreateLock, IInv, TypeOK, Progress, RunningByOther, Settled,
       NextId, Goto
<1>4. ASSUME NEW r \in Runners, WriteRecord(r)
      PROVE  RunningByOther'
    BY <1>4 DEF WriteRecord, IInv, TypeOK, Progress, RunningByOther, Settled,
       Goto, Write, Running, Records, Results
<1>5. ASSUME NEW r \in Runners, ReleaseLock(r)
      PROVE  RunningByOther'
    BY <1>5 DEF ReleaseLock, IInv, TypeOK, Progress, RunningByOther, Settled,
       Goto
<1>6. ASSUME NEW r \in Runners, OpenLogs(r)
      PROVE  RunningByOther'
    BY <1>6 DEF OpenLogs, IInv, TypeOK, Progress, RunningByOther, Settled, Goto
<1>7. ASSUME NEW r \in Runners, LaunchFails(r)
      PROVE  RunningByOther'
    BY <1>7 DEF LaunchFails, IInv, TypeOK, Progress, RunningByOther, Settled,
       Goto, Write, Running, Records, Results
<1>8. ASSUME NEW r \in Runners, Launch(r)
      PROVE  RunningByOther'
    BY <1>8 DEF Launch, IInv, TypeOK, Progress, RunningByOther, Settled, Goto,
       Write, Running, Records, Results
<1>9. ASSUME NEW r \in Runners, NEW res \in Results, AgentEnds(r, res)
      PROVE  RunningByOther'
    BY <1>9 DEF AgentEnds, IInv, TypeOK, Progress, RunningByOther, Settled,
       Goto, Results
<1>10. ASSUME NEW r \in Runners, StopWatcher(r)
      PROVE  RunningByOther'
    BY <1>10 DEF StopWatcher, IInv, TypeOK, Progress, RunningByOther, Settled,
       Goto
<1>11. ASSUME NEW r \in Runners, FinalRead(r)
      PROVE  RunningByOther'
    BY <1>11 DEF FinalRead, IInv, TypeOK, Progress, RunningByOther, Settled,
       Goto, Running, Records
<1>12. ASSUME NEW r \in Runners, FinalWrite(r)
      PROVE  RunningByOther'
    BY <1>12 DEF FinalWrite, IInv, TypeOK, Progress, RunningByOther, Settled,
       Goto, Write, Forget, Records, Results
<1>13. ASSUME NEW r \in Runners, Tick(r)
      PROVE  RunningByOther'
    BY <1>13 DEF Tick, IInv, TypeOK, Progress, RunningByOther, Settled, Write,
       Running, Records, Results, runVars
<1>14. ASSUME NEW r \in Runners, Crash(r)
      PROVE  RunningByOther'
    BY <1>14 DEF Crash, IInv, TypeOK, Progress, RunningByOther, Settled, Goto,
       Forget
<1>15. ASSUME NEW i \in Ids, Age(i)
      PROVE  RunningByOther'
    BY <1>15 DEF Age, IInv, TypeOK, Progress, RunningByOther, Settled,
       Records, Results, runVars
<1>16. ASSUME NEW i \in Ids, ReadStale(i)
      PROVE  RunningByOther'
    BY <1>16 DEF ReadStale, IInv, TypeOK, Progress, RunningByOther, Settled,
       Records, runVars
<1>17. ASSUME NEW i \in Ids, Reconcile(i)
      PROVE  RunningByOther'
    BY <1>17 DEF Reconcile, IInv, TypeOK, Progress, RunningByOther, Settled,
       Records, Results, runVars
<1>18. CASE UNCHANGED vars
    BY <1>18 DEF vars, runVars, IInv, TypeOK, Progress, RunningByOther,
       Settled, NextId, Records, Results
<1> QED
    BY <1>1, <1>2, <1>3, <1>4, <1>5, <1>6, <1>7, <1>8, <1>9, <1>10, <1>11,
       <1>12, <1>13, <1>14, <1>15, <1>16, <1>17, <1>18 DEF Next, RunStep

-----------------------------------------------------------------------------
LEMMA Initially == Init => IInv
<1> SUFFICES ASSUME Init PROVE IInv
    OBVIOUS
<1>1. try \in [Runners -> Ids]
    <2>1. try \in [Runners -> Nat \ {0}] /\ \A r \in Runners : try[r] = 1
        BY DEF Init
    <2>2. ASSUME NEW r \in Runners PROVE try[r] \in Ids
        BY <2>1, IdsSuffice
    <2> QED
        BY <2>1, <2>2
<1>2. TypeOK
    BY <1>1 DEF Init, TypeOK, RunSteps
<1>3. SkipsTaken
    BY IdsAreNumbers DEF Init, SkipsTaken
<1>4. Progress
    BY DEF Init, Progress, Settled
<1>5. LogsTaken /\ OneAgentPerId /\ RunningByOther
    BY DEF Init, LogsTaken, OneAgentPerId, RunningByOther, Launched
<1> QED
    BY <1>2, <1>3, <1>4, <1>5 DEF IInv

LEMMA Invariant == Spec => []IInv
<1>1. IInv /\ [Next]_vars => IInv'
    BY TypeStep, SkipsStep, ProgressStep, LogsStep, RunningStep DEF IInv
<1> QED
    BY <1>1, Initially, PTL DEF Spec

(* Every variable keeps its type, however many processes start in the same *)
(* second and wherever each is killed: none of them runs out of ids.        *)
THEOREM RunsTypes == Spec => []TypeOK
<1>1. IInv => TypeOK
    BY DEF IInv
<1> QED
    BY <1>1, Invariant, PTL

(* No two launched agents share an id, and with it their logs, although    *)
(* two processes can reserve the same id.                                   *)
THEOREM RunsOneAgent == Spec => []OneAgentPerId
<1>1. IInv => OneAgentPerId
    BY DEF IInv
<1> QED
    BY <1>1, Invariant, PTL

(* The record of a run that ended and shares its id with no other process  *)
(* is never at running again.                                               *)
THEOREM RunsEnded == Spec => []EndedIsNotRunning
<1>1. IInv => EndedIsNotRunning
    BY DEF IInv, RunningByOther, EndedIsNotRunning, Alone
<1> QED
    BY <1>1, Invariant, PTL

---------------------------------------------------------------------------
(*************************************************************************)
(* The lease heartbeat, for every API timeout, shorter or longer than    *)
(* the lease's life.                                                     *)
(*************************************************************************)

Flags == fenced \in BOOLEAN /\ arrived \in BOOLEAN /\ failing \in BOOLEAN

Numbers ==
    /\ age \in 0 .. Oldest /\ since \in 0 .. Oldest
    /\ timer \in 0 .. (IF thread = "call" THEN CallTicks ELSE Interval)

(* While it waits, the thread will look at the clock before half of the      *)
(* lease's life has passed since the last success.                          *)
WaitBound ==
    thread = "wait" =>
        /\ timer \in 0 .. Interval
        /\ age <= since + CallTicks
        /\ failing = TRUE => since + timer <= Half
        /\ failing = FALSE => since + timer = Interval

(* A call was sent before that, and the lease is as young as its arrival. *)
CallBound ==
    thread = "call" =>
        /\ timer \in 0 .. CallTicks
        /\ since <= Half - 1 + timer
        /\ arrived = TRUE => age <= timer
        /\ arrived = FALSE => age <= since + CallTicks

CountsIInv ==
    /\ Flags /\ thread \in {"wait", "call", "error", "stopped"}
    /\ Numbers /\ WaitBound /\ CallBound

LEMMA FlagsStep ==
    ASSUME CountsIInv, [HeartbeatNext]_heartbeatVars
    PROVE  Flags' /\ thread' \in {"wait", "call", "error", "stopped"}
BY DEF CountsIInv, Flags, HeartbeatNext, heartbeatVars, Passes, ClaimLost, Wakes,
       Arrives, Answered, NoAnswer, Refused, Stopped, Waits, GivesUp

LEMMA CountsStep ==
    ASSUME CountsIInv, [HeartbeatNext]_heartbeatVars
    PROVE  Numbers' /\ WaitBound' /\ CallBound'
<1>1. CallTicks \in Nat /\ CallTicks >= 1
    BY CallTicksAssumption
<1>2. /\ thread \in {"wait", "call", "error", "stopped"}
      /\ Numbers /\ WaitBound /\ CallBound
      /\ failing = TRUE \/ failing = FALSE
      /\ arrived = TRUE \/ arrived = FALSE
    BY DEF CountsIInv, Flags
<1> USE <1>1, <1>2 DEF Numbers, WaitBound, CallBound, Life, Oldest, Interval, Half
<1>3. CASE Passes
    <2>1. /\ age' = Later(age) /\ since' = Later(since) /\ thread' = thread
          /\ arrived' = arrived /\ failing' = failing
        BY <1>3 DEF Passes
    <2>2. CASE thread = "wait"
        <3>1. timer > 0 /\ timer' = timer - 1
            BY <1>3, <2>2 DEF Passes
        <3>2. since < Half /\ since' = since + 1 /\ age < Oldest /\ age' = age + 1
            BY <2>1, <2>2, <3>1 DEF Later
        <3> QED
            BY <2>1, <2>2, <3>1, <3>2
    <2>3. CASE thread = "call"
        <3>1. timer < CallTicks /\ timer' = timer + 1
            BY <1>3, <2>3 DEF Passes
        <3>2. since < Oldest /\ since' = since + 1 /\ age < Oldest /\ age' = age + 1
            BY <2>1, <2>3, <3>1 DEF Later
        <3> QED
            BY <2>1, <2>3, <3>1, <3>2
    <2>4. CASE thread \notin {"wait", "call"}
        <3>1. timer' = timer
            BY <1>3, <2>4 DEF Passes
        <3> QED
            BY <2>1, <2>4, <3>1 DEF Later
    <2> QED
        BY <2>2, <2>3, <2>4
<1>4. CASE ClaimLost
    BY <1>4 DEF ClaimLost
<1>5. CASE Wakes
    <2>1. /\ thread = "wait" /\ timer = 0 /\ timer' = 0
          /\ age' = age /\ since' = since /\ arrived' = FALSE
        BY <1>5 DEF Wakes, GivesUp
    <2>2. thread' = "error" \/ (thread' = "call" /\ ~ (failing /\ since >= Half))
        BY <1>5 DEF Wakes, GivesUp
    <2>3. thread' = "call" => since <= Half - 1
        BY <2>1, <2>2
    <2> QED
        BY <2>1, <2>2, <2>3
<1>6. CASE Arrives
    BY <1>6 DEF Arrives
<1>7. CASE Answered
    <2>1. thread = "call" /\ arrived = TRUE /\ failing' = FALSE
        BY <1>7 DEF Answered
    <2>2. thread' = "wait" /\ timer' = Interval /\ since' = 0 /\ age' = age
        BY <1>7 DEF Answered, Waits
    <2> QED
        BY <2>1, <2>2
<1>8. CASE NoAnswer
    <2>1. CASE since < Half
        <3>1. /\ thread = "call" /\ thread' = "wait" /\ timer' = 1
              /\ age' = age /\ since' = since
            BY <1>8, <2>1 DEF NoAnswer, Waits, RetryAfter
        <3>2. failing' = TRUE
            BY <1>8, <2>1 DEF NoAnswer
        <3> QED
            BY <2>1, <3>1, <3>2
    <2>2. CASE ~ (since < Half)
        BY <1>8, <2>2 DEF NoAnswer, GivesUp
    <2> QED
        BY <2>1, <2>2
<1>9. CASE Refused
    BY <1>9 DEF Refused, GivesUp
<1>10. CASE Stopped
    BY <1>10 DEF Stopped
<1>11. CASE UNCHANGED heartbeatVars
    BY <1>11 DEF heartbeatVars
<1> QED
    BY <1>3, <1>4, <1>5, <1>6, <1>7, <1>8, <1>9, <1>10, <1>11 DEF HeartbeatNext

LEMMA CountsInvariant == HeartbeatSpec => []CountsIInv
<1>1. HeartbeatInit => CountsIInv
    <2> SUFFICES ASSUME HeartbeatInit PROVE CountsIInv
        OBVIOUS
    <2>1. Flags /\ thread = "wait" /\ failing = FALSE
        BY DEF HeartbeatInit, Flags
    <2>2. age = 0 /\ since = 0 /\ timer = Interval
        BY DEF HeartbeatInit
    <2>3. Numbers /\ WaitBound /\ CallBound
        BY <2>1, <2>2, CallTicksAssumption
           DEF Numbers, WaitBound, CallBound, Life, Oldest, Interval, Half
    <2> QED
        BY <2>1, <2>3 DEF CountsIInv
<1>2. CountsIInv /\ [HeartbeatNext]_heartbeatVars => CountsIInv'
    BY FlagsStep, CountsStep DEF CountsIInv
<1> QED
    BY <1>1, <1>2, PTL DEF HeartbeatSpec

(* Each variable keeps its type: the thread waits no longer than an interval *)
(* and a call no longer than the API timeout.                               *)
THEOREM HeartbeatTyped == HeartbeatSpec => []HeartbeatTypes
<1>1. CountsIInv => HeartbeatTypes
    BY DEF CountsIInv, Flags, Numbers, HeartbeatTypes
<1> QED
    BY <1>1, CountsInvariant, PTL

(* Whatever the API timeout, an unreachable provider is reported to the main  *)
(* thread an interval and two timeouts after it last extended the lease.    *)
THEOREM SilenceReported == HeartbeatSpec => []SilenceIsReported
<1>1. CountsIInv => SilenceIsReported
    <2> SUFFICES ASSUME CountsIInv, age > Interval + 2 * CallTicks,
                        thread \notin {"error", "stopped"}
                 PROVE  FALSE
        BY DEF SilenceIsReported
    <2>1. /\ thread = "wait" \/ thread = "call"
          /\ Numbers /\ WaitBound /\ CallBound
          /\ failing = TRUE \/ failing = FALSE
          /\ arrived = TRUE \/ arrived = FALSE
        BY DEF CountsIInv, Flags
    <2> QED
        BY <2>1, CallTicksAssumption
           DEF Numbers, WaitBound, CallBound, Life, Oldest, Interval, Half
<1> QED
    BY <1>1, CountsInvariant, PTL

---------------------------------------------------------------------------
(*************************************************************************)
(* The session on the App Server, for any limits on its events,          *)
(* commands, failing requests and retries.                               *)
(*************************************************************************)

(* What the reader hands over is numbered without a gap, what is stored is an *)
(* initial stretch of it, and between the two nothing is missing.            *)
EventsKept ==
    /\ notes \in Nat /\ ended \in 0 .. notes
    /\ pending \in Seq(Nat) /\ Len(pending) <= notes
    /\ \A i \in 1 .. Len(pending) : pending[i] = notes - Len(pending) + i
    /\ uploaded \in Seq(Nat) /\ Len(uploaded) <= notes
    /\ \A n \in 1 .. Len(uploaded) : uploaded[n] = n
    /\ sent \in 0 .. Len(pending)
    /\ notes - Len(pending) <= Len(uploaded)

Commands == Seq([kind : {"turn_start", "turn_steer", "turn_interrupt", "session_close"},
                 state : {"queued", "claimed", "accepted", "succeeded", "failed"}])

IsTurn(cs, c) == c \in DOMAIN cs /\ cs[c].kind = "turn_start"
IsOther(cs, c) == c \in DOMAIN cs /\ cs[c].kind # "turn_start"
NoTurn(cs) == \A c \in DOMAIN cs : ~ IsTurn(cs, c)
OneTurn(cs) == \A c, d \in DOMAIN cs : IsTurn(cs, c) /\ IsTurn(cs, d) => c = d
TurnTaken(cs) == \E c \in DOMAIN cs : IsTurn(cs, c) /\ cs[c].state # "queued"
TurnDone(cs) == \E c \in DOMAIN cs : IsTurn(cs, c) /\ cs[c].state = "succeeded"

Opening == {"list", "create", "acquire", "open", "started", "thread", "attach", "attached",
            "command"}
InTurn == {"turn", "accept", "await", "interrupt", "look", "flush", "drop", "poll", "effect",
           "ack", "ack2", "deadline", "lastFlush", "lastDrop", "finish"}
Closing == {"closeCommand", "closeClaim", "closeServer", "closeAck", "closeAck2"}
Leaving == {"bestEffort", "teardown", "stopped", "seal", "closeSession", "join", "release", "done"}

(* The session's commands and the attempt's outcome, for each place of the   *)
(* main thread.                                                             *)
CommandsKept ==
    /\ main \in Opening \cup {"claim"} \cup InTurn \cup Closing \cup Leaving
    /\ commands \in Commands
    /\ OneTurn(commands)
    /\ main \in Opening => NoTurn(commands)
    /\ main \in {"claim", "turn", "accept"} => IsTurn(commands, inHand)
    /\ main \in InTurn => TurnTaken(commands)
    /\ main \in {"effect", "ack", "ack2"} \cup (Closing \ {"closeCommand"}) =>
          IsOther(commands, inHand)
    /\ main \in Closing => TurnDone(commands)
    /\ exitCode = 0 => TurnDone(commands) /\ main \in Leaving \ {"bestEffort"}
    /\ session = "closed" => exitCode = 0 /\ main \in {"join", "release", "done"}

(* What is about to be dropped is stored, and no turn is done before the event *)
(* that ended it is.                                                        *)
EndKept ==
    /\ main \in {"drop", "lastDrop"} => notes - Len(pending) + sent <= Len(uploaded)
    /\ main \in {"lastFlush", "lastDrop", "finish"} => timedOut \/ ended # 0
    /\ main = "finish" => timedOut \/ ended \in 1 .. Len(uploaded)
    /\ TurnDone(commands) => ended \in 1 .. Len(uploaded)

AttemptIInv == EventsKept /\ CommandsKept /\ EndKept

-----------------------------------------------------------------------------

LEMMA BatchStored ==
    ASSUME EventsKept
    PROVE  /\ WithBatch \in Seq(Nat)
           /\ Len(WithBatch) <= notes /\ Len(uploaded) <= Len(WithBatch)
           /\ \A n \in 1 .. Len(WithBatch) : WithBatch[n] = n
           /\ Len(FirstBatch) \in 0 .. Len(pending)
           /\ notes - Len(pending) + Len(FirstBatch) <= Len(WithBatch)
<1> DEFINE lb == IF again THEN sent ELSE IF Len(pending) < Batch THEN Len(pending) ELSE Batch
           base == notes - Len(pending)
           u == Len(uploaded)
           m == IF lb <= u - base THEN lb ELSE u - base
           rest == SubSeq(FirstBatch, m + 1, lb)
<1>1. /\ Len(pending) \in Nat /\ u \in Nat /\ lb \in 0 .. Len(pending) /\ base \in Nat
      /\ base <= u /\ m \in 0 .. lb /\ u <= notes /\ notes \in Nat
  BY AttemptAssumption DEF EventsKept, AttemptAssumption
<1>2. /\ FirstBatch \in Seq(Nat) /\ Len(FirstBatch) = lb
      /\ \A i \in 1 .. lb : FirstBatch[i] = base + i
  <2>1. FirstBatch = SubSeq(pending, 1, lb)
    BY DEF FirstBatch
  <2>2. pending \in Seq(Nat) /\ \A i \in 1 .. Len(pending) : pending[i] = base + i
    BY DEF EventsKept
  <2> HIDE DEF lb, base
  <2> QED BY <1>1, <2>1, <2>2
<1>3. Cardinality(Stored) = m
  <2>1. Stored = 1 .. m
    <3>1. DOMAIN FirstBatch = 1 .. lb
      BY <1>2
    <3>2. Stored = {n \in 1 .. lb : base + n <= u}
      BY <1>2, <3>1 DEF Stored
    <3> HIDE DEF lb, base, u
    <3> QED BY <1>1, <3>2
  <2> HIDE DEF m
  <2> QED BY <1>1, <2>1, FS_Interval
<1>4. /\ rest \in Seq(Nat) /\ Len(rest) = lb - m
      /\ \A i \in 1 .. lb - m : rest[i] = base + m + i
  <2> HIDE DEF lb, base, m
  <2> QED BY <1>1, <1>2
<1>5. WithBatch = uploaded \o rest
  BY <1>2, <1>3 DEF WithBatch
<1>6. uploaded \in Seq(Nat) /\ \A n \in 1 .. u : uploaded[n] = n
  BY DEF EventsKept
<1>7. /\ WithBatch \in Seq(Nat) /\ Len(WithBatch) = u + (lb - m)
      /\ \A n \in 1 .. u : WithBatch[n] = n
      /\ \A n \in u + 1 .. u + (lb - m) : WithBatch[n] = base + m + (n - u)
  <2> HIDE DEF rest, lb, base, m
  <2>1. WithBatch \in Seq(Nat) /\ Len(WithBatch) = u + (lb - m)
    <3>1. uploaded \in Seq(Nat) /\ rest \in Seq(Nat) /\ Len(rest) = lb - m
      BY <1>4, <1>6
    <3>2. uploaded \o rest \in Seq(Nat) /\ Len(uploaded \o rest) = Len(uploaded) + Len(rest)
      BY <3>1, ConcatProperties
    <3> QED BY <3>1, <3>2, <1>5
  <2>2. \A n \in 1 .. u : WithBatch[n] = n
    BY <1>1, <1>4, <1>5, <1>6
  <2>3. \A n \in u + 1 .. u + (lb - m) : WithBatch[n] = base + m + (n - u)
    <3>1. SUFFICES ASSUME NEW n \in u + 1 .. u + (lb - m)
                   PROVE  WithBatch[n] = base + m + (n - u)
      OBVIOUS
    <3>2. n - u \in 1 .. lb - m /\ n \in Nat /\ ~ (n <= u) /\ n \in 1 .. u + (lb - m)
      BY <1>1, <1>4
    <3>3. WithBatch[n] = rest[n - u]
      <4> HIDE DEF u
      <4> QED BY <1>1, <1>4, <1>5, <1>6, <3>2, ConcatProperties DEF u
    <3> QED BY <1>1, <1>4, <3>2, <3>3
  <2> QED BY <2>1, <2>2, <2>3
<1>8. lb - m > 0 => base + m = u
  BY <1>1
<1>9. u + (lb - m) <= notes /\ base + lb <= u + (lb - m)
  BY <1>1
<1>10. \A n \in 1 .. Len(WithBatch) : WithBatch[n] = n
  <2> HIDE DEF rest, lb, base, m, u
  <2> SUFFICES ASSUME NEW n \in 1 .. Len(WithBatch)
               PROVE  WithBatch[n] = n
    OBVIOUS
  <2>1. CASE n <= u
    BY <1>1, <1>7, <2>1
  <2>2. CASE ~ (n <= u)
    <3>1. n \in u + 1 .. u + (lb - m) /\ lb - m > 0
      BY <1>1, <1>7, <2>2
    <3> QED BY <1>1, <1>7, <1>8, <3>1
  <2> QED BY <2>1, <2>2
<1>11. base + Len(FirstBatch) <= Len(WithBatch) /\ Len(WithBatch) <= notes /\ u <= Len(WithBatch)
  <2> HIDE DEF rest, lb, base, m, u
  <2> QED BY <1>1, <1>2, <1>7, <1>9
<1> QED BY <1>1, <1>2, <1>7, <1>10, <1>11

LEMMA AppendKeeps ==
    ASSUME NEW cs \in Commands, NEW r, NEW h \in Nat, r = Queued("turn_start") \/
               r \in {Queued(kind) : kind \in {"turn_steer", "turn_interrupt", "session_close"}}
    PROVE  LET new == Append(cs, r)
           IN /\ new \in Commands /\ Len(new) \in DOMAIN new
              /\ TurnTaken(cs) => TurnTaken(new)
              /\ TurnDone(cs) <=> TurnDone(new)
              /\ IsTurn(cs, h) => IsTurn(new, h)
              /\ IsOther(cs, h) => IsOther(new, h)
              /\ r.kind = "turn_start" /\ NoTurn(cs) => OneTurn(new) /\ IsTurn(new, Len(new))
              /\ r.kind # "turn_start" => /\ OneTurn(cs) => OneTurn(new)
                                          /\ NoTurn(cs) => NoTurn(new)
                                          /\ IsOther(new, Len(new))
<1> DEFINE new == Append(cs, r)
<1>1. /\ r \in [kind : {"turn_start", "turn_steer", "turn_interrupt", "session_close"},
                state : {"queued", "claimed", "accepted", "succeeded", "failed"}]
      /\ r.state = "queued"
  BY DEF Queued
<1>2. /\ new \in Commands /\ Len(new) = Len(cs) + 1 /\ DOMAIN new = 1 .. Len(cs) + 1
      /\ Len(cs) \in Nat /\ DOMAIN cs = 1 .. Len(cs)
      /\ \A i \in 1 .. Len(cs) : new[i] = cs[i]
      /\ new[Len(cs) + 1] = r
  BY <1>1 DEF Commands
<1> HIDE DEF new
<1>3. Len(new) \in DOMAIN new
  BY <1>2
<1>4. TurnTaken(cs) => TurnTaken(new)
  BY <1>2 DEF TurnTaken, IsTurn
<1>5. TurnDone(cs) <=> TurnDone(new)
  BY <1>1, <1>2 DEF TurnDone, IsTurn
<1>6. (IsTurn(cs, h) => IsTurn(new, h)) /\ (IsOther(cs, h) => IsOther(new, h))
  BY <1>2 DEF IsTurn, IsOther
<1>7. r.kind = "turn_start" /\ NoTurn(cs) => OneTurn(new) /\ IsTurn(new, Len(new))
  BY <1>2 DEF IsTurn, NoTurn, OneTurn
<1>8. r.kind # "turn_start" => /\ OneTurn(cs) => OneTurn(new)
                               /\ NoTurn(cs) => NoTurn(new)
                               /\ IsOther(new, Len(new))
  BY <1>2 DEF IsTurn, NoTurn, OneTurn, IsOther
<1> QED BY <1>2, <1>3, <1>4, <1>5, <1>6, <1>7, <1>8 DEF new

LEMMA AcknowledgeKeeps ==
    ASSUME NEW cs \in Commands, NEW c \in DOMAIN cs, NEW h,
           NEW state \in {"claimed", "accepted", "succeeded", "failed"}
    PROVE  LET new == [cs EXCEPT ![c].state = state]
           IN /\ new \in Commands
              /\ NoTurn(cs) => NoTurn(new)
              /\ OneTurn(cs) => OneTurn(new)
              /\ IsTurn(cs, h) => IsTurn(new, h)
              /\ IsOther(cs, h) => IsOther(new, h)
              /\ TurnTaken(cs) => TurnTaken(new)
              /\ IsTurn(cs, c) => TurnTaken(new)
              /\ IsTurn(cs, c) /\ state = "succeeded" => TurnDone(new)
              /\ cs[c].state = "queued" \/ IsOther(cs, c) => (TurnDone(cs) => TurnDone(new))
              /\ state # "succeeded" \/ IsOther(cs, c) => (TurnDone(new) => TurnDone(cs))
<1> DEFINE new == [cs EXCEPT ![c].state = state]
           T == [kind : {"turn_start", "turn_steer", "turn_interrupt", "session_close"},
                 state : {"queued", "claimed", "accepted", "succeeded", "failed"}]
<1>1. cs \in Seq(T) /\ DOMAIN cs = 1 .. Len(cs) /\ cs[c] \in T
  <2>1. cs \in Seq(T)
    BY DEF Commands
  <2> HIDE DEF T
  <2> QED BY <2>1
<1>2. new = [cs EXCEPT ![c] = [cs[c] EXCEPT !.state = state]]
  OBVIOUS
<1>3. /\ [cs[c] EXCEPT !.state = state] \in T
      /\ [cs[c] EXCEPT !.state = state].kind = cs[c].kind
      /\ [cs[c] EXCEPT !.state = state].state = state
  BY <1>1
<1>4. /\ new \in Seq(T) /\ DOMAIN new = DOMAIN cs
      /\ \A d \in DOMAIN cs : new[d].kind = cs[d].kind
      /\ \A d \in DOMAIN cs : d # c => new[d] = cs[d]
      /\ new[c].state = state
  <2> HIDE DEF T
  <2>1. new \in Seq(T)
    BY <1>1, <1>2, <1>3
  <2> QED BY <1>1, <1>2, <1>3, <2>1
<1> HIDE DEF new, T
<1>5. new \in Commands
  BY <1>4 DEF Commands, T
<1>6. (NoTurn(cs) => NoTurn(new)) /\ (OneTurn(cs) => OneTurn(new))
  BY <1>4 DEF NoTurn, OneTurn, IsTurn
<1>7. (IsTurn(cs, h) => IsTurn(new, h)) /\ (IsOther(cs, h) => IsOther(new, h))
  BY <1>4 DEF IsTurn, IsOther
<1>8. (TurnTaken(cs) => TurnTaken(new)) /\ (IsTurn(cs, c) => TurnTaken(new))
  BY <1>4 DEF TurnTaken, IsTurn
<1>9. IsTurn(cs, c) /\ state = "succeeded" => TurnDone(new)
  BY <1>4 DEF TurnDone, IsTurn
<1>10. cs[c].state = "queued" \/ IsOther(cs, c) => (TurnDone(cs) => TurnDone(new))
  BY <1>4 DEF TurnDone, IsTurn, IsOther
<1>11. state # "succeeded" \/ IsOther(cs, c) => (TurnDone(new) => TurnDone(cs))
  BY <1>4 DEF TurnDone, IsTurn, IsOther
<1> QED BY <1>5, <1>6, <1>7, <1>8, <1>9, <1>10, <1>11 DEF new

-----------------------------------------------------------------------------
(* The steps *)

eventVars == <<notes, ended, pending, uploaded, sent>>

LEMMA EventsUnchanged ==
    ASSUME EventsKept, UNCHANGED eventVars
    PROVE  EventsKept'
BY DEF EventsKept, eventVars

LEMMA AttemptStarts == AttemptInit => AttemptIInv
<1> SUFFICES ASSUME AttemptInit PROVE AttemptIInv
  OBVIOUS
<1>1. EventsKept
  BY DEF AttemptInit, EventsKept
<1>2. commands = <<>> /\ commands \in Commands /\ DOMAIN commands = {}
  BY DEF AttemptInit, Commands
<1>3. OneTurn(commands) /\ NoTurn(commands) /\ ~ TurnDone(commands)
  BY <1>2 DEF OneTurn, NoTurn, TurnDone
<1>4. main = "list" /\ exitCode # 0 /\ session # "closed"
  BY DEF AttemptInit
<1>5. CommandsKept /\ EndKept
  BY <1>2, <1>3, <1>4 DEF CommandsKept, EndKept, Opening, InTurn, Closing
<1> QED BY <1>1, <1>5 DEF AttemptIInv

(* Neither the world nor the heartbeat thread touches the commands' order or *)
(* the events.                                                              *)
LEMMA WorldKeeps ==
    ASSUME AttemptIInv,
           HeartbeatReports \/ LeaseIsLost \/ DeadlinePasses \/ Abort \/ ServerDies
    PROVE  AttemptIInv'
<1>1. /\ UNCHANGED eventVars
      /\ UNCHANGED <<main, commands, timedOut, exitCode, session, inHand>>
  BY DEF HeartbeatReports, LeaseIsLost, DeadlinePasses, Abort, ServerDies, Still, stateVars,
         providerVars, noteVars, worldVars, eventVars
<1>2. EventsKept'
  BY <1>1, EventsUnchanged DEF AttemptIInv
<1>3. CommandsKept' /\ EndKept'
  BY <1>1 DEF AttemptIInv, CommandsKept, EndKept, eventVars
<1> QED BY <1>2, <1>3 DEF AttemptIInv

LEMMA SendKeeps ==
    ASSUME AttemptIInv, NEW kind \in {"turn_steer", "turn_interrupt", "session_close"},
           SendCommand(kind)
    PROVE  AttemptIInv'
<1>1. /\ UNCHANGED eventVars
      /\ UNCHANGED <<main, timedOut, exitCode, session, inHand>>
      /\ commands' = Append(commands, Queued(kind))
  BY DEF SendCommand, Still, stateVars, noteVars, eventVars
<1>2. Queued(kind) \in {Queued(k) : k \in {"turn_steer", "turn_interrupt", "session_close"}}
  OBVIOUS
<1>3. Queued(kind).kind # "turn_start"
  BY DEF Queued
<1>4. EventsKept'
  BY <1>1, EventsUnchanged DEF AttemptIInv
<1>5. commands \in Commands
  BY DEF AttemptIInv, CommandsKept
<1>6. /\ commands' \in Commands
      /\ TurnTaken(commands) => TurnTaken(commands')
      /\ TurnDone(commands) <=> TurnDone(commands')
      /\ OneTurn(commands) => OneTurn(commands')
      /\ NoTurn(commands) => NoTurn(commands')
  <2>1. 0 \in Nat
    OBVIOUS
  <2> QED BY <1>1, <1>2, <1>3, <1>5, <2>1, AppendKeeps
<1>7. /\ IsTurn(commands, inHand) => IsTurn(commands', inHand)
      /\ IsOther(commands, inHand) => IsOther(commands', inHand)
  <2>1. DOMAIN commands \subseteq Nat
    BY <1>5 DEF Commands
  <2>2. inHand \in Nat \/ (~ IsTurn(commands, inHand) /\ ~ IsOther(commands, inHand))
    BY <2>1 DEF IsTurn, IsOther
  <2> QED BY <1>1, <1>2, <1>3, <1>5, <2>2, AppendKeeps
<1>8. CommandsKept' /\ EndKept'
  BY <1>1, <1>6, <1>7 DEF AttemptIInv, CommandsKept, EndKept, eventVars
<1> QED BY <1>4, <1>8 DEF AttemptIInv

(* The reader thread appends to what the main thread is sending.              *)
LEMMA NotifyKeeps ==
    ASSUME AttemptIInv, NEW kind \in Kinds, Notify(kind)
    PROVE  AttemptIInv'
<1>1. /\ UNCHANGED <<main, commands, timedOut, exitCode, session, inHand, uploaded, sent>>
      /\ notes' = notes + 1 /\ pending' = Append(pending, notes + 1)
      /\ ended' = ended \/ (ended = 0 /\ ended' = notes + 1)
  BY DEF Notify, stateVars, providerVars
<1>2. EventsKept'
  <2>1. /\ notes \in Nat /\ ended \in 0 .. notes /\ pending \in Seq(Nat) /\ Len(pending) <= notes
        /\ \A i \in 1 .. Len(pending) : pending[i] = notes - Len(pending) + i
        /\ uploaded \in Seq(Nat) /\ Len(uploaded) <= notes
        /\ sent \in 0 .. Len(pending) /\ notes - Len(pending) <= Len(uploaded)
        /\ \A n \in 1 .. Len(uploaded) : uploaded[n] = n
    BY DEF AttemptIInv, EventsKept
  <2>2. /\ pending' \in Seq(Nat) /\ Len(pending') = Len(pending) + 1
        /\ \A i \in 1 .. Len(pending) : pending'[i] = pending[i]
        /\ pending'[Len(pending) + 1] = notes + 1
    BY <1>1, <2>1
  <2>3. \A i \in 1 .. Len(pending') : pending'[i] = notes' - Len(pending') + i
    <3> SUFFICES ASSUME NEW i \in 1 .. Len(pending')
                 PROVE  pending'[i] = notes' - Len(pending') + i
      OBVIOUS
    <3>1. CASE i = Len(pending) + 1
      BY <1>1, <2>1, <2>2, <3>1
    <3>2. CASE i # Len(pending) + 1
      <4>1. i \in 1 .. Len(pending)
        BY <2>1, <2>2, <3>2
      <4> QED BY <1>1, <2>1, <2>2, <4>1
    <3> QED BY <3>1, <3>2
  <2>4. /\ notes' \in Nat /\ ended' \in 0 .. notes' /\ Len(pending') <= notes'
        /\ sent' \in 0 .. Len(pending') /\ notes' - Len(pending') <= Len(uploaded')
        /\ Len(uploaded') <= notes'
    BY <1>1, <2>1, <2>2
  <2> QED BY <1>1, <2>1, <2>2, <2>3, <2>4 DEF EventsKept
<1>3. CommandsKept'
  BY <1>1 DEF AttemptIInv, CommandsKept
<1>4. notes' - Len(pending') + sent' = notes - Len(pending) + sent
  BY <1>1 DEF AttemptIInv, EventsKept
<1>5. EndKept'
  BY <1>1, <1>4 DEF AttemptIInv, EndKept, EventsKept
<1> QED BY <1>2, <1>3, <1>5 DEF AttemptIInv

-----------------------------------------------------------------------------
(* The main thread, where it touches neither commands nor events *)

PlainVars == <<eventVars, commands, inHand, session, exitCode, timedOut>>

LEMMA OpeningKeeps ==
    ASSUME AttemptIInv,
           \/ ListSessions \/ CreateSession \/ AcquireLease \/ OpenServer
           \/ \E step \in DOMAIN Prepares : Prepare(step)
    PROVE  AttemptIInv'
<1>1. /\ UNCHANGED eventVars /\ UNCHANGED <<commands, timedOut, exitCode, inHand>>
      /\ session' = session \/ session' = "open"
      /\ main \in Opening \ {"command"} /\ main' \in Opening \cup {"bestEffort"}
  <2>1. CASE ListSessions \/ CreateSession \/ AcquireLease \/ OpenServer
    BY <2>1 DEF ListSessions, CreateSession, AcquireLease, OpenServer, Proceed, Steady, Local,
             stateVars, noteVars, eventVars, Opening
  <2>2. ASSUME NEW step \in DOMAIN Prepares, Prepare(step) PROVE <1>1!:
    BY <2>2 DEF Prepares, Prepare, Proceed, Steady, Local, stateVars, noteVars, eventVars, Opening
  <2> QED BY <2>1, <2>2
<1>2. EventsKept'
  BY <1>1, EventsUnchanged DEF AttemptIInv
<1>3. CommandsKept' /\ EndKept'
  BY <1>1 DEF AttemptIInv, CommandsKept, EndKept, eventVars, Opening, InTurn, Closing, Leaving
<1> QED BY <1>2, <1>3 DEF AttemptIInv

LEMMA LoopMovesKeep ==
    ASSUME AttemptIInv,
           \/ StartTurn \/ LookAround \/ Interrupt \/ LookAtHeartbeat \/ AtDeadline
           \/ ExecuteCommand \/ CloseServer
    PROVE  AttemptIInv'
<1>1. /\ UNCHANGED eventVars /\ UNCHANGED <<commands, exitCode, inHand, session>>
  BY DEF StartTurn, LookAround, Interrupt, LookAtHeartbeat, AtDeadline, ExecuteCommand, CloseServer,
         LoopKeeps, Steady, Local, stateVars, noteVars, eventVars
<1>2. /\ main \in {"turn", "await", "interrupt", "look", "deadline", "effect", "closeServer"}
      /\ main # "deadline" => timedOut' = timedOut
  BY DEF StartTurn, LookAround, Interrupt, LookAtHeartbeat, AtDeadline, ExecuteCommand, CloseServer,
         LoopKeeps, Proceed, stateVars, AttemptIInv, CommandsKept
<1>3. \/ main' \in {"teardown", "bestEffort"}
      \/ main = "turn" /\ main' = "accept"
      \/ main \in {"await", "interrupt"} /\ main' \in {"lastFlush", "interrupt", "look"}
      \/ main = "look" /\ main' = "flush"
      \/ main = "deadline" /\ main' \in {"interrupt", "await"}
      \/ main = "effect" /\ main' = "ack"
      \/ main = "closeServer" /\ main' = "closeAck"
  BY DEF StartTurn, LookAround, Interrupt, LookAtHeartbeat, AtDeadline, ExecuteCommand, CloseServer,
         Proceed
<1>4. main' = "lastFlush" => timedOut' \/ ended # 0
  BY DEF StartTurn, LookAround, Interrupt, LookAtHeartbeat, AtDeadline, ExecuteCommand, CloseServer,
         Proceed
<1>5. EventsKept'
  BY <1>1, EventsUnchanged DEF AttemptIInv
<1>6. CommandsKept'
  BY <1>1, <1>2, <1>3 DEF AttemptIInv, CommandsKept, Opening, InTurn, Closing, Leaving
<1>7. EndKept'
  BY <1>1, <1>2, <1>3, <1>4 DEF AttemptIInv, EndKept, eventVars
<1> QED BY <1>5, <1>6, <1>7 DEF AttemptIInv

LEMMA LeavingKeeps ==
    ASSUME AttemptIInv,
           \/ BestEffort \/ Teardown \/ RuntimeStopped \/ Seal \/ CloseSession \/ StopHeartbeat
           \/ ReleaseLease \/ SwallowedFails(main)
    PROVE  AttemptIInv'
<1>1. UNCHANGED eventVars /\ UNCHANGED <<commands, exitCode, inHand, timedOut>>
  BY DEF BestEffort, Teardown, RuntimeStopped, Seal, CloseSession, StopHeartbeat, ReleaseLease,
         SwallowedFails, Steady, Local, stateVars, noteVars, eventVars
<1>2. main \in Leaving /\ main' \in Leaving \ {"bestEffort"}
  BY DEF BestEffort, Teardown, RuntimeStopped, Seal, CloseSession, StopHeartbeat, ReleaseLease,
         SwallowedFails, Swallowed, Proceed, Leaving
<1>3. session' = "closed" => exitCode = 0 /\ main' \in {"join", "release", "done"}
  <2>1. CASE CloseSession
    BY <2>1 DEF CloseSession, SessionOutcome, Proceed
  <2>2. CASE BestEffort \/ Seal
    BY <2>2 DEF BestEffort, Seal, Proceed, AttemptIInv, CommandsKept
  <2>3. CASE Teardown \/ RuntimeStopped \/ StopHeartbeat \/ ReleaseLease \/ SwallowedFails(main)
    BY <2>3 DEF Teardown, RuntimeStopped, StopHeartbeat, ReleaseLease, SwallowedFails, Swallowed,
             Proceed, AttemptIInv, CommandsKept
  <2> QED BY <2>1, <2>2, <2>3
<1>4. EventsKept'
  BY <1>1, EventsUnchanged DEF AttemptIInv
<1>5. CommandsKept'
  BY <1>1, <1>2, <1>3 DEF AttemptIInv, CommandsKept, Opening, InTurn, Closing, Leaving
<1>6. EndKept'
  BY <1>1, <1>2 DEF AttemptIInv, EndKept, eventVars, Leaving
<1> QED BY <1>4, <1>5, <1>6 DEF AttemptIInv

(* Two requests for the same events store them once, and what is dropped has  *)
(* been stored; what arrived in the meantime stays on the list.               *)
LEMMA UploadKeepsEvents ==
    ASSUME EventsKept, UNCHANGED <<notes, ended, pending>>, uploaded' = WithBatch,
           sent' \in {sent, Len(FirstBatch)}
    PROVE  /\ EventsKept' /\ Len(uploaded) <= Len(uploaded')
           /\ sent' = Len(FirstBatch) => notes - Len(pending) + sent' <= Len(uploaded')
<1>1. /\ WithBatch \in Seq(Nat)
      /\ Len(WithBatch) <= notes /\ Len(uploaded) <= Len(WithBatch)
      /\ \A n \in 1 .. Len(WithBatch) : WithBatch[n] = n
      /\ Len(FirstBatch) \in 0 .. Len(pending)
      /\ notes - Len(pending) + Len(FirstBatch) <= Len(WithBatch)
  BY BatchStored
<1>2. /\ notes \in Nat /\ sent \in 0 .. Len(pending) /\ Len(pending) \in Nat
      /\ notes - Len(pending) <= Len(uploaded)
      /\ Len(uploaded) \in Nat /\ Len(WithBatch) \in Nat
  BY <1>1 DEF EventsKept
<1>3. sent' \in 0 .. Len(pending) /\ notes - Len(pending) <= Len(WithBatch)
  BY <1>1, <1>2
<1> QED BY <1>1, <1>2, <1>3 DEF EventsKept

LEMMA FlushKeeps ==
    ASSUME AttemptIInv, NEW step \in {"flush", "lastFlush"}, Flush(step)
    PROVE  AttemptIInv'
<1>1. /\ UNCHANGED <<commands, exitCode, inHand, session, timedOut, notes, ended, pending>>
      /\ main = step
      /\ main' = IF pending = <<>> THEN (IF step = "flush" THEN "poll" ELSE "finish")
                                   ELSE (IF step = "flush" THEN "drop" ELSE "lastDrop")
      /\ pending = <<>> => UNCHANGED <<uploaded, sent>>
      /\ pending # <<>> => uploaded' = WithBatch /\ sent' = Len(FirstBatch)
  BY DEF Flush, stateVars, noteVars
<1>2. /\ EventsKept' /\ Len(uploaded) <= Len(uploaded')
      /\ pending # <<>> => notes - Len(pending) + sent' <= Len(uploaded')
  <2>1. CASE pending = <<>>
    BY <1>1, <2>1, EventsUnchanged DEF AttemptIInv, EventsKept, eventVars
  <2>2. CASE pending # <<>>
    BY <1>1, <2>2, UploadKeepsEvents DEF AttemptIInv
  <2> QED BY <2>1, <2>2
<1>3. CommandsKept'
  BY <1>1 DEF AttemptIInv, CommandsKept, Opening, InTurn, Closing, Leaving
<1>4. main' = "finish" => timedOut \/ ended \in 1 .. Len(uploaded)
  <2>1. SUFFICES ASSUME main' = "finish", ~ timedOut PROVE ended \in 1 .. Len(uploaded)
    OBVIOUS
  <2>2. ended # 0 /\ Len(pending) = 0
    BY <1>1, <2>1 DEF AttemptIInv, EndKept
  <2> QED BY <2>2 DEF AttemptIInv, EventsKept
<1>5. EndKept'
  <2>1. ended \in Nat /\ Len(uploaded) \in Nat /\ Len(uploaded') \in Nat
    BY <1>2 DEF AttemptIInv, EventsKept
  <2>2. ended \in 1 .. Len(uploaded) => ended \in 1 .. Len(uploaded')
    BY <1>2, <2>1
  <2> QED BY <1>1, <1>2, <1>4, <2>2 DEF AttemptIInv, EndKept
<1> QED BY <1>2, <1>3, <1>5 DEF AttemptIInv

LEMMA DropKeeps ==
    ASSUME AttemptIInv, DropBatch("drop", "flush") \/ DropBatch("lastDrop", "lastFlush")
    PROVE  AttemptIInv'
<1>1. /\ UNCHANGED <<commands, exitCode, inHand, session, timedOut, notes, ended, uploaded>>
      /\ pending' = SubSeq(pending, sent + 1, Len(pending)) /\ sent' = 0
      /\ \/ main = "drop" /\ main' = "flush"
         \/ main = "lastDrop" /\ main' = "lastFlush"
  BY DEF DropBatch, Proceed, stateVars, providerVars
<1>2. EventsKept'
  <2>1. /\ notes \in Nat /\ ended \in 0 .. notes /\ pending \in Seq(Nat) /\ Len(pending) <= notes
        /\ \A i \in 1 .. Len(pending) : pending[i] = notes - Len(pending) + i
        /\ uploaded \in Seq(Nat) /\ Len(uploaded) <= notes
        /\ sent \in 0 .. Len(pending) /\ notes - Len(pending) + sent <= Len(uploaded)
        /\ \A n \in 1 .. Len(uploaded) : uploaded[n] = n
    BY <1>1 DEF AttemptIInv, EventsKept, EndKept
  <2>2. /\ pending' \in Seq(Nat) /\ Len(pending') = Len(pending) - sent
        /\ \A i \in 1 .. Len(pending) - sent : pending'[i] = pending[sent + i]
    <3>1. /\ sent + 1 \in Int /\ Len(pending) \in Int
          /\ \A i \in sent + 1 .. Len(pending) : pending[i] \in Nat
      BY <2>1
    <3>2. /\ pending' \in Seq(Nat)
          /\ Len(pending') = IF sent + 1 <= Len(pending) THEN Len(pending) - (sent + 1) + 1 ELSE 0
          /\ \A i \in 1 .. Len(pending) - (sent + 1) + 1 : pending'[i] = pending[sent + 1 + i - 1]
      BY <1>1, <3>1, SubSeqProperties
    <3>3. sent \in Nat /\ Len(pending) \in Nat /\ sent <= Len(pending)
      BY <2>1
    <3>4. /\ Len(pending') = Len(pending) - sent
          /\ Len(pending) - (sent + 1) + 1 = Len(pending) - sent
      BY <3>2, <3>3
    <3>5. \A i \in 1 .. Len(pending) - sent : sent + 1 + i - 1 = sent + i
      BY <3>3
    <3> QED BY <3>2, <3>4, <3>5
  <2>3. \A i \in 1 .. Len(pending') : pending'[i] = notes' - Len(pending') + i
    <3> SUFFICES ASSUME NEW i \in 1 .. Len(pending')
                 PROVE  pending'[i] = notes' - Len(pending') + i
      OBVIOUS
    <3>1. /\ sent + i \in 1 .. Len(pending) /\ pending'[i] = pending[sent + i]
          /\ i \in Nat /\ sent \in Nat /\ Len(pending) \in Nat
      BY <2>1, <2>2
    <3>2. pending[sent + i] = notes - Len(pending) + (sent + i)
      BY <2>1, <3>1
    <3>3. /\ notes' = notes /\ notes \in Nat
          /\ Len(pending') = Len(pending) - sent
      BY <1>1, <2>1, <2>2
    <3>4. notes - Len(pending) + (sent + i) = notes' - Len(pending') + i
      BY <3>1, <3>3
    <3> QED BY <3>1, <3>2, <3>4
  <2>4. sent' \in 0 .. Len(pending') /\ notes - Len(pending') <= Len(uploaded)
        /\ Len(pending') <= notes
    BY <1>1, <2>1, <2>2
  <2> QED BY <1>1, <2>1, <2>2, <2>3, <2>4 DEF EventsKept
<1>3. CommandsKept'
  BY <1>1 DEF AttemptIInv, CommandsKept, Opening, InTurn, Closing, Leaving
<1>4. EndKept'
  BY <1>1 DEF AttemptIInv, EndKept
<1> QED BY <1>2, <1>3, <1>4 DEF AttemptIInv

(* A request that fails may have stored its events all the same.              *)
LEMMA FailureKeeps ==
    ASSUME AttemptIInv, StepFails(main)
    PROVE  AttemptIInv'
<1>1. /\ UNCHANGED <<commands, exitCode, inHand, session, timedOut, notes, ended, pending>>
      /\ uploaded' = uploaded \/ uploaded' = WithBatch
      /\ sent' \in {sent, Len(FirstBatch)}
      /\ main \notin Leaving \cup {"drop", "lastDrop"}
      /\ main' \in {main, "bestEffort", "teardown", "done"}
  BY DEF StepFails, noteVars, stateVars, ErrorGoes, Fenced, Retried, ToServer, Swallowed,
         Leaving
<1>2. EventsKept' /\ Len(uploaded) <= Len(uploaded')
  <2>1. CASE uploaded' = uploaded
    <3>1. EventsKept /\ Len(FirstBatch) \in 0 .. Len(pending)
      BY BatchStored DEF AttemptIInv
    <3> QED BY <1>1, <2>1, <3>1 DEF EventsKept
  <2>2. CASE uploaded' = WithBatch
    BY <1>1, <2>2, UploadKeepsEvents DEF AttemptIInv
  <2> QED BY <1>1, <2>1, <2>2
<1>3. CommandsKept'
  BY <1>1 DEF AttemptIInv, CommandsKept, Opening, InTurn, Closing, Leaving
<1>4. EndKept'
  <2>1. ended \in Nat /\ Len(uploaded) \in Nat /\ Len(uploaded') \in Nat
    BY <1>2 DEF AttemptIInv, EventsKept
  <2>2. ended \in 1 .. Len(uploaded) => ended \in 1 .. Len(uploaded')
    BY <1>2, <2>1
  <2> QED BY <1>1, <2>2 DEF AttemptIInv, EndKept
<1> QED BY <1>2, <1>3, <1>4 DEF AttemptIInv

-----------------------------------------------------------------------------
(* The main thread's commands *)

LEMMA OwnCommandKeeps ==
    ASSUME AttemptIInv,
           \/ CreateOwnCommand("command", "turn_start", "claim")
           \/ CreateOwnCommand("closeCommand", "session_close", "closeClaim")
    PROVE  AttemptIInv'
<1>1. commands \in Commands /\ 0 \in Nat
  BY DEF AttemptIInv, CommandsKept
<1>2. UNCHANGED eventVars /\ UNCHANGED <<exitCode, session, timedOut>>
  BY DEF CreateOwnCommand, Steady, Local, noteVars, eventVars
<1>3. EventsKept'
  BY <1>2, EventsUnchanged DEF AttemptIInv
<1>4. CASE CreateOwnCommand("command", "turn_start", "claim")
  <2>1. /\ main = "command" /\ main' = "claim"
        /\ commands' = Append(commands, Queued("turn_start")) /\ inHand' = Len(commands')
    BY <1>4 DEF CreateOwnCommand, Proceed
  <2>2. NoTurn(commands) /\ Queued("turn_start").kind = "turn_start"
    BY <2>1 DEF AttemptIInv, CommandsKept, Opening, Queued
  <2>3. /\ commands' \in Commands /\ OneTurn(commands') /\ IsTurn(commands', Len(commands'))
        /\ TurnDone(commands) <=> TurnDone(commands')
    BY <1>1, <2>1, <2>2, AppendKeeps
  <2>4. CommandsKept' /\ EndKept'
    BY <1>2, <2>1, <2>3 DEF AttemptIInv, CommandsKept, EndKept, Opening, InTurn, Closing, Leaving,
         eventVars
  <2> QED BY <1>3, <2>4 DEF AttemptIInv
<1>5. CASE CreateOwnCommand("closeCommand", "session_close", "closeClaim")
  <2>1. /\ main = "closeCommand" /\ main' = "closeClaim"
        /\ commands' = Append(commands, Queued("session_close")) /\ inHand' = Len(commands')
    BY <1>5 DEF CreateOwnCommand, Proceed
  <2>2. /\ Queued("session_close").kind # "turn_start"
        /\ Queued("session_close") \in
              {Queued(kind) : kind \in {"turn_steer", "turn_interrupt", "session_close"}}
    BY DEF Queued
  <2>3. /\ commands' \in Commands /\ IsOther(commands', Len(commands'))
        /\ TurnDone(commands) <=> TurnDone(commands')
        /\ OneTurn(commands) => OneTurn(commands')
    BY <1>1, <2>1, <2>2, AppendKeeps
  <2>4. CommandsKept' /\ EndKept'
    BY <1>2, <2>1, <2>3 DEF AttemptIInv, CommandsKept, EndKept, Opening, InTurn, Closing, Leaving,
         eventVars
  <2> QED BY <1>3, <2>4 DEF AttemptIInv
<1> QED BY <1>4, <1>5

LEMMA ClaimKeeps ==
    ASSUME AttemptIInv, ClaimOwnCommand("claim", "turn") \/ ClaimOwnCommand("closeClaim", "closeServer")
    PROVE  AttemptIInv'
<1>1. commands \in Commands
  BY DEF AttemptIInv, CommandsKept
<1>2. UNCHANGED eventVars /\ UNCHANGED <<exitCode, session, timedOut, inHand>>
  BY DEF ClaimOwnCommand, Steady, Local, noteVars, eventVars
<1>3. EventsKept'
  BY <1>2, EventsUnchanged DEF AttemptIInv
<1>4. PICK c \in DOMAIN commands :
         /\ commands[c].state = "queued" /\ Acknowledged(c, "claimed")
         /\ \/ main = "claim" /\ main' = (IF c = inHand THEN "turn" ELSE "bestEffort")
            \/ main = "closeClaim" /\ main' = (IF c = inHand THEN "closeServer" ELSE "bestEffort")
  BY DEF ClaimOwnCommand, NextQueued, Proceed
<1>5. /\ commands' \in Commands
      /\ OneTurn(commands) => OneTurn(commands')
      /\ IsTurn(commands, inHand) => IsTurn(commands', inHand)
      /\ IsOther(commands, inHand) => IsOther(commands', inHand)
      /\ IsTurn(commands, c) => TurnTaken(commands')
      /\ TurnDone(commands) <=> TurnDone(commands')
  BY <1>1, <1>4, AcknowledgeKeeps DEF Acknowledged
<1>6. CommandsKept' /\ EndKept'
  BY <1>2, <1>4, <1>5 DEF AttemptIInv, CommandsKept, EndKept, Opening, InTurn, Closing, Leaving,
       eventVars
<1> QED BY <1>3, <1>6 DEF AttemptIInv

LEMMA AcceptKeeps ==
    ASSUME AttemptIInv,
           AcceptTurn \/ AckCommand("ack") \/ AckCommand("ack2") \/ CommandFails(main)
    PROVE  AttemptIInv'
<1>1. commands \in Commands
  BY DEF AttemptIInv, CommandsKept
<1>2. UNCHANGED eventVars /\ UNCHANGED <<exitCode, session, timedOut, inHand>>
  BY DEF AcceptTurn, AckCommand, CommandFails, Steady, Local, stateVars, noteVars, eventVars
<1>3. EventsKept'
  BY <1>2, EventsUnchanged DEF AttemptIInv
<1>4. \/ main = "accept" /\ main' = "await" /\ Acknowledged(inHand, "accepted")
      \/ main = "ack" /\ main' = "ack2" /\ Acknowledged(inHand, "accepted")
      \/ main = "ack2" /\ main' = "deadline" /\ Acknowledged(inHand, "succeeded")
      \/ /\ main \in {"effect", "ack", "ack2"} /\ main' = "bestEffort"
         /\ Acknowledged(inHand, "failed")
      \/ /\ main \in {"effect", "ack", "ack2"} /\ main' = "teardown" /\ UNCHANGED commands
  BY DEF AcceptTurn, AckCommand, CommandFails, Proceed
<1>5. CASE UNCHANGED commands
  BY <1>2, <1>3, <1>4, <1>5 DEF AttemptIInv, CommandsKept, EndKept, Opening, InTurn, Closing,
       Leaving, eventVars, Acknowledged
<1>6. ASSUME NEW state \in {"accepted", "succeeded", "failed"}, Acknowledged(inHand, state),
             \/ main = "accept" /\ main' = "await" /\ state = "accepted"
             \/ main = "ack" /\ main' = "ack2"
             \/ main = "ack2" /\ main' = "deadline"
             \/ main \in {"effect", "ack", "ack2"} /\ main' = "bestEffort"
      PROVE  AttemptIInv'
  <2>1. inHand \in DOMAIN commands
    BY <1>6 DEF AttemptIInv, CommandsKept, IsTurn, IsOther
  <2>2. main # "accept" => IsOther(commands, inHand)
    BY <1>6 DEF AttemptIInv, CommandsKept
  <2>3. /\ commands' \in Commands
        /\ OneTurn(commands) => OneTurn(commands')
        /\ IsOther(commands, inHand) => IsOther(commands', inHand)
        /\ TurnTaken(commands) => TurnTaken(commands')
        /\ TurnDone(commands') => TurnDone(commands)
        /\ main # "accept" => (TurnDone(commands) => TurnDone(commands'))
    BY <1>1, <1>6, <2>1, <2>2, AcknowledgeKeeps DEF Acknowledged
  <2>4. exitCode # 0 /\ session # "closed"
    BY <1>6 DEF AttemptIInv, CommandsKept, Leaving
  <2>5. CommandsKept'
    BY <1>2, <1>6, <2>2, <2>3, <2>4 DEF AttemptIInv, CommandsKept, Opening, InTurn, Closing, Leaving
  <2>6. EndKept'
    BY <1>2, <1>6, <2>3 DEF AttemptIInv, EndKept, eventVars
  <2> QED BY <1>3, <2>5, <2>6 DEF AttemptIInv
<1> QED BY <1>4, <1>5, <1>6

LEMMA PollKeeps ==
    ASSUME AttemptIInv, PollCommand
    PROVE  AttemptIInv'
<1>1. commands \in Commands /\ TurnTaken(commands) /\ OneTurn(commands)
      /\ exitCode # 0 /\ session # "closed"
  BY DEF AttemptIInv, CommandsKept, PollCommand, InTurn, Leaving
<1>2. UNCHANGED eventVars /\ UNCHANGED <<exitCode, session, timedOut>> /\ main = "poll"
  BY DEF PollCommand, Local, noteVars, eventVars
<1>3. EventsKept'
  BY <1>2, EventsUnchanged DEF AttemptIInv
<1>4. CASE main' \in {"deadline", "bestEffort"} /\ UNCHANGED <<inHand, commands>>
  BY <1>1, <1>2, <1>3, <1>4 DEF AttemptIInv, CommandsKept, EndKept, Opening, InTurn, Closing,
       Leaving, eventVars
<1>5. ASSUME NEW c \in DOMAIN commands, commands[c].state = "queued", Acknowledged(c, "claimed"),
             inHand' = c, main' = "effect"
      PROVE  AttemptIInv'
  <2>1. IsOther(commands, c)
    BY <1>1, <1>5 DEF TurnTaken, OneTurn, IsTurn, IsOther
  <2>2. /\ commands' \in Commands /\ OneTurn(commands') /\ TurnTaken(commands')
        /\ IsOther(commands', c)
        /\ TurnDone(commands) <=> TurnDone(commands')
    BY <1>1, <1>5, <2>1, AcknowledgeKeeps DEF Acknowledged
  <2>3. CommandsKept' /\ EndKept'
    BY <1>1, <1>2, <1>5, <2>2 DEF AttemptIInv, CommandsKept, EndKept, Opening, InTurn, Closing,
         Leaving, eventVars
  <2> QED BY <1>3, <2>3 DEF AttemptIInv
<1> QED BY <1>4, <1>5 DEF PollCommand, NextQueued

LEMMA FinishKeeps ==
    ASSUME AttemptIInv, FinishTurn
    PROVE  AttemptIInv'
<1>1. /\ commands \in Commands /\ TurnTaken(commands) /\ OneTurn(commands)
      /\ session # "closed"
      /\ timedOut \/ ended \in 1 .. Len(uploaded)
      /\ exitCode # 0
  BY DEF AttemptIInv, CommandsKept, EndKept, FinishTurn, Proceed, InTurn, Leaving
<1>2. UNCHANGED eventVars /\ UNCHANGED <<session, timedOut, inHand>> /\ main = "finish"
      /\ exitCode' # 0
      /\ main' = (IF TurnSucceeded THEN "closeCommand" ELSE "teardown")
  BY <1>1 DEF FinishTurn, Steady, Local, noteVars, eventVars, Proceed
<1>3. EventsKept'
  BY <1>2, EventsUnchanged DEF AttemptIInv
<1>4. IsTurn(commands, TurnCommand)
  BY <1>1 DEF TurnTaken, IsTurn, TurnCommand
<1>5. TurnCommand \in DOMAIN commands
  BY <1>4 DEF IsTurn
<1>6. CASE TurnSucceeded
  <2>1. Acknowledged(TurnCommand, "succeeded") /\ ~ timedOut
    BY <1>6 DEF FinishTurn, TurnSucceeded
  <2>2. commands' \in Commands /\ OneTurn(commands') /\ TurnDone(commands')
    BY <1>1, <1>4, <1>5, <2>1, AcknowledgeKeeps DEF Acknowledged
  <2>3. CommandsKept' /\ EndKept'
    BY <1>1, <1>2, <1>6, <2>1, <2>2 DEF AttemptIInv, CommandsKept, EndKept, Opening, InTurn,
         Closing, Leaving, eventVars
  <2> QED BY <1>3, <2>3 DEF AttemptIInv
<1>7. CASE ~ TurnSucceeded
  <2>1. Acknowledged(TurnCommand, "failed")
    BY <1>7 DEF FinishTurn
  <2>2. commands' \in Commands /\ OneTurn(commands') /\ (TurnDone(commands') => TurnDone(commands))
    BY <1>1, <1>4, <1>5, <2>1, AcknowledgeKeeps DEF Acknowledged
  <2>3. CommandsKept' /\ EndKept'
    BY <1>1, <1>2, <1>7, <2>2 DEF AttemptIInv, CommandsKept, EndKept, Opening, InTurn,
         Closing, Leaving, eventVars
  <2> QED BY <1>3, <2>3 DEF AttemptIInv
<1> QED BY <1>6, <1>7

LEMMA CloseKeeps ==
    ASSUME AttemptIInv, AckClose("closeAck") \/ AckClose("closeAck2")
    PROVE  AttemptIInv'
<1>1. /\ commands \in Commands /\ OneTurn(commands) /\ TurnDone(commands)
      /\ IsOther(commands, inHand) /\ inHand \in DOMAIN commands
      /\ session # "closed"
  BY DEF AttemptIInv, CommandsKept, AckClose, Proceed, Closing, IsOther
<1>2. UNCHANGED eventVars /\ UNCHANGED <<session, timedOut, inHand>>
      /\ \/ /\ main = "closeAck" /\ main' = "closeAck2" /\ Acknowledged(inHand, "accepted")
            /\ exitCode' = exitCode
         \/ /\ main = "closeAck2" /\ main' = "teardown" /\ Acknowledged(inHand, "succeeded")
  BY DEF AckClose, Steady, Local, noteVars, eventVars, Proceed
<1>3. EventsKept'
  BY <1>2, EventsUnchanged DEF AttemptIInv
<1>4. /\ commands' \in Commands /\ OneTurn(commands') /\ TurnDone(commands')
      /\ IsOther(commands', inHand)
  <2>1. ASSUME NEW state \in {"accepted", "succeeded"}, Acknowledged(inHand, state)
        PROVE  <1>4!:
    BY <1>1, <2>1, AcknowledgeKeeps DEF Acknowledged
  <2> QED BY <1>2, <2>1
<1>5. CommandsKept' /\ EndKept'
  BY <1>1, <1>2, <1>4 DEF AttemptIInv, CommandsKept, EndKept, Opening, InTurn, Closing, Leaving,
       eventVars
<1> QED BY <1>3, <1>5 DEF AttemptIInv

-----------------------------------------------------------------------------

LEMMA AttemptStepKeeps ==
    ASSUME AttemptIInv, [AttemptNext]_attemptVars
    PROVE  AttemptIInv'
<1>1. CASE UNCHANGED attemptVars
  <2>1. /\ UNCHANGED eventVars
        /\ UNCHANGED <<main, commands, timedOut, exitCode, session, inHand>>
    BY <1>1 DEF attemptVars, stateVars, providerVars, noteVars, eventVars
  <2>2. EventsKept'
    BY <2>1, EventsUnchanged DEF AttemptIInv
  <2>3. CommandsKept' /\ EndKept'
    BY <2>1 DEF AttemptIInv, CommandsKept, EndKept, eventVars
  <2> QED BY <2>2, <2>3 DEF AttemptIInv
<1>2. CASE MainStep
  BY <1>2, OpeningKeeps, LoopMovesKeep, LeavingKeeps, FlushKeeps, DropKeeps, FailureKeeps,
     OwnCommandKeeps, ClaimKeeps, AcceptKeeps, PollKeeps, FinishKeeps, CloseKeeps DEF MainStep
<1>3. CASE \E kind \in {"turn_steer", "turn_interrupt", "session_close"} : SendCommand(kind)
  BY <1>3, SendKeeps
<1>4. CASE \E kind \in Kinds : Notify(kind)
  BY <1>4, NotifyKeeps
<1>5. CASE HeartbeatReports \/ LeaseIsLost \/ DeadlinePasses \/ Abort \/ ServerDies
  BY <1>5, WorldKeeps
<1> QED BY <1>1, <1>2, <1>3, <1>4, <1>5 DEF AttemptNext

(* The inductive invariant holds in every state of an attempt. *)
THEOREM AttemptInvariant == AttemptSpec => []AttemptIInv
BY AttemptStarts, AttemptStepKeeps, PTL DEF AttemptSpec

(* EventsInOrder: the provider's record of the server's events has no gap and *)
(* no event twice, whatever request of _flush_events fails after it was       *)
(* stored, and a turn is reported done only after the event that ended it.   *)
THEOREM EventsArriveInOrder == AttemptSpec => []EventsInOrder
<1>1. AttemptIInv => EventsInOrder
  BY DEF AttemptIInv, EventsKept, EndKept, EventsInOrder, TurnDone, IsTurn
<1> QED BY <1>1, AttemptInvariant, PTL

(* ClosedIsDone: a session that is closed as done belongs to an attempt that  *)
(* returns exit code 0 and whose turn was acknowledged as succeeded.         *)
THEOREM ClosedMeansDone == AttemptSpec => []ClosedIsDone
<1>1. AttemptIInv => ClosedIsDone
  <2>1. SUFFICES ASSUME AttemptIInv, session = "closed"
                 PROVE  exitCode = 0 /\ commands[TurnCommand].state = "succeeded"
    BY DEF ClosedIsDone
  <2>2. exitCode = 0 /\ TurnDone(commands) /\ OneTurn(commands)
    BY <2>1 DEF AttemptIInv, CommandsKept
  <2>3. PICK c \in DOMAIN commands : IsTurn(commands, c) /\ commands[c].state = "succeeded"
    BY <2>2 DEF TurnDone
  <2>4. IsTurn(commands, TurnCommand)
    BY <2>3 DEF TurnCommand, IsTurn
  <2>5. TurnCommand = c
    BY <2>2, <2>3, <2>4 DEF OneTurn, IsTurn
  <2> QED BY <2>2, <2>3, <2>5
<1> QED BY <1>1, AttemptInvariant, PTL
===========================================================================
