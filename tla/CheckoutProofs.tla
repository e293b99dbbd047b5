-------------------------- MODULE CheckoutProofs --------------------------
(*************************************************************************)
(* Proofs about one checkout: the serve processes that run in it, and    *)
(* the guards that its claims record for the submits that follow.        *)
(*************************************************************************)
EXTENDS ServeProcess, AuthorGuards, TLAPS

---------------------------------------------------------------------------
(*************************************************************************)
(* The serve processes of one checkout, for any number of them, any      *)
(* command lines and any limits.                                         *)
(*************************************************************************)

AtLoop ==
    {"loop", "cycle", "cycleRun", "claim", "run", "good", "bad", "sleep", "beat", "leave"}

Modes == {"triage", "checks"}

Records(p) ==
    [at : AtLoop \cup {"down", "lock"}, opts : ServeOptions[p] \cup {None},
     stop : BOOLEAN, abort : BOOLEAN, signals : Nat, failures : Nat, missed : Nat,
     count : Nat, runs : Nat, exit : {None, 0, 1, 124}, allowed : Int]

(* A stop is never taken back, and what the poll may still begin is allowed;  *)
(* cycles are of the modes that have them.                                  *)
StopIsKept(r) ==
    /\ r.abort => r.stop
    /\ r.at \in {"cycle", "cycleRun"} => r.opts.mode \in Modes
    /\ r.allowed >= 0
    /\ r.stop => r.allowed >= MayBegin(r)

(* The counts stay under their limits. *)
Counted(r) ==
    /\ r.opts.maxFailures > 0 => r.failures < r.opts.maxFailures
    /\ r.at \in {"cycle", "cycleRun", "claim"} => r.runs <= CycleRuns

Sound(p, r) ==
    /\ r \in Records(p) /\ StopIsKept(r)
    /\ r.at # "down" => r.opts \in ServeOptions[p] /\ Counted(r)
    /\ r.runs <= CycleRuns + 1

ProcessIInv ==
    /\ serve = [p \in Serves |-> serve[p]]
    /\ \A p \in Serves : Sound(p, serve[p])
    /\ \A p \in Serves : Is(p, AtLoop) => lockOwner = p
    /\ lockOwner \in Serves \cup {None} /\ starts \in 0 .. MaxStarts

-----------------------------------------------------------------------------
(* One process changes its record and keeps the lock, or takes it, or has    *)
(* none to keep.                                                            *)
LEMMA OneChanges ==
    ASSUME ProcessIInv, NEW p \in Serves, NEW q, Sound(p, q),
           serve' = [serve EXCEPT ![p] = q],
           q.at \in AtLoop => lockOwner' = p,
           \A x \in Serves \ {p} : Is(x, AtLoop) => lockOwner' = lockOwner,
           lockOwner' \in Serves \cup {None}, starts' \in 0 .. MaxStarts
    PROVE  ProcessIInv'
<1>1. serve' = [x \in Serves |-> serve'[x]]
    BY DEF ProcessIInv
<1>2. serve'[p] = q /\ \A x \in Serves \ {p} : serve'[x] = serve[x]
    BY DEF ProcessIInv
<1>3. \A x \in Serves : Sound(x, serve'[x])
    BY <1>2 DEF ProcessIInv
<1>4. ASSUME NEW x \in Serves, serve'[x].at \in AtLoop
      PROVE  lockOwner' = x
    BY <1>2, <1>4 DEF ProcessIInv, Is
<1> QED
    BY <1>1, <1>3, <1>4 DEF ProcessIInv, Is, Sound, StopIsKept, Counted, Records

LEMMA StepSound ==
    ASSUME ProcessIInv, NEW p \in Serves, Is(p, AtLoop), NEW changes,
           Steps(p, changes), Sound(p, With(serve[p], changes))
    PROVE  ProcessIInv'
<1>1. serve' = [serve EXCEPT ![p] = With(serve[p], changes)]
    BY DEF Steps, Set
<1>2. lockOwner' = lockOwner /\ starts' = starts /\ lockOwner = p
    BY DEF Steps, ProcessIInv
<1> QED
    BY <1>1, <1>2, OneChanges DEF ProcessIInv

(* The record a step of the loop starts from. *)
LEMMA AtLoopSound ==
    ASSUME ProcessIInv, NEW p \in Serves, Is(p, AtLoop)
    PROVE  /\ serve[p] \in Records(p) /\ StopIsKept(serve[p]) /\ Counted(serve[p])
           /\ serve[p].opts \in ServeOptions[p] /\ serve[p].runs <= CycleRuns + 1
           /\ serve[p].opts.maxFailures \in Nat /\ CycleRuns \in Nat \ {0}
BY OptionsAssumption DEF ProcessIInv, Sound, Is, AtLoop, OptionsAssumption

LEMMA LeavesSound ==
    ASSUME ProcessIInv, NEW p \in Serves, Is(p, AtLoop), NEW code \in {0, 1, 124},
           Leaves(p, code)
    PROVE  ProcessIInv'
<1> DEFINE q == With(serve[p], [at |-> "leave", exit |-> code])
<1>1. /\ q \in Records(p) /\ q.at = "leave" /\ q.stop = serve[p].stop
      /\ q.abort = serve[p].abort /\ q.allowed = serve[p].allowed
      /\ q.opts = serve[p].opts /\ q.failures = serve[p].failures /\ q.runs = serve[p].runs
    BY AtLoopSound DEF With, Records, AtLoop
<1>2. Sound(p, q)
    BY <1>1, AtLoopSound DEF Sound, StopIsKept, MayBegin, Counted
<1> QED
    BY <1>2, StepSound DEF Leaves

LEMMA IdlesSound ==
    ASSUME ProcessIInv, NEW p \in Serves, Is(p, AtLoop), Idles(p)
    PROVE  ProcessIInv'
<1>1. CASE Leaves(p, 0)
    BY <1>1, LeavesSound
<1>2. CASE Steps(p, [at |-> "sleep", failures |-> 0])
    <2> DEFINE q == With(serve[p], [at |-> "sleep", failures |-> 0])
    <2>1. /\ q \in Records(p) /\ q.at = "sleep" /\ q.stop = serve[p].stop
          /\ q.abort = serve[p].abort /\ q.allowed = serve[p].allowed
          /\ q.opts = serve[p].opts /\ q.failures = 0 /\ q.runs = serve[p].runs
        BY AtLoopSound DEF With, Records, AtLoop
    <2>2. Sound(p, q)
        BY <2>1, AtLoopSound DEF Sound, StopIsKept, MayBegin, Counted
    <2> QED
        BY <1>2, <2>2, StepSound
<1> QED
    BY <1>1, <1>2 DEF Idles

LEMMA FailsSound ==
    ASSUME ProcessIInv, NEW p \in Serves, Is(p, AtLoop), NEW code \in {1, 124},
           NEW aborted, Fails(p, code, aborted)
    PROVE  ProcessIInv'
<1> DEFINE failures == serve[p].failures + 1
           left == IF Limit(p) > 0 THEN failures ELSE 0
           q == With(serve[p], [at |-> "sleep", failures |-> left])
<1>1. CASE Leaves(p, 0) \/ Leaves(p, 1) \/ Leaves(p, code)
    BY <1>1, LeavesSound
<1>2. CASE ~ (Limit(p) > 0 /\ failures >= Limit(p)) /\ Steps(p, [at |-> "sleep", failures |-> left])
    <2>1. failures \in Nat /\ Limit(p) \in Nat /\ left \in Nat
        BY AtLoopSound DEF Records, Limit
    <2>2. /\ q \in Records(p) /\ q.at = "sleep" /\ q.stop = serve[p].stop
          /\ q.abort = serve[p].abort /\ q.allowed = serve[p].allowed
          /\ q.opts = serve[p].opts /\ q.failures = left /\ q.runs = serve[p].runs
        <3> HIDE DEF left
        <3> QED
            BY <2>1, AtLoopSound DEF With, Records, AtLoop
    <2>3. Counted(q)
        BY <1>2, <2>1, <2>2 DEF Counted, Limit
    <2>4. Sound(p, q)
        BY <2>2, <2>3, AtLoopSound DEF Sound, StopIsKept, MayBegin
    <2> QED
        BY <1>2, <2>4, StepSound
<1> QED
    BY <1>1, <1>2 DEF Fails

LEMMA SucceedsSound ==
    ASSUME ProcessIInv, NEW p \in Serves, Is(p, AtLoop), Succeeds(p)
    PROVE  ProcessIInv'
<1> DEFINE maximum == IF serve[p].opts.mode = "checks" THEN 0 ELSE serve[p].opts.maxCount
           newCount == IF maximum > 0 THEN serve[p].count + 1 ELSE 0
           next == IF serve[p].opts.mode = "checks" THEN "sleep" ELSE "loop"
           q == With(serve[p], [at |-> next, failures |-> 0, count |-> newCount])
<1>1. CASE Leaves(p, 0)
    BY <1>1, LeavesSound
<1>2. CASE Steps(p, [at |-> next, failures |-> 0, count |-> newCount])
    <2>1. newCount \in Nat /\ next \in {"sleep", "loop"}
        BY AtLoopSound DEF Records
    <2>2. /\ q \in Records(p) /\ q.at = next /\ q.stop = serve[p].stop
          /\ q.abort = serve[p].abort /\ q.allowed = serve[p].allowed
          /\ q.opts = serve[p].opts /\ q.failures = 0 /\ q.runs = serve[p].runs
        <3> HIDE DEF next, newCount
        <3> QED
            BY <2>1, AtLoopSound DEF With, Records, AtLoop
    <2>3. Sound(p, q)
        BY <2>1, <2>2, AtLoopSound DEF Sound, StopIsKept, MayBegin, Counted
    <2> QED
        BY <1>2, <2>3, StepSound
<1> QED
    BY <1>1, <1>2 DEF Succeeds

(* A run that begins after a stop was among those the poll might begin. *)
LEMMA LaunchesSound ==
    ASSUME ProcessIInv, NEW p \in Serves, Is(p, {"cycle", "claim"}),
           NEW at \in {"cycleRun", "run"}, Launches(p, at),
           at = "cycleRun" => Is(p, {"cycle"}) /\ serve[p].runs < CycleRuns,
           at = "run" => Is(p, {"claim"})
    PROVE  ProcessIInv'
<1> DEFINE left == IF serve[p].stop THEN serve[p].allowed - 1 ELSE 0
           q == With(serve[p], [at |-> at, runs |-> serve[p].runs + 1, allowed |-> left])
<1>1. Is(p, AtLoop)
    BY DEF Is, AtLoop
<1>2. left \in Int
    BY <1>1, AtLoopSound DEF Records
<1>3. /\ q \in Records(p) /\ q.at = at /\ q.stop = serve[p].stop
      /\ q.abort = serve[p].abort /\ q.allowed = left
      /\ q.opts = serve[p].opts /\ q.failures = serve[p].failures
      /\ q.runs = serve[p].runs + 1
    <2> HIDE DEF left
    <2> QED
        BY <1>1, <1>2, AtLoopSound DEF With, Records, AtLoop
<1>4. StopIsKept(q)
    <2>1. StopIsKept(serve[p]) /\ serve[p].at \in {"cycle", "claim"}
        BY <1>1, AtLoopSound DEF Is
    <2>2. serve[p].runs \in Nat /\ serve[p].allowed \in Int /\ CycleRuns \in Nat
          /\ serve[p].runs <= CycleRuns
        BY <1>1, <2>1, AtLoopSound DEF Records, Counted
    <2>3. at = "cycleRun" => serve[p].opts.mode \in Modes
        BY <2>1 DEF StopIsKept, Is
    <2>4. at = "cycleRun" => serve[p].at = "cycle" /\ serve[p].runs < CycleRuns
        BY DEF Is
    <2>5. MayBegin(q) >= 0
        BY <1>3, <2>2, <2>4 DEF MayBegin
    <2>6. serve[p].stop => serve[p].allowed >= MayBegin(serve[p])
        BY <2>1 DEF StopIsKept
    <2>7. MayBegin(serve[p]) >= MayBegin(q) + 1
        <3>1. CASE at = "run"
            BY <1>3, <3>1 DEF MayBegin, Is
        <3>2. CASE at = "cycleRun"
            BY <1>3, <2>2, <2>4, <3>2 DEF MayBegin
        <3> QED
            BY <3>1, <3>2
    <2>8. MayBegin(q) \in Int /\ MayBegin(serve[p]) \in Int
        BY <1>3, <2>2 DEF MayBegin
    <2>9. left >= 0 /\ (serve[p].stop => left >= MayBegin(q))
        BY <2>2, <2>5, <2>6, <2>7, <2>8
    <2> HIDE DEF q, left
    <2> QED
        BY <1>3, <2>1, <2>3, <2>9 DEF StopIsKept
<1>5. Counted(q) /\ q.runs <= CycleRuns + 1
    <2>1. serve[p].runs \in Nat /\ serve[p].runs <= CycleRuns
        BY <1>1, AtLoopSound DEF Counted, Records, Is
    <2>2. q.at = "cycleRun" => q.runs <= CycleRuns
        BY <1>1, <1>3, <2>1, AtLoopSound
    <2> QED
        BY <1>1, <1>3, <2>1, <2>2, AtLoopSound DEF Counted
<1>6. Sound(p, q)
    BY <1>1, <1>3, <1>4, <1>5, AtLoopSound DEF Sound
<1> QED
    BY <1>1, <1>6, StepSound DEF Launches

(* Steps that change where a process is, to where it begins no run. *)
LEMMA PlaceSound ==
    ASSUME ProcessIInv, NEW p \in Serves, Is(p, AtLoop), NEW at \in AtLoop,
           at \notin {"cycle", "cycleRun", "claim", "run"},
           Steps(p, [at |-> at])
    PROVE  ProcessIInv'
<1> DEFINE q == With(serve[p], [at |-> at])
<1>1. /\ q \in Records(p) /\ q.at = at /\ q.stop = serve[p].stop
      /\ q.abort = serve[p].abort /\ q.allowed = serve[p].allowed
      /\ q.opts = serve[p].opts /\ q.failures = serve[p].failures
      /\ q.runs = serve[p].runs
    BY AtLoopSound DEF With, Records
<1>2. MayBegin(q) = 0
    BY <1>1 DEF MayBegin
<1> HIDE DEF q
<1>3. Sound(p, q)
    BY <1>1, <1>2, AtLoopSound DEF Sound, StopIsKept, Counted
<1> QED
    BY <1>3, StepSound DEF q

LEMMA PollsSound ==
    ASSUME ProcessIInv, NEW p \in Serves, Polls(p)
    PROVE  ProcessIInv'
<1>1. Is(p, AtLoop)
    BY DEF Polls, Is, AtLoop
<1>2. CASE serve[p].stop
    BY <1>1, <1>2, LeavesSound DEF Polls
<1>3. CASE ~ serve[p].stop
    <2> DEFINE at == IF Cycles(p) THEN "cycle" ELSE "claim"
               q == With(serve[p], [at |-> at, runs |-> 0])
    <2>1. at \in AtLoop /\ at \in {"cycle", "claim"}
        BY DEF AtLoop
    <2>2. at = "cycle" => serve[p].opts.mode \in Modes
        BY DEF Cycles, Modes
    <2>3. /\ q \in Records(p) /\ q.at = at /\ q.stop = serve[p].stop
          /\ q.abort = serve[p].abort /\ q.allowed = serve[p].allowed
          /\ q.opts = serve[p].opts /\ q.failures = serve[p].failures /\ q.runs = 0
        <3> HIDE DEF at
        <3> QED
            BY <1>1, <2>1, AtLoopSound DEF With, Records
    <2>4. StopIsKept(q)
        BY <1>1, <1>3, <2>1, <2>2, <2>3, AtLoopSound DEF StopIsKept
    <2>5. Sound(p, q)
        BY <1>1, <2>3, <2>4, AtLoopSound DEF Sound, Counted
    <2> QED
        BY <1>1, <1>3, <2>5, StepSound DEF Polls
<1> QED
    BY <1>2, <1>3

LEMMA CycleSound ==
    ASSUME ProcessIInv, NEW p \in Serves, CycleRunEnds(p) \/ CycleOver(p)
    PROVE  ProcessIInv'
<1>1. Is(p, AtLoop)
    BY DEF CycleRunEnds, CycleOver, Is, AtLoop
<1>2. CASE CycleRunEnds(p)
    <2> DEFINE q == With(serve[p], [at |-> "cycle"])
    <2>1. /\ q \in Records(p) /\ q.at = "cycle" /\ q.stop = serve[p].stop
          /\ q.abort = serve[p].abort /\ q.allowed = serve[p].allowed
          /\ q.opts = serve[p].opts /\ q.failures = serve[p].failures
          /\ q.runs = serve[p].runs
        BY <1>1, AtLoopSound DEF With, Records, AtLoop
    <2>2. serve[p].at = "cycleRun"
        BY <1>2 DEF CycleRunEnds, Is
    <2> QED
        BY <1>1, <1>2, <2>1, <2>2, AtLoopSound, StepSound
           DEF CycleRunEnds, Sound, StopIsKept, MayBegin, Counted
<1>3. CASE CycleOver(p) /\ serve[p].opts.mode = "triage"
    <2> DEFINE q == With(serve[p], [at |-> "claim"])
    <2>1. /\ q \in Records(p) /\ q.at = "claim" /\ q.stop = serve[p].stop
          /\ q.abort = serve[p].abort /\ q.allowed = serve[p].allowed
          /\ q.opts = serve[p].opts /\ q.failures = serve[p].failures
          /\ q.runs = serve[p].runs
        BY <1>1, AtLoopSound DEF With, Records, AtLoop
    <2>2. serve[p].at = "cycle" /\ Steps(p, [at |-> "claim"])
        BY <1>3 DEF CycleOver, Is
    <2>3. Sound(p, q)
        <3>1. CycleRuns \in Nat /\ serve[p].runs \in Nat /\ serve[p].runs <= CycleRuns
            BY <1>1, <2>2, AtLoopSound DEF Records, Counted
        <3>2. MayBegin(q) = 1 /\ MayBegin(serve[p]) \in Int /\ MayBegin(serve[p]) >= 1
            BY <1>3, <2>1, <2>2, <3>1 DEF MayBegin
        <3>3. StopIsKept(q)
            BY <1>1, <2>1, <3>2, AtLoopSound DEF StopIsKept, Records
        <3> QED
            BY <1>1, <2>1, <2>2, <3>3, AtLoopSound DEF Sound, Counted
    <2> QED
        BY <1>1, <2>2, <2>3, StepSound
<1>4. CASE CycleOver(p) /\ serve[p].opts.mode # "triage"
    BY <1>1, <1>4, IdlesSound, SucceedsSound DEF CycleOver
<1> QED
    BY <1>2, <1>3, <1>4

LEMMA LockSound ==
    ASSUME ProcessIInv, NEW p \in Serves, TakeLock(p)
    PROVE  ProcessIInv'
<1>1. /\ serve[p] \in Records(p) /\ serve[p].at = "lock" /\ Sound(p, serve[p])
      /\ serve[p].opts.maxFailures \in Nat
    BY OptionsAssumption DEF ProcessIInv, Sound, TakeLock, Is, OptionsAssumption
<1>2. CASE lockOwner = None
    <2> DEFINE q == With(serve[p], [at |-> "beat"])
    <2>1. /\ q \in Records(p) /\ q.at = "beat" /\ q.stop = serve[p].stop
          /\ q.abort = serve[p].abort /\ q.allowed = serve[p].allowed
          /\ q.opts = serve[p].opts /\ q.failures = serve[p].failures
          /\ q.runs = serve[p].runs
        BY <1>1 DEF With, Records, AtLoop
    <2>2. Sound(p, q)
        BY <1>1, <2>1 DEF Sound, StopIsKept, MayBegin, Counted
    <2>3. \A x \in Serves \ {p} : ~ Is(x, AtLoop)
        BY <1>2, OptionsAssumption DEF ProcessIInv, OptionsAssumption
    <2>4. serve' = [serve EXCEPT ![p] = q] /\ lockOwner' = p /\ starts' = starts
        BY <1>2 DEF TakeLock, Set
    <2> QED
        BY <1>2, <2>2, <2>3, <2>4, OneChanges DEF ProcessIInv
<1>3. CASE lockOwner # None
    <2> DEFINE q == With(serve[p], [at |-> "down", exit |-> 1])
    <2>1. /\ q \in Records(p) /\ q.at = "down" /\ q.stop = serve[p].stop
          /\ q.abort = serve[p].abort /\ q.allowed = serve[p].allowed
          /\ q.opts = serve[p].opts /\ q.runs = serve[p].runs
        BY <1>1 DEF With, Records
    <2>2. Sound(p, q)
        BY <1>1, <2>1 DEF Sound, StopIsKept, MayBegin
    <2>3. serve' = [serve EXCEPT ![p] = q] /\ lockOwner' = lockOwner /\ starts' = starts
        BY <1>3 DEF TakeLock, Set
    <2> QED
        BY <2>1, <2>2, <2>3, OneChanges DEF ProcessIInv, AtLoop
<1> QED
    BY <1>2, <1>3

(* A process that is asked to stop, for the first time or again. *)
LEMMA StopSound ==
    ASSUME NEW p \in Serves, NEW r \in Records(p), StopIsKept(r), Counted(r),
           r.runs <= CycleRuns + 1, CycleRuns \in Nat
    PROVE  LET q == Stop(r)
           IN  /\ q \in Records(p) /\ StopIsKept(q) /\ q.stop
               /\ q.at = r.at /\ q.opts = r.opts /\ q.failures = r.failures
               /\ q.runs = r.runs /\ q.signals = r.signals /\ q.abort = r.abort
<1> DEFINE q == Stop(r)
<1>1. CASE r.stop
    <2>1. q = r
        BY <1>1 DEF Stop
    <2> QED
        BY <1>1, <2>1
<1>2. CASE ~ r.stop
    <2> DEFINE begin == MayBegin(r)
    <2>1. begin \in Int /\ begin >= 0
        BY DEF MayBegin, Records, Counted
    <2>2. q = With(r, [stop |-> TRUE, allowed |-> begin])
        BY <1>2 DEF Stop
    <2> HIDE DEF begin, q
    <2>3. /\ q \in Records(p) /\ q.stop = TRUE /\ q.allowed = begin
          /\ q.at = r.at /\ q.opts = r.opts /\ q.failures = r.failures
          /\ q.runs = r.runs /\ q.signals = r.signals /\ q.abort = r.abort
        BY <2>1, <2>2 DEF With, Records
    <2>4. MayBegin(q) = begin
        BY <2>3 DEF MayBegin, begin
    <2>5. StopIsKept(q)
        BY <2>1, <2>3, <2>4 DEF StopIsKept
    <2> QED
        BY <2>3, <2>5 DEF q
<1> QED
    BY <1>1, <1>2

LEMMA BeatSound ==
    ASSUME ProcessIInv, NEW p \in Serves, NEW ok \in BOOLEAN,
           FirstBeat(p, ok) \/ ThreadBeats(p, ok)
    PROVE  ProcessIInv'
<1> DEFINE r == serve[p]
           limit == r.opts.maxMissed
           missed == IF r.missed > limit THEN limit + 1 ELSE r.missed + 1
           left == IF limit = 0 THEN 0 ELSE missed
           w == Beaten(p, ok)
<1>1. Is(p, AtLoop)
    BY DEF FirstBeat, ThreadBeats, Beating, Is, AtLoop
<1>2. limit \in Nat /\ left \in Nat
    BY <1>1, AtLoopSound, OptionsAssumption DEF Records, OptionsAssumption
<1>3. ASSUME NEW n \in Nat
      PROVE  LET c == With(r, [missed |-> n])
             IN  /\ c \in Records(p) /\ StopIsKept(c) /\ Counted(c)
                 /\ c.at = r.at /\ c.opts = r.opts /\ c.failures = r.failures
                 /\ c.runs = r.runs /\ c.abort = r.abort
    <2> DEFINE c == With(r, [missed |-> n])
    <2>1. /\ c \in Records(p) /\ c.stop = r.stop /\ c.allowed = r.allowed
          /\ c.at = r.at /\ c.opts = r.opts /\ c.failures = r.failures
          /\ c.runs = r.runs /\ c.abort = r.abort
        BY <1>1, AtLoopSound DEF With, Records
    <2> HIDE DEF c
    <2>2. MayBegin(c) = MayBegin(r)
        BY <2>1 DEF MayBegin
    <2> QED
        BY <1>1, <2>1, <2>2, AtLoopSound DEF StopIsKept, Counted, c
<1>4. /\ w \in Records(p) /\ StopIsKept(w) /\ Counted(w)
      /\ w.at = r.at /\ w.opts = r.opts /\ w.failures = r.failures /\ w.runs = r.runs
    <2>1. CASE w = With(r, [missed |-> 0])
        BY <1>3, <2>1
    <2> DEFINE c == With(r, [missed |-> left])
    <2>2. /\ c \in Records(p) /\ StopIsKept(c) /\ Counted(c)
          /\ c.at = r.at /\ c.opts = r.opts /\ c.failures = r.failures
          /\ c.runs = r.runs /\ c.abort = r.abort /\ r.runs <= CycleRuns + 1
          /\ CycleRuns \in Nat
        <3> HIDE DEF left
        <3> QED
            BY <1>1, <1>2, <1>3, AtLoopSound
    <2>3. w = With(r, [missed |-> 0]) \/ w = c \/ w = Stop(c)
        BY DEF Beaten, Missed
    <2> HIDE DEF c, w
    <2>4. CASE w = Stop(c)
        BY <2>2, <2>4, StopSound DEF Counted
    <2> QED
        BY <2>1, <2>2, <2>3, <2>4
<1>5. Sound(p, w)
    BY <1>1, <1>4, AtLoopSound DEF Sound
<1>6. lockOwner = p
    BY <1>1 DEF ProcessIInv
<1> HIDE DEF w
<1>7. CASE ThreadBeats(p, ok)
    <2>1. serve' = [serve EXCEPT ![p] = w] /\ UNCHANGED <<lockOwner, starts>>
        BY <1>7 DEF ThreadBeats, w
    <2> QED
        BY <1>5, <1>6, <2>1, OneChanges DEF ProcessIInv
<1>8. CASE FirstBeat(p, ok)
    <2> DEFINE q == [w EXCEPT !.at = "loop"]
    <2>1. /\ q \in Records(p) /\ q.at = "loop" /\ q.stop = w.stop
          /\ q.abort = w.abort /\ q.allowed = w.allowed
          /\ q.opts = w.opts /\ q.failures = w.failures /\ q.runs = w.runs
        BY <1>4 DEF Records, AtLoop
    <2>2. MayBegin(q) = 0 /\ r.at = "beat"
        BY <1>8, <2>1 DEF MayBegin, FirstBeat, Is
    <2>3. Sound(p, q)
        BY <1>1, <1>4, <2>1, <2>2, AtLoopSound DEF Sound, StopIsKept, Counted
    <2>4. serve' = [serve EXCEPT ![p] = q] /\ UNCHANGED <<lockOwner, starts>>
        BY <1>8 DEF FirstBeat, w
    <2> QED
        BY <1>6, <2>1, <2>3, <2>4, OneChanges DEF ProcessIInv, AtLoop
<1> QED
    BY <1>7, <1>8

LEMMA SignalSound ==
    ASSUME ProcessIInv, NEW p \in Serves, HandleSignal(p)
    PROVE  ProcessIInv'
<1> DEFINE r == serve[p]
           abort == r.signals = 1
           signals == r.signals + 1
           stopped == Stop(r)
           q == With(stopped, [signals |-> signals, abort |-> abort])
<1>1. Is(p, AtLoop)
    BY DEF HandleSignal, Handled, Beating, Is, AtLoop
<1>2. signals \in Nat /\ abort \in BOOLEAN
    BY <1>1, AtLoopSound DEF Records
<1>3. /\ stopped \in Records(p) /\ StopIsKept(stopped) /\ stopped.stop
      /\ stopped.at = r.at /\ stopped.opts = r.opts /\ stopped.failures = r.failures
      /\ stopped.runs = r.runs
    BY <1>1, AtLoopSound, StopSound
<1> HIDE DEF abort, signals, stopped
<1>4. /\ q \in Records(p) /\ q.at = r.at /\ q.stop = stopped.stop
      /\ q.allowed = stopped.allowed /\ q.opts = r.opts /\ q.failures = r.failures
      /\ q.runs = r.runs
    BY <1>2, <1>3 DEF With, Records
<1> HIDE DEF q
<1>5. MayBegin(q) = MayBegin(stopped)
    BY <1>3, <1>4 DEF MayBegin
<1>6. Sound(p, q)
    BY <1>1, <1>3, <1>4, <1>5, AtLoopSound DEF Sound, StopIsKept, Counted
<1>7. serve' = [serve EXCEPT ![p] = q] /\ UNCHANGED <<lockOwner, starts>>
    BY DEF HandleSignal, q, stopped, signals, abort
<1>8. lockOwner = p
    BY <1>1 DEF ProcessIInv
<1> QED
    BY <1>6, <1>7, <1>8, OneChanges DEF ProcessIInv

(* A process that ends, or is not there yet, needs no lock. *)
LEMMA GoneSound ==
    ASSUME ProcessIInv, NEW p \in Serves,
           Exits(p) \/ KilledHard(p) \/ \E opts \in ServeOptions[p] : PrepareServe(p, opts)
    PROVE  ProcessIInv'
<1>1. /\ Down \in Records(p) /\ Down.at = "down" /\ Down.stop = FALSE
      /\ Down.abort = FALSE /\ Down.allowed = 0 /\ Down.runs = 0 /\ Down.failures = 0
    BY DEF Down, Records
<1>2. CASE Exits(p)
    <2> DEFINE exit == serve[p].exit
               q == [Down EXCEPT !.exit = exit]
    <2>1. Is(p, AtLoop) /\ lockOwner = p
        BY <1>2 DEF Exits, Is, AtLoop, ProcessIInv
    <2>2. exit \in {None, 0, 1, 124}
        BY <2>1, AtLoopSound DEF Records
    <2> HIDE DEF exit
    <2>3. /\ q \in Records(p) /\ q.at = "down" /\ q.stop = FALSE /\ q.abort = FALSE
          /\ q.allowed = 0 /\ q.runs = 0
        BY <1>1, <2>2 DEF Records
    <2>4. Sound(p, q)
        BY <2>3, OptionsAssumption DEF Sound, StopIsKept, MayBegin, OptionsAssumption
    <2>5. serve' = [serve EXCEPT ![p] = q] /\ lockOwner' = None /\ starts' = starts
        BY <1>2 DEF Exits, exit
    <2>6. \A x \in Serves \ {p} : ~ Is(x, AtLoop)
        BY <2>1 DEF ProcessIInv
    <2> QED
        BY <2>3, <2>4, <2>5, <2>6, OneChanges DEF ProcessIInv, AtLoop
<1>3. CASE KilledHard(p)
    <2>1. Sound(p, Down)
        BY <1>1, OptionsAssumption DEF Sound, StopIsKept, OptionsAssumption
    <2>2. /\ serve' = [serve EXCEPT ![p] = Down] /\ starts' = starts
          /\ lockOwner' = IF lockOwner = p THEN None ELSE lockOwner
        BY <1>3 DEF KilledHard
    <2>3. \A x \in Serves \ {p} : Is(x, AtLoop) => lockOwner' = lockOwner
        BY <2>2 DEF ProcessIInv
    <2>4. Down.at \notin AtLoop
        BY <1>1 DEF AtLoop
    <2>5. lockOwner' \in Serves \cup {None} /\ starts' \in 0 .. MaxStarts
        BY <2>2 DEF ProcessIInv
    <2> HIDE DEF Down
    <2> QED
        BY <2>1, <2>2, <2>3, <2>4, <2>5, OneChanges
<1>4. ASSUME NEW opts \in ServeOptions[p], PrepareServe(p, opts)
      PROVE  ProcessIInv'
    <2> DEFINE q == [Down EXCEPT !.at = "lock", !.opts = opts]
    <2>1. /\ q \in Records(p) /\ q.at = "lock" /\ q.stop = FALSE /\ q.abort = FALSE
          /\ q.allowed = 0 /\ q.runs = 0 /\ q.failures = 0
          /\ q.opts = opts
        BY <1>1 DEF Records
    <2>2. Sound(p, q)
        BY <2>1, OptionsAssumption DEF Sound, StopIsKept, MayBegin, Counted, OptionsAssumption
    <2>3. serve' = [serve EXCEPT ![p] = q] /\ lockOwner' = lockOwner
        BY <1>4 DEF PrepareServe
    <2>4. starts' \in 0 .. MaxStarts
        <3>1. starts < MaxStarts /\ starts' = starts + 1
            BY <1>4 DEF PrepareServe
        <3>2. starts \in 0 .. MaxStarts /\ MaxStarts \in Nat
            BY OptionsAssumption DEF ProcessIInv, OptionsAssumption
        <3> QED
            BY <3>1, <3>2
    <2>5. q.at \notin AtLoop /\ lockOwner' \in Serves \cup {None}
        BY <2>1, <2>3 DEF AtLoop, ProcessIInv
    <2> HIDE DEF q
    <2> QED
        BY <2>2, <2>3, <2>4, <2>5, OneChanges
<1> QED
    BY <1>2, <1>3, <1>4

LEMMA MainSound ==
    ASSUME ProcessIInv, NEW p \in Serves, MainThread(p)
    PROVE  ProcessIInv'
<1>1. CASE TakeLock(p)
    BY <1>1, LockSound
<1>2. CASE FirstBeat(p, TRUE) \/ FirstBeat(p, FALSE)
    BY <1>2, BeatSound
<1>3. CASE Polls(p)
    BY <1>3, PollsSound
<1>4. CASE ReadsNext(p)
    <2>1. Is(p, {"cycle", "claim"})
        BY <1>4 DEF ReadsNext, Is
    <2> QED
        BY <1>4, <2>1, LaunchesSound DEF ReadsNext
<1>5. CASE CycleRunEnds(p) \/ CycleOver(p)
    BY <1>5, CycleSound
<1>6. CASE CycleFails(p)
    <2>1. Is(p, AtLoop)
        BY <1>6 DEF CycleFails, Is, AtLoop
    <2> QED
        BY <1>6, <2>1, FailsSound DEF CycleFails
<1>7. CASE FindsNothing(p)
    <2>1. Is(p, AtLoop)
        BY <1>7 DEF FindsNothing, Is, AtLoop
    <2> QED
        BY <1>7, <2>1, IdlesSound DEF FindsNothing
<1>8. CASE ClaimFails(p)
    <2>1. Is(p, AtLoop)
        BY <1>8 DEF ClaimFails, Is, AtLoop
    <2> QED
        BY <1>8, <2>1, FailsSound DEF ClaimFails
<1>9. CASE RunsAgent(p)
    <2>1. Is(p, {"cycle", "claim"})
        BY <1>9 DEF RunsAgent, Is
    <2> QED
        BY <1>9, <2>1, LaunchesSound DEF RunsAgent
<1>10. ASSUME NEW at \in {"good", "bad"}, RunOver(p, at)
       PROVE  ProcessIInv'
    <2>1. Is(p, AtLoop)
        BY <1>10 DEF RunOver, Is, AtLoop
    <2>2. at \in AtLoop /\ at \notin {"cycle", "cycleRun", "claim", "run"}
        BY DEF AtLoop
    <2> QED
        BY <1>10, <2>1, <2>2, PlaceSound DEF RunOver
<1>11. CASE RunSucceeded(p)
    <2>1. Is(p, AtLoop)
        BY <1>11 DEF RunSucceeded, Is, AtLoop
    <2> QED
        BY <1>11, <2>1, SucceedsSound DEF RunSucceeded
<1>12. ASSUME NEW code \in {1, 124}, NEW failed \in BOOLEAN, RunFailed(p, code, failed)
       PROVE  ProcessIInv'
    <2>1. Is(p, AtLoop)
        BY <1>12 DEF RunFailed, Is, AtLoop
    <2> QED
        BY <1>12, <2>1, FailsSound DEF RunFailed
<1>13. CASE LoopWakes(p)
    <2>1. Is(p, AtLoop) /\ "loop" \in AtLoop
        BY <1>13 DEF LoopWakes, Is, AtLoop
    <2> QED
        BY <1>13, <2>1, PlaceSound DEF LoopWakes
<1>14. CASE Exits(p)
    BY <1>14, GoneSound
<1> QED
    BY <1>1, <1>2, <1>3, <1>4, <1>5, <1>6, <1>7, <1>8, <1>9, <1>10, <1>11, <1>12,
       <1>13, <1>14 DEF MainThread

LEMMA ProcessInvariant == ProcessSpec => []ProcessIInv
<1>1. ProcessInit => ProcessIInv
    <2> SUFFICES ASSUME ProcessInit PROVE ProcessIInv
        OBVIOUS
    <2>1. \A p \in Serves : /\ Down \in Records(p) /\ Down.at = "down" /\ Down.stop = FALSE
                            /\ Down.abort = FALSE /\ Down.allowed = 0 /\ Down.runs = 0
        BY DEF Down, Records
    <2>2. \A p \in Serves : Sound(p, Down)
        BY <2>1, OptionsAssumption DEF Sound, StopIsKept, OptionsAssumption
    <2>3. \A p \in Serves : serve[p] = Down
        BY DEF ProcessInit
    <2>4. \A p \in Serves : ~ Is(p, AtLoop)
        BY <2>1, <2>3 DEF Is, AtLoop
    <2>5. serve = [p \in Serves |-> serve[p]] /\ lockOwner = None /\ starts = 0
        BY DEF ProcessInit
    <2>6. starts \in 0 .. MaxStarts
        BY <2>5, OptionsAssumption DEF OptionsAssumption
    <2> QED
        BY <2>2, <2>3, <2>4, <2>5, <2>6 DEF ProcessIInv
<1>2. ProcessIInv /\ [ProcessNext]_processVars => ProcessIInv'
    <2>1. CASE UNCHANGED processVars
        BY <2>1 DEF processVars, ProcessIInv, Is, Sound, StopIsKept, Counted, Records
    <2>2. ASSUME ProcessIInv, NEW p \in Serves, MainThread(p)
          PROVE  ProcessIInv'
        BY <2>2, MainSound
    <2>3. ASSUME ProcessIInv, NEW p \in Serves, NEW ok \in BOOLEAN, ThreadBeats(p, ok)
          PROVE  ProcessIInv'
        BY <2>3, BeatSound
    <2>4. ASSUME ProcessIInv, NEW p \in Serves, HandleSignal(p)
          PROVE  ProcessIInv'
        BY <2>4, SignalSound
    <2>5. ASSUME ProcessIInv, NEW p \in Serves,
                 KilledHard(p) \/ \E opts \in ServeOptions[p] : PrepareServe(p, opts)
          PROVE  ProcessIInv'
        BY <2>5, GoneSound
    <2> QED
        BY <2>1, <2>2, <2>3, <2>4, <2>5 DEF ProcessNext
<1> QED
    BY <1>1, <1>2, PTL DEF ProcessSpec

-----------------------------------------------------------------------------
(* One process at most is past the lock of a checkout; the failure count of  *)
(* a running serve stays under its limit, and an abort is always a stop.    *)
THEOREM OneServePerCheckout == ProcessSpec => []ProcessTypes
<1>1. ProcessIInv => ProcessTypes
    <2> SUFFICES ASSUME ProcessIInv, NEW p \in Serves
                 PROVE  /\ Is(p, {"down", "lock"}) \/ lockOwner = p
                        /\ ~ Is(p, {"down"}) =>
                              /\ serve[p].opts \in ServeOptions[p]
                              /\ Limit(p) > 0 => serve[p].failures < Limit(p)
                        /\ serve[p].abort => serve[p].stop
                        /\ serve[p].exit \in {None, 0, 1, 124}
                        /\ serve[p].runs \in 0 .. CycleRuns + 1
        BY DEF ProcessIInv, ProcessTypes
    <2>1. Sound(p, serve[p])
        BY DEF ProcessIInv
    <2>2. Is(p, {"down", "lock"}) \/ Is(p, AtLoop)
        BY <2>1 DEF Sound, Records, Is
    <2>3. Is(p, {"down", "lock"}) \/ lockOwner = p
        BY <2>2 DEF ProcessIInv
    <2>4. serve[p].runs \in Nat /\ serve[p].runs <= CycleRuns + 1 /\ CycleRuns \in Nat
        BY <2>1, OptionsAssumption DEF Sound, Records, OptionsAssumption
    <2>5. serve[p].runs \in 0 .. CycleRuns + 1
        BY <2>4
    <2>6. serve[p].exit \in {None, 0, 1, 124} /\ (serve[p].abort => serve[p].stop)
        BY <2>1 DEF Sound, Records, StopIsKept
    <2>7. ~ Is(p, {"down"}) => /\ serve[p].opts \in ServeOptions[p]
                               /\ Limit(p) > 0 => serve[p].failures < Limit(p)
        BY <2>1 DEF Sound, Counted, Is, Limit
    <2> QED
        BY <2>3, <2>5, <2>6, <2>7
<1> QED
    BY <1>1, ProcessInvariant, PTL

(* NoPollAfterStop: once a signal or the heartbeat asked a serve to stop, it  *)
(* begins no agent run but those that the poll the stop came in may still    *)
(* begin, for any command line and any limits.                              *)
THEOREM StopEndsTheLoop == ProcessSpec => []NoPollAfterStop
<1>1. ProcessIInv => NoPollAfterStop
    BY DEF ProcessIInv, Sound, StopIsKept, NoPollAfterStop
<1> QED
    BY <1>1, ProcessInvariant, PTL

---------------------------------------------------------------------------
(*************************************************************************)
(* The author guards of one checkout, for any shells, issues and agents. *)
(*************************************************************************)

GuardType == {NewGuard(s) : s \in Shells}

FileType == [guards : [Work -> GuardType \cup {None}], worker : BOOLEAN, refs : BOOLEAN]

ShellType ==
    [at : {"idle", "guard", "reread", "truncate", "write", "pool", "claim", "run", "submit"},
     does : {None, "author", "clear", "refs", "worker", "claim_next", "claim", "implement"},
     copy : FileType, items : SUBSET Work,
     agent : {None} \cup {ShellAgent[s] : s \in Shells} \cup Implementers,
     session : {None} \cup {ShellToken[s] : s \in Shells} \cup {RunSession(s) : s \in Shells},
     orchestrated : BOOLEAN]

(* Only a run has a session of its own; a rewrite knows what it is for. *)
ShellSound(s, record) ==
    /\ record \in ShellType
    /\ record.at = "idle" => record.orchestrated = FALSE
    /\ record.orchestrated = TRUE => record.session = RunSession(s)
    /\ record.at = "guard" => record.does = "author" /\ \E i \in Work : record.items = {i}
    /\ record.at = "reread" => record.does \in {"refs", "worker"}
    /\ record.at \in {"truncate", "write"} /\ record.does = "author" =>
          \A i \in record.items : record.copy.guards[i] # None

(* What a rewrite is about to put in the place of the file: all the guards but *)
(* those it clears.                                                         *)
CopyKeeps(record) ==
    \A i \in kept :
        \/ record.copy.guards[i] # None
        \/ record.does = "clear" /\ i \in record.items

OneRewrite == \A s, t \in Shells : Rewriting(s) /\ Rewriting(t) => s = t

CopiesKeep == \A s \in Shells : Doing(s, {"truncate", "write"}) => CopyKeeps(shell[s])

GuardsTyped ==
    /\ localFile \in FileType /\ kept \subseteq Work /\ harmed \in BOOLEAN
    /\ shell \in [Shells -> ShellType]
    /\ \A s \in Shells : ShellSound(s, shell[s])

GuardIInv ==
    /\ GuardsTyped
    /\ ~ harmed => OneRewrite /\ CopiesKeep
    /\ GuardsKept

LEMMA EmptyFileTyped == EmptyFile \in FileType
BY DEF EmptyFile, FileType

LEMMA IdleSound == ASSUME NEW s PROVE ShellSound(s, Idle) /\ Idle.at = "idle"
BY EmptyFileTyped DEF Idle, ShellSound, ShellType

LEMMA NewGuardIsGuard ==
    ASSUME NEW s \in Shells
    PROVE  NewGuard(s) \in GuardType /\ NewGuard(s) # None
BY GuardAssumption DEF GuardAssumption, GuardType

(* The step of one shell. *)
LEMMA OneShell ==
    ASSUME GuardsTyped, NEW s \in Shells, NEW record, ShellSound(s, record),
           shell' = [shell EXCEPT ![s] = record],
           localFile' \in FileType, kept' \subseteq Work, harmed' \in BOOLEAN
    PROVE  /\ GuardsTyped' /\ shell'[s] = record
           /\ \A t \in Shells \ {s} : shell'[t] = shell[t]
<1>1. shell \in [Shells -> ShellType] /\ record \in ShellType
    BY DEF GuardsTyped, ShellSound
<1>2. shell' \in [Shells -> ShellType] /\ shell'[s] = record
      /\ \A t \in Shells \ {s} : shell'[t] = shell[t]
    BY <1>1
<1>3. \A t \in Shells : ShellSound(t, shell'[t])
    BY <1>2 DEF GuardsTyped
<1> QED
    BY <1>2, <1>3 DEF GuardsTyped

(* A step that neither touches the file nor begins a rewrite. *)
LEMMA QuietStep ==
    ASSUME GuardIInv, NEW s \in Shells, NEW record, ShellSound(s, record),
           shell' = [shell EXCEPT ![s] = record],
           record.at \notin {"reread", "truncate", "write"},
           localFile' = localFile, kept' = kept,
           \/ harmed' = harmed /\ ~ Doing(s, {"write"})
           \/ harmed' = TRUE
    PROVE  GuardIInv'
<1>1. GuardsTyped /\ localFile \in FileType /\ kept \subseteq Work /\ harmed \in BOOLEAN
    BY DEF GuardIInv, GuardsTyped
<1>2. GuardsTyped' /\ shell'[s] = record /\ \A t \in Shells \ {s} : shell'[t] = shell[t]
    BY <1>1, OneShell
<1>3. \A t \in Shells : Rewriting(t)' => Rewriting(t) /\ t # s /\ shell'[t] = shell[t]
    BY <1>2 DEF Rewriting, Doing
<1>4. ASSUME ~ harmed' PROVE (OneRewrite' /\ CopiesKeep') /\ ~ harmed /\ ~ Doing(s, {"write"})
    <2>1. ~ harmed /\ ~ Doing(s, {"write"}) /\ OneRewrite /\ CopiesKeep
        BY <1>4 DEF GuardIInv
    <2>2. OneRewrite'
        BY <1>3, <2>1 DEF OneRewrite
    <2>3. CopiesKeep'
        <3>1. SUFFICES ASSUME NEW t \in Shells, Doing(t, {"truncate", "write"})'
                       PROVE  CopyKeeps(shell[t])'
            BY DEF CopiesKeep
        <3>2. t # s /\ shell'[t] = shell[t] /\ Doing(t, {"truncate", "write"})
            BY <1>2, <3>1 DEF Doing
        <3> QED
            BY <2>1, <3>2 DEF CopiesKeep, CopyKeeps
    <2> QED
        BY <2>1, <2>2, <2>3
<1>5. GuardsKept'
    <2>1. SUFFICES ASSUME ~ harmed', \A t \in Shells : ~ Doing(t, {"write"})'
                   PROVE  \A i \in kept : localFile.guards[i] # None
        BY DEF GuardsKept
    <2>2. \A t \in Shells : ~ Doing(t, {"write"})
        BY <1>2, <1>4, <2>1 DEF Doing
    <2> QED
        BY <1>4, <2>1, <2>2 DEF GuardIInv, GuardsKept
<1> QED
    BY <1>2, <1>4, <1>5 DEF GuardIInv

(* Reading the file, when nobody else is rewriting it.                       *)
LEMMA ReadStep ==
    ASSUME GuardIInv, NEW s \in Shells, NEW record, ShellSound(s, record),
           ~ Rewriting(s),
           shell' = [shell EXCEPT ![s] = record],
           harmed' = (harmed \/ \E t \in Shells \ {s} : Rewriting(t)),
           record.at \in {"reread", "truncate"},
           record.at = "truncate" /\ GuardsKept /\ ~ harmed
              /\ (\A t \in Shells : ~ Doing(t, {"write"})) => CopyKeeps(record),
           localFile' = localFile, kept' = kept
    PROVE  GuardIInv'
<1>1. GuardsTyped /\ localFile \in FileType /\ kept \subseteq Work /\ harmed \in BOOLEAN /\ harmed' \in BOOLEAN
    BY DEF GuardIInv, GuardsTyped
<1>2. GuardsTyped' /\ shell'[s] = record /\ \A t \in Shells \ {s} : shell'[t] = shell[t]
    BY <1>1, OneShell
<1>3. ASSUME ~ harmed'
      PROVE  ~ harmed /\ \A t \in Shells : ~ Rewriting(t) /\ ~ Doing(t, {"write"})
    <2>1. ~ harmed /\ ~ \E t \in Shells \ {s} : Rewriting(t)
        BY <1>3, Zenon
    <2>2. \A t \in Shells : ~ Rewriting(t)
        BY <2>1
    <2>3. \A t \in Shells : Doing(t, {"write"}) => Rewriting(t)
        BY DEF Rewriting, Doing
    <2> QED
        BY <2>1, <2>2, <2>3
<1>4. ASSUME ~ harmed' PROVE OneRewrite' /\ CopiesKeep'
    <2>1. \A t \in Shells \ {s} : ~ Rewriting(t)'
        BY <1>2, <1>3, <1>4 DEF Rewriting, Doing
    <2>2. Doing(s, {"truncate", "write"})' => CopyKeeps(record)
        BY <1>2, <1>3, <1>4 DEF Doing, GuardIInv
    <2>3. CopyKeeps(record) => CopyKeeps(shell[s])'
        BY <1>2 DEF CopyKeeps
    <2> QED
        BY <2>1, <2>2, <2>3 DEF OneRewrite, CopiesKeep, Rewriting, Doing
<1>5. GuardsKept'
    BY <1>3 DEF GuardsKept, GuardIInv
<1> QED
    BY <1>2, <1>4, <1>5 DEF GuardIInv

LEMMA ShellFacts ==
    ASSUME GuardIInv, NEW s \in Shells
    PROVE  /\ GuardsTyped /\ localFile \in FileType /\ kept \subseteq Work /\ harmed \in BOOLEAN
           /\ shell \in [Shells -> ShellType] /\ shell[s] \in ShellType /\ ShellSound(s, shell[s])
BY DEF GuardIInv, GuardsTyped

LEMMA Returned ==
    ASSUME GuardIInv, NEW s \in Shells, Returns(s)
    PROVE  shell' = [shell EXCEPT ![s] = Idle]
<1>1. With(shell[s], Idle) = Idle
    BY ShellFacts DEF With, Idle, ShellType
<1> QED
    BY <1>1 DEF Returns, Becomes

LEMMA GuardInitially == GuardInit => GuardIInv
<1>1. ASSUME GuardInit PROVE GuardIInv
    <2>1. GuardsTyped
        BY <1>1, EmptyFileTyped, IdleSound DEF GuardInit, GuardsTyped, ShellSound
    <2>2. \A s \in Shells : ~ Doing(s, {"reread", "truncate", "write"})
        BY <1>1, IdleSound DEF GuardInit, Doing
    <2>3. GuardsKept
        BY <1>1 DEF GuardInit, GuardsKept
    <2> QED
        BY <2>1, <2>2, <2>3 DEF GuardIInv, OneRewrite, CopiesKeep, Rewriting, Doing
<1> QED
    BY <1>1

(* The fields of a shell after some were changed. *)
LEMMA AuthorStep ==
    ASSUME GuardIInv, NEW s \in Shells, NEW i \in Work, NEW answered \in BOOLEAN,
           AuthorCreates(s, i, answered)
    PROVE  GuardIInv'
<1>1. localFile' = localFile /\ kept' = kept /\ harmed' = harmed /\ ~ Doing(s, {"write"})
    BY DEF AuthorCreates, LeavesFile, Begins, Doing
<1>2. CASE answered = TRUE
    <2> DEFINE record == With(shell[s], [at |-> "guard", does |-> "author", items |-> {i}])
    <2>1. shell' = [shell EXCEPT ![s] = record]
        BY <1>2 DEF AuthorCreates, Becomes
    <2>2. ShellSound(s, record) /\ record.at = "guard"
        BY ShellFacts DEF With, ShellType, ShellSound
    <2> HIDE DEF record
    <2> QED
        BY <1>1, <2>1, <2>2, QuietStep
<1>3. CASE answered = FALSE
    <2>1. shell' = [shell EXCEPT ![s] = With(@, Idle)]
        BY <1>3 DEF AuthorCreates, Becomes
    <2>2. With(shell[s], Idle) = Idle
        BY ShellFacts DEF With, Idle, ShellType
    <2>3. shell' = [shell EXCEPT ![s] = Idle]
        BY <2>1, <2>2
    <2> QED
        BY <1>1, <2>3, IdleSound, QuietStep
<1> QED
    BY <1>2, <1>3

LEMMA RecordStep ==
    ASSUME GuardIInv, NEW s \in Shells, RecordGuard(s) PROVE GuardIInv'
<1>1. PICK i \in shell[s].items :
          ReadsFile(s, [at |-> "truncate", copy |-> [localFile EXCEPT !.guards[i] = NewGuard(s)]])
    BY DEF RecordGuard
<1> DEFINE copy == [localFile EXCEPT !.guards[i] = NewGuard(s)]
           record == With(shell[s], [at |-> "truncate", copy |-> copy])
<1>2. /\ shell' = [shell EXCEPT ![s] = record] /\ localFile' = localFile /\ kept' = kept
      /\ harmed' = (harmed \/ \E t \in Shells \ {s} : Rewriting(t))
    BY <1>1 DEF ReadsFile, Becomes
<1>3. /\ shell[s] \in ShellType /\ localFile \in FileType /\ kept \subseteq Work
      /\ shell[s].does = "author" /\ shell[s].at = "guard" /\ ~ Rewriting(s)
    BY ShellFacts DEF RecordGuard, Doing, ShellSound, Rewriting

<1>4. PICK j \in Work : shell[s].items = {j}
    BY <1>3, ShellFacts DEF ShellSound
<1>5. copy \in FileType /\ copy.guards[i] # None
      /\ \A j2 \in Work \ {i} : copy.guards[j2] = localFile.guards[j2]
    BY <1>3, <1>4, NewGuardIsGuard DEF FileType
<1> HIDE DEF copy
<1>6. ShellSound(s, record) /\ record.at = "truncate" /\ record.copy = copy
    BY <1>3, <1>4, <1>5, ShellFacts DEF With, ShellType, ShellSound
<1> HIDE DEF record
<1>7. GuardsKept /\ ~ harmed /\ (\A t \in Shells : ~ Doing(t, {"write"})) => CopyKeeps(record)
    BY <1>3, <1>5, <1>6 DEF GuardsKept, CopyKeeps
<1> QED
    BY <1>2, <1>3, <1>6, <1>7, ReadStep

LEMMA ClearStep ==
    ASSUME GuardIInv, NEW s \in Shells, NEW items \in SUBSET Work, ClearGuards(s, items)
    PROVE  GuardIInv'
<1> DEFINE guards == [i \in Work |-> IF i \in items THEN None ELSE localFile.guards[i]]
           copy == [localFile EXCEPT !.guards = guards]
           record == With(shell[s], [at |-> "truncate", does |-> "clear", items |-> items,
                                     copy |-> copy])
<1>1. /\ shell' = [shell EXCEPT ![s] = record] /\ localFile' = localFile /\ kept' = kept
      /\ harmed' = (harmed \/ \E t \in Shells \ {s} : Rewriting(t))
    BY DEF ClearGuards, ReadsFile, Becomes
<1>2. shell[s] \in ShellType /\ localFile \in FileType /\ kept \subseteq Work /\ ~ Rewriting(s)
    BY ShellFacts DEF ClearGuards, Begins, Doing, Rewriting
<1>3. guards \in [Work -> GuardType \cup {None}]
    BY <1>2 DEF FileType
<1>4. copy \in FileType /\ copy.guards = guards
    <2> HIDE DEF guards
    <2> QED
        BY <1>2, <1>3 DEF FileType
<1>5. \A i \in Work : copy.guards[i] # None \/ i \in items \/ localFile.guards[i] = None
    BY <1>4
<1> HIDE DEF copy
<1>6. /\ record \in ShellType /\ record.at = "truncate" /\ record.copy = copy
      /\ record.does = "clear" /\ record.items = items
      /\ record.orchestrated = shell[s].orchestrated /\ record.session = shell[s].session
    BY <1>2, <1>4 DEF With, ShellType
<1> HIDE DEF record
<1>7. GuardsKept /\ ~ harmed /\ (\A t \in Shells : ~ Doing(t, {"write"})) => CopyKeeps(record)
    BY <1>2, <1>5, <1>6 DEF GuardsKept, CopyKeeps
<1>8. ShellSound(s, record)
    BY <1>6, ShellFacts DEF ShellSound
<1> QED
    BY <1>1, <1>2, <1>6, <1>7, <1>8, ReadStep

LEMMA SaveStep ==
    ASSUME GuardIInv, NEW s \in Shells, SaveRefs(s) \/ SaveLocalWorker(s)
    PROVE  GuardIInv'
<1> DEFINE Save(does, copy) ==
               ReadsFile(s, [at |-> "reread", does |-> does, copy |-> copy])
<1>1. /\ shell[s] \in ShellType /\ localFile \in FileType /\ ~ Rewriting(s)
      /\ \/ Save("refs", [localFile EXCEPT !.refs = TRUE])
         \/ Save("worker", [localFile EXCEPT !.worker = TRUE])
    BY ShellFacts DEF SaveRefs, SaveLocalWorker, Begins, Doing, Rewriting
<1>2. PICK does \in {"refs", "worker"}, copy \in FileType : Save(does, copy)
    <2>1. [localFile EXCEPT !.refs = TRUE] \in FileType /\ [localFile EXCEPT !.worker = TRUE] \in FileType
        BY <1>1 DEF FileType
    <2> QED
        BY <1>1, <2>1
<1> DEFINE record == With(shell[s], [at |-> "reread", does |-> does, copy |-> copy])
<1>3. /\ shell' = [shell EXCEPT ![s] = record] /\ localFile' = localFile /\ kept' = kept
      /\ harmed' = (harmed \/ \E t \in Shells \ {s} : Rewriting(t))
    BY <1>2 DEF ReadsFile, Becomes
<1>4. ShellSound(s, record) /\ record.at = "reread"
    BY <1>1, ShellFacts DEF With, ShellType, ShellSound
<1> HIDE DEF record
<1> QED
    BY <1>1, <1>3, <1>4, ReadStep

(* The guards are read again before the file is truncated. *)
LEMMA PreserveStep ==
    ASSUME GuardIInv, NEW s \in Shells, PreserveGuards(s) PROVE GuardIInv'
<1>1. /\ shell[s] \in ShellType /\ localFile \in FileType /\ kept \subseteq Work
      /\ shell[s].at = "reread" /\ shell[s].does \in {"refs", "worker"} /\ Rewriting(s)
      /\ harmed \in BOOLEAN
    BY ShellFacts DEF PreserveGuards, Doing, ShellSound, Rewriting
<1> DEFINE copy == [shell[s].copy EXCEPT !.guards = localFile.guards]
           record == [shell[s] EXCEPT !.copy = copy, !.at = "truncate"]
<1>2. copy \in FileType /\ copy.guards = localFile.guards
    BY <1>1 DEF FileType, ShellType
<1>3. shell' = [shell EXCEPT ![s] = record]
    <2>1. shell' = [shell EXCEPT ![s] = [[@ EXCEPT !.copy.guards = localFile.guards] EXCEPT !.at = "truncate"]]
        BY DEF PreserveGuards
    <2> QED
        BY <1>1, <2>1, ShellFacts DEF ShellType, FileType
<1>4. localFile' = localFile /\ kept' = kept /\ harmed' = harmed
    BY DEF PreserveGuards, LeavesAll, LeavesFile
<1> HIDE DEF copy
<1>5. ShellSound(s, record) /\ record.at = "truncate" /\ record.copy = copy
    BY <1>1, <1>2, ShellFacts DEF ShellType, ShellSound
<1> HIDE DEF record
<1>6. GuardsTyped' /\ shell'[s] = record /\ \A t \in Shells \ {s} : shell'[t] = shell[t]
    BY <1>1, <1>3, <1>4, <1>5, ShellFacts, OneShell
<1>7. ASSUME ~ harmed' PROVE OneRewrite' /\ CopiesKeep'
    <2>1. ~ harmed /\ OneRewrite
        BY <1>4, <1>7 DEF GuardIInv
    <2>2. \A t \in Shells \ {s} : ~ Rewriting(t) /\ ~ Rewriting(t)'
        BY <1>1, <1>6, <2>1 DEF OneRewrite, Rewriting, Doing
    <2>3. \A i \in kept : localFile.guards[i] # None
        <3>1. \A t \in Shells : ~ Doing(t, {"write"})
            BY <1>1, <2>2 DEF Rewriting, Doing
        <3> QED
            BY <2>1, <3>1 DEF GuardIInv, GuardsKept
    <2>4. CopyKeeps(shell[s])'
        BY <1>2, <1>4, <1>5, <1>6, <2>3 DEF CopyKeeps
    <2> QED
        BY <2>2, <2>4 DEF OneRewrite, CopiesKeep, Rewriting, Doing
<1>8. GuardsKept'
    <2>1. Doing(s, {"write"})' = FALSE /\ Doing(s, {"write"}) = FALSE
        BY <1>1, <1>5, <1>6 DEF Doing
    <2>2. \A t \in Shells : Doing(t, {"write"})' = Doing(t, {"write"})
        BY <1>6, <2>1 DEF Doing
    <2> QED
        BY <1>4, <2>2 DEF GuardIInv, GuardsKept
<1> QED
    BY <1>6, <1>7, <1>8 DEF GuardIInv

LEMMA TruncateStep ==
    ASSUME GuardIInv, NEW s \in Shells, Truncate(s) PROVE GuardIInv'
<1>1. /\ shell[s] \in ShellType /\ kept \subseteq Work /\ harmed \in BOOLEAN
      /\ shell[s].at = "truncate" /\ Rewriting(s)
    BY ShellFacts DEF Truncate, Doing, Rewriting
<1> DEFINE record == With(shell[s], [at |-> "write"])
<1>2. /\ shell' = [shell EXCEPT ![s] = record]
      /\ localFile' = EmptyFile /\ kept' = kept /\ harmed' = harmed
    BY DEF Truncate, Goes, Becomes
<1>3. ShellSound(s, record) /\ record.at = "write" /\ record.copy = shell[s].copy
      /\ record.does = shell[s].does /\ record.items = shell[s].items
    <2>1. /\ record \in ShellType /\ record.at = "write" /\ record.copy = shell[s].copy
          /\ record.does = shell[s].does /\ record.items = shell[s].items
          /\ record.orchestrated = shell[s].orchestrated /\ record.session = shell[s].session
        BY <1>1 DEF With, ShellType
    <2> HIDE DEF record
    <2> QED
        BY <1>1, <2>1, ShellFacts DEF ShellSound
<1> HIDE DEF record
<1>4. GuardsTyped' /\ shell'[s] = record /\ \A t \in Shells \ {s} : shell'[t] = shell[t]
    BY <1>1, <1>2, <1>3, ShellFacts, EmptyFileTyped, OneShell
<1>5. ASSUME ~ harmed' PROVE OneRewrite' /\ CopiesKeep'
    <2>1. ~ harmed /\ OneRewrite /\ CopiesKeep
        BY <1>2, <1>5 DEF GuardIInv
    <2>2. \A t \in Shells \ {s} : ~ Rewriting(t)'
        BY <1>1, <1>4, <2>1 DEF OneRewrite, Rewriting, Doing
    <2>3. CopyKeeps(shell[s])
        BY <1>1, <2>1 DEF CopiesKeep, Doing
    <2>4. CopyKeeps(shell[s])'
        BY <1>2, <1>3, <1>4, <2>3 DEF CopyKeeps
    <2> QED
        BY <2>2, <2>4 DEF OneRewrite, CopiesKeep, Rewriting, Doing
<1>6. GuardsKept'
    BY <1>3, <1>4 DEF GuardsKept, Doing
<1> QED
    BY <1>4, <1>5, <1>6 DEF GuardIInv

LEMMA WriteStep ==
    ASSUME GuardIInv, NEW s \in Shells, WriteFile(s) PROVE GuardIInv'
<1>1. /\ shell[s] \in ShellType /\ kept \subseteq Work /\ harmed \in BOOLEAN
      /\ shell[s].at = "write" /\ Rewriting(s) /\ ShellSound(s, shell[s])
    BY ShellFacts DEF WriteFile, Doing, Rewriting
<1>2. /\ shell' = [shell EXCEPT ![s] = Idle] /\ localFile' = shell[s].copy /\ harmed' = harmed
      /\ kept' = CASE shell[s].does = "author" -> kept \cup shell[s].items
                   [] shell[s].does = "clear"  -> kept \ shell[s].items
                   [] OTHER                    -> kept
    BY Returned DEF WriteFile
<1>3. localFile' \in FileType /\ kept' \subseteq Work
    BY <1>1, <1>2 DEF ShellType
<1>4. GuardsTyped' /\ shell'[s] = Idle /\ \A t \in Shells \ {s} : shell'[t] = shell[t]
    BY <1>1, <1>2, <1>3, ShellFacts, IdleSound, OneShell
<1>5. ASSUME ~ harmed'
      PROVE  /\ OneRewrite' /\ CopiesKeep'
             /\ \A i \in kept' : localFile'.guards[i] # None
    <2>1. ~ harmed /\ OneRewrite /\ CopiesKeep
        BY <1>2, <1>5 DEF GuardIInv
    <2>2. \A t \in Shells : ~ Rewriting(t)'
        BY <1>1, <1>4, <2>1, IdleSound DEF OneRewrite, Rewriting, Doing
    <2>3. CopyKeeps(shell[s])
        BY <1>1, <2>1 DEF CopiesKeep, Doing
    <2>4. \A i \in kept' : localFile'.guards[i] # None
        BY <1>1, <1>2, <2>3 DEF CopyKeeps, ShellSound
    <2> QED
        BY <2>2, <2>4 DEF OneRewrite, CopiesKeep, Rewriting, Doing
<1>6. GuardsKept'
    BY <1>5 DEF GuardsKept
<1> QED
    BY <1>4, <1>5, <1>6 DEF GuardIInv

LEMMA KilledStep ==
    ASSUME GuardIInv, NEW s \in Shells, Killed(s) PROVE GuardIInv'
<1>1. /\ shell' = [shell EXCEPT ![s] = Idle] /\ localFile' = localFile /\ kept' = kept
      /\ harmed' = (harmed \/ Doing(s, {"write"})) /\ harmed \in BOOLEAN
    BY Returned, ShellFacts DEF Killed
<1>2. CASE Doing(s, {"write"})
    <2>1. harmed' = TRUE
        BY <1>1, <1>2, Zenon
    <2> QED
        BY <1>1, <2>1, IdleSound, QuietStep
<1>3. CASE ~ Doing(s, {"write"})
    <2>1. harmed' = harmed
        BY <1>1, <1>3, Zenon
    <2> QED
        BY <1>1, <1>3, <2>1, IdleSound, QuietStep
<1> QED
    BY <1>2, <1>3

(* Whatever a shell does past the guards leaves the file alone. *)
LEMMA OtherStep ==
    ASSUME GuardIInv, NEW s \in Shells,
           \/ ClaimNextChecked(s)
           \/ \E i \in Work : ClaimChecked(s, i)
           \/ \E i \in Work, a \in Implementers : ImplementChecked(s, i, a)
           \/ CheckoutRefuses(s) \/ RunFails(s)
           \/ ClaimIssue(s) \/ ClaimNext(s) \/ ClaimRefused(s)
           \/ SubmitChecked(s) \/ Submit(s)
    PROVE  GuardIInv'
<1>1. localFile' = localFile /\ kept' = kept /\ harmed' = harmed /\ ~ Doing(s, {"write"})
    BY DEF ClaimNextChecked, ClaimChecked, ImplementChecked, CheckoutRefuses, RunFails, ClaimIssue,
           ClaimNext, ClaimRefused, SubmitChecked, Submit, Takes, LeavesAll, LeavesFile, Begins, Doing
<1>2. shell[s] \in ShellType /\ ShellSound(s, shell[s])
    BY ShellFacts
<1>3. ASSUME NEW record, ShellSound(s, record), shell' = [shell EXCEPT ![s] = record],
             record.at \notin {"reread", "truncate", "write"}
      PROVE  GuardIInv'
    BY <1>1, <1>3, QuietStep
<1>4. ShellAgent[s] \in {ShellAgent[t] : t \in Shells} /\ ShellToken[s] \in {ShellToken[t] : t \in Shells}
      /\ RunSession(s) \in {RunSession(t) : t \in Shells}
    OBVIOUS
<1>5. CASE ClaimNextChecked(s)
    <2> DEFINE record == With(shell[s], [at |-> "pool", does |-> "claim_next",
                                         agent |-> ShellAgent[s], session |-> ShellToken[s]])
    <2>1. shell' = [shell EXCEPT ![s] = record] /\ shell[s].at = "idle"
        BY <1>5 DEF ClaimNextChecked, Becomes, Begins, Doing
    <2>2. ShellSound(s, record) /\ record.at = "pool"
        BY <1>2, <1>4, <2>1 DEF With, ShellType, ShellSound
    <2> HIDE DEF record
    <2> QED
        BY <1>3, <2>1, <2>2
<1>6. CASE \E i \in Work : ClaimChecked(s, i)
    <2>1. PICK i \in Work : ClaimChecked(s, i)
        BY <1>6
    <2> DEFINE record == With(shell[s], [at |-> "claim", does |-> "claim", items |-> {i},
                                         agent |-> ShellAgent[s], session |-> ShellToken[s]])
    <2>2. shell' = [shell EXCEPT ![s] = record] /\ shell[s].at = "idle"
        BY <2>1 DEF ClaimChecked, Becomes, Begins, Doing
    <2>3. ShellSound(s, record) /\ record.at = "claim"
        BY <1>2, <1>4, <2>2 DEF With, ShellType, ShellSound
    <2> HIDE DEF record
    <2> QED
        BY <1>3, <2>2, <2>3
<1>7. CASE \E i \in Work, a \in Implementers : ImplementChecked(s, i, a)
    <2>1. PICK i \in Work, a \in Implementers : ImplementChecked(s, i, a)
        BY <1>7
    <2> DEFINE record == With(shell[s], [at |-> "claim", does |-> "implement", items |-> {i},
                                         agent |-> a, session |-> RunSession(s),
                                         orchestrated |-> TRUE])
    <2>2. shell' = [shell EXCEPT ![s] = record]
        BY <2>1 DEF ImplementChecked, Becomes
    <2>3. ShellSound(s, record) /\ record.at = "claim"
        BY <1>2, <1>4 DEF With, ShellType, ShellSound
    <2> HIDE DEF record
    <2> QED
        BY <1>3, <2>2, <2>3
<1>8. CASE CheckoutRefuses(s) \/ RunFails(s) \/ ClaimRefused(s) \/ Submit(s)
    <2>1. shell' = [shell EXCEPT ![s] = Idle]
        BY <1>8, Returned DEF CheckoutRefuses, RunFails, ClaimRefused, Submit
    <2> QED
        BY <1>3, <2>1, IdleSound
<1>9. CASE ClaimIssue(s) \/ ClaimNext(s)
    <2>1. PICK i : Takes(s, i) /\ i \in Work
        <3>1. DOMAIN Issued \subseteq Work
            BY DEF Issued
        <3> QED
            BY <1>9, <3>1 DEF ClaimIssue, ClaimNext
    <2> DEFINE record == With(shell[s], [at |-> "run", items |-> {i}])
    <2>2. shell' = [shell EXCEPT ![s] = record]
        BY <2>1 DEF Takes, Becomes
    <2>3. ShellSound(s, record) /\ record.at = "run"
        BY <1>2, <2>1 DEF With, ShellType, ShellSound
    <2> HIDE DEF record
    <2> QED
        BY <1>3, <2>2, <2>3
<1>10. CASE SubmitChecked(s)
    <2> DEFINE record == With(shell[s], [at |-> "submit"])
    <2>1. shell' = [shell EXCEPT ![s] = record]
        BY <1>10 DEF SubmitChecked, Goes, Becomes
    <2>2. ShellSound(s, record) /\ record.at = "submit"
        BY <1>2 DEF With, ShellType, ShellSound
    <2> HIDE DEF record
    <2> QED
        BY <1>3, <2>1, <2>2
<1> QED
    BY <1>5, <1>6, <1>7, <1>8, <1>9, <1>10

LEMMA ElsewhereStep ==
    ASSUME GuardIInv, UNCHANGED <<localFile, shell, kept, harmed>>
    PROVE  GuardIInv'
BY DEF GuardIInv, GuardsTyped, OneRewrite, CopiesKeep, GuardsKept, CopyKeeps, Rewriting, Doing

LEMMA GuardStep == GuardIInv /\ [GuardNext]_guardVars => GuardIInv'
<1>1. SUFFICES ASSUME GuardIInv, [GuardNext]_guardVars PROVE GuardIInv'
    OBVIOUS
<1>2. ASSUME NEW s \in Shells,
             \/ \E i \in Work, answered \in BOOLEAN : AuthorCreates(s, i, answered)
             \/ RecordGuard(s)
             \/ \E items \in {Work} \cup {{i} : i \in Work} : ClearGuards(s, items)
             \/ SaveRefs(s) \/ SaveLocalWorker(s) \/ PreserveGuards(s)
             \/ Truncate(s) \/ WriteFile(s) \/ Killed(s)
      PROVE  GuardIInv'
    <2>1. {Work} \cup {{i} : i \in Work} \subseteq SUBSET Work
        OBVIOUS
    <2> QED
        BY <1>1, <1>2, <2>1, AuthorStep, RecordStep, ClearStep, SaveStep, PreserveStep, TruncateStep,
           WriteStep, KilledStep
<1>3. ASSUME NEW i \in Work, SentBack(i) \/ TakenBack(i) PROVE GuardIInv'
    BY <1>1, <1>3, ElsewhereStep DEF SentBack, TakenBack, LeavesFile
<1>4. CASE UNCHANGED guardVars
    BY <1>1, <1>4, ElsewhereStep DEF guardVars
<1> QED
    BY <1>1, <1>2, <1>3, <1>4, OtherStep DEF GuardNext

LEMMA GuardInvariant == GuardSpec => []GuardIInv
BY GuardInitially, GuardStep, PTL DEF GuardSpec

(* The guards that are recorded and not cleared stay in the file. *)
THEOREM GuardsStay == GuardSpec => []GuardsKept
<1>1. GuardIInv => GuardsKept
    BY DEF GuardIInv
<1> QED
    BY <1>1, GuardInvariant, PTL

(* RunMaySubmit: an orchestrated run that the guards let past at its claim  *)
(* is let past them at its submit, also when the author's command records   *)
(* its guard only while the agent works.                                    *)
THEOREM RunsReachSubmit == GuardSpec => []RunMaySubmit
<1>1. ASSUME GuardIInv PROVE RunMaySubmit
    <2>1. SUFFICES ASSUME NEW s \in Shells, shell[s].orchestrated,
                          NEW i \in shell[s].items, localFile.guards[i] # None
                   PROVE  OrchestrationAllows(localFile.guards[i], shell[s].agent, shell[s].session)
        BY DEF RunMaySubmit, Blocked
    <2>2. i \in Work /\ shell[s].session = RunSession(s) /\ localFile.guards[i] \in GuardType
        BY <1>1, <2>1, ShellFacts DEF ShellSound, ShellType, FileType
    <2>3. PICK t \in Shells : localFile.guards[i] = NewGuard(t)
        BY <2>2 DEF GuardType
    <2>4. NewGuard(t).session = AuthorSession(t)
        BY DEF NewGuard
    <2>5. AuthorSession(t) # None /\ RunSession(s) # AuthorSession(t)
        BY GuardAssumption DEF GuardAssumption, AuthorSession, RunSession
    <2> QED
        BY <2>2, <2>3, <2>4, <2>5 DEF OrchestrationAllows
<1> QED
    BY <1>1, GuardInvariant, PTL
===========================================================================
