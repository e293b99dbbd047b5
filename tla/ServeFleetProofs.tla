-------------------------- MODULE ServeFleetProofs --------------------------
(***************************************************************************)
(* Proofs about the fleet of serves, for any set of issues, any set of     *)
(* checkouts and any limit on failed runs.                                 *)
(***************************************************************************)
EXTENDS ServeFleet, TLAPS

LEMMA Constants ==
    /\ MaxRunFailures \in Nat
    /\ None \notin Issues
    /\ 0 \in Failures
BY FleetAssumption DEF FleetAssumption, Failures

(* TypeOK is not inductive by itself: a count at the limit could grow once   *)
(* more, were the process not about to exit.  With GivesUpAtLimit it is; here *)
(* are the two in parts, by the variables an action writes.                  *)
TrackerOK == issues \in [Issues -> FleetIssues]

ServeOK ==
    /\ pc \in [Workers -> Steps]
    /\ cur \in [Workers -> Issues \cup {None}]
    /\ failures \in [Workers -> Failures]
    /\ lastFailed \in [Workers -> Issues \cup {None}]
    /\ holder \in [Workers -> HolderKeys]
    /\ givingUp \in [Workers -> BOOLEAN]
    /\ \A w \in Workers :
          pc[w] \in {"run", "submit", "release", "reclaim"} => cur[w] \in Issues
    /\ GivesUpAtLimit

OpOK ==
    /\ op \in [at : {"idle", "list", "detect", "reclaim"},
               issue : Issues \cup {None}, force : BOOLEAN,
               silent : SUBSET Workers, expected : HolderKeys]
    /\ op.at # "idle" => op.issue \in Issues

LEMMA TypeParts ==
    ASSUME TypeOK
    PROVE  /\ TrackerOK /\ OpOK
           /\ late \in SUBSET Workers /\ fresh \in SUBSET Workers
BY DEF TypeOK, TrackerOK, OpOK

LEMMA ServeParts ==
    ASSUME TypeOK, GivesUpAtLimit
    PROVE  ServeOK
BY DEF TypeOK, ServeOK

-----------------------------------------------------------------------------
(* The tracker's operations keep an issue an issue. *)

LEMMA ClaimedType ==
    ASSUME NEW issue \in FleetIssues, NEW w \in Workers
    PROVE  Claimed(issue, AgentOf[w], KeyOf[w], None) \in FleetIssues
BY DEF FleetIssues, Claimed, Statuses, Stages, ReadyStages, Agents, HolderKeys

LEMMA ReclaimedType ==
    ASSUME NEW issue \in FleetIssues
    PROVE  Reclaimed(issue) \in FleetIssues
BY DEF FleetIssues, Reclaimed, Statuses, Stages, ReadyStages, Agents, HolderKeys

LEMMA SubmittedType ==
    ASSUME NEW issue \in FleetIssues
    PROVE  Submitted(issue, None, None) \in FleetIssues
BY DEF FleetIssues, Submitted, Statuses, Stages, ReadyStages, Agents

LEMMA ReviewedType ==
    ASSUME NEW issue \in FleetIssues
    PROVE  /\ Completed(issue) \in FleetIssues
           /\ ChangesRequested(issue, None) \in FleetIssues
BY DEF FleetIssues, Completed, ChangesRequested, Statuses, Stages, ReadyStages, Agents

-----------------------------------------------------------------------------
(* However a poll moves on or ends, the serve's variables keep their types, *)
(* and the count of failures its bound.                                     *)

InPoll(w) == pc[w] \in {"poll", "claim", "run", "submit"}

LEMMA ServeAtKeeps ==
    ASSUME ServeOK, NEW w \in Workers, NEW step \in {"down", "poll"},
           NEW count \in Failures, NEW failed \in Issues \cup {None},
           MaxRunFailures # 0 => count < MaxRunFailures,
           ServeAt(w, step, count, failed)
    PROVE  ServeOK'
BY DEF ServeOK, ServeAt, Steps, HolderKeys, GivesUpAtLimit

LEMMA ExitKeeps ==
    ASSUME ServeOK, NEW w \in Workers, Exit(w)
    PROVE  ServeOK'
BY ServeAtKeeps, Constants DEF Exit

LEMMA PollSucceedsKeeps ==
    ASSUME ServeOK, NEW w \in Workers, PollSucceeds(w)
    PROVE  ServeOK'
BY ServeAtKeeps, Constants DEF PollSucceeds

LEMMA GoToKeeps ==
    ASSUME ServeOK, NEW w \in Workers, InPoll(w),
           NEW step \in {"run", "submit", "release"}, NEW i \in Issues, GoTo(w, step, i)
    PROVE  ServeOK'
BY DEF ServeOK, GoTo, Steps, InPoll, GivesUpAtLimit

LEMMA PollFailsKeeps ==
    ASSUME ServeOK, NEW w \in Workers, ~ givingUp[w],
           NEW i \in Issues \cup {None}, PollFails(w, i)
    PROVE  ServeOK'
<1> DEFINE failed == IF i = None THEN lastFailed[w] ELSE i
           count == failures[w] + 1
<1>1. /\ failed \in Issues \cup {None}
      /\ failures[w] \in Failures
      /\ MaxRunFailures # 0 => failures[w] < MaxRunFailures
    BY DEF ServeOK, GivesUpAtLimit
<1>2. CASE MaxRunFailures = 0
    BY <1>1, <1>2, ServeAtKeeps, Constants DEF PollFails
<1>3. CASE MaxRunFailures # 0
    <2>1. count \in Failures
        BY <1>1, <1>3, Constants DEF Failures
    <2>2. CASE count < MaxRunFailures
        BY <1>1, <1>3, <2>1, <2>2, ServeAtKeeps DEF PollFails
    <2>3. CASE ~ count < MaxRunFailures /\ failed = None
        BY <1>3, <2>3, ExitKeeps DEF PollFails
    <2>4. CASE ~ count < MaxRunFailures /\ failed # None
        <3>1. /\ pc' = [pc EXCEPT ![w] = "release"]
              /\ cur' = [cur EXCEPT ![w] = failed]
              /\ failures' = [failures EXCEPT ![w] = count]
              /\ lastFailed' = [lastFailed EXCEPT ![w] = failed]
              /\ givingUp' = [givingUp EXCEPT ![w] = TRUE]
              /\ UNCHANGED holder
            BY <1>3, <2>4 DEF PollFails
        <3>2. failed \in Issues
            BY <1>1, <2>4
        <3>3. GivesUpAtLimit'
            BY <3>1 DEF GivesUpAtLimit, ServeOK
        <3>4. \A v \in Workers :
                 pc'[v] \in {"run", "submit", "release", "reclaim"} => cur'[v] \in Issues
            BY <3>1, <3>2 DEF ServeOK
        <3>5. /\ pc' \in [Workers -> Steps]
              /\ cur' \in [Workers -> Issues \cup {None}]
              /\ failures' \in [Workers -> Failures]
              /\ lastFailed' \in [Workers -> Issues \cup {None}]
              /\ holder' \in [Workers -> HolderKeys]
              /\ givingUp' \in [Workers -> BOOLEAN]
            BY <1>1, <2>1, <3>1, <3>2 DEF ServeOK, Steps
        <3> QED
            BY <3>3, <3>4, <3>5 DEF ServeOK
    <2> QED
        BY <2>2, <2>3, <2>4
<1> QED
    BY <1>2, <1>3

LEMMA ReleasedKeeps ==
    ASSUME ServeOK, NEW w \in Workers, pc[w] \in {"release", "reclaim"}, Released(w)
    PROVE  ServeOK'
BY ExitKeeps, PollFailsKeeps DEF Released, ServeOK

-----------------------------------------------------------------------------
(* What any step does to the tracker: nothing, or one of five things to one *)
(* issue.  The invariants about claims need no more than this.              *)

Taken(w, i) ==
    /\ ServesClaim(w, i)
    /\ \/ w \in late
       \/ pc[w] = "claim" /\ pc'[w] # "claim"

PutBack(i) ==
    /\ Implementing(i)
    /\ issues' = [issues EXCEPT ![i] = Reclaimed(@)]

Reviewed(i) ==
    /\ issues[i].stage = "review"
    /\ \/ issues' = [issues EXCEPT ![i] = Completed(@)]
       \/ issues' = [issues EXCEPT ![i] = ChangesRequested(@, None)]

Touched(i) ==
    \/ PutBack(i) \/ SubmitTo(i) \/ Reviewed(i)
    \/ \E w \in Workers : Taken(w, i) \/ ClaimByHand(w, i)

LEMMA ServeTouches ==
    ASSUME TypeOK, NEW w \in Workers, ServeStep(w)
    PROVE  UNCHANGED issues \/ \E i \in Issues : Touched(i)
<1>1. CASE ClaimNext(w) \/ ClaimAnswerLost(w)
    <2>1. PICK i \in Issues : ServesClaim(w, i)
        BY <1>1 DEF ClaimNext, ClaimAnswerLost
    <2>2. pc[w] = "claim" /\ pc'[w] # "claim"
        <3>1. CASE ClaimNext(w)
            BY <3>1 DEF ClaimNext, GoTo, TypeOK
        <3>2. CASE ClaimAnswerLost(w)
            BY <3>2 DEF ClaimAnswerLost, PollFails, Exit, ServeAt, TypeOK
        <3> QED
            BY <1>1, <3>1, <3>2
    <2> QED
        BY <2>1, <2>2 DEF Touched, Taken
<1>2. CASE Submit(w) \/ SubmitAnswerLost(w)
    BY <1>2 DEF Submit, SubmitAnswerLost, Touched, TypeOK
<1>3. CASE ReleaseReclaim(w)
    BY <1>3 DEF ReleaseReclaim, ReclaimAccepts, Implementing, Touched, PutBack, TypeOK
<1>4. CASE \/ PollError(w) \/ Recover(w) \/ RecoverNothing(w) \/ ClaimIdle(w)
           \/ ClaimError(w) \/ ClaimTimesOut(w) \/ SetupFails(w) \/ RunFails(w)
           \/ RunChangesNothing(w) \/ RunPasses(w) \/ SubmitError(w)
           \/ ReleaseRead(w) \/ ReleaseFails(w)
    BY <1>4 DEF PollError, Recover, RecoverNothing, ClaimIdle, ClaimError, ClaimTimesOut,
        SetupFails, RunFails, RunChangesNothing, RunPasses, SubmitError, ReleaseRead,
        ReleaseFails
<1> QED
    BY <1>1, <1>2, <1>3, <1>4 DEF ServeStep

LEMMA NextTouches ==
    ASSUME TypeOK, [Next]_vars
    PROVE  UNCHANGED issues \/ \E i \in Issues : Touched(i)
<1>1. ASSUME NEW w \in Workers, Start(w) \/ Stop(w) \/ RegistryStep(w)
      PROVE  UNCHANGED issues
    BY <1>1 DEF Start, Stop, RegistryStep, Beat, FallSilent
<1>2. ASSUME NEW w \in Workers, LateClaim(w)
      PROVE  UNCHANGED issues \/ \E i \in Issues : Touched(i)
    BY <1>2 DEF LateClaim, Touched, Taken
<1>3. CASE OperatorStep
    BY <1>3 DEF OperatorStep, OpRead, OpListWorkers, OpDetect, OpReclaim, OpFails,
        ReclaimAccepts, Implementing, Touched, PutBack, TypeOK
<1>4. CASE PeopleStep
    BY <1>4 DEF PeopleStep, Approve, RequestChanges, SubmitByHand, Touched, Reviewed
<1>5. CASE UNCHANGED vars
    BY <1>5 DEF vars
<1> QED
    BY <1>1, <1>2, <1>3, <1>4, <1>5, ServeTouches DEF Next

LEMMA TouchedType ==
    ASSUME TrackerOK, NEW i \in Issues, Touched(i)
    PROVE  TrackerOK'
<1>1. issues[i] \in FleetIssues
    BY DEF TrackerOK
<1>2. CASE PutBack(i)
    BY <1>1, <1>2, ReclaimedType DEF PutBack, TrackerOK
<1>3. CASE SubmitTo(i)
    BY <1>1, <1>3, SubmittedType DEF SubmitTo, TrackerOK
<1>4. CASE Reviewed(i)
    BY <1>1, <1>4, ReviewedType DEF Reviewed, TrackerOK
<1>5. ASSUME NEW w \in Workers, Taken(w, i) \/ ClaimByHand(w, i)
      PROVE  TrackerOK'
    BY <1>1, <1>5, ClaimedType DEF Taken, ServesClaim, ClaimByHand, TrackerOK
<1> QED
    BY <1>2, <1>3, <1>4, <1>5 DEF Touched

-----------------------------------------------------------------------------
(* Types and the failure count *)

LEMMA ServeStepKeeps ==
    ASSUME TypeOK, GivesUpAtLimit, NEW w \in Workers, ServeStep(w)
    PROVE  ServeOK' /\ fresh' = fresh /\ late' \in SUBSET Workers /\ op' = op
<1>1. ServeOK /\ late \in SUBSET Workers
    BY ServeParts, TypeParts
<1>2. /\ InPoll(w) => ~ givingUp[w]
      /\ pc[w] \in {"run", "submit", "release", "reclaim"} => cur[w] \in Issues
    BY DEF TypeOK, GivesUpAtLimit, InPoll
<1>3. \A i \in Issues : issues[i].worker \in HolderKeys
    BY DEF TypeOK, FleetIssues
<1>4. CASE PollError(w) \/ ClaimError(w) \/ ClaimAnswerLost(w) \/ ClaimTimesOut(w)
    BY <1>1, <1>2, <1>4, PollFailsKeeps
    DEF PollError, ClaimError, ClaimAnswerLost, ClaimTimesOut, InPoll
<1>5. CASE SubmitError(w) \/ SubmitAnswerLost(w) \/ RunFails(w)
    BY <1>1, <1>2, <1>5, PollFailsKeeps DEF SubmitError, SubmitAnswerLost, RunFails, InPoll
<1>6. CASE RunChangesNothing(w) \/ Submit(w)
    BY <1>1, <1>2, <1>6, PollFailsKeeps, PollSucceedsKeeps
    DEF RunChangesNothing, Submit, InPoll
<1>7. CASE Recover(w) \/ ClaimNext(w) \/ SetupFails(w) \/ RunPasses(w)
    BY <1>1, <1>2, <1>7, GoToKeeps DEF Recover, ClaimNext, SetupFails, RunPasses, InPoll
<1>8. CASE ClaimIdle(w)
    BY <1>1, <1>8, ServeAtKeeps, Constants DEF ClaimIdle
<1>9. CASE RecoverNothing(w)
    BY <1>1, <1>9 DEF RecoverNothing, ServeOK, GivesUpAtLimit, Steps
<1>10. CASE ReleaseRead(w)
    BY <1>1, <1>2, <1>3, <1>10 DEF ReleaseRead, ServeOK, GivesUpAtLimit, Steps
<1>11. CASE ReleaseReclaim(w) \/ ReleaseFails(w)
    BY <1>1, <1>11, ReleasedKeeps DEF ReleaseReclaim, ReleaseFails
<1> QED
    BY <1>4, <1>5, <1>6, <1>7, <1>8, <1>9, <1>10, <1>11 DEF ServeStep

LEMMA OperatorKeeps ==
    ASSUME TypeOK, OperatorStep
    PROVE  OpOK' /\ UNCHANGED <<late, fresh, serveVars>>
<1>1. OpOK /\ fresh \in SUBSET Workers /\ ForceModes \subseteq BOOLEAN
    BY TypeParts, FleetAssumption DEF FleetAssumption
<1>2. \A i \in Issues : issues[i].worker \in HolderKeys
    BY DEF TypeOK, FleetIssues
<1>3. ASSUME NEW i \in Issues, NEW force \in ForceModes, OpRead(i, force)
      PROVE  OpOK'
    BY <1>1, <1>2, <1>3 DEF OpRead, NoOp, OpOK, HolderKeys
<1>4. CASE OpListWorkers
    BY <1>1, <1>4 DEF OpListWorkers, Silent, OpOK
<1>5. CASE OpDetect
    BY <1>1, <1>2, <1>5 DEF OpDetect, OpOK
<1>6. ASSUME OpReclaim \/ OpFails
      PROVE  OpOK'
    <2>1. op' = NoOp /\ NoOp.at = "idle"
        BY <1>6 DEF OpReclaim, OpFails, NoOp
    <2>2. NoOp \in [at : {"idle", "list", "detect", "reclaim"},
                    issue : Issues \cup {None}, force : BOOLEAN,
                    silent : SUBSET Workers, expected : HolderKeys]
        BY DEF NoOp, HolderKeys
    <2> QED
        BY <2>1, <2>2 DEF OpOK, HolderKeys
<1>7. UNCHANGED <<late, fresh, serveVars>>
    BY DEF OperatorStep, OpRead, OpListWorkers, OpDetect, OpReclaim, OpFails
<1> QED
    BY <1>3, <1>4, <1>5, <1>6, <1>7 DEF OperatorStep

LEMMA StepKeepsType ==
    ASSUME TypeOK, GivesUpAtLimit, [Next]_vars
    PROVE  TypeOK' /\ GivesUpAtLimit'
<1>1. /\ ServeOK /\ TrackerOK /\ OpOK
      /\ late \in SUBSET Workers /\ fresh \in SUBSET Workers
    BY ServeParts, TypeParts
<1>2. TrackerOK'
    BY <1>1, NextTouches, TouchedType DEF TrackerOK
<1>3. UNCHANGED serveVars => ServeOK'
    BY <1>1 DEF serveVars, ServeOK, GivesUpAtLimit
<1>4. UNCHANGED op => OpOK'
    BY <1>1 DEF OpOK
<1>5. /\ ServeOK' /\ OpOK'
      /\ late' \in SUBSET Workers /\ fresh' \in SUBSET Workers
    <2>1. ASSUME NEW w \in Workers, Start(w) \/ Stop(w)
          PROVE  ServeOK' /\ UNCHANGED <<late, fresh, op>>
        BY <1>1, <2>1, ServeAtKeeps, ExitKeeps, Constants DEF Start, Stop
    <2>2. ASSUME NEW w \in Workers, LateClaim(w) \/ RegistryStep(w)
          PROVE  /\ UNCHANGED <<serveVars, op>>
                 /\ late' \in SUBSET Workers /\ fresh' \in SUBSET Workers
        BY <1>1, <2>2 DEF LateClaim, RegistryStep, Beat, FallSilent
    <2>3. ASSUME PeopleStep \/ UNCHANGED vars
          PROVE  UNCHANGED <<late, fresh, serveVars, op>>
        BY <2>3 DEF PeopleStep, Approve, RequestChanges, SubmitByHand, ClaimByHand,
            vars, serveVars
    <2> QED
        BY <1>1, <1>3, <1>4, <2>1, <2>2, <2>3, ServeStepKeeps, OperatorKeeps DEF Next
<1> QED
    BY <1>2, <1>5 DEF TypeOK, TrackerOK, ServeOK, OpOK

(* Every variable keeps its type, and a serve gives up exactly at its limit *)
(* of failed runs, after any history of failures, lost answers and kills.   *)
THEOREM FleetTypes == Spec => [](TypeOK /\ GivesUpAtLimit)
<1>1. ASSUME Init
      PROVE  TypeOK /\ GivesUpAtLimit
    <2>1. NewIssue(None, None, NoKey) \in FleetIssues
        BY DEF NewIssue, FleetIssues, HolderKeys, Agents, Statuses, Stages, ReadyStages
    <2>2. TrackerOK
        BY <1>1, <2>1 DEF Init, TrackerOK
    <2>3. ServeOK
        BY <1>1, Constants DEF Init, ServeOK, GivesUpAtLimit, Steps, HolderKeys
    <2>4. OpOK
        BY <1>1 DEF Init, NoOp, OpOK, HolderKeys
    <2> QED
        BY <1>1, <2>2, <2>3, <2>4 DEF Init, TypeOK, TrackerOK, ServeOK, OpOK
<1>2. TypeOK /\ GivesUpAtLimit /\ [Next]_vars => TypeOK' /\ GivesUpAtLimit'
    BY StepKeepsType
<1> QED
    BY <1>1, <1>2, PTL DEF Spec

-----------------------------------------------------------------------------
(* Claims *)

LEMMA Keys ==
    ASSUME NEW w \in Workers
    PROVE  /\ KeyOf[w] \in LookupKeys(KeyOf[w]) /\ KeyOf[w] # NoKey
           /\ AgentOf[w] # None
           /\ \A v \in Workers : v # w => KeyOf[v] \notin LookupKeys(KeyOf[w])
BY FleetAssumption DEF FleetAssumption, LookupKeys

(* A claim records the agent and the checkout that asked for it. *)
LEMMA ClaimedFields ==
    ASSUME NEW issue \in FleetIssues, NEW w \in Workers,
           NEW new, new = Claimed(issue, AgentOf[w], KeyOf[w], None)
    PROVE  /\ new.status = "in_progress" /\ new.stage = "implementing"
           /\ new.assignee = AgentOf[w] /\ new.implementer = AgentOf[w]
           /\ new.worker = KeyOf[w]
BY Keys DEF FleetIssues, Claimed

(* Nothing else that happens to an issue leaves it implementing. *)
LEMMA PutDownFields ==
    ASSUME NEW issue \in FleetIssues
    PROVE  /\ Reclaimed(issue).stage = "todo"
           /\ Submitted(issue, None, None).stage = "review"
           /\ Completed(issue).stage = "done"
           /\ ChangesRequested(issue, None).stage = "changes_requested"
BY DEF FleetIssues, Reclaimed, Submitted, Completed, ChangesRequested

LEMMA TouchedIssue ==
    ASSUME TypeOK, NEW i \in Issues, Touched(i)
    PROVE  /\ \A j \in Issues \ {i} : issues'[j] = issues[j]
           /\ \/ issues'[i].stage # "implementing"
              \/ \E w \in Workers :
                    /\ Taken(w, i) \/ ClaimByHand(w, i)
                    /\ issues'[i] = Claimed(issues[i], AgentOf[w], KeyOf[w], None)
<1>1. issues \in [Issues -> FleetIssues] /\ issues[i] \in FleetIssues
    BY DEF TypeOK
<1>2. CASE PutBack(i) \/ SubmitTo(i) \/ Reviewed(i)
    BY <1>1, <1>2, PutDownFields DEF PutBack, SubmitTo, Reviewed
<1>3. CASE \E w \in Workers : Taken(w, i) \/ ClaimByHand(w, i)
    BY <1>1, <1>3 DEF Taken, ServesClaim, ClaimByHand
<1> QED
    BY <1>2, <1>3 DEF Touched

LEMMA StepKeepsOwned ==
    ASSUME TypeOK, ClaimsAreOwned, [Next]_vars
    PROVE  ClaimsAreOwned'
<1>1. CASE UNCHANGED issues
    BY <1>1 DEF ClaimsAreOwned, Implementing
<1>2. ASSUME NEW i \in Issues, Touched(i)
      PROVE  ClaimsAreOwned'
    <2> SUFFICES ASSUME NEW j \in Issues, Implementing(j)'
                 PROVE  (/\ issues[j].status = "in_progress"
                         /\ issues[j].assignee # None
                         /\ issues[j].assignee = issues[j].implementer
                         /\ \E w \in Workers : /\ issues[j].worker = KeyOf[w]
                                               /\ issues[j].assignee = AgentOf[w])'
        BY DEF ClaimsAreOwned
    <2>1. CASE j # i
        BY <1>2, <2>1, TouchedIssue DEF ClaimsAreOwned, Implementing
    <2>2. CASE j = i
        <3>1. PICK w \in Workers :
                  issues'[i] = Claimed(issues[i], AgentOf[w], KeyOf[w], None)
            BY <1>2, <2>2, TouchedIssue DEF Implementing
        <3>2. issues[i] \in FleetIssues
            BY DEF TypeOK
        <3> QED
            BY <2>2, <3>1, <3>2, ClaimedFields, Keys
    <2> QED
        BY <2>1, <2>2
<1> QED
    BY <1>1, <1>2, NextTouches

(* Whatever is implementing names the agent and the checkout that hold it,   *)
(* with takeovers by hand, late claims and late submissions included.        *)
THEOREM FleetClaimsOwned == Spec => []ClaimsAreOwned
<1>1. Init => ClaimsAreOwned
    BY DEF Init, ClaimsAreOwned, Implementing, NewIssue
<1>2. TypeOK /\ ClaimsAreOwned /\ [Next]_vars => ClaimsAreOwned'
    BY StepKeepsOwned
<1> QED
    BY <1>1, <1>2, FleetTypes, PTL DEF Spec

-----------------------------------------------------------------------------
(* One claim per worker.  The invariant needs to know why a claim may be     *)
(* asked for: between the recovery that found nothing and the claim nobody   *)
(* else can make this checkout a holder, and no earlier claim is on its way. *)

ClaimWindow ==
    /\ late = {}
    /\ \A w \in Workers : pc[w] = "claim" => Idle(w)
    /\ \A w \in Workers : \A i, j \in Issues : Held(w, i) /\ Held(w, j) => i = j

LEMMA OnlyTakerGains ==
    ASSUME TypeOK, ServeOnly, late = {}, NEW i \in Issues, Touched(i),
           NEW v \in Workers, NEW j \in Issues, Held(v, j)', ~ Held(v, j)
    PROVE  j = i /\ pc[v] = "claim" /\ pc'[v] # "claim"
<1>1. issues[i] \in FleetIssues
    BY DEF TypeOK
<1>2. j = i
    BY TouchedIssue DEF Held, Implementing
<1>3. PICK w \in Workers :
          /\ Taken(w, i)
          /\ issues'[i] = Claimed(issues[i], AgentOf[w], KeyOf[w], None)
    BY <1>2, TouchedIssue DEF Held, Implementing, ClaimByHand, ServeOnly
<1>4. issues'[i].worker = KeyOf[w]
    BY <1>1, <1>3, ClaimedFields
<1>5. v = w
    BY <1>2, <1>4, Keys DEF Held
<1> QED
    BY <1>2, <1>3, <1>5 DEF Taken

(* Every way a poll ends or moves on, RecoverNothing apart, leads elsewhere. *)
LEMMA PollMoves ==
    ASSUME NEW v \in Workers, NEW i,
           \/ PollFails(v, i) \/ PollSucceeds(v) \/ Exit(v) \/ Released(v)
           \/ ServeAt(v, "poll", 0, None)
           \/ GoTo(v, "run", i) \/ GoTo(v, "submit", i) \/ GoTo(v, "release", i)
    PROVE  \E step \in Steps \ {"claim"} : pc' = [pc EXCEPT ![v] = step]
BY DEF PollFails, PollSucceeds, Exit, Released, ServeAt, GoTo, Steps

LEMMA ServeStepMoves ==
    ASSUME NEW v \in Workers, ServeStep(v), ~ RecoverNothing(v)
    PROVE  \E step \in Steps \ {"claim"} : pc' = [pc EXCEPT ![v] = step]
<1>1. CASE ReleaseRead(v)
    BY <1>1 DEF ReleaseRead, Steps
<1>2. CASE \/ PollError(v) \/ ClaimIdle(v) \/ ClaimError(v) \/ ClaimAnswerLost(v)
           \/ ClaimTimesOut(v) \/ RunFails(v) \/ RunChangesNothing(v) \/ Submit(v)
           \/ SubmitError(v) \/ SubmitAnswerLost(v)
    BY <1>2, PollMoves DEF PollError, ClaimIdle, ClaimError, ClaimAnswerLost,
        ClaimTimesOut, RunFails, RunChangesNothing, Submit, SubmitError, SubmitAnswerLost
<1>3. CASE \/ Recover(v) \/ ClaimNext(v) \/ SetupFails(v) \/ RunPasses(v)
           \/ ReleaseReclaim(v) \/ ReleaseFails(v)
    BY <1>3, PollMoves DEF Recover, ClaimNext, SetupFails, RunPasses, ReleaseReclaim,
        ReleaseFails
<1> QED
    BY <1>1, <1>2, <1>3 DEF ServeStep

LEMMA ClaimsAfterRecovery ==
    ASSUME TypeOK, [Next]_vars, NEW w \in Workers, pc'[w] = "claim", pc[w] # "claim"
    PROVE  Idle(w) /\ UNCHANGED issues
<1>1. pc \in [Workers -> Steps]
    BY DEF TypeOK
<1>2. ASSUME NEW v \in Workers, ServeStep(v)
      PROVE  Idle(w) /\ UNCHANGED issues
    <2>1. CASE RecoverNothing(v)
        BY <1>1, <2>1 DEF RecoverNothing
    <2>2. CASE ~ RecoverNothing(v)
        BY <1>1, <1>2, <2>2, ServeStepMoves
    <2> QED
        BY <2>1, <2>2
<1>3. ASSUME NEW v \in Workers, Start(v) \/ Stop(v)
      PROVE  FALSE
    BY <1>1, <1>3 DEF Start, Stop, Exit, ServeAt
<1>4. ASSUME NEW v \in Workers, LateClaim(v) \/ RegistryStep(v)
      PROVE  FALSE
    BY <1>4 DEF LateClaim, RegistryStep, Beat, FallSilent, serveVars
<1>5. CASE OperatorStep \/ PeopleStep \/ UNCHANGED vars
    BY <1>5 DEF OperatorStep, OpRead, OpListWorkers, OpDetect, OpReclaim, OpFails,
        PeopleStep, Approve, RequestChanges, SubmitByHand, ClaimByHand, vars, serveVars
<1> QED
    BY <1>2, <1>3, <1>4, <1>5 DEF Next

LEMMA NothingLate ==
    ASSUME [Next]_vars, ServeOnly, late = {}
    PROVE  late' = {}
<1>1. ASSUME NEW v \in Workers, ServeStep(v)
      PROVE  late' = late
    BY <1>1 DEF ServeStep, ServeOnly, PollError, Recover, RecoverNothing, ClaimNext,
        ClaimIdle, ClaimError, ClaimAnswerLost, ClaimTimesOut, SetupFails, RunFails,
        RunChangesNothing, RunPasses, Submit, SubmitError, SubmitAnswerLost,
        ReleaseRead, ReleaseReclaim, ReleaseFails
<1>2. ASSUME NEW v \in Workers, Start(v) \/ Stop(v) \/ LateClaim(v) \/ RegistryStep(v)
      PROVE  late' = {}
    BY <1>2 DEF Start, Stop, LateClaim, RegistryStep, Beat, FallSilent
<1>3. CASE OperatorStep \/ PeopleStep \/ UNCHANGED vars
    BY <1>3 DEF OperatorStep, OpRead, OpListWorkers, OpDetect, OpReclaim, OpFails,
        PeopleStep, Approve, RequestChanges, SubmitByHand, ClaimByHand, vars
<1> QED
    BY <1>1, <1>2, <1>3 DEF Next

LEMMA StepKeepsWindow ==
    ASSUME TypeOK, ServeOnly, ClaimWindow, [Next]_vars
    PROVE  ClaimWindow'
<1>1. late = {} /\ late' = {}
    BY NothingLate DEF ClaimWindow
<1>2. ASSUME NEW w \in Workers, NEW j \in Issues, Held(w, j)', ~ Held(w, j)
      PROVE  /\ pc[w] = "claim" /\ pc'[w] # "claim"
             /\ \A k \in Issues : Held(w, k)' => k = j
    <2>1. PICK i \in Issues : Touched(i)
        BY <1>2, NextTouches DEF Held, Implementing
    <2>2. j = i /\ pc[w] = "claim" /\ pc'[w] # "claim"
        BY <1>1, <1>2, <2>1, OnlyTakerGains
    <2>3. \A k \in Issues : ~ Held(w, k)
        BY <2>2 DEF ClaimWindow, Idle
    <2> QED
        BY <1>1, <2>1, <2>2, <2>3, OnlyTakerGains
<1>3. ASSUME NEW w \in Workers, pc'[w] = "claim"
      PROVE  Idle(w)'
    <2>1. Idle(w)
        BY <1>3, ClaimsAfterRecovery DEF ClaimWindow
    <2> QED
        BY <1>2, <1>3, <2>1 DEF Idle
<1>4. ASSUME NEW w \in Workers, NEW i \in Issues, NEW j \in Issues,
             Held(w, i)', Held(w, j)'
      PROVE  i = j
    BY <1>2, <1>4 DEF ClaimWindow
<1> QED
    BY <1>1, <1>3, <1>4 DEF ClaimWindow

(* With serve as the only claimant and no claim served after its timeout, a *)
(* checkout never holds two issues, for any fleet, any failures and reclaims. *)
THEOREM FleetOneClaim == Spec => []OneClaimPerWorker
<1>1. Init /\ ServeOnly => ClaimWindow
    BY DEF Init, ClaimWindow, Held, Implementing, NewIssue
<1>2. TypeOK /\ (ServeOnly => ClaimWindow) /\ [Next]_vars => (ServeOnly => ClaimWindow)'
    BY StepKeepsWindow DEF ServeOnly
<1>3. (ServeOnly => ClaimWindow) => OneClaimPerWorker
    BY DEF ClaimWindow, OneClaimPerWorker
<1> QED
    BY <1>1, <1>2, <1>3, FleetTypes, PTL DEF Spec

-----------------------------------------------------------------------------
(* What the unforced reclaim carries from its orphan check to its request.  *)

ChecksHolder ==
    op.at = "reclaim" /\ ~ op.force =>
        /\ op.expected # NoKey
        /\ \A w \in Workers : op.expected = KeyOf[w] => w \in op.silent

LEMMA OwnRowMatches ==
    ASSUME NEW w \in Workers
    PROVE  KeyMatchesRow(KeyOf[w], KeyOf[w], FALSE)
<1>1. KeyOf[w] \in ComparedKeys(KeyOf[w], KeyOf[w])
    BY FleetAssumption DEF FleetAssumption, ComparedKeys, RowKeys
<1> QED
    BY <1>1 DEF KeyMatchesRow, KeysMatch

LEMMA OnlyOperatorOperates ==
    ASSUME [Next]_vars
    PROVE  OperatorStep \/ op' = op
<1>1. ASSUME NEW w \in Workers, ServeStep(w)
      PROVE  op' = op
    BY <1>1 DEF ServeStep, PollError, Recover, RecoverNothing, ClaimNext, ClaimIdle,
        ClaimError, ClaimAnswerLost, ClaimTimesOut, SetupFails, RunFails,
        RunChangesNothing, RunPasses, Submit, SubmitError, SubmitAnswerLost,
        ReleaseRead, ReleaseReclaim, ReleaseFails
<1>2. ASSUME NEW w \in Workers, Start(w) \/ Stop(w) \/ LateClaim(w) \/ RegistryStep(w)
      PROVE  op' = op
    BY <1>2 DEF Start, Stop, LateClaim, RegistryStep, Beat, FallSilent
<1>3. CASE PeopleStep \/ UNCHANGED vars
    BY <1>3 DEF PeopleStep, Approve, RequestChanges, SubmitByHand, ClaimByHand, vars
<1> QED
    BY <1>1, <1>2, <1>3 DEF Next

LEMMA StepKeepsCheck ==
    ASSUME TypeOK, ChecksHolder, [Next]_vars
    PROVE  ChecksHolder'
<1>1. CASE op' = op
    BY <1>1 DEF ChecksHolder
<1>2. ASSUME NEW i \in Issues, NEW force \in ForceModes, OpRead(i, force)
      PROVE  ChecksHolder'
    <2>1. op'.force = force /\ op'.at = IF force THEN "reclaim" ELSE "list"
        BY <1>2 DEF OpRead, NoOp
    <2>2. force = TRUE \/ force = FALSE
        BY FleetAssumption DEF FleetAssumption
    <2> QED
        BY <2>1, <2>2 DEF ChecksHolder
<1>3. CASE OpListWorkers \/ OpReclaim \/ OpFails
    <2>1. OpOK
        BY TypeParts
    <2>2. op'.at # "reclaim"
        <3>1. CASE OpListWorkers
            BY <2>1, <3>1 DEF OpOK, OpListWorkers
        <3>2. CASE OpReclaim \/ OpFails
            BY <3>2 DEF OpReclaim, OpFails, NoOp
        <3> QED
            BY <1>3, <3>1, <3>2
    <2> QED
        BY <2>2 DEF ChecksHolder
<1>4. CASE OpDetect
    <2>1. op'.expected = issues[op.issue].worker /\ op'.silent = op.silent
        BY <1>4 DEF TypeOK, OpDetect
    <2>2. Flagged(op.issue, op.silent)
        BY <1>4 DEF OpDetect
    <2> QED
        BY <2>1, <2>2, OwnRowMatches DEF Flagged, ChecksHolder
<1> QED
    BY <1>1, <1>2, <1>3, <1>4, OnlyOperatorOperates DEF OperatorStep

(* However the issue changes hands between the orphan check and the reclaim  *)
(* request, the unforced reclaim only takes it from a worker it saw silent.   *)
THEOREM FleetReclaimsFromSilent == Spec => ReclaimTakesFromSilent
<1>1. Init => ChecksHolder
    BY DEF Init, NoOp, ChecksHolder
<1>2. TypeOK /\ ChecksHolder /\ [Next]_vars => ChecksHolder'
    BY StepKeepsCheck
<1>3. ChecksHolder =>
        (OpReclaim /\ ~ op.force =>
          \A w \in Workers : issues[op.issue].worker = KeyOf[w] => w \in op.silent)
    BY DEF ChecksHolder, OpReclaim, ReclaimAccepts
<1> QED
    BY <1>1, <1>2, <1>3, FleetTypes, PTL DEF Spec, ReclaimTakesFromSilent

-----------------------------------------------------------------------------
(* The fleet implements the ledger *)

LEMMA PhaseOfStage ==
    ASSUME NEW i \in Issues
    PROVE  /\ Implementing(i) => Phase(i) = "held" /\ Holder(i) = issues[i].worker
           /\ ~ Implementing(i) => Holder(i) = NoKey
           /\ issues[i].stage = "review" => Phase(i) = "review"
           /\ issues[i].stage = "done" => Phase(i) = "done"
           /\ issues[i].stage \in ReadyStages => Phase(i) = "waiting"
BY DEF Phase, Holder, Implementing, ReadyStages

LEMMA PhaseOfStageNext ==
    ASSUME NEW i \in Issues
    PROVE  /\ Implementing(i)' => Phase(i)' = "held" /\ Holder(i)' = issues'[i].worker
           /\ ~ Implementing(i)' => Holder(i)' = NoKey
           /\ issues'[i].stage = "review" => Phase(i)' = "review"
           /\ issues'[i].stage = "done" => Phase(i)' = "done"
           /\ issues'[i].stage \in ReadyStages => Phase(i)' = "waiting"
           /\ issues'[i] = issues[i] => Phase(i)' = Phase(i) /\ Holder(i)' = Holder(i)
BY DEF Phase, Holder, Implementing, ReadyStages

(* The ledger changes where the tracker does, and nowhere else. *)
LEMMA LedgerEntry ==
    ASSUME TypeOK, NEW i \in Issues, Touched(i)
    PROVE  /\ [j \in Issues |-> Phase(j)]' =
                  [[j \in Issues |-> Phase(j)] EXCEPT ![i] = Phase(i)']
           /\ [j \in Issues |-> Holder(j)]' =
                  [[j \in Issues |-> Holder(j)] EXCEPT ![i] = Holder(i)']
<1>1. \A j \in Issues \ {i} : Phase(j)' = Phase(j) /\ Holder(j)' = Holder(j)
    BY TouchedIssue, PhaseOfStageNext
<1> QED
    BY <1>1

LEMMA TouchIsLedgerStep ==
    ASSUME TypeOK, ServeOnly, ClaimWindow, NEW i \in Issues, Touched(i)
    PROVE  Ledger!Next
<1>1. issues \in [Issues -> FleetIssues] /\ issues[i] \in FleetIssues
    BY DEF TypeOK
<1>2. CASE PutBack(i)
    <2>1. issues'[i].stage = "todo" /\ Implementing(i)
        BY <1>1, <1>2, PutDownFields DEF PutBack
    <2>2. /\ Phase(i) = "held"
          /\ Phase(i)' = "waiting" /\ Holder(i)' = NoKey
        BY <2>1, PhaseOfStage, PhaseOfStageNext DEF Implementing, ReadyStages
    <2>3. Ledger!PutDown(i)
        BY <2>2, LedgerEntry DEF Ledger!PutDown
    <2> QED
        BY <2>3 DEF Ledger!Next
<1>3. CASE SubmitTo(i)
    <2>1. issues'[i].stage = "review"
        BY <1>1, <1>3, PutDownFields DEF SubmitTo
    <2>2. Phase(i)' = "review" /\ Holder(i)' = NoKey
        BY <2>1, PhaseOfStageNext DEF Implementing
    <2>3. Ledger!Deliver(i)
        BY <2>2, LedgerEntry DEF Ledger!Deliver
    <2> QED
        BY <2>3 DEF Ledger!Next
<1>4. CASE Reviewed(i)
    <2>1. /\ issues[i].stage = "review"
          /\ issues'[i].stage \in {"done", "changes_requested"}
        BY <1>1, <1>4, PutDownFields DEF Reviewed
    <2>2. /\ Phase(i) = "review" /\ Phase(i)' \in {"done", "waiting"}
          /\ Holder(i) = NoKey /\ Holder(i)' = NoKey
        BY <2>1, PhaseOfStage, PhaseOfStageNext DEF Implementing, ReadyStages
    <2>3. Ledger!Accept(i) \/ Ledger!SendBack(i)
        BY <2>2, LedgerEntry DEF Ledger!Accept, Ledger!SendBack
    <2> QED
        BY <2>3 DEF Ledger!Next
<1>5. CASE \E w \in Workers : Taken(w, i)
    <2>1. PICK w \in Workers : Taken(w, i)
        BY <1>5
    <2>2. /\ issues[i].stage \in ReadyStages
          /\ issues'[i] = Claimed(issues[i], AgentOf[w], KeyOf[w], None)
        BY <1>1, <2>1 DEF Taken, ServesClaim, HeadOfPool, Offered
    <2>3. issues'[i].stage = "implementing" /\ issues'[i].worker = KeyOf[w]
        BY <1>1, <2>2, ClaimedFields
    <2>4. /\ Phase(i) = "waiting"
          /\ Phase(i)' = "held" /\ Holder(i)' = KeyOf[w]
        BY <2>2, <2>3, PhaseOfStage, PhaseOfStageNext DEF Implementing
    <2>5. \A j \in Issues : Holder(j) # KeyOf[w]
        <3>1. Idle(w)
            BY <2>1 DEF ClaimWindow, Taken
        <3> QED
            BY <3>1, Keys, PhaseOfStage DEF Idle, Held
    <2>6. Ledger!Acquire(KeyOf[w], i)
        BY <2>4, <2>5, LedgerEntry DEF Ledger!Acquire
    <2> QED
        BY <2>6 DEF Ledger!Next
<1> QED
    BY <1>2, <1>3, <1>4, <1>5 DEF Touched, ClaimByHand, ServeOnly

LEMMA StepIsLedgerStep ==
    ASSUME TypeOK, ServeOnly, ClaimWindow, [Next]_vars
    PROVE  [Ledger!Next]_(Ledger!vars)
<1>1. CASE UNCHANGED issues
    <2>1. \A j \in Issues : Phase(j)' = Phase(j) /\ Holder(j)' = Holder(j)
        BY <1>1, PhaseOfStageNext
    <2> QED
        BY <2>1 DEF Ledger!vars
<1>2. CASE \E i \in Issues : Touched(i)
    BY <1>2, TouchIsLedgerStep
<1> QED
    BY <1>1, <1>2, NextTouches

(* A fleet in which only serve claims implements the ledger of claims: every *)
(* step acquires, puts down, delivers, sends back or accepts one issue by    *)
(* the ledger's rules, or is none of its business.                           *)
THEOREM FleetImplementsLedger == ServeOnly => (Spec => ImplementsLedger)
<1> SUFFICES ASSUME ServeOnly
             PROVE  Spec => ImplementsLedger
    OBVIOUS
<1>1. Init => Ledger!Init
    BY PhaseOfStage DEF Init, NewIssue, Implementing, ReadyStages, Ledger!Init
<1>2. Init => ClaimWindow
    BY DEF Init, ClaimWindow, Held, Implementing, NewIssue
<1>3. TypeOK /\ ClaimWindow /\ [Next]_vars => ClaimWindow'
    BY StepKeepsWindow
<1>4. TypeOK /\ ClaimWindow /\ [Next]_vars => [Ledger!Next]_(Ledger!vars)
    BY StepIsLedgerStep
<1> QED
    BY <1>1, <1>2, <1>3, <1>4, FleetTypes, PTL DEF Spec, ImplementsLedger, Ledger!Spec
=============================================================================
