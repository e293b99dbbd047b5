-------------------------- MODULE ClientsProofs ---------------------------
(*************************************************************************)
(* Proofs about the clients of the tracker: the life of the issues they  *)
(* work on, the tokens they call it with, and the settings that the      *)
(* tools of the MCP server work with.                                    *)
(*************************************************************************)
EXTENDS IssueLifecycle, ApiLogin, McpRuntime, TLAPS

---------------------------------------------------------------------------
(*************************************************************************)
(* The life of issues, for any issues, agents, checkouts and any number  *)
(* of commands between their two calls.                                  *)
(*************************************************************************)

BuilderType == [agent : Optional(Agents), from : From]

CallType ==
    [kind : {"none", "reclaim", "readdress", "approve"}, issue : Issues \cup {None},
     saw : From, as : Optional(Agents), from : {Bare(k) : k \in From}]

(* What an issue shows of the last claim on it: while it is implemented, who  *)
(* implements it, and from where if it is directed; afterwards still the     *)
(* implementer, and the checkout if that was registered, until a reclaim     *)
(* takes both off the issue.                                                *)
OnRecord(issue, last) ==
    /\ issue.stage = "implementing" =>
          /\ issue.status = "in_progress"
          /\ issue.assignee = last.agent /\ issue.implementer = last.agent
          /\ issue.target # NoKey =>
                MatchesTarget(issue, issue.worker) /\ last.from = issue.worker
    /\ issue.implementer # None =>
          /\ issue.implementer = last.agent
          /\ last.from # NoKey => issue.worker = last.from

(* A pending call is typed, and a pending approval names a reviewer. *)
CallOK(pending) ==
    /\ pending \in CallType
    /\ pending.kind # "none" => pending.issue \in Issues
    /\ pending.kind = "approve" => pending.as # None

LifecycleIInv ==
    /\ issues \in [Issues -> IssueType]
    /\ builder \in [Issues -> BuilderType]
    /\ call = [c \in Clients |-> call[c]]
    /\ \A c \in Clients : CallOK(call[c])
    /\ \A i \in Issues : OnRecord(issues[i], builder[i])

-----------------------------------------------------------------------------
(* The operations of the tracker *)

LEMMA NothingOK == CallOK(Nothing) /\ Nobody \in BuilderType
<1>1. NoKey \in From /\ Bare(NoKey) = NoKey
    BY DEF From, Bare, NoKey
<1>2. Nothing \in CallType
    BY <1>1 DEF CallType, Nothing, Optional
<1> QED
    BY <1>1, <1>2 DEF CallOK, Nothing, Nobody, BuilderType, Optional

(* A directed issue is only claimed from a checkout with parts to compare. *)
LEMMA DirectedNeedsKey ==
    ASSUME NEW issue, MatchesTarget(issue, NoKey)
    PROVE  issue.target = NoKey
BY DEF MatchesTarget, KeysMatch, HasParts, NoKey

LEMMA ClaimedSound ==
    ASSUME NEW issue \in IssueType, NEW a \in Agents, NEW k \in From,
           NEW s \in Optional(Sessions), NEW allow, ClaimAccepts(issue, a, k, s, allow)
    PROVE  /\ Claimed(issue, a, k, s) \in IssueType
           /\ OnRecord(Claimed(issue, a, k, s), [agent |-> a, from |-> k])
<1> DEFINE claimed == Claimed(issue, a, k, s)
<1>1. claimed \in IssueType
    <2>1. issue.worker \in From /\ issue.implementerSession \in Optional(Sessions)
        BY DEF IssueType
    <2>2. /\ (IF k = NoKey THEN issue.worker ELSE k) \in From
          /\ (IF s = None THEN issue.implementerSession ELSE s) \in Optional(Sessions)
          /\ a \in Optional(Agents)
        BY <2>1 DEF Optional
    <2>3. "in_progress" \in Statuses /\ "implementing" \in Stages
        BY DEF Statuses, Stages
    <2> QED
        BY <2>2, <2>3 DEF IssueType, Claimed
<1>2. /\ claimed.status = "in_progress" /\ claimed.assignee = a
      /\ claimed.implementer = a /\ claimed.target = issue.target
      /\ k # NoKey => claimed.worker = k
    BY DEF IssueType, Claimed
<1>3. ASSUME claimed.target # NoKey
      PROVE  MatchesTarget(claimed, claimed.worker) /\ k = claimed.worker
    <2>1. MatchesTarget(issue, k)
        BY DEF ClaimAccepts
    <2>2. k # NoKey
        BY <1>2, <1>3, <2>1, DirectedNeedsKey
    <2> QED
        BY <1>2, <2>1, <2>2 DEF MatchesTarget
<1> HIDE DEF claimed
<1>4. OnRecord(claimed, [agent |-> a, from |-> k])
    BY <1>2, <1>3 DEF OnRecord
<1> QED
    BY <1>1, <1>4 DEF claimed

LEMMA ReclaimedSound ==
    ASSUME NEW issue \in IssueType, NEW last
    PROVE  Reclaimed(issue) \in IssueType /\ OnRecord(Reclaimed(issue), last)
<1>1. NoKey \in From
    BY DEF From
<1>2. Reclaimed(issue) \in IssueType
    BY <1>1 DEF IssueType, Reclaimed, Optional, Statuses, Stages, ReadyStages
<1> QED
    BY <1>2 DEF IssueType, Reclaimed, OnRecord

(* The operations that make no claim leave its traces alone. *)
LEMMA OthersSound ==
    ASSUME NEW issue \in IssueType, NEW last \in BuilderType, OnRecord(issue, last),
           NEW a \in Optional(Agents), NEW s \in Optional(Sessions), NEW t \in From,
           NEW stage \in {"planned", "todo"}
    PROVE  /\ Planned(issue, stage) \in IssueType /\ OnRecord(Planned(issue, stage), last)
           /\ Submitted(issue, a, s) \in IssueType /\ OnRecord(Submitted(issue, a, s), last)
           /\ ChangesRequested(issue, a) \in IssueType
           /\ OnRecord(ChangesRequested(issue, a), last)
           /\ Completed(issue) \in IssueType /\ OnRecord(Completed(issue), last)
           /\ Readdressed(issue) \in IssueType /\ OnRecord(Readdressed(issue), last)
<1>1. Planned(issue, stage) \in IssueType /\ OnRecord(Planned(issue, stage), last)
    BY DEF IssueType, OnRecord, Planned, Stages, ReadyStages
<1>2. Submitted(issue, a, s) \in IssueType /\ OnRecord(Submitted(issue, a, s), last)
    <2>1. Submitted(issue, a, s) \in IssueType
        BY DEF IssueType, Submitted, Stages, Optional
    <2>2. /\ Submitted(issue, a, s).stage = "review"
          /\ Submitted(issue, a, s).implementer = issue.implementer
          /\ Submitted(issue, a, s).worker = issue.worker
        BY DEF IssueType, Submitted
    <2> QED
        BY <2>1, <2>2 DEF OnRecord
<1>3. ChangesRequested(issue, a) \in IssueType /\ OnRecord(ChangesRequested(issue, a), last)
    <2>1. FallbackAgent \in Optional(Agents) /\ issue.implementer \in Optional(Agents)
        BY LifecycleAssumption DEF LifecycleAssumption, Optional, IssueType
    <2>2. ChangesRequested(issue, a) \in IssueType
        BY <2>1 DEF IssueType, ChangesRequested, Stages, ReadyStages
    <2>3. /\ ChangesRequested(issue, a).stage = "changes_requested"
          /\ ChangesRequested(issue, a).implementer = issue.implementer
          /\ ChangesRequested(issue, a).worker = issue.worker
        BY DEF IssueType, ChangesRequested
    <2> QED
        BY <2>2, <2>3 DEF OnRecord
<1>4. Completed(issue) \in IssueType /\ OnRecord(Completed(issue), last)
    BY DEF IssueType, OnRecord, Completed, Stages, Statuses, Optional
<1>5. Readdressed(issue) \in IssueType /\ OnRecord(Readdressed(issue), last)
    <2>1. NoKey \in From
        BY DEF From
    <2> QED
        BY <2>1 DEF IssueType, OnRecord, Readdressed
<1> QED
    BY <1>1, <1>2, <1>3, <1>4, <1>5

LEMMA DispatchedSound ==
    ASSUME NEW issue \in IssueType, NEW last \in BuilderType, OnRecord(issue, last),
           NEW t \in Checkouts, NEW a \in Optional(Agents),
           NEW stage \in Optional({"planned", "todo"}), DispatchAccepts(issue)
    PROVE  /\ Dispatched(issue, t, a, stage) \in IssueType
           /\ OnRecord(Dispatched(issue, t, a, stage), last)
<1> DEFINE sent == Dispatched(issue, t, a, stage)
<1>1. sent \in IssueType
    <2>1. t \in From /\ issue.stage \in Stages /\ issue.assignee \in Optional(Agents)
        BY DEF From, IssueType
    <2>2. (IF stage = None THEN issue.stage ELSE stage) \in Stages
        BY <2>1 DEF Optional, Stages, ReadyStages
    <2>3. (IF a = None THEN issue.assignee ELSE a) \in Optional(Agents)
        BY <2>1
    <2> QED
        BY <2>1, <2>2, <2>3 DEF IssueType, Dispatched
<1>2. sent.implementer = issue.implementer /\ sent.worker = issue.worker
    BY DEF IssueType, Dispatched
<1>3. sent.stage = IF stage = None THEN issue.stage ELSE stage
    BY DEF IssueType, Dispatched
<1>4. sent.stage # "implementing"
    BY <1>3 DEF DispatchAccepts, Optional
<1> HIDE DEF sent
<1>5. OnRecord(sent, last)
    BY <1>2, <1>4 DEF OnRecord
<1> QED
    BY <1>1, <1>5 DEF sent

-----------------------------------------------------------------------------
(* The steps *)

LEMMA StoredSound ==
    ASSUME LifecycleIInv, NEW i \in Issues, NEW issue \in IssueType, NEW last \in BuilderType,
           Stored(i, issue), OnRecord(issue, last),
           \/ builder' = [builder EXCEPT ![i] = last]
           \/ UNCHANGED builder /\ last = builder[i],
           call' = [c \in Clients |-> call'[c]], \A c \in Clients : CallOK(call[c])'
    PROVE  LifecycleIInv'
<1>1. issues' \in [Issues -> IssueType] /\ issues'[i] = issue
      /\ \A j \in Issues \ {i} : issues'[j] = issues[j]
    BY DEF LifecycleIInv, Stored
<1>2. builder' \in [Issues -> BuilderType] /\ builder'[i] = last
      /\ \A j \in Issues \ {i} : builder'[j] = builder[j]
    BY DEF LifecycleIInv
<1>3. \A j \in Issues : OnRecord(issues'[j], builder'[j])
    BY <1>1, <1>2 DEF LifecycleIInv
<1> QED
    BY <1>1, <1>2, <1>3 DEF LifecycleIInv

LEMMA WriteSound ==
    ASSUME LifecycleIInv, NEW i \in Issues, WriteStep(i)
    PROVE  LifecycleIInv'
<1> DEFINE issue == issues[i]
           last == builder[i]
<1>1. /\ issue \in IssueType /\ last \in BuilderType /\ OnRecord(issue, last)
      /\ call = [c \in Clients |-> call[c]] /\ \A c \in Clients : CallOK(call[c])
    BY DEF LifecycleIInv
<1>2. None \in Optional(Agents) /\ None \in Optional(Sessions) /\ NoKey \in From
    BY DEF Optional, From
<1>3. ASSUME NEW new \in IssueType, OnRecord(new, last), Stored(i, new),
             UNCHANGED <<call, builder>>
      PROVE  LifecycleIInv'
    BY <1>1, <1>3, StoredSound
<1>4. ASSUME NEW stage \in {"planned", "todo"}, Plan(i, stage)
      PROVE  LifecycleIInv'
    BY <1>1, <1>2, <1>3, <1>4, OthersSound DEF Plan
<1>5. ASSUME NEW t \in Checkouts, NEW a \in Optional(Agents),
             NEW stage \in Optional({"planned", "todo"}), Dispatch(i, t, a, stage)
      PROVE  LifecycleIInv'
    BY <1>1, <1>3, <1>5, DispatchedSound DEF Dispatch
<1>6. ASSUME NEW a \in Agents, NEW k \in From, NEW s \in Optional(Sessions),
             NEW allow, Claim(i, a, k, s, allow)
      PROVE  LifecycleIInv'
    <2>1. /\ Claimed(issue, a, k, s) \in IssueType
          /\ OnRecord(Claimed(issue, a, k, s), [agent |-> a, from |-> k])
        BY <1>1, <1>6, ClaimedSound DEF Claim
    <2>2. [agent |-> a, from |-> k] \in BuilderType
        BY DEF BuilderType, Optional
    <2> QED
        BY <1>1, <1>6, <2>1, <2>2, StoredSound DEF Claim, Built
<1>7. ASSUME NEW r \in Optional(Agents), NEW s \in Optional(Sessions), Submit(i, r, s)
      PROVE  LifecycleIInv'
    <2>1. "todo" \in {"planned", "todo"}
        OBVIOUS
    <2> QED
        BY <1>1, <1>2, <1>3, <1>7, <2>1, OthersSound DEF Submit
<1>8. ASSUME NEW a \in Optional(Agents), RequestChanges(i, a)
      PROVE  LifecycleIInv'
    <2>1. "todo" \in {"planned", "todo"}
        OBVIOUS
    <2> QED
        BY <1>1, <1>2, <1>3, <1>8, <2>1, OthersSound DEF RequestChanges
<1>9. CASE Complete(i)
    <2>1. "todo" \in {"planned", "todo"}
        OBVIOUS
    <2> QED
        BY <1>1, <1>2, <1>3, <1>9, <2>1, OthersSound DEF Complete
<1> QED
    BY <1>4, <1>5, <1>6, <1>7, <1>8, <1>9 DEF WriteStep, ClaimNext

LEMMA ReadSound ==
    ASSUME LifecycleIInv, NEW c \in Clients, NEW i \in Issues, ReadStep(c, i)
    PROVE  LifecycleIInv'
<1>1. issues[i] \in IssueType /\ NoKey \in From /\ None \in Optional(Agents)
    BY DEF LifecycleIInv, From, Optional
<1>2. ASSUME NEW kind \in {"reclaim", "readdress", "approve"}, NEW saw \in From,
             NEW as \in Optional(Agents), NEW k \in From, kind = "approve" => as # None,
             Remember(c, kind, i, saw, as, Bare(k))
      PROVE  LifecycleIInv'
    <2> DEFINE pending == [kind |-> kind, issue |-> i, saw |-> saw, as |-> as, from |-> Bare(k)]
    <2>1. CallOK(pending)
        BY <1>2 DEF CallOK, CallType
    <2>2. call' = [call EXCEPT ![c] = pending] /\ UNCHANGED <<issues, builder>>
        BY <1>2 DEF Remember
    <2> HIDE DEF pending
    <2>3. \A d \in Clients : CallOK(call'[d])
        BY <2>1, <2>2 DEF LifecycleIInv
    <2> QED
        BY <2>2, <2>3 DEF LifecycleIInv
<1>3. NoKey = Bare(NoKey)
    BY DEF Bare, NoKey
<1>4. CASE ReclaimRead(c, i)
    <2>1. issues[i].worker \in From
        BY <1>1 DEF IssueType
    <2> QED
        BY <1>1, <1>2, <1>3, <1>4, <2>1 DEF ReclaimRead
<1>5. CASE ReaddressRead(c, i)
    <2>1. issues[i].target \in From
        BY <1>1 DEF IssueType
    <2> QED
        BY <1>1, <1>2, <1>3, <1>5, <2>1 DEF ReaddressRead
<1>6. ASSUME NEW named \in Optional(Agents), NEW k \in From, ApproveRead(c, i, named, k)
      PROVE  LifecycleIInv'
    <2> DEFINE assigned == issues[i].assignee
               resolved == IF named # None THEN named
                           ELSE IF assigned # None THEN assigned
                           ELSE IF issues[i].implementer # None
                           THEN ReviewerFor[issues[i].implementer]
                           ELSE FallbackAgent
    <2>1. assigned \in Optional(Agents) /\ issues[i].implementer \in Optional(Agents)
        BY <1>1 DEF IssueType
    <2>2. resolved \in Optional(Agents) /\ resolved # None
        BY <2>1, LifecycleAssumption DEF LifecycleAssumption, Optional
    <2>3. Remember(c, "approve", i, NoKey, resolved, Bare(k))
        BY <1>6 DEF ApproveRead
    <2> HIDE DEF resolved
    <2> QED
        BY <1>1, <1>2, <2>2, <2>3
<1> QED
    BY <1>4, <1>5, <1>6 DEF ReadStep

LEMMA CallSound ==
    ASSUME LifecycleIInv, NEW c \in Clients, CallStep(c)
    PROVE  LifecycleIInv'
<1> DEFINE i == call[c].issue
<1>1. /\ call' = [call EXCEPT ![c] = Nothing]
      /\ call' = [d \in Clients |-> call'[d]] /\ \A d \in Clients : CallOK(call'[d])
    BY NothingOK DEF CallStep, Reclaim, Readdress, Approve, CallFails, Answered, LifecycleIInv
<1>2. CASE CallFails(c)
    BY <1>1, <1>2 DEF CallFails, LifecycleIInv
<1>3. CASE Reclaim(c) \/ Readdress(c) \/ Approve(c)
    <2>1. i \in Issues
        BY <1>3 DEF Reclaim, Readdress, Approve, Answered, LifecycleIInv, CallOK
    <2>2. issues[i] \in IssueType /\ builder[i] \in BuilderType
          /\ OnRecord(issues[i], builder[i])
        BY <2>1 DEF LifecycleIInv
    <2>3. CASE Reclaim(c)
        <3>1. Stored(i, Reclaimed(issues[i])) /\ UNCHANGED builder
            BY <2>3 DEF Reclaim
        <3> QED
            BY <1>1, <2>1, <2>2, <3>1, ReclaimedSound, StoredSound
    <2>4. CASE Readdress(c) \/ Approve(c)
        <3>1. None \in Optional(Agents) /\ None \in Optional(Sessions) /\ NoKey \in From
              /\ "todo" \in {"planned", "todo"}
            BY DEF Optional, From
        <3>2. /\ Readdressed(issues[i]) \in IssueType /\ OnRecord(Readdressed(issues[i]), builder[i])
              /\ Completed(issues[i]) \in IssueType /\ OnRecord(Completed(issues[i]), builder[i])
            BY <2>2, <3>1, OthersSound
        <3> QED
            BY <1>1, <2>1, <2>2, <2>4, <3>2, StoredSound DEF Readdress, Approve
    <2> QED
        BY <1>3, <2>3, <2>4
<1> QED
    BY <1>2, <1>3 DEF CallStep

LEMMA LifecycleInvariant == Spec => []LifecycleIInv
<1>1. Init => LifecycleIInv
    <2> SUFFICES ASSUME Init PROVE LifecycleIInv
        OBVIOUS
    <2>1. \A a \in Agents, s \in Optional(Sessions), t \in From :
             NewIssue(a, s, t) \in IssueType /\ OnRecord(NewIssue(a, s, t), Nobody)
        BY DEF NewIssue, IssueType, OnRecord, Nobody, Optional, From, Statuses, Stages, ReadyStages
    <2>2. issues \in [Issues -> IssueType] /\ \A i \in Issues : OnRecord(issues[i], Nobody)
        BY <2>1 DEF Init
    <2> QED
        BY <2>2, NothingOK DEF Init, LifecycleIInv
<1>2. LifecycleIInv /\ [Next]_vars => LifecycleIInv'
    <2>1. ASSUME LifecycleIInv, UNCHANGED vars
          PROVE  LifecycleIInv'
        BY <2>1 DEF vars, LifecycleIInv
    <2> QED
        BY <2>1, WriteSound, ReadSound, CallSound DEF Next
<1> QED
    BY <1>1, <1>2, PTL DEF Spec

(* For any agents, checkouts and number of overlapping commands, an issue    *)
(* record keeps its shape, and so does every pending call.                  *)
THEOREM LifecycleTyped == Spec => []TypeOK
<1>1. LifecycleIInv => TypeOK
    <2> SUFFICES ASSUME LifecycleIInv PROVE TypeOK
        OBVIOUS
    <2>1. call \in [Clients -> CallType]
        BY DEF LifecycleIInv, CallOK
    <2> QED
        BY <2>1 DEF LifecycleIInv, CallOK, TypeOK, BuilderType, CallType
<1> QED
    BY <1>1, LifecycleInvariant, PTL

(* Who implements an issue, and from which checkout directed work is done, is *)
(* on record after any order of commands.                                   *)
THEOREM DirectedClaims == Spec => []DirectedClaimRespected
<1>1. LifecycleIInv => DirectedClaimRespected
    BY DEF LifecycleIInv, OnRecord, DirectedClaimRespected
<1> QED
    BY <1>1, LifecycleInvariant, PTL

(* Both keys of a checkout, with and without its machine, match. *)
LEMMA OwnBareKeyMatches ==
    ASSUME NEW k \in Checkouts
    PROVE  KeysMatch(k, Bare(k), FALSE)
<1>1. k = [name |-> k.name, repo |-> k.repo, machine |-> k.machine]
      /\ k.name # None /\ k.repo # None
    BY LifecycleAssumption DEF LifecycleAssumption
<1> QED
    BY <1>1 DEF KeysMatch, HasParts, Agree, Bare

(* As long as an issue names its implementer, what a reviewer's name and      *)
(* checkout look like to the tracker is enough: an approval from the         *)
(* checkout of the last claim, by the same name, is refused, registered or   *)
(* not.  A reclaim takes the name away, and the theorem says nothing of work *)
(* that is submitted after one.                                             *)
THEOREM BuildersDoNotApprove == Spec => BuilderNeverApproves
<1>1. LifecycleIInv /\ [Next]_vars =>
         [\A c \in Clients : Approve(c) =>
            LET issue == issues[call[c].issue]
                last == builder[call[c].issue]
            IN  issue.implementer # None =>
                   ~ (call[c].as = last.agent /\ call[c].from = Bare(last.from))]_vars
    <2> SUFFICES ASSUME LifecycleIInv, NEW c \in Clients, Approve(c),
                        issues[call[c].issue].implementer # None,
                        call[c].as = builder[call[c].issue].agent,
                        call[c].from = Bare(builder[call[c].issue].from)
                 PROVE  FALSE
        OBVIOUS
    <2> DEFINE issue == issues[call[c].issue]
               last == builder[call[c].issue]
    <2>1. /\ call[c].issue \in Issues /\ call[c].as # None
          /\ ApproveAccepts(issue, call[c].as, call[c].from)
        BY DEF Approve, Answered, LifecycleIInv, CallOK
    <2>2. last \in BuilderType /\ OnRecord(issue, last)
        BY <2>1 DEF LifecycleIInv
    <2>3. issue.implementer = call[c].as /\ (last.from # NoKey => issue.worker = last.from)
        BY <2>1, <2>2 DEF OnRecord
    <2>4. issue.worker # NoKey /\ call[c].from # NoKey
          /\ ~ KeysMatch(issue.worker, call[c].from, FALSE)
        BY <2>1, <2>3 DEF ApproveAccepts, SelfReview
    <2>5. last.from # NoKey
        BY <2>4 DEF Bare, NoKey
    <2>6. last.from \in Checkouts
        BY <2>2, <2>5 DEF BuilderType, From
    <2> QED
        BY <2>3, <2>4, <2>5, <2>6, OwnBareKeyMatches
<1> QED
    BY <1>1, LifecycleInvariant, PTL DEF Spec, BuilderNeverApproves

---------------------------------------------------------------------------
(*************************************************************************)
(* Logins and the token cache, for any threads, clients and URLs and any *)
(* number of tokens.                                                     *)
(*************************************************************************)

CallerType ==
    [at : {"away", "login", "send", "relogin", "resend", "command", "post", "read", "write"},
     then : {"send", "resend", "away"}, sent : Tokens, copy : [Urls -> Tokens]]

LoginTyped ==
    /\ issued \in Nat /\ Handed <= issued /\ lapsed \subseteq 1 .. issued /\ dead \subseteq 1 .. issued
    /\ cache \in [Urls -> Tokens] /\ stored \in [Urls -> Tokens] /\ crossed \in BOOLEAN
    /\ token \in [ApiClients -> Tokens]
    /\ caller \in [Callers -> CallerType]
    /\ loginLock \in [ApiClients -> Callers \cup {None}]

(* A thread between the two ends of a login holds its client's lock; only a  *)
(* logout rewrites the cache without it, and shares its client with nobody.  *)
Holding ==
    /\ \A c \in ApiClients : loginLock[c] # None => ApiClient[loginLock[c]] = c
    /\ \A t \in Callers :
          /\ Calls(t, {"post", "read"}) => loginLock[ApiClient[t]] = t
          /\ Calls(t, {"write"}) => loginLock[ApiClient[t]] = t \/ AloneWithClient(t)

(* Why a thread asks for another token. *)
Refusals ==
    \A t \in Callers :
        /\ Calls(t, {"relogin"}) => caller[t].sent \in dead
        /\ Calls(t, {"post"}) /\ caller[t].then # "away" =>
              TokenOf(t) \in {None} \cup lapsed \cup dead

(* While no two rewrites overlap, the one under way began from the cache. *)
Writing ==
    ~ crossed =>
        /\ cache = stored
        /\ \A t \in Callers : Rewrites(t) => caller[t].copy = cache
        /\ \A t, u \in Callers : Rewrites(t) /\ Rewrites(u) => t = u

LoginIInv == LoginTyped /\ Holding /\ Refusals /\ Writing

LEMMA LoginInitial ==
    ASSUME LoginInit PROVE LoginIInv
<1> USE LoginAssumption DEF LoginAssumption, LoginInit
<1>1. NoTokens \in [Urls -> Tokens] /\ Away \in CallerType
    BY DEF NoTokens, Tokens, Away, CallerType
<1>2. LoginTyped
    <2>1. Given \in [ApiClients -> Tokens]
        BY DEF Tokens
    <2> QED
        <3>1. issued \in Nat /\ Handed <= issued /\ None \in {None} \cup Callers
            OBVIOUS
        <3>2. caller \in [Callers -> CallerType] /\ loginLock \in [ApiClients -> Callers \cup {None}]
            BY <1>1
        <3> QED
            BY <1>1, <2>1, <3>1, <3>2 DEF LoginTyped
<1>3. \A t \in Callers : caller[t].at = "away"
    BY DEF Away
<1>4. Holding /\ Refusals /\ Writing
    BY <1>3 DEF Holding, Refusals, Writing, Calls, Rewrites
<1> QED
    BY <1>2, <1>4 DEF LoginIInv

(* The steps of one thread and those of its client's process change nothing  *)
(* of the type of what there is.                                            *)
LEMMA MoreTokens ==
    ASSUME issued \in Nat, issued' \in {issued, issued + 1}
    PROVE  /\ Tokens \subseteq Tokens' /\ CallerType \subseteq CallerType'
           /\ [Urls -> Tokens] \subseteq [Urls -> Tokens']
           /\ [Callers -> CallerType] \subseteq [Callers -> CallerType']
           /\ issued' = issued => Tokens' = Tokens /\ CallerType' = CallerType
<1>1. Tokens \subseteq Tokens' /\ (issued' = issued => Tokens' = Tokens)
    BY DEF Tokens
<1>2. [Urls -> Tokens] \subseteq [Urls -> Tokens']
    BY <1>1
<1>3. CallerType \subseteq CallerType' /\ (issued' = issued => CallerType' = CallerType)
    BY <1>1, <1>2 DEF CallerType
<1> QED
    BY <1>1, <1>2, <1>3

LEMMA LoginTypesStep ==
    ASSUME LoginIInv, [LoginNext]_loginVars PROVE LoginTyped'
<1>1. LoginTyped /\ issued \in Nat
    BY DEF LoginIInv, LoginTyped
<1>2. NoTokens \in [Urls -> Tokens] /\ Away \in CallerType
    BY <1>1 DEF NoTokens, Tokens, Away, CallerType
<1>3. ASSUME NEW t \in Callers, LoginStep(t) PROVE LoginTyped'
    <2>1. /\ caller[t] \in CallerType /\ TokenOf(t) \in Tokens /\ None \in Tokens
          /\ ApiClient[t] \in ApiClients /\ ApiUrl[ApiClient[t]] \in Urls
        BY <1>1 DEF TokenOf, LoginTyped, ApiClients, Urls, Tokens
    <2>2. CASE issued' = issued
        <3>1. Tokens' = Tokens /\ CallerType' = CallerType
            BY <1>1, <2>2, MoreTokens
        <3> USE <1>1, <1>2, <2>1, <3>1 DEF LoginTyped, CacheAlone, ServerAlone
        <3>2. CASE Requests(t)
            BY <3>2 DEF Requests, Away, CallerType
        <3>3. CASE EntersLogin(t)
            <4>1. Then(t) \in {"send", "resend", "away"}
                BY <3>3 DEF EntersLogin, Then, Calls
            <4>2. /\ [caller[t] EXCEPT !.at = Then(t), !.sent = TokenOf(t)] \in CallerType
                  /\ [caller[t] EXCEPT !.at = "post", !.then = Then(t)] \in CallerType
                BY <4>1 DEF CallerType
            <4>3. caller' \in [Callers -> CallerType]
                BY <3>3, <4>2 DEF EntersLogin, Leaves, TokenOf
            <4> QED
                BY <3>3, <4>3 DEF EntersLogin
        <3>4. CASE LoginFails(t)
            BY <3>4 DEF LoginFails, Leaves, Unlocked
        <3>5. CASE ReadsCache(t)
            BY <3>5 DEF ReadsCache, CallerType
        <3>6. CASE WritesCache(t)
            <4>1. Rewritten(t) \in [Urls -> Tokens]
                BY DEF Rewritten, CallerType
            <4>2. caller' \in [Callers -> CallerType]
                <5> DEFINE again == [Away EXCEPT !.at = caller[t].then, !.sent = TokenOf(t)]
                <5>1. again \in CallerType
                    BY DEF Away, CallerType
                <5>2. caller' = [caller EXCEPT ![t] = IF caller[t].then = "away" THEN Away ELSE again]
                    BY <3>6 DEF WritesCache, Continues
                <5> HIDE DEF again
                <5> QED
                    BY <5>1, <5>2
            <4>3. /\ cache' \in [Urls -> Tokens] /\ stored' \in [Urls -> Tokens]
                  /\ loginLock' \in [ApiClients -> Callers \cup {None}]
                BY <3>6, <4>1 DEF WritesCache, Unlocked
            <4> QED
                BY <3>6, <4>2, <4>3 DEF WritesCache
        <3>7. CASE Sends(t)
            <4>1. [caller[t] EXCEPT !.at = "relogin"] \in CallerType
                BY DEF CallerType
            <4> QED
                BY <3>7, <4>1 DEF Sends, Leaves, Moves
        <3>8. CASE Resends(t)
            BY <3>8 DEF Resends, Leaves
        <3>9. CASE LoginCommand(t)
            BY <3>9 DEF LoginCommand, Away, CallerType
        <3>10. CASE LogoutCommand(t)
            <4>1. dead' \subseteq 1 .. issued
                BY <3>10 DEF LogoutCommand, Usable, Tokens
            <4>2. caller' \in [Callers -> CallerType]
                <5>1. [caller[t] EXCEPT !.at = "write", !.then = "away", !.copy = cache] \in CallerType
                    BY DEF CallerType
                <5> QED
                    BY <3>10, <5>1 DEF LogoutCommand
            <4>3. token' \in [ApiClients -> Tokens] /\ crossed' \in BOOLEAN
                BY <3>10 DEF LogoutCommand
            <4> QED
                BY <3>10, <4>1, <4>2, <4>3 DEF LogoutCommand
        <3>11. CASE LoginAnswered(t)
            BY <3>11, <2>2 DEF LoginAnswered
        <3> QED
            BY <1>3, <3>2, <3>3, <3>4, <3>5, <3>6, <3>7, <3>8, <3>9, <3>10, <3>11 DEF LoginStep
    <2>3. CASE LoginAnswered(t)
        <3>1. issued' = issued + 1 /\ issued' \in Tokens' /\ Handed <= issued'
            BY <1>1, <2>3, LoginAssumption DEF LoginAssumption, LoginAnswered, LoginTyped, Tokens
        <3>2. /\ Tokens \subseteq Tokens' /\ CallerType \subseteq CallerType'
              /\ [Urls -> Tokens] \subseteq [Urls -> Tokens']
            BY <1>1, <3>1, MoreTokens
        <3>3. token' \in [ApiClients -> Tokens']
            BY <1>1, <2>1, <2>3, <3>1, <3>2 DEF LoginAnswered, LoginTyped
        <3>4. caller' \in [Callers -> CallerType']
            <4> DEFINE again == [Away EXCEPT !.at = caller[t].then, !.sent = issued']
            <4>1. again \in CallerType'
                BY <1>2, <2>1, <3>1, <3>2 DEF Away, CallerType
            <4>2. [caller[t] EXCEPT !.at = "read"] \in CallerType'
                BY <2>1, <3>2 DEF CallerType
            <4>3. \/ caller' = [caller EXCEPT ![t] = IF caller[t].then = "away" THEN Away ELSE again]
                  \/ caller' = [caller EXCEPT ![t] = [caller[t] EXCEPT !.at = "read"]]
                BY <1>1, <2>1, <2>3 DEF LoginAnswered, Continues, Moves, LoginTyped
            <4> HIDE DEF again
            <4> QED
                BY <1>1, <1>2, <3>2, <4>1, <4>2, <4>3 DEF LoginTyped
        <3> QED
            BY <1>1, <2>1, <2>3, <3>1, <3>2, <3>3, <3>4
               DEF LoginAnswered, LoginTyped, CacheAlone, Unlocked
    <2> QED
        BY <1>3, <2>2, <2>3 DEF LoginStep, Requests, EntersLogin, LoginFails, ReadsCache,
           WritesCache, Sends, Resends, LoginCommand, LogoutCommand, ServerAlone
<1>4. CASE issued' = issued /\ ~ \E t \in Callers : LoginStep(t)
    <2>1. Tokens' = Tokens /\ CallerType' = CallerType
        BY <1>1, <1>4, MoreTokens
    <2> USE <1>1, <1>2, <2>1 DEF LoginTyped
    <2>2. ASSUME NEW c \in ApiClients, OpenClient(c) PROVE LoginTyped'
        <3>1. Given[c] \in {None} \cup 1 .. Handed /\ Handed \in Nat
            BY LoginAssumption DEF LoginAssumption
        <3>2. token' \in [ApiClients -> Tokens]
            BY <2>2, <3>1 DEF OpenClient, Urls, Tokens
        <3> QED
            BY <2>2, <3>2 DEF OpenClient, CacheAlone, ServerAlone
    <2>3. ASSUME NEW k \in 1 .. issued, TokenLapses(k) \/ TokenRevoked(k) PROVE LoginTyped'
        BY <2>3 DEF TokenLapses, TokenRevoked, CacheAlone
    <2>4. CASE UNCHANGED loginVars
        BY <2>4 DEF loginVars
    <2> QED
        BY <1>4, <2>2, <2>3, <2>4 DEF LoginNext
<1> QED
    BY <1>3, <1>4 DEF LoginNext, OpenClient, TokenLapses, TokenRevoked, loginVars, ServerAlone

OthersStay(t) == \A u \in Callers \ {t} : caller'[u] = caller[u]

(* What a thread's step does to the lock: nothing, takes it, releases it. *)
LockMoves(t) ==
    \/ /\ loginLock' = loginLock
       /\ \/ ~ Calls(t, {"post", "read", "write"})'
          \/ Calls(t, {"post", "read"}) /\ Calls(t, {"read", "write"})'
          \/ AloneWithClient(t) /\ Calls(t, {"write"})'
    \/ loginLock' = [loginLock EXCEPT ![ApiClient[t]] = t] /\ loginLock[ApiClient[t]] = None
    \/ /\ loginLock' = Unlocked(t) /\ ~ Calls(t, {"post", "read", "write"})'
       /\ loginLock[ApiClient[t]] = t \/ AloneWithClient(t)

LEMMA CallerFields ==
    ASSUME caller \in [Callers -> CallerType], NEW t \in Callers
    PROVE  /\ DOMAIN caller[t] = {"at", "then", "sent", "copy"}
           /\ caller[t].then \in {"send", "resend", "away"}
           /\ t \in DOMAIN caller
BY DEF CallerType

LEMMA ContinuesSomewhere ==
    ASSUME NEW t \in Callers, NEW k, t \in DOMAIN caller, Continues(t, k)
    PROVE  caller'[t].at \in {"away", caller[t].then}
<1>1. Away.at = "away" /\ [Away EXCEPT !.at = caller[t].then, !.sent = k].at = caller[t].then
    BY DEF Away
<1> QED
    BY <1>1 DEF Continues

LEMMA ThreadsLock ==
    ASSUME LoginTyped, Holding, NEW t \in Callers, LoginStep(t)
    PROVE  OthersStay(t) /\ LockMoves(t)
<1>0. caller \in [Callers -> CallerType] /\ ApiClient[t] \in ApiClients
    BY DEF LoginTyped, ApiClients
<1> USE <1>0
<1>1. OthersStay(t)
    BY DEF LoginStep, Requests, EntersLogin, LoginAnswered, LoginFails, ReadsCache,
       WritesCache, Sends, Resends, LoginCommand, LogoutCommand, Continues, Leaves, Moves,
       OthersStay
<1> SUFFICES LockMoves(t)
    BY <1>1
<1>2. /\ caller[t].then \notin {"post", "read", "write"}
      /\ DOMAIN caller[t] = {"at", "then", "sent", "copy"} /\ t \in DOMAIN caller
    BY CallerFields
<1> USE <1>2 DEF LockMoves, Calls
<1>3. CASE Requests(t) \/ LoginCommand(t)
    BY <1>3 DEF Requests, LoginCommand, Away
<1>4. CASE EntersLogin(t)
    <2>1. Then(t) \notin {"post", "read", "write"}
        BY <1>4 DEF EntersLogin, Then
    <2>2. /\ loginLock[ApiClient[t]] = None
          /\ \/ loginLock' = loginLock /\ caller'[t].at \in {Then(t), "away"}
             \/ loginLock' = [loginLock EXCEPT ![ApiClient[t]] = t]
        BY <1>4 DEF EntersLogin, Leaves, Away
    <2> QED
        BY <2>1, <2>2
<1>5. CASE LoginAnswered(t)
    <2>1. loginLock[ApiClient[t]] = t
        BY <1>5 DEF LoginAnswered, Holding
    <2>2. CASE Given[ApiClient[t]] # None
        <3>1. caller'[t].at \in {"away", caller[t].then} /\ loginLock' = Unlocked(t)
            BY <1>5, <2>2, ContinuesSomewhere DEF LoginAnswered
        <3> QED
            BY <2>1, <3>1
    <2>3. CASE Given[ApiClient[t]] = None
        <3>1. caller' = [caller EXCEPT ![t].at = "read"] /\ loginLock' = loginLock
            BY <1>5, <2>3 DEF LoginAnswered, Moves
        <3> QED
            BY <1>5, <3>1 DEF LoginAnswered
    <2> QED
        BY <2>2, <2>3
<1>6. CASE LoginFails(t)
    BY <1>6 DEF LoginFails, Leaves, Away, Holding
<1>7. CASE ReadsCache(t)
    BY <1>7 DEF ReadsCache
<1>8. CASE WritesCache(t)
    BY <1>8 DEF WritesCache, Rewrites, Continues, Away, Holding
<1>9. CASE Sends(t) \/ Resends(t)
    <2>1. loginLock' = loginLock /\ caller'[t].at \in {"away", "relogin"}
        BY <1>9 DEF Sends, Resends, Leaves, Moves, Away
    <2> QED
        BY <2>1
<1>10. CASE LogoutCommand(t)
    <2>1. loginLock' = loginLock /\ AloneWithClient(t) /\ caller[t].at = "away"
        BY <1>10 DEF LogoutCommand
    <2>2. caller'[t].at \in {"away", "write"}
        BY <1>10, <2>1 DEF LogoutCommand
    <2> QED
        BY <2>1, <2>2
<1> HIDE DEF LockMoves, Calls
<1> QED
    BY <1>3, <1>4, <1>5, <1>6, <1>7, <1>8, <1>9, <1>10 DEF LoginStep

(* The lock is taken only when it is free, so the threads between the ends of *)
(* a login are each alone there among the threads of their client.          *)
LEMMA HoldingStep ==
    ASSUME LoginIInv, [LoginNext]_loginVars PROVE Holding'
<1>1. /\ Holding /\ caller \in [Callers -> CallerType] /\ None \notin Callers
      /\ loginLock \in [ApiClients -> Callers \cup {None}]
      /\ \A t \in Callers : ApiClient[t] \in ApiClients
    BY LoginAssumption DEF LoginIInv, LoginTyped, LoginAssumption, ApiClients
<1> USE <1>1
<1>2. ASSUME NEW t \in Callers, OthersStay(t), LockMoves(t) PROVE Holding'
    <2> USE DEF OthersStay, LockMoves
    <2>1. CASE loginLock' = loginLock
        BY <1>2, <2>1 DEF Holding, Calls, AloneWithClient
    <2>2. CASE loginLock' = [loginLock EXCEPT ![ApiClient[t]] = t] /\ loginLock[ApiClient[t]] = None
        BY <1>2, <2>2 DEF Holding, Calls, AloneWithClient
    <2>3. CASE loginLock' = Unlocked(t) /\ loginLock' # loginLock
        BY <1>2, <2>3 DEF Holding, Calls, AloneWithClient, Unlocked
    <2> QED
        BY <1>2, <2>1, <2>2, <2>3
<1>3. ASSUME NEW t \in Callers, LoginStep(t) PROVE Holding'
    BY <1>2, <1>3, ThreadsLock DEF LoginIInv
<1>4. ASSUME NEW c \in ApiClients, OpenClient(c) PROVE Holding'
    BY <1>4 DEF OpenClient, Holding, Calls, Away, AloneWithClient
<1>5. ASSUME NEW k \in 1 .. issued, TokenLapses(k) \/ TokenRevoked(k) PROVE Holding'
    BY <1>5 DEF TokenLapses, TokenRevoked, Holding, Calls, AloneWithClient
<1>6. CASE UNCHANGED loginVars
    BY <1>6 DEF loginVars, Holding, Calls, AloneWithClient
<1> QED
    BY <1>3, <1>4, <1>5, <1>6 DEF LoginNext

(* A refused token is replaced by one thread only: who comes to post has seen *)
(* the client's token refused or lapsed, and nobody else replaces it then.  *)
LEMMA RefusalsStep ==
    ASSUME LoginIInv, [LoginNext]_loginVars PROVE Refusals'
<1>1. /\ LoginTyped /\ Holding /\ Refusals /\ caller \in [Callers -> CallerType]
      /\ token \in [ApiClients -> Tokens] /\ None \notin Callers
    BY LoginAssumption DEF LoginIInv, LoginTyped, LoginAssumption
<1>2. \A t \in Callers : ApiClient[t] \in ApiClients
    BY DEF ApiClients
<1> USE <1>1, <1>2
<1>3. ASSUME NEW t \in Callers, LoginStep(t) PROVE Refusals'
    <2>0. /\ caller[t].then \in {"send", "resend", "away"} /\ t \in DOMAIN caller
          /\ DOMAIN caller[t] = {"at", "then", "sent", "copy"}
        BY CallerFields
    <2> USE <2>0
    <2>1. OthersStay(t)
        BY <1>3, ThreadsLock
    <2>2. lapsed' = lapsed /\ dead \subseteq dead'
        BY <1>3 DEF LoginStep, Requests, EntersLogin, LoginAnswered, LoginFails, ReadsCache,
           WritesCache, Sends, Resends, LoginCommand, LogoutCommand, ServerAlone
    <2>3. \/ token' = token
          \/ Calls(t, {"post"}) /\ \A c \in ApiClients \ {ApiClient[t]} : token'[c] = token[c]
          \/ AloneWithClient(t) /\ \A c \in ApiClients \ {ApiClient[t]} : token'[c] = token[c]
        BY <1>3 DEF LoginStep, Requests, EntersLogin, LoginAnswered, LoginFails, ReadsCache,
           WritesCache, Sends, Resends, LoginCommand, LogoutCommand
    <2>4. ASSUME NEW u \in Callers \ {t}, Calls(u, {"post"}) PROVE TokenOf(u)' = TokenOf(u)
        <3>1. loginLock[ApiClient[u]] = u
            BY <2>4 DEF Holding, Calls
        <3>2. Calls(t, {"post"}) => loginLock[ApiClient[t]] = t
            BY DEF Holding, Calls
        <3>3. AloneWithClient(t) => ApiClient[u] # ApiClient[t]
            BY DEF AloneWithClient
        <3> QED
            BY <2>3, <3>1, <3>2, <3>3 DEF TokenOf
    <2>5. ASSUME NEW u \in Callers \ {t}
          PROVE  /\ Calls(u, {"relogin"})' => caller'[u].sent \in dead'
                 /\ Calls(u, {"post"})' /\ caller'[u].then # "away" =>
                       TokenOf(u)' \in {None} \cup lapsed' \cup dead'
        <3>1. caller'[u] = caller[u]
            BY <2>1 DEF OthersStay
        <3> QED
            BY <2>2, <2>4, <3>1 DEF Refusals, Calls
    <2>6. /\ Calls(t, {"relogin"})' => caller'[t].sent \in dead'
          /\ Calls(t, {"post"})' /\ caller'[t].then # "away" =>
                TokenOf(t)' \in {None} \cup lapsed' \cup dead'
        <3> USE DEF Calls
        <3>1. caller[t].then \in {"send", "resend", "away"}
            BY DEF CallerType
        <3>2. CASE EntersLogin(t)
            <4>1. Then(t) \in {"send", "resend", "away"}
                BY <3>2 DEF EntersLogin, Then
            <4>2. CASE caller'[t].at = "post"
                <5>0. caller'[t].at \notin {"relogin"}
                    BY <4>2
                <5>1. caller' = [caller EXCEPT ![t].at = "post", ![t].then = Then(t)] /\ token' = token
                    BY <3>2, <4>1, <4>2 DEF EntersLogin, Leaves, Away
                <5>2. Forced(t) \/ ~ Usable(TokenOf(t))
                    BY <3>2, <4>1, <4>2 DEF EntersLogin, Leaves, Away, TokenOf
                <5>3. CASE Calls(t, {"command"})
                    BY <5>0, <5>1, <5>3 DEF Then
                <5>4. CASE Calls(t, {"relogin"}) /\ TokenOf(t) = caller[t].sent
                    BY <2>2, <5>0, <5>1, <5>4 DEF Refusals, TokenOf
                <5>5. CASE ~ Usable(TokenOf(t))
                    BY <2>2, <5>0, <5>1, <5>5 DEF Usable, TokenOf
                <5> QED
                    BY <5>2, <5>3, <5>4, <5>5 DEF Forced
            <4>3. CASE caller'[t].at # "post"
                <5>1. caller'[t].at \in {"send", "resend", "away"}
                    BY <3>2, <4>1, <4>3 DEF EntersLogin, Leaves, Away
                <5> QED
                    BY <5>1
            <4> QED
                BY <4>2, <4>3
        <3>3. CASE Sends(t)
            <4>1. \/ caller'[t].at = "away"
                  \/ caller'[t].at = "relogin" /\ caller'[t].sent = caller[t].sent /\ caller[t].sent \in dead
                BY <3>3 DEF Sends, Leaves, Moves, Away
            <4> QED
                BY <2>2, <4>1
        <3>4. CASE LoginAnswered(t)
            <4>1. caller'[t].at \in {"read", "away", caller[t].then}
                BY <3>4, ContinuesSomewhere DEF LoginAnswered, Moves
            <4> QED
                BY <3>1, <4>1
        <3>5. CASE WritesCache(t)
            <4>1. caller'[t].at \in {"away", caller[t].then}
                BY <3>5, ContinuesSomewhere DEF WritesCache
            <4> QED
                BY <3>1, <4>1
        <3>6. CASE LogoutCommand(t)
            <4>1. caller'[t].at \in {"away", "write"}
                BY <3>6 DEF LogoutCommand
            <4> QED
                BY <4>1
        <3>7. CASE Requests(t) \/ LoginFails(t) \/ ReadsCache(t) \/ Resends(t) \/ LoginCommand(t)
            <4>1. caller'[t].at \in {"login", "away", "write", "command"}
                BY <3>7 DEF Requests, LoginFails, ReadsCache, Resends, LoginCommand, Leaves, Away
            <4> QED
                BY <4>1
        <3> QED
            BY <1>3, <3>2, <3>3, <3>4, <3>5, <3>6, <3>7 DEF LoginStep
    <2> QED
        BY <2>5, <2>6 DEF Refusals
<1>4. ASSUME NEW c \in ApiClients, OpenClient(c) PROVE Refusals'
    BY <1>4 DEF OpenClient, Refusals, Calls, Away, TokenOf, CacheAlone, ServerAlone
<1>5. ASSUME NEW k \in 1 .. issued, TokenLapses(k) \/ TokenRevoked(k) PROVE Refusals'
    BY <1>5 DEF TokenLapses, TokenRevoked, Refusals, Calls, TokenOf
<1>6. CASE UNCHANGED loginVars
    BY <1>6 DEF loginVars, Refusals, Calls, TokenOf
<1> QED
    BY <1>3, <1>4, <1>5, <1>6 DEF LoginNext

(* The cache and the ghost change together, from a copy nobody has overtaken. *)
LEMMA WritingStep ==
    ASSUME LoginIInv, [LoginNext]_loginVars PROVE Writing'
<1>1. Writing /\ LoginTyped /\ Holding /\ caller \in [Callers -> CallerType]
    BY DEF LoginIInv, LoginTyped
<1> USE <1>1
<1>2. ASSUME NEW t \in Callers, LoginStep(t) PROVE Writing'
    <2>0. /\ caller[t].then \in {"send", "resend", "away"} /\ t \in DOMAIN caller
          /\ DOMAIN caller[t] = {"at", "then", "sent", "copy"}
        BY CallerFields
    <2> USE <2>0
    <2>1. OthersStay(t)
        BY <1>2, ThreadsLock
    <2> DEFINE reads == ReadsCache(t) \/ (LogoutCommand(t) /\ cache[ApiUrl[ApiClient[t]]] # None)
    <2>2. CASE reads
        <3>1. /\ caller'[t].copy = cache /\ cache' = cache /\ stored' = stored
              /\ crossed' = (crossed \/ \E u \in Callers \ {t} : Rewrites(u))
            <4>1. CASE ReadsCache(t)
                BY <4>1 DEF ReadsCache
            <4>2. CASE LogoutCommand(t) /\ cache[ApiUrl[ApiClient[t]]] # None
                <5>1. /\ caller' = [caller EXCEPT ![t].at = "write", ![t].then = "away", ![t].copy = cache]
                      /\ crossed' = (crossed \/ \E u \in Callers \ {t} : Rewrites(u))
                    BY <4>2 DEF LogoutCommand
                <5>2. cache' = cache /\ stored' = stored
                    BY <4>2 DEF LogoutCommand
                <5> QED
                    BY <5>1, <5>2
            <4> QED
                BY <2>2, <4>1, <4>2
        <3> QED
            BY <2>1, <3>1 DEF Writing, Rewrites, Calls, OthersStay
    <2>3. CASE WritesCache(t)
        <3>1. /\ cache' = Rewritten(t) /\ crossed' = crossed
              /\ stored' = [stored EXCEPT ![ApiUrl[ApiClient[t]]] = TokenOf(t)]
              /\ Rewrites(t)
            BY <2>3 DEF WritesCache
        <3>2. ~ crossed => cache' = stored'
            BY <3>1 DEF Writing, Rewritten
        <3>3. caller'[t].at # "write"
            <4>1. caller'[t].at \in {"away", caller[t].then}
                BY <2>3, ContinuesSomewhere DEF WritesCache
            <4> QED
                BY <4>1 DEF CallerType
        <3> QED
            BY <2>1, <3>1, <3>2, <3>3 DEF Writing, Rewrites, Calls, OthersStay
    <2>4. CASE ~ reads /\ ~ WritesCache(t)
        <3>1. LogoutCommand(t) => caller' = caller /\ UNCHANGED <<cache, stored, crossed>>
            BY <2>4 DEF LogoutCommand
        <3>2. cache' = cache /\ stored' = stored /\ crossed' = crossed
            BY <1>2, <2>4, <3>1 DEF LoginStep, Requests, EntersLogin, LoginAnswered, LoginFails,
               Sends, Resends, LoginCommand, CacheAlone
        <3>3. caller'[t].at # "write"
            <4>1. CASE EntersLogin(t)
                <5>1. Then(t) # "write"
                    BY <4>1 DEF EntersLogin, Then, Calls
                <5> QED
                    BY <4>1, <5>1 DEF EntersLogin, Leaves, Away
            <4>2. CASE LoginAnswered(t)
                BY <4>2, ContinuesSomewhere DEF LoginAnswered, Moves
            <4>3. CASE LogoutCommand(t)
                BY <3>1, <4>3 DEF LogoutCommand, Calls
            <4>4. CASE Requests(t) \/ LoginFails(t) \/ Sends(t) \/ Resends(t) \/ LoginCommand(t)
                BY <4>4 DEF Requests, LoginFails, Sends, Resends, LoginCommand, Leaves, Moves, Away
            <4> QED
                BY <1>2, <2>4, <4>1, <4>2, <4>3, <4>4 DEF LoginStep
        <3> QED
            BY <2>1, <3>2, <3>3 DEF Writing, Rewrites, Calls, OthersStay
    <2> QED
        BY <2>2, <2>3, <2>4
<1>3. ASSUME NEW c \in ApiClients, OpenClient(c) PROVE Writing'
    BY <1>3 DEF OpenClient, Writing, Rewrites, Calls, Away, CacheAlone
<1>4. ASSUME NEW k \in 1 .. issued, TokenLapses(k) \/ TokenRevoked(k) PROVE Writing'
    BY <1>4 DEF TokenLapses, TokenRevoked, Writing, Rewrites, Calls, CacheAlone
<1>5. CASE UNCHANGED loginVars
    BY <1>5 DEF loginVars, Writing, Rewrites, Calls
<1> QED
    BY <1>2, <1>3, <1>4, <1>5 DEF LoginNext

LEMMA LoginInvariant ==
    LoginSpec => []LoginIInv
<1>1. LoginInit => LoginIInv
    BY LoginInitial
<1>2. LoginIInv /\ [LoginNext]_loginVars => LoginIInv'
    BY LoginTypesStep, HoldingStep, RefusalsStep, WritingStep DEF LoginIInv
<1> QED
    BY <1>1, <1>2, PTL DEF LoginSpec

(* LoginTypes: each variable of the API clients keeps its type, and the lock*)
(* that _ensure_login takes is held only by a thread of its own client.     *)
THEOREM LoginTyping ==
    LoginSpec => []LoginTypes
<1>1. LoginIInv => LoginTypes
    BY DEF LoginIInv, LoginTyped, Holding, LoginTypes, CallerType
<1> QED
    BY <1>1, LoginInvariant, PTL

(* RefusedTokenReplacedOnce: a thread asks the server for another token only*)
(* while its client has none, or one that lapsed or was refused; the check  *)
(* under the lock in ApiClient spares the others their login.               *)
THEOREM OneLoginReplacesToken ==
    LoginSpec => []RefusedTokenReplacedOnce
<1>1. LoginIInv => RefusedTokenReplacedOnce
    BY DEF LoginIInv, Refusals, RefusedTokenReplacedOnce
<1> QED
    BY <1>1, LoginInvariant, PTL

(* CacheKeepsOthers: as long as no two rewrites of the token cache overlap, *)
(* the file holds for each URL what the last login or logout of it left.    *)
THEOREM CacheIsKept ==
    LoginSpec => []CacheKeepsOthers
<1>1. LoginIInv => CacheKeepsOthers
    BY DEF LoginIInv, Writing, CacheKeepsOthers
<1> QED
    BY <1>1, LoginInvariant, PTL

---------------------------------------------------------------------------
(*************************************************************************)
(* The settings caches of the MCP server, for any number of tools at     *)
(* once and of edits.                                                    *)
(*************************************************************************)

(* An entry is made of a load and of a signature taken after it. *)
EntryType == {entry \in [signed : Nat, value : Nat] : entry.value <= entry.signed}

ToolType ==
    [at : {"gone", "sees", "root", "config", "loads", "signs", "waits", "works"},
     mutating : BOOLEAN, since : Nat, saw : Nat, uses : [Caches -> EntryType \cup {Unsigned}]]

RuntimeTyped ==
    /\ version \in Nat
    /\ kept \in [Caches -> EntryType \cup {Unsigned}]
    /\ cacheLock \in [Caches -> ToolThreads \cup {None}]
    /\ tool \in [ToolThreads -> ToolType]

(* An entry that a call may work with: its signature is as new as the call. *)
Serves(t, entry) == entry \in EntryType /\ entry.signed >= tool[t].since

(* What a call holds and has seen, wherever it is. *)
CallInOrder(t) ==
    /\ tool[t].since <= version /\ tool[t].saw <= version
    /\ Is(t, "root") \/ Is(t, "signs") => tool[t].since <= tool[t].saw
    /\ \A c \in Caches : cacheLock[c] = t => Is(t, "loads") \/ Is(t, "signs")
    /\ \A c, d \in Caches : cacheLock[c] = t /\ cacheLock[d] = t => c = d
    /\ Is(t, "waits") \/ Is(t, "config") \/ Is(t, "works") \/ cacheLock["config"] = t =>
          Serves(t, tool[t].uses["root"])
    /\ Is(t, "works") => Serves(t, tool[t].uses["config"])

RuntimeIInv ==
    /\ RuntimeTyped
    /\ \A t \in ToolThreads : CallInOrder(t)

LEMMA RuntimeInitial ==
    ASSUME RuntimeInit PROVE RuntimeIInv
<1>1. Gone \in ToolType
    BY DEF Gone, ToolType
<1>2. RuntimeTyped
    BY <1>1 DEF RuntimeInit, RuntimeTyped
<1>3. Gone.at = "gone" /\ Gone.since = 0 /\ Gone.saw = 0
    BY DEF Gone
<1>4. ASSUME NEW t \in ToolThreads PROVE CallInOrder(t)
    <2>1. tool[t] = Gone /\ t # None /\ version = 0 /\ \A c \in Caches : cacheLock[c] = None
        BY RuntimeAssumption DEF RuntimeInit, RuntimeAssumption
    <2> QED
        BY <1>3, <2>1 DEF CallInOrder, Is, Caches
<1> QED
    BY <1>2, <1>4 DEF RuntimeIInv

(* The calls of the other threads are where they were. *)
LEMMA OthersInOrder ==
    ASSUME RuntimeIInv, NEW t \in ToolThreads, NEW u \in ToolThreads \ {t},
           tool'[u] = tool[u], version' = version,
           \A c \in Caches : cacheLock'[c] \in {cacheLock[c], t, None}
    PROVE  CallInOrder(u)'
<1>1. CallInOrder(u) /\ u # None
    BY RuntimeAssumption DEF RuntimeAssumption, RuntimeIInv
<1>2. \A c \in Caches : cacheLock'[c] = u => cacheLock[c] = u
    BY <1>1
<1>3. Is(u, "root")' = Is(u, "root") /\ Is(u, "signs")' = Is(u, "signs")
      /\ Is(u, "loads")' = Is(u, "loads") /\ Is(u, "waits")' = Is(u, "waits")
      /\ Is(u, "config")' = Is(u, "config") /\ Is(u, "works")' = Is(u, "works")
    BY DEF Is
<1>4. \A entry : Serves(u, entry) => Serves(u, entry)'
    BY DEF Serves
<1> QED
    BY <1>1, <1>2, <1>3, <1>4 DEF CallInOrder, Caches

(* A call takes an entry that serves it. *)
LEMMA TakesGood ==
    ASSUME RuntimeIInv, NEW t \in ToolThreads, NEW c \in Caches, NEW entry \in EntryType,
           Is(t, c) \/ cacheLock[c] = t, Serves(t, entry), Takes(t, c, entry), version' = version,
           \A d \in Caches : cacheLock'[d] # t,
           c = "config" => Serves(t, tool[t].uses["root"])
    PROVE  tool' \in [ToolThreads -> ToolType] /\ CallInOrder(t)'
<1>1. tool \in [ToolThreads -> ToolType] /\ tool[t] \in ToolType
    BY DEF RuntimeIInv, RuntimeTyped
<1>2. After(t, c) \in {"works", "waits", "config"} /\ (c = "root" => After(t, c) # "works")
    BY DEF After
<1> DEFINE uses == [tool[t].uses EXCEPT ![c] = entry]
<1>3. uses \in [Caches -> EntryType \cup {Unsigned}]
    BY <1>1 DEF ToolType
<1>4. tool' = [tool EXCEPT ![t] = [tool[t] EXCEPT !.at = After(t, c), !.uses = uses]]
    BY <1>1 DEF Takes, ToolType
<1>5. [tool[t] EXCEPT !.at = After(t, c), !.uses = uses] \in ToolType
    BY <1>1, <1>2, <1>3 DEF ToolType
<1>6. tool' \in [ToolThreads -> ToolType]
    BY <1>1, <1>4, <1>5
<1>7. /\ tool'[t].at = After(t, c) /\ tool'[t].uses = uses
      /\ tool'[t].since = tool[t].since /\ tool'[t].saw = tool[t].saw
    BY <1>1, <1>4 DEF ToolType
<1>8. /\ Serves(t, uses["root"]) /\ (c = "config" => Serves(t, uses["config"]))
    BY <1>1 DEF Caches, ToolType
<1>9. Serves(t, tool[t].uses["root"])' /\ (c = "config" => Serves(t, tool[t].uses["config"])')
    BY <1>7, <1>8 DEF Serves
<1>10. tool[t].since <= version /\ tool[t].saw <= version
    BY DEF RuntimeIInv, CallInOrder
<1> HIDE DEF uses
<1> QED
    BY <1>2, <1>6, <1>7, <1>9, <1>10 DEF CallInOrder, Is, Caches

LEMMA RuntimeStep ==
    ASSUME RuntimeIInv, [RuntimeNext]_runtimeVars PROVE RuntimeIInv'
<1>1. /\ RuntimeTyped /\ version \in Nat /\ tool \in [ToolThreads -> ToolType]
      /\ cacheLock \in [Caches -> ToolThreads \cup {None}]
      /\ kept \in [Caches -> EntryType \cup {Unsigned}]
      /\ None \notin ToolThreads \cup Nat
    BY RuntimeAssumption DEF RuntimeAssumption, RuntimeIInv, RuntimeTyped
<1> USE <1>1
<1>2. ASSUME NEW t \in ToolThreads, ToolStep(t) PROVE RuntimeIInv'
    <2>1. /\ tool[t] \in ToolType /\ t # None /\ CallInOrder(t)
          /\ DOMAIN tool[t] = {"at", "mutating", "since", "saw", "uses"}
          /\ t \in DOMAIN tool
        BY DEF RuntimeIInv, ToolType
    <2> USE <2>1
    <2>2. /\ \A u \in ToolThreads \ {t} : tool'[u] = tool[u]
          /\ \A c \in Caches : cacheLock'[c] \in {cacheLock[c], t, None}
          /\ version' = version
        BY <1>2 DEF ToolStep, Called, SeesRoot, LooksUp, Loads, Signs, LocksRoot, Returns, Takes
    <2>3. SUFFICES RuntimeTyped' /\ CallInOrder(t)'
        BY <2>2, OthersInOrder DEF RuntimeIInv
    <2>4. cacheLock' \in [Caches -> ToolThreads \cup {None}]
        BY <1>2 DEF ToolStep, Called, SeesRoot, LooksUp, Loads, Signs, LocksRoot, Returns
    <2>5. ASSUME NEW mutating \in BOOLEAN, Called(t, mutating) PROVE RuntimeTyped' /\ CallInOrder(t)'
        <3>1. [Gone EXCEPT !.at = "sees", !.mutating = mutating, !.since = version] \in ToolType
            BY DEF Gone, ToolType
        <3>2. tool' \in [ToolThreads -> ToolType]
            BY <2>5, <3>1 DEF Called
        <3>3. tool'[t].at = "sees" /\ tool'[t].since = version /\ tool'[t].saw = 0
            BY <2>5 DEF Called, Gone
        <3> QED
            BY <2>4, <2>5, <3>2, <3>3 DEF Called, RuntimeTyped, CallInOrder, Is, Caches
    <2>6. CASE SeesRoot(t)
        <3>1. [tool[t] EXCEPT !.at = "root", !.saw = version] \in ToolType
            BY DEF ToolType
        <3>2. tool' = [tool EXCEPT ![t] = [tool[t] EXCEPT !.at = "root", !.saw = version]]
            BY <2>6 DEF SeesRoot
        <3>3. tool'[t].at = "root" /\ tool'[t].since = tool[t].since /\ tool'[t].saw = version
            BY <3>2
        <3>4. cacheLock' = cacheLock /\ kept' = kept /\ version' = version
            BY <2>6 DEF SeesRoot
        <3>5. \A c \in Caches : cacheLock[c] # t
            BY <2>6 DEF SeesRoot, CallInOrder, Is
        <3> QED
            BY <3>1, <3>2, <3>3, <3>4, <3>5 DEF RuntimeTyped, CallInOrder, Is, Caches
    <2>7. ASSUME NEW c \in Caches, LooksUp(t, c) PROVE RuntimeTyped' /\ CallInOrder(t)'
        <3>1. /\ \A d \in Caches : cacheLock[d] # t
              /\ c = "config" => Serves(t, tool[t].uses["root"])
            BY <2>7 DEF LooksUp, CallInOrder, Is, Caches
        <3>2. CASE Good(t, c)
            <4>1. kept[c].signed \in Nat /\ kept[c].signed >= tool[t].since
                BY <2>7, <3>2 DEF LooksUp, Good, CallInOrder, Is, ToolType, Caches
            <4>2. kept[c] \in EntryType
                BY <4>1 DEF Unsigned
            <4>3. Serves(t, kept[c])
                BY <4>1, <4>2 DEF Serves, EntryType, ToolType
            <4>4. Takes(t, c, kept[c]) /\ cacheLock' = cacheLock /\ kept' = kept
                BY <2>7, <3>2 DEF LooksUp
            <4> QED
                BY <2>2, <2>4, <2>7, <3>1, <4>2, <4>3, <4>4, TakesGood DEF LooksUp, RuntimeTyped
        <3>3. CASE ~ Good(t, c)
            <4>1. /\ tool' = [tool EXCEPT ![t].at = "loads"] /\ kept' = kept
                  /\ cacheLock' = [cacheLock EXCEPT ![c] = t]
                BY <2>7, <3>3 DEF LooksUp
            <4>2. tool' \in [ToolThreads -> ToolType]
                BY <4>1 DEF ToolType
            <4>3. /\ tool'[t].at = "loads" /\ tool'[t].since = tool[t].since
                  /\ tool'[t].saw = tool[t].saw /\ tool'[t].uses = tool[t].uses
                BY <4>1
            <4>4. cacheLock'["config"] = t => Serves(t, tool[t].uses["root"])'
                BY <3>1, <4>1, <4>3 DEF Serves, Caches
            <4>5. \A d \in Caches : cacheLock'[d] = t => d = c
                BY <3>1, <4>1
            <4> QED
                BY <2>2, <2>4, <4>1, <4>2, <4>3, <4>4, <4>5 DEF RuntimeTyped, CallInOrder, Is, Caches
        <3> QED
            BY <3>2, <3>3
    <2>8. ASSUME NEW c \in Caches, Loads(t, c) PROVE RuntimeTyped' /\ CallInOrder(t)'
        <3>1. tool' = [tool EXCEPT ![t] = [tool[t] EXCEPT !.at = "signs", !.saw = version]]
            BY <2>8 DEF Loads
        <3>2. [tool[t] EXCEPT !.at = "signs", !.saw = version] \in ToolType
            BY DEF ToolType
        <3>3. /\ tool'[t].at = "signs" /\ tool'[t].since = tool[t].since
              /\ tool'[t].saw = version /\ tool'[t].uses = tool[t].uses
            BY <3>1
        <3>4. cacheLock' = cacheLock /\ kept' = kept
            BY <2>8 DEF Loads
        <3>5. Serves(t, tool[t].uses["root"]) => Serves(t, tool[t].uses["root"])'
            BY <3>3 DEF Serves
        <3> QED
            BY <2>2, <3>1, <3>2, <3>3, <3>4, <3>5 DEF RuntimeTyped, CallInOrder, Is, Caches
    <2>9. ASSUME NEW c \in Caches, Signs(t, c) PROVE RuntimeTyped' /\ CallInOrder(t)'
        <3> DEFINE entry == [signed |-> version, value |-> tool[t].saw]
        <3>1. entry \in EntryType
            BY DEF EntryType, ToolType, CallInOrder
        <3>2. Serves(t, entry)
            BY <2>9, <3>1 DEF Signs, Serves, CallInOrder
        <3>3. /\ cacheLock[c] = t /\ kept' = [kept EXCEPT ![c] = entry] /\ Takes(t, c, entry)
              /\ cacheLock' = [cacheLock EXCEPT ![c] = None]
            BY <2>9 DEF Signs
        <3>4. c = "config" => Serves(t, tool[t].uses["root"])
            BY <3>3 DEF CallInOrder
        <3>5. \A d \in Caches : cacheLock'[d] # t
            BY <3>3 DEF CallInOrder
        <3> HIDE DEF entry
        <3>6. tool' \in [ToolThreads -> ToolType] /\ CallInOrder(t)'
            BY <2>2, <3>1, <3>2, <3>3, <3>4, <3>5, TakesGood
        <3> QED
            BY <2>2, <2>4, <3>1, <3>3, <3>6 DEF RuntimeTyped
    <2>10. CASE LocksRoot(t)
        <3>1. /\ tool' = [tool EXCEPT ![t].at = "config"] /\ cacheLock' = cacheLock /\ kept' = kept
              /\ Is(t, "waits")
            BY <2>10 DEF LocksRoot
        <3>2. tool' \in [ToolThreads -> ToolType]
            BY <3>1 DEF ToolType
        <3>3. /\ tool'[t].at = "config" /\ tool'[t].since = tool[t].since
              /\ tool'[t].saw = tool[t].saw /\ tool'[t].uses = tool[t].uses
            BY <3>1
        <3>4. Serves(t, tool[t].uses["root"])'
            BY <3>1, <3>3 DEF Serves, CallInOrder
        <3>5. \A c \in Caches : cacheLock[c] # t
            BY <3>1 DEF CallInOrder, Is
        <3> QED
            BY <2>2, <3>1, <3>2, <3>3, <3>4, <3>5 DEF RuntimeTyped, CallInOrder, Is, Caches
    <2>11. CASE Returns(t)
        <3>1. Gone \in ToolType /\ Gone.at = "gone" /\ Gone.since = 0 /\ Gone.saw = 0
            BY DEF Gone, ToolType
        <3>2. tool' = [tool EXCEPT ![t] = Gone] /\ kept' = kept /\ \A c \in Caches : cacheLock'[c] # t
            BY <2>11 DEF Returns
        <3> QED
            BY <2>2, <2>4, <3>1, <3>2 DEF RuntimeTyped, CallInOrder, Is, Caches
    <2> QED
        BY <1>2, <2>5, <2>6, <2>7, <2>8, <2>9, <2>10, <2>11 DEF ToolStep
<1>3. CASE Edited
    BY <1>3 DEF Edited, RuntimeIInv, RuntimeTyped, CallInOrder, Is, Serves, ToolType, Caches
<1>4. CASE UNCHANGED runtimeVars
    BY <1>4 DEF runtimeVars, RuntimeIInv, RuntimeTyped, CallInOrder, Is, Serves
<1> QED
    BY <1>2, <1>3, <1>4 DEF RuntimeNext

(* EditsAreNoticed: no tool of the MCP server works with an entry that was   *)
(* signed before the last edit that preceded its call.  What the signature  *)
(* stands for is another matter: the load may have missed an edit that the  *)
(* signature, taken after it, already counts.                               *)
THEOREM EditsNoticed ==
    RuntimeSpec => []EditsAreNoticed
<1>1. RuntimeInit => RuntimeIInv
    BY RuntimeInitial
<1>2. RuntimeIInv /\ [RuntimeNext]_runtimeVars => RuntimeIInv'
    BY RuntimeStep
<1>3. RuntimeIInv => EditsAreNoticed
    BY DEF RuntimeIInv, CallInOrder, Serves, EditsAreNoticed, Caches
<1> QED
    BY <1>1, <1>2, <1>3, PTL DEF RuntimeSpec
===========================================================================
