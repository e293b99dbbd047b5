----------------------------- MODULE Negotiation -----------------------------
(***************************************************************************)
(* `issuekit negotiate`: two sides, each an agent, alternate in a thread   *)
(* kept by the tracker until both have stated one contract, one is         *)
(* blocked, or the thread is at its cap; an agreed thread is finalized     *)
(* into a provider issue and a consumer issue.  Each invocation is a       *)
(* process; several may run for the same issue.  Entries are only ever     *)
(* appended, so a process's copy of a thread is the length it saw.         *)
(***************************************************************************)
EXTENDS ThreadOps

CONSTANTS
    Drivers,        \* invocations that drive rounds
    Finalizers,     \* invocations of negotiate --finalize
    Opener,         \* [Drivers -> their --initiator-side]
    Turns,          \* what an agent's turn may say, see AllTurns
    MaxRounds,      \* --max-rounds
    MaxThreads,     \* bounds: threads opened, entries over all threads, faults,
    MaxEntries,     \* issue pairs made
    MaxTalkFaults,
    MaxPairs

VARIABLES
    threads,    \* the tracker's threads that this issue opened
    talk,       \* each process: where it is, its thread, the entries of it that
                \* it has read, the provider and consumer issues it has made
    agreedIssues,     \* the implementation issues made, over all threads
    talkFaults

negotiationVars == <<threads, talk, agreedIssues, talkFaults>>

NegotiationAssumption ==
    /\ Turns \subseteq AllTurns
    /\ Opener \in [Drivers -> Sides]
    /\ Drivers \cap Finalizers = {}
    /\ None \notin Contracts \cup Nat
    /\ MaxRounds \in Nat \ {0}

ASSUME NegotiationAssumption

Negotiators == Drivers \cup Finalizers

Resting == [at |-> "idle", thread |-> None, seen |-> 0, pair |-> <<None, None>>]

NegotiationInit ==
    /\ threads = <<>> /\ agreedIssues = <<>> /\ talkFaults = 0
    /\ talk = [p \in Negotiators |-> Resting]

-----------------------------------------------------------------------------
(* The processes *)

EntriesMade == MapThenSumSet(LAMBDA t : Len(threads[t].entries), DOMAIN threads)

At(p, here) == talk[p].at = here

Rests(p) == talk' = [talk EXCEPT ![p] = Resting]

Talks(p, there) == talk' = [talk EXCEPT ![p].at = there]

TalksOf(p, there, t, length) ==
    talk' = [talk EXCEPT ![p] = [Resting EXCEPT !.at = there, !.thread = t, !.seen = length]]

(* The thread a process works on, and the prefix of it that it has read. *)
ThreadOf(p) == threads[talk[p].thread]
CopyOf(p) == SubSeq(ThreadOf(p).entries, 1, talk[p].seen)

TalkFault == talkFaults < MaxTalkFaults /\ talkFaults' = talkFaults + 1

(* Discarding the thread's proposals, of which only the first matters later: *)
(* while it is pending the origin cannot open another thread.  A proposal    *)
(* that cannot be discarded is left, with a warning.                         *)
Settled(t, after) ==
    \/ threads' = [after EXCEPT ![t].open = FALSE] /\ UNCHANGED talkFaults
    \/ threads' = after /\ TalkFault

(* A call, or an agent's turn, fails; or the process is killed. *)
NegotiatorFails(p) ==
    /\ ~ At(p, "idle")
    /\ TalkFault /\ Rests(p)
    /\ UNCHANGED <<threads, agreedIssues>>

Negotiating == {t \in DOMAIN threads : threads[t].status = "negotiating"}

-----------------------------------------------------------------------------
(* negotiate --from-issue *)

(* Fault: only the thread that is at its cap is evaluated. *)
EvaluateLate(d, t, entries) ==
    IF Len(entries) < MaxRounds THEN TalksOf(d, "turn", t, Len(entries))
    ELSE IF Outcome(entries) # "negotiating" THEN TalksOf(d, "status", t, Len(entries))
    ELSE Rests(d)

(* At its cap a thread is left negotiating: the outcome is "escalate". *)
Evaluate(d, t, entries) ==
    IF Outcome(entries) # "negotiating" THEN TalksOf(d, "status", t, Len(entries))
    ELSE IF Len(entries) < MaxRounds THEN TalksOf(d, "turn", t, Len(entries))
    ELSE Rests(d)

(* _open_or_resume_thread; several threads to resume are an error, and so is *)
(* one that the other side opened.  The reads of its threads are one step.   *)
OpenOrResume(d) ==
    /\ At(d, "idle")
    /\ \/ Negotiating = {} /\ Talks(d, "opening")
       \/ \E t \in Negotiating :
             /\ Negotiating = {t} /\ threads[t].entries[1].side = Opener[d]
             /\ Evaluate(d, t, threads[t].entries)
    /\ UNCHANGED <<threads, agreedIssues, talkFaults>>

(* Fault: every opening makes a thread. *)
SameOriginNever(side) == {}

(* Threads whose first entry is a pending proposal of this origin. *)
SameOrigin(side) ==
    {t \in DOMAIN threads : threads[t].open /\ threads[t].entries[1].side = side}

(* The opening turn has run.  A pending proposal of the same origin is       *)
(* returned in the place of a new one, and taken if it says the same.        *)
OpenThread(d, turn) ==
    LET same == SameOrigin(Opener[d])
        entry == Entry(Opener[d], 1, turn)
    IN  /\ At(d, "opening")
        /\ \/ /\ same = {} /\ Len(threads) < MaxThreads /\ EntriesMade < MaxEntries
              /\ threads' = Append(threads, [status |-> "negotiating", entries |-> <<entry>>,
                                             open |-> TRUE, contract |-> None, refs |-> None])
              /\ TalksOf(d, "reread", Len(threads) + 1, 0)
           \/ /\ same # {} /\ threads[Min(same)].entries[1] = entry
              /\ TalksOf(d, "reread", Min(same), 0)
              /\ UNCHANGED threads
           \/ same # {} /\ Rests(d) /\ UNCHANGED threads
        /\ UNCHANGED <<agreedIssues, talkFaults>>

Reread(d) ==
    /\ At(d, "reread")
    /\ Evaluate(d, talk[d].thread, ThreadOf(d).entries)
    /\ UNCHANGED <<threads, agreedIssues, talkFaults>>

(* The turn of the other side has run, on the copy; the reply is to the      *)
(* thread as it is.  Its answer may be lost.                                *)
TakeTurn(d, turn, answered) ==
    LET side == OtherSide(CopyOf(d)[talk[d].seen].side)
        round == talk[d].seen + 1
    IN  /\ At(d, "turn") /\ ReplyAccepts(ThreadOf(d), side, round) /\ EntriesMade < MaxEntries
        /\ threads' = [threads EXCEPT ![talk[d].thread].entries = Append(@, Entry(side, round, turn))]
        /\ IF answered THEN Talks(d, "reread") /\ UNCHANGED talkFaults ELSE Rests(d) /\ TalkFault
        /\ UNCHANGED agreedIssues

TurnRefused(d) ==
    /\ At(d, "turn")
    /\ ~ ReplyAccepts(ThreadOf(d), OtherSide(CopyOf(d)[talk[d].seen].side), talk[d].seen + 1)
    /\ Rests(d)
    /\ UNCHANGED <<threads, agreedIssues, talkFaults>>

(* patch_thread with a status, which is given once. *)
Decided(t, entries) ==
    [threads EXCEPT ![t].status = Outcome(entries),
                    ![t].contract = IF Outcome(entries) = "agreed"
                                    THEN LatestContract(entries) ELSE None]

(* The status comes from the copy; a thread that is blocked is settled.      *)
SetStatus(p, here, agreed) ==
    LET t == talk[p].thread
    IN  /\ At(p, here)
        /\ CASE t \notin Negotiating -> Rests(p) /\ UNCHANGED <<threads, talkFaults>>
             [] t \in Negotiating /\ Outcome(CopyOf(p)) = "agreed" ->
                    agreed /\ threads' = Decided(t, CopyOf(p)) /\ UNCHANGED talkFaults
             [] t \in Negotiating /\ Outcome(CopyOf(p)) # "agreed" ->
                    Rests(p) /\ Settled(t, Decided(t, CopyOf(p)))
        /\ UNCHANGED agreedIssues

DriverSetsStatus(d) == SetStatus(d, "status", Rests(d))

(* negotiate --cancel; a thread already cancelled is only settled again. *)
Cancel(t) ==
    /\ threads[t].status \in {"negotiating", "cancelled"}
    /\ Settled(t, [threads EXCEPT ![t].status = "cancelled"])
    /\ UNCHANGED <<talk, agreedIssues>>

-----------------------------------------------------------------------------
(* negotiate --finalize *)

FinalizeReadsStatus(f, t) ==
    /\ At(f, "idle") /\ Len(agreedIssues) + 2 <= 2 * MaxPairs
    /\ \/ threads[t].status = "negotiating" /\ TalksOf(f, "fThread", t, 0)
       \/ threads[t].status = "agreed" /\ TalksOf(f, "fRefs", t, 0)
    /\ UNCHANGED <<threads, agreedIssues, talkFaults>>

FinalizeReadsThread(f) ==
    /\ At(f, "fThread")
    /\ IF Outcome(ThreadOf(f).entries) = "negotiating" THEN Rests(f)
       ELSE TalksOf(f, "fStatus", talk[f].thread, Len(ThreadOf(f).entries))
    /\ UNCHANGED <<threads, agreedIssues, talkFaults>>

(* Fault: a status that cannot be set does not stop it. *)
FinalizerGoesOn(f) == SetStatus(f, "fStatus", Talks(f, "fRefs")) \/
    /\ At(f, "fStatus") /\ Outcome(CopyOf(f)) = "agreed"
    /\ Talks(f, "fRefs")
    /\ UNCHANGED <<threads, agreedIssues, talkFaults>>

FinalizerSetsStatus(f) == SetStatus(f, "fStatus", Talks(f, "fRefs"))

FinalizeReadsRefs(f) ==
    /\ At(f, "fRefs")
    /\ IF ThreadOf(f).refs # None
       THEN Rests(f) /\ Settled(talk[f].thread, threads)
       ELSE Talks(f, "fProvider") /\ UNCHANGED <<threads, talkFaults>>
    /\ UNCHANGED agreedIssues

(* create_issue, with the contract the thread holds; its answer may be lost. *)
Creates(f, here, there, half, provider, answered) ==
    /\ At(f, here) /\ Len(agreedIssues) < 2 * MaxPairs
    /\ agreedIssues' = Append(agreedIssues, [thread |-> talk[f].thread, provider |-> provider,
                                 contract |-> ThreadOf(f).contract])
    /\ IF answered
       THEN /\ talk' = [talk EXCEPT ![f].at = there, ![f].pair[half] = Len(agreedIssues) + 1]
            /\ UNCHANGED talkFaults
       ELSE Rests(f) /\ TalkFault
    /\ UNCHANGED threads

CreateProvider(f, answered) == Creates(f, "fProvider", "fConsumer", 1, None, answered)

CreateConsumer(f, answered) ==
    Creates(f, "fConsumer", "fRecord", 2, talk[f].pair[1], answered)

(* The refs recorded last are kept. *)
RecordRefs(f) ==
    /\ At(f, "fRecord")
    /\ Rests(f)
    /\ Settled(talk[f].thread, [threads EXCEPT ![talk[f].thread].refs = talk[f].pair])
    /\ UNCHANGED agreedIssues

-----------------------------------------------------------------------------
DriverStep(d) ==
    \/ OpenOrResume(d) \/ Reread(d) \/ TurnRefused(d) \/ DriverSetsStatus(d)
    \/ \E turn \in Turns : OpenThread(d, turn) \/ TakeTurn(d, turn, TRUE) \/ TakeTurn(d, turn, FALSE)

FinalizerStep(f) ==
    \/ \E t \in DOMAIN threads : FinalizeReadsStatus(f, t)
    \/ FinalizeReadsThread(f) \/ FinalizerSetsStatus(f) \/ FinalizeReadsRefs(f)
    \/ \E answered \in BOOLEAN : CreateProvider(f, answered) \/ CreateConsumer(f, answered)
    \/ RecordRefs(f)

NegotiationNext ==
    \/ \E d \in Drivers : DriverStep(d)
    \/ \E f \in Finalizers : FinalizerStep(f)
    \/ \E p \in Negotiators : NegotiatorFails(p)
    \/ \E t \in DOMAIN threads : Cancel(t)

NegotiationSpec == NegotiationInit /\ [][NegotiationNext]_negotiationVars

-----------------------------------------------------------------------------
(* Properties *)

(* Each variable has its type; a process past its first read has a thread to *)
(* work on and has read no more of it than there is.                         *)
NegotiationTypes ==
    /\ \A t \in DOMAIN threads :
          /\ threads[t].status \in {"negotiating", "agreed", "blocked", "cancelled"}
          /\ \A n \in DOMAIN threads[t].entries : threads[t].entries[n].side \in Sides
          /\ threads[t].contract \in Contracts \cup {None}
    /\ \A p \in Negotiators :
          /\ ~ (At(p, "idle") \/ At(p, "opening")) => talk[p].thread \in DOMAIN threads
          /\ talk[p].at \in {"turn", "status", "fStatus"} =>
                talk[p].seen \in 1 .. Len(ThreadOf(p).entries)

(* However many invocations run at once, one side opens one thread at a      *)
(* time, so that rerunning the same command finds the thread to go on with.  *)
(* Two threads that the two sides open for one issue both stay.             *)
OneNegotiatingThread ==
    \A t, u \in Negotiating :
        threads[t].entries[1].side = threads[u].entries[1].side => t = u

(* A thread on whose entries its sides have agreed, or one is blocked, grows *)
(* no further, also before its status says so.                               *)
ConvergedIsFinal ==
    \A t \in DOMAIN threads :
        \A n \in 1 .. Len(threads[t].entries) - 1 :
            Outcome(SubSeq(threads[t].entries, 1, n)) = "negotiating"

(* However many finalizations run, every issue made carries a contract that  *)
(* both sides of its thread have stated and that stays the thread's, no side *)
(* being blocked; and the refs of a thread name a consumer issue that        *)
(* depends on the provider issue they name.                                 *)
IssuesCarryAgreement ==
    /\ \A n \in DOMAIN agreedIssues :
          LET thread == threads[agreedIssues[n].thread]
          IN  /\ thread.status = "agreed" /\ agreedIssues[n].contract = thread.contract
              /\ \A side \in Sides : \E m \in DOMAIN thread.entries :
                    /\ thread.entries[m].side = side
                    /\ thread.entries[m].contract = agreedIssues[n].contract
              /\ \A m \in DOMAIN thread.entries : thread.entries[m].verdict # "blocked"
    /\ \A t \in DOMAIN threads : threads[t].refs # None =>
          /\ agreedIssues[threads[t].refs[2]].provider = threads[t].refs[1]
          /\ agreedIssues[threads[t].refs[1]].thread = t

=============================================================================
