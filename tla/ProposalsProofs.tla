------------------------- MODULE ProposalsProofs --------------------------
(*************************************************************************)
(* Proofs about proposals between projects: their checks by a reviewing  *)
(* project, and the requests a router turns into them.                   *)
(*************************************************************************)
EXTENDS ProposalChecks, PmRequest, FiniteSetTheorems, SequenceTheorems,
        WellFoundedInduction, TLAPS

---------------------------------------------------------------------------
(*************************************************************************)
(* Proposal checks, for any proposals, checks, checkouts and processes,  *)
(* and any number of failing calls.                                      *)
(*************************************************************************)

CheckWorkers == {CheckerRow[s] : s \in Checkers} \cup {Bare(CheckerRow[s]) : s \in Checkers}

CheckType ==
    [offer : Offers, worker : CheckWorkers, ruling : Rulings \cup {None},
     ref : Offers \cup {None}]

OfferStates == {"pending", "adopted", "discarded"}

Memory ==
    [phase : Phases, duty : SUBSET Nat, check : Nat \cup {None},
     saw : OfferStates \cup {None}, ruling : Rulings \cup {None}, owed : SUBSET Offers,
     erred : BOOLEAN, streak : Nat, sought : SUBSET Offers]

Handling == {"judge", "adopt", "append", "hold", "post"}

(* What a process at work on a check may rely on: the check exists, and a     *)
(* proposal read as adopted, or adopted by the process, still is.           *)
SubjectOK(s) ==
    checker[s].phase \in Handling =>
        /\ checker[s].check \in DOMAIN checks
        /\ checker[s].phase = "judge" /\ checker[s].saw = "adopted" =>
              offers[Subject(s)] = "adopted"
        /\ checker[s].phase \in {"append", "hold"} => offers[Subject(s)] = "adopted"
        /\ checker[s].phase = "post" /\ checker[s].ruling = "approve" =>
              offers[Subject(s)] = "adopted"

(* What a process asked to hold was held, or it owes the hold; and it lists   *)
(* checks only when it owes none.                                           *)
HoldsAccounted(s) ==
    /\ checker[s].sought \subseteq heldOnce \cup checker[s].owed
    /\ checker[s].phase = "list" => checker[s].owed = {}

CheckIInv ==
    /\ offers \in [Offers -> OfferStates]
    /\ checks \in Seq(CheckType)
    /\ rows \subseteq Checkers
    /\ checker \in [Checkers -> Memory]
    /\ \A s \in Checkers : checker[s].duty \subseteq DOMAIN checks
    /\ \A s \in Checkers : SubjectOK(s)
    /\ \A s \in Checkers : HoldsAccounted(s)
    /\ ApprovalHasIssue

LEMMA OffersOfChecks ==
    ASSUME checks \in Seq(CheckType)
    PROVE  \A c \in DOMAIN checks : c \in Nat /\ checks[c].offer \in Offers
<1>1. \A c \in DOMAIN checks : c \in Nat /\ checks[c] \in CheckType
    OBVIOUS
<1> QED
    BY <1>1 DEF CheckType

-----------------------------------------------------------------------------
(* What a process remembers *)

LEMMA AwayTyped ==
    /\ Away \in Memory /\ Away.phase = "down" /\ Away.duty = {}
    /\ Away.owed = {} /\ Away.sought = {}
BY DEF Away, Memory, Phases

(* Back at the top of the loop a process remembers its debts, or it is gone. *)
LEMMA PolledTyped ==
    ASSUME NEW s \in Checkers, checker[s] \in Memory, NEW streak \in Nat
    PROVE  /\ NextPoll(s, streak) \in Memory /\ NextPoll(s, streak).duty = {}
           /\ \/ NextPoll(s, streak) = Away
              \/ /\ NextPoll(s, streak).phase = "holds"
                 /\ NextPoll(s, streak).owed = checker[s].owed
                 /\ NextPoll(s, streak).sought = checker[s].sought
BY AwayTyped DEF NextPoll, Memory, Away, Phases

LEMMA ErrsTyped ==
    ASSUME NEW s \in Checkers, checker[s] \in Memory
    PROVE  /\ PollErrs(s) \in Memory /\ PollErrs(s).duty = {}
           /\ \/ PollErrs(s) = Away
              \/ /\ PollErrs(s).phase = "holds"
                 /\ PollErrs(s).owed = checker[s].owed
                 /\ PollErrs(s).sought = checker[s].sought
<1>1. checker[s].streak + 1 \in Nat /\ 0 \in Nat
    BY DEF Memory
<1> QED
    BY <1>1, AwayTyped, PolledTyped DEF PollErrs

LEMMA EndedTyped ==
    ASSUME NEW s \in Checkers, checker[s] \in Memory
    PROVE  /\ Erred(s) \in Memory /\ Erred(s).phase = "next"
           /\ Erred(s).duty = checker[s].duty /\ Erred(s).owed = checker[s].owed
           /\ Erred(s).sought = checker[s].sought
           /\ Handled(s) \in Memory /\ Handled(s).phase = "next"
           /\ Handled(s).duty = checker[s].duty /\ Handled(s).owed = checker[s].owed
           /\ Handled(s).sought = checker[s].sought
BY DEF Erred, Handled, Memory, Phases

-----------------------------------------------------------------------------
(* The steps of a process *)

LEMMA MemorySound ==
    ASSUME CheckIInv, NEW s \in Checkers, NEW memory \in Memory, Becomes(s, memory),
           memory.duty \subseteq DOMAIN checks, UNCHANGED <<checks, rows>>,
           offers' \in [Offers -> OfferStates],
           \A p \in Offers : offers[p] = "adopted" => offers'[p] = "adopted",
           heldOnce \subseteq heldOnce', SubjectOK(s)', HoldsAccounted(s)'
    PROVE  CheckIInv'
<1>1. /\ checker' \in [Checkers -> Memory] /\ checker'[s] = memory
      /\ \A t \in Checkers \ {s} : checker'[t] = checker[t]
    BY DEF CheckIInv, Becomes
<1>2. \A t \in Checkers : checker'[t].duty \subseteq DOMAIN checks'
    BY <1>1 DEF CheckIInv
<1>3. \A c \in DOMAIN checks : checks[c].offer \in Offers
    BY OffersOfChecks DEF CheckIInv
<1>4. ASSUME NEW t \in Checkers \ {s}
      PROVE  SubjectOK(t)' /\ HoldsAccounted(t)'
    <2>1. SubjectOK(t) /\ HoldsAccounted(t)
        BY DEF CheckIInv
    <2>2. SubjectOK(t)'
        BY <1>1, <1>3, <2>1 DEF SubjectOK, Subject, Handling
    <2>3. HoldsAccounted(t)'
        BY <1>1, <2>1 DEF HoldsAccounted, Subject
    <2> QED
        BY <2>2, <2>3
<1>5. ApprovalHasIssue'
    BY <1>3 DEF CheckIInv, ApprovalHasIssue
<1> QED
    BY <1>1, <1>2, <1>4, <1>5 DEF CheckIInv

(* A process that gives up its check or its cycle keeps its debts, or is gone. *)
LEMMA AwaySound ==
    ASSUME CheckIInv, NEW s \in Checkers, NEW memory \in Memory, Becomes(s, memory),
           memory.duty \subseteq DOMAIN checks, UNCHANGED <<checks, rows>>,
           offers' \in [Offers -> OfferStates],
           \A p \in Offers : offers[p] = "adopted" => offers'[p] = "adopted",
           heldOnce \subseteq heldOnce',
           \/ memory = Away
           \/ /\ memory.phase \in {"holds", "next"}
              /\ memory.owed = checker[s].owed /\ memory.sought = checker[s].sought
    PROVE  CheckIInv'
<1>1. checker'[s] = memory /\ memory.phase \in {"down", "holds", "next"}
    BY AwayTyped DEF CheckIInv, Becomes
<1>2. SubjectOK(s)'
    BY <1>1 DEF SubjectOK, Handling
<1>3. HoldsAccounted(s)'
    BY <1>1, AwayTyped DEF CheckIInv, HoldsAccounted
<1> QED
    BY <1>2, <1>3, MemorySound

LEMMA LoopSound ==
    ASSUME CheckIInv, NEW s \in Checkers,
           \/ CheckerStarts(s) \/ CheckerStops(s) \/ OwedRetried(s) \/ ListChecks(s)
           \/ ListChecksFails(s) \/ CheckFails(s) \/ AdoptionRefused(s) \/ AlreadyDecided(s)
           \/ CheckCycleEnds(s)
    PROVE  CheckIInv'
<1>1. /\ checker[s] \in Memory /\ checker[s].duty \subseteq DOMAIN checks
      /\ offers \in [Offers -> OfferStates] /\ HoldsAccounted(s)
      /\ UNCHANGED <<offers, checks, rows, heldOnce>>
    BY DEF CheckIInv, CheckerStarts, CheckerStops, OwedRetried, ListChecks, ListChecksFails,
           CheckFails, AdoptionRefused, AlreadyDecided, CheckCycleEnds
<1>2. Becomes(s, PollErrs(s)) \/ Becomes(s, NextPoll(s, 0)) => CheckIInv'
    <2>1. 0 \in Nat
        OBVIOUS
    <2> QED
        BY <1>1, <2>1, ErrsTyped, PolledTyped, AwaySound
<1>3. Becomes(s, Erred(s)) \/ Becomes(s, Handled(s)) => CheckIInv'
    BY <1>1, EndedTyped, AwaySound
<1>4. CASE CheckerStarts(s)
    <2> DEFINE memory == [Away EXCEPT !.phase = IF s \in LoopingCheckers THEN "holds" ELSE "list"]
    <2>1. /\ memory \in Memory /\ memory.duty = {} /\ memory.owed = {} /\ memory.sought = {}
          /\ memory.phase \in {"holds", "list"}
        BY DEF Away, Memory, Phases
    <2>2. Becomes(s, memory)
        BY <1>4 DEF CheckerStarts
    <2> HIDE DEF memory
    <2>3. checker'[s] = memory
        BY <2>2 DEF CheckIInv, Becomes
    <2>4. SubjectOK(s)' /\ HoldsAccounted(s)'
        BY <2>1, <2>3 DEF SubjectOK, Handling, HoldsAccounted
    <2> QED
        BY <1>1, <2>1, <2>2, <2>4, MemorySound
<1>5. CASE CheckerStops(s)
    BY <1>1, <1>5, AwayTyped, AwaySound DEF CheckerStops
<1>6. CASE OwedRetried(s)
    <2> DEFINE memory == [checker[s] EXCEPT !.phase = "list"]
    <2>1. /\ memory \in Memory /\ memory.duty = checker[s].duty /\ memory.phase = "list"
          /\ memory.owed = checker[s].owed /\ memory.sought = checker[s].sought
        BY <1>1 DEF Memory, Phases
    <2>2. Becomes(s, memory) /\ checker[s].owed = {} /\ checker[s].phase = "holds"
        BY <1>6 DEF OwedRetried, Now
    <2> HIDE DEF memory
    <2>3. checker'[s] = memory
        BY <2>2 DEF CheckIInv, Becomes
    <2>4. SubjectOK(s)' /\ HoldsAccounted(s)'
        BY <1>1, <2>1, <2>2, <2>3 DEF SubjectOK, Handling, HoldsAccounted
    <2> QED
        BY <1>1, <2>1, <2>2, <2>4, MemorySound
<1>7. CASE ListChecks(s)
    <2>1. checker[s].phase = "list"
        BY <1>7 DEF ListChecks, Now
    <2>2. ASSUME NEW duty, duty \subseteq DOMAIN checks,
                 Becomes(s, [checker[s] EXCEPT !.phase = "next", !.duty = duty])
          PROVE  CheckIInv'
        <3> DEFINE memory == [checker[s] EXCEPT !.phase = "next", !.duty = duty]
        <3>1. DOMAIN checks \subseteq Nat
            BY DEF CheckIInv
        <3>2. /\ memory \in Memory /\ memory.duty = duty /\ memory.phase = "next"
              /\ memory.owed = checker[s].owed /\ memory.sought = checker[s].sought
            BY <1>1, <2>2, <3>1 DEF Memory, Phases
        <3> HIDE DEF memory
        <3> QED
            BY <1>1, <2>1, <2>2, <3>2, AwaySound DEF memory
    <2>3. FirstAddressed(s) \subseteq DOMAIN checks /\ Addressed(s) \subseteq DOMAIN checks
        BY DEF FirstAddressed, Addressed, Unanswered
    <2> QED
        BY <1>2, <1>7, <2>1, <2>2, <2>3 DEF ListChecks
<1>8. CASE ListChecksFails(s) \/ CheckCycleEnds(s)
    BY <1>2, <1>8 DEF ListChecksFails, CheckCycleEnds, Now
<1>9. CASE CheckFails(s) \/ AdoptionRefused(s) \/ AlreadyDecided(s)
    BY <1>3, <1>9 DEF CheckFails, AdoptionRefused, AlreadyDecided, Now
<1> QED
    BY <1>4, <1>5, <1>6, <1>7, <1>8, <1>9

(* The steps that take a check to its answer *)

LEMMA HandlingSound ==
    ASSUME CheckIInv, NEW s \in Checkers,
           \/ \E c \in DOMAIN checks : ReadProposal(s, c)
           \/ \E ruling \in Rulings : AgentRules(s, ruling)
           \/ AdoptApproved(s) \/ AppendSpec(s) \/ HoldApproved(s) \/ \E p \in Offers : RetryOwed(s, p)
    PROVE  CheckIInv'
<1>1. /\ checker[s] \in Memory /\ checker[s].duty \subseteq DOMAIN checks
      /\ offers \in [Offers -> OfferStates] /\ HoldsAccounted(s) /\ SubjectOK(s)
      /\ UNCHANGED <<checks, rows>>
      /\ \A c \in DOMAIN checks : c \in Nat /\ checks[c].offer \in Offers
    BY OffersOfChecks DEF CheckIInv, ReadProposal, AgentRules, AdoptApproved, AppendSpec,
                             HoldApproved, RetryOwed
<1>2. ASSUME NEW c \in DOMAIN checks, ReadProposal(s, c)
      PROVE  CheckIInv'
    <2> DEFINE memory == [checker[s] EXCEPT !.phase = "judge", !.duty = @ \ {c}, !.check = c,
                                            !.saw = offers[checks[c].offer]]
    <2>1. /\ memory \in Memory /\ memory.duty \subseteq DOMAIN checks /\ memory.phase = "judge"
          /\ memory.check = c /\ memory.saw = offers[checks[c].offer]
          /\ memory.owed = checker[s].owed /\ memory.sought = checker[s].sought
        BY <1>1 DEF Memory, Phases
    <2>2. Becomes(s, memory) /\ checker[s].phase = "next" /\ UNCHANGED <<offers, heldOnce>>
        BY <1>2 DEF ReadProposal, Now
    <2> HIDE DEF memory
    <2>3. checker'[s] = memory
        BY <2>2 DEF CheckIInv, Becomes
    <2>4. SubjectOK(s)' /\ HoldsAccounted(s)'
        BY <1>1, <2>1, <2>2, <2>3 DEF SubjectOK, Subject, Handling, HoldsAccounted
    <2> QED
        BY <1>1, <2>1, <2>2, <2>4, MemorySound
<1>3. ASSUME NEW ruling \in Rulings, AgentRules(s, ruling)
      PROVE  CheckIInv'
    <2> DEFINE memory == [checker[s] EXCEPT
                            !.ruling = ruling, !.saw = None,
                            !.phase = IF ruling = "approve" /\ checker[s].saw # "adopted"
                                      THEN "adopt" ELSE "post"]
    <2>1. /\ memory \in Memory /\ memory.duty = checker[s].duty
          /\ memory.phase \in {"adopt", "post"} /\ memory.check = checker[s].check
          /\ memory.phase = "post" /\ memory.ruling = "approve" => checker[s].saw = "adopted"
          /\ memory.owed = checker[s].owed /\ memory.sought = checker[s].sought
        BY <1>1 DEF Memory, Phases
    <2>2. Becomes(s, memory) /\ checker[s].phase = "judge" /\ UNCHANGED <<offers, heldOnce>>
        BY <1>3 DEF AgentRules, Now
    <2> HIDE DEF memory
    <2>3. checker'[s] = memory
        BY <2>2 DEF CheckIInv, Becomes
    <2>4. SubjectOK(s)' /\ HoldsAccounted(s)'
        BY <1>1, <2>1, <2>2, <2>3 DEF SubjectOK, Subject, Handling, HoldsAccounted
    <2> QED
        BY <1>1, <2>1, <2>2, <2>4, MemorySound
<1>4. ASSUME NEW p \in Offers, RetryOwed(s, p)
      PROVE  CheckIInv'
    <2>1. heldOnce \subseteq heldOnce' /\ UNCHANGED offers /\ checker[s].phase = "holds"
        BY <1>4 DEF RetryOwed, HoldTaken, HoldRefused, HoldUnknown, Now
    <2>2. CASE Becomes(s, PollErrs(s))
        BY <1>1, <2>1, <2>2, ErrsTyped, AwaySound
    <2>3. CASE HoldTaken(p) /\ Becomes(s, [checker[s] EXCEPT !.owed = @ \ {p}])
        <3> DEFINE memory == [checker[s] EXCEPT !.owed = @ \ {p}]
        <3>1. /\ memory \in Memory /\ memory.duty = checker[s].duty /\ memory.phase = "holds"
              /\ memory.owed = checker[s].owed \ {p} /\ memory.sought = checker[s].sought
            BY <1>1, <2>1 DEF Memory
        <3>2. Becomes(s, memory) /\ heldOnce' = heldOnce \cup {p}
            BY <2>3 DEF HoldTaken
        <3> HIDE DEF memory
        <3>3. checker'[s] = memory
            BY <3>2 DEF CheckIInv, Becomes
        <3>4. SubjectOK(s)' /\ HoldsAccounted(s)'
            BY <1>1, <2>1, <3>1, <3>2, <3>3 DEF SubjectOK, Handling, HoldsAccounted
        <3> QED
            BY <1>1, <2>1, <3>1, <3>2, <3>4, MemorySound
    <2> QED
        BY <1>4, <2>2, <2>3 DEF RetryOwed
<1>5. CASE AdoptApproved(s)
    <2>1. /\ checker[s].phase = "adopt" /\ checker[s].check \in DOMAIN checks
          /\ Subject(s) \in Offers
        BY <1>1, <1>5 DEF AdoptApproved, Now, SubjectOK, Handling, Subject
    <2>2. /\ offers' = [offers EXCEPT ![Subject(s)] = "adopted"] /\ UNCHANGED heldOnce
          /\ offers' \in [Offers -> OfferStates] /\ offers'[Subject(s)] = "adopted"
          /\ \A p \in Offers : offers[p] = "adopted" => offers'[p] = "adopted"
        BY <1>1, <1>5, <2>1 DEF AdoptApproved, OfferStates
    <2>3. CASE Becomes(s, Erred(s))
        BY <1>1, <2>1, <2>2, <2>3, EndedTyped, AwaySound
    <2>4. ASSUME NEW phase \in {"append", "hold"},
                 Becomes(s, [checker[s] EXCEPT !.phase = phase])
          PROVE  CheckIInv'
        <3> DEFINE memory == [checker[s] EXCEPT !.phase = phase]
        <3>1. /\ memory \in Memory /\ memory.duty = checker[s].duty /\ memory.phase = phase
              /\ memory.check = checker[s].check /\ memory.owed = checker[s].owed
              /\ memory.sought = checker[s].sought
            BY <1>1 DEF Memory, Phases
        <3> HIDE DEF memory
        <3>2. checker'[s] = memory
            BY <2>4 DEF CheckIInv, Becomes, memory
        <3>3. Subject(s)' = Subject(s)
            BY <1>1, <3>1, <3>2 DEF Subject
        <3>4. SubjectOK(s)' /\ HoldsAccounted(s)'
            BY <1>1, <2>1, <2>2, <3>1, <3>2, <3>3 DEF SubjectOK, Handling, HoldsAccounted
        <3> QED
            BY <1>1, <2>2, <2>4, <3>1, <3>4, MemorySound DEF memory
    <2> QED
        BY <1>5, <2>3, <2>4 DEF AdoptApproved
<1>6. CASE HoldApproved(s)
    <2>1. /\ checker[s].phase = "hold" /\ checker[s].check \in DOMAIN checks
          /\ Subject(s) \in Offers /\ offers[Subject(s)] = "adopted"
          /\ heldOnce \subseteq heldOnce' /\ UNCHANGED offers
        BY <1>1, <1>6 DEF HoldApproved, HoldTaken, HoldRefused, HoldUnknown, Now, SubjectOK,
                          Handling, Subject
    <2>2. CASE /\ HoldTaken(Subject(s))
               /\ Becomes(s, [checker[s] EXCEPT !.phase = "post", !.sought = @ \cup {Subject(s)}])
        <3> DEFINE memory == [checker[s] EXCEPT !.phase = "post", !.sought = @ \cup {Subject(s)}]
        <3>1. /\ memory \in Memory /\ memory.duty = checker[s].duty /\ memory.phase = "post"
              /\ memory.check = checker[s].check /\ memory.owed = checker[s].owed
              /\ memory.sought = checker[s].sought \cup {Subject(s)}
            BY <1>1, <2>1 DEF Memory, Phases
        <3>2. Becomes(s, memory) /\ heldOnce' = heldOnce \cup {Subject(s)}
            BY <2>2 DEF HoldTaken
        <3> HIDE DEF memory
        <3>3. checker'[s] = memory
            BY <3>2 DEF CheckIInv, Becomes
        <3>4. Subject(s)' = Subject(s)
            BY <1>1, <3>1, <3>3 DEF Subject
        <3>5. SubjectOK(s)' /\ HoldsAccounted(s)'
            BY <1>1, <2>1, <3>1, <3>2, <3>3, <3>4 DEF SubjectOK, Handling, HoldsAccounted
        <3> QED
            BY <1>1, <2>1, <3>1, <3>2, <3>5, MemorySound
    <2>3. CASE Becomes(s, [Erred(s) EXCEPT !.owed = @ \cup {Subject(s)},
                                           !.sought = @ \cup {Subject(s)}])
        <3> DEFINE memory == [Erred(s) EXCEPT !.owed = @ \cup {Subject(s)},
                                              !.sought = @ \cup {Subject(s)}]
        <3>1. Erred(s) \in Memory
            BY <1>1, EndedTyped
        <3>2. /\ memory \in Memory /\ memory.duty = Erred(s).duty
              /\ memory.phase = Erred(s).phase
              /\ memory.sought = Erred(s).sought \cup {Subject(s)}
              /\ memory.owed = Erred(s).owed \cup {Subject(s)}
            BY <2>1, <3>1 DEF Memory
        <3>3. Becomes(s, memory)
            BY <2>3
        <3> HIDE DEF memory
        <3>4. /\ memory.duty = checker[s].duty /\ memory.phase = "next"
              /\ memory.sought = checker[s].sought \cup {Subject(s)}
              /\ memory.owed = checker[s].owed \cup {Subject(s)}
            BY <1>1, <3>2, EndedTyped
        <3>5. checker'[s] = memory
            BY <3>3 DEF CheckIInv, Becomes
        <3>6. SubjectOK(s)' /\ HoldsAccounted(s)'
            BY <1>1, <2>1, <3>4, <3>5 DEF SubjectOK, Handling, HoldsAccounted
        <3> QED
            BY <1>1, <2>1, <3>2, <3>3, <3>4, <3>6, MemorySound
    <2> QED
        BY <1>6, <2>2, <2>3 DEF HoldApproved
<1>7. CASE AppendSpec(s)
    <2>1. checker[s].phase = "append" /\ UNCHANGED <<offers, heldOnce>>
        BY <1>7 DEF AppendSpec, Now
    <2>2. CASE Becomes(s, Erred(s))
        BY <1>1, <2>1, <2>2, EndedTyped, AwaySound
    <2>3. CASE Becomes(s, [checker[s] EXCEPT !.phase = "hold"])
        <3> DEFINE memory == [checker[s] EXCEPT !.phase = "hold"]
        <3>1. /\ memory \in Memory /\ memory.duty = checker[s].duty /\ memory.phase = "hold"
              /\ memory.check = checker[s].check /\ memory.owed = checker[s].owed
              /\ memory.sought = checker[s].sought
            BY <1>1 DEF Memory, Phases
        <3> HIDE DEF memory
        <3>2. checker'[s] = memory
            BY <2>3 DEF CheckIInv, Becomes, memory
        <3>3. SubjectOK(s)' /\ HoldsAccounted(s)'
            BY <1>1, <2>1, <3>1, <3>2 DEF SubjectOK, Subject, Handling, HoldsAccounted
        <3> QED
            BY <1>1, <2>1, <2>3, <3>1, <3>3, MemorySound DEF memory
    <2> QED
        BY <1>7, <2>2, <2>3 DEF AppendSpec
<1> QED
    BY <1>2, <1>3, <1>4, <1>5, <1>6, <1>7

(* Only the ruling and the reference of an answered check change. *)
LEMMA PostSound ==
    ASSUME CheckIInv, NEW s \in Checkers, PostResult(s)
    PROVE  CheckIInv'
<1> DEFINE c == checker[s].check
           ruling == checker[s].ruling
           ref == IF ruling = "approve" THEN Subject(s) ELSE None
           memory == checker'[s]
<1>1. /\ checker[s] \in Memory /\ checker[s].duty \subseteq DOMAIN checks
      /\ SubjectOK(s) /\ HoldsAccounted(s) /\ checks \in Seq(CheckType)
    BY DEF CheckIInv
<1>2. /\ c \in DOMAIN checks /\ checker[s].phase = "post"
      /\ checks' = [checks EXCEPT ![c].ruling = ruling, ![c].ref = ref]
      /\ UNCHANGED <<offers, rows, heldOnce>>
      /\ Becomes(s, Handled(s)) \/ Becomes(s, Erred(s))
    BY DEF PostResult, Now, Unanswered
<1>3. /\ checks[c] \in CheckType /\ Subject(s) = checks[c].offer
      /\ ruling = "approve" => offers[Subject(s)] = "adopted"
    BY <1>1, <1>2 DEF SubjectOK, Handling, Subject
<1>4. ruling \in Rulings \cup {None} /\ ref \in Offers \cup {None}
    BY <1>1, <1>3 DEF Memory, CheckType
<1>5. /\ checks' \in Seq(CheckType) /\ DOMAIN checks' = DOMAIN checks
      /\ \A d \in DOMAIN checks : checks'[d].offer = checks[d].offer
      /\ checks'[c].ruling = ruling
      /\ \A d \in DOMAIN checks \ {c} : checks'[d] = checks[d]
    <2> DEFINE answered == [checks[c] EXCEPT !.ruling = ruling, !.ref = ref]
    <2>1. answered \in CheckType /\ answered.offer = checks[c].offer /\ answered.ruling = ruling
        BY <1>3, <1>4 DEF CheckType
    <2>2. checks' = [checks EXCEPT ![c] = answered]
        BY <1>1, <1>2
    <2> HIDE DEF answered
    <2> QED
        BY <1>1, <1>2, <2>1, <2>2
<1>6. /\ memory \in Memory /\ memory.phase = "next" /\ memory.duty = checker[s].duty
      /\ memory.owed = checker[s].owed /\ memory.sought = checker[s].sought
      /\ checker' \in [Checkers -> Memory]
      /\ \A t \in Checkers \ {s} : checker'[t] = checker[t]
    BY <1>1, <1>2, EndedTyped DEF CheckIInv, Becomes
<1> HIDE DEF memory
<1>7. SubjectOK(s)' /\ HoldsAccounted(s)'
    BY <1>1, <1>2, <1>6 DEF SubjectOK, Handling, HoldsAccounted, memory
<1>8. offers' = offers /\ heldOnce' = heldOnce
    BY <1>2
<1>9. ASSUME NEW t \in Checkers \ {s}
      PROVE  SubjectOK(t)' /\ HoldsAccounted(t)'
    <2>1. SubjectOK(t) /\ HoldsAccounted(t) /\ checker[t] \in Memory
        BY DEF CheckIInv
    <2>2. checker'[t] = checker[t]
        BY <1>6
    <2>3. checker[t].phase \in Handling =>
             checker[t].check \in DOMAIN checks /\ Subject(t)' = Subject(t)
        BY <1>5, <2>1, <2>2 DEF SubjectOK, Subject
    <2>4. SubjectOK(t)'
        BY <1>5, <1>8, <2>1, <2>2, <2>3 DEF SubjectOK
    <2>5. HoldsAccounted(t)'
        BY <1>8, <2>1, <2>2 DEF HoldsAccounted
    <2> QED
        BY <2>4, <2>5
<1>10. ApprovalHasIssue'
    BY <1>2, <1>3, <1>5 DEF CheckIInv, ApprovalHasIssue
<1>11. \A t \in Checkers : checker'[t].duty \subseteq DOMAIN checks'
    BY <1>1, <1>5, <1>6 DEF CheckIInv, memory
<1> QED
    BY <1>2, <1>5, <1>6, <1>7, <1>9, <1>10, <1>11 DEF CheckIInv

(* A new check has no answer yet, and disturbs no check under way. *)
LEMMA RequestSound ==
    ASSUME CheckIInv, NEW p \in Offers, NEW address, RequestCheck(p, address)
    PROVE  CheckIInv'
<1>1. PICK s \in rows :
         checks' = Append(checks, [offer |-> p, worker |-> AddressOf(s, address),
                                   ruling |-> None, ref |-> None])
    BY DEF RequestCheck
<1> DEFINE new == [offer |-> p, worker |-> AddressOf(s, address), ruling |-> None, ref |-> None]
<1>2. new \in CheckType
    BY DEF CheckIInv, CheckType, CheckWorkers, AddressOf
<1>3. checks \in Seq(CheckType) /\ UNCHANGED <<offers, rows, checker, heldOnce>>
    BY DEF CheckIInv, RequestCheck
<1> HIDE DEF new
<1>4. /\ checks' \in Seq(CheckType) /\ DOMAIN checks \subseteq DOMAIN checks'
      /\ \A c \in DOMAIN checks : checks'[c] = checks[c]
      /\ \A c \in DOMAIN checks' \ DOMAIN checks : checks'[c] = new
    BY <1>1, <1>2, <1>3 DEF new
<1>5. ASSUME NEW t \in Checkers
      PROVE  SubjectOK(t)' /\ HoldsAccounted(t)'
    <2>1. SubjectOK(t) /\ HoldsAccounted(t)
        BY DEF CheckIInv
    <2>2. SubjectOK(t)'
        BY <1>3, <1>4, <2>1 DEF SubjectOK, Subject, Handling
    <2>3. HoldsAccounted(t)'
        BY <1>3, <2>1 DEF HoldsAccounted
    <2> QED
        BY <2>2, <2>3
<1>6. ApprovalHasIssue'
    <2>1. new.ruling # "approve"
        BY CheckAssumption DEF new, CheckAssumption, Rulings
    <2> QED
        BY <1>3, <1>4, <2>1 DEF CheckIInv, ApprovalHasIssue
<1> QED
    BY <1>3, <1>4, <1>5, <1>6 DEF CheckIInv

(* People decide pending proposals only. *)
LEMMA OthersSound ==
    ASSUME CheckIInv,
           \/ \E s \in Checkers : Registers(s)
           \/ \E p \in Offers : DecidedByPerson(p) \/ IssueMoves(p)
           \/ UNCHANGED checkVars
    PROVE  CheckIInv'
<1>1. /\ UNCHANGED <<checks, checker, heldOnce>> /\ rows' \subseteq Checkers
      /\ offers' \in [Offers -> OfferStates]
      /\ \A p \in Offers : offers[p] = "adopted" => offers'[p] = "adopted"
    BY DEF CheckIInv, Registers, DecidedByPerson, IssueMoves, checkVars, OfferStates
<1>2. \A c \in DOMAIN checks : checks[c].offer \in Offers
    BY OffersOfChecks DEF CheckIInv
<1>3. ASSUME NEW t \in Checkers
      PROVE  SubjectOK(t)' /\ HoldsAccounted(t)'
    <2>1. SubjectOK(t) /\ HoldsAccounted(t)
        BY DEF CheckIInv
    <2> QED
        BY <1>1, <1>2, <2>1 DEF SubjectOK, Subject, Handling, HoldsAccounted
<1>4. ApprovalHasIssue'
    BY <1>1, <1>2 DEF CheckIInv, ApprovalHasIssue
<1> QED
    BY <1>1, <1>3, <1>4 DEF CheckIInv

LEMMA CheckInvariant == CheckSpec => []CheckIInv
<1>1. CheckInit => CheckIInv
    <2> SUFFICES ASSUME CheckInit PROVE CheckIInv
        OBVIOUS
    <2>1. checks = <<>> /\ rows \subseteq Checkers /\ \A s \in Checkers : checker[s] = Away
        BY CheckAssumption DEF CheckInit, CheckAssumption
    <2>2. \A s \in Checkers : SubjectOK(s) /\ HoldsAccounted(s)
        BY <2>1, AwayTyped DEF SubjectOK, Handling, HoldsAccounted
    <2> QED
        BY <2>1, <2>2, AwayTyped DEF CheckInit, CheckIInv, OfferStates, ApprovalHasIssue
<1>2. CheckIInv /\ [CheckNext]_checkVars => CheckIInv'
    BY LoopSound, HandlingSound, PostSound, RequestSound, OthersSound
    DEF CheckNext, CheckerStep
<1> QED
    BY <1>1, <1>2, PTL DEF CheckSpec

(* However many processes, checks of one proposal, people and failing calls    *)
(* there are: no check is answered "approve" whose proposal has no issue.    *)
THEOREM ApprovalsHaveIssues == CheckSpec => []ApprovalHasIssue
<1>1. CheckIInv => ApprovalHasIssue
    BY DEF CheckIInv
<1> QED
    BY <1>1, CheckInvariant, PTL

(* No process goes on to further checks before every issue it asked to hold    *)
(* has been held once.  An adoption that never comes to its hold, its answer *)
(* lost or its text not appended, is outside of this.                        *)
THEOREM HoldsComeFirst == CheckSpec => []HeldBeforeNextCycle
<1>1. CheckIInv => HeldBeforeNextCycle
    BY DEF CheckIInv, HoldsAccounted, HeldBeforeNextCycle, Now
<1> QED
    BY <1>1, CheckInvariant, PTL

---------------------------------------------------------------------------
(*************************************************************************)
(* Requests, for any projects, texts and requests. That a rerun finds    *)
(* what it left is proved for one command at a time: two at once load    *)
(* the same state file and the later save drops what the earlier one     *)
(* added.                                                                *)
(*************************************************************************)

LEMMA LeastNumber ==
    ASSUME NEW S, S \subseteq Nat, S # {}
    PROVE  \E m \in S : \A k \in S : m <= k
<1> DEFINE R == {p \in Nat \X Nat : p[1] < p[2]}
<1>1. IsWellFoundedOn(R, Nat)
  BY NatLessThanWellFounded DEF OpToRel, R
<1> HIDE DEF R
<1>2. PICK m \in S : \A k \in S : <<k, m>> \notin R
  BY <1>1, WFMin
<1>3. ASSUME NEW k \in S PROVE m <= k
  <2>1. ~ (k < m)
    BY <1>2 DEF R
  <2> QED BY <2>1
<1> QED BY <1>3

LEMMA MinInside ==
    ASSUME NEW S, S \subseteq Nat, S # {}
    PROVE  Min(S) \in S /\ \A k \in S : Min(S) <= k
BY LeastNumber DEF Min

(* Counting the members of a set of numbers up to one of them gives each its  *)
(* place, and every place is taken.                                         *)
UpTo(F, n) == {m \in F : m <= n}

LEMMA UpToFinite ==
    ASSUME NEW L \in Nat, NEW F \in SUBSET (1 .. L), NEW n
    PROVE  /\ IsFiniteSet(F) /\ Cardinality(F) \in Nat
           /\ IsFiniteSet(UpTo(F, n)) /\ Cardinality(UpTo(F, n)) \in Nat
           /\ Cardinality(UpTo(F, n)) <= Cardinality(F)
<1>1. IsFiniteSet(1 .. L)
  BY FS_Interval
<1>2. IsFiniteSet(F)
  BY <1>1, FS_Subset
<1>3. UpTo(F, n) \in SUBSET F
  BY DEF UpTo
<1>4. IsFiniteSet(UpTo(F, n)) /\ Cardinality(UpTo(F, n)) <= Cardinality(F)
  BY <1>2, <1>3, FS_Subset
<1> QED BY <1>2, <1>4, FS_CardinalityType

LEMMA CountStep ==
    ASSUME NEW L \in Nat, NEW F \in SUBSET (1 .. L), NEW n \in Nat
    PROVE  /\ n + 1 \in F => Cardinality(UpTo(F, n + 1)) = Cardinality(UpTo(F, n)) + 1
           /\ n + 1 \notin F => UpTo(F, n + 1) = UpTo(F, n)
<1>0. \A m \in F : m \in Int
  OBVIOUS
<1>1. CASE n + 1 \in F
  <2>1. \A m \in F : m <= n + 1 <=> m <= n \/ m = n + 1
    BY <1>0
  <2>2. UpTo(F, n + 1) = UpTo(F, n) \cup {n + 1}
    BY <1>1, <2>1 DEF UpTo
  <2>3. n + 1 \notin UpTo(F, n)
    BY DEF UpTo
  <2>4. IsFiniteSet(UpTo(F, n))
    BY UpToFinite
  <2> HIDE DEF UpTo
  <2> DEFINE U == UpTo(F, n)
             e == n + 1
  <2>5. IsFiniteSet(U) /\ e \notin U
    BY <2>3, <2>4
  <2> HIDE DEF U, e
  <2>6. Cardinality(U \cup {e}) = Cardinality(U) + 1
    BY <2>5, FS_AddElement, Zenon
  <2>7. UpTo(F, n + 1) = U \cup {e}
    BY <2>2 DEF U, e
  <2>8. Cardinality(UpTo(F, n + 1)) = Cardinality(U) + 1
    BY <2>6, <2>7
  <2> QED BY <1>1, <2>8 DEF U
<1>2. CASE n + 1 \notin F
  <2>1. \A m \in F : m <= n + 1 <=> m <= n
    BY <1>0, <1>2
  <2> QED BY <1>2, <2>1 DEF UpTo
<1> QED BY <1>1, <1>2

LEMMA CountGrows ==
    ASSUME NEW L \in Nat, NEW F \in SUBSET (1 .. L), NEW m \in Nat, NEW n \in F, m < n
    PROVE  Cardinality(UpTo(F, m)) < Cardinality(UpTo(F, n))
<1>0. \A j \in F : j \in Int
  OBVIOUS
<1>1. UpTo(F, m) \in SUBSET UpTo(F, n) /\ n \in UpTo(F, n) /\ n \notin UpTo(F, m)
  <2>1. \A j \in F : j <= m => j <= n
    BY <1>0
  <2>2. n <= n /\ ~ (n <= m)
    BY <1>0
  <2> QED BY <2>1, <2>2 DEF UpTo
<1>2. IsFiniteSet(UpTo(F, n)) /\ Cardinality(UpTo(F, n)) \in Nat
  <2> HIDE DEF UpTo
  <2> QED BY UpToFinite
<1>3. /\ Cardinality(UpTo(F, m)) <= Cardinality(UpTo(F, n))
      /\ Cardinality(UpTo(F, m)) = Cardinality(UpTo(F, n)) => UpTo(F, m) = UpTo(F, n)
  BY <1>1, <1>2, FS_Subset
<1>4. Cardinality(UpTo(F, m)) \in Nat
  BY UpToFinite
<1> QED BY <1>1, <1>2, <1>3, <1>4

LEMMA CountReaches ==
    ASSUME NEW L \in Nat, NEW F \in SUBSET (1 .. L), NEW k \in 1 .. Cardinality(F)
    PROVE  \E n \in F : Cardinality(UpTo(F, n)) = k
<1> DEFINE S == {n \in Nat : k <= Cardinality(UpTo(F, n))}
<1>1. Cardinality(F) \in Nat /\ k \in Nat /\ k # 0
  <2>1. Cardinality(F) \in Nat
    BY UpToFinite
  <2> QED BY <2>1
<1>2. UpTo(F, L) = F
  <2>1. \A m \in F : m <= L
    OBVIOUS
  <2> QED BY <2>1 DEF UpTo
<1>3. L \in S
  BY <1>1, <1>2
<1>4. PICK n \in S : \A j \in S : n <= j
  <2>1. S \subseteq Nat /\ S # {}
    BY <1>3
  <2> HIDE DEF S
  <2> QED BY <2>1, LeastNumber
<1>5. n # 0
  <2>1. UpTo(F, 0) = {}
    <3>1. \A m \in F : ~ (m <= 0)
      OBVIOUS
    <3> QED BY <3>1 DEF UpTo
  <2>2. Cardinality(UpTo(F, 0)) = 0
    BY <2>1, FS_EmptySet
  <2> QED BY <2>2, <1>1
<1>6. n - 1 \in Nat /\ n - 1 \notin S /\ n = (n - 1) + 1
  BY <1>4, <1>5
<1>7. Cardinality(UpTo(F, n - 1)) < k /\ k <= Cardinality(UpTo(F, n))
  <2>1. Cardinality(UpTo(F, n - 1)) \in Nat
    BY <1>6, UpToFinite
  <2> QED BY <1>1, <1>6, <2>1
<1>8. /\ n \in F => Cardinality(UpTo(F, n)) = Cardinality(UpTo(F, n - 1)) + 1
      /\ n \notin F => UpTo(F, n) = UpTo(F, n - 1)
  <2> HIDE DEF S
  <2> DEFINE j == n - 1
  <2>1. j \in Nat /\ n = j + 1
    BY <1>6
  <2> HIDE DEF j
  <2>2. /\ j + 1 \in F => Cardinality(UpTo(F, j + 1)) = Cardinality(UpTo(F, j)) + 1
        /\ j + 1 \notin F => UpTo(F, j + 1) = UpTo(F, j)
    BY <2>1, CountStep
  <2> QED BY <2>1, <2>2 DEF j
<1>9. Cardinality(UpTo(F, n - 1)) \in Nat
  BY <1>6, UpToFinite
<1> HIDE DEF S
<1>10. CASE n \in F
  BY <1>1, <1>7, <1>8, <1>9, <1>10
<1>11. CASE n \notin F
  BY <1>1, <1>7, <1>8, <1>9, <1>11
<1> QED BY <1>10, <1>11

-----------------------------------------------------------------------------
(* The state file *)

Refs == Projects \X Nat

TargetType == [project : Projects, after : Nat, ref : Nat \cup {None}, heard : SUBSET Refs,
               wants : Projects \cup {None}]

RecordType == [text : Texts, decision : {"", "clarify", "reject", "route"}, question : BOOLEAN,
               rounds : Nat, targets : Seq(TargetType)]

Wanted(targets, n) ==
    IF targets[n].wants = None THEN targets[n].after = 0
    ELSE /\ targets[n].after \in 1 .. n - 1
         /\ targets[targets[n].after].project = targets[n].wants

(* One target for a project, and each depends on the one it should.          *)
TargetsOK(targets) ==
    /\ targets \in Seq(TargetType)
    /\ \A m, n \in 1 .. Len(targets) : targets[m].project = targets[n].project => m = n
    /\ \A n \in 1 .. Len(targets) : Wanted(targets, n) /\ IsFiniteSet(targets[n].heard)

(* Targets stay where they are and keep what was answered about them.        *)
TargetsGrow(old, new) ==
    /\ Len(old) <= Len(new)
    /\ \A n \in 1 .. Len(old) :
          new[n].project = old[n].project /\ old[n].heard \subseteq new[n].heard

LEMMA RouteFacts ==
    ASSUME NEW route \in Routes
    PROVE  /\ Len(route) \in Nat /\ DOMAIN route = 1 .. Len(route)
           /\ \A n \in 1 .. Len(route) : /\ route[n].project \in Projects
                                         /\ route[n].after \in Nat /\ route[n].after < n
           /\ \A m, n \in 1 .. Len(route) : route[m].project = route[n].project => m = n
<1>1. Cardinality(Projects) \in Nat
  BY PmAssumption, FS_CardinalityType DEF PmAssumption
<1>2. PICK length \in 1 .. Cardinality(Projects) :
         route \in [1 .. length -> [project : Projects, after : 0 .. length]]
  BY PmAssumption DEF PmAssumption, AllRoutes
<1>3. length \in Nat
  BY <1>1
<1>4. Len(route) = length /\ DOMAIN route = 1 .. length
  BY <1>2, <1>3
<1>5. /\ \A m, n \in DOMAIN route : route[m].project = route[n].project => m = n
      /\ \A n \in DOMAIN route : route[n].after < n
  BY PmAssumption DEF PmAssumption, AllRoutes
<1> QED BY <1>2, <1>3, <1>4, <1>5

LEMMA FreshIndex ==
    ASSUME NEW saved, TargetsOK(saved), NEW route \in Routes
    PROVE  /\ Len(saved) \in Nat /\ Cardinality(Fresh(saved, route)) \in Nat
           /\ Fresh(saved, route) \subseteq 1 .. Len(route)
           /\ \A n \in Fresh(saved, route) :
                 /\ TargetIndex(saved, route, n) \in Nat
                 /\ Len(saved) < TargetIndex(saved, route, n)
                 /\ TargetIndex(saved, route, n) <= Len(saved) + Cardinality(Fresh(saved, route))
           /\ \A m, n \in Fresh(saved, route) :
                 m < n => TargetIndex(saved, route, m) < TargetIndex(saved, route, n)
           /\ \A k \in Len(saved) + 1 .. Len(saved) + Cardinality(Fresh(saved, route)) :
                 \E n \in Fresh(saved, route) : TargetIndex(saved, route, n) = k
<1> DEFINE F == Fresh(saved, route)
<1>1. Len(route) \in Nat /\ F \in SUBSET (1 .. Len(route))
  BY RouteFacts DEF Fresh
<1>2. Len(saved) \in Nat
  BY LenProperties DEF TargetsOK
<1>3. Cardinality(F) \in Nat
  BY <1>1, UpToFinite
<1>4. \A n \in F : TargetIndex(saved, route, n) = Len(saved) + Cardinality(UpTo(F, n))
  BY DEF TargetIndex, UpTo
<1> HIDE DEF F
<1>5. ASSUME NEW n \in F
      PROVE  /\ n \in Nat /\ Cardinality(UpTo(F, n)) \in Nat /\ Cardinality(UpTo(F, n)) > 0
             /\ Cardinality(UpTo(F, n)) <= Cardinality(F)
  <2>1. n \in Nat /\ n \in Int /\ 0 \in Nat /\ 0 < n
    BY <1>1
  <2>2. Cardinality(UpTo(F, n)) \in Nat /\ Cardinality(UpTo(F, n)) <= Cardinality(F)
    BY <1>1, <2>1, UpToFinite
  <2>3. Cardinality(UpTo(F, 0)) < Cardinality(UpTo(F, n)) /\ Cardinality(UpTo(F, 0)) \in Nat
    BY <1>1, <2>1, CountGrows, UpToFinite
  <2> QED BY <2>1, <2>2, <2>3
<1>6. ASSUME NEW m \in F, NEW n \in F, m < n
      PROVE  Cardinality(UpTo(F, m)) < Cardinality(UpTo(F, n))
  <2>1. m \in Nat
    BY <1>5
  <2> QED BY <1>1, <1>6, <2>1, CountGrows
<1>7. ASSUME NEW k \in Len(saved) + 1 .. Len(saved) + Cardinality(F)
      PROVE  \E n \in F : TargetIndex(saved, route, n) = k
  <2>1. k - Len(saved) \in 1 .. Cardinality(F) /\ k \in Int
    BY <1>2, <1>3
  <2>2. PICK n \in F : Cardinality(UpTo(F, n)) = k - Len(saved)
    BY <1>1, <2>1, CountReaches
  <2>3. Len(saved) + (k - Len(saved)) = k
    BY <1>2, <2>1
  <2> QED BY <1>4, <2>2, <2>3
<1>8. \A n \in F : /\ TargetIndex(saved, route, n) \in Nat
                   /\ Len(saved) < TargetIndex(saved, route, n)
                   /\ TargetIndex(saved, route, n) <= Len(saved) + Cardinality(F)
  BY <1>2, <1>3, <1>4, <1>5
<1>9. \A m, n \in F : m < n => TargetIndex(saved, route, m) < TargetIndex(saved, route, n)
  BY <1>2, <1>4, <1>5, <1>6
<1> QED BY <1>1, <1>2, <1>3, <1>7, <1>8, <1>9 DEF F

(* What the router adds keeps the dependencies it named, wherever the targets *)
(* already saved have put them.                                             *)
LEMMA MergedFacts ==
    ASSUME NEW saved, TargetsOK(saved), NEW route \in Routes
    PROVE  TargetsOK(Merged(saved, route)) /\ TargetsGrow(saved, Merged(saved, route))
<1> DEFINE F == Fresh(saved, route)
           L == Len(saved)
           N == L + Cardinality(F)
           place(k) == CHOOSE n \in F : TargetIndex(saved, route, n) = k
           new == Merged(saved, route)
<1>1. /\ L \in Nat /\ Cardinality(F) \in Nat /\ F \subseteq 1 .. Len(route)
      /\ \A n \in F : /\ TargetIndex(saved, route, n) \in Nat
                       /\ L < TargetIndex(saved, route, n)
                       /\ TargetIndex(saved, route, n) <= N
      /\ \A m, n \in F : m < n => TargetIndex(saved, route, m) < TargetIndex(saved, route, n)
      /\ \A k \in L + 1 .. N : \E n \in F : TargetIndex(saved, route, n) = k
  BY FreshIndex
<1>2. /\ Len(route) \in Nat /\ DOMAIN route = 1 .. Len(route)
      /\ \A n \in 1 .. Len(route) : /\ route[n].project \in Projects
                                     /\ route[n].after \in Nat /\ route[n].after < n
      /\ \A m, n \in 1 .. Len(route) : route[m].project = route[n].project => m = n
  BY RouteFacts
<1>3. /\ saved \in Seq(TargetType) /\ DOMAIN saved = 1 .. L
      /\ \A n \in 1 .. L : /\ saved[n] \in TargetType /\ Wanted(saved, n)
                            /\ IsFiniteSet(saved[n].heard)
      /\ \A m, n \in 1 .. L : saved[m].project = saved[n].project => m = n
  BY ElementOfSeq, LenProperties DEF TargetsOK
<1>4. \A n \in 1 .. Len(route) \ F : \E k \in 1 .. L : saved[k].project = route[n].project
  BY <1>2, <1>3 DEF Fresh
<1>5. \A n \in F : \A k \in 1 .. L : saved[k].project # route[n].project
  BY <1>3 DEF Fresh
<1>6. N \in Nat /\ L <= N
  BY <1>1
<1>7. /\ DOMAIN new = 1 .. N
      /\ \A k \in 1 .. L : new[k] = saved[k]
      /\ \A k \in L + 1 .. N :
            new[k] = NewTarget(route, place(k), SavedReference(saved, route, route[place(k)].after))
  <2>1. new = [k \in 1 .. N |->
                 IF k <= L THEN saved[k]
                 ELSE NewTarget(route, place(k), SavedReference(saved, route, route[place(k)].after))]
    BY DEF Merged
  <2> HIDE DEF new, F, place, N, L
  <2> QED BY <1>1, <1>6, <2>1
<1>8. \A n \in 1 .. Len(route) : TargetIndex(saved, route, n) \in 1 .. L \/ n \in F
  <2>1. \A n \in 1 .. Len(route) \ F :
           TargetIndex(saved, route, n) = CHOOSE k \in 1 .. L : saved[k].project = route[n].project
    BY <1>3 DEF TargetIndex
  <2> HIDE DEF F, L
  <2> QED BY <1>4, <2>1
<1>9. \A n \in 1 .. Len(route) \ F :
         saved[TargetIndex(saved, route, n)].project = route[n].project
  <2>1. \A n \in 1 .. Len(route) \ F :
           TargetIndex(saved, route, n) = CHOOSE k \in 1 .. L : saved[k].project = route[n].project
    BY <1>3 DEF TargetIndex
  <2> HIDE DEF F, L
  <2> QED BY <1>4, <2>1
<1>10. \A k \in L + 1 .. N : place(k) \in F /\ TargetIndex(saved, route, place(k)) = k
  <2> HIDE DEF F, N, L
  <2> QED BY <1>1
<1>11. \A m, n \in F : TargetIndex(saved, route, m) = TargetIndex(saved, route, n) => m = n
  <2> HIDE DEF F, N, L
  <2> SUFFICES ASSUME NEW m \in F, NEW n \in F,
                      TargetIndex(saved, route, m) = TargetIndex(saved, route, n)
               PROVE  m = n
    OBVIOUS
  <2>1. m \in Nat /\ n \in Nat
    BY <1>1, <1>2
  <2>2. ~ (m < n) /\ ~ (n < m)
    BY <1>1
  <2> QED BY <2>1, <2>2
<1> HIDE DEF F, N, L, place, new
<1>12. ASSUME NEW k \in L + 1 .. N
       PROVE  /\ new[k] \in TargetType /\ new[k].heard = {}
              /\ new[k].project = route[place(k)].project
              /\ new[k].wants = IF route[place(k)].after = 0 THEN None
                                ELSE route[route[place(k)].after].project
              /\ new[k].after = SavedReference(saved, route, route[place(k)].after)
  <2> DEFINE n == place(k)
             a == route[n].after
             s == SavedReference(saved, route, a)
             w == IF a = 0 THEN None ELSE route[a].project
  <2>1. n \in 1 .. Len(route) /\ route[n].project \in Projects /\ a \in Nat /\ a < n
    BY <1>1, <1>2, <1>10
  <2>2. w \in Projects \cup {None}
    <3>1. a = 0 \/ a \in 1 .. Len(route)
      BY <1>2, <2>1
    <3> HIDE DEF n, a
    <3> QED BY <1>2, <3>1
  <2>3. s \in Nat
    <3>1. a = 0 \/ a \in 1 .. Len(route)
      BY <1>2, <2>1
    <3> HIDE DEF n, a
    <3>2. a # 0 => TargetIndex(saved, route, a) \in Nat
      BY <1>1, <1>8, <3>1
    <3> QED BY <3>2 DEF SavedReference
  <2>4. new[k] = [project |-> route[n].project, after |-> s, ref |-> None, heard |-> {}, wants |-> w]
    BY <1>7 DEF NewTarget
  <2> HIDE DEF n, a, s, w
  <2>5. new[k] \in TargetType /\ new[k].heard = {} /\ new[k].project = route[n].project
        /\ new[k].wants = w /\ new[k].after = s
    BY <2>1, <2>2, <2>3, <2>4 DEF TargetType
  <2> QED BY <2>5 DEF n, a, s, w
<1>13. new \in Seq(TargetType) /\ Len(new) = N
  <2>1. \A k \in 1 .. N : new[k] \in TargetType
    <3> SUFFICES ASSUME NEW k \in 1 .. N PROVE new[k] \in TargetType
      OBVIOUS
    <3>1. k \in 1 .. L \/ k \in L + 1 .. N
      BY <1>1, <1>6 DEF L
    <3> QED BY <1>3, <1>7, <1>12, <3>1
  <2>2. new \in [1 .. N -> TargetType]
    BY <1>7, <2>1 DEF new, Merged
  <2> QED BY <1>6, <2>2
<1>14. \A k \in 1 .. N : k \in 1 .. L \/ k \in L + 1 .. N
  <2> HIDE DEF N
  <2> QED BY <1>1, <1>6 DEF L
<1>15. ASSUME NEW j \in 1 .. N, NEW k \in 1 .. N, new[j].project = new[k].project
       PROVE  j = k
  <2>1. ASSUME NEW a \in 1 .. L, NEW b \in L + 1 .. N PROVE new[a].project # new[b].project
    BY <1>5, <1>7, <1>10, <1>12
  <2>2. CASE j \in 1 .. L /\ k \in 1 .. L
    BY <1>3, <1>7, <1>15, <2>2
  <2>3. CASE j \in L + 1 .. N /\ k \in L + 1 .. N
    <3>1. route[place(j)].project = route[place(k)].project
      BY <1>12, <1>15, <2>3
    <3>2. place(j) \in 1 .. Len(route) /\ place(k) \in 1 .. Len(route)
      BY <1>1, <1>10, <2>3
    <3>3. place(j) = place(k)
      BY <1>2, <3>1, <3>2
    <3> QED BY <1>10, <2>3, <3>3
  <2> QED BY <1>14, <1>15, <2>1, <2>2, <2>3
<1>16. ASSUME NEW k \in 1 .. N PROVE Wanted(new, k) /\ IsFiniteSet(new[k].heard)
  <2>1. CASE k \in 1 .. L
    <3>1. Wanted(saved, k) /\ new[k] = saved[k] /\ IsFiniteSet(saved[k].heard)
      BY <1>3, <1>7, <2>1
    <3>2. saved[k].wants # None => saved[k].after \in 1 .. L
      BY <1>1, <3>1, <2>1 DEF Wanted, L
    <3> QED BY <1>7, <3>1, <3>2 DEF Wanted
  <2>2. CASE k \in L + 1 .. N
    <3> DEFINE n == place(k)
               a == route[n].after
               t == TargetIndex(saved, route, a)
    <3>1. /\ n \in F /\ n \in 1 .. Len(route) /\ a \in Nat /\ a < n
          /\ TargetIndex(saved, route, n) = k
      BY <1>1, <1>2, <1>10, <2>2
    <3>2. /\ new[k].wants = IF a = 0 THEN None ELSE route[a].project
          /\ new[k].after = SavedReference(saved, route, a) /\ new[k].heard = {}
      BY <1>12, <2>2
    <3> HIDE DEF n, a, t
    <3>3. CASE a = 0
      BY <3>2, <3>3, FS_EmptySet DEF Wanted, SavedReference
    <3>4. CASE a # 0
      <4>1. a \in 1 .. Len(route)
        BY <1>2, <3>1, <3>4
      <4>2. route[a].project \in Projects /\ route[a].project # None
        BY <1>2, <4>1, PmAssumption DEF PmAssumption
      <4>3. new[k].after = t /\ new[k].wants = route[a].project
        BY <3>2, <3>4 DEF SavedReference, t
      <4>4. t \in 1 .. k - 1 /\ new[t].project = route[a].project
        <5>1. CASE a \in F
          <6>1. t < k /\ t \in Nat /\ L < t /\ t <= N
            BY <1>1, <3>1, <5>1 DEF t
          <6>2. t \in L + 1 .. N
            BY <1>1, <1>6, <6>1 DEF L
          <6>3. place(t) = a
            BY <1>10, <1>11, <5>1, <6>2 DEF t
          <6> QED BY <1>12, <6>1, <6>2, <6>3, <1>1
        <5>2. CASE a \notin F
          <6>1. t \in 1 .. L /\ saved[t].project = route[a].project
            BY <1>8, <1>9, <4>1, <5>2 DEF t
          <6>2. t \in 1 .. k - 1
            BY <1>1, <6>1, <2>2, <1>6 DEF L
          <6> QED BY <1>7, <6>1, <6>2
        <5> QED BY <5>1, <5>2
      <4> QED BY <3>2, <4>2, <4>3, <4>4, FS_EmptySet DEF Wanted
    <3> QED BY <3>3, <3>4
  <2> QED BY <1>14, <2>1, <2>2
<1>17. TargetsOK(new)
  BY <1>13, <1>15, <1>16 DEF TargetsOK
<1>18. TargetsGrow(saved, new)
  <2>1. L <= Len(new)
    BY <1>6, <1>13
  <2> QED BY <1>7, <2>1 DEF TargetsGrow, L
<1> QED BY <1>17, <1>18 DEF new

FileOK(file) ==
    /\ file \in Seq(RecordType)
    /\ \A id \in 1 .. Len(file) : TargetsOK(file[id].targets)

FileGrows(old, new) ==
    /\ Len(old) <= Len(new)
    /\ \A id \in 1 .. Len(old) : TargetsGrow(old[id].targets, new[id].targets)

LEMMA Reflexive ==
    ASSUME NEW file, FileOK(file)
    PROVE  FileGrows(file, file)
<1>1. Len(file) \in Nat
  BY LenProperties DEF FileOK
<1>2. \A id \in 1 .. Len(file) : Len(file[id].targets) \in Nat
  BY LenProperties DEF FileOK, TargetsOK
<1> QED BY <1>1, <1>2 DEF FileGrows, TargetsGrow

LEMMA Transitive ==
    ASSUME NEW f, FileOK(f), NEW g, FileOK(g), NEW h, FileOK(h), FileGrows(f, g), FileGrows(g, h)
    PROVE  FileGrows(f, h)
<1>1. Len(f) \in Nat /\ Len(g) \in Nat /\ Len(h) \in Nat
  BY LenProperties DEF FileOK
<1>2. ASSUME NEW id \in 1 .. Len(f) PROVE TargetsGrow(f[id].targets, h[id].targets)
  <2>1. id \in 1 .. Len(g) /\ id \in 1 .. Len(h)
    BY <1>1 DEF FileGrows
  <2>2. /\ Len(f[id].targets) \in Nat /\ Len(g[id].targets) \in Nat /\ Len(h[id].targets) \in Nat
    BY <2>1, LenProperties DEF FileOK, TargetsOK
  <2>3. TargetsGrow(f[id].targets, g[id].targets) /\ TargetsGrow(g[id].targets, h[id].targets)
    BY <2>1 DEF FileGrows
  <2>4. \A n \in 1 .. Len(f[id].targets) : n \in 1 .. Len(g[id].targets)
    BY <2>2, <2>3 DEF TargetsGrow
  <2>5. Len(f[id].targets) <= Len(h[id].targets)
    BY <2>2, <2>3 DEF TargetsGrow
  <2>6. \A n \in 1 .. Len(f[id].targets) :
           /\ h[id].targets[n].project = f[id].targets[n].project
           /\ f[id].targets[n].heard \subseteq h[id].targets[n].heard
    BY <2>3, <2>4 DEF TargetsGrow
  <2> QED BY <2>5, <2>6 DEF TargetsGrow
<1> QED BY <1>1, <1>2 DEF FileGrows

(* One record of the file is replaced. *)
LEMMA RecordChange ==
    ASSUME NEW file, FileOK(file), NEW id \in 1 .. Len(file), NEW r \in RecordType,
           TargetsOK(r.targets), TargetsGrow(file[id].targets, r.targets)
    PROVE  LET new == [file EXCEPT ![id] = r]
           IN  /\ FileOK(new) /\ FileGrows(file, new) /\ Len(new) = Len(file) /\ new[id] = r
<1> DEFINE new == [file EXCEPT ![id] = r]
<1>1. file \in Seq(RecordType)
  BY DEF FileOK
<1>2. /\ new \in Seq(RecordType) /\ Len(new) = Len(file)
      /\ \A j \in 1 .. Len(file) : new[j] = IF j = id THEN r ELSE file[j]
  BY <1>1, ExceptSeq
<1> HIDE DEF new
<1>3. FileOK(new)
  BY <1>2 DEF FileOK
<1>4. FileGrows(file, file)
  BY Reflexive
<1>5. FileGrows(file, new)
  BY <1>2, <1>4 DEF FileGrows
<1> QED BY <1>2, <1>3, <1>5 DEF new

LEMMA RecordFacts ==
    ASSUME NEW file, FileOK(file), NEW id \in 1 .. Len(file)
    PROVE  /\ file[id] \in RecordType /\ TargetsOK(file[id].targets)
           /\ file[id].targets \in Seq(TargetType)
           /\ Len(file[id].targets) \in Nat /\ DOMAIN file[id].targets = 1 .. Len(file[id].targets)
           /\ \A n \in 1 .. Len(file[id].targets) :
                 file[id].targets[n] \in TargetType /\ IsFiniteSet(file[id].targets[n].heard)
           /\ TargetsGrow(file[id].targets, file[id].targets)
<1>1. file[id] \in RecordType /\ TargetsOK(file[id].targets)
  BY ElementOfSeq DEF FileOK
<1>2. file[id].targets \in Seq(TargetType)
  BY <1>1 DEF TargetsOK
<1>3. Len(file[id].targets) \in Nat /\ DOMAIN file[id].targets = 1 .. Len(file[id].targets)
  BY <1>2, LenProperties
<1>4. \A n \in 1 .. Len(file[id].targets) : file[id].targets[n] \in TargetType
  BY <1>2, ElementOfSeq
<1>5. \A n \in 1 .. Len(file[id].targets) : IsFiniteSet(file[id].targets[n].heard)
  BY <1>1 DEF TargetsOK
<1> QED BY <1>1, <1>2, <1>3, <1>4, <1>5 DEF TargetsGrow

(* One target gets its ref, or an answer. *)
LEMMA TargetChange ==
    ASSUME NEW ts, TargetsOK(ts), NEW n \in 1 .. Len(ts), NEW t \in TargetType,
           t.project = ts[n].project, t.after = ts[n].after, t.wants = ts[n].wants,
           ts[n].heard \subseteq t.heard, IsFiniteSet(t.heard)
    PROVE  LET new == [ts EXCEPT ![n] = t]
           IN  /\ TargetsOK(new) /\ TargetsGrow(ts, new) /\ new \in Seq(TargetType)
               /\ new[n] = t /\ n \in 1 .. Len(new)
<1> DEFINE new == [ts EXCEPT ![n] = t]
<1>1. ts \in Seq(TargetType)
  BY DEF TargetsOK
<1>2. /\ new \in Seq(TargetType) /\ Len(new) = Len(ts)
      /\ \A j \in 1 .. Len(ts) : new[j] = IF j = n THEN t ELSE ts[j]
  BY <1>1, ExceptSeq
<1>3. Len(ts) \in Nat
  BY <1>1, LenProperties
<1> HIDE DEF new
<1>4. \A j \in 1 .. Len(ts) : /\ new[j].project = ts[j].project /\ new[j].after = ts[j].after
                              /\ new[j].wants = ts[j].wants /\ ts[j].heard \subseteq new[j].heard
                              /\ IsFiniteSet(new[j].heard)
  BY <1>2 DEF TargetsOK
<1>5. ASSUME NEW j \in 1 .. Len(ts) PROVE Wanted(new, j)
  <2>1. Wanted(ts, j)
    BY DEF TargetsOK
  <2>2. ts[j].after \in 1 .. j - 1 => ts[j].after \in 1 .. Len(ts)
    BY <1>3
  <2> QED BY <1>4, <2>1, <2>2 DEF Wanted
<1>6. TargetsOK(new)
  <2>1. \A j, k \in 1 .. Len(ts) : new[j].project = new[k].project => j = k
    BY <1>4 DEF TargetsOK
  <2> QED BY <1>2, <1>4, <1>5, <2>1 DEF TargetsOK
<1>7. TargetsGrow(ts, new)
  BY <1>2, <1>3, <1>4 DEF TargetsGrow
<1> QED BY <1>2, <1>6, <1>7 DEF new

LEMMA NewRecordAppended ==
    ASSUME NEW file, FileOK(file), NEW text \in Texts
    PROVE  LET new == Append(file, NewRecord(text))
           IN  FileOK(new) /\ FileGrows(file, new) /\ Len(file) + 1 \in 1 .. Len(new)
<1> DEFINE r == NewRecord(text)
           new == Append(file, r)
<1>1. r \in RecordType /\ r.targets = <<>> /\ TargetsOK(r.targets)
  BY DEF NewRecord, RecordType, TargetsOK
<1>2. file \in Seq(RecordType)
  BY DEF FileOK
<1> HIDE DEF r
<1>3. /\ new \in Seq(RecordType) /\ Len(new) = Len(file) + 1 /\ Len(file) \in Nat
      /\ \A j \in 1 .. Len(file) : new[j] = file[j]
      /\ new[Len(file) + 1] = r
  BY <1>1, <1>2, AppendProperties, LenProperties
<1> HIDE DEF new
<1>4. FileOK(new)
  <2> SUFFICES ASSUME NEW j \in 1 .. Len(new) PROVE TargetsOK(new[j].targets)
    BY <1>3 DEF FileOK
  <2>1. j \in 1 .. Len(file) \/ j = Len(file) + 1
    BY <1>3
  <2> QED BY <1>1, <1>3, <2>1 DEF FileOK
<1>5. FileGrows(file, file)
  BY Reflexive
<1>6. FileGrows(file, new)
  BY <1>3, <1>5 DEF FileGrows
<1> QED BY <1>3, <1>4, <1>6 DEF new, r

-----------------------------------------------------------------------------
(* The inductive invariant, whatever the number of commands *)

Origins == [request : Nat, index : Nat, amends : Nat \cup {None}, round : Nat, commit : Nat]

Wordings == [text : Texts, heard : SUBSET Refs,
             after : (Projects \X (Nat \cup {None})) \cup {None}]

Proposals == [origin : Origins, text : Wordings, status : {"pending", "decided"}]

Working == [at : {"idle", "router", "send", "amend", "discard", "link"}, file : Seq(RecordType),
            id : Nat, index : Nat, answers : Refs \cup {None}]

WorkOK(w) ==
    /\ w \in Working /\ FileOK(w.file)
    /\ w.at # "idle" => w.id \in 1 .. Len(w.file)
    /\ w.at = "amend" =>
          /\ w.answers \in Refs
          /\ w.index \in 1 .. Len(w.file[w.id].targets)
          /\ w.file[w.id].targets[w.index].ref \in Nat
    /\ w.at = "link" => w.index \in 1 .. Len(w.file[w.id].targets)

PmTyped ==
    /\ FileOK(pmFile)
    /\ inboxes \in [Projects -> Seq(Proposals)]
    /\ questions \subseteq Refs /\ asked \subseteq Refs /\ head \in Nat
    /\ pm \in [Commands -> Working]
    /\ \A c \in Commands : WorkOK(pm[c])

(* With one command at a time, too. *)
OneCommand == \A c, d \in Commands : c = d

(* What the origin of a proposal says of the state file. *)
OriginOK(origin, project, file) ==
    IF origin.amends = None
    THEN /\ origin.request \in 1 .. Len(file)
         /\ origin.index \in 1 .. Len(file[origin.request].targets)
         /\ file[origin.request].targets[origin.index].project = project
    ELSE origin.index = 0

InboxOK(inbox, project, file) ==
    /\ \A p, q \in Undecided(inbox) : inbox[p].origin = inbox[q].origin => p = q
    /\ \A p \in 1 .. Len(inbox) : OriginOK(inbox[p].origin, project, file)

Answered(question, file) ==
    \E id \in 1 .. Len(file) : \E n \in 1 .. Len(file[id].targets) :
        question \in file[id].targets[n].heard

CopyOK(w, file) ==
    /\ w.at = "router" => FileGrows(file, w.file)
    /\ w.at \in {"send", "amend", "link"} => w.file = file
    /\ w.at = "discard" => Answered(w.answers, file)

PmSolo ==
    /\ \A c \in Commands : CopyOK(pm[c], pmFile)
    /\ \A project \in Projects : InboxOK(inboxes[project], project, pmFile)
    /\ \A question \in asked \ questions : Answered(question, pmFile)

PmIInv == PmTyped /\ (OneCommand => PmSolo)

LEMMA AtRestOK == WorkOK(AtRest)
<1>1. FileOK(<<>>)
  BY DEF FileOK
<1> QED BY <1>1 DEF WorkOK, AtRest, Working, FileOK

LEMMA PmStarts == PmInit => PmIInv
<1> SUFFICES ASSUME PmInit PROVE PmIInv
  OBVIOUS
<1>1. FileOK(<<>>)
  BY DEF FileOK
<1>2. PmTyped
  <2>1. pm \in [Commands -> Working] /\ \A c \in Commands : WorkOK(pm[c])
    BY AtRestOK DEF PmInit, WorkOK
  <2> QED BY <1>1, <2>1 DEF PmInit, PmTyped
<1>3. PmSolo
  <2>1. \A project \in Projects : inboxes[project] = <<>>
    BY DEF PmInit
  <2>2. Undecided(<<>>) = {}
    BY DEF Undecided
  <2>3. \A project \in Projects : InboxOK(inboxes[project], project, pmFile)
    BY <2>1, <2>2 DEF InboxOK
  <2>4. \A c \in Commands : CopyOK(pm[c], pmFile)
    BY DEF PmInit, CopyOK, AtRest
  <2> QED BY <2>3, <2>4 DEF PmInit, PmSolo
<1> QED BY <1>2, <1>3 DEF PmIInv

(* What a longer file still says. *)
LEMMA GrowsKeeps ==
    ASSUME NEW f, FileOK(f), NEW g, FileOK(g), FileGrows(f, g)
    PROVE  /\ \A project, inbox : InboxOK(inbox, project, f) => InboxOK(inbox, project, g)
           /\ \A project, origin : OriginOK(origin, project, f) => OriginOK(origin, project, g)
           /\ \A question : Answered(question, f) => Answered(question, g)
<1>1. Len(f) \in Nat /\ Len(g) \in Nat /\ \A id \in 1 .. Len(f) : id \in 1 .. Len(g)
  <2>1. Len(f) \in Nat /\ Len(g) \in Nat
    BY LenProperties DEF FileOK
  <2> QED BY <2>1 DEF FileGrows
<1>2. ASSUME NEW id \in 1 .. Len(f), NEW n \in 1 .. Len(f[id].targets)
      PROVE  /\ n \in 1 .. Len(g[id].targets)
             /\ g[id].targets[n].project = f[id].targets[n].project
             /\ f[id].targets[n].heard \subseteq g[id].targets[n].heard
  <2>1. TargetsGrow(f[id].targets, g[id].targets)
    BY DEF FileGrows
  <2>2. Len(f[id].targets) \in Nat /\ Len(g[id].targets) \in Nat
    BY <1>1, RecordFacts
  <2> QED BY <2>1, <2>2 DEF TargetsGrow
<1>3. \A project, origin : OriginOK(origin, project, f) => OriginOK(origin, project, g)
  BY <1>1, <1>2 DEF OriginOK
<1>4. \A question : Answered(question, f) => Answered(question, g)
  BY <1>1, <1>2 DEF Answered
<1>5. \A project, inbox : InboxOK(inbox, project, f) => InboxOK(inbox, project, g)
  BY <1>3 DEF InboxOK
<1> QED BY <1>3, <1>4, <1>5

(* One pending proposal of an origin, whoever asks for it again.              *)
LEMMA WithProposalOK ==
    ASSUME NEW inbox \in Seq(Proposals), NEW project, NEW file,
           NEW origin \in Origins, NEW text \in Wordings
    PROVE  LET proposal == NewProposal(origin, text)
               new == WithProposal(inbox, proposal)
           IN  /\ new \in Seq(Proposals) /\ ReturnedId(inbox, proposal) \in Nat
               /\ InboxOK(inbox, project, file) /\ OriginOK(origin, project, file) =>
                     InboxOK(new, project, file)
<1> DEFINE proposal == NewProposal(origin, text)
           new == WithProposal(inbox, proposal)
           P == PendingOf(inbox, proposal.origin)
<1>1. /\ proposal \in Proposals /\ proposal.origin = origin /\ proposal.status = "pending"
  BY DEF NewProposal, Proposals
<1>2. Len(inbox) \in Nat /\ DOMAIN inbox = 1 .. Len(inbox)
  BY LenProperties
<1>3. P \subseteq Nat /\ P = {p \in Undecided(inbox) : inbox[p].origin = origin}
  BY <1>1, <1>2 DEF PendingOf, Undecided
<1>4. ReturnedId(inbox, proposal) \in Nat
  <2>1. P # {} => Min(P) \in P
    BY <1>3, MinInside
  <2> HIDE DEF P
  <2>2. ReturnedId(inbox, proposal) = IF P = {} THEN Len(inbox) + 1 ELSE Min(P)
    BY DEF ReturnedId, P
  <2> QED BY <1>2, <1>3, <2>1, <2>2
<1>5. CASE P # {}
  <2>1. new = inbox
    BY <1>5 DEF WithProposal
  <2> QED BY <1>4, <2>1
<1>6. CASE P = {}
  <2>1. new = Append(inbox, proposal)
    BY <1>6 DEF WithProposal
  <2> HIDE DEF new, proposal, P
  <2>2. /\ new \in Seq(Proposals) /\ Len(new) = Len(inbox) + 1
        /\ DOMAIN new = 1 .. Len(inbox) + 1
        /\ \A p \in 1 .. Len(inbox) : new[p] = inbox[p]
        /\ new[Len(inbox) + 1] = proposal
    BY <1>1, <2>1, AppendProperties, LenProperties
  <2>3. /\ \A p \in Undecided(new) : p \in Undecided(inbox) \/ p = Len(inbox) + 1
        /\ \A p \in Undecided(inbox) : p \in 1 .. Len(inbox)
    <3>1. \A p \in 1 .. Len(inbox) + 1 : p \in 1 .. Len(inbox) \/ p = Len(inbox) + 1
      BY <1>2
    <3> QED BY <1>2, <2>2, <3>1 DEF Undecided
  <2>4. \A p \in Undecided(inbox) : inbox[p].origin # origin
    BY <1>3, <1>6
  <2>5. ASSUME InboxOK(inbox, project, file), OriginOK(origin, project, file)
        PROVE  InboxOK(new, project, file)
    <3>1. \A p, q \in Undecided(new) : new[p].origin = new[q].origin => p = q
      BY <1>1, <2>2, <2>3, <2>4, <2>5 DEF InboxOK
    <3>2. \A p \in 1 .. Len(new) : p \in 1 .. Len(inbox) \/ p = Len(inbox) + 1
      BY <1>2, <2>2
    <3>3. \A p \in 1 .. Len(new) : OriginOK(new[p].origin, project, file)
      BY <1>1, <2>2, <2>5, <3>2 DEF InboxOK
    <3> QED BY <3>1, <3>3 DEF InboxOK
  <2> QED BY <1>4, <2>2, <2>5 DEF new, proposal
<1> QED BY <1>5, <1>6

(* What a step keeps: the invariant and, with one command, every record and   *)
(* every target that the state file has held.                               *)
PmKept == PmIInv' /\ (OneCommand => FileGrows(pmFile, pmFile'))

(* A step of a command.  Whatever it writes, its next copy is sound; and with *)
(* one command the file only grows.                                         *)
LEMMA CommandKeeps ==
    ASSUME PmIInv, NEW c \in Commands, NEW w, WorkOK(w), pm' = [pm EXCEPT ![c] = w],
           FileOK(pmFile'), inboxes' \in [Projects -> Seq(Proposals)],
           questions' \subseteq questions, UNCHANGED <<asked, head>>,
           OneCommand /\ PmSolo =>
              /\ FileGrows(pmFile, pmFile') /\ CopyOK(w, pmFile')
              /\ \A project \in Projects :
                    InboxOK(inboxes[project], project, pmFile') =>
                       InboxOK(inboxes'[project], project, pmFile')
              /\ \A question \in questions \ questions' : Answered(question, pmFile')
    PROVE  PmKept
<1>1. w \in Working /\ PmTyped
  BY DEF WorkOK, PmIInv
<1>2. /\ pm' \in [Commands -> Working] /\ pm'[c] = w
      /\ \A d \in Commands : d # c => pm'[d] = pm[d]
  BY <1>1 DEF PmTyped
<1>3. PmTyped'
  BY <1>1, <1>2 DEF PmTyped
<1>4. ASSUME OneCommand PROVE PmSolo'
  <2>1. PmSolo
    BY <1>4 DEF PmIInv
  <2>2. FileGrows(pmFile, pmFile') /\ FileOK(pmFile)
    BY <1>1, <1>4, <2>1 DEF PmTyped
  <2>3. \A d \in Commands : CopyOK(pm'[d], pmFile')
    BY <1>2, <1>4, <2>1 DEF OneCommand
  <2>4. \A project \in Projects : InboxOK(inboxes'[project], project, pmFile')
    BY <1>4, <2>1, <2>2, GrowsKeeps DEF PmSolo
  <2>5. \A question \in asked' \ questions' : Answered(question, pmFile')
    BY <1>4, <2>1, <2>2, GrowsKeeps DEF PmSolo
  <2> QED BY <2>3, <2>4, <2>5 DEF PmSolo
<1>5. OneCommand => FileGrows(pmFile, pmFile')
  BY DEF PmIInv
<1> QED BY <1>3, <1>4, <1>5 DEF PmKept, PmIInv, OneCommand

-----------------------------------------------------------------------------
(* The steps *)

LEMMA HeldOK ==
    ASSUME NEW file, FileOK(file), NEW id \in 1 .. Len(file), NEW there \in {"router", "send"}
    PROVE  LET w == [AtRest EXCEPT !.at = there, !.file = file, !.id = id, !.index = 0]
           IN  WorkOK(w) /\ w.at = there /\ w.file = file
<1>1. file \in Seq(RecordType) /\ id \in Nat
  <2>1. Len(file) \in Nat
    BY LenProperties DEF FileOK
  <2> QED BY <2>1 DEF FileOK
<1> DEFINE w == [AtRest EXCEPT !.at = there, !.file = file, !.id = id, !.index = 0]
<1>2. AtRest \in Working
  BY AtRestOK DEF WorkOK
<1>3. w \in Working /\ w.at = there /\ w.file = file /\ w.id = id
  BY <1>1, <1>2 DEF Working
<1> HIDE DEF w
<1>4. WorkOK(w)
  BY <1>3 DEF WorkOK
<1> QED BY <1>3, <1>4 DEF w

LEMMA EndsKeeps ==
    ASSUME PmIInv, NEW c \in Commands, Ends(c), UNCHANGED <<pmFile, inboxes, asked, head>>,
           questions' \subseteq questions,
           OneCommand /\ PmSolo => \A q \in questions \ questions' : Answered(q, pmFile)
    PROVE  PmKept
<1>1. FileOK(pmFile) /\ inboxes \in [Projects -> Seq(Proposals)] /\ FileGrows(pmFile, pmFile)
  BY Reflexive DEF PmIInv, PmTyped
<1>2. CopyOK(AtRest, pmFile)
  BY DEF CopyOK, AtRest
<1> QED BY <1>1, <1>2, AtRestOK, CommandKeeps DEF Ends

LEMMA AskKeeps ==
    ASSUME PmIInv, NEW c \in Commands, NEW text \in Texts, Ask(c, text)
    PROVE  PmKept
<1>1. FileOK(pmFile) /\ inboxes \in [Projects -> Seq(Proposals)] /\ FileGrows(pmFile, pmFile)
  BY Reflexive DEF PmIInv, PmTyped
<1>2. UNCHANGED <<pmFile, inboxes, questions, head, asked>>
  BY DEF Ask
<1>3. ASSUME NEW file, FileOK(file), FileGrows(pmFile, file), NEW id \in 1 .. Len(file),
             Holds(c, "router", file, id, 0)
      PROVE  PmKept
  <2> DEFINE w == [AtRest EXCEPT !.at = "router", !.file = file, !.id = id, !.index = 0]
  <2>1. WorkOK(w) /\ w.at = "router" /\ w.file = file /\ pm' = [pm EXCEPT ![c] = w]
    BY <1>3, HeldOK DEF Holds
  <2> HIDE DEF w
  <2>2. CopyOK(w, pmFile)
    BY <1>3, <2>1 DEF CopyOK
  <2> QED BY <1>1, <1>2, <2>1, <2>2, CommandKeeps
<1>4. CASE Found(pmFile, text) # {} /\ Holds(c, "router", pmFile, Min(Found(pmFile, text)), 0)
  <2>1. Len(pmFile) \in Nat /\ DOMAIN pmFile = 1 .. Len(pmFile)
    BY <1>1, LenProperties DEF FileOK
  <2>2. Found(pmFile, text) \subseteq Nat /\ Found(pmFile, text) \subseteq 1 .. Len(pmFile)
    BY <2>1 DEF Found
  <2>3. Min(Found(pmFile, text)) \in 1 .. Len(pmFile)
    BY <1>4, <2>2, MinInside
  <2> QED BY <1>1, <1>3, <1>4, <2>3
<1>5. CASE Holds(c, "router", Append(pmFile, NewRecord(text)), Len(pmFile) + 1, 0)
  BY <1>1, <1>3, <1>5, NewRecordAppended
<1> QED BY <1>4, <1>5 DEF Ask

(* A record is written into the file, and the command ends or sends.          *)
LEMMA SavesKeeps ==
    ASSUME PmIInv, NEW c \in Commands, pm[c].at \in {"router", "send", "link"},
           NEW r \in RecordType, TargetsOK(r.targets), TargetsGrow(Record(c).targets, r.targets),
           NEW there \in {"idle", "send"}, Saves(c, r, there),
           inboxes' \in [Projects -> Seq(Proposals)], UNCHANGED <<questions, asked, head>>,
           OneCommand /\ PmSolo =>
              \A project \in Projects :
                 InboxOK(inboxes[project], project, pmFile') =>
                    InboxOK(inboxes'[project], project, pmFile')
    PROVE  PmKept
<1> DEFINE file == [pm[c].file EXCEPT ![pm[c].id] = r]
<1>1. WorkOK(pm[c]) /\ FileOK(pmFile) /\ FileOK(pm[c].file) /\ pm[c].id \in 1 .. Len(pm[c].file)
  BY DEF PmIInv, PmTyped, WorkOK
<1>2. FileOK(file) /\ FileGrows(pm[c].file, file) /\ pm[c].id \in 1 .. Len(file)
  BY <1>1, RecordChange DEF Record
<1>3. pmFile' = file
  BY DEF Saves
<1>4. OneCommand /\ PmSolo => FileGrows(pmFile, file)
  <2>1. ASSUME PmSolo PROVE FileGrows(pmFile, pm[c].file)
    BY <1>1, <2>1, Reflexive DEF PmSolo, CopyOK
  <2> QED BY <1>1, <1>2, <2>1, Transitive
<1>5. CASE there = "idle"
  <2>1. pm' = [pm EXCEPT ![c] = AtRest]
    BY <1>5 DEF Saves, Ends
  <2>2. CopyOK(AtRest, file)
    BY DEF CopyOK, AtRest
  <2> HIDE DEF file
  <2> QED BY <1>2, <1>3, <1>4, <2>1, <2>2, AtRestOK, CommandKeeps
<1>6. CASE there = "send"
  <2> DEFINE w == [AtRest EXCEPT !.at = "send", !.file = file, !.id = pm[c].id, !.index = 0]
  <2>1. pm' = [pm EXCEPT ![c] = w]
    BY <1>6 DEF Saves, Holds
  <2> HIDE DEF file
  <2>2. WorkOK(w) /\ w.at = "send" /\ w.file = file
    BY <1>2, HeldOK
  <2> HIDE DEF w
  <2>3. CopyOK(w, file)
    BY <2>2 DEF CopyOK
  <2> QED BY <1>2, <1>3, <1>4, <2>1, <2>2, <2>3, CommandKeeps
<1> QED BY <1>5, <1>6

LEMMA AnswerKeeps ==
    ASSUME PmIInv, NEW c \in Commands, NEW id \in DOMAIN pmFile, Answer(c, id)
    PROVE  PmKept
<1> DEFINE r == [pmFile[id] EXCEPT !.question = FALSE, !.rounds = pmFile[id].rounds + 1]
           file == [pmFile EXCEPT ![id] = r]
<1>1. FileOK(pmFile) /\ inboxes \in [Projects -> Seq(Proposals)] /\ id \in 1 .. Len(pmFile)
  BY LenProperties DEF PmIInv, PmTyped, FileOK
<1>2. /\ pmFile[id] \in RecordType /\ TargetsOK(pmFile[id].targets)
      /\ TargetsGrow(pmFile[id].targets, pmFile[id].targets)
  BY <1>1, RecordFacts
<1>3. r \in RecordType /\ r.targets = pmFile[id].targets
  <2> DEFINE n == pmFile[id].rounds + 1
  <2>1. n \in Nat
    <3> HIDE DEF r, file
    <3>1. pmFile[id].rounds \in Nat
      BY <1>2 DEF RecordType
    <3> QED BY <3>1
  <2> HIDE DEF n
  <2>2. r = [pmFile[id] EXCEPT !.question = FALSE, !.rounds = n]
    BY DEF n
  <2>3. [pmFile[id] EXCEPT !.question = FALSE, !.rounds = n] \in RecordType
    BY <1>2, <2>1 DEF RecordType
  <2>4. [pmFile[id] EXCEPT !.question = FALSE, !.rounds = n].targets = pmFile[id].targets
    BY <1>2 DEF RecordType
  <2> QED BY <2>2, <2>3, <2>4
<1>4. [pmFile EXCEPT ![id].question = FALSE, ![id].rounds = @ + 1] = file
  <2>1. DOMAIN pmFile = 1 .. Len(pmFile) /\ DOMAIN file = DOMAIN pmFile
    BY <1>1, LenProperties DEF FileOK
  <2> QED BY <1>1, <1>2, <2>1 DEF RecordType
<1>5. pmFile' = file /\ Holds(c, "router", file, id, 0)
      /\ UNCHANGED <<inboxes, questions, head, asked>>
  BY <1>4 DEF Answer
<1> HIDE DEF r
<1>6. FileOK(file) /\ FileGrows(pmFile, file) /\ id \in 1 .. Len(file)
  BY <1>1, <1>2, <1>3, RecordChange
<1> HIDE DEF file
<1> DEFINE w == [AtRest EXCEPT !.at = "router", !.file = file, !.id = id, !.index = 0]
<1>7. WorkOK(w) /\ w.at = "router" /\ w.file = file /\ pm' = [pm EXCEPT ![c] = w]
  BY <1>5, <1>6, HeldOK DEF Holds
<1> HIDE DEF w
<1>8. CopyOK(w, file)
  BY <1>6, <1>7, Reflexive DEF CopyOK
<1> QED BY <1>1, <1>5, <1>6, <1>7, <1>8, CommandKeeps

LEMMA RouterKeeps ==
    ASSUME PmIInv, NEW c \in Commands,
           RouterClarifies(c) \/ RouterRejects(c) \/ \E route \in Routes : RouterRoutes(c, route)
    PROVE  PmKept
<1>1. /\ pm[c].at = "router" /\ UNCHANGED <<inboxes, questions, head, asked>>
  BY DEF RouterClarifies, RouterRejects, RouterRoutes
<1>2. inboxes \in [Projects -> Seq(Proposals)]
  BY DEF PmIInv, PmTyped
<1>3. FileOK(pm[c].file) /\ pm[c].id \in 1 .. Len(pm[c].file)
  BY <1>1 DEF PmIInv, PmTyped, WorkOK
<1>4. /\ Record(c) \in RecordType /\ TargetsOK(Record(c).targets)
      /\ TargetsGrow(Record(c).targets, Record(c).targets)
  BY <1>3, RecordFacts DEF Record
<1>5. CASE RouterClarifies(c) \/ RouterRejects(c)
  <2>1. PICK decision \in {"reject", "clarify"}, question \in BOOLEAN :
           Saves(c, [Record(c) EXCEPT !.decision = decision, !.question = question], "idle")
    BY <1>5 DEF RouterClarifies, RouterRejects
  <2> DEFINE r == [Record(c) EXCEPT !.decision = decision, !.question = question]
  <2>2. r \in RecordType /\ r.targets = Record(c).targets
    BY <1>4 DEF RecordType
  <2>3. Saves(c, r, "idle")
    BY <2>1
  <2> HIDE DEF r
  <2> QED BY <1>1, <1>2, <1>4, <2>2, <2>3, SavesKeeps
<1>6. ASSUME NEW route \in Routes, RouterRoutes(c, route) PROVE PmKept
  <2> DEFINE ts == Merged(Record(c).targets, route)
             r == [Record(c) EXCEPT !.decision = "route", !.question = FALSE, !.targets = ts]
  <2>1. TargetsOK(ts) /\ TargetsGrow(Record(c).targets, ts)
    BY <1>4, MergedFacts
  <2>2. Saves(c, r, "send")
    BY <1>6 DEF RouterRoutes
  <2> HIDE DEF ts
  <2>3. r \in RecordType /\ r.targets = ts
    BY <1>4, <2>1 DEF RecordType, TargetsOK
  <2> HIDE DEF r
  <2> QED BY <1>1, <1>2, <1>4, <2>1, <2>2, <2>3, SavesKeeps
<1> QED BY <1>5, <1>6

LEMMA InboxSent ==
    ASSUME PmIInv, NEW origin \in Origins, NEW text \in Wordings, NEW project \in Projects,
           inboxes' = [inboxes EXCEPT ![project] = WithProposal(@, NewProposal(origin, text))]
    PROVE  /\ inboxes' \in [Projects -> Seq(Proposals)]
           /\ ReturnedId(inboxes[project], NewProposal(origin, text)) \in Nat
           /\ \A file : OriginOK(origin, project, file) =>
                 \A other \in Projects : InboxOK(inboxes[other], other, file) =>
                                            InboxOK(inboxes'[other], other, file)
<1> DEFINE new == WithProposal(inboxes[project], NewProposal(origin, text))
<1>1. inboxes \in [Projects -> Seq(Proposals)] /\ inboxes[project] \in Seq(Proposals)
  BY DEF PmIInv, PmTyped
<1>2. /\ new \in Seq(Proposals)
      /\ ReturnedId(inboxes[project], NewProposal(origin, text)) \in Nat
      /\ \A file : InboxOK(inboxes[project], project, file) /\ OriginOK(origin, project, file) =>
            InboxOK(new, project, file)
  BY <1>1, WithProposalOK
<1> HIDE DEF new
<1>3. inboxes' = [inboxes EXCEPT ![project] = new]
  BY DEF new
<1> QED BY <1>1, <1>2, <1>3

LEMMA WordingType ==
    ASSUME NEW c \in Commands, Record(c) \in RecordType, TargetsOK(Record(c).targets),
           NEW n \in 1 .. Len(Record(c).targets), NEW heard \in SUBSET Refs
    PROVE  Wording(c, Record(c).targets[n], heard) \in Wordings
<1> DEFINE ts == Record(c).targets
           after == IF ts[n].after = 0 THEN None
                    ELSE <<ts[ts[n].after].project, ts[ts[n].after].ref>>
<1>1. ts \in Seq(TargetType) /\ Len(ts) \in Nat /\ Wanted(ts, n) /\ Record(c).text \in Texts
  BY LenProperties DEF TargetsOK, RecordType
<1> HIDE DEF ts
<1>2. ts[n] \in TargetType /\ n \in Nat
  BY <1>1, ElementOfSeq DEF ts
<1>3. ts[n].after # 0 => ts[n].after \in 1 .. Len(ts)
  BY <1>1, <1>2 DEF Wanted, ts
<1>4. after \in (Projects \X (Nat \cup {None})) \cup {None}
  <2>1. CASE ts[n].after # 0
    <3>1. ts[ts[n].after] \in TargetType
      BY <1>1, <1>3, <2>1, ElementOfSeq
    <3> QED BY <2>1, <3>1 DEF TargetType
  <2> QED BY <2>1
<1>5. Wording(c, ts[n], heard) = [text |-> Record(c).text, heard |-> heard, after |-> after]
  BY DEF Wording, ts
<1> HIDE DEF after
<1>6. Wording(c, ts[n], heard) \in Wordings
  BY <1>1, <1>4, <1>5 DEF Wordings
<1> QED BY <1>6 DEF ts

(* What a command at work holds. *)
LEMMA AtWork ==
    ASSUME PmIInv, NEW c \in Commands, pm[c].at # "idle"
    PROVE  /\ FileOK(pmFile) /\ FileOK(pm[c].file) /\ pm[c].id \in 1 .. Len(pm[c].file)
           /\ pm[c] \in Working /\ WorkOK(pm[c]) /\ pm[c].id \in Nat /\ head \in Nat
           /\ Record(c) \in RecordType /\ TargetsOK(Record(c).targets)
           /\ Record(c).targets \in Seq(TargetType) /\ Len(Record(c).targets) \in Nat
           /\ DOMAIN Record(c).targets = 1 .. Len(Record(c).targets)
           /\ \A n \in 1 .. Len(Record(c).targets) :
                 Record(c).targets[n] \in TargetType /\ IsFiniteSet(Record(c).targets[n].heard)
           /\ TargetsGrow(Record(c).targets, Record(c).targets)
           /\ OneCommand /\ PmSolo /\ pm[c].at \in {"send", "amend", "link"} =>
                 pm[c].file = pmFile /\ FileGrows(pmFile, pmFile)
<1>1. /\ FileOK(pmFile) /\ FileOK(pm[c].file) /\ pm[c].id \in 1 .. Len(pm[c].file)
      /\ pm[c] \in Working /\ WorkOK(pm[c]) /\ head \in Nat
  BY DEF PmIInv, PmTyped, WorkOK
<1>2. pm[c].id \in Nat
  BY <1>1 DEF Working
<1>3. OneCommand /\ PmSolo /\ pm[c].at \in {"send", "amend", "link"} =>
         pm[c].file = pmFile /\ FileGrows(pmFile, pmFile)
  BY <1>1, Reflexive DEF PmSolo, CopyOK
<1> QED BY <1>1, <1>2, <1>3, RecordFacts DEF Record

LEMMA SendKeeps ==
    ASSUME PmIInv, NEW c \in Commands, NEW n \in DOMAIN Record(c).targets, Send(c, n)
    PROVE  PmKept
<1> DEFINE target == Record(c).targets[n]
           proposal == NewProposal(RoutedOrigin(c, n), Wording(c, target, {}))
           returned == ReturnedId(inboxes[target.project], proposal)
<1>1. pm[c].at = "send"
      /\ UNCHANGED <<questions, head, asked>>
      /\ inboxes' = [inboxes EXCEPT ![target.project] = WithProposal(@, proposal)]
      /\ \/ Saves(c, Record(c), "idle")
         \/ Saves(c, [Record(c) EXCEPT !.targets[n].ref = returned], "send")
         \/ Ends(c) /\ UNCHANGED pmFile
  BY DEF Send, Posts
<1>2. /\ FileOK(pmFile) /\ FileOK(pm[c].file) /\ pm[c].id \in 1 .. Len(pm[c].file)
      /\ pm[c].id \in Nat /\ head \in Nat
      /\ Record(c) \in RecordType /\ TargetsOK(Record(c).targets)
      /\ Record(c).targets \in Seq(TargetType) /\ Len(Record(c).targets) \in Nat
      /\ DOMAIN Record(c).targets = 1 .. Len(Record(c).targets)
      /\ \A k \in 1 .. Len(Record(c).targets) :
            Record(c).targets[k] \in TargetType /\ IsFiniteSet(Record(c).targets[k].heard)
      /\ TargetsGrow(Record(c).targets, Record(c).targets)
      /\ OneCommand /\ PmSolo => pm[c].file = pmFile /\ FileGrows(pmFile, pmFile)
  BY <1>1, AtWork
<1>3. n \in 1 .. Len(Record(c).targets) /\ n \in Nat
  BY <1>2
<1>4. /\ RoutedOrigin(c, n) \in Origins /\ RoutedOrigin(c, n).amends = None
      /\ RoutedOrigin(c, n).request = pm[c].id /\ RoutedOrigin(c, n).index = n
  BY <1>2, <1>3 DEF RoutedOrigin, Origins
<1>5. target \in TargetType /\ target.project \in Projects /\ IsFiniteSet(target.heard)
  <2>1. target \in TargetType /\ IsFiniteSet(target.heard)
    BY <1>2, <1>3
  <2> QED BY <2>1 DEF TargetType
<1>6. Wording(c, target, {}) \in Wordings
  BY <1>2, <1>3, WordingType
<1>7. /\ inboxes' \in [Projects -> Seq(Proposals)] /\ returned \in Nat
      /\ \A file : OriginOK(RoutedOrigin(c, n), target.project, file) =>
            \A other \in Projects : InboxOK(inboxes[other], other, file) =>
                                       InboxOK(inboxes'[other], other, file)
  BY <1>1, <1>4, <1>5, <1>6, InboxSent
<1>8. ASSUME OneCommand, PmSolo, NEW file, FileOK(file), FileGrows(pmFile, file)
      PROVE  \A other \in Projects : InboxOK(inboxes[other], other, file) =>
                                        InboxOK(inboxes'[other], other, file)
  <2>1. OriginOK(RoutedOrigin(c, n), target.project, pmFile)
    BY <1>2, <1>3, <1>4, <1>8 DEF OriginOK, Record
  <2>2. OriginOK(RoutedOrigin(c, n), target.project, file)
    BY <1>2, <1>8, <2>1, GrowsKeeps
  <2> QED BY <1>7, <2>2
<1> HIDE DEF target, returned, proposal
<1>9. ASSUME NEW r \in RecordType, TargetsOK(r.targets), TargetsGrow(Record(c).targets, r.targets),
             NEW there \in {"idle", "send"}, Saves(c, r, there)
      PROVE  PmKept
  <2> DEFINE file == [pm[c].file EXCEPT ![pm[c].id] = r]
  <2>1. FileOK(file) /\ FileGrows(pm[c].file, file) /\ pmFile' = file
    BY <1>2, <1>9, RecordChange DEF Saves, Record
  <2> HIDE DEF file
  <2>2. OneCommand /\ PmSolo =>
           \A other \in Projects : InboxOK(inboxes[other], other, pmFile') =>
                                      InboxOK(inboxes'[other], other, pmFile')
    BY <1>2, <1>8, <2>1
  <2> QED BY <1>1, <1>7, <1>9, <2>2, SavesKeeps
<1>10. CASE Saves(c, Record(c), "idle")
  BY <1>2, <1>9, <1>10
<1>11. CASE Saves(c, [Record(c) EXCEPT !.targets[n].ref = returned], "send")
  <2> DEFINE t == [target EXCEPT !.ref = returned]
             ts == [Record(c).targets EXCEPT ![n] = t]
             r == [Record(c) EXCEPT !.targets = ts]
  <2>1. /\ t \in TargetType /\ t.project = target.project /\ t.after = target.after
        /\ t.wants = target.wants /\ t.heard = target.heard
    BY <1>5, <1>7 DEF TargetType
  <2>2. r = [Record(c) EXCEPT !.targets[n].ref = returned]
    BY DEF target
  <2> HIDE DEF t
  <2>3. TargetsOK(ts) /\ TargetsGrow(Record(c).targets, ts) /\ ts \in Seq(TargetType)
    BY <1>2, <1>3, <1>5, <2>1, TargetChange DEF target
  <2> HIDE DEF ts
  <2>4. r \in RecordType /\ r.targets = ts
    BY <1>2, <2>3 DEF RecordType
  <2> HIDE DEF r
  <2> QED BY <1>9, <1>11, <2>2, <2>3, <2>4
<1>12. CASE Ends(c) /\ UNCHANGED pmFile
  <2>1. CopyOK(AtRest, pmFile)
    BY DEF CopyOK, AtRest
  <2>2. pm' = [pm EXCEPT ![c] = AtRest]
    BY <1>12 DEF Ends
  <2> QED BY <1>1, <1>2, <1>7, <1>8, <1>12, <2>1, <2>2, AtRestOK, CommandKeeps
<1> QED BY <1>1, <1>10, <1>11, <1>12

LEMMA AnswerProjectKeeps ==
    ASSUME PmIInv, NEW c \in Commands, NEW id \in DOMAIN pmFile,
           NEW n \in DOMAIN pmFile[id].targets, AnswerProject(c, id, n)
    PROVE  PmKept
<1> DEFINE target == pmFile[id].targets[n]
           question == <<target.project, target.ref>>
           w == [at |-> "amend", file |-> pmFile, id |-> id, index |-> n, answers |-> question]
<1>1. /\ FileOK(pmFile) /\ inboxes \in [Projects -> Seq(Proposals)] /\ id \in 1 .. Len(pmFile)
      /\ pmFile \in Seq(RecordType) /\ FileGrows(pmFile, pmFile) /\ id \in Nat
      /\ questions \subseteq Refs
  BY LenProperties, Reflexive DEF PmIInv, PmTyped, FileOK
<1>2. n \in 1 .. Len(pmFile[id].targets) /\ n \in Nat
  BY <1>1, RecordFacts
<1>3. question \in questions /\ pm' = [pm EXCEPT ![c] = w]
      /\ UNCHANGED <<pmFile, inboxes, questions, head, asked>>
  BY DEF AnswerProject
<1>4. question \in Refs /\ target.ref \in Nat
  BY <1>1, <1>3 DEF Refs
<1>5. /\ w.at = "amend" /\ w.file = pmFile /\ w.id = id /\ w.index = n /\ w.answers = question
  OBVIOUS
<1>6. w \in Working
  <2> HIDE DEF question
  <2> QED BY <1>1, <1>2, <1>4 DEF Working
<1> HIDE DEF w
<1>7. WorkOK(w) /\ CopyOK(w, pmFile)
  BY <1>1, <1>2, <1>4, <1>5, <1>6 DEF WorkOK, CopyOK
<1> QED BY <1>1, <1>3, <1>7, CommandKeeps

LEMMA LinkKeeps ==
    ASSUME PmIInv, NEW c \in Commands, NEW id \in DOMAIN pmFile,
           NEW n \in DOMAIN pmFile[id].targets, Link(c, id, n)
    PROVE  PmKept
<1> DEFINE w == [AtRest EXCEPT !.at = "link", !.file = pmFile, !.id = id, !.index = n]
<1>1. /\ FileOK(pmFile) /\ inboxes \in [Projects -> Seq(Proposals)] /\ id \in 1 .. Len(pmFile)
      /\ FileGrows(pmFile, pmFile)
  BY LenProperties, Reflexive DEF PmIInv, PmTyped, FileOK
<1>2. n \in 1 .. Len(pmFile[id].targets) /\ n \in Nat
  BY <1>1, RecordFacts
<1>3. pm' = [pm EXCEPT ![c] = w] /\ UNCHANGED <<pmFile, inboxes, questions, head, asked>>
  BY DEF Link, Holds
<1>4. WorkOK(w) /\ w.at = "link" /\ w.file = pmFile
  <2>1. id \in Nat /\ pmFile \in Seq(RecordType) /\ AtRest \in Working
    BY <1>1, AtRestOK, LenProperties DEF FileOK, WorkOK
  <2>2. /\ w \in Working /\ w.at = "link" /\ w.file = pmFile /\ w.id = id /\ w.index = n
    BY <1>2, <2>1 DEF Working
  <2> HIDE DEF w
  <2> QED BY <1>1, <1>2, <2>2 DEF WorkOK
<1> HIDE DEF w
<1>5. CopyOK(w, pmFile)
  BY <1>4 DEF CopyOK
<1> QED BY <1>1, <1>3, <1>4, <1>5, CommandKeeps

LEMMA SaveLinkKeeps ==
    ASSUME PmIInv, NEW c \in Commands, NEW p \in 1 .. MaxSent, SaveLink(c, p)
    PROVE  PmKept
<1> DEFINE n == pm[c].index
           target == Record(c).targets[n]
           t == [target EXCEPT !.ref = p]
           ts == [Record(c).targets EXCEPT ![n] = t]
           r == [Record(c) EXCEPT !.targets = ts]
<1>1. /\ pm[c].at = "link" /\ UNCHANGED <<inboxes, questions, head, asked>>
      /\ Saves(c, [Record(c) EXCEPT !.targets[n].ref = p], "idle")
  BY DEF SaveLink
<1>2. /\ WorkOK(pm[c]) /\ Record(c) \in RecordType /\ TargetsOK(Record(c).targets)
      /\ \A k \in 1 .. Len(Record(c).targets) :
            Record(c).targets[k] \in TargetType /\ IsFiniteSet(Record(c).targets[k].heard)
  BY <1>1, AtWork
<1>3. /\ n \in 1 .. Len(Record(c).targets) /\ target \in TargetType
      /\ IsFiniteSet(target.heard)
  BY <1>1, <1>2 DEF WorkOK, Record
<1>4. /\ t \in TargetType /\ t.project = target.project /\ t.after = target.after
      /\ t.wants = target.wants /\ t.heard = target.heard
  BY <1>3, PmAssumption DEF TargetType, PmAssumption
<1>5. r = [Record(c) EXCEPT !.targets[n].ref = p]
  OBVIOUS
<1> HIDE DEF t
<1>6. TargetsOK(ts) /\ TargetsGrow(Record(c).targets, ts) /\ ts \in Seq(TargetType)
  BY <1>2, <1>3, <1>4, TargetChange
<1> HIDE DEF ts
<1>7. r \in RecordType /\ r.targets = ts
  BY <1>2, <1>6 DEF RecordType
<1> HIDE DEF r
<1>8. inboxes' \in [Projects -> Seq(Proposals)]
  BY <1>1 DEF PmIInv, PmTyped
<1>9. TargetsOK(r.targets) /\ TargetsGrow(Record(c).targets, r.targets)
  BY <1>6, <1>7
<1>10. Saves(c, r, "idle")
  BY <1>1, <1>5
<1> QED BY <1>1, <1>7, <1>8, <1>9, <1>10, SavesKeeps

(* The answer is sent to the project and recorded; with one command nothing   *)
(* has been written since its copy was read.                                *)
LEMMA AmendKeeps ==
    ASSUME PmIInv, NEW c \in Commands, SendAmended(c)
    PROVE  PmKept
<1> DEFINE n == pm[c].index
           target == Record(c).targets[n]
           heard == target.heard \cup {pm[c].answers}
           proposal == NewProposal(AmendedOrigin(c, target), Wording(c, target, heard))
           returned == ReturnedId(inboxes[target.project], proposal)
           t == [target EXCEPT !.ref = returned, !.heard = heard]
           ts == [Record(c).targets EXCEPT ![n] = t]
           r == [Record(c) EXCEPT !.targets = ts]
           file == [pm[c].file EXCEPT ![pm[c].id] = r]
           w == [pm[c] EXCEPT !.at = "discard"]
<1>1. /\ pm[c].at = "amend" /\ UNCHANGED <<questions, head, asked>>
      /\ inboxes' = [inboxes EXCEPT ![target.project] = WithProposal(@, proposal)]
      /\ \/ /\ pmFile' = [pm[c].file EXCEPT ![pm[c].id].targets[n] = t]
            /\ pm' = [pm EXCEPT ![c].at = "discard"]
         \/ Ends(c) /\ UNCHANGED pmFile
  BY DEF SendAmended, Posts
<1>2. /\ FileOK(pmFile) /\ FileOK(pm[c].file) /\ pm[c].id \in 1 .. Len(pm[c].file)
      /\ pm[c] \in Working /\ WorkOK(pm[c])
      /\ pm[c].id \in Nat /\ head \in Nat
      /\ Record(c) \in RecordType /\ TargetsOK(Record(c).targets)
      /\ \A k \in 1 .. Len(Record(c).targets) :
            Record(c).targets[k] \in TargetType /\ IsFiniteSet(Record(c).targets[k].heard)
      /\ OneCommand /\ PmSolo => pm[c].file = pmFile /\ FileGrows(pmFile, pmFile)
  BY <1>1, AtWork
<1>3. n \in 1 .. Len(Record(c).targets) /\ pm[c].answers \in Refs /\ target.ref \in Nat
  BY <1>1, <1>2 DEF WorkOK, Record
<1>4. /\ target \in TargetType /\ target.project \in Projects /\ IsFiniteSet(target.heard)
      /\ target.heard \subseteq Refs
  <2>1. target \in TargetType /\ IsFiniteSet(target.heard)
    BY <1>2, <1>3
  <2> QED BY <2>1 DEF TargetType
<1>5. heard \in SUBSET Refs /\ IsFiniteSet(heard) /\ target.heard \subseteq heard
      /\ pm[c].answers \in heard
  <2>1. IsFiniteSet(heard)
    BY <1>4, FS_AddElement
  <2> QED BY <1>3, <1>4, <2>1
<1>6. /\ AmendedOrigin(c, target) \in Origins
      /\ AmendedOrigin(c, target).amends # None /\ AmendedOrigin(c, target).index = 0
  <2>1. Cardinality(target.heard) + 1 \in Nat
    BY <1>4, FS_CardinalityType
  <2>2. target.ref # None
    BY <1>3, PmAssumption DEF PmAssumption
  <2> HIDE DEF target
  <2> QED BY <1>2, <1>3, <2>1, <2>2 DEF AmendedOrigin, Origins
<1>7. Wording(c, target, heard) \in Wordings
  BY <1>2, <1>3, <1>5, WordingType
<1>8. /\ inboxes' \in [Projects -> Seq(Proposals)] /\ returned \in Nat
      /\ \A f : \A other \in Projects : InboxOK(inboxes[other], other, f) =>
                                           InboxOK(inboxes'[other], other, f)
  <2>1. \A f : OriginOK(AmendedOrigin(c, target), target.project, f)
    BY <1>6 DEF OriginOK
  <2> QED BY <1>1, <1>4, <1>6, <1>7, <2>1, InboxSent
<1> HIDE DEF returned, proposal, heard
<1>9. /\ t \in TargetType /\ t.project = target.project /\ t.after = target.after
      /\ t.wants = target.wants /\ t.heard = heard
  BY <1>4, <1>5, <1>8 DEF TargetType
<1> HIDE DEF t
<1>10. /\ TargetsOK(ts) /\ TargetsGrow(Record(c).targets, ts) /\ ts \in Seq(TargetType)
       /\ ts[n] = t /\ n \in 1 .. Len(ts)
  BY <1>2, <1>3, <1>5, <1>9, TargetChange
<1> HIDE DEF ts
<1>11. r \in RecordType /\ r.targets = ts
  BY <1>2, <1>10 DEF RecordType
<1> HIDE DEF r
<1>12. /\ FileOK(file) /\ FileGrows(pm[c].file, file) /\ Len(file) = Len(pm[c].file)
       /\ file[pm[c].id] = r
  <2>1. /\ TargetsOK(r.targets)
        /\ TargetsGrow(pm[c].file[pm[c].id].targets, r.targets)
    BY <1>10, <1>11 DEF Record
  <2> HIDE DEF target, n, w
  <2> DEFINE f == pm[c].file
             i == pm[c].id
  <2>2. FileOK(f) /\ i \in 1 .. Len(f) /\ TargetsGrow(f[i].targets, r.targets)
    BY <1>2, <2>1
  <2>3. r \in RecordType /\ file = [f EXCEPT ![i] = r]
    BY <1>11
  <2> HIDE DEF f, i, file
  <2>4. FileOK(file) /\ FileGrows(f, file) /\ Len(file) = Len(f) /\ file[i] = r
    <3>1. TargetsOK(r.targets)
      BY <2>1
    <3>2. FileOK([f EXCEPT ![i] = r])
      BY <3>1, <2>2, <2>3, RecordChange
    <3>3. FileGrows(f, [f EXCEPT ![i] = r])
      BY <3>1, <2>2, <2>3, RecordChange
    <3>4. Len([f EXCEPT ![i] = r]) = Len(f)
      BY <3>1, <2>2, <2>3, RecordChange
    <3>5. [f EXCEPT ![i] = r][i] = r
      <4>1. i \in DOMAIN f
        BY <2>2, LenProperties DEF FileOK
      <4> QED BY <4>1
    <3>6. file[i] = r
      BY <2>3, <3>5
    <3>7. FileOK(file) /\ FileGrows(f, file) /\ Len(file) = Len(f)
      BY <2>3, <3>2, <3>3, <3>4
    <3> QED BY <3>6, <3>7
  <2> QED BY <2>4 DEF f, i
<1>13. CASE pmFile' = [pm[c].file EXCEPT ![pm[c].id].targets[n] = t]
            /\ pm' = [pm EXCEPT ![c].at = "discard"]
  <2>1. pmFile' = file
    BY <1>13 DEF r, ts, Record
  <2>2. pm' = [pm EXCEPT ![c] = w]
    BY <1>13
  <2> HIDE DEF file
  <2>3. w \in Working /\ w.at = "discard" /\ w.file = pm[c].file /\ w.id = pm[c].id
        /\ w.answers = pm[c].answers
    BY <1>2 DEF Working
  <2> HIDE DEF w
  <2>4. WorkOK(w)
    BY <1>2, <2>3 DEF WorkOK
  <2>5. Answered(pm[c].answers, file)
    BY <1>2, <1>5, <1>9, <1>10, <1>11, <1>12 DEF Answered
  <2>6. CopyOK(w, file)
    BY <2>3, <2>5 DEF CopyOK
  <2> QED BY <1>1, <1>2, <1>8, <1>12, <2>1, <2>2, <2>4, <2>6, CommandKeeps
<1>14. CASE Ends(c) /\ UNCHANGED pmFile
  <2>1. CopyOK(AtRest, pmFile)
    BY DEF CopyOK, AtRest
  <2>2. pm' = [pm EXCEPT ![c] = AtRest]
    BY <1>14 DEF Ends
  <2> QED BY <1>1, <1>2, <1>8, <1>14, <2>1, <2>2, AtRestOK, CommandKeeps
<1> QED BY <1>1, <1>13, <1>14

LEMMA RestKeeps ==
    ASSUME PmIInv, NEW c \in Commands, AllSent(c) \/ DiscardReply(c) \/ PmFails(c)
    PROVE  PmKept
<1>1. CASE AllSent(c) \/ PmFails(c)
  BY <1>1, EndsKeeps DEF AllSent, PmFails
<1>2. CASE DiscardReply(c)
  <2>1. /\ pm[c].at = "discard" /\ Ends(c) /\ questions' = questions \ {pm[c].answers}
        /\ UNCHANGED <<pmFile, inboxes, head, asked>>
    BY <1>2 DEF DiscardReply
  <2>2. OneCommand /\ PmSolo => Answered(pm[c].answers, pmFile)
    BY <2>1 DEF PmSolo, CopyOK
  <2> QED BY <2>1, <2>2, EndsKeeps
<1> QED BY <1>1, <1>2

LEMMA ProjectsKeep ==
    ASSUME PmIInv, NEW project \in Projects, NEW p \in DOMAIN inboxes[project],
           ProjectAsks(project, p) \/ ProjectDecides(project, p)
    PROVE  PmIInv'
<1>1. /\ PmTyped /\ inboxes[project] \in Seq(Proposals)
      /\ inboxes \in [Projects -> Seq(Proposals)]
  BY DEF PmIInv, PmTyped
<1>2. p \in 1 .. Len(inboxes[project]) /\ p \in Nat
  BY <1>1, LenProperties
<1>3. CASE ProjectAsks(project, p)
  <2>1. /\ questions' = questions \cup {<<project, p>>} /\ asked' = asked \cup {<<project, p>>}
        /\ UNCHANGED <<pmFile, inboxes, head, pm>>
    BY <1>3 DEF ProjectAsks
  <2>2. <<project, p>> \in Refs
    BY <1>2 DEF Refs
  <2>3. PmTyped'
    BY <1>1, <2>1, <2>2 DEF PmTyped
  <2>4. PmSolo => PmSolo'
    BY <2>1 DEF PmSolo
  <2> QED BY <2>3, <2>4 DEF PmIInv, OneCommand
<1>4. CASE ProjectDecides(project, p)
  <2> DEFINE old == inboxes[project]
             e == [old[p] EXCEPT !.status = "decided"]
             new == [old EXCEPT ![p] = e]
  <2>1. /\ inboxes' = [inboxes EXCEPT ![project] = new]
        /\ UNCHANGED <<pmFile, questions, head, pm, asked>>
    BY <1>4 DEF ProjectDecides, Decide
  <2>2. e \in Proposals /\ e.origin = old[p].origin /\ e.status = "decided"
    <3>1. old[p] \in Proposals
      BY <1>1, <1>2, ElementOfSeq
    <3> HIDE DEF old
    <3> QED BY <3>1 DEF Proposals
  <2> HIDE DEF e
  <2>3. /\ new \in Seq(Proposals) /\ Len(new) = Len(old)
        /\ \A k \in 1 .. Len(old) : new[k] = IF k = p THEN e ELSE old[k]
    BY <1>1, <1>2, <2>2, ExceptSeq
  <2>4. DOMAIN new = 1 .. Len(old) /\ DOMAIN old = 1 .. Len(old)
    BY <1>1, <2>3, LenProperties
  <2> HIDE DEF new
  <2>5. inboxes' \in [Projects -> Seq(Proposals)]
    BY <1>1, <2>1, <2>3
  <2>6. PmTyped'
    BY <1>1, <2>1, <2>5 DEF PmTyped
  <2>7. \A k \in 1 .. Len(old) : new[k].origin = old[k].origin
    BY <2>2, <2>3
  <2>8. Undecided(new) \subseteq Undecided(old)
    BY <2>2, <2>3, <2>4 DEF Undecided
  <2>9. \A k \in Undecided(old) : k \in 1 .. Len(old)
    BY <2>4 DEF Undecided
  <2>10. \A file : InboxOK(old, project, file) => InboxOK(new, project, file)
    BY <2>3, <2>7, <2>8, <2>9 DEF InboxOK
  <2>11. \A other \in Projects : InboxOK(inboxes[other], other, pmFile) =>
                                   InboxOK(inboxes'[other], other, pmFile)
    BY <1>1, <2>1, <2>10
  <2>12. PmSolo => PmSolo'
    BY <2>1, <2>11 DEF PmSolo
  <2> QED BY <2>6, <2>12 DEF PmIInv, OneCommand
<1> QED BY <1>3, <1>4

LEMMA PmStepKeeps == PmIInv /\ [PmNext]_pmVars => PmKept
<1> SUFFICES ASSUME PmIInv, [PmNext]_pmVars PROVE PmKept
  OBVIOUS
<1>0. FileGrows(pmFile, pmFile)
  BY Reflexive DEF PmIInv, PmTyped
<1>1. ASSUME NEW c \in Commands, CommandStep(c) PROVE PmKept
  BY <1>1, AskKeeps, AnswerKeeps, RouterKeeps, SendKeeps, AmendKeeps, RestKeeps, AnswerProjectKeeps,
     LinkKeeps, SaveLinkKeeps DEF CommandStep
<1>2. ASSUME NEW project \in Projects, NEW p \in DOMAIN inboxes[project],
             ProjectAsks(project, p) \/ ProjectDecides(project, p)
      PROVE  PmKept
  <2>1. PmIInv' /\ UNCHANGED pmFile
    BY <1>2, ProjectsKeep DEF ProjectAsks, ProjectDecides
  <2> QED BY <1>0, <2>1 DEF PmKept
<1>3. CASE Commit
  <2>1. head' = head + 1 /\ UNCHANGED <<pmFile, inboxes, questions, pm, asked>>
    BY <1>3 DEF Commit
  <2>2. PmTyped' /\ (PmSolo => PmSolo')
    BY <2>1 DEF PmIInv, PmTyped, PmSolo
  <2>3. PmIInv'
    BY <2>2 DEF PmIInv, OneCommand
  <2> QED BY <1>0, <2>1, <2>3 DEF PmKept
<1>4. CASE UNCHANGED pmVars
  <2>1. PmIInv' /\ UNCHANGED pmFile
    BY <1>4 DEF pmVars, PmIInv, PmTyped, PmSolo, OneCommand
  <2> QED BY <1>0, <2>1 DEF PmKept
<1> QED BY <1>1, <1>2, <1>3, <1>4 DEF PmNext

(* The state file is sound in every copy of it, and with one command at a     *)
(* time the inboxes and the PM inbox agree with it.                          *)
THEOREM PmInvariant == PmSpec => []PmIInv
<1>1. PmIInv /\ [PmNext]_pmVars => PmIInv'
  BY PmStepKeeps DEF PmKept
<1> QED BY <1>1, PmStarts, PTL DEF PmSpec

(* With one command at a time no step of a command, of a project or of git    *)
(* takes a request or a target out of the state file, moves a target to       *)
(* another project, or forgets a question it has an answer to: each           *)
(* save_pm_state writes the copy that load_pm_state has returned and that     *)
(* nobody else has changed since.                                            *)
RequestsAreKept == [][FileGrows(pmFile, pmFile')]_pmVars

THEOREM FileOnlyGrows == ASSUME OneCommand PROVE PmSpec => RequestsAreKept
<1>1. PmIInv /\ [PmNext]_pmVars => [FileGrows(pmFile, pmFile')]_pmVars
  BY OneCommand, PmStepKeeps DEF PmKept
<1> QED BY <1>1, PmInvariant, PTL DEF PmSpec, RequestsAreKept

(* DependenciesFollowProjects: what _prepare_route_targets saves depends on   *)
(* the projects the router named, for any number of commands at once.        *)
THEOREM DependenciesKept == PmSpec => []DependenciesFollowProjects
<1>1. PmIInv => DependenciesFollowProjects
  <2> SUFFICES ASSUME PmIInv PROVE DependenciesFollowProjects
    OBVIOUS
  <2>1. FileOK(pmFile) /\ DOMAIN pmFile = 1 .. Len(pmFile)
    BY LenProperties DEF PmIInv, PmTyped, FileOK
  <2>2. \A id \in DOMAIN pmFile : \A n \in DOMAIN pmFile[id].targets : Wanted(pmFile[id].targets, n)
    BY <2>1, RecordFacts DEF TargetsOK
  <2> QED BY <2>2 DEF DependenciesFollowProjects, Wanted
<1> QED BY <1>1, PmInvariant, PTL

(* PendingOnce: a request has one pending proposal in a project, however often *)
(* it is rerun, as long as no two commands run at once: two that load the     *)
(* state file together take the same request id.                             *)
THEOREM OnePendingProposal == ASSUME OneCommand PROVE PmSpec => []PendingOnce
<1>1. PmIInv => PendingOnce
  <2> SUFFICES ASSUME PmIInv, NEW project \in Projects,
                      NEW p \in Undecided(inboxes[project]), NEW q \in Undecided(inboxes[project]),
                      inboxes[project][p].origin.request = inboxes[project][q].origin.request,
                      inboxes[project][p].origin.commit = inboxes[project][q].origin.commit,
                      inboxes[project][p].origin.amends = inboxes[project][q].origin.amends,
                      inboxes[project][p].origin.round = inboxes[project][q].origin.round
               PROVE  p = q
    BY DEF PendingOnce
  <2> DEFINE inbox == inboxes[project]
             o == inbox[p].origin
             r == inbox[q].origin
  <2>1. inbox \in Seq(Proposals) /\ FileOK(pmFile) /\ InboxOK(inbox, project, pmFile)
    BY DEF PmIInv, PmTyped, PmSolo
  <2>2. p \in 1 .. Len(inbox) /\ q \in 1 .. Len(inbox)
    BY <2>1, LenProperties DEF Undecided
  <2>3. o \in Origins /\ r \in Origins
    <3>1. inbox[p] \in Proposals /\ inbox[q] \in Proposals
      BY <2>1, <2>2, ElementOfSeq
    <3> HIDE DEF inbox
    <3> QED BY <3>1 DEF Proposals
  <2>4. OriginOK(o, project, pmFile) /\ OriginOK(r, project, pmFile)
    BY <2>1, <2>2 DEF InboxOK
  <2>5. /\ o.request = r.request /\ o.commit = r.commit /\ o.amends = r.amends
        /\ o.round = r.round
    OBVIOUS
  <2>6. p \in Undecided(inbox) /\ q \in Undecided(inbox)
    OBVIOUS
  <2>7. (o = r => p = q)
    BY <2>1, <2>6 DEF InboxOK
  <2> HIDE DEF o, r
  <2>8. o.index = r.index
    <3>1. CASE o.amends = None
      <4>1. /\ o.request \in 1 .. Len(pmFile)
            /\ o.index \in 1 .. Len(pmFile[o.request].targets)
            /\ r.index \in 1 .. Len(pmFile[o.request].targets)
            /\ pmFile[o.request].targets[o.index].project = project
            /\ pmFile[o.request].targets[r.index].project = project
        BY <2>4, <2>5, <3>1 DEF OriginOK
      <4>2. TargetsOK(pmFile[o.request].targets)
        BY <2>1, <4>1 DEF FileOK
      <4> QED BY <4>1, <4>2 DEF TargetsOK
    <3>2. CASE o.amends # None
      BY <2>4, <2>5, <3>2 DEF OriginOK
    <3> QED BY <3>1, <3>2
  <2>9. o = r
    BY <2>3, <2>5, <2>8 DEF Origins
  <2> QED BY <2>7, <2>9
<1> QED BY <1>1, PmInvariant, PTL

(* QuestionKeptUntilAnswered: what leaves the PM inbox has its answer recorded *)
(* with the target, as long as no two commands run at once: a second one       *)
(* would write back the file it loaded before.                               *)
THEOREM QuestionsStay == ASSUME OneCommand PROVE PmSpec => []QuestionKeptUntilAnswered
<1>1. PmIInv => QuestionKeptUntilAnswered
  <2> SUFFICES ASSUME PmIInv, NEW question \in asked \ questions
               PROVE  \E id \in DOMAIN pmFile : \E n \in DOMAIN pmFile[id].targets :
                         question \in pmFile[id].targets[n].heard
    BY DEF QuestionKeptUntilAnswered
  <2>1. FileOK(pmFile) /\ DOMAIN pmFile = 1 .. Len(pmFile) /\ Answered(question, pmFile)
    BY LenProperties DEF PmIInv, PmTyped, PmSolo, FileOK
  <2> QED BY <2>1, RecordFacts DEF Answered
<1> QED BY <1>1, PmInvariant, PTL
===========================================================================
