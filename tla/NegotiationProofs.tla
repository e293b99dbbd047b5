------------------------ MODULE NegotiationProofs -------------------------
(*************************************************************************)
(* Proofs about negotiations, on the server and in a local file, for any *)
(* number of processes, threads, rounds and issues.                      *)
(*************************************************************************)
EXTENDS Negotiation, LocalThreads, SequenceTheorems, WellFoundedInduction, TLAPS

---------------------------------------------------------------------------
(*************************************************************************)
(* What the entries of a thread make of it.                              *)
(*************************************************************************)

EntryType == [side : Sides, round : Nat, verdict : {"counter", "agree", "blocked"},
              contract : Contracts \cup {None}]

(* The least of some numbers, and so the greatest of some below a bound. *)
LEMMA LeastNumber ==
    ASSUME NEW S, S \subseteq Nat, S # {}
    PROVE  \E m \in S : \A k \in S : m <= k
<1> DEFINE R == {p \in Nat \X Nat : p[1] < p[2]}
<1>1. IsWellFoundedOn(R, Nat)
    BY NatLessThanWellFounded DEF OpToRel, R
<1> HIDE DEF R
<1>2. PICK m \in S : \A k \in S : <<k, m>> \notin R
    BY <1>1, WFMin
<1>3. ASSUME NEW k \in S PROVE m <= k
    <2>1. ~ (k < m)
        BY <1>2 DEF R
    <2> QED
        BY <2>1
<1> QED
    BY <1>3

LEMMA MinInside ==
    ASSUME NEW S, S \subseteq Nat, S # {}
    PROVE  Min(S) \in S /\ \A k \in S : Min(S) <= k
BY LeastNumber DEF Min

LEMMA MaxInside ==
    ASSUME NEW n \in Nat, NEW S, S \subseteq 1 .. n, S # {}
    PROVE  Max(S) \in S /\ \A k \in S : k <= Max(S)
<1> DEFINE T == {n - x : x \in S}
<1>1. T \subseteq Nat /\ T # {}
    <2>1. PICK k : k \in S
        OBVIOUS
    <2>2. n - k \in T
        BY <2>1 DEF T
    <2> QED
        BY <2>2 DEF T
<1> HIDE DEF T
<1>2. PICK x \in T : \A y \in T : x <= y
    BY <1>1, LeastNumber
<1>3. PICK m \in S : x = n - m
    BY DEF T
<1>4. ASSUME NEW k \in S PROVE k <= m
    <2>1. n - k \in T
        BY DEF T
    <2>2. n - m <= n - k
        BY <1>2, <1>3, <2>1
    <2> QED
        BY <2>2
<1> QED
    BY <1>4 DEF Max

LEMMA AppendFacts ==
    ASSUME NEW S, NEW s \in Seq(S), NEW e \in S
    PROVE  /\ Append(s, e) \in Seq(S) /\ Append(s, e) # <<>>
           /\ Len(Append(s, e)) = Len(s) + 1 /\ DOMAIN Append(s, e) = 1 .. Len(s) + 1
           /\ \A n \in 1 .. Len(s) : Append(s, e)[n] = s[n]
           /\ Append(s, e)[Len(s) + 1] = e
           /\ Len(s) \in Nat /\ DOMAIN s = 1 .. Len(s)
BY AppendProperties, LenProperties

(* What was appended later does not change an earlier part. *)
LEMMA EarlierPart ==
    ASSUME NEW S, NEW s \in Seq(S), NEW e \in S, NEW n \in 0 .. Len(s)
    PROVE  SubSeq(Append(s, e), 1, n) = SubSeq(s, 1, n)
<1>1. \A i \in 1 .. n : Append(s, e)[i] = s[i]
    BY AppendFacts
<1>2. n \in Nat
    BY AppendFacts
<1> QED
    BY <1>1, <1>2, AppendFacts, SubSeqProperties

LEMMA WholePart ==
    ASSUME NEW S, NEW s \in Seq(S)
    PROVE  SubSeq(s, 1, Len(s)) = s
BY LenProperties, SubSeqProperties

LEMMA OtherSideType ==
    ASSUME NEW side \in Sides
    PROVE  OtherSide(side) \in Sides /\ OtherSide(side) # side
BY DEF OtherSide, Sides

LEMMA OutcomeType ==
    ASSUME NEW entries
    PROVE  Outcome(entries) \in {"negotiating", "agreed", "blocked"}
BY DEF Outcome

(* Entries that alternate, each round once, and that only the last may conclude. *)
Regular(entries) ==
    /\ entries \in Seq(EntryType) /\ entries # <<>>
    /\ \A n \in 1 .. Len(entries) :
          /\ entries[n].round = n
          /\ n > 1 => entries[n].side = OtherSide(entries[n - 1].side)
          /\ n < Len(entries) => Outcome(SubSeq(entries, 1, n)) = "negotiating"

LEMMA RegularEntries ==
    ASSUME NEW entries, Regular(entries)
    PROVE  /\ entries \in Seq(EntryType) /\ Len(entries) \in Nat \ {0}
           /\ DOMAIN entries = 1 .. Len(entries)
           /\ \A n \in 1 .. Len(entries) : entries[n] \in EntryType
BY LenProperties, EmptySeq, ElementOfSeq DEF Regular

LEMMA OpeningRegular ==
    ASSUME NEW side \in Sides, NEW turn \in AllTurns
    PROVE  Regular(<<Entry(side, 1, turn)>>) /\ Entry(side, 1, turn).side = side
<1>1. Entry(side, 1, turn) \in EntryType
    BY DEF AllTurns, Entry, EntryType
<1>2. <<Entry(side, 1, turn)>> \in Seq(EntryType) /\ Len(<<Entry(side, 1, turn)>>) = 1
    BY <1>1
<1>3. Entry(side, 1, turn).round = 1 /\ Entry(side, 1, turn).side = side
    BY DEF Entry
<1> QED
    BY <1>2, <1>3 DEF Regular

(* A reply of the other side leaves them regular. *)
LEMMA ReplyRegular ==
    ASSUME NEW before, Regular(before), Outcome(before) = "negotiating", NEW turn \in AllTurns,
           NEW entry, entry = Entry(OtherSide(before[Len(before)].side), Len(before) + 1, turn)
    PROVE  /\ Regular(Append(before, entry)) /\ Len(Append(before, entry)) = Len(before) + 1
           /\ \A n \in 1 .. Len(before) :
                 /\ Append(before, entry)[n] = before[n]
                 /\ SubSeq(Append(before, entry), 1, n) = SubSeq(before, 1, n)
<1> DEFINE length == Len(before)
           entries == Append(before, entry)
<1>1. before \in Seq(EntryType) /\ length \in Nat \ {0}
    BY RegularEntries
<1>2. entry \in EntryType /\ entry.round = length + 1
      /\ entry.side = OtherSide(before[length].side)
    <2>1. OtherSide(before[length].side) \in Sides
        BY <1>1, RegularEntries, OtherSideType DEF EntryType
    <2> QED
        BY <1>1, <2>1 DEF AllTurns, Entry, EntryType
<1>3. /\ entries \in Seq(EntryType) /\ entries # <<>> /\ Len(entries) = length + 1
      /\ entries[length + 1] = entry
      /\ \A n \in 1 .. length : entries[n] = before[n]
    BY <1>1, <1>2, AppendFacts
<1>4. \A n \in 1 .. length : SubSeq(entries, 1, n) = SubSeq(before, 1, n)
    BY <1>1, <1>2, EarlierPart
<1>5. SubSeq(before, 1, length) = before
    BY <1>1, WholePart
<1>6. \A n \in 1 .. length :
          /\ before[n].round = n
          /\ n > 1 => before[n].side = OtherSide(before[n - 1].side)
          /\ n < length => Outcome(SubSeq(before, 1, n)) = "negotiating"
    BY DEF Regular
<1> HIDE DEF entries
<1>7. ASSUME NEW n \in 1 .. length + 1
      PROVE  /\ entries[n].round = n
             /\ n > 1 => entries[n].side = OtherSide(entries[n - 1].side)
             /\ n < length + 1 => Outcome(SubSeq(entries, 1, n)) = "negotiating"
    <2>1. CASE n \in 1 .. length
        <3>1. entries[n] = before[n]
            BY <1>3, <2>1
        <3>2. n > 1 => n - 1 \in 1 .. length /\ entries[n - 1] = before[n - 1]
            BY <1>1, <1>3, <2>1
        <3>3. Outcome(SubSeq(entries, 1, n)) = "negotiating"
            <4>1. SubSeq(entries, 1, n) = SubSeq(before, 1, n)
                BY <1>4, <2>1
            <4>2. CASE n = length
                BY <1>5, <4>1, <4>2
            <4>3. CASE n # length
                <5>1. n < length
                    BY <1>1, <2>1, <4>3
                <5> QED
                    BY <1>6, <2>1, <4>1, <5>1
            <4> QED
                BY <4>2, <4>3
        <3> QED
            BY <1>6, <2>1, <3>1, <3>2, <3>3
    <2>2. CASE n = length + 1
        BY <1>1, <1>2, <1>3, <2>2
    <2> QED
        BY <1>1, <2>1, <2>2
<1>8. Regular(entries)
    BY <1>3, <1>7 DEF Regular
<1> QED
    BY <1>3, <1>4, <1>8 DEF entries

(* A copy that concludes the thread is the whole of it. *)
LEMMA ConcludedCopy ==
    ASSUME NEW entries, Regular(entries), NEW n \in 1 .. Len(entries),
           Outcome(SubSeq(entries, 1, n)) # "negotiating"
    PROVE  n = Len(entries) /\ SubSeq(entries, 1, n) = entries
<1>1. entries \in Seq(EntryType) /\ Len(entries) \in Nat
    BY RegularEntries
<1>2. ~ (n < Len(entries))
    BY DEF Regular
<1> QED
    BY <1>1, <1>2, WholePart

(* When the first entries to conclude a thread conclude it agreed, both sides *)
(* have stated the contract that was stated last.                           *)
LEMMA AgreedByBoth ==
    ASSUME NEW entries, Regular(entries), Outcome(entries) = "agreed"
    PROVE  /\ \A side \in Sides : \E m \in 1 .. Len(entries) :
                 entries[m].side = side /\ entries[m].contract = LatestContract(entries)
           /\ \A m \in 1 .. Len(entries) : entries[m].verdict # "blocked"
<1> DEFINE length == Len(entries)
           agreed(e, side) == {n \in DOMAIN e : /\ e[n].side = side /\ e[n].verdict = "agree"
                                                /\ e[n].contract # None}
<1>1. /\ entries \in Seq(EntryType) /\ length \in Nat \ {0} /\ DOMAIN entries = 1 .. length
      /\ \A n \in 1 .. length : entries[n] \in EntryType
    BY RegularEntries
<1>2. \A n \in 1 .. length : entries[n].verdict # "blocked"
    BY <1>1 DEF Outcome
<1>3. entries[length].contract # None => LatestContract(entries) = entries[length].contract
    <2> DEFINE stated == {n \in DOMAIN entries : entries[n].contract # None}
    <2>1. ASSUME entries[length].contract # None
          PROVE  LatestContract(entries) = entries[length].contract
        <3>1. stated \subseteq 1 .. length /\ length \in stated
            BY <1>1, <2>1
        <3>2. Max(stated) \in stated /\ \A k \in stated : k <= Max(stated)
            <4> HIDE DEF stated
            <4> QED
                BY <1>1, <3>1, MaxInside
        <3>3. Max(stated) = length
            <4> HIDE DEF stated
            <4>1. Max(stated) \in 1 .. length /\ length <= Max(stated)
                BY <3>1, <3>2
            <4> QED
                BY <1>1, <4>1
        <3> QED
            BY <3>1, <3>3 DEF LatestContract
    <2> QED
        BY <2>1
<1>4. ASSUME LatestAgrees(entries)
      PROVE  \A side \in Sides : \E m \in 1 .. length :
                 entries[m].side = side /\ entries[m].contract = LatestContract(entries)
    <2>1. PICK n \in 1 .. length - 1 :
              entries[n].side # entries[length].side /\ entries[n].contract = entries[length].contract
        BY <1>4 DEF LatestAgrees
    <2>2. entries[length].contract = LatestContract(entries)
        BY <1>3, <1>4 DEF LatestAgrees
    <2>3. n \in 1 .. length /\ length \in 1 .. length
        BY <1>1, <2>1
    <2>4. \A side \in Sides : side = entries[n].side \/ side = entries[length].side
        BY <1>1, <2>1, <2>3 DEF Sides, EntryType
    <2> QED
        BY <2>1, <2>2, <2>3, <2>4
<1>5. ASSUME NEW side \in Sides, NEW e \in Seq(EntryType), Agreement(e, side) # None
      PROVE  /\ Max(agreed(e, side)) \in agreed(e, side)
             /\ \A k \in agreed(e, side) : k <= Max(agreed(e, side))
             /\ Agreement(e, side) = e[Max(agreed(e, side))].contract
    <2>1. agreed(e, side) # {} /\ agreed(e, side) \subseteq 1 .. Len(e) /\ Len(e) \in Nat
        BY <1>5, LenProperties DEF Agreement
    <2>2. Agreement(e, side) = e[Max(agreed(e, side))].contract
        BY <2>1 DEF Agreement
    <2> HIDE DEF agreed
    <2> QED
        BY <2>1, <2>2, MaxInside
<1>6. ASSUME /\ Agreement(entries, "provider") # None
             /\ Agreement(entries, "provider") = Agreement(entries, "consumer")
      PROVE  LatestAgrees(entries)
    <2>0. "provider" \in Sides /\ "consumer" \in Sides
        BY DEF Sides
    <2>1. ASSUME length \notin agreed(entries, "provider"), length \notin agreed(entries, "consumer")
          PROVE  FALSE
        <3> DEFINE before == SubSeq(entries, 1, length - 1)
        <3>1. length - 1 \in 1 .. length
            <4>1. Max(agreed(entries, "provider")) \in agreed(entries, "provider")
                BY <1>1, <1>5, <1>6, <2>0
            <4>2. Max(agreed(entries, "provider")) \in 1 .. length /\ Max(agreed(entries, "provider")) # length
                BY <1>1, <2>1, <4>1
            <4> QED
                BY <1>1, <4>2
        <3>2. /\ before \in Seq(EntryType) /\ Len(before) = length - 1
              /\ \A n \in 1 .. length - 1 : before[n] = entries[n]
            BY <1>1, <3>1, SubSeqProperties
        <3>3. DOMAIN before = 1 .. length - 1
            BY <3>2, LenProperties
        <3> HIDE DEF before
        <3>4. ASSUME NEW side \in Sides PROVE Agreement(before, side) = Agreement(entries, side)
            <4>1. agreed(before, side) = agreed(entries, side)
                BY <1>1, <2>1, <3>1, <3>2, <3>3 DEF Sides
            <4>2. Agreement(entries, side) # None
                BY <1>6 DEF Sides
            <4>3. Max(agreed(entries, side)) \in agreed(entries, side)
                BY <1>1, <1>5, <4>2
            <4>4. Max(agreed(entries, side)) \in 1 .. length - 1
                BY <3>3, <4>1, <4>3
            <4>5. /\ Agreement(entries, side) = entries[Max(agreed(entries, side))].contract
                  /\ Agreement(before, side) = before[Max(agreed(before, side))].contract
                BY <1>1, <1>5, <4>1, <4>2, <4>3 DEF Agreement
            <4> QED
                BY <3>2, <4>1, <4>4, <4>5
        <3>5. Outcome(before) # "negotiating"
            BY <1>6, <2>0, <3>4 DEF Outcome
        <3>6. Outcome(before) = "negotiating"
            BY <1>1, <3>1 DEF Regular, before
        <3> QED
            BY <3>5, <3>6
    <2>2. PICK side \in Sides : length \in agreed(entries, side)
        BY <2>0, <2>1
    <2>3. PICK other \in Sides : other # side
        BY DEF Sides
    <2>4. Agreement(entries, side) # None /\ Agreement(entries, other) = Agreement(entries, side)
        BY <1>6, <2>3 DEF Sides
    <2>5. entries[length].contract = Agreement(entries, side)
        <3>1. /\ Max(agreed(entries, side)) \in agreed(entries, side)
              /\ \A k \in agreed(entries, side) : k <= Max(agreed(entries, side))
              /\ Agreement(entries, side) = entries[Max(agreed(entries, side))].contract
            BY <1>1, <1>5, <2>4
        <3>2. Max(agreed(entries, side)) = length
            <4>1. agreed(entries, side) \subseteq 1 .. length
                BY <1>1
            <4> HIDE DEF agreed
            <4>2. Max(agreed(entries, side)) \in 1 .. length /\ length <= Max(agreed(entries, side))
                BY <2>2, <3>1, <4>1
            <4> QED
                BY <1>1, <4>2
        <3> QED
            BY <3>1, <3>2
    <2> DEFINE m == Max(agreed(entries, other))
    <2>6. m \in agreed(entries, other) /\ entries[m].contract = Agreement(entries, other)
        BY <1>1, <1>5, <2>4
    <2> HIDE DEF m
    <2>7. m \in 1 .. length - 1 /\ entries[m].side # entries[length].side
        BY <1>1, <2>2, <2>3, <2>6
    <2> QED
        BY <2>2, <2>4, <2>5, <2>6, <2>7 DEF LatestAgrees
<1> QED
    BY <1>1, <1>2, <1>4, <1>6 DEF Outcome

---------------------------------------------------------------------------
(*************************************************************************)
(* Threads on the server and the issues of their agreements.             *)
(*************************************************************************)

AnyContract == {None} \cup {LatestContract(entries) : entries \in Seq(EntryType)}

PairType == [1 .. 2 -> Nat \cup {None}]

ThreadType ==
    [status : {"negotiating", "agreed", "blocked", "cancelled"}, entries : Seq(EntryType),
     open : BOOLEAN, contract : AnyContract, refs : PairType \cup {None}]

IssueType == [thread : Nat, provider : Nat \cup {None}, contract : AnyContract]

TalkType ==
    [at : {"idle", "opening", "turn", "reread", "status",
           "fThread", "fStatus", "fRefs", "fProvider", "fConsumer", "fRecord"},
     thread : Nat \cup {None}, seen : Nat, pair : PairType]

(* A thread that is negotiating holds back its origin; one that is agreed has *)
(* the contract of entries that conclude it.                                *)
ThreadInOrder(thread) ==
    /\ Regular(thread.entries)
    /\ thread.status = "negotiating" => thread.open = TRUE
    /\ thread.status = "agreed" =>
          Outcome(thread.entries) = "agreed" /\ thread.contract = LatestContract(thread.entries)

ThreadsInOrder ==
    /\ threads \in Seq(ThreadType)
    /\ \A t \in DOMAIN threads : ThreadInOrder(threads[t])
    /\ \A t, u \in Negotiating : threads[t].entries[1].side = threads[u].entries[1].side => t = u

(* Two issues, of which the second depends on the first. *)
Paired(t, pair) ==
    /\ pair[1] \in DOMAIN agreedIssues /\ agreedIssues[pair[1]].thread = t
    /\ pair[2] \in DOMAIN agreedIssues /\ agreedIssues[pair[2]].provider = pair[1]

IssuesInOrder ==
    /\ agreedIssues \in Seq(IssueType)
    /\ \A n \in DOMAIN agreedIssues :
          /\ agreedIssues[n].thread \in DOMAIN threads
          /\ threads[agreedIssues[n].thread].status = "agreed"
          /\ threads[agreedIssues[n].thread].contract = agreedIssues[n].contract
    /\ \A t \in DOMAIN threads : threads[t].refs # None => Paired(t, threads[t].refs)

(* What a process has read is still there, and what it has made is the       *)
(* thread's.                                                                *)
TalkInOrder(p) ==
    /\ ~ (At(p, "idle") \/ At(p, "opening")) => talk[p].thread \in DOMAIN threads
    /\ talk[p].at \in {"turn", "status", "fStatus"} =>
          talk[p].seen \in 1 .. Len(ThreadOf(p).entries)
    /\ At(p, "turn") => Outcome(CopyOf(p)) = "negotiating"
    /\ talk[p].at \in {"status", "fStatus"} => Outcome(CopyOf(p)) # "negotiating"
    /\ talk[p].at \in {"fRefs", "fProvider", "fConsumer", "fRecord"} => ThreadOf(p).status = "agreed"
    /\ talk[p].at \in {"fConsumer", "fRecord"} =>
          talk[p].pair[1] \in DOMAIN agreedIssues /\ agreedIssues[talk[p].pair[1]].thread = talk[p].thread
    /\ At(p, "fRecord") => Paired(talk[p].thread, talk[p].pair)

TalksInOrder ==
    /\ talk \in [Negotiators -> TalkType]
    /\ \A p \in Negotiators : TalkInOrder(p)

NegotiationIInv == ThreadsInOrder /\ IssuesInOrder /\ TalksInOrder

(* What may become of a thread: entries follow those there are, and it does   *)
(* not leave agreement, nor come back to negotiation.                       *)
Follows(before, after) ==
    /\ Len(before.entries) <= Len(after.entries)
    /\ \A n \in 1 .. Len(before.entries) :
          SubSeq(after.entries, 1, n) = SubSeq(before.entries, 1, n)
    /\ after.entries[1] = before.entries[1]
    /\ after.status = "negotiating" => before.status = "negotiating"
    /\ before.status = "agreed" => after.status = "agreed" /\ after.contract = before.contract

ThreadsGo == \A t \in DOMAIN threads : t \in DOMAIN threads' /\ Follows(threads[t], threads'[t])

IssuesGo == \A n \in DOMAIN agreedIssues : n \in DOMAIN agreedIssues' /\ agreedIssues'[n] = agreedIssues[n]

NegotiationKept == NegotiationIInv' /\ ThreadsGo /\ IssuesGo

LEMMA ThreadFacts ==
    ASSUME ThreadsInOrder, NEW t \in DOMAIN threads
    PROVE  /\ threads[t] \in ThreadType /\ ThreadInOrder(threads[t]) /\ t \in Nat
           /\ DOMAIN threads = 1 .. Len(threads) /\ Len(threads) \in Nat
           /\ DOMAIN threads[t] = {"status", "entries", "open", "contract", "refs"}
           /\ Regular(threads[t].entries) /\ Len(threads[t].entries) \in Nat \ {0}
           /\ DOMAIN threads[t].entries = 1 .. Len(threads[t].entries)
<1>1. threads \in Seq(ThreadType) /\ ThreadInOrder(threads[t])
    BY DEF ThreadsInOrder
<1>2. threads[t] \in ThreadType /\ DOMAIN threads = 1 .. Len(threads) /\ Len(threads) \in Nat
    BY <1>1, LenProperties, ElementOfSeq
<1>3. Regular(threads[t].entries)
    BY <1>1 DEF ThreadInOrder
<1>4. DOMAIN threads[t] = {"status", "entries", "open", "contract", "refs"}
    BY <1>2 DEF ThreadType
<1> QED
    BY <1>1, <1>2, <1>3, <1>4, RegularEntries

LEMMA FollowsItself ==
    ASSUME NEW thread, Regular(thread.entries) PROVE Follows(thread, thread)
BY RegularEntries DEF Follows

(* A thread is changed into one that follows it. *)
LEMMA OneThread ==
    ASSUME ThreadsInOrder, NEW t \in DOMAIN threads, NEW thread \in ThreadType,
           ThreadInOrder(thread), Follows(threads[t], thread),
           threads' = [threads EXCEPT ![t] = thread]
    PROVE  ThreadsInOrder' /\ ThreadsGo /\ DOMAIN threads' = DOMAIN threads
<1>1. threads \in Seq(ThreadType) /\ t \in 1 .. Len(threads) /\ DOMAIN threads = 1 .. Len(threads)
    BY LenProperties DEF ThreadsInOrder
<1>2. threads' \in Seq(ThreadType) /\ DOMAIN threads' = DOMAIN threads
    BY <1>1, ExceptSeq
<1>3. \A u \in DOMAIN threads : threads'[u] = IF u = t THEN thread ELSE threads[u]
    BY <1>1
<1>4. \A u \in DOMAIN threads : Follows(threads[u], threads'[u])
    BY <1>3, ThreadFacts, FollowsItself
<1>5. \A u \in Negotiating' : u \in Negotiating /\ threads'[u].entries[1] = threads[u].entries[1]
    BY <1>2, <1>4 DEF Negotiating, Follows
<1>6. \A u \in DOMAIN threads' : ThreadInOrder(threads'[u])
    BY <1>2, <1>3 DEF ThreadsInOrder
<1> QED
    BY <1>2, <1>4, <1>5, <1>6 DEF ThreadsInOrder, ThreadsGo

LEMMA SettledThread ==
    ASSUME ThreadsInOrder, NEW t \in DOMAIN threads, NEW thread \in ThreadType,
           ThreadInOrder(thread), Follows(threads[t], thread), thread.status # "negotiating",
           Settled(t, [threads EXCEPT ![t] = thread])
    PROVE  /\ ThreadsInOrder' /\ ThreadsGo /\ DOMAIN threads' = DOMAIN threads
           /\ threads'[t].refs = thread.refs
           /\ \A u \in DOMAIN threads \ {t} : threads'[u] = threads[u]
<1> DEFINE closed == [thread EXCEPT !.open = FALSE]
<1>1. /\ closed \in ThreadType /\ closed.entries = thread.entries /\ closed.status = thread.status
      /\ closed.contract = thread.contract /\ closed.refs = thread.refs
    BY DEF ThreadType
<1>2. ThreadInOrder(closed) /\ Follows(threads[t], closed)
    BY <1>1 DEF ThreadInOrder, Follows
<1>3. \/ threads' = [threads EXCEPT ![t] = thread]
      \/ threads' = [threads EXCEPT ![t] = closed]
    BY DEF Settled
<1> HIDE DEF closed
<1>4. ThreadsInOrder' /\ ThreadsGo /\ DOMAIN threads' = DOMAIN threads
    BY <1>1, <1>2, <1>3, OneThread
<1> QED
    BY <1>1, <1>3, <1>4

(* A process that does nothing meanwhile is in order after the step. *)
LEMMA WaitingTalk ==
    ASSUME NegotiationIInv, ThreadsInOrder', ThreadsGo, IssuesGo, NEW p \in Negotiators, talk'[p] = talk[p]
    PROVE  TalkInOrder(p)'
<1>1. TalkInOrder(p) /\ ThreadsInOrder
    BY DEF NegotiationIInv, TalksInOrder
<1>2. CASE At(p, "idle") \/ At(p, "opening")
    BY <1>2 DEF TalkInOrder, At
<1>3. CASE ~ (At(p, "idle") \/ At(p, "opening"))
    <2>1. /\ talk[p].thread \in DOMAIN threads /\ talk[p].thread \in DOMAIN threads'
          /\ Follows(ThreadOf(p), ThreadOf(p)')
        BY <1>1, <1>3 DEF TalkInOrder, ThreadsGo, ThreadOf
    <2>2. Len(ThreadOf(p).entries) \in Nat /\ Len(ThreadOf(p)'.entries) \in Nat
        BY <1>1, <2>1, ThreadFacts DEF ThreadOf, ThreadsInOrder, ThreadInOrder
    <2>3. talk[p].seen \in 1 .. Len(ThreadOf(p).entries) =>
              talk[p].seen \in 1 .. Len(ThreadOf(p)'.entries) /\ CopyOf(p)' = CopyOf(p)
        BY <2>1, <2>2 DEF Follows, CopyOf
    <2>4. Paired(talk[p].thread, talk[p].pair) => Paired(talk[p].thread, talk[p].pair)'
        BY DEF Paired, IssuesGo
    <2> QED
        BY <1>1, <2>1, <2>3, <2>4 DEF TalkInOrder, At, IssuesGo, Follows
<1> QED
    BY <1>2, <1>3

LEMMA RestingTalk ==
    Resting \in TalkType /\ Resting.at = "idle"
BY DEF Resting, TalkType, PairType

LEMMA OneTalk ==
    ASSUME NegotiationIInv, ThreadsInOrder', ThreadsGo, IssuesGo, NEW p \in Negotiators,
           talk' \in [Negotiators -> TalkType],
           \A q \in Negotiators \ {p} : talk'[q] = talk[q], TalkInOrder(p)'
    PROVE  TalksInOrder'
BY WaitingTalk DEF TalksInOrder

LEMMA RestsInOrder ==
    ASSUME NegotiationIInv, ThreadsInOrder', ThreadsGo, IssuesGo, NEW p \in Negotiators, Rests(p)
    PROVE  TalksInOrder'
<1>1. talk' = [talk EXCEPT ![p] = Resting] /\ talk \in [Negotiators -> TalkType]
    BY DEF Rests, NegotiationIInv, TalksInOrder
<1>2. talk' \in [Negotiators -> TalkType] /\ talk'[p].at = "idle"
    BY <1>1, RestingTalk
<1>3. TalkInOrder(p)'
    BY <1>2 DEF TalkInOrder, At
<1> QED
    BY <1>1, <1>2, <1>3, OneTalk

LEMMA NothingMoves ==
    ASSUME NegotiationIInv, threads' = threads
    PROVE  ThreadsInOrder' /\ ThreadsGo /\ DOMAIN threads' = DOMAIN threads
<1>1. ThreadsInOrder
    BY DEF NegotiationIInv
<1>2. ThreadsInOrder'
    BY <1>1 DEF ThreadsInOrder, Negotiating
<1> QED
    BY <1>1, <1>2, ThreadFacts, FollowsItself DEF ThreadsGo

LEMMA SameIssues ==
    ASSUME NegotiationIInv, ThreadsGo, agreedIssues' = agreedIssues,
           \A t \in DOMAIN threads' : \/ t \in DOMAIN threads /\ threads'[t].refs = threads[t].refs
                                      \/ threads'[t].refs = None
                                      \/ Paired(t, threads'[t].refs)
    PROVE  IssuesInOrder' /\ IssuesGo
<1>1. IssuesInOrder
    BY DEF NegotiationIInv
<1>2. \A t, pair : Paired(t, pair)' = Paired(t, pair)
    BY DEF Paired
<1>3. \A t \in DOMAIN threads' : threads'[t].refs # None => Paired(t, threads'[t].refs)
    BY <1>1 DEF IssuesInOrder
<1> QED
    BY <1>1, <1>2, <1>3 DEF IssuesInOrder, IssuesGo, ThreadsGo, Follows, Paired

Places == {"idle", "opening", "turn", "reread", "status",
           "fThread", "fStatus", "fRefs", "fProvider", "fConsumer", "fRecord"}

LEMMA TalksOfType ==
    ASSUME NegotiationIInv, NEW p \in Negotiators, NEW there \in Places, NEW t \in Nat,
           NEW length \in Nat, TalksOf(p, there, t, length)
    PROVE  /\ talk' \in [Negotiators -> TalkType]
           /\ talk'[p].at = there /\ talk'[p].thread = t /\ talk'[p].seen = length
           /\ \A q \in Negotiators \ {p} : talk'[q] = talk[q]
<1> DEFINE next == [Resting EXCEPT !.at = there, !.thread = t, !.seen = length]
<1>1. next \in TalkType /\ next.at = there /\ next.thread = t /\ next.seen = length
    <2>1. DOMAIN Resting = {"at", "thread", "seen", "pair"}
        BY DEF Resting
    <2> QED
        BY <2>1, RestingTalk DEF TalkType, Places
<1>2. talk' = [talk EXCEPT ![p] = next] /\ talk \in [Negotiators -> TalkType]
    BY DEF TalksOf, NegotiationIInv, TalksInOrder
<1> HIDE DEF next
<1> QED
    BY <1>1, <1>2

LEMMA TalksType ==
    ASSUME NegotiationIInv, NEW p \in Negotiators, NEW there \in Places, Talks(p, there)
    PROVE  /\ talk' \in [Negotiators -> TalkType]
           /\ talk'[p].at = there /\ talk'[p].thread = talk[p].thread
           /\ talk'[p].pair = talk[p].pair /\ talk'[p].seen = talk[p].seen
           /\ \A q \in Negotiators \ {p} : talk'[q] = talk[q]
<1>1. talk \in [Negotiators -> TalkType] /\ talk[p] \in TalkType
    BY DEF NegotiationIInv, TalksInOrder
<1>2. talk' = [talk EXCEPT ![p] = [talk[p] EXCEPT !.at = there]]
    BY <1>1 DEF Talks
<1>3. [talk[p] EXCEPT !.at = there] \in TalkType
    BY <1>1 DEF TalkType, Places
<1> QED
    BY <1>1, <1>2, <1>3 DEF TalkType

LEMMA WholeCopy ==
    ASSUME ThreadsInOrder, NEW t \in DOMAIN threads
    PROVE  /\ SubSeq(threads[t].entries, 1, Len(threads[t].entries)) = threads[t].entries
           /\ Len(threads[t].entries) \in 1 .. Len(threads[t].entries)
BY ThreadFacts, RegularEntries, WholePart

LEMMA EvaluateInOrder ==
    ASSUME NegotiationIInv, threads' = threads, agreedIssues' = agreedIssues, NEW d \in Negotiators,
           NEW t \in DOMAIN threads, Evaluate(d, t, threads[t].entries)
    PROVE  TalksInOrder'
<1>1. ThreadsInOrder /\ ThreadsInOrder' /\ ThreadsGo /\ IssuesGo
    BY NothingMoves DEF NegotiationIInv, IssuesGo
<1>2. /\ t \in Nat /\ Len(threads[t].entries) \in Nat
      /\ SubSeq(threads[t].entries, 1, Len(threads[t].entries)) = threads[t].entries
      /\ Len(threads[t].entries) \in 1 .. Len(threads[t].entries)
    BY <1>1, ThreadFacts, WholeCopy
<1>3. ASSUME NEW there \in {"turn", "status"}, TalksOf(d, there, t, Len(threads[t].entries)),
             there = "turn" => Outcome(threads[t].entries) = "negotiating",
             there = "status" => Outcome(threads[t].entries) # "negotiating"
      PROVE  TalksInOrder'
    <2>1. /\ talk' \in [Negotiators -> TalkType]
          /\ talk'[d].at = there /\ talk'[d].thread = t /\ talk'[d].seen = Len(threads[t].entries)
          /\ \A q \in Negotiators \ {d} : talk'[q] = talk[q]
        BY <1>2, <1>3, TalksOfType DEF Places
    <2>2. TalkInOrder(d)'
        BY <1>2, <1>3, <2>1 DEF TalkInOrder, At, ThreadOf, CopyOf
    <2> QED
        BY <1>1, <2>1, <2>2, OneTalk
<1>4. CASE Rests(d)
    BY <1>1, <1>4, RestsInOrder
<1> QED
    BY <1>3, <1>4 DEF Evaluate

LEMMA DriverOpens ==
    ASSUME NegotiationIInv, NEW d \in Drivers, OpenOrResume(d) PROVE NegotiationKept
<1>1. /\ ThreadsInOrder' /\ ThreadsGo /\ IssuesGo /\ IssuesInOrder' /\ d \in Negotiators
      /\ threads' = threads /\ agreedIssues' = agreedIssues
    BY NothingMoves, SameIssues DEF OpenOrResume, Negotiators
<1>2. CASE Talks(d, "opening")
    <2>1. TalkInOrder(d)'
        BY <1>1, <1>2, TalksType DEF TalkInOrder, At, Places
    <2> QED
        BY <1>1, <1>2, <2>1, TalksType, OneTalk DEF Places, NegotiationIInv, NegotiationKept
<1>3. CASE \E t \in Negotiating : Evaluate(d, t, threads[t].entries)
    BY <1>1, <1>3, EvaluateInOrder DEF Negotiating, NegotiationIInv, NegotiationKept
<1> QED
    BY <1>2, <1>3 DEF OpenOrResume

LEMMA DriverOpensThread ==
    ASSUME NegotiationIInv, NEW d \in Drivers, NEW turn \in Turns, OpenThread(d, turn)
    PROVE  NegotiationKept
<1> DEFINE side == Opener[d]
           entry == Entry(side, 1, turn)
           same == SameOrigin(side)
<1>1. d \in Negotiators /\ side \in Sides /\ turn \in AllTurns /\ agreedIssues' = agreedIssues
    BY NegotiationAssumption DEF NegotiationAssumption, Negotiators, OpenThread
<1>2. ThreadsInOrder /\ threads \in Seq(ThreadType)
    BY DEF NegotiationIInv, ThreadsInOrder
<1>3. ASSUME NEW t \in DOMAIN threads', t \in Nat, TalksOf(d, "reread", t, 0),
             ThreadsInOrder', ThreadsGo, IssuesInOrder', IssuesGo
      PROVE  NegotiationKept
    <2>1. /\ talk' \in [Negotiators -> TalkType]
          /\ talk'[d].at = "reread" /\ talk'[d].thread = t
          /\ \A q \in Negotiators \ {d} : talk'[q] = talk[q]
        BY <1>1, <1>3, TalksOfType DEF Places
    <2>2. TalkInOrder(d)'
        BY <1>3, <2>1 DEF TalkInOrder, At
    <2> QED
        BY <1>1, <1>3, <2>1, <2>2, OneTalk DEF NegotiationIInv, NegotiationKept
<1> DEFINE thread == [status |-> "negotiating", entries |-> <<entry>>, open |-> TRUE,
                      contract |-> None, refs |-> None]
<1>4. CASE /\ same = {} /\ threads' = Append(threads, thread)
           /\ TalksOf(d, "reread", Len(threads) + 1, 0)
    <2>1. Regular(<<entry>>) /\ entry.side = side
        BY <1>1, OpeningRegular
    <2>2. /\ thread \in ThreadType /\ ThreadInOrder(thread) /\ thread.entries[1].side = side
          /\ thread.refs = None
        BY <2>1, RegularEntries DEF ThreadType, ThreadInOrder, AnyContract
    <2> HIDE DEF thread
    <2>3. /\ threads' \in Seq(ThreadType) /\ DOMAIN threads' = 1 .. Len(threads) + 1
          /\ DOMAIN threads = 1 .. Len(threads) /\ Len(threads) \in Nat
          /\ threads'[Len(threads) + 1] = thread
          /\ \A t \in DOMAIN threads : threads'[t] = threads[t]
        BY <1>2, <1>4, <2>2, AppendFacts
    <2>4. \A t \in DOMAIN threads' : t \in DOMAIN threads \/ t = Len(threads) + 1
        BY <2>3
    <2>5. ASSUME NEW t \in Negotiating PROVE threads[t].entries[1].side # side
        BY <1>2, <1>4, <2>5 DEF SameOrigin, Negotiating, ThreadsInOrder, ThreadInOrder
    <2>6. ASSUME NEW t \in Negotiating', NEW u \in Negotiating',
                 threads'[t].entries[1].side = threads'[u].entries[1].side
          PROVE  t = u
        <3>1. \A v \in Negotiating' : v = Len(threads) + 1 \/ (v \in Negotiating /\ threads'[v] = threads[v])
            BY <2>3, <2>4 DEF Negotiating
        <3> QED
            BY <1>2, <2>2, <2>3, <2>5, <2>6, <3>1 DEF ThreadsInOrder
    <2>7. ThreadsInOrder'
        BY <1>2, <2>2, <2>3, <2>4, <2>6 DEF ThreadsInOrder
    <2>8. ThreadsGo
        BY <1>2, <2>3, ThreadFacts, FollowsItself DEF ThreadsGo
    <2>9. IssuesInOrder' /\ IssuesGo
        BY <1>1, <2>2, <2>3, <2>4, <2>8, SameIssues
    <2>10. Len(threads) + 1 \in DOMAIN threads' /\ Len(threads) + 1 \in Nat
        BY <2>3
    <2> QED
        BY <1>3, <1>4, <2>7, <2>8, <2>9, <2>10
<1>5. CASE threads' = threads
    <2>1. ThreadsInOrder' /\ ThreadsGo /\ IssuesInOrder' /\ IssuesGo
        BY <1>1, <1>5, NothingMoves, SameIssues
    <2>2. CASE same # {} /\ TalksOf(d, "reread", Min(same), 0)
        <3>1. same \subseteq 1 .. Len(threads) /\ Len(threads) \in Nat /\ same \subseteq Nat
            BY <1>2, LenProperties DEF SameOrigin
        <3>2. Min(same) \in same
            <4> HIDE DEF same
            <4> QED
                BY <2>2, <3>1, MinInside
        <3> QED
            BY <1>2, <1>3, <1>5, <2>1, <2>2, <3>1, <3>2, LenProperties
    <2>3. CASE Rests(d)
        BY <1>1, <2>1, <2>3, RestsInOrder DEF NegotiationIInv, NegotiationKept
    <2> QED
        BY <1>4, <1>5, <2>2, <2>3 DEF OpenThread
<1> QED
    BY <1>4, <1>5 DEF OpenThread

LEMMA DriverRereads ==
    ASSUME NegotiationIInv, NEW d \in Drivers, Reread(d) PROVE NegotiationKept
<1>1. /\ ThreadsInOrder' /\ ThreadsGo /\ IssuesGo /\ IssuesInOrder' /\ d \in Negotiators
      /\ threads' = threads /\ agreedIssues' = agreedIssues
    BY NothingMoves, SameIssues DEF Reread, Negotiators
<1>2. talk[d].thread \in DOMAIN threads
    BY <1>1 DEF Reread, NegotiationIInv, TalksInOrder, TalkInOrder, At
<1> QED
    BY <1>1, <1>2, EvaluateInOrder DEF Reread, ThreadOf, NegotiationIInv, NegotiationKept

LEMMA ReplyFollows ==
    ASSUME NEW thread \in ThreadType, ThreadInOrder(thread), thread.status = "negotiating",
           Outcome(thread.entries) = "negotiating", NEW turn \in AllTurns, NEW entry,
           entry = Entry(OtherSide(thread.entries[Len(thread.entries)].side),
                         Len(thread.entries) + 1, turn)
    PROVE  LET after == [thread EXCEPT !.entries = Append(@, entry)]
           IN  /\ after \in ThreadType /\ ThreadInOrder(after) /\ Follows(thread, after)
               /\ after.refs = thread.refs
<1> DEFINE entries == Append(thread.entries, entry)
           after == [thread EXCEPT !.entries = Append(@, entry)]
<1>1. Regular(thread.entries) /\ thread.open = TRUE
    BY DEF ThreadInOrder
<1>2. /\ Regular(entries) /\ Len(entries) = Len(thread.entries) + 1
      /\ \A n \in 1 .. Len(thread.entries) :
            /\ entries[n] = thread.entries[n]
            /\ SubSeq(entries, 1, n) = SubSeq(thread.entries, 1, n)
    BY <1>1, ReplyRegular
<1>3. /\ after.entries = entries /\ after.status = "negotiating" /\ after.open = TRUE
      /\ after.contract = thread.contract /\ after.refs = thread.refs
    BY <1>1 DEF ThreadType
<1>4. after \in ThreadType
    BY <1>2, RegularEntries DEF ThreadType
<1> HIDE DEF entries, after
<1>5. Len(thread.entries) \in Nat \ {0}
    BY <1>1, RegularEntries
<1>6. ThreadInOrder(after)
    BY <1>2, <1>3 DEF ThreadInOrder
<1>7. Follows(thread, after)
    BY <1>2, <1>3, <1>5 DEF Follows
<1> QED
    BY <1>3, <1>4, <1>6, <1>7 DEF after

(* A reply to a copy that has been overtaken is of an origin that is there.   *)
LEMMA DriverReplies ==
    ASSUME NegotiationIInv, NEW d \in Drivers, NEW turn \in Turns, NEW answered \in BOOLEAN,
           TakeTurn(d, turn, answered)
    PROVE  NegotiationKept
<1> DEFINE t == talk[d].thread
           before == threads[t].entries
           seen == talk[d].seen
           side == OtherSide(CopyOf(d)[seen].side)
           entry == Entry(side, seen + 1, turn)
           thread == [threads[t] EXCEPT !.entries = Append(@, entry)]
<1>1. /\ d \in Negotiators /\ turn \in AllTurns /\ agreedIssues' = agreedIssues /\ At(d, "turn")
      /\ ReplyAccepts(threads[t], side, seen + 1)
    BY NegotiationAssumption DEF NegotiationAssumption, Negotiators, TakeTurn, ThreadOf
<1>2. /\ t \in DOMAIN threads /\ seen \in 1 .. Len(before)
      /\ Outcome(SubSeq(before, 1, seen)) = "negotiating"
    BY <1>1 DEF NegotiationIInv, TalksInOrder, TalkInOrder, At, ThreadOf, CopyOf
<1>3. /\ ThreadsInOrder /\ threads[t] \in ThreadType /\ ThreadInOrder(threads[t])
      /\ Regular(before) /\ before \in Seq(EntryType)
      /\ Len(before) \in Nat \ {0} /\ DOMAIN before = 1 .. Len(before)
    BY <1>2, ThreadFacts, RegularEntries DEF NegotiationIInv
<1>4. CopyOf(d)[seen] = before[seen]
    <2>1. SubSeq(before, 1, seen)[seen] = before[1 + seen - 1]
        BY <1>2, <1>3, ElementOfSeq, SubSeqProperties
    <2> QED
        BY <1>2, <1>3, <2>1 DEF CopyOf, ThreadOf
<1>5. seen = Len(before)
    <2> SUFFICES ASSUME seen # Len(before) PROVE FALSE
        OBVIOUS
    <2>1. seen + 1 \in 1 .. Len(before) /\ seen + 1 > 1 /\ (seen + 1) - 1 = seen
        BY <1>2, <1>3
    <2>2. before[seen + 1].round = seen + 1 /\ before[seen + 1].side = OtherSide(before[seen].side)
        BY <1>3, <2>1 DEF Regular
    <2> QED
        BY <1>1, <1>3, <1>4, <2>1, <2>2 DEF ReplyAccepts
<1>6. Outcome(before) = "negotiating"
    BY <1>2, <1>3, <1>5, WholePart
<1>7. entry = Entry(OtherSide(before[Len(before)].side), Len(before) + 1, turn)
    BY <1>4, <1>5
<1>8. threads[t].status = "negotiating"
    BY <1>1 DEF ReplyAccepts
<1>9. thread \in ThreadType /\ ThreadInOrder(thread) /\ thread.refs = threads[t].refs
      /\ Follows(threads[t], thread)
    BY <1>1, <1>3, <1>6, <1>7, <1>8, ReplyFollows
<1>12. threads' = [threads EXCEPT ![t] = thread]
    BY <1>2, <1>3 DEF TakeTurn
<1> HIDE DEF thread
<1>13. ThreadsInOrder' /\ ThreadsGo /\ DOMAIN threads' = DOMAIN threads
    BY <1>2, <1>3, <1>9, <1>12, OneThread
<1>14. \A u \in DOMAIN threads' : threads'[u].refs = threads[u].refs
    BY <1>2, <1>9, <1>12, <1>13
<1>15. IssuesInOrder' /\ IssuesGo
    BY <1>1, <1>13, <1>14, SameIssues
<1>16. CASE Rests(d)
    BY <1>1, <1>13, <1>15, <1>16, RestsInOrder DEF NegotiationIInv, NegotiationKept
<1>17. CASE Talks(d, "reread")
    <2>1. TalkInOrder(d)'
        BY <1>1, <1>2, <1>13, <1>17, TalksType DEF TalkInOrder, At, Places
    <2> QED
        BY <1>1, <1>13, <1>15, <1>17, <2>1, TalksType, OneTalk DEF Places, NegotiationIInv, NegotiationKept
<1> QED
    BY <1>16, <1>17 DEF TakeTurn

(* Steps that only send a process to rest, or to another place in the order.  *)
LEMMA OnlyTalk ==
    ASSUME NegotiationIInv, UNCHANGED <<threads, agreedIssues>>
    PROVE  /\ ThreadsInOrder' /\ ThreadsGo /\ IssuesInOrder' /\ IssuesGo
           /\ \A p \in Negotiators : Rests(p) => NegotiationKept
<1>1. ThreadsInOrder' /\ ThreadsGo /\ IssuesInOrder' /\ IssuesGo
    BY NothingMoves, SameIssues
<1> QED
    BY <1>1, RestsInOrder DEF NegotiationIInv, NegotiationKept

LEMMA DecidedThread ==
    ASSUME ThreadsInOrder, NEW t \in Negotiating, NEW n \in 1 .. Len(threads[t].entries),
           NEW copy, copy = SubSeq(threads[t].entries, 1, n), Outcome(copy) # "negotiating"
    PROVE  LET thread == [threads[t] EXCEPT
                   !.status = Outcome(copy),
                   !.contract = IF Outcome(copy) = "agreed" THEN LatestContract(copy) ELSE None]
           IN  /\ Decided(t, copy) = [threads EXCEPT ![t] = thread]
               /\ thread \in ThreadType /\ ThreadInOrder(thread) /\ Follows(threads[t], thread)
               /\ thread.refs = threads[t].refs /\ thread.status = Outcome(copy)
<1> DEFINE thread == [threads[t] EXCEPT
                !.status = Outcome(copy),
                !.contract = IF Outcome(copy) = "agreed" THEN LatestContract(copy) ELSE None]
<1>1. /\ t \in DOMAIN threads /\ threads[t] \in ThreadType /\ Regular(threads[t].entries)
      /\ threads[t].status = "negotiating"
    BY ThreadFacts DEF Negotiating
<1>2. copy = threads[t].entries /\ copy \in Seq(EntryType)
    BY <1>1, ConcludedCopy, RegularEntries
<1>3. Outcome(copy) \in {"agreed", "blocked"}
    BY OutcomeType
<1>4. /\ thread.status = Outcome(copy) /\ thread.entries = threads[t].entries
      /\ thread.refs = threads[t].refs
      /\ Outcome(copy) = "agreed" => thread.contract = LatestContract(copy)
    BY <1>1 DEF ThreadType
<1>5. thread \in ThreadType
    <2>1. (IF Outcome(copy) = "agreed" THEN LatestContract(copy) ELSE None) \in AnyContract
        BY <1>2 DEF AnyContract
    <2> QED
        BY <1>1, <1>3, <2>1 DEF ThreadType
<1>6. Decided(t, copy) = [threads EXCEPT ![t] = thread]
    BY <1>1 DEF Decided
<1> HIDE DEF thread
<1>7. ThreadInOrder(thread)
    BY <1>1, <1>2, <1>3, <1>4 DEF ThreadInOrder
<1>8. Follows(threads[t], thread)
    BY <1>1, <1>4, RegularEntries DEF Follows
<1> QED
    BY <1>4, <1>5, <1>6, <1>7, <1>8 DEF thread

(* A status is set from a copy that concludes the thread: the whole of it.   *)
LEMMA StatusSet ==
    ASSUME NegotiationIInv, NEW p \in Negotiators, NEW here \in {"status", "fStatus"},
           NEW agreed \in BOOLEAN, SetStatus(p, here, agreed)
    PROVE  /\ ThreadsInOrder' /\ ThreadsGo /\ IssuesInOrder' /\ IssuesGo /\ At(p, here)
           /\ \/ Rests(p)
              \/ /\ agreed /\ talk[p].thread \in DOMAIN threads'
                 /\ threads'[talk[p].thread].status = "agreed"
<1> DEFINE t == talk[p].thread
           copy == CopyOf(p)
           thread == [threads[t] EXCEPT
                !.status = Outcome(copy),
                !.contract = IF Outcome(copy) = "agreed" THEN LatestContract(copy) ELSE None]
<1>1. At(p, here) /\ agreedIssues' = agreedIssues /\ ThreadsInOrder
    BY DEF SetStatus, NegotiationIInv
<1>2. CASE t \notin Negotiating
    BY <1>1, <1>2, OnlyTalk DEF SetStatus
<1>3. CASE t \in Negotiating
    <2>1. /\ t \in DOMAIN threads /\ talk[p].seen \in 1 .. Len(threads[t].entries)
          /\ copy = SubSeq(threads[t].entries, 1, talk[p].seen) /\ Outcome(copy) # "negotiating"
        BY <1>1 DEF NegotiationIInv, TalksInOrder, TalkInOrder, At, ThreadOf, CopyOf
    <2>2. /\ Decided(t, copy) = [threads EXCEPT ![t] = thread]
          /\ thread \in ThreadType /\ ThreadInOrder(thread) /\ Follows(threads[t], thread)
          /\ thread.refs = threads[t].refs /\ thread.status = Outcome(copy)
        BY <1>1, <1>3, <2>1, DecidedThread
    <2> HIDE DEF copy, thread
    <2>3. CASE Outcome(copy) = "agreed"
        <3>1. agreed /\ threads' = [threads EXCEPT ![t] = thread]
            BY <1>3, <2>2, <2>3 DEF SetStatus, copy
        <3>2. ThreadsInOrder' /\ ThreadsGo /\ DOMAIN threads' = DOMAIN threads
            BY <1>1, <2>1, <2>2, <3>1, OneThread
        <3>3. \A u \in DOMAIN threads' : threads'[u].refs = threads[u].refs
            BY <2>2, <3>1, <3>2
        <3>4. threads'[t].status = "agreed"
            BY <2>1, <2>2, <2>3, <3>1
        <3> QED
            BY <1>1, <2>1, <3>1, <3>2, <3>3, <3>4, SameIssues
    <2>4. CASE Outcome(copy) # "agreed"
        <3>1. Rests(p) /\ Settled(t, [threads EXCEPT ![t] = thread])
            BY <1>3, <2>2, <2>4 DEF SetStatus, copy
        <3>2. /\ ThreadsInOrder' /\ ThreadsGo /\ DOMAIN threads' = DOMAIN threads
              /\ threads'[t].refs = thread.refs
              /\ \A u \in DOMAIN threads \ {t} : threads'[u] = threads[u]
            BY <1>1, <2>1, <2>2, <3>1, SettledThread
        <3>3. \A u \in DOMAIN threads' : threads'[u].refs = threads[u].refs
            BY <2>2, <3>2
        <3> QED
            BY <1>1, <3>1, <3>2, <3>3, SameIssues
    <2> QED
        BY <2>3, <2>4
<1> QED
    BY <1>2, <1>3

LEMMA Cancelled ==
    ASSUME NegotiationIInv, NEW t \in DOMAIN threads, Cancel(t) PROVE NegotiationKept
<1> DEFINE thread == [threads[t] EXCEPT !.status = "cancelled"]
<1>1. /\ ThreadsInOrder /\ threads[t] \in ThreadType /\ ThreadInOrder(threads[t])
      /\ Regular(threads[t].entries) /\ talk' = talk /\ agreedIssues' = agreedIssues
      /\ threads[t].status \in {"negotiating", "cancelled"}
    BY ThreadFacts DEF NegotiationIInv, Cancel
<1>2. /\ thread \in ThreadType /\ thread.status = "cancelled" /\ thread.refs = threads[t].refs
      /\ thread.entries = threads[t].entries
    BY <1>1 DEF ThreadType
<1>3. Settled(t, [threads EXCEPT ![t] = thread])
    BY <1>1 DEF Cancel
<1> HIDE DEF thread
<1>4. ThreadInOrder(thread) /\ Follows(threads[t], thread)
    BY <1>1, <1>2, RegularEntries DEF ThreadInOrder, Follows
<1>5. /\ ThreadsInOrder' /\ ThreadsGo /\ DOMAIN threads' = DOMAIN threads
      /\ \A u \in DOMAIN threads' : threads'[u].refs = threads[u].refs
    BY <1>1, <1>2, <1>3, <1>4, SettledThread
<1>6. IssuesInOrder' /\ IssuesGo
    BY <1>1, <1>5, SameIssues
<1>7. TalksInOrder'
    BY <1>1, <1>5, <1>6, WaitingTalk DEF NegotiationIInv, TalksInOrder
<1> QED
    BY <1>5, <1>6, <1>7 DEF NegotiationIInv, NegotiationKept

LEMMA FinalizerReads ==
    ASSUME NegotiationIInv, NEW f \in Finalizers,
           \/ \E t \in DOMAIN threads : FinalizeReadsStatus(f, t)
           \/ FinalizeReadsThread(f)
    PROVE  NegotiationKept
<1>1. /\ f \in Negotiators /\ threads' = threads /\ agreedIssues' = agreedIssues
      /\ ThreadsInOrder /\ ThreadsInOrder' /\ ThreadsGo /\ IssuesInOrder' /\ IssuesGo
    BY OnlyTalk DEF FinalizeReadsStatus, FinalizeReadsThread, Negotiators, NegotiationIInv
<1>2. ASSUME NEW there \in Places, NEW t \in DOMAIN threads, NEW length \in Nat,
             TalksOf(f, there, t, length),
             \/ there = "fThread" \/ (there = "fRefs" /\ threads[t].status = "agreed")
             \/ /\ there = "fStatus" /\ length = Len(threads[t].entries)
                /\ Outcome(threads[t].entries) # "negotiating"
      PROVE  NegotiationKept
    <2>1. /\ talk' \in [Negotiators -> TalkType]
          /\ talk'[f].at = there /\ talk'[f].thread = t /\ talk'[f].seen = length
          /\ \A q \in Negotiators \ {f} : talk'[q] = talk[q]
        BY <1>1, <1>2, ThreadFacts, TalksOfType
    <2>2. TalkInOrder(f)'
        BY <1>1, <1>2, <2>1, WholeCopy DEF TalkInOrder, At, ThreadOf, CopyOf
    <2> QED
        BY <1>1, <2>1, <2>2, OneTalk DEF NegotiationIInv, NegotiationKept
<1>3. ASSUME NEW t \in DOMAIN threads, FinalizeReadsStatus(f, t) PROVE NegotiationKept
    BY <1>2, <1>3 DEF FinalizeReadsStatus, Places
<1>4. CASE FinalizeReadsThread(f)
    <2>1. talk[f].thread \in DOMAIN threads
        BY <1>1, <1>4 DEF FinalizeReadsThread, NegotiationIInv, TalksInOrder, TalkInOrder, At
    <2>2. Len(threads[talk[f].thread].entries) \in Nat
        BY <1>1, <2>1, ThreadFacts
    <2>3. CASE Rests(f)
        BY <1>1, <2>3, OnlyTalk
    <2>4. CASE ~ Rests(f)
        BY <1>2, <1>4, <2>1, <2>2, <2>4 DEF FinalizeReadsThread, ThreadOf, Places
    <2> QED
        BY <2>3, <2>4
<1> QED
    BY <1>3, <1>4

LEMMA FinalizerDecides ==
    ASSUME NegotiationIInv, NEW f \in Finalizers, FinalizerSetsStatus(f) PROVE NegotiationKept
<1>1. /\ f \in Negotiators /\ ThreadsInOrder' /\ ThreadsGo /\ IssuesInOrder' /\ IssuesGo
      /\ \/ Rests(f)
         \/ /\ Talks(f, "fRefs") /\ talk[f].thread \in DOMAIN threads'
            /\ threads'[talk[f].thread].status = "agreed"
    <2>1. Talks(f, "fRefs") \in BOOLEAN
        BY DEF Talks
    <2> QED
        BY <2>1, StatusSet DEF FinalizerSetsStatus, Negotiators
<1>2. CASE Rests(f)
    BY <1>1, <1>2, RestsInOrder DEF NegotiationIInv, NegotiationKept
<1>3. CASE /\ Talks(f, "fRefs") /\ talk[f].thread \in DOMAIN threads'
           /\ threads'[talk[f].thread].status = "agreed"
    <2>1. TalkInOrder(f)'
        BY <1>1, <1>3, TalksType DEF TalkInOrder, At, ThreadOf, Places
    <2> QED
        BY <1>1, <1>3, <2>1, TalksType, OneTalk DEF Places, NegotiationIInv, NegotiationKept
<1> QED
    BY <1>1, <1>2, <1>3

(* The thread of a finalization past its first reads is agreed. *)
LEMMA AgreedThread ==
    ASSUME NegotiationIInv, NEW f \in Negotiators,
           talk[f].at \in {"fRefs", "fProvider", "fConsumer", "fRecord"}
    PROVE  LET t == talk[f].thread
           IN  /\ t \in DOMAIN threads /\ threads[t] \in ThreadType /\ threads[t].status = "agreed"
               /\ ThreadInOrder(threads[t]) /\ Regular(threads[t].entries) /\ t \in Nat
               /\ ThreadsInOrder /\ threads[t].contract \in AnyContract
<1>1. /\ talk[f].thread \in DOMAIN threads /\ ThreadsInOrder
      /\ threads[talk[f].thread].status = "agreed"
    BY DEF NegotiationIInv, TalksInOrder, TalkInOrder, At, ThreadOf
<1> QED
    BY <1>1, ThreadFacts DEF ThreadType

LEMMA FinalizerReadsRefs ==
    ASSUME NegotiationIInv, NEW f \in Finalizers, FinalizeReadsRefs(f) PROVE NegotiationKept
<1> DEFINE t == talk[f].thread
<1>1. /\ f \in Negotiators /\ At(f, "fRefs") /\ agreedIssues' = agreedIssues /\ t \in DOMAIN threads
      /\ threads[t] \in ThreadType /\ threads[t].status = "agreed" /\ ThreadsInOrder
      /\ ThreadInOrder(threads[t]) /\ Regular(threads[t].entries)
    BY AgreedThread DEF FinalizeReadsRefs, Negotiators, At
<1>2. CASE Rests(f) /\ Settled(t, threads)
    <2>1. threads = [threads EXCEPT ![t] = threads[t]]
        BY <1>1 DEF ThreadsInOrder
    <2>2. /\ ThreadsInOrder' /\ ThreadsGo /\ DOMAIN threads' = DOMAIN threads
          /\ threads'[t].refs = threads[t].refs
          /\ \A u \in DOMAIN threads \ {t} : threads'[u] = threads[u]
        BY <1>1, <1>2, <2>1, FollowsItself, SettledThread
    <2>3. IssuesInOrder' /\ IssuesGo
        BY <1>1, <2>2, SameIssues
    <2> QED
        BY <1>1, <1>2, <2>2, <2>3, RestsInOrder DEF NegotiationIInv, NegotiationKept
<1>3. CASE Talks(f, "fProvider") /\ threads' = threads
    <2>1. ThreadsInOrder' /\ ThreadsGo /\ IssuesInOrder' /\ IssuesGo
        BY <1>1, <1>3, OnlyTalk
    <2>2. TalkInOrder(f)'
        BY <1>1, <1>3, TalksType DEF TalkInOrder, At, ThreadOf, Places
    <2> QED
        BY <1>1, <1>3, <2>1, <2>2, TalksType, OneTalk DEF Places, NegotiationIInv, NegotiationKept
<1> QED
    BY <1>2, <1>3 DEF FinalizeReadsRefs, ThreadOf

(* An issue is made with the contract of an agreed thread. *)
LEMMA IssueMade ==
    ASSUME NegotiationIInv, NEW f \in Negotiators, talk[f].at \in {"fProvider", "fConsumer"},
           NEW provider \in Nat \cup {None}, threads' = threads,
           NEW issue, issue = [thread |-> talk[f].thread, provider |-> provider,
                               contract |-> ThreadOf(f).contract],
           agreedIssues' = Append(agreedIssues, issue)
    PROVE  /\ ThreadsInOrder' /\ ThreadsGo /\ IssuesInOrder' /\ IssuesGo
           /\ Len(agreedIssues) \in Nat /\ Len(agreedIssues) + 1 \in DOMAIN agreedIssues'
           /\ agreedIssues'[Len(agreedIssues) + 1] = issue
<1>1. /\ talk[f].thread \in DOMAIN threads /\ talk[f].thread \in Nat
      /\ threads[talk[f].thread].status = "agreed"
      /\ threads[talk[f].thread].contract \in AnyContract
    BY AgreedThread
<1>2. issue \in IssueType
    BY <1>1 DEF IssueType, ThreadOf
<1>3. IssuesInOrder /\ agreedIssues \in Seq(IssueType)
    BY DEF NegotiationIInv, IssuesInOrder
<1>4. /\ agreedIssues' \in Seq(IssueType) /\ Len(agreedIssues) \in Nat /\ DOMAIN agreedIssues' = 1 .. Len(agreedIssues) + 1
      /\ agreedIssues'[Len(agreedIssues) + 1] = issue /\ DOMAIN agreedIssues = 1 .. Len(agreedIssues)
      /\ \A n \in DOMAIN agreedIssues : agreedIssues'[n] = agreedIssues[n]
    BY <1>2, <1>3, AppendFacts
<1>5. \A n \in DOMAIN agreedIssues' : n \in DOMAIN agreedIssues \/ n = Len(agreedIssues) + 1
    BY <1>4
<1>6. IssuesGo
    BY <1>4 DEF IssuesGo
<1>7. \A t \in DOMAIN threads : \A pair : Paired(t, pair) => Paired(t, pair)'
    BY <1>6 DEF Paired, IssuesGo
<1>8. \A n \in DOMAIN agreedIssues' :
          /\ agreedIssues'[n].thread \in DOMAIN threads
          /\ threads[agreedIssues'[n].thread].status = "agreed"
          /\ threads[agreedIssues'[n].thread].contract = agreedIssues'[n].contract
    BY <1>1, <1>3, <1>4, <1>5 DEF IssuesInOrder, ThreadOf
<1>9. IssuesInOrder'
    BY <1>3, <1>4, <1>7, <1>8 DEF IssuesInOrder
<1> QED
    BY <1>4, <1>6, <1>9, NothingMoves

LEMMA FinalizerCreates ==
    ASSUME NegotiationIInv, NEW f \in Finalizers, NEW answered \in BOOLEAN,
           CreateProvider(f, answered) \/ CreateConsumer(f, answered)
    PROVE  NegotiationKept
<1>1. f \in Negotiators /\ talk \in [Negotiators -> TalkType] /\ talk[f] \in TalkType
      /\ talk[f].pair \in [1 .. 2 -> Nat \cup {None}]
    BY DEF Negotiators, NegotiationIInv, TalksInOrder, TalkType, PairType
<1>2. ASSUME NEW half \in 1 .. 2, NEW there \in {"fConsumer", "fRecord"}, Len(agreedIssues) \in Nat,
             talk' = [talk EXCEPT ![f].at = there, ![f].pair[half] = Len(agreedIssues) + 1]
      PROVE  /\ talk' \in [Negotiators -> TalkType]
             /\ talk'[f].at = there /\ talk'[f].thread = talk[f].thread
             /\ talk'[f].pair[half] = Len(agreedIssues) + 1
             /\ \A n \in 1 .. 2 : n # half => talk'[f].pair[n] = talk[f].pair[n]
             /\ \A q \in Negotiators \ {f} : talk'[q] = talk[q]
    <2> DEFINE pair == [talk[f].pair EXCEPT ![half] = Len(agreedIssues) + 1]
    <2>1. pair \in PairType
        BY <1>1, <1>2 DEF PairType
    <2>2. talk' = [talk EXCEPT ![f] = [talk[f] EXCEPT !.at = there, !.pair = pair]]
        BY <1>1, <1>2 DEF TalkType
    <2>3. [talk[f] EXCEPT !.at = there, !.pair = pair] \in TalkType
        BY <1>1, <2>1 DEF TalkType
    <2>4. pair[half] = Len(agreedIssues) + 1 /\ \A n \in 1 .. 2 : n # half => pair[n] = talk[f].pair[n]
        BY <1>1
    <2> HIDE DEF pair
    <2> QED
        BY <1>1, <2>2, <2>3, <2>4 DEF TalkType
<1>3. CASE CreateProvider(f, answered)
    <2> DEFINE issue == [thread |-> talk[f].thread, provider |-> None,
                         contract |-> ThreadOf(f).contract]
    <2>1. /\ talk[f].at = "fProvider" /\ threads' = threads /\ agreedIssues' = Append(agreedIssues, issue)
        BY <1>3 DEF CreateProvider, Creates, At
    <2>2. issue.thread = talk[f].thread
        OBVIOUS
    <2>3. /\ ThreadsInOrder' /\ ThreadsGo /\ IssuesInOrder' /\ IssuesGo
          /\ Len(agreedIssues) \in Nat /\ Len(agreedIssues) + 1 \in DOMAIN agreedIssues'
          /\ agreedIssues'[Len(agreedIssues) + 1] = issue
        BY <1>1, <2>1, IssueMade
    <2> HIDE DEF issue
    <2>4. CASE Rests(f)
        BY <1>1, <2>3, <2>4, RestsInOrder DEF NegotiationIInv, NegotiationKept
    <2>5. CASE talk' = [talk EXCEPT ![f].at = "fConsumer", ![f].pair[1] = Len(agreedIssues) + 1]
        <3>1. /\ talk' \in [Negotiators -> TalkType]
              /\ talk'[f].at = "fConsumer" /\ talk'[f].thread = talk[f].thread
              /\ talk'[f].pair[1] = Len(agreedIssues) + 1
              /\ \A q \in Negotiators \ {f} : talk'[q] = talk[q]
            BY <1>2, <2>3, <2>5
        <3>2. talk[f].thread \in DOMAIN threads /\ threads[talk[f].thread].status = "agreed"
            BY <1>1, <2>1, AgreedThread
        <3>3. TalkInOrder(f)'
            BY <2>1, <2>2, <2>3, <3>1, <3>2 DEF TalkInOrder, At, ThreadOf
        <3> QED
            BY <1>1, <2>3, <3>1, <3>3, OneTalk DEF NegotiationIInv, NegotiationKept
    <2> QED
        BY <1>3, <2>4, <2>5 DEF CreateProvider, Creates
<1>4. CASE CreateConsumer(f, answered)
    <2> DEFINE issue == [thread |-> talk[f].thread, provider |-> talk[f].pair[1],
                         contract |-> ThreadOf(f).contract]
    <2>1. /\ talk[f].at = "fConsumer" /\ threads' = threads /\ agreedIssues' = Append(agreedIssues, issue)
        BY <1>4 DEF CreateConsumer, Creates, At
    <2>2. issue.provider = talk[f].pair[1]
        OBVIOUS
    <2>3. /\ ThreadsInOrder' /\ ThreadsGo /\ IssuesInOrder' /\ IssuesGo
          /\ Len(agreedIssues) \in Nat /\ Len(agreedIssues) + 1 \in DOMAIN agreedIssues'
          /\ agreedIssues'[Len(agreedIssues) + 1] = issue
        <3>1. talk[f].pair[1] \in Nat \cup {None}
            BY <1>1
        <3> QED
            BY <1>1, <2>1, <3>1, IssueMade
    <2> HIDE DEF issue
    <2>4. CASE Rests(f)
        BY <1>1, <2>3, <2>4, RestsInOrder DEF NegotiationIInv, NegotiationKept
    <2>5. CASE talk' = [talk EXCEPT ![f].at = "fRecord", ![f].pair[2] = Len(agreedIssues) + 1]
        <3>1. /\ talk' \in [Negotiators -> TalkType]
              /\ talk'[f].at = "fRecord" /\ talk'[f].thread = talk[f].thread
              /\ talk'[f].pair[2] = Len(agreedIssues) + 1 /\ talk'[f].pair[1] = talk[f].pair[1]
              /\ \A q \in Negotiators \ {f} : talk'[q] = talk[q]
            BY <1>2, <2>3, <2>5
        <3>2. talk[f].thread \in DOMAIN threads /\ threads[talk[f].thread].status = "agreed"
            BY <1>1, <2>1, AgreedThread
        <3>3. talk[f].pair[1] \in DOMAIN agreedIssues /\ agreedIssues[talk[f].pair[1]].thread = talk[f].thread
            BY <1>1, <2>1 DEF NegotiationIInv, TalksInOrder, TalkInOrder
        <3>4. TalkInOrder(f)'
            BY <2>1, <2>2, <2>3, <3>1, <3>2, <3>3 DEF TalkInOrder, At, ThreadOf, Paired, IssuesGo
        <3> QED
            BY <1>1, <2>3, <3>1, <3>4, OneTalk DEF NegotiationIInv, NegotiationKept
    <2> QED
        BY <1>4, <2>4, <2>5 DEF CreateConsumer, Creates
<1> QED
    BY <1>3, <1>4

LEMMA FinalizerRecords ==
    ASSUME NegotiationIInv, NEW f \in Finalizers, RecordRefs(f) PROVE NegotiationKept
<1> DEFINE t == talk[f].thread
           thread == [threads[t] EXCEPT !.refs = talk[f].pair]
<1>1. /\ f \in Negotiators /\ At(f, "fRecord") /\ agreedIssues' = agreedIssues /\ t \in DOMAIN threads
      /\ threads[t] \in ThreadType /\ threads[t].status = "agreed" /\ ThreadsInOrder
      /\ ThreadInOrder(threads[t]) /\ Regular(threads[t].entries) /\ talk[f].pair \in PairType
      /\ Paired(t, talk[f].pair) /\ Rests(f)
    BY AgreedThread DEF RecordRefs, Negotiators, At, NegotiationIInv, TalksInOrder, TalkInOrder,
       TalkType
<1>2. /\ thread \in ThreadType /\ thread.refs = talk[f].pair /\ thread.status = "agreed"
      /\ thread.entries = threads[t].entries /\ thread.contract = threads[t].contract
    BY <1>1 DEF ThreadType
<1>3. Settled(t, [threads EXCEPT ![t] = thread])
    BY <1>1 DEF RecordRefs
<1> HIDE DEF thread
<1>4. ThreadInOrder(thread) /\ Follows(threads[t], thread)
    BY <1>1, <1>2, RegularEntries DEF ThreadInOrder, Follows
<1>5. /\ ThreadsInOrder' /\ ThreadsGo /\ DOMAIN threads' = DOMAIN threads
      /\ threads'[t].refs = talk[f].pair
      /\ \A u \in DOMAIN threads \ {t} : threads'[u] = threads[u]
    BY <1>1, <1>2, <1>3, <1>4, SettledThread
<1>6. IssuesInOrder' /\ IssuesGo
    BY <1>1, <1>5, SameIssues
<1> QED
    BY <1>1, <1>5, <1>6, RestsInOrder DEF NegotiationIInv, NegotiationKept

LEMMA NegotiationStep ==
    ASSUME NegotiationIInv, [NegotiationNext]_negotiationVars PROVE NegotiationKept
<1>1. ASSUME NEW d \in Drivers, DriverStep(d) PROVE NegotiationKept
    <2>1. CASE TurnRefused(d)
        BY <2>1, OnlyTalk DEF TurnRefused, Negotiators
    <2>2. CASE DriverSetsStatus(d)
        <3>1. Rests(d) \in BOOLEAN /\ d \in Negotiators
            BY DEF Rests, Negotiators
        <3>2. ThreadsInOrder' /\ ThreadsGo /\ IssuesInOrder' /\ IssuesGo /\ Rests(d)
            BY <2>2, <3>1, StatusSet DEF DriverSetsStatus
        <3> QED
            BY <3>1, <3>2, RestsInOrder DEF NegotiationIInv, NegotiationKept
    <2> QED
        BY <1>1, <2>1, <2>2, DriverOpens, DriverOpensThread, DriverRereads, DriverReplies DEF DriverStep
<1>2. ASSUME NEW f \in Finalizers, FinalizerStep(f) PROVE NegotiationKept
    BY <1>2, FinalizerReads, FinalizerDecides, FinalizerReadsRefs, FinalizerCreates,
       FinalizerRecords DEF FinalizerStep
<1>3. ASSUME NEW p \in Negotiators, NegotiatorFails(p) PROVE NegotiationKept
    BY <1>3, OnlyTalk DEF NegotiatorFails
<1>4. CASE UNCHANGED negotiationVars
    <2>1. ThreadsInOrder' /\ ThreadsGo /\ IssuesInOrder' /\ IssuesGo /\ talk' = talk
        BY <1>4, OnlyTalk DEF negotiationVars
    <2> QED
        BY <2>1, WaitingTalk DEF NegotiationIInv, NegotiationKept, TalksInOrder
<1> QED
    BY <1>1, <1>2, <1>3, <1>4, Cancelled DEF NegotiationNext

LEMMA NegotiationInvariant ==
    NegotiationSpec => []NegotiationIInv
<1>1. NegotiationInit => NegotiationIInv
    <2> SUFFICES ASSUME NegotiationInit PROVE NegotiationIInv
        OBVIOUS
    <2>1. <<>> \in Seq(ThreadType) /\ <<>> \in Seq(IssueType) /\ DOMAIN <<>> = {}
        BY EmptySeq, LenProperties
    <2>2. talk \in [Negotiators -> TalkType] /\ \A p \in Negotiators : talk[p].at = "idle"
        BY RestingTalk DEF NegotiationInit
    <2>3. TalksInOrder
        BY <2>2 DEF TalksInOrder, TalkInOrder, At
    <2> QED
        BY <2>1, <2>3 DEF NegotiationInit, NegotiationIInv, ThreadsInOrder, IssuesInOrder, Negotiating
<1>2. NegotiationIInv /\ [NegotiationNext]_negotiationVars => NegotiationIInv'
    BY NegotiationStep DEF NegotiationKept
<1> QED
    BY <1>1, <1>2, PTL DEF NegotiationSpec

(* NothingTakenBack: on the tracker, and however many processes append, set a *)
(* status, record refs or cancel at the same time, the entries of a thread   *)
(* are only added to, an agreed thread stays agreed on the same contract, a  *)
(* thread that was closed is not reopened, and an issue keeps its contract.  *)
NothingTakenBack == [][ThreadsGo /\ IssuesGo]_negotiationVars

(* So the tracker's threads and issues keep what they have said. *)
THEOREM HistoryIsKept == NegotiationSpec => NothingTakenBack
<1>1. NegotiationIInv /\ [NegotiationNext]_negotiationVars =>
          [ThreadsGo /\ IssuesGo]_negotiationVars
    BY NegotiationStep DEF NegotiationKept
<1> QED
    BY <1>1, NegotiationInvariant, PTL DEF NegotiationSpec, NothingTakenBack

(* OneNegotiatingThread: of the threads that one side opened, one at most is*)
(* negotiating, so a rerun of negotiate finds the thread to go on with.     *)
THEOREM OriginHeldBack ==
    NegotiationSpec => []OneNegotiatingThread
<1>1. NegotiationIInv => OneNegotiatingThread
    BY DEF NegotiationIInv, ThreadsInOrder, OneNegotiatingThread
<1> QED
    BY <1>1, NegotiationInvariant, PTL

(* ConvergedIsFinal: the server appends no entry to a thread whose entries  *)
(* already conclude it, also before any process has set its status.         *)
THEOREM NothingAfterConclusion ==
    NegotiationSpec => []ConvergedIsFinal
<1>1. NegotiationIInv => ConvergedIsFinal
    <2> SUFFICES ASSUME NegotiationIInv, NEW t \in DOMAIN threads,
                        NEW n \in 1 .. Len(threads[t].entries) - 1
                 PROVE  Outcome(SubSeq(threads[t].entries, 1, n)) = "negotiating"
        BY DEF ConvergedIsFinal
    <2>1. Regular(threads[t].entries) /\ Len(threads[t].entries) \in Nat
        BY ThreadFacts DEF NegotiationIInv
    <2> QED
        BY <2>1 DEF Regular
<1> QED
    BY <1>1, NegotiationInvariant, PTL

(* IssuesCarryAgreement: every issue that a finalization makes carries the  *)
(* contract both sides have stated, however many finalizations run at once, *)
(* and the refs of a thread name a consumer issue that depends on its       *)
(* provider issue.                                                          *)
THEOREM AgreementsCarried ==
    NegotiationSpec => []IssuesCarryAgreement
<1>1. NegotiationIInv => IssuesCarryAgreement
    <2> SUFFICES ASSUME NegotiationIInv PROVE IssuesCarryAgreement
        OBVIOUS
    <2>1. ASSUME NEW n \in DOMAIN agreedIssues
          PROVE  LET thread == threads[agreedIssues[n].thread]
                 IN  /\ thread.status = "agreed" /\ agreedIssues[n].contract = thread.contract
                     /\ \A side \in Sides : \E m \in DOMAIN thread.entries :
                           /\ thread.entries[m].side = side
                           /\ thread.entries[m].contract = agreedIssues[n].contract
                     /\ \A m \in DOMAIN thread.entries : thread.entries[m].verdict # "blocked"
        <3> DEFINE thread == threads[agreedIssues[n].thread]
        <3>1. /\ agreedIssues[n].thread \in DOMAIN threads /\ thread.status = "agreed"
              /\ thread.contract = agreedIssues[n].contract
            BY DEF NegotiationIInv, IssuesInOrder
        <3>2. /\ ThreadInOrder(thread) /\ Regular(thread.entries)
              /\ DOMAIN thread.entries = 1 .. Len(thread.entries)
            BY <3>1, ThreadFacts DEF NegotiationIInv
        <3>3. Outcome(thread.entries) = "agreed" /\ agreedIssues[n].contract = LatestContract(thread.entries)
            BY <3>1, <3>2 DEF ThreadInOrder
        <3> HIDE DEF thread
        <3>4. /\ \A side \in Sides : \E m \in 1 .. Len(thread.entries) :
                    thread.entries[m].side = side /\ thread.entries[m].contract = agreedIssues[n].contract
              /\ \A m \in 1 .. Len(thread.entries) : thread.entries[m].verdict # "blocked"
            BY <3>2, <3>3, AgreedByBoth
        <3> QED
            BY <3>1, <3>2, <3>4 DEF thread
    <2>2. \A t \in DOMAIN threads : threads[t].refs # None =>
              /\ agreedIssues[threads[t].refs[2]].provider = threads[t].refs[1]
              /\ agreedIssues[threads[t].refs[1]].thread = t
        BY DEF NegotiationIInv, IssuesInOrder, Paired
    <2> QED
        BY <2>1, <2>2 DEF IssuesCarryAgreement
<1> QED
    BY <1>1, NegotiationInvariant, PTL

---------------------------------------------------------------------------
(*************************************************************************)
(* Threads in a file that every process reads and rewrites as a whole.   *)
(*************************************************************************)

LocalThreadType ==
    [issue : SourceIssues, status : {"negotiating", "agreed", "blocked"}, entries : Seq(EntryType),
     contract : {None} \cup {LatestContract(entries) : entries \in Seq(EntryType)},
     refs : Targets \cup {None}]

(* Threads that one process after another could have written. *)
Sound(history) ==
    /\ history \in Seq(LocalThreadType)
    /\ \A t \in DOMAIN history : Whole(history[t])
    /\ \A t, u \in DOMAIN history :
          /\ history[t].status = "negotiating" /\ history[u].status = "negotiating"
          /\ history[t].issue = history[u].issue
          => t = u

ScribeType ==
    [at : {"absent", "opening", "turn", "status", "fStatus", "refs"},
     copy : Seq(LocalThreadType), thread : Nat \cup {None},
     issue : SourceIssues \cup {None}, side : Sides \cup {None}, to : Targets \cup {None}]

(* What a process is about to write leaves its copy sound. *)
ScribeInOrder(p) ==
    /\ Sound(scribe[p].copy)
    /\ Does(p, "opening") =>
          /\ scribe[p].issue \in SourceIssues /\ scribe[p].side \in Sides
          /\ Resumable(scribe[p].copy, scribe[p].issue) = {}
    /\ Does(p, "turn") \/ Does(p, "status") \/ Does(p, "fStatus") \/ Does(p, "refs") =>
          scribe[p].thread \in DOMAIN scribe[p].copy
    /\ Does(p, "turn") => Outcome(Mine(p).entries) = "negotiating"
    /\ Does(p, "status") \/ Does(p, "fStatus") => Outcome(Mine(p).entries) # "negotiating"

LocalIInv ==
    /\ Sound(saved)
    /\ scribe \in [Scribes -> ScribeType]
    /\ \A p \in Scribes : ScribeInOrder(p)

LEMMA SoundThread ==
    ASSUME NEW history, Sound(history), NEW t \in DOMAIN history
    PROVE  /\ history[t] \in LocalThreadType /\ Whole(history[t])
           /\ Len(history) \in Nat /\ DOMAIN history = 1 .. Len(history)
           /\ history[t].entries \in Seq(EntryType) /\ Len(history[t].entries) \in Nat \ {0}
           /\ DOMAIN history[t].entries = 1 .. Len(history[t].entries)
<1>1. history \in Seq(LocalThreadType) /\ Whole(history[t])
    BY DEF Sound
<1>2. history[t] \in LocalThreadType
    BY <1>1, LenProperties, ElementOfSeq
<1>3. history[t].entries \in Seq(EntryType) /\ history[t].entries # <<>>
    BY <1>1, <1>2 DEF LocalThreadType, Whole
<1> QED
    BY <1>1, <1>2, <1>3, LenProperties, EmptySeq

LEMMA ChangedThread ==
    ASSUME NEW history, Sound(history), NEW t \in DOMAIN history,
           NEW thread \in LocalThreadType, Whole(thread), thread.issue = history[t].issue,
           thread.status = "negotiating" => history[t].status = "negotiating"
    PROVE  /\ Sound([history EXCEPT ![t] = thread])
           /\ DOMAIN [history EXCEPT ![t] = thread] = DOMAIN history
<1>1. history \in Seq(LocalThreadType) /\ t \in 1 .. Len(history) /\ DOMAIN history = 1 .. Len(history)
    BY LenProperties DEF Sound
<1>2. [history EXCEPT ![t] = thread] \in Seq(LocalThreadType)
    BY <1>1, ExceptSeq
<1> QED
    BY <1>1, <1>2 DEF Sound

(* The first entry of a new thread. *)
LEMMA OpenedWhole ==
    ASSUME NEW issue \in SourceIssues, NEW side \in Sides, NEW turn \in LocalTurns
    PROVE  LET thread == [issue |-> issue, status |-> "negotiating",
                          entries |-> <<Entry(side, 1, turn)>>, contract |-> None, refs |-> None]
           IN  thread \in LocalThreadType /\ Whole(thread)
<1>1. Entry(side, 1, turn) \in EntryType
    BY LocalAssumption DEF LocalAssumption, AllTurns, Entry, EntryType
<1>2. <<Entry(side, 1, turn)>> \in Seq(EntryType) /\ Len(<<Entry(side, 1, turn)>>) = 1
    BY <1>1
<1>3. Entry(side, 1, turn).round = 1
    BY DEF Entry
<1> DEFINE thread == [issue |-> issue, status |-> "negotiating",
                      entries |-> <<Entry(side, 1, turn)>>, contract |-> None, refs |-> None]
<1>4. thread \in LocalThreadType
    BY <1>2 DEF LocalThreadType
<1>5. Whole(thread)
    BY <1>3 DEF Whole
<1> QED
    BY <1>4, <1>5

(* An entry of the other side, in a thread that its entries leave open. *)
LEMMA RepliedWhole ==
    ASSUME NEW thread \in LocalThreadType, Whole(thread), NEW turn \in LocalTurns,
           thread.status = "negotiating", Outcome(thread.entries) = "negotiating"
    PROVE  LET length == Len(thread.entries)
               entry == Entry(OtherSide(thread.entries[length].side), length + 1, turn)
               after == [thread EXCEPT !.entries = Append(@, entry)]
           IN  after \in LocalThreadType /\ Whole(after)
<1> DEFINE length == Len(thread.entries)
           entry == Entry(OtherSide(thread.entries[length].side), length + 1, turn)
           entries == Append(thread.entries, entry)
           after == [thread EXCEPT !.entries = Append(@, entry)]
<1>1. /\ thread.entries \in Seq(EntryType) /\ length \in Nat \ {0}
      /\ DOMAIN thread.entries = 1 .. length
    BY LenProperties, EmptySeq DEF LocalThreadType, Whole
<1>2. entry \in EntryType /\ entry.round = length + 1
      /\ entry.side = OtherSide(thread.entries[length].side)
    <2>1. thread.entries[length] \in EntryType
        BY <1>1, ElementOfSeq
    <2>2. OtherSide(thread.entries[length].side) \in Sides
        BY <2>1, OtherSideType DEF EntryType
    <2> QED
        BY <1>1, <2>2, LocalAssumption DEF LocalAssumption, AllTurns, Entry, EntryType
<1> HIDE DEF entry
<1>3. /\ entries \in Seq(EntryType) /\ entries # <<>> /\ Len(entries) = length + 1
      /\ DOMAIN entries = 1 .. length + 1 /\ entries[length + 1] = entry
      /\ \A n \in 1 .. length : entries[n] = thread.entries[n]
    BY <1>1, <1>2, AppendFacts
<1>4. \A n \in 1 .. length : SubSeq(entries, 1, n) = SubSeq(thread.entries, 1, n)
    BY <1>1, <1>2, EarlierPart
<1>5. SubSeq(thread.entries, 1, length) = thread.entries
    BY <1>1, WholePart
<1>6. after \in LocalThreadType /\ after.entries = entries /\ after.status = "negotiating"
      /\ after.contract = thread.contract /\ after.refs = thread.refs
    BY <1>3 DEF LocalThreadType
<1>9. \A n \in 1 .. length :
          /\ thread.entries[n].round = n
          /\ n > 1 => thread.entries[n].side = OtherSide(thread.entries[n - 1].side)
          /\ n < length => Outcome(SubSeq(thread.entries, 1, n)) = "negotiating"
    BY <1>1 DEF Whole
<1> HIDE DEF entries, after
<1>7. ASSUME NEW n \in 1 .. length + 1
      PROVE  /\ entries[n].round = n
             /\ n > 1 => entries[n].side = OtherSide(entries[n - 1].side)
             /\ n < length + 1 => Outcome(SubSeq(entries, 1, n)) = "negotiating"
    <2>1. CASE n \in 1 .. length
        <3>1. entries[n] = thread.entries[n]
            BY <1>3, <2>1
        <3>2. n > 1 => n - 1 \in 1 .. length /\ entries[n - 1] = thread.entries[n - 1]
            BY <1>1, <1>3, <2>1
        <3>3. Outcome(SubSeq(entries, 1, n)) = "negotiating"
            <4>1. SubSeq(entries, 1, n) = SubSeq(thread.entries, 1, n)
                BY <1>4, <2>1
            <4>2. CASE n = length
                BY <1>5, <4>1, <4>2
            <4>3. CASE n # length
                <5>1. n < length
                    BY <1>1, <2>1, <4>3
                <5> QED
                    BY <1>9, <2>1, <4>1, <5>1
            <4> QED
                BY <4>2, <4>3
        <3> QED
            BY <1>9, <2>1, <3>1, <3>2, <3>3
    <2>3. CASE n = length + 1
        BY <1>1, <1>2, <1>3, <2>3
    <2> QED
        BY <1>1, <2>1, <2>3
<1>8. Whole(after)
    BY <1>3, <1>6, <1>7 DEF Whole
<1> QED
    BY <1>6, <1>8 DEF after, entry

(* A status that its entries give a thread. *)
LEMMA ConcludedWhole ==
    ASSUME NEW thread \in LocalThreadType, Whole(thread), thread.status = "negotiating",
           Outcome(thread.entries) # "negotiating"
    PROVE  LET outcome == Outcome(thread.entries)
               after == [thread EXCEPT !.status = outcome,
                            !.contract = IF outcome = "agreed" THEN LatestContract(thread.entries)
                                         ELSE None]
           IN  after \in LocalThreadType /\ Whole(after)
BY OutcomeType DEF LocalThreadType, Whole

LEMMA ScribeRests ==
    Absent \in ScribeType /\ Absent.at = "absent" /\ Sound(Absent.copy)
<1>1. Absent.copy = <<>> /\ Absent.at = "absent"
    BY DEF Absent
<1>2. <<>> \in Seq(LocalThreadType) /\ Absent \in ScribeType
    BY EmptySeq DEF Absent, ScribeType
<1>3. DOMAIN <<>> = {}
    BY EmptySeq, LenProperties
<1> QED
    BY <1>1, <1>2, <1>3 DEF Sound

(* A process goes where it may, and the others are where they were. *)
LEMMA OneScribe ==
    ASSUME LocalIInv, NEW p \in Scribes, Sound(saved'), scribe' \in [Scribes -> ScribeType],
           ScribeInOrder(p)', \A q \in Scribes \ {p} : scribe'[q] = scribe[q]
    PROVE  LocalIInv'
<1>1. ASSUME NEW q \in Scribes \ {p} PROVE ScribeInOrder(q)'
    BY DEF LocalIInv, ScribeInOrder, Does, Mine
<1> QED
    BY <1>1 DEF LocalIInv

LEMMA EndsInOrder ==
    ASSUME LocalIInv, NEW p \in Scribes, LocalEnds(p), Sound(saved')
    PROVE  LocalIInv'
<1>1. scribe' \in [Scribes -> ScribeType] /\ scribe'[p] = Absent
    BY ScribeRests DEF LocalIInv, LocalEnds
<1>2. ScribeInOrder(p)'
    BY <1>1, ScribeRests DEF ScribeInOrder, Does
<1> QED
    BY <1>1, <1>2, OneScribe DEF LocalEnds

LEMMA GoesOnInOrder ==
    ASSUME LocalIInv, NEW p \in Scribes, NEW there \in {"turn", "status", "refs"},
           NEW copy, Sound(copy), NEW t \in DOMAIN copy, GoesOn(p, there, t, copy), Sound(saved'),
           there = "turn" => Outcome(copy[t].entries) = "negotiating",
           there = "status" => Outcome(copy[t].entries) # "negotiating"
    PROVE  LocalIInv'
<1>1. copy \in Seq(LocalThreadType) /\ t \in Nat
    BY LenProperties DEF Sound
<1>2. scribe[p] \in ScribeType /\ scribe \in [Scribes -> ScribeType]
    BY DEF LocalIInv
<1>3. scribe' = [scribe EXCEPT ![p] = [scribe[p] EXCEPT !.at = there, !.thread = t, !.copy = copy]]
    BY <1>2 DEF GoesOn
<1>4. [scribe[p] EXCEPT !.at = there, !.thread = t, !.copy = copy] \in ScribeType
    BY <1>1, <1>2 DEF ScribeType
<1>5. scribe' \in [Scribes -> ScribeType]
    BY <1>2, <1>3, <1>4
<1>6. scribe'[p].at = there /\ scribe'[p].thread = t /\ scribe'[p].copy = copy
    BY <1>2, <1>3 DEF ScribeType
<1>7. ScribeInOrder(p)'
    BY <1>6 DEF ScribeInOrder, Does, Mine
<1> QED
    BY <1>2, <1>3, <1>5, <1>7, OneScribe

LEMMA JudgedInOrder ==
    ASSUME LocalIInv, NEW p \in Scribes, NEW copy, Sound(copy), NEW t \in DOMAIN copy,
           Judged(p, t, copy), Sound(saved')
    PROVE  LocalIInv'
<1>1. CASE Outcome(copy[t].entries) # "negotiating" /\ GoesOn(p, "status", t, copy)
    BY <1>1, GoesOnInOrder
<1>2. CASE Outcome(copy[t].entries) = "negotiating" /\ GoesOn(p, "turn", t, copy)
    BY <1>2, GoesOnInOrder
<1>3. CASE LocalEnds(p)
    BY <1>3, EndsInOrder
<1> QED
    BY <1>1, <1>2, <1>3 DEF Judged

LEMMA LocalStep ==
    ASSUME LocalIInv, [LocalNext]_localVars PROVE LocalIInv'
<1>1. ASSUME NEW p \in Scribes, ScribeStep(p) PROVE LocalIInv'
    <2>1. Sound(saved) /\ scribe \in [Scribes -> ScribeType] /\ scribe[p] \in ScribeType
          /\ ScribeInOrder(p) /\ Sound(scribe[p].copy)
        BY DEF LocalIInv, ScribeInOrder
    <2> USE <2>1
    <2>2. ASSUME NEW issue \in SourceIssues, NEW side \in Sides, StartsRounds(p, issue, side)
          PROVE  LocalIInv'
        <3>1. saved' = saved /\ Sound(saved')
            BY <2>2 DEF StartsRounds
        <3>2. CASE \E t \in DOMAIN saved : Judged(p, t, saved)
            BY <3>1, <3>2, JudgedInOrder
        <3>3. CASE /\ Resumable(saved, issue) = {}
                   /\ scribe' = [scribe EXCEPT ![p] = [Absent EXCEPT !.at = "opening", !.copy = saved,
                                                       !.issue = issue, !.side = side]]
            <4> DEFINE next == [Absent EXCEPT !.at = "opening", !.copy = saved,
                                              !.issue = issue, !.side = side]
            <4>1. /\ next \in ScribeType /\ next.at = "opening" /\ next.copy = saved
                  /\ next.issue = issue /\ next.side = side
                BY ScribeRests DEF Absent, ScribeType, Sound
            <4>2. scribe' \in [Scribes -> ScribeType] /\ scribe'[p] = next
                BY <3>3, <4>1
            <4>3. ScribeInOrder(p)'
                BY <3>1, <3>3, <4>1, <4>2 DEF ScribeInOrder, Does, Mine, Resumable
            <4> QED
                BY <3>1, <3>3, <4>2, <4>3, OneScribe
        <3> QED
            BY <2>2, <3>2, <3>3 DEF StartsRounds
    <2>3. ASSUME NEW turn \in LocalTurns, Opens(p, turn) PROVE LocalIInv'
        <3> DEFINE thread == [issue |-> scribe[p].issue, status |-> "negotiating",
                              entries |-> <<Entry(scribe[p].side, 1, turn)>>,
                              contract |-> None, refs |-> None]
                   copy == Append(scribe[p].copy, thread)
        <3>1. /\ scribe[p].issue \in SourceIssues /\ scribe[p].side \in Sides
              /\ Resumable(scribe[p].copy, scribe[p].issue) = {}
            BY <2>3 DEF Opens, ScribeInOrder
        <3>2. thread \in LocalThreadType /\ Whole(thread) /\ thread.issue = scribe[p].issue
            BY <3>1, OpenedWhole
        <3>3. /\ saved' = copy /\ Judged(p, Len(copy), copy)
            BY <2>3 DEF Opens, LocalSaves, Saved
        <3> HIDE DEF thread
        <3>4. /\ copy \in Seq(LocalThreadType) /\ DOMAIN copy = 1 .. Len(scribe[p].copy) + 1
              /\ Len(copy) = Len(scribe[p].copy) + 1 /\ copy[Len(copy)] = thread
              /\ \A t \in DOMAIN scribe[p].copy : copy[t] = scribe[p].copy[t]
              /\ DOMAIN scribe[p].copy = 1 .. Len(scribe[p].copy) /\ Len(scribe[p].copy) \in Nat
            BY <3>2, AppendFacts DEF Sound
        <3> HIDE DEF copy
        <3>5. \A t \in DOMAIN copy : t = Len(copy) \/ t \in DOMAIN scribe[p].copy
            BY <3>4
        <3>6. ASSUME NEW t \in DOMAIN scribe[p].copy, scribe[p].copy[t].status = "negotiating"
              PROVE  scribe[p].copy[t].issue # thread.issue
            BY <3>1, <3>2, <3>6 DEF Resumable
        <3>7. Sound(copy)
            BY <3>2, <3>4, <3>5, <3>6 DEF Sound
        <3>8. Len(copy) \in DOMAIN copy
            BY <3>4
        <3> QED
            BY <3>3, <3>7, <3>8, JudgedInOrder
    <2>4. ASSUME NEW turn \in LocalTurns, Replies(p, turn) PROVE LocalIInv'
        <3> DEFINE t == scribe[p].thread
                   length == Len(Mine(p).entries)
                   side == OtherSide(Mine(p).entries[length].side)
                   thread == [Mine(p) EXCEPT !.entries = Append(@, Entry(side, length + 1, turn))]
                   copy == [scribe[p].copy EXCEPT ![t] = thread]
        <3>1. /\ t \in DOMAIN scribe[p].copy /\ Mine(p).status = "negotiating"
              /\ Outcome(Mine(p).entries) = "negotiating"
            BY <2>4 DEF Replies, ReplyAccepts, ScribeInOrder
        <3>2. Mine(p) \in LocalThreadType /\ Whole(Mine(p))
            BY <3>1, SoundThread DEF Mine
        <3>3. thread \in LocalThreadType /\ Whole(thread)
            BY <3>1, <3>2, RepliedWhole
        <3>4. thread.issue = Mine(p).issue /\ thread.status = Mine(p).status
            BY <3>2 DEF LocalThreadType
        <3>5. saved' = copy /\ Judged(p, t, copy)
            BY <2>4, <3>1 DEF Replies, LocalSaves, Saved, Mine
        <3> HIDE DEF thread
        <3>6. Sound(copy) /\ t \in DOMAIN copy
            BY <3>1, <3>3, <3>4, ChangedThread DEF Mine
        <3> QED
            BY <3>5, <3>6, JudgedInOrder
    <2>5. ASSUME scribe[p].thread \in DOMAIN scribe[p].copy, Mine(p).status = "negotiating",
                 Outcome(Mine(p).entries) # "negotiating"
          PROVE  Sound(Concluded(p)) /\ scribe[p].thread \in DOMAIN Concluded(p)
        <3> DEFINE outcome == Outcome(Mine(p).entries)
                   thread == [Mine(p) EXCEPT !.status = outcome,
                                 !.contract = IF outcome = "agreed" THEN LatestContract(Mine(p).entries)
                                              ELSE None]
        <3>1. Mine(p) \in LocalThreadType /\ Whole(Mine(p))
            BY <2>5, SoundThread DEF Mine
        <3>2. thread \in LocalThreadType /\ Whole(thread)
            BY <2>5, <3>1, ConcludedWhole
        <3>3. thread.issue = Mine(p).issue
            BY <3>1 DEF LocalThreadType
        <3>4. Concluded(p) = [scribe[p].copy EXCEPT ![scribe[p].thread] = thread]
            BY <2>5 DEF Concluded, Mine
        <3> HIDE DEF thread
        <3> QED
            BY <2>5, <3>2, <3>3, <3>4, ChangedThread DEF Mine
    <2>6. CASE Concludes(p)
        <3>1. Sound(saved')
            BY <2>5, <2>6 DEF Concludes, ScribeInOrder, LocalSaves, Saved
        <3> QED
            BY <2>6, <3>1, EndsInOrder DEF Concludes
    <2>7. ASSUME NEW t \in DOMAIN saved, NEW to \in Targets, StartsFinalize(p, t, to)
          PROVE  LocalIInv'
        <3> DEFINE there == IF saved[t].status = "agreed" THEN "refs" ELSE "fStatus"
                   next == [Absent EXCEPT !.at = there, !.copy = saved, !.thread = t, !.to = to]
        <3>1. scribe' = [scribe EXCEPT ![p] = next] /\ saved' = saved
            BY <2>7 DEF StartsFinalize
        <3>2. t \in Nat /\ saved \in Seq(LocalThreadType)
            BY SoundThread DEF Sound
        <3>3. next \in ScribeType /\ next.at = there /\ next.copy = saved /\ next.thread = t
            <4>1. there \in {"refs", "fStatus"}
                OBVIOUS
            <4> HIDE DEF there
            <4> QED
                BY <3>2, <4>1 DEF Absent, ScribeType
        <3>4. there = "fStatus" => Outcome(saved[t].entries) # "negotiating"
            BY <2>7 DEF StartsFinalize
        <3> HIDE DEF next
        <3>5. scribe' \in [Scribes -> ScribeType] /\ scribe'[p] = next
            BY <3>1, <3>3
        <3>6. ScribeInOrder(p)'
            BY <3>3, <3>4, <3>5 DEF ScribeInOrder, Does, Mine
        <3> QED
            BY <3>1, <3>5, <3>6, OneScribe
    <2>8. CASE FinalizeConcludes(p)
        <3>1. Sound(Concluded(p)) /\ scribe[p].thread \in DOMAIN Concluded(p) /\ saved' = Concluded(p)
            BY <2>5, <2>8 DEF FinalizeConcludes, ScribeInOrder, LocalSaves, Saved
        <3>2. LocalEnds(p) \/ GoesOn(p, "refs", scribe[p].thread, Concluded(p))
            BY <2>8 DEF FinalizeConcludes
        <3> QED
            BY <3>1, <3>2, EndsInOrder, GoesOnInOrder
    <2>9. CASE NotesRefs(p)
        <3> DEFINE thread == [Mine(p) EXCEPT !.refs = scribe[p].to]
        <3>1. scribe[p].thread \in DOMAIN scribe[p].copy /\ Mine(p).status = "agreed"
            BY <2>9 DEF NotesRefs, ScribeInOrder
        <3>2. Mine(p) \in LocalThreadType /\ Whole(Mine(p))
            BY <3>1, SoundThread DEF Mine
        <3>3. thread \in LocalThreadType /\ Whole(thread) /\ thread.issue = Mine(p).issue
              /\ thread.status = "agreed"
            BY <3>1, <3>2 DEF LocalThreadType, Whole, ScribeType
        <3>4. saved' = [scribe[p].copy EXCEPT ![scribe[p].thread] = thread]
            BY <2>9 DEF NotesRefs, LocalSaves, Saved, Mine
        <3>5. Sound(saved')
            BY <3>1, <3>3, <3>4, ChangedThread DEF Mine
        <3> QED
            BY <2>9, <3>5, EndsInOrder DEF NotesRefs
    <2>10. CASE ScribeFails(p)
        BY <2>10, EndsInOrder DEF ScribeFails
    <2> QED
        BY <1>1, <2>2, <2>3, <2>4, <2>6, <2>7, <2>8, <2>9, <2>10 DEF ScribeStep
<1>2. CASE UNCHANGED localVars
    BY <1>2 DEF localVars, LocalIInv, ScribeInOrder, Does, Mine
<1> QED
    BY <1>1, <1>2 DEF LocalNext

(* FileIsOneHistory: a local file of threads, read and rewritten as a whole *)
(* by overlapping processes, holds only threads that one process could have *)
(* written, and one thread per issue to go on with.                         *)
THEOREM FileStaysWhole ==
    LocalSpec => []FileIsOneHistory
<1>1. LocalInit => LocalIInv
    <2> SUFFICES ASSUME LocalInit PROVE LocalIInv
        OBVIOUS
    <2>1. Sound(saved)
        BY ScribeRests DEF LocalInit, Absent
    <2>2. scribe \in [Scribes -> ScribeType] /\ \A p \in Scribes : scribe[p] = Absent
        BY ScribeRests DEF LocalInit
    <2> QED
        BY <2>1, <2>2, ScribeRests DEF LocalIInv, ScribeInOrder, Does
<1>2. LocalIInv /\ [LocalNext]_localVars => LocalIInv'
    BY LocalStep
<1>3. LocalIInv => FileIsOneHistory
    BY DEF LocalIInv, Sound, FileIsOneHistory, Resumable
<1> QED
    BY <1>1, <1>2, <1>3, PTL DEF LocalSpec
===========================================================================
