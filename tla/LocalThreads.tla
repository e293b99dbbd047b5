---------------------------- MODULE LocalThreads ----------------------------
(***************************************************************************)
(* `issuekit negotiate --mock`: the threads of a checkout in a file        *)
(* (negotiation/mock_store.py) in the place of the tracker.  A process     *)
(* reads the file once, when it starts, works on its copy, and replaces    *)
(* the file by its whole copy after each change: of two that overlap the   *)
(* last to save wins, however old its copy is.  What a process does        *)
(* between two saves is local to it and is one step here.                  *)
(***************************************************************************)
EXTENDS ThreadOps

CONSTANTS
    Scribes,        \* invocations of negotiate --mock
    SourceIssues,   \* --from-issue
    Targets,        \* --to: where the other side's issue is made
    LocalTurns,     \* what an agent's turn may say, see AllTurns
    LocalRounds,    \* --max-rounds
    MaxLocal        \* bound: threads in the file

LocalAssumption ==
    /\ LocalTurns \subseteq AllTurns
    /\ None \notin Contracts \cup Nat
    /\ LocalRounds \in Nat \ {0} /\ MaxLocal \in Nat

ASSUME LocalAssumption

VARIABLES
    saved,      \* the threads in the file
    scribe      \* each process: where it is, its copy of the threads, the thread
                \* it works on, and what its command line says

localVars == <<saved, scribe>>

Absent == [at |-> "absent", copy |-> <<>>, thread |-> None,
           issue |-> None, side |-> None, to |-> None]

LocalInit == saved = <<>> /\ scribe = [p \in Scribes |-> Absent]

Does(p, here) == scribe[p].at = here

LocalEnds(p) == scribe' = [scribe EXCEPT ![p] = Absent]

GoesOn(p, there, t, copy) ==
    scribe' = [scribe EXCEPT ![p].at = there, ![p].thread = t, ![p].copy = copy]

Mine(p) == scribe[p].copy[scribe[p].thread]

(* Threads of this issue that a process goes on with. *)
Resumable(copy, issue) ==
    {t \in DOMAIN copy : copy[t].status = "negotiating" /\ copy[t].issue = issue}

(* Fault: entries that the file holds already are not written again. *)
SavedBelow(copy) ==
    [t \in DOMAIN copy |->
        IF t \in DOMAIN saved THEN [copy[t] EXCEPT !.entries = saved[t].entries] ELSE copy[t]]

(* The statuses, contracts, refs and entries are all those of the copy. *)
Saved(copy) == copy

LocalSaves(copy) == saved' = Saved(copy)

-----------------------------------------------------------------------------
(* negotiate --mock --from-issue *)

(* A thread at its cap is left negotiating.  What the copy says, nobody       *)
(* else changes: the outcome is evaluated once after each entry.            *)
Judged(p, t, copy) ==
    IF Outcome(copy[t].entries) # "negotiating" THEN GoesOn(p, "status", t, copy)
    ELSE IF Len(copy[t].entries) < LocalRounds THEN GoesOn(p, "turn", t, copy)
    ELSE LocalEnds(p)

(* Several threads to resume are an error, and so is one that the other side  *)
(* opened.                                                                  *)
StartsRounds(p, issue, side) ==
    /\ Does(p, "absent")
    /\ \/ /\ Resumable(saved, issue) = {} /\ Len(saved) < MaxLocal
          /\ scribe' = [scribe EXCEPT ![p] = [Absent EXCEPT !.at = "opening", !.copy = saved,
                                                            !.issue = issue, !.side = side]]
       \/ \E t \in DOMAIN saved :
             /\ Resumable(saved, issue) = {t} /\ saved[t].entries[1].side = side
             /\ Judged(p, t, saved)
    /\ UNCHANGED saved

Opens(p, turn) ==
    LET entry == Entry(scribe[p].side, 1, turn)
        copy == Append(scribe[p].copy,
                       [issue |-> scribe[p].issue, status |-> "negotiating",
                        entries |-> <<entry>>, contract |-> None, refs |-> None])
    IN  /\ Does(p, "opening")
        /\ LocalSaves(copy)
        /\ Judged(p, Len(copy), copy)

Replies(p, turn) ==
    LET length == Len(Mine(p).entries)
        side == OtherSide(Mine(p).entries[length].side)
        copy == [scribe[p].copy EXCEPT ![scribe[p].thread].entries =
                    Append(@, Entry(side, length + 1, turn))]
    IN  /\ Does(p, "turn") /\ ReplyAccepts(Mine(p), side, length + 1)
        /\ LocalSaves(copy)
        /\ Judged(p, scribe[p].thread, copy)

(* set_status, which is given once. *)
Concluded(p) ==
    LET outcome == Outcome(Mine(p).entries)
    IN  [scribe[p].copy EXCEPT
            ![scribe[p].thread].status = outcome,
            ![scribe[p].thread].contract = IF outcome = "agreed"
                                           THEN LatestContract(Mine(p).entries) ELSE None]

Concludes(p) ==
    /\ Does(p, "status") /\ Mine(p).status = "negotiating"
    /\ LocalSaves(Concluded(p))
    /\ LocalEnds(p)

-----------------------------------------------------------------------------
(* negotiate --mock --finalize; --cancel refuses --mock *)

(* A thread that is neither agreed nor about to be is refused; one that has   *)
(* refs is reported as it is.                                               *)
StartsFinalize(p, t, to) ==
    LET thread == saved[t]
        there == IF thread.status = "agreed" THEN "refs" ELSE "fStatus"
    IN  /\ Does(p, "absent")
        /\ \/ thread.status = "negotiating" /\ Outcome(thread.entries) # "negotiating"
           \/ thread.status = "agreed" /\ thread.refs = None
        /\ scribe' = [scribe EXCEPT ![p] = [Absent EXCEPT !.at = there, !.copy = saved,
                                                          !.thread = t, !.to = to]]
        /\ UNCHANGED saved

FinalizeConcludes(p) ==
    /\ Does(p, "fStatus") /\ Mine(p).status = "negotiating"
    /\ LocalSaves(Concluded(p))
    /\ IF Outcome(Mine(p).entries) = "agreed"
       THEN GoesOn(p, "refs", scribe[p].thread, Concluded(p))
       ELSE LocalEnds(p)

(* The two issues exist in the process only: each is the first one of its     *)
(* project, so that the pair is told by the projects.                       *)
NotesRefs(p) ==
    /\ Does(p, "refs") /\ Mine(p).status = "agreed" /\ Mine(p).refs = None
    /\ LocalSaves([scribe[p].copy EXCEPT ![scribe[p].thread].refs = scribe[p].to])
    /\ LocalEnds(p)

(* A turn fails, the file cannot be written, or the process is killed; a file *)
(* is replaced by one rename, so it is never half written.                  *)
ScribeFails(p) ==
    /\ ~ Does(p, "absent")
    /\ LocalEnds(p)
    /\ UNCHANGED saved

-----------------------------------------------------------------------------
ScribeStep(p) ==
    \/ \E issue \in SourceIssues, side \in Sides : StartsRounds(p, issue, side)
    \/ \E turn \in LocalTurns : Opens(p, turn) \/ Replies(p, turn)
    \/ Concludes(p)
    \/ \E t \in DOMAIN saved, to \in Targets : StartsFinalize(p, t, to)
    \/ FinalizeConcludes(p) \/ NotesRefs(p) \/ ScribeFails(p)

LocalNext == \E p \in Scribes : ScribeStep(p)

LocalSpec == LocalInit /\ [][LocalNext]_localVars

-----------------------------------------------------------------------------
(* Properties *)

(* A thread that one process could have written alone: the sides alternate,   *)
(* each round is there once, nothing follows what concludes it, and its      *)
(* status, contract and refs are those its entries give it.                 *)
Whole(thread) ==
    LET entries == thread.entries
    IN  /\ entries # <<>>
        /\ \A n \in DOMAIN entries :
              /\ entries[n].round = n
              /\ n > 1 => entries[n].side = OtherSide(entries[n - 1].side)
              /\ n < Len(entries) => Outcome(SubSeq(entries, 1, n)) = "negotiating"
        /\ thread.status # "negotiating" => thread.status = Outcome(entries)
        /\ thread.contract = IF thread.status = "agreed" THEN LatestContract(entries) ELSE None
        /\ thread.refs # None => thread.status = "agreed"

(* However many processes overlap, every thread in the file is whole, and an  *)
(* issue has one thread to go on with: overlapping runs lose work, but they  *)
(* never mix what two of them have written.                                 *)
FileIsOneHistory ==
    /\ \A t \in DOMAIN saved : Whole(saved[t])
    /\ \A t, u \in DOMAIN saved :
          t \in Resumable(saved, saved[u].issue) /\ u \in Resumable(saved, saved[t].issue) => t = u
=============================================================================
