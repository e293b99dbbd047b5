------------------------------ MODULE PmRequest ------------------------------
(***************************************************************************)
(* `issuekit request`: a PM checkout has a router agent turn a request     *)
(* into proposals to other projects, and answers the questions their       *)
(* triage sends back.  Everything it knows is in one state file, which a   *)
(* command loads when it starts and writes back whole; the projects' in-   *)
(* boxes are the tracker's.  A command may be killed at any step and run   *)
(* again.                                                                  *)
(***************************************************************************)
EXTENDS ProposalOps

CONSTANTS
    Commands,       \* processes that run issuekit request
    Texts,          \* what is requested
    Projects,
    Routes,         \* the router's route decisions, see AllRoutes
    MaxClarify,     \* max_clarify_rounds
    MaxRequests, MaxSent, MaxPmFaults, MaxCommits  \* bounds

VARIABLES
    pmFile,     \* .agent-runs/pm-requests.json: records in the order of their ids
    inboxes,    \* the inbox of each project
    questions,  \* replies pending in the PM inbox: <<project, proposal>> asked about
    head,       \* HEAD of the PM checkout
    pm,         \* each command: where it is, its copy of the file, its request
    asked,      \* ghost: all questions ever asked
    pmFaults

pmVars == <<pmFile, inboxes, questions, head, pm, asked, pmFaults>>

(* A target names a project and, if not 0, an earlier target it depends on. *)
AllRoutes ==
    {route \in UNION {[1 .. length -> [project : Projects, after : 0 .. length]]
                        : length \in 1 .. Cardinality(Projects)} :
        /\ \A m, n \in DOMAIN route : route[m].project = route[n].project => m = n
        /\ \A n \in DOMAIN route : route[n].after < n}

PmAssumption ==
    /\ IsFiniteSet(Projects)
    /\ Routes \subseteq AllRoutes
    /\ MaxClarify \in Nat /\ MaxRequests \in Nat /\ MaxSent \in Nat
    /\ None \notin Texts \cup Projects \cup Nat

ASSUME PmAssumption

AtRest == [at |-> "idle", file |-> <<>>, id |-> 0, index |-> 0, answers |-> None]

PmInit ==
    /\ pmFile = <<>> /\ questions = {} /\ asked = {} /\ head = 0 /\ pmFaults = 0
    /\ inboxes = [project \in Projects |-> <<>>]
    /\ pm = [c \in Commands |-> AtRest]

-----------------------------------------------------------------------------
(* The state file *)

NewRecord(text) ==
    [text |-> text, decision |-> "", question |-> FALSE, rounds |-> 0, targets |-> <<>>]

IsComplete(record) ==
    \/ record.decision = "reject"
    \/ /\ record.decision = "route" /\ record.targets # <<>>
       /\ \A n \in DOMAIN record.targets : record.targets[n].ref # None

(* find_or_create_request: the first unfinished request of this text. *)
Found(file, text) ==
    {id \in DOMAIN file : file[id].text = text /\ ~ IsComplete(file[id])}

(* What the router named is kept in wants, a ghost. *)
NewTarget(route, n, after) ==
    [project |-> route[n].project, after |-> after, ref |-> None, heard |-> {},
     wants |-> IF route[n].after = 0 THEN None ELSE route[route[n].after].project]

(* What the router names that is not a target yet. *)
Fresh(saved, route) ==
    {n \in DOMAIN route : \A k \in DOMAIN saved : saved[k].project # route[n].project}

(* _route_target_indexes: a saved project keeps its index, the others are     *)
(* counted on from there.                                                   *)
TargetIndex(saved, route, n) ==
    IF n \in Fresh(saved, route)
    THEN Len(saved) + Cardinality({m \in Fresh(saved, route) : m <= n})
    ELSE CHOOSE k \in DOMAIN saved : saved[k].project = route[n].project

(* Fault: the router's own index is saved. *)
SavedReferenceKept(saved, route, after) == after

(* The router's "target:<index>" as an index into the saved targets. *)
SavedReference(saved, route, after) ==
    IF after = 0 THEN 0 ELSE TargetIndex(saved, route, after)

(* _prepare_route_targets: projects that are already targets are skipped. *)
Merged(saved, route) ==
    LET place(k) == CHOOSE n \in Fresh(saved, route) : TargetIndex(saved, route, n) = k
    IN  [k \in 1 .. Len(saved) + Cardinality(Fresh(saved, route)) |->
            IF k <= Len(saved) THEN saved[k]
            ELSE NewTarget(route, place(k), SavedReference(saved, route, route[place(k)].after))]

-----------------------------------------------------------------------------
(* The projects *)

(* Adopted or discarded: the same to the one who sent it. *)
ProjectDecides(project, p) ==
    /\ p \in Undecided(inboxes[project])
    /\ inboxes' = [inboxes EXCEPT ![project] = Decide(@, p, "decided")]
    /\ UNCHANGED <<pmFile, questions, head, pm, asked, pmFaults>>

(* One reply is sent about a proposal. *)
ProjectAsks(project, p) ==
    /\ p \in Undecided(inboxes[project]) /\ <<project, p>> \notin asked
    /\ questions' = questions \cup {<<project, p>>}
    /\ asked' = asked \cup {<<project, p>>}
    /\ UNCHANGED <<pmFile, inboxes, head, pm, pmFaults>>

Commit ==
    /\ head < MaxCommits /\ head' = head + 1
    /\ UNCHANGED <<pmFile, inboxes, questions, pm, asked, pmFaults>>

-----------------------------------------------------------------------------
(* A command *)

Record(c) == pm[c].file[pm[c].id]

Ends(c) == pm' = [pm EXCEPT ![c] = AtRest]

Holds(c, there, file, id, index) ==
    pm' = [pm EXCEPT ![c] = [AtRest EXCEPT !.at = there, !.file = file, !.id = id, !.index = index]]

PmFault == pmFaults < MaxPmFaults /\ pmFaults' = pmFaults + 1

(* The agent, a call or the process fails. *)
PmFails(c) ==
    /\ pm[c].at # "idle"
    /\ PmFault /\ Ends(c)
    /\ UNCHANGED <<pmFile, inboxes, questions, head, asked>>

(* Loading the file: a request that is not found gets the next free id. *)
Ask(c, text) ==
    LET found == Found(pmFile, text)
    IN  /\ pm[c].at = "idle"
        /\ \/ found # {} /\ Holds(c, "router", pmFile, Min(found), 0)
           \/ /\ found = {} /\ Len(pmFile) < MaxRequests
              /\ Holds(c, "router", Append(pmFile, NewRecord(text)), Len(pmFile) + 1, 0)
        /\ UNCHANGED <<pmFile, inboxes, questions, head, asked, pmFaults>>

(* A pre-routing answer is saved before the router runs again. *)
Answer(c, id) ==
    LET file == [pmFile EXCEPT ![id].question = FALSE, ![id].rounds = @ + 1]
    IN  /\ pm[c].at = "idle"
        /\ pmFile[id].question /\ pmFile[id].targets = <<>>
        /\ pmFile' = file
        /\ Holds(c, "router", file, id, 0)
        /\ UNCHANGED <<inboxes, questions, head, asked, pmFaults>>

Saves(c, record, there) ==
    LET file == [pm[c].file EXCEPT ![pm[c].id] = record]
    IN  /\ pmFile' = file
        /\ IF there = "idle" THEN Ends(c) ELSE Holds(c, there, file, pm[c].id, 0)

(* The limit is that of the answers there were when the router started. *)
RouterClarifies(c) ==
    /\ pm[c].at = "router"
    /\ Saves(c, IF Record(c).rounds >= MaxClarify
                THEN [Record(c) EXCEPT !.decision = "reject", !.question = FALSE]
                ELSE [Record(c) EXCEPT !.decision = "clarify", !.question = TRUE], "idle")
    /\ UNCHANGED <<inboxes, questions, head, asked, pmFaults>>

RouterRejects(c) ==
    /\ pm[c].at = "router"
    /\ Saves(c, [Record(c) EXCEPT !.decision = "reject", !.question = FALSE], "idle")
    /\ UNCHANGED <<inboxes, questions, head, asked, pmFaults>>

(* Fault: the targets are only saved as they are sent. *)
RouterRoutesUnsaved(c, route) ==
    /\ pm[c].at = "router"
    /\ Holds(c, "send", [pm[c].file EXCEPT ![pm[c].id] =
                [@ EXCEPT !.decision = "route", !.question = FALSE,
                          !.targets = Merged(@, route)]], pm[c].id, 0)
    /\ UNCHANGED <<pmFile, inboxes, questions, head, asked, pmFaults>>

(* The targets are saved before any is sent. *)
RouterRoutes(c, route) ==
    /\ pm[c].at = "router"
    /\ Saves(c, [Record(c) EXCEPT !.decision = "route", !.question = FALSE,
                                  !.targets = Merged(@, route)], "send")
    /\ UNCHANGED <<inboxes, questions, head, asked, pmFaults>>

(* Targets still to send whose dependencies have been. *)
ReadyTargets(record) ==
    {n \in DOMAIN record.targets :
        /\ record.targets[n].ref = None
        /\ record.targets[n].after # 0 => record.targets[record.targets[n].after].ref # None}

RoutedOrigin(c, n) ==
    [request |-> pm[c].id, index |-> n, amends |-> None, round |-> 0, commit |-> head]

AmendedOrigin(c, target) ==
    [request |-> pm[c].id, index |-> 0, amends |-> target.ref,
     round |-> Cardinality(target.heard) + 1, commit |-> head]

(* What is sent: the request's text, the refs it depends on, the questions.  *)
(* The words of the answers are left out: see SendAmended.                   *)
Wording(c, target, heard) ==
    [text |-> Record(c).text, heard |-> heard,
     after |-> IF target.after = 0 THEN None
               ELSE LET other == Record(c).targets[target.after]
                    IN  <<other.project, other.ref>>]

Posts(project, proposal) ==
    /\ \/ PendingOf(inboxes[project], proposal.origin) # {}
       \/ MapThenSumSet(LAMBDA other : Len(inboxes[other]), Projects) < MaxSent
    /\ inboxes' = [inboxes EXCEPT ![project] = WithProposal(@, proposal)]

(* A target is sent and its ref saved.  The order of those that are ready is *)
(* left open: the code sends all that are, by index, and then looks again.   *)
(* When another proposal of this origin is returned the file is written and  *)
(* the command stops.                                                        *)
Send(c, n) ==
    LET target == Record(c).targets[n]
        inbox == inboxes[target.project]
        proposal == NewProposal(RoutedOrigin(c, n), Wording(c, target, {}))
    IN  /\ pm[c].at = "send" /\ n \in ReadyTargets(Record(c))
        /\ Posts(target.project, proposal)
        /\ IF PayloadMismatch(inbox, proposal)
           THEN Saves(c, Record(c), "idle") /\ UNCHANGED pmFaults
           ELSE \/ /\ Saves(c, [Record(c) EXCEPT !.targets[n].ref = ReturnedId(inbox, proposal)], "send")
                   /\ UNCHANGED pmFaults
                \/ PmFault /\ Ends(c) /\ UNCHANGED pmFile
        /\ UNCHANGED <<questions, head, asked>>

AllSent(c) ==
    /\ pm[c].at = "send" /\ ReadyTargets(Record(c)) = {}
    /\ Ends(c)
    /\ UNCHANGED <<pmFile, inboxes, questions, head, asked, pmFaults>>

(* request --link: an existing proposal, looked up at its project, becomes    *)
(* the ref of the target that was unsent when the file was loaded.           *)
Link(c, id, n) ==
    /\ pm[c].at = "idle" /\ pmFile[id].targets[n].ref = None
    /\ Holds(c, "link", pmFile, id, n)
    /\ UNCHANGED <<pmFile, inboxes, questions, head, asked, pmFaults>>

SaveLink(c, p) ==
    /\ pm[c].at = "link" /\ p \in DOMAIN inboxes[Record(c).targets[pm[c].index].project]
    /\ Saves(c, [Record(c) EXCEPT !.targets[pm[c].index].ref = p], "idle")
    /\ UNCHANGED <<inboxes, questions, head, asked, pmFaults>>

(* Fault: the reply is discarded as soon as it is read. *)
AnswerProjectFirst(c, id, n) ==
    LET target == pmFile[id].targets[n]
    IN  /\ pm[c].at = "idle"
        /\ <<target.project, target.ref>> \in questions
        /\ pm' = [pm EXCEPT ![c] = [at |-> "amend", file |-> pmFile, id |-> id, index |-> n,
                                    answers |-> <<target.project, target.ref>>]]
        /\ questions' = questions \ {<<target.project, target.ref>>}
        /\ UNCHANGED <<pmFile, inboxes, head, asked, pmFaults>>

(* request --answer of a project's question about a target's proposal.        *)
AnswerProject(c, id, n) ==
    LET target == pmFile[id].targets[n]
    IN  /\ pm[c].at = "idle"
        /\ ~ (pmFile[id].question /\ pmFile[id].targets = <<>>)
        /\ <<target.project, target.ref>> \in questions
        /\ pm' = [pm EXCEPT ![c] = [at |-> "amend", file |-> pmFile, id |-> id, index |-> n,
                                    answers |-> <<target.project, target.ref>>]]
        /\ UNCHANGED <<pmFile, inboxes, questions, head, asked, pmFaults>>

(* The command also ends when a proposal of this origin is pending already:   *)
(* it may hold an answer in other words.                                     *)
SendAmended(c) ==
    LET target == Record(c).targets[pm[c].index]
        inbox == inboxes[target.project]
        heard == target.heard \cup {pm[c].answers}
        proposal == NewProposal(AmendedOrigin(c, target), Wording(c, target, heard))
        amended == [target EXCEPT !.ref = ReturnedId(inbox, proposal), !.heard = heard]
    IN  /\ pm[c].at = "amend"
        /\ Posts(target.project, proposal)
        /\ \/ /\ ~ PayloadMismatch(inbox, proposal)
              /\ pmFile' = [pm[c].file EXCEPT ![pm[c].id].targets[pm[c].index] = amended]
              /\ pm' = [pm EXCEPT ![c].at = "discard"]
              /\ UNCHANGED pmFaults
           \/ ~ PayloadMismatch(inbox, proposal) /\ PmFault /\ Ends(c) /\ UNCHANGED pmFile
           \/ PendingOf(inbox, proposal.origin) # {} /\ Ends(c) /\ UNCHANGED <<pmFile, pmFaults>>
        /\ UNCHANGED <<questions, head, asked>>

DiscardReply(c) ==
    /\ pm[c].at = "discard"
    /\ questions' = questions \ {pm[c].answers}
    /\ Ends(c)
    /\ UNCHANGED <<pmFile, inboxes, head, asked, pmFaults>>

CommandStep(c) ==
    \/ \E text \in Texts : Ask(c, text)
    \/ \E id \in DOMAIN pmFile : Answer(c, id)
    \/ RouterClarifies(c) \/ RouterRejects(c)
    \/ \E route \in Routes : RouterRoutes(c, route)
    \/ AllSent(c) \/ SendAmended(c) \/ DiscardReply(c) \/ PmFails(c)
    \/ pm[c].at = "send" /\ \E n \in DOMAIN Record(c).targets : Send(c, n)
    \/ \E id \in DOMAIN pmFile : \E n \in DOMAIN pmFile[id].targets :
          AnswerProject(c, id, n) \/ Link(c, id, n)
    \/ \E p \in 1 .. MaxSent : SaveLink(c, p)

PmNext ==
    \/ \E c \in Commands : CommandStep(c)
    \/ \E project \in Projects : \E p \in DOMAIN inboxes[project] :
          ProjectAsks(project, p) \/ ProjectDecides(project, p)
    \/ Commit

PmSpec == PmInit /\ [][PmNext]_pmVars

-----------------------------------------------------------------------------
(* Properties *)

(* Each variable has its type; a recorded ref names a proposal in its        *)
(* project's inbox.                                                         *)
PmTypes ==
    /\ Len(pmFile) <= MaxRequests
    /\ \A id \in DOMAIN pmFile :
          /\ pmFile[id].decision \in {"", "clarify", "reject", "route"}
          /\ pmFile[id].rounds <= MaxClarify
          /\ \A n \in DOMAIN pmFile[id].targets :
                LET target == pmFile[id].targets[n]
                IN  target.ref # None => target.ref \in DOMAIN inboxes[target.project]
    /\ \A c \in Commands : pm[c].at \in {"idle", "router", "send", "amend", "discard", "link"}
    /\ questions \subseteq asked

(* However often a request is rerun after a crash or a lost answer, and       *)
(* whatever its router says then, a project's inbox holds one pending         *)
(* proposal of it (one per clarification of one proposal), as long as HEAD    *)
(* has not moved.                                                           *)
PendingOnce ==
    \A project \in Projects : \A p, q \in Undecided(inboxes[project]) :
        LET o == inboxes[project][p].origin
            r == inboxes[project][q].origin
        IN  /\ o.request = r.request /\ o.commit = r.commit
            /\ o.amends = r.amends /\ o.round = r.round
            => p = q

(* The saved targets of a request depend on the project the router named,     *)
(* whatever order its reruns list them in, and on earlier targets only, so    *)
(* that sending them always comes to an end.                                 *)
DependenciesFollowProjects ==
    \A id \in DOMAIN pmFile : \A n \in DOMAIN pmFile[id].targets :
        LET target == pmFile[id].targets[n]
        IN  IF target.wants = None THEN target.after = 0
            ELSE /\ target.after \in 1 .. n - 1
                 /\ pmFile[id].targets[target.after].project = target.wants

(* A project's question stays in the PM inbox until its answer is recorded    *)
(* with the target it is about, whatever call fails in between.              *)
QuestionKeptUntilAnswered ==
    \A question \in asked \ questions :
        \E id \in DOMAIN pmFile : \E n \in DOMAIN pmFile[id].targets :
            question \in pmFile[id].targets[n].heard

=============================================================================
