---------------------------- MODULE AuthorGuards ----------------------------
(***************************************************************************)
(* The author-session guards of one checkout (guards/author.py) and the    *)
(* file that holds them.  `issuekit author` records a guard after it has   *)
(* created the issue; claims and submits look at the guards first.  The    *)
(* guards share issuekit.local.toml with the checkout's identity and its   *)
(* refs: every command rewrites the whole file from what it read before,   *)
(* and nothing locks it.                                                   *)
(***************************************************************************)
EXTENDS IssueOps, FiniteSets

CONSTANTS
    Work,           \* issues that may be authored here, by id
    Shells,         \* terminals and serves in this checkout, one command each
    ShellAgent,     \* [Shells -> the agent it authors and claims as]
    ShellToken,     \* [Shells -> ISSUEKIT_SESSION there, or None]
    Implementers,   \* agents `issuekit implement` may launch
    Here,           \* this checkout's worker key
    Enforced,       \* ISSUEKIT_ENFORCE_AUTHOR_HANDOFF
    MaxShellCommands     \* bound: commands that are run

VARIABLES
    localFile,  \* issuekit.local.toml
    work,       \* the tracker's issues, or None
    shell,      \* what each shell is doing
    begun,      \* commands begun
    harmed,     \* ghost: two rewrites overlapped, or one was killed half way
    kept        \* ghost: guards a command has recorded and none has cleared

guardVars == <<localFile, work, shell, begun, harmed, kept>>

(* Without ISSUEKIT_SESSION a command names a session of its own. *)
AuthorSession(s) == IF ShellToken[s] # None THEN ShellToken[s] ELSE <<"cli", s>>

RunSession(s) == <<"run", s>>

(* Fault: the session is not recorded. *)
NewGuardSessionless(s) == [agent |-> ShellAgent[s], session |-> None]

NewGuard(s) == [agent |-> ShellAgent[s], session |-> AuthorSession(s)]

(* The session of a run is drawn at random when the run begins; only its own  *)
(* agent, which is none of the shells, has it in its environment.           *)
GuardAssumption ==
    /\ Work \subseteq Nat /\ None \notin Work
    /\ \A s \in Shells : None \notin {NewGuard(s), AuthorSession(s), RunSession(s)}
    /\ \A s, t \in Shells : RunSession(t) # ShellToken[s]
    /\ Enforced \in BOOLEAN /\ MaxShellCommands \in Nat

ASSUME GuardAssumption

(* The file does not exist, or has just been truncated: both read the same. *)
EmptyFile == [guards |-> [i \in Work |-> None], worker |-> FALSE, refs |-> FALSE]

Idle ==
    [at |-> "idle", does |-> None, copy |-> EmptyFile, items |-> {},
     agent |-> None, session |-> None, orchestrated |-> FALSE]

GuardInit ==
    /\ localFile = EmptyFile
    /\ work = [i \in Work |-> None]
    /\ shell = [s \in Shells |-> Idle] /\ begun = 0
    /\ harmed = FALSE /\ kept = {}

Issued == [i \in {j \in Work : work[j] # None} |-> work[i]]

Doing(s, steps) == shell[s].at \in steps

Begins(s) == Doing(s, {"idle"}) /\ begun < MaxShellCommands /\ begun' = begun + 1

Becomes(s, changes) == shell' = [shell EXCEPT ![s] = With(@, changes)]

Goes(s, at) == Becomes(s, [at |-> at]) /\ UNCHANGED begun

Returns(s) == Becomes(s, Idle) /\ UNCHANGED begun

LeavesFile == UNCHANGED <<localFile, harmed, kept>>

LeavesAll == LeavesFile /\ UNCHANGED work

-----------------------------------------------------------------------------
(* Rewriting the file *)

Rewriting(s) == Doing(s, {"reread", "truncate", "write"})

ReadsFile(s, record) ==
    /\ Becomes(s, record)
    /\ harmed' = (harmed \/ \E t \in Shells \ {s} : Rewriting(t))
    /\ UNCHANGED <<localFile, work, kept>>

(* The tracker creates the issue first; the answer may get lost. *)
AuthorCreates(s, i, answered) ==
    /\ Begins(s)
    /\ work[i] = None /\ \A j \in Work : j < i => work[j] # None
    /\ work' = [work EXCEPT ![i] = NewIssue(ShellAgent[s], AuthorSession(s), NoKey)]
    /\ IF answered THEN Becomes(s, [at |-> "guard", does |-> "author", items |-> {i}])
                   ELSE Becomes(s, Idle)
    /\ LeavesFile

RecordGuard(s) ==
    /\ Doing(s, {"guard"})
    /\ \E i \in shell[s].items :
          ReadsFile(s, [at |-> "truncate", copy |-> [localFile EXCEPT !.guards[i] = NewGuard(s)]])
    /\ UNCHANGED begun

(* `author-guard clear`: all guards, or the one of a ref. *)
ClearGuards(s, items) ==
    /\ Begins(s)
    /\ \E i \in items : localFile.guards[i] # None
    /\ ReadsFile(s, [at |-> "truncate", does |-> "clear", items |-> items,
                     copy |-> [localFile EXCEPT
                        !.guards = [i \in Work |-> IF i \in items THEN None ELSE @[i]]]])

(* `issuekit ref add`, and `issuekit add` where nothing is pinned yet.  The   *)
(* guards are read again when the new text is put together.                 *)
SaveRefs(s) ==
    /\ Begins(s)
    /\ ReadsFile(s, [at |-> "reread", does |-> "refs", copy |-> [localFile EXCEPT !.refs = TRUE]])

SaveLocalWorker(s) ==
    /\ Begins(s) /\ ~ localFile.worker
    /\ ReadsFile(s, [at |-> "reread", does |-> "worker", copy |-> [localFile EXCEPT !.worker = TRUE]])

(* Fault: what the caller passes no guards for is written without any. *)
PreserveGuardsNot(s) ==
    /\ Doing(s, {"reread"})
    /\ shell' = [shell EXCEPT ![s].copy.guards = EmptyFile.guards, ![s].at = "truncate"]
    /\ UNCHANGED begun /\ LeavesAll

PreserveGuards(s) ==
    /\ Doing(s, {"reread"})
    /\ shell' = [shell EXCEPT ![s].copy.guards = localFile.guards, ![s].at = "truncate"]
    /\ UNCHANGED begun /\ LeavesAll

Truncate(s) ==
    /\ Doing(s, {"truncate"})
    /\ localFile' = EmptyFile
    /\ Goes(s, "write") /\ UNCHANGED <<work, harmed, kept>>

WriteFile(s) ==
    /\ Doing(s, {"write"})
    /\ localFile' = shell[s].copy
    /\ kept' = CASE shell[s].does = "author" -> kept \cup shell[s].items
                 [] shell[s].does = "clear"  -> kept \ shell[s].items
                 [] OTHER                    -> kept
    /\ Returns(s) /\ UNCHANGED <<work, harmed>>

(* Any command may be killed; half way through a write it leaves the file empty. *)
Killed(s) ==
    /\ ~ Doing(s, {"idle"})
    /\ harmed' = (harmed \/ Doing(s, {"write"}))
    /\ Returns(s) /\ UNCHANGED <<localFile, work, kept>>

-----------------------------------------------------------------------------
(* Claiming, running and submitting past the guards *)

(* A run launched for another agent, or in a session of its own, is not the   *)
(* author.                                                                  *)
OrchestrationAllows(guard, agent, session) ==
    \/ agent # guard.agent
    \/ guard.session # None /\ session # guard.session

Blocked(items, agent, session, orchestrated) ==
    /\ Enforced
    /\ \E i \in items :
          /\ localFile.guards[i] # None
          /\ orchestrated => ~ OrchestrationAllows(localFile.guards[i], agent, session)

(* A claim from the pool does not know which issue it will get. *)
ClaimNextChecked(s) ==
    /\ Begins(s)
    /\ ~ Blocked(Work, ShellAgent[s], ShellToken[s], FALSE)
    /\ Becomes(s, [at |-> "pool", does |-> "claim_next", agent |-> ShellAgent[s],
                session |-> ShellToken[s]])
    /\ LeavesAll

ClaimChecked(s, i) ==
    /\ Begins(s)
    /\ ~ Blocked({i}, ShellAgent[s], ShellToken[s], FALSE)
    /\ Becomes(s, [at |-> "claim", does |-> "claim", items |-> {i}, agent |-> ShellAgent[s],
                session |-> ShellToken[s]])
    /\ LeavesAll

ImplementChecked(s, i, agent) ==
    /\ Begins(s)
    /\ ~ Blocked({i}, agent, RunSession(s), TRUE)
    /\ Becomes(s, [at |-> "claim", does |-> "implement", items |-> {i}, agent |-> agent,
                session |-> RunSession(s), orchestrated |-> TRUE])
    /\ LeavesAll

(* The wrong branch, a dirty worktree, or a fetch or fast-forward that fails; *)
(* a run that fails or whose changes do not pass the gates ends it as well.  *)
CheckoutRefuses(s) ==
    /\ Doing(s, {"pool", "claim", "submit"})
    /\ Returns(s) /\ LeavesAll

RunFails(s) == Doing(s, {"run"}) /\ Returns(s) /\ LeavesAll

AllowsSelf(s) == ~ Enforced /\ ~ shell[s].orchestrated

Takes(s, i) ==
    /\ ClaimAccepts(work[i], shell[s].agent, Here, shell[s].session, AllowsSelf(s))
    /\ work' = [work EXCEPT ![i] = Claimed(@, shell[s].agent, Here, shell[s].session)]
    /\ Becomes(s, [at |-> "run", items |-> {i}])
    /\ UNCHANGED begun /\ LeavesFile

ClaimIssue(s) ==
    /\ Doing(s, {"claim"})
    /\ \E i \in shell[s].items : i \in DOMAIN Issued /\ Takes(s, i)

ClaimNext(s) ==
    /\ Doing(s, {"pool"})
    /\ \E i \in DOMAIN Issued : HeadOfPool(Issued, i, shell[s].agent, Here) /\ Takes(s, i)

(* The pool is empty, the tracker refuses, or its answer does not come. *)
ClaimRefused(s) == Doing(s, {"pool", "claim"}) /\ Returns(s) /\ LeavesAll

SubmitChecked(s) ==
    /\ Doing(s, {"run"})
    /\ ~ Blocked(shell[s].items, shell[s].agent, shell[s].session, shell[s].orchestrated)
    /\ Goes(s, "submit") /\ LeavesAll

Submit(s) ==
    /\ Doing(s, {"submit"})
    /\ \E i \in shell[s].items :
          work' = [work EXCEPT ![i] = Submitted(@, None, shell[s].session)]
    /\ Returns(s) /\ LeavesFile

(* Reviewers and operators elsewhere. *)
SentBack(i) ==
    /\ i \in DOMAIN Issued /\ work[i].stage = "review"
    /\ work' = [work EXCEPT ![i] = ChangesRequested(@, None)]
    /\ LeavesFile /\ UNCHANGED <<shell, begun>>

TakenBack(i) ==
    /\ i \in DOMAIN Issued /\ ReclaimAccepts(work[i], NoKey)
    /\ work' = [work EXCEPT ![i] = Reclaimed(@)]
    /\ LeavesFile /\ UNCHANGED <<shell, begun>>

-----------------------------------------------------------------------------
GuardNext ==
    \/ \E s \in Shells :
          \/ \E i \in Work, answered \in BOOLEAN : AuthorCreates(s, i, answered)
          \/ RecordGuard(s)
          \/ \E items \in {Work} \cup {{i} : i \in Work} : ClearGuards(s, items)
          \/ SaveRefs(s) \/ SaveLocalWorker(s) \/ PreserveGuards(s)
          \/ Truncate(s) \/ WriteFile(s) \/ Killed(s)
          \/ ClaimNextChecked(s)
          \/ \E i \in Work : ClaimChecked(s, i)
          \/ \E i \in Work, a \in Implementers : ImplementChecked(s, i, a)
          \/ CheckoutRefuses(s) \/ RunFails(s)
          \/ ClaimIssue(s) \/ ClaimNext(s) \/ ClaimRefused(s)
          \/ SubmitChecked(s) \/ Submit(s)
    \/ \E i \in Work : SentBack(i) \/ TakenBack(i)

GuardSpec == GuardInit /\ [][GuardNext]_guardVars

GuardTypes ==
    /\ localFile.guards \in [Work -> {None} \cup
          [agent : {ShellAgent[s] : s \in Shells}, session : {None} \cup {AuthorSession(s) : s \in Shells}]]
    /\ localFile.worker \in BOOLEAN /\ localFile.refs \in BOOLEAN
    /\ \A i \in Work : work[i] # None => work[i].stage \in Stages
    /\ \A s \in Shells :
          /\ Doing(s, {"idle", "guard", "reread", "truncate", "write", "pool", "claim", "run", "submit"})
          /\ shell[s].items \subseteq Work
          /\ Doing(s, {"run", "submit"}) => Cardinality(shell[s].items) = 1
          /\ Doing(s, {"idle"}) => shell[s] = Idle
    /\ kept \subseteq DOMAIN Issued /\ begun \in 0..MaxShellCommands

(* An orchestrated run that was let past the guards at its claim is let past  *)
(* them at its submit, also when the author's command records its guard      *)
(* only while the agent works.  A claim made by hand is no such run: its      *)
(* submit may meet a guard that was not there at the claim.                 *)
RunMaySubmit ==
    \A s \in Shells :
        Doing(s, {"run"}) /\ shell[s].orchestrated =>
            ~ Blocked(shell[s].items, shell[s].agent, shell[s].session, TRUE)

(* A recorded guard is in the file until somebody clears it, whatever else    *)
(* rewrites the file, as long as no two rewrites overlap and none is killed. *)
GuardsKept ==
    ~ harmed /\ (\A s \in Shells : ~ Doing(s, {"write"})) =>
        \A i \in kept : localFile.guards[i] # None
=============================================================================
