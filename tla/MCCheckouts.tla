---------------------------- MODULE MCCheckouts ----------------------------
(***************************************************************************)
(* What goes on in a checkout: agent runs and their records, the serve     *)
(* process, the author guards, its row in the catalog, and the App Server  *)
(* attempt with its lease.  They share no state, so TLC explores them one  *)
(* at a time: desk says which one this behaviour is about.                 *)
(***************************************************************************)
EXTENDS AgentRuns, ServeProcess, AuthorGuards, WorkerRegistry, AppServerAttempt, LeaseHeartbeat

VARIABLE desk

deskVars ==
    <<desk, vars, processVars, guardVars, registryVars, attemptVars, heartbeatVars>>

DeskInit ==
    /\ desk \in {"runs", "serve", "guards", "registry", "attempt", "lease"}
    /\ Init /\ ProcessInit /\ GuardInit /\ RegistryInit /\ AttemptInit /\ HeartbeatInit
    /\ desk # "registry" => enrolled = CHOOSE e \in Enrolments : TRUE

DeskNext ==
    /\ UNCHANGED desk
    /\ \/ /\ desk = "runs" /\ Next
          /\ UNCHANGED <<processVars, guardVars, registryVars, attemptVars, heartbeatVars>>
       \/ /\ desk = "serve" /\ ProcessNext
          /\ UNCHANGED <<vars, guardVars, registryVars, attemptVars, heartbeatVars>>
       \/ /\ desk = "guards" /\ GuardNext
          /\ UNCHANGED <<vars, processVars, registryVars, attemptVars, heartbeatVars>>
       \/ /\ desk = "registry" /\ RegistryNext
          /\ UNCHANGED <<vars, processVars, guardVars, attemptVars, heartbeatVars>>
       \/ /\ desk = "attempt" /\ AttemptNext
          /\ UNCHANGED <<vars, processVars, guardVars, registryVars, heartbeatVars>>
       \/ /\ desk = "lease" /\ HeartbeatNext
          /\ UNCHANGED <<vars, processVars, guardVars, registryVars, attemptVars>>

(* A run's process and clock go on, a worker that is up beats again, the      *)
(* attempt's calls return and its deadline comes.                            *)
DeskSpec ==
    /\ DeskInit /\ [][DeskNext]_deskVars
    /\ \A r \in Runners : WF_vars(desk = "runs" /\ RunStep(r))
    /\ \A i \in Ids : WF_vars(desk = "runs" /\ Age(i))
    /\ \A c \in Registered : WF_registryVars(desk = "registry" /\ Beat(c))
    /\ WF_attemptVars(desk = "attempt" /\ MainStep)
    /\ WF_attemptVars(desk = "attempt" /\ DeadlinePasses)

Line(mode, once, maxCount, maxFailures, maxMissed) ==
    [mode |-> mode, once |-> once, maxCount |-> maxCount,
     maxFailures |-> maxFailures, maxMissed |-> maxMissed]

(* The defaults but for the limits, every limit reached, and --once; what a   *)
(* second process of the checkout runs makes no difference to the first.     *)
MCServeOptions ==
    [p \in Serves |->
        IF p = "p2" THEN {Line("checks", FALSE, 0, 2, 0)}
        ELSE {Line(mode, FALSE, 0, 2, 0) : mode \in {"implement", "review", "triage", "checks"}}
             \cup {Line("implement", FALSE, 2, 0, 2), Line("review", TRUE, 0, 2, 0),
                   Line("checks", TRUE, 0, 0, 2)}]

MCShellAgent == [s \in Shells |-> "codex"]

(* ISSUEKIT_SESSION is set in one of the terminals. *)
MCShellToken == [s \in Shells |-> IF s = "t1" THEN <<"env", s>> ELSE None]

Worker(name, machine) == [name |-> name, repo |-> "r", machine |-> machine]

MCHere == Worker("w", "h")

(* Two machines that share a name, or one with two checkouts. *)
MCRegistered == {Worker("w", "h1"), Worker("w", "h2"), Worker("v", "h1")}

MCEnrolments ==
    {{Worker("w", "h1"), Worker("w", "h2")}, {Worker("w", "h1"), Worker("v", "h1")}}

MCDirections == {Worker("w", None), Worker("w", "h1")}

(* Every attempt ends, with the server and the heartbeat stopped: the        *)
(* deadline is enforced even if the turn never reports its end.             *)
AttemptEnds == desk = "attempt" => <>[](main = "done" /\ native # "up" /\ beat \in {"off", "over"})
=============================================================================
