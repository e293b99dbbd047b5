------------------------------ MODULE MCClients ------------------------------
(***************************************************************************)
(* What the clients of one tracker do: move an issue through its lifecycle *)
(* from several places, log in behind their requests, look up their        *)
(* settings in a server that lives for days, negotiate with another        *)
(* project over the tracker or, without it, in a file, and have a PM's     *)
(* requests routed.  They share no state, so TLC explores them one at a    *)
(* time: matter says which one this behaviour is about.                    *)
(***************************************************************************)
EXTENDS IssueLifecycle, ApiLogin, McpRuntime, LocalThreads, Negotiation, PmRequest, TLC

CONSTANT Machines   \* of the two checkouts

VARIABLE matter

matterVars == <<matter, vars, loginVars, runtimeVars, localVars, negotiationVars, pmVars>>

MatterInit ==
    /\ matter \in {"issue", "login", "settings", "file", "negotiation", "request"}
    /\ Init /\ LoginInit /\ RuntimeInit /\ LocalInit /\ NegotiationInit /\ PmInit
    /\ matter # "issue" => \A i \in Issues : issues[i] = NewIssue(FallbackAgent, None, NoKey)

MatterNext ==
    /\ UNCHANGED matter
    /\ \/ /\ matter = "issue" /\ Next
          /\ UNCHANGED <<loginVars, runtimeVars, localVars, negotiationVars, pmVars>>
       \/ /\ matter = "login" /\ LoginNext
          /\ UNCHANGED <<vars, runtimeVars, localVars, negotiationVars, pmVars>>
       \/ /\ matter = "settings" /\ RuntimeNext
          /\ UNCHANGED <<vars, loginVars, localVars, negotiationVars, pmVars>>
       \/ /\ matter = "file" /\ LocalNext
          /\ UNCHANGED <<vars, loginVars, runtimeVars, negotiationVars, pmVars>>
       \/ /\ matter = "negotiation" /\ NegotiationNext
          /\ UNCHANGED <<vars, loginVars, runtimeVars, localVars, pmVars>>
       \/ /\ matter = "request" /\ PmNext
          /\ UNCHANGED <<vars, loginVars, runtimeVars, localVars, negotiationVars>>

MatterSpec == MatterInit /\ [][MatterNext]_matterVars

(* One issue, two agent names, two checkouts of one repo on two machines.     *)
(* Their bare keys are equal: approve, which sends bare keys, cannot tell    *)
(* them apart, and claims can.                                              *)
MCCheckouts ==
    {[name |-> "worker", repo |-> "repo", machine |-> m] : m \in Machines}

(* The processes of the other matters have the names of these two sets, so    *)
(* that one symmetry serves all of them.                                    *)
ClientSymmetry == Permutations(Clients) \cup Permutations(Machines)

MCReviewerFor == [a \in Agents |-> CHOOSE b \in Agents : b # a]

(* Two threads of one process, and a process that uses another URL. *)
MCApiClient == [t \in Callers |-> IF t = "other" THEN "other" ELSE "attempt"]

MCApiUrl == [c \in ApiClients |-> IF c = "other" THEN "v" ELSE "u"]

MCGiven == [c \in ApiClients |-> None]

MCOpener == [d \in Drivers |-> "consumer"]

Says(verdict, contract) == [verdict |-> verdict, contract |-> contract]

(* What decides a thread's outcome: the same or another contract, or none. *)
MCTurns == {Says("agree", "x"), Says("counter", "y"), Says("blocked", None)}

To(project, after) == [project |-> project, after |-> after]

(* The router adds a project to its targets, or changes their order. *)
MCRoutes == {<<To("a", 0)>>, <<To("a", 0), To("b", 1)>>, <<To("b", 0), To("c", 1)>>}
=============================================================================
