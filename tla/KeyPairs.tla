------------------------------ MODULE KeyPairs ------------------------------
(***************************************************************************)
(* Checks the worker-key operators over every pair of a key and a registry *)
(* row built from two names, two repos and two machines, parts missing     *)
(* included.  The walk moves freely, so every pair is a reachable state.   *)
(***************************************************************************)
EXTENDS WorkerKeys

CONSTANTS Names, Repos, Machines

ASSUME NamesAssumption == None \notin Names \cup Repos \cup Machines

VARIABLES key, row

keyVars == <<key, row>>

Parts(S) == S \cup {None}

Keys == [name : Names, repo : Parts(Repos), machine : Parts(Machines)]

(* A registry row always has a name and a repo; old rows may lack a machine. *)
Rows == [name : Names, repo : Repos, machine : Parts(Machines)]

KeyInit == key \in Keys /\ row \in Rows

KeyNext == key' \in Keys /\ row' \in Rows

KeySpec == KeyInit /\ [][KeyNext]_keyVars

(* The tracker, which lets a checkout claim, and the operator's screens,      *)
(* which judge a claim by the registry, tell workers apart alike.  The        *)
(* checkout finds what it claimed with either of its keys, also after it has  *)
(* got a machine, and whoever judges that claim finds its row; a directed     *)
(* issue is judged by exactly the workers that may claim it; and the claim    *)
(* of one machine is never judged by the row of another one.                *)
KeysAgree ==
    /\ key \in LookupKeys(row) => KeyMatchesRow(key, row, FALSE)
    /\ KeyMatchesRow(key, row, TRUE) <=> KeysMatch(key, row, TRUE)
    /\ KeyMatchesRow(key, row, FALSE) => Agree(key.machine, row.machine)
=============================================================================
