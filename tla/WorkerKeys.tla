----------------------------- MODULE WorkerKeys -----------------------------
(***************************************************************************)
(* Worker identities (issuekit/core.py).  A worker is addressed by a key   *)
(* worker.repo@machine of which the repo or the machine may be missing.    *)
(* Keys decide who may claim a directed issue, whose claim a restarted     *)
(* serve resumes, and which registry row speaks for a claim's holder.      *)
(* A key is a record; None stands for an absent part.                      *)
(***************************************************************************)
EXTENDS Missing

NoKey == [name |-> None, repo |-> None, machine |-> None]

(* worker.repo: the key without its machine. *)
Bare(key) == [key EXCEPT !.machine = None]

(* A name alone carries no context: _worker_key_parts gives nothing for it. *)
HasParts(key) == key.name # None /\ (key.repo # None \/ key.machine # None)

(* Two parts disagree only when both are present. *)
Agree(a, b) == a # None /\ b # None => a = b

KeysMatch(target, other, requireMachine) ==
    \/ target = other
    \/ /\ HasParts(target) /\ HasParts(other)
       /\ target.name = other.name
       /\ Agree(target.repo, other.repo)
       /\ Agree(target.machine, other.machine)
       /\ requireMachine /\ target.machine # None => other.machine # None

(* The keys a registry row answers to. *)
RowKeys(row) ==
    IF row.repo = None \/ row.name = None THEN {} ELSE {Bare(row), row}

(* Fault: the row's bare key masks its machine. *)
ComparedKeysMasked(key, row) == RowKeys(row)

(* A qualified key is compared with the row's qualified key when it has one. *)
ComparedKeys(key, row) ==
    IF key.machine # None /\ row.machine # None
    THEN {k \in RowKeys(row) : k.machine # None}
    ELSE RowKeys(row)

KeyMatchesRow(key, row, directed) ==
    \E candidate \in ComparedKeys(key, row) : KeysMatch(key, candidate, directed)

(* The keys under which a checkout finds its own claims. *)
LookupKeys(key) == {key, Bare(key)}
=============================================================================
