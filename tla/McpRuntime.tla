------------------------------ MODULE McpRuntime ------------------------------
(***************************************************************************)
(* How a tool of the MCP server comes by the settings it works with        *)
(* (mcp/runtime.py).  The server lives for days and serves calls in        *)
(* threads.  Each call looks up the configured root and then the           *)
(* configuration in two caches, whose entries are good as long as their    *)
(* signature, the times and sizes of the files and the environment, is     *)
(* that of now.  An edit makes a new version of all that; one root.        *)
(***************************************************************************)
EXTENDS Missing, Integers

CONSTANTS
    ToolThreads,    \* the threads that serve calls
    MaxEdits    \* bound: edits of the files

RuntimeAssumption == MaxEdits \in Nat /\ None \notin ToolThreads \cup Nat

ASSUME RuntimeAssumption

Caches == {"root", "config"}

VARIABLES
    version,    \* of the files and the environment: what a signature tells
    kept,       \* the entry of each cache
    cacheLock,  \* who holds the lock of each cache
    mutator,    \* who holds the root's mutation lock
    tool        \* each call: where it is, whether it changes something, the version
                \* it began at, the one it has seen or loaded, the entries it uses

runtimeVars == <<version, kept, cacheLock, mutator, tool>>

Unsigned == [signed |-> None, value |-> None]

Gone == [at |-> "gone", mutating |-> FALSE, since |-> 0, saw |-> 0,
         uses |-> [c \in Caches |-> Unsigned]]

RuntimeInit ==
    /\ version = 0 /\ mutator = None
    /\ kept = [c \in Caches |-> Unsigned] /\ cacheLock = [c \in Caches |-> None]
    /\ tool = [t \in ToolThreads |-> Gone]

Is(t, here) == tool[t].at = here

(* After the root comes the configuration, for a mutating tool under its lock. *)
After(t, c) == IF c = "config" THEN "works" ELSE IF tool[t].mutating THEN "waits" ELSE "config"

Takes(t, c, entry) == tool' = [tool EXCEPT ![t].at = After(t, c), ![t].uses[c] = entry]

-----------------------------------------------------------------------------
Called(t, mutating) ==
    /\ Is(t, "gone")
    /\ tool' = [tool EXCEPT ![t] = [Gone EXCEPT !.at = "sees", !.mutating = mutating,
                                                !.since = version]]
    /\ UNCHANGED <<version, kept, cacheLock, mutator>>

(* The root's signature is taken before its cache is locked. *)
SeesRoot(t) ==
    /\ Is(t, "sees")
    /\ tool' = [tool EXCEPT ![t].at = "root", ![t].saw = version]
    /\ UNCHANGED <<version, kept, cacheLock, mutator>>

(* Fault: an entry is good for ever. *)
GoodForEver(t, c) == kept[c].signed # None

Good(t, c) == kept[c].signed = IF c = "root" THEN tool[t].saw ELSE version

LooksUp(t, c) ==
    /\ Is(t, c) /\ cacheLock[c] = None
    /\ IF Good(t, c)
       THEN Takes(t, c, kept[c]) /\ UNCHANGED cacheLock
       ELSE /\ tool' = [tool EXCEPT ![t].at = "loads"]
            /\ cacheLock' = [cacheLock EXCEPT ![c] = t]
    /\ UNCHANGED <<version, kept, mutator>>

Loads(t, c) ==
    /\ Is(t, "loads") /\ cacheLock[c] = t
    /\ tool' = [tool EXCEPT ![t].at = "signs", ![t].saw = version]
    /\ UNCHANGED <<version, kept, cacheLock, mutator>>

(* The signature is taken anew, for a load may put .env into the environment. *)
Signs(t, c) ==
    LET entry == [signed |-> version, value |-> tool[t].saw]
    IN  /\ Is(t, "signs") /\ cacheLock[c] = t
        /\ kept' = [kept EXCEPT ![c] = entry]
        /\ Takes(t, c, entry)
        /\ cacheLock' = [cacheLock EXCEPT ![c] = None]
        /\ UNCHANGED <<version, mutator>>

LocksRoot(t) ==
    /\ Is(t, "waits") /\ mutator = None
    /\ mutator' = t /\ tool' = [tool EXCEPT ![t].at = "config"]
    /\ UNCHANGED <<version, kept, cacheLock>>

(* The tool is done, or has failed, or the configuration cannot be loaded. *)
Returns(t) ==
    /\ tool[t].at \in {"works", "loads"}
    /\ tool' = [tool EXCEPT ![t] = Gone]
    /\ cacheLock' = [c \in Caches |-> IF cacheLock[c] = t THEN None ELSE cacheLock[c]]
    /\ mutator' = IF mutator = t THEN None ELSE mutator
    /\ UNCHANGED <<version, kept>>

(* A person, or another issuekit process, edits one of the files. *)
Edited ==
    /\ version < MaxEdits /\ version' = version + 1
    /\ UNCHANGED <<kept, cacheLock, mutator, tool>>

-----------------------------------------------------------------------------
ToolStep(t) ==
    \/ \E mutating \in BOOLEAN : Called(t, mutating)
    \/ SeesRoot(t) \/ LocksRoot(t) \/ Returns(t)
    \/ \E c \in Caches : LooksUp(t, c) \/ Loads(t, c) \/ Signs(t, c)

RuntimeNext == Edited \/ \E t \in ToolThreads : ToolStep(t)

RuntimeSpec == RuntimeInit /\ [][RuntimeNext]_runtimeVars

-----------------------------------------------------------------------------
(* Properties *)

(* An edit is noticed: no tool works with an entry, of either cache, that was *)
(* signed before the last edit that preceded its call, whichever thread made *)
(* the entry and however long the call waited for the locks.                *)
EditsAreNoticed ==
    \A t \in ToolThreads : Is(t, "works") =>
        \A c \in Caches : tool[t].uses[c].signed >= tool[t].since

(* What the guide of the MCP server says: each call reads the settings as    *)
(* they are, so none works with a value from before the last edit that       *)
(* preceded it.                                                             *)
ToolsSeeEdits ==
    \A t \in ToolThreads : Is(t, "works") =>
        \A c \in Caches : tool[t].uses[c].value >= tool[t].since
=============================================================================
