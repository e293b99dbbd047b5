--------------------------- MODULE WorkerRegistry ---------------------------
(***************************************************************************)
(* The catalog of workers: checkouts whose serves register themselves with *)
(* every heartbeat (workers/registration.py), and operators who remove or  *)
(* prune rows (workers/registry.py).  A command reads the catalog, then    *)
(* the issues, and deletes by row id; claims, directions and heartbeats    *)
(* come in between.                                                         *)
(***************************************************************************)
EXTENDS WorkerKeys, Naturals

CONSTANTS
    Registered,     \* the keys checkouts may have, with their machines
    Enrolments,     \* sets of them: the checkouts there are in a behaviour
    Tickets,        \* issues of their project
    Directions,     \* keys issues may be directed to
    Admins,         \* operators, one command each at a time
    MaxAdminCommands, \* bound: commands they run
    MaxUnread       \* bound: listings of the issues that fail

VARIABLES
    enrolled,   \* the checkouts that `issuekit add` has given a key
    catalog,    \* [row id -> the row, or Absent]
    beating,    \* checkouts whose serve is up
    ticket,     \* the claim and direction of each issue
    admin,      \* the command of each operator
    commanded, unread

registryVars == <<enrolled, catalog, beating, ticket, admin, commanded, unread>>

RegistryAssumption ==
    /\ \A c \in Registered :
          /\ c = [name |-> c.name, repo |-> c.repo, machine |-> c.machine]
          /\ HasParts(c) /\ c.repo # None
    /\ Enrolments \subseteq SUBSET Registered
    /\ MaxAdminCommands \in Nat /\ MaxUnread \in Nat

ASSUME RegistryAssumption

(* A row's id is worker.repo: machines that share a name share the row. *)
RowIds == {Bare(c) : c \in Registered}

Absent == [key |-> NoKey, old |-> FALSE]

Present(rows) == {id \in RowIds : rows[id] # Absent}

Nobody == [holder |-> NoKey, owner |-> NoKey, target |-> NoKey]

NoRows == [id \in RowIds |-> Absent]

(* busy, wanted: ghosts, the checkouts that implemented an issue, and those    *)
(* that might claim one directed to them, when the issues were read.         *)
NoCommand ==
    [at |-> "idle", does |-> None, force |-> FALSE, rows |-> NoRows,
     shown |-> {}, left |-> {}, busy |-> {}, wanted |-> {}]

RegistryInit ==
    /\ enrolled \in Enrolments
    /\ catalog = NoRows /\ beating = {}
    /\ ticket = [t \in Tickets |-> Nobody]
    /\ admin = [o \in Admins |-> NoCommand]
    /\ commanded = 0 /\ unread = 0

-----------------------------------------------------------------------------
(* Checkouts and their issues *)

OnlyCatalog == UNCHANGED <<enrolled, beating, ticket, admin, commanded, unread>>

OnlyTickets == UNCHANGED <<enrolled, catalog, beating, admin, commanded, unread>>

StartsBeating(c) ==
    /\ c \in enrolled \ beating /\ beating' = beating \cup {c}
    /\ UNCHANGED <<enrolled, catalog, ticket, admin, commanded, unread>>

(* It stops, is killed, or cannot reach the provider any more. *)
StopsBeating(c) ==
    /\ beating' = beating \ {c} /\ c \in beating
    /\ UNCHANGED <<enrolled, catalog, ticket, admin, commanded, unread>>

(* Fault: only a change of the checkout is published. *)
BeatOnChange(c) ==
    /\ c \in beating /\ catalog[Bare(c)].key # NoKey
    /\ catalog' = [catalog EXCEPT ![Bare(c)] = [key |-> c, old |-> FALSE]]
    /\ OnlyCatalog

(* The repo and then the row are written over whatever is there. *)
Beat(c) ==
    /\ c \in beating
    /\ catalog' = [catalog EXCEPT ![Bare(c)] = [key |-> c, old |-> FALSE]]
    /\ OnlyCatalog

(* last_seen is longer ago than the staleness window, also while a live       *)
(* checkout is suspended or offline.                                        *)
GrowsOld(id) ==
    /\ id \in Present(catalog)
    /\ catalog' = [catalog EXCEPT ![id].old = TRUE]
    /\ OnlyCatalog

(* With the checkout's key, or with the bare key of an older version. *)
Claims(c, t, worker) ==
    /\ c \in beating /\ ticket[t].holder = NoKey
    /\ ticket[t].target # NoKey => KeysMatch(ticket[t].target, c, TRUE)
    /\ ticket' = [ticket EXCEPT ![t].holder = worker, ![t].owner = c]
    /\ OnlyTickets

(* Submitted or reclaimed. *)
GivesBack(t) ==
    /\ ticket[t].holder # NoKey
    /\ ticket' = [ticket EXCEPT ![t] = Nobody]
    /\ OnlyTickets

(* dispatch --to, or readdress with NoKey. *)
Directs(t, address) ==
    /\ ticket[t].holder = NoKey
    /\ ticket' = [ticket EXCEPT ![t].target = address]
    /\ OnlyTickets

-----------------------------------------------------------------------------
(* Operators *)

OnlyAdmin == UNCHANGED <<enrolled, catalog, beating, ticket, commanded, unread>>

Runs(o, changes) == admin' = [admin EXCEPT ![o] = With(@, changes)]

BeginsCommand(o, changes) ==
    /\ admin[o].at = "idle" /\ commanded < MaxAdminCommands
    /\ commanded' = commanded + 1
    /\ Runs(o, changes)
    /\ UNCHANGED <<enrolled, catalog, beating, ticket, unread>>

Ends(o) == admin' = [admin EXCEPT ![o] = NoCommand]

Holds(row) ==
    \E t \in Tickets : ticket[t].holder # NoKey /\ KeyMatchesRow(ticket[t].holder, row.key, FALSE)

Addressed(row) ==
    \E t \in Tickets : ticket[t].target # NoKey /\ KeyMatchesRow(ticket[t].target, row.key, TRUE)

Busy == {ticket[t].owner : t \in Tickets}

Wanted ==
    {c \in Registered :
        \E t \in Tickets : ticket[t].target # NoKey /\ KeysMatch(ticket[t].target, c, TRUE)}

(* Fault: directed work does not keep a worker. *)
PruneCandidatesHeldOnly(rows) ==
    {id \in Present(rows) : rows[id].old /\ ~ Holds(rows[id])}

PruneCandidates(rows) ==
    {id \in Present(rows) : rows[id].old /\ ~ Holds(rows[id]) /\ ~ Addressed(rows[id])}

Resolve(o, address, force) ==
    \E id \in Present(catalog) :
        /\ {id} = {other \in Present(catalog) : KeyMatchesRow(address, catalog[other].key, TRUE)}
        /\ BeginsCommand(o, [at |-> "claims", does |-> "remove", force |-> force,
                      rows |-> catalog, shown |-> {id}])

ListsToPrune(o) == BeginsCommand(o, [at |-> "preview", does |-> "prune", rows |-> catalog])

ListsAgain(o) ==
    /\ admin[o].at = "again"
    /\ Runs(o, [at |-> "decide", rows |-> catalog])
    /\ OnlyAdmin

(* A project whose issues cannot be read is left out of a prune. *)
Read(o, readable) ==
    /\ unread' = IF readable THEN unread ELSE unread + 1
    /\ unread' <= MaxUnread
    /\ UNCHANGED <<enrolled, catalog, beating, ticket, commanded>>

Candidates(o, readable) == IF readable THEN PruneCandidates(admin[o].rows) ELSE {}

Previews(o, readable) ==
    /\ admin[o].at = "preview" /\ Read(o, readable)
    /\ Runs(o, [at |-> "confirm", shown |-> Candidates(o, readable), rows |-> NoRows])

Confirms(o) == admin[o].at = "confirm" /\ Runs(o, [at |-> "again"]) /\ OnlyAdmin

(* --dry-run, another number typed, or the command is interrupted. *)
AdminGivesUp(o) == admin[o].at # "idle" /\ Ends(o) /\ OnlyAdmin

Decides(o, readable) ==
    /\ admin[o].at = "decide" /\ Read(o, readable)
    /\ IF Candidates(o, readable) = admin[o].shown
       THEN Runs(o, [at |-> "delete", left |-> admin[o].shown, busy |-> Busy, wanted |-> Wanted])
       ELSE Ends(o)

ReadsClaims(o, readable) ==
    /\ admin[o].at = "claims" /\ Read(o, readable)
    /\ LET held == readable /\ \E id \in admin[o].shown : Holds(admin[o].rows[id])
       IN  IF admin[o].force \/ (readable /\ ~ held)
           THEN Runs(o, [at |-> "delete", left |-> admin[o].shown, busy |-> Busy, wanted |-> Wanted])
           ELSE Ends(o)

(* One call per row.  A row that is gone by now ends the command. *)
Deletes(o) ==
    /\ admin[o].at = "delete"
    /\ IF admin[o].left = {} THEN Ends(o) /\ UNCHANGED catalog
       ELSE \E id \in admin[o].left :
               /\ catalog' = [catalog EXCEPT ![id] = Absent]
               /\ IF id \in Present(catalog) THEN Runs(o, [left |-> admin[o].left \ {id}])
                                             ELSE Ends(o)
    /\ UNCHANGED <<enrolled, beating, ticket, commanded, unread>>

-----------------------------------------------------------------------------
RegistryNext ==
    \/ \E c \in Registered :
          \/ StartsBeating(c) \/ StopsBeating(c) \/ Beat(c)
          \/ \E t \in Tickets, worker \in LookupKeys(c) : Claims(c, t, worker)
    \/ \E id \in RowIds : GrowsOld(id)
    \/ \E t \in Tickets :
          GivesBack(t) \/ \E address \in Directions \cup {NoKey} : Directs(t, address)
    \/ \E o \in Admins :
          \/ \E address \in Directions, force \in BOOLEAN : Resolve(o, address, force)
          \/ ListsToPrune(o) \/ ListsAgain(o) \/ Confirms(o) \/ AdminGivesUp(o) \/ Deletes(o)
          \/ \E readable \in BOOLEAN :
                Previews(o, readable) \/ Decides(o, readable) \/ ReadsClaims(o, readable)

(* The heartbeat thread of a serve that is up beats. *)
RegistrySpec ==
    /\ RegistryInit /\ [][RegistryNext]_registryVars
    /\ \A c \in Registered : WF_registryVars(Beat(c))

-----------------------------------------------------------------------------
(* Properties *)

(* A row belongs to a checkout with its bare key, a ticket is held under one  *)
(* of its owner's keys, and an operator deletes from what the lists showed.  *)
RegistryTypes ==
    /\ \A id \in RowIds :
          catalog[id] = Absent \/ (catalog[id].key \in Registered /\ Bare(catalog[id].key) = id)
    /\ beating \subseteq Registered
    /\ \A t \in Tickets :
          ticket[t].owner # NoKey => ticket[t].holder \in LookupKeys(ticket[t].owner)
    /\ \A o \in Admins :
          /\ admin[o].left \subseteq admin[o].shown
          /\ admin[o].shown \subseteq Present(admin[o].rows) \/ admin[o].at \in {"confirm", "again", "decide"}

(* What a prune goes on to delete, and what a removal without --force does,   *)
(* is the row of a checkout that implemented nothing when the issues were     *)
(* read last, and to a pruned one nothing was directed either; a prune has    *)
(* shown every row it deletes.                                              *)
DeletesOnlyIdle ==
    \A o \in Admins : admin[o].at = "delete" /\ ~ admin[o].force =>
        \A id \in admin[o].left :
            LET c == admin[o].rows[id].key
            IN  /\ id \in admin[o].shown /\ c \notin admin[o].busy
                /\ admin[o].does = "prune" =>
                      admin[o].rows[id].old /\ c \notin admin[o].wanted

(* A serve that goes on beating is back in the catalog, whoever deleted its   *)
(* row and whatever they knew when they did.                                *)
LiveIsListed ==
    \A c \in Registered : []<> (Bare(c) \in Present(catalog) \/ c \notin beating)
=============================================================================
