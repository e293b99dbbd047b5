------------------------ MODULE WorkerRegistryProofs ------------------------
(***************************************************************************)
(* Proofs about worker keys, for any names, repos and machines, and about  *)
(* the registry that compares them, for any number of checkouts, issues    *)
(* and operators.                                                          *)
(***************************************************************************)
EXTENDS WorkerRegistry, KeyPairs, TLAPS

(* A key of a registered checkout: it has a name and a repo. *)
RowKey(c) ==
    /\ c = [name |-> c.name, repo |-> c.repo, machine |-> c.machine]
    /\ HasParts(c) /\ c.repo # None

(* A row speaks for what its checkout claimed with either of its keys. *)
LEMMA OwnClaimFound ==
    ASSUME NEW c, RowKey(c), NEW k \in LookupKeys(c), NEW directed \in BOOLEAN
    PROVE  k # NoKey /\ KeyMatchesRow(k, c, directed)
<1>1. /\ Bare(c) = [name |-> c.name, repo |-> c.repo, machine |-> None]
      /\ c.name # None
    BY DEF Bare, RowKey, HasParts
<1>2. RowKeys(c) = {Bare(c), c}
    BY <1>1 DEF RowKeys, RowKey
<1>3. CASE k = c
    <2>1. c \in ComparedKeys(c, c)
        BY <1>2 DEF ComparedKeys
    <2> QED
        BY <1>1, <1>3, <2>1 DEF KeyMatchesRow, KeysMatch, NoKey
<1>4. CASE k = Bare(c)
    <2>1. k.machine = None /\ k.name # None
        BY <1>1, <1>4
    <2>2. Bare(c) \in ComparedKeys(k, c)
        BY <1>2, <2>1 DEF ComparedKeys
    <2> QED
        BY <1>4, <2>1, <2>2 DEF KeyMatchesRow, KeysMatch, NoKey
<1> QED
    BY <1>3, <1>4 DEF LookupKeys

(* What a checkout may claim is seen to be directed to its row. *)
LEMMA DirectedSeen ==
    ASSUME NEW c, RowKey(c), NEW k, NEW directed \in BOOLEAN, KeysMatch(k, c, directed)
    PROVE  KeyMatchesRow(k, c, directed)
<1>1. c \in RowKeys(c)
    BY DEF RowKeys, RowKey, HasParts
<1>2. c \in ComparedKeys(k, c)
    BY <1>1 DEF ComparedKeys
<1> QED
    BY <1>2 DEF KeyMatchesRow

(* No other machine's row does either: a key that names a machine is compared *)
(* with the row's qualified key.                                            *)
LEMMA MachinesApart ==
    ASSUME NEW c, RowKey(c), NEW k, NEW directed \in BOOLEAN, KeyMatchesRow(k, c, directed)
    PROVE  Agree(k.machine, c.machine)
<1> SUFFICES ASSUME k.machine # None, c.machine # None
             PROVE  k.machine = c.machine
    BY DEF Agree
<1>1. Bare(c).machine = None
    BY DEF Bare, RowKey
<1>2. RowKeys(c) = {Bare(c), c}
    BY DEF RowKeys, RowKey, HasParts
<1>3. ComparedKeys(k, c) = {c}
    BY <1>1, <1>2 DEF ComparedKeys
<1>4. KeysMatch(k, c, directed)
    BY <1>3 DEF KeyMatchesRow
<1> QED
    BY <1>4 DEF KeysMatch, Agree

LEMMA RowSeesDirected ==
    ASSUME NEW c, RowKey(c), NEW k, k.name # None, KeyMatchesRow(k, c, TRUE)
    PROVE  KeysMatch(k, c, TRUE)
<1>1. /\ Bare(c) = [name |-> c.name, repo |-> c.repo, machine |-> None]
      /\ c.name # None /\ RowKeys(c) = {Bare(c), c}
    BY DEF Bare, RowKey, HasParts, RowKeys
<1>2. PICK candidate \in ComparedKeys(k, c) : KeysMatch(k, candidate, TRUE)
    BY DEF KeyMatchesRow
<1>3. CASE candidate = c
    BY <1>2, <1>3
<1>4. CASE candidate = Bare(c)
    <2>1. k.machine = None \/ c.machine = None
        BY <1>1, <1>2, <1>4 DEF ComparedKeys
    <2>2. CASE k = Bare(c)
        BY <1>1, <2>2 DEF KeysMatch, HasParts, Agree, RowKey
    <2>3. CASE k # Bare(c)
        <3>1. /\ HasParts(k) /\ k.name = c.name /\ Agree(k.repo, c.repo)
              /\ k.machine # None => None # None
            BY <1>1, <1>2, <1>4, <2>3 DEF KeysMatch
        <3> QED
            BY <3>1 DEF KeysMatch, Agree, RowKey
    <2> QED
        BY <2>2, <2>3
<1> QED
    BY <1>1, <1>2, <1>3, <1>4 DEF ComparedKeys

(* Whatever names, repos and machines there are, the tracker and the registry *)
(* tell workers apart alike.                                                *)
THEOREM KeysAlike == KeySpec => []KeysAgree
<1>1. key \in Keys /\ row \in Rows => KeysAgree
    <2> SUFFICES ASSUME key \in Keys, row \in Rows PROVE KeysAgree
        OBVIOUS
    <2>1. RowKey(row) /\ key.name # None
        BY NamesAssumption DEF RowKey, Rows, Keys, HasParts, Parts
    <2>2. key \in LookupKeys(row) => KeyMatchesRow(key, row, FALSE)
        BY <2>1, OwnClaimFound
    <2>3. KeyMatchesRow(key, row, TRUE) <=> KeysMatch(key, row, TRUE)
        BY <2>1, DirectedSeen, RowSeesDirected
    <2>4. KeyMatchesRow(key, row, FALSE) => Agree(key.machine, row.machine)
        BY <2>1, MachinesApart
    <2> QED
        BY <2>2, <2>3, <2>4 DEF KeysAgree
<1>2. KeyInit => key \in Keys /\ row \in Rows
    BY DEF KeyInit
<1>3. key \in Keys /\ row \in Rows /\ [KeyNext]_keyVars => (key \in Keys /\ row \in Rows)'
    BY DEF KeyNext, keyVars
<1> QED
    BY <1>1, <1>2, <1>3, PTL DEF KeySpec

-----------------------------------------------------------------------------
(* The registry *)

Entries == [key : Registered \cup {NoKey}, old : BOOLEAN]

(* A catalog: every row that is there is of a checkout, under its bare key. *)
Listing(rows) ==
    /\ rows \in [RowIds -> Entries]
    /\ \A id \in RowIds :
          rows[id] = Absent \/ (rows[id].key \in Registered /\ Bare(rows[id].key) = id)

AdminSteps ==
    {"idle", "claims", "preview", "confirm", "again", "decide", "delete"}

Commands ==
    [at : AdminSteps, does : {None, "remove", "prune"}, force : BOOLEAN,
     rows : [RowIds -> Entries], shown : SUBSET RowIds, left : SUBSET RowIds,
     busy : SUBSET (Registered \cup {NoKey}), wanted : SUBSET Registered]

Claim ==
    [holder : {NoKey} \cup UNION {LookupKeys(c) : c \in Registered},
     owner : Registered \cup {NoKey}, target : Directions \cup {NoKey}]

(* An issue names the checkout that claimed it by one of that one's keys. *)
TicketsOwned ==
    /\ ticket \in [Tickets -> Claim]
    /\ \A t \in Tickets :
          ticket[t].owner # NoKey => ticket[t].holder \in LookupKeys(ticket[t].owner)

(* A command deletes only what it has shown, of the rows it has read. *)
Careful(m) ==
    /\ m \in Commands /\ Listing(m.rows)
    /\ m.at \in {"preview", "confirm", "again", "decide"} => m.does = "prune"
    /\ m.at = "claims" => m.does = "remove"
    /\ m.at \in {"idle", "preview"} => m.shown = {}
    /\ m.left \subseteq m.shown
    /\ m.shown \subseteq Present(m.rows) \/ m.at \in {"confirm", "again", "decide"}
    /\ m.at = "delete" /\ ~ m.force =>
          \A id \in m.left :
              /\ m.rows[id].key \notin m.busy
              /\ m.does = "prune" => m.rows[id].old /\ m.rows[id].key \notin m.wanted

RegistryIInv ==
    /\ Listing(catalog) /\ beating \subseteq Registered /\ TicketsOwned
    /\ admin = [o \in Admins |-> admin[o]]
    /\ \A o \in Admins : Careful(admin[o])

LEMMA RegisteredKeys == \A c \in Registered : RowKey(c) /\ c # NoKey
BY RegistryAssumption DEF RegistryAssumption, RowKey, NoKey, HasParts

(* A row no issue is held by belongs to a checkout that implements none, and  *)
(* one no issue is directed to could not claim one.                         *)
LEMMA FreeRow ==
    ASSUME TicketsOwned, NEW row_ \in Entries, row_.key \in Registered
    PROVE  /\ ~ Holds(row_) => row_.key \notin Busy
           /\ ~ Addressed(row_) => row_.key \notin Wanted
<1>1. RowKey(row_.key) /\ row_.key # NoKey
    BY RegisteredKeys
<1>2. ASSUME NEW t \in Tickets, ticket[t].owner = row_.key
      PROVE  Holds(row_)
    <2>1. ticket[t].holder \in LookupKeys(row_.key)
        BY <1>1, <1>2 DEF TicketsOwned
    <2> QED
        BY <1>1, <2>1, OwnClaimFound DEF Holds
<1>3. ASSUME NEW t \in Tickets, ticket[t].target # NoKey,
             KeysMatch(ticket[t].target, row_.key, TRUE)
      PROVE  Addressed(row_)
    BY <1>1, <1>3, DirectedSeen DEF Addressed
<1> QED
    BY <1>2, <1>3 DEF Busy, Wanted

(* A command's record after one of its steps. *)
LEMMA CommandChanges ==
    ASSUME RegistryIInv, NEW o \in Admins, NEW q, Careful(q),
           admin' = [admin EXCEPT ![o] = q],
           UNCHANGED <<beating, ticket>>, Listing(catalog')
    PROVE  RegistryIInv'
<1>1. admin' = [x \in Admins |-> admin'[x]]
    BY DEF RegistryIInv
<1>2. \A x \in Admins : Careful(admin'[x])
    BY DEF RegistryIInv
<1>3. TicketsOwned'
    BY DEF RegistryIInv, TicketsOwned
<1>4. beating' \subseteq Registered
    BY DEF RegistryIInv
<1> HIDE DEF Careful
<1> QED
    BY <1>1, <1>2, <1>3, <1>4 DEF RegistryIInv

LEMMA NoCommandCareful == NoCommand \in Commands /\ Careful(NoCommand)
<1>1. Absent \in Entries /\ NoRows \in [RowIds -> Entries]
    BY DEF Absent, Entries, NoRows
<1>2. Listing(NoRows)
    BY <1>1 DEF Listing, NoRows
<1>3. /\ NoCommand.rows = NoRows /\ NoCommand.at = "idle"
      /\ NoCommand.left = {} /\ NoCommand.shown = {}
    BY DEF NoCommand
<1>4. NoCommand \in Commands
    BY <1>1 DEF NoCommand, Commands, AdminSteps
<1> QED
    BY <1>2, <1>3, <1>4 DEF Careful

(* The environment: checkouts beat, issues are claimed and directed. *)
LEMMA RegistersSound ==
    ASSUME RegistryIInv, NEW c \in Registered,
           \/ StartsBeating(c) \/ StopsBeating(c) \/ Beat(c)
           \/ \E id \in RowIds : GrowsOld(id)
    PROVE  RegistryIInv'
<1>1. CASE StartsBeating(c) \/ StopsBeating(c)
    <2>1. beating' \subseteq Registered /\ UNCHANGED <<catalog, ticket, admin>>
        BY <1>1 DEF StartsBeating, StopsBeating, RegistryIInv
    <2> QED
        BY <2>1 DEF RegistryIInv, TicketsOwned
<1>2. CASE Beat(c) \/ \E id \in RowIds : GrowsOld(id)
    <2>1. UNCHANGED <<beating, ticket, admin>>
        BY <1>2 DEF Beat, GrowsOld, OnlyCatalog
    <2>2. Listing(catalog')
        <3>1. CASE Beat(c)
            <4>1. catalog' = [catalog EXCEPT ![Bare(c)] = [key |-> c, old |-> FALSE]]
                BY <3>1 DEF Beat
            <4>2. [key |-> c, old |-> FALSE] \in Entries /\ Bare(c) \in RowIds
                BY DEF Entries, RowIds
            <4> QED
                BY <4>1, <4>2 DEF RegistryIInv, Listing
        <3>2. ASSUME NEW id \in RowIds, GrowsOld(id)
              PROVE  Listing(catalog')
            <4>1. catalog' = [catalog EXCEPT ![id].old = TRUE] /\ catalog[id] # Absent
                BY <3>2 DEF GrowsOld, Present
            <4>2. catalog[id] \in Entries /\ [catalog[id] EXCEPT !.old = TRUE] \in Entries
                BY DEF RegistryIInv, Listing, Entries
            <4>3. [catalog[id] EXCEPT !.old = TRUE].key = catalog[id].key
                BY <4>2 DEF Entries
            <4> QED
                BY <4>1, <4>2, <4>3 DEF RegistryIInv, Listing
        <3> QED
            BY <1>2, <3>1, <3>2
    <2> QED
        BY <2>1, <2>2 DEF RegistryIInv, TicketsOwned
<1> QED
    BY <1>1, <1>2

LEMMA TicketsSound ==
    ASSUME RegistryIInv, NEW t \in Tickets,
           \/ \E c \in Registered : \E worker \in LookupKeys(c) : Claims(c, t, worker)
           \/ GivesBack(t)
           \/ \E address \in Directions \cup {NoKey} : Directs(t, address)
    PROVE  RegistryIInv'
<1>1. UNCHANGED <<catalog, beating, admin>>
    BY DEF Claims, GivesBack, Directs, OnlyTickets
<1>2. TicketsOwned'
    <2>1. ASSUME NEW c \in Registered, NEW worker \in LookupKeys(c), Claims(c, t, worker)
          PROVE  TicketsOwned'
        <3>1. ticket' = [ticket EXCEPT ![t].holder = worker, ![t].owner = c]
            BY <2>1 DEF Claims
        <3>2. ticket' \in [Tickets -> Claim]
            <4>1. worker \in {NoKey} \cup UNION {LookupKeys(d) : d \in Registered}
                OBVIOUS
            <4>2. ticket[t] \in Claim /\ ticket \in [Tickets -> Claim]
                BY DEF RegistryIInv, TicketsOwned
            <4>3. [ticket[t] EXCEPT !.holder = worker, !.owner = c] \in Claim
                BY <4>1, <4>2 DEF Claim
            <4>4. ticket' = [ticket EXCEPT ![t] = [ticket[t] EXCEPT !.holder = worker, !.owner = c]]
                BY <3>1, <4>2 DEF Claim
            <4> QED
                BY <4>2, <4>3, <4>4
        <3>3. /\ ticket'[t].owner = c /\ ticket'[t].holder = worker
              /\ \A u \in Tickets \ {t} : ticket'[u] = ticket[u]
            BY <3>1 DEF RegistryIInv, TicketsOwned, Claim
        <3> QED
            BY <3>2, <3>3 DEF RegistryIInv, TicketsOwned
    <2>2. CASE GivesBack(t)
        <3>1. ticket' = [ticket EXCEPT ![t] = Nobody]
            BY <2>2 DEF GivesBack
        <3>2. Nobody \in Claim /\ Nobody.owner = NoKey
            BY DEF Nobody, Claim
        <3> QED
            BY <3>1, <3>2 DEF RegistryIInv, TicketsOwned
    <2>3. ASSUME NEW address \in Directions \cup {NoKey}, Directs(t, address)
          PROVE  TicketsOwned'
        <3>1. ticket' = [ticket EXCEPT ![t].target = address]
            BY <2>3 DEF Directs
        <3>2. ticket' \in [Tickets -> Claim]
            BY <3>1 DEF RegistryIInv, TicketsOwned, Claim
        <3>3. /\ ticket'[t].owner = ticket[t].owner /\ ticket'[t].holder = ticket[t].holder
              /\ \A u \in Tickets \ {t} : ticket'[u] = ticket[u]
            BY <3>1 DEF RegistryIInv, TicketsOwned, Claim
        <3> QED
            BY <3>2, <3>3 DEF RegistryIInv, TicketsOwned
    <2> QED
        BY <2>1, <2>2, <2>3
<1> QED
    BY <1>1, <1>2 DEF RegistryIInv

-----------------------------------------------------------------------------
(* The steps of a command *)

(* What a command decides to delete was shown, and is free as it decides. *)
LEMMA DecidesSound ==
    ASSUME RegistryIInv, NEW o \in Admins, NEW q \in Commands,
           q.rows = admin[o].rows, q.shown = admin[o].shown, q.left = admin[o].shown,
           q.does = admin[o].does, q.force = admin[o].force, q.at = "delete",
           q.busy = Busy, q.wanted = Wanted,
           admin[o].shown \subseteq Present(admin[o].rows),
           \/ admin[o].force
           \/ /\ \A id \in admin[o].shown : ~ Holds(admin[o].rows[id])
              /\ admin[o].does = "prune" =>
                    \A id \in admin[o].shown :
                       admin[o].rows[id].old /\ ~ Addressed(admin[o].rows[id])
    PROVE  Careful(q)
<1>1. Listing(q.rows) /\ TicketsOwned
    BY DEF RegistryIInv, Careful
<1>2. ASSUME NEW id \in q.left
      PROVE  q.rows[id] \in Entries /\ q.rows[id].key \in Registered
    <2>1. id \in RowIds /\ q.rows[id] # Absent
        BY DEF Present
    <2> QED
        BY <1>1, <2>1 DEF Listing
<1>3. ASSUME ~ q.force, NEW id \in q.left
      PROVE  /\ q.rows[id].key \notin q.busy
             /\ q.does = "prune" => q.rows[id].old /\ q.rows[id].key \notin q.wanted
    BY <1>1, <1>2, <1>3, FreeRow
<1> QED
    BY <1>1, <1>3 DEF Careful

LEMMA BusyWanted ==
    ASSUME TicketsOwned
    PROVE  Busy \subseteq Registered \cup {NoKey} /\ Wanted \subseteq Registered
BY DEF Busy, Wanted, TicketsOwned, Claim

LEMMA AdminBegins ==
    ASSUME RegistryIInv, NEW o \in Admins,
           \/ \E address \in Directions, force \in BOOLEAN : Resolve(o, address, force)
           \/ ListsToPrune(o)
    PROVE  RegistryIInv'
<1>1. admin[o] \in Commands /\ admin[o].at = "idle" /\ Careful(admin[o])
    BY DEF RegistryIInv, Careful, Resolve, ListsToPrune, BeginsCommand
<1>2. UNCHANGED <<beating, ticket, catalog>> /\ Listing(catalog) /\ Listing(catalog')
    BY DEF RegistryIInv, Resolve, ListsToPrune, BeginsCommand, Listing
<1>3. catalog \in [RowIds -> Entries]
    BY <1>2 DEF Listing
<1>4. ASSUME NEW address \in Directions, NEW force \in BOOLEAN, Resolve(o, address, force)
      PROVE  RegistryIInv'
    <2>1. PICK id \in Present(catalog) :
             admin' = [admin EXCEPT ![o] = With(admin[o],
                [at |-> "claims", does |-> "remove", force |-> force,
                 rows |-> catalog, shown |-> {id}])]
        BY <1>4 DEF Resolve, BeginsCommand, Runs
    <2> DEFINE q == With(admin[o], [at |-> "claims", does |-> "remove", force |-> force,
                                    rows |-> catalog, shown |-> {id}])
    <2>2. {id} \subseteq RowIds /\ {id} \subseteq Present(catalog)
        BY DEF Present
    <2>3. /\ q \in Commands /\ q.at = "claims" /\ q.does = "remove" /\ q.rows = catalog
          /\ q.shown = {id} /\ q.left = admin[o].left
        BY <1>1, <1>3, <2>2 DEF With, Commands, AdminSteps
    <2>4. admin' = [admin EXCEPT ![o] = q]
        BY <2>1
    <2> HIDE DEF q
    <2>5. q.left = {}
        BY <1>1, <2>3 DEF Careful
    <2>6. Careful(q)
        BY <1>2, <2>2, <2>3, <2>5 DEF Careful
    <2> QED
        BY <1>2, <2>4, <2>6, CommandChanges
<1>5. CASE ListsToPrune(o)
    <2> DEFINE q == With(admin[o], [at |-> "preview", does |-> "prune", rows |-> catalog])
    <2>1. /\ q \in Commands /\ q.at = "preview" /\ q.does = "prune" /\ q.rows = catalog
          /\ q.shown = admin[o].shown /\ q.left = admin[o].left
        BY <1>1, <1>3 DEF With, Commands, AdminSteps
    <2>2. admin' = [admin EXCEPT ![o] = q]
        BY <1>5 DEF ListsToPrune, BeginsCommand, Runs
    <2> HIDE DEF q
    <2>3. q.left = {} /\ q.shown = {}
        BY <1>1, <2>1 DEF Careful
    <2>4. Careful(q)
        BY <1>2, <2>1, <2>3 DEF Careful
    <2> QED
        BY <1>2, <2>2, <2>4, CommandChanges
<1> QED
    BY <1>4, <1>5

LEMMA AdminEnds ==
    ASSUME RegistryIInv, NEW o \in Admins, Ends(o), UNCHANGED <<beating, ticket>>,
           Listing(catalog')
    PROVE  RegistryIInv'
BY NoCommandCareful, CommandChanges DEF Ends

(* Between the two lists of a prune nothing is remembered but what was shown. *)
LEMMA PruneSound ==
    ASSUME RegistryIInv, NEW o \in Admins,
           \/ \E readable \in BOOLEAN : Previews(o, readable)
           \/ Confirms(o) \/ ListsAgain(o)
    PROVE  RegistryIInv'
<1>1. /\ admin[o] \in Commands /\ Careful(admin[o])
      /\ admin[o].at \in {"preview", "confirm", "again"}
    BY DEF RegistryIInv, Careful, Previews, Confirms, ListsAgain
<1>2. /\ UNCHANGED <<beating, ticket, catalog>> /\ Listing(catalog) /\ Listing(catalog')
      /\ catalog \in [RowIds -> Entries] /\ admin[o].does = "prune"
    BY <1>1 DEF RegistryIInv, Previews, Read, Confirms, ListsAgain, OnlyAdmin, Listing, Careful
<1>3. ASSUME NEW readable \in BOOLEAN, Previews(o, readable)
      PROVE  RegistryIInv'
    <2> DEFINE shown == Candidates(o, readable)
               q == With(admin[o], [at |-> "confirm", shown |-> shown, rows |-> NoRows])
    <2>1. shown \subseteq RowIds
        BY DEF Candidates, PruneCandidates, Present
    <2>2. Listing(NoRows) /\ NoRows \in [RowIds -> Entries]
        BY DEF Listing, NoRows, Absent, Entries
    <2>3. admin' = [admin EXCEPT ![o] = q]
        BY <1>3 DEF Previews, Runs
    <2>4. /\ q \in Commands /\ q.at = "confirm" /\ q.does = admin[o].does /\ q.rows = NoRows
          /\ q.shown = shown /\ q.left = admin[o].left
        <3> HIDE DEF shown
        <3> QED
            BY <1>1, <2>1, <2>2 DEF With, Commands, AdminSteps
    <2>5. admin[o].left = {}
        BY <1>3 DEF RegistryIInv, Previews, Careful
    <2> HIDE DEF q, shown
    <2>6. Careful(q)
        BY <1>2, <2>2, <2>4, <2>5 DEF Careful
    <2> QED
        BY <1>2, <2>3, <2>6, CommandChanges
<1>4. CASE Confirms(o)
    <2> DEFINE q == With(admin[o], [at |-> "again"])
    <2>1. admin' = [admin EXCEPT ![o] = q]
        BY <1>4 DEF Confirms, Runs
    <2>2. /\ q \in Commands /\ q.at = "again" /\ q.does = admin[o].does
          /\ q.rows = admin[o].rows /\ q.shown = admin[o].shown /\ q.left = admin[o].left
        BY <1>1 DEF With, Commands, AdminSteps
    <2> HIDE DEF q
    <2>3. Careful(q)
        BY <1>1, <1>2, <2>2 DEF Careful
    <2> QED
        BY <1>2, <2>1, <2>3, CommandChanges
<1>5. CASE ListsAgain(o)
    <2> DEFINE q == With(admin[o], [at |-> "decide", rows |-> catalog])
    <2>1. admin' = [admin EXCEPT ![o] = q]
        BY <1>5 DEF ListsAgain, Runs
    <2>2. /\ q \in Commands /\ q.at = "decide" /\ q.does = admin[o].does
          /\ q.rows = catalog /\ q.shown = admin[o].shown /\ q.left = admin[o].left
        BY <1>1, <1>2 DEF With, Commands, AdminSteps
    <2> HIDE DEF q
    <2>3. Careful(q)
        BY <1>1, <1>2, <2>2 DEF Careful
    <2> QED
        BY <1>2, <2>1, <2>3, CommandChanges
<1> QED
    BY <1>3, <1>4, <1>5

LEMMA DecisionSound ==
    ASSUME RegistryIInv, NEW o \in Admins, NEW readable \in BOOLEAN,
           Decides(o, readable) \/ ReadsClaims(o, readable)
    PROVE  RegistryIInv'
<1> DEFINE m == admin[o]
           changes == [at |-> "delete", left |-> m.shown, busy |-> Busy, wanted |-> Wanted]
           q == With(m, changes)
<1>1. /\ m \in Commands /\ Careful(m) /\ m.at \in {"decide", "claims"} /\ TicketsOwned
    BY DEF RegistryIInv, Careful, Decides, ReadsClaims
<1>2. UNCHANGED <<beating, ticket, catalog>> /\ Listing(catalog')
    BY DEF RegistryIInv, Decides, ReadsClaims, Read, Listing
<1>3. /\ q \in Commands /\ q.at = "delete" /\ q.does = m.does /\ q.force = m.force
      /\ q.rows = m.rows /\ q.shown = m.shown /\ q.left = m.shown
      /\ q.busy = Busy /\ q.wanted = Wanted
    <2>1. m.shown \subseteq RowIds
        BY <1>1 DEF Commands
    <2> HIDE DEF m
    <2> QED
        BY <1>1, <2>1, BusyWanted DEF With, Commands, AdminSteps
<1>4. ASSUME Careful(q), Runs(o, changes)
      PROVE  RegistryIInv'
    <2>1. admin' = [admin EXCEPT ![o] = q]
        BY <1>4 DEF Runs
    <2> HIDE DEF q
    <2> QED
        BY <1>2, <1>4, <2>1, CommandChanges
<1>5. CASE Ends(o)
    BY <1>2, <1>5, AdminEnds
<1>6. CASE Decides(o, readable) /\ Runs(o, changes)
    <2>1. m.at = "decide" /\ m.does = "prune"
        BY <1>1, <1>6 DEF Decides, Careful
    <2>2. Candidates(o, readable) = m.shown \/ Ends(o)
        BY <1>6 DEF Decides
    <2>3. ASSUME Candidates(o, readable) = m.shown
          PROVE  /\ m.shown \subseteq Present(m.rows)
                 /\ \A id \in m.shown :
                       /\ m.rows[id].old
                       /\ ~ Holds(m.rows[id]) /\ ~ Addressed(m.rows[id])
        BY <2>3 DEF Candidates, PruneCandidates
    <2>4. ASSUME Candidates(o, readable) = m.shown
          PROVE  Careful(q)
        <3> HIDE DEF q
        <3> QED
            BY <1>3, <2>1, <2>3, <2>4, DecidesSound
    <2> QED
        BY <1>4, <1>5, <1>6, <2>2, <2>4
<1>7. CASE ReadsClaims(o, readable) /\ Runs(o, changes)
    <2>1. m.at = "claims" /\ m.does = "remove" /\ m.shown \subseteq Present(m.rows)
        BY <1>1, <1>7 DEF ReadsClaims, Careful
    <2>2. \/ m.force \/ (\A id \in m.shown : ~ Holds(m.rows[id]))
          \/ Ends(o)
        BY <1>7 DEF ReadsClaims
    <2>3. ASSUME m.force \/ (\A id \in m.shown : ~ Holds(m.rows[id]))
          PROVE  Careful(q)
        <3> HIDE DEF q
        <3> QED
            BY <1>3, <2>1, <2>3, DecidesSound
    <2> QED
        BY <1>4, <1>5, <1>7, <2>2, <2>3
<1> QED
    BY <1>5, <1>6, <1>7 DEF Decides, ReadsClaims

LEMMA DeletesSound ==
    ASSUME RegistryIInv, NEW o \in Admins, Deletes(o)
    PROVE  RegistryIInv'
<1>1. /\ admin[o] \in Commands /\ Careful(admin[o]) /\ admin[o].at = "delete"
      /\ UNCHANGED <<beating, ticket>>
    BY DEF RegistryIInv, Careful, Deletes
<1>2. CASE admin[o].left = {}
    BY <1>1, <1>2, AdminEnds DEF Deletes, RegistryIInv, Listing
<1>3. CASE admin[o].left # {}
    <2>1. PICK id \in admin[o].left :
             /\ catalog' = [catalog EXCEPT ![id] = Absent]
             /\ IF id \in Present(catalog) THEN Runs(o, [left |-> admin[o].left \ {id}])
                                           ELSE Ends(o)
        BY <1>3 DEF Deletes
    <2>2. Listing(catalog')
        <3>1. Absent \in Entries
            BY DEF Absent, Entries
        <3> QED
            BY <2>1, <3>1 DEF RegistryIInv, Listing
    <2>3. CASE Ends(o)
        BY <1>1, <2>2, <2>3, AdminEnds
    <2>4. CASE Runs(o, [left |-> admin[o].left \ {id}])
        <3> DEFINE left == admin[o].left \ {id}
                   q == With(admin[o], [left |-> left])
        <3>1. left \subseteq RowIds /\ left \subseteq admin[o].left
            BY <1>1 DEF Commands
        <3>2. admin' = [admin EXCEPT ![o] = q]
            BY <2>4 DEF Runs
        <3>3. /\ q \in Commands /\ q.at = "delete" /\ q.does = admin[o].does
              /\ q.force = admin[o].force /\ q.rows = admin[o].rows
              /\ q.shown = admin[o].shown /\ q.left = left
              /\ q.busy = admin[o].busy /\ q.wanted = admin[o].wanted
            <4> HIDE DEF left
            <4> QED
                BY <1>1, <3>1 DEF With, Commands, AdminSteps
        <3> HIDE DEF q, left
        <3>4. Careful(q)
            BY <1>1, <3>1, <3>3 DEF Careful
        <3> QED
            BY <1>1, <2>2, <3>2, <3>4, CommandChanges
    <2> QED
        BY <2>1, <2>3, <2>4
<1> QED
    BY <1>2, <1>3

-----------------------------------------------------------------------------
LEMMA RegistryInvariant == RegistrySpec => []RegistryIInv
<1>1. RegistryInit => RegistryIInv
    <2> SUFFICES ASSUME RegistryInit PROVE RegistryIInv
        OBVIOUS
    <2>1. Listing(catalog) /\ beating \subseteq Registered
        BY DEF RegistryInit, Listing, NoRows, Absent, Entries
    <2>2. TicketsOwned
        BY DEF RegistryInit, TicketsOwned, Nobody, Claim
    <2>3. /\ admin = [o \in Admins |-> admin[o]]
          /\ \A o \in Admins : admin[o] = NoCommand
        BY DEF RegistryInit
    <2> QED
        BY <2>1, <2>2, <2>3, NoCommandCareful DEF RegistryIInv
<1>2. RegistryIInv /\ [RegistryNext]_registryVars => RegistryIInv'
    <2>1. ASSUME RegistryIInv, UNCHANGED registryVars
          PROVE  RegistryIInv'
        BY <2>1 DEF registryVars, RegistryIInv, TicketsOwned, Listing, Careful, Present
    <2>2. ASSUME RegistryIInv, NEW c \in Registered, NEW t \in Tickets,
                 NEW worker \in LookupKeys(c), Claims(c, t, worker)
          PROVE  RegistryIInv'
        BY <2>2, TicketsSound
    <2>3. ASSUME RegistryIInv, NEW c \in Registered,
                 StartsBeating(c) \/ StopsBeating(c) \/ Beat(c)
          PROVE  RegistryIInv'
        BY <2>3, RegistersSound
    <2>4. ASSUME RegistryIInv, NEW id \in RowIds, GrowsOld(id)
          PROVE  RegistryIInv'
        <3>1. PICK c \in Registered : TRUE
            BY DEF RowIds
        <3> QED
            BY <2>4, <3>1, RegistersSound
    <2>5. ASSUME RegistryIInv, NEW t \in Tickets,
                 \/ GivesBack(t)
                 \/ \E address \in Directions \cup {NoKey} : Directs(t, address)
          PROVE  RegistryIInv'
        BY <2>5, TicketsSound
    <2>6. ASSUME RegistryIInv, NEW o \in Admins,
                 \/ \E address \in Directions, force \in BOOLEAN : Resolve(o, address, force)
                 \/ ListsToPrune(o)
          PROVE  RegistryIInv'
        BY <2>6, AdminBegins
    <2>7. ASSUME RegistryIInv, NEW o \in Admins, ListsAgain(o) \/ Confirms(o)
          PROVE  RegistryIInv'
        BY <2>7, PruneSound
    <2>8. ASSUME RegistryIInv, NEW o \in Admins, AdminGivesUp(o)
          PROVE  RegistryIInv'
        BY <2>8, AdminEnds DEF AdminGivesUp, OnlyAdmin, RegistryIInv, Listing
    <2>9. ASSUME RegistryIInv, NEW o \in Admins, Deletes(o)
          PROVE  RegistryIInv'
        BY <2>9, DeletesSound
    <2>10. ASSUME RegistryIInv, NEW o \in Admins, NEW readable \in BOOLEAN,
                  Previews(o, readable)
           PROVE  RegistryIInv'
        BY <2>10, PruneSound
    <2>11. ASSUME RegistryIInv, NEW o \in Admins, NEW readable \in BOOLEAN,
                  Decides(o, readable) \/ ReadsClaims(o, readable)
           PROVE  RegistryIInv'
        BY <2>11, DecisionSound
    <2> QED
        BY <2>1, <2>2, <2>3, <2>4, <2>5, <2>6, <2>7, <2>8, <2>9, <2>10, <2>11
           DEF RegistryNext
<1> QED
    BY <1>1, <1>2, PTL DEF RegistrySpec

(* Rows and commands keep their shape: a row is always of a checkout with the *)
(* row's bare key, and a command only deletes rows it has read and shown.   *)
THEOREM RegistryTyped == RegistrySpec => []RegistryTypes
<1>1. RegistryIInv => RegistryTypes
    <2> SUFFICES ASSUME RegistryIInv PROVE RegistryTypes
        OBVIOUS
    <2>1. \A o \in Admins :
             /\ admin[o].left \subseteq admin[o].shown
             /\ \/ admin[o].shown \subseteq Present(admin[o].rows)
                \/ admin[o].at \in {"confirm", "again", "decide"}
        BY DEF RegistryIInv, Careful
    <2>2. \A id \in RowIds :
             \/ catalog[id] = Absent
             \/ catalog[id].key \in Registered /\ Bare(catalog[id].key) = id
        BY DEF RegistryIInv, Listing
    <2> QED
        BY <2>1, <2>2 DEF RegistryIInv, RegistryTypes, TicketsOwned
<1> QED
    BY <1>1, RegistryInvariant, PTL

(* Whatever claims, directions, beats and other operators come between the   *)
(* lists, what is deleted without --force was shown and implemented nothing *)
(* when the issues were read last.                                          *)
THEOREM DeletedWasIdle == RegistrySpec => []DeletesOnlyIdle
<1>1. RegistryIInv => DeletesOnlyIdle
    BY DEF RegistryIInv, Careful, DeletesOnlyIdle
<1> QED
    BY <1>1, RegistryInvariant, PTL
=============================================================================
