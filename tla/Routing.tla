------------------------------ MODULE Routing -------------------------------
(***************************************************************************)
(* multidb.Producer: the databases an application asks for are routed, by  *)
(* a table of configuration, to databases and to tables inside them.  Each *)
(* database has a record of the requests it serves, by which the producer  *)
(* refuses tables that overlap, and Verify a table of routes that has      *)
(* changed.                                                                *)
(*                                                                         *)
(* A name is a sequence of letters, a request a sequence of names (its     *)
(* parts between slashes).  The key of an entry in a database is the table *)
(* followed by the key of the application.                                 *)
(***************************************************************************)
EXTENDS Naturals, FiniteSetsExt, SequencesExt

CONSTANTS
    Requests,       \* bound: what the application asks for
    Keys,           \* bound: the keys it writes
    Configs,        \* bound: the tables of routes it is started with
    Producers,      \* the types that have a producer
    MaxStarts,      \* bound: the starts of the process
    MaxWrites       \* bound: the writes, over all of them

ASSUME RoutingConstants ==
    /\ \A c \in Configs : <<>> \in DOMAIN c.exact
    /\ MaxStarts \in Nat /\ MaxWrites \in Nat

VARIABLES
    conf,           \* the routes of the running producer: exact ones, and patterns in order
    verified,       \* Verify has found nothing
    open,           \* the stores of the application
    dbs,            \* the databases: their records and their data
    saved,          \* the databases at the last Flush
    starts, writes

routingVars == <<conf, verified, open, dbs, saved, starts, writes>>

NotRunning == [exact |-> <<>>, patterns |-> <<>>]
Running == conf # NotRunning
-----------------------------------------------------------------------------
(***************************************************************************)
(* RouteOf: the longest beginning of the request that has a route.  A      *)
(* pattern is the function of the requests it matches to their names.      *)
(***************************************************************************)
Matching(c, req) ==
    {i \in DOMAIN c.patterns : req \in DOMAIN c.patterns[i].names}

Routed(c, req) == req \in DOMAIN c.exact \/ Matching(c, req) # {}

Dest(c, req) ==
    IF req \in DOMAIN c.exact THEN c.exact[req]
    ELSE LET p == c.patterns[Min(Matching(c, req))]
         IN  [type |-> p.type, name |-> p.names[req], table |-> p.table, noDrop |-> p.noDrop]

\* The parts that have no route name the table, the last one first; at the root the
\* first part names the database.
RouteOf(c, req) ==
    LET n == Max({i \in 0..Len(req) : Routed(c, SubSeq(req, 1, i))})
        dest == Dest(c, SubSeq(req, 1, n))
        name == IF n = 0 /\ req # <<>> THEN req[1] ELSE <<>>
        parts == SubSeq(req, IF n = 0 THEN 2 ELSE n + 1, Len(req))
    IN  [dest EXCEPT !.name = @ \o name, !.table = @ \o FlattenSeq(Reverse(parts))]

\* What NewProducer makes of the routes: the patterns come in the order of a map of the
\* code, in any.
Compiled(c) ==
    {[exact |-> c.exact, patterns |-> order] :
        order \in {o \in SetToAllKPermutations(c.patterns) : Len(o) = Cardinality(c.patterns)}}

Names == Seq(Nat)

ASSUME TablesAreNames ==
    /\ Keys \subseteq Names
    /\ \A c \in Configs : \A compiled \in Compiled(c) : \A req \in Requests :
          RouteOf(compiled, req).table \in Names

LocatorOf(route) == <<route.type, route.name>>

NewDB == [records |-> <<>>, data |-> [k \in {} |-> <<>>]]
DB(loc) == IF loc \in DOMAIN dbs THEN dbs[loc] ELSE NewDB
-----------------------------------------------------------------------------
\* Mutant: only the new table may not begin with an old one.
TablesConflictingOneWay(a, b) == IsPrefix(a, b)

TablesConflicting(a, b) == IsPrefix(a, b) \/ IsPrefix(b, a)

\* handleRoute: whether the request may use the table, given the records.
Allowed(records, req, table) ==
    LET same == {i \in DOMAIN records : records[i].req = req}
        other == {i \in DOMAIN records \ same : TablesConflicting(records[i].table, table)}
        first == Min(same \cup other)
    IN  same \cup other = {} \/ (first \in same /\ records[first].table = table)

Recorded(records, req, table) ==
    IF \E i \in DOMAIN records : records[i].req = req THEN records
    ELSE Append(records, [req |-> req, table |-> table])

\* OpenDB.  The database exists afterwards even if the request is refused.
OpenDB(req) ==
    LET route == RouteOf(conf, req)
        loc == LocatorOf(route)
        db == DB(loc)
        ok == Allowed(db.records, req, route.table)
        new == IF ok THEN [db EXCEPT !.records = Recorded(@, req, route.table)] ELSE db
    IN  /\ Running
        /\ route.type \in Producers
        /\ dbs' = [l \in DOMAIN dbs \cup {loc} |-> IF l = loc THEN new ELSE dbs[l]]
        /\ open' = IF ok THEN open \cup {[req |-> req, loc |-> loc, table |-> route.table,
                                         noDrop |-> route.noDrop]}
                   ELSE open
        /\ UNCHANGED <<conf, verified, saved, starts, writes>>

Prefixed(key, table) == table \o key

Put(store, key) ==
    /\ store \in open /\ writes < MaxWrites
    /\ writes' = writes + 1
    /\ dbs' = [dbs EXCEPT ![store.loc].data =
          [k \in DOMAIN @ \cup {Prefixed(key, store.table)} |->
              IF k = Prefixed(key, store.table) THEN store.req ELSE @[k]]]
    /\ UNCHANGED <<conf, verified, open, saved, starts>>

Close(store) ==
    /\ store \in open
    /\ open' = open \ {store}
    /\ UNCHANGED <<conf, verified, dbs, saved, starts, writes>>

\* The whole database, with its records and the tables of other requests, whose
\* stores are gone as well.
Drop(store) ==
    /\ store \in open /\ ~store.noDrop
    /\ dbs' = [l \in DOMAIN dbs \ {store.loc} |-> dbs[l]]
    /\ open' = {s \in open : s.loc # store.loc}
    /\ UNCHANGED <<conf, verified, saved, starts, writes>>

\* All producers at once; module Databases has the steps of it.
Flush ==
    /\ Running
    /\ saved' = dbs
    /\ UNCHANGED <<conf, verified, open, dbs, starts, writes>>

\* Mutant: the name of the database is not compared.
VerifyTypes ==
    \A loc \in DOMAIN dbs : \A i \in DOMAIN dbs[loc].records :
       LET old == dbs[loc].records[i]
           route == RouteOf(conf, old.req)
       IN  route.type = loc[1] /\ route.table = old.table

VerifyRecords ==
    \A loc \in DOMAIN dbs : \A i \in DOMAIN dbs[loc].records :
       LET old == dbs[loc].records[i]
           route == RouteOf(conf, old.req)
       IN  LocatorOf(route) = loc /\ route.table = old.table

Verify ==
    /\ Running /\ VerifyRecords
    /\ verified' = TRUE
    /\ UNCHANGED <<conf, open, dbs, saved, starts, writes>>

NewProducer(c) ==
    /\ ~Running /\ starts < MaxStarts
    /\ starts' = starts + 1
    /\ conf' \in Compiled(c)
    /\ UNCHANGED <<verified, open, dbs, saved, writes>>

\* The process ends, in whatever way: what is not flushed is lost.
Stop ==
    /\ Running
    /\ conf' = NotRunning /\ verified' = FALSE /\ open' = {}
    /\ dbs' = saved
    /\ UNCHANGED <<saved, starts, writes>>

Init ==
    /\ conf = NotRunning /\ verified = FALSE /\ open = {} /\ starts = 0 /\ writes = 0
    /\ dbs = [l \in {} |-> NewDB] /\ saved = [l \in {} |-> NewDB]

Next ==
    \/ \E c \in Configs : NewProducer(c)
    \/ \E req \in Requests : OpenDB(req)
    \/ \E store \in open : \/ \E key \in Keys : Put(store, key)
                           \/ Close(store) \/ Drop(store)
    \/ Flush \/ Verify \/ Stop

Spec == Init /\ [][Next]_routingVars
-----------------------------------------------------------------------------
\* The entries of a store: those of its database that begin with its table.
Entries(store) == {k \in DOMAIN DB(store.loc).data : IsPrefix(store.table, k)}

(***************************************************************************)
(* A store has only entries that its request has written, whatever other   *)
(* requests share the database, now or in an earlier run with other        *)
(* routes: handleRoute refuses the tables that overlap.                    *)
(***************************************************************************)
ReadsOwn == \A s \in open : \A k \in Entries(s) : DB(s.loc).data[k] = s.req

(***************************************************************************)
(* After Verify, a request finds all it has ever written where it is       *)
(* routed to, and OpenDB does not refuse it: no entry of it is left in     *)
(* another database or table by a change of the routes.                    *)
(***************************************************************************)
VerifiedFindsAll ==
    verified => \A loc \in DOMAIN dbs : \A k \in DOMAIN dbs[loc].data :
       LET req == dbs[loc].data[k]
           route == RouteOf(conf, req)
       IN  /\ LocatorOf(route) = loc /\ IsPrefix(route.table, k)
           /\ route.type \in Producers
           /\ Allowed(dbs[loc].records, req, route.table)
=============================================================================
