--------------------------- MODULE RoutingProofs ----------------------------
(***************************************************************************)
(* For every set of requests and every sequence of tables of routes: the   *)
(* stores of two requests never share an entry.                            *)
(***************************************************************************)
EXTENDS Routing, SequenceTheorems, TLAPS

Records == [req : Requests, table : Names]
Entry == UNION {[S -> Requests] : S \in SUBSET Names}
Database == [records : Seq(Records), data : Entry]

\* The tables of a database do not overlap, and each entry is in the table of its request.
Separate(db) ==
    /\ \A i, j \in DOMAIN db.records : i # j =>
          /\ db.records[i].req # db.records[j].req
          /\ ~TablesConflicting(db.records[i].table, db.records[j].table)
    /\ \A k \in DOMAIN db.data : \E i \in DOMAIN db.records :
          db.records[i].req = db.data[k] /\ IsPrefix(db.records[i].table, k)

DatabasesOK(d) == d \in [DOMAIN d -> Database] /\ \A l \in DOMAIN d : Separate(d[l])

StoreOK(s) ==
    /\ s.loc \in DOMAIN dbs /\ s.req \in Requests /\ s.table \in Names
    /\ \E i \in DOMAIN dbs[s.loc].records :
          dbs[s.loc].records[i].req = s.req /\ dbs[s.loc].records[i].table = s.table

RoutingInv ==
    /\ conf = NotRunning \/ \E c \in Configs : conf \in Compiled(c)
    /\ DatabasesOK(dbs) /\ DatabasesOK(saved)
    /\ \A s \in open : StoreOK(s)
-----------------------------------------------------------------------------
\* Two tables that begin one key overlap.
LEMMA PrefixesConflict ==
    ASSUME NEW a \in Names, NEW b \in Names, NEW k \in Names, IsPrefix(a, k), IsPrefix(b, k)
    PROVE  TablesConflicting(a, b)
<1>1. \A i \in 1..Len(a) : a[i] = k[i]
  BY DEF IsPrefix, Names
<1>2. \A i \in 1..Len(b) : b[i] = k[i]
  BY DEF IsPrefix, Names
<1>3. Len(a) \in Nat /\ Len(b) \in Nat /\ Len(k) \in Nat /\ Len(a) <= Len(k) /\ Len(b) <= Len(k)
  BY DEF IsPrefix, Names
<1>4. CASE Len(a) <= Len(b)
  <2>1. SubSeq(a, 1, Len(a)) = SubSeq(b, 1, Len(a))
    BY <1>1, <1>2, <1>3, <1>4 DEF Names
  <2> QED BY <1>4, <2>1 DEF TablesConflicting, IsPrefix
<1>5. CASE Len(b) <= Len(a)
  <2>1. SubSeq(b, 1, Len(b)) = SubSeq(a, 1, Len(b))
    BY <1>1, <1>2, <1>3, <1>5 DEF Names
  <2> QED BY <1>5, <2>1 DEF TablesConflicting, IsPrefix
<1> QED BY <1>3, <1>4, <1>5

\* A table begins the keys that are prefixed with it.
LEMMA PrefixOfPrefixed ==
    ASSUME NEW table \in Names, NEW key \in Names
    PROVE  Prefixed(key, table) \in Names /\ IsPrefix(table, Prefixed(key, table))
<1>1. Prefixed(key, table) \in Names
  BY DEF Prefixed, Names
<1>2. Len(table) <= Len(Prefixed(key, table))
  BY DEF Prefixed, Names
<1>3. SubSeq(table, 1, Len(table)) = SubSeq(Prefixed(key, table), 1, Len(table))
  BY DEF Prefixed, Names
<1> QED BY <1>1, <1>2, <1>3 DEF IsPrefix

LEMMA ConflictingIsSymmetric ==
    ASSUME NEW a, NEW b PROVE TablesConflicting(a, b) <=> TablesConflicting(b, a)
BY DEF TablesConflicting

\* A request that is refused changes nothing; one that is not has a table of its own.
LEMMA RecordedIsSeparate ==
    ASSUME NEW db \in Database, Separate(db), NEW req \in Requests, NEW table \in Names,
           Allowed(db.records, req, table),
           NEW new, new = [records |-> Recorded(db.records, req, table), data |-> db.data]
    PROVE  /\ new \in Database /\ Separate(new)
           /\ \E i \in DOMAIN new.records : new.records[i].req = req /\ new.records[i].table = table
           /\ DOMAIN db.records \subseteq DOMAIN new.records
           /\ \A i \in DOMAIN db.records : new.records[i] = db.records[i]
<1> DEFINE rs == db.records
           same == {i \in DOMAIN rs : rs[i].req = req}
           other == {i \in DOMAIN rs \ same : TablesConflicting(rs[i].table, table)}
<1>1. rs \in Seq(Records) /\ db.data \in Entry
  BY DEF Database
<1>2. new = [records |-> Recorded(rs, req, table), data |-> db.data]
  OBVIOUS
<1>3. CASE same # {}
  <2>1. Recorded(rs, req, table) = rs
    BY <1>3 DEF Recorded
  <2>2. new = db
    BY <1>2, <2>1 DEF Database
  <2>3. \E i \in DOMAIN rs : rs[i].req = req /\ rs[i].table = table
    BY <1>3 DEF Allowed
  <2> QED BY <2>2, <2>3
<1>4. CASE same = {}
  <2>1. other = {}
    BY <1>4 DEF Allowed
  <2> DEFINE r == [req |-> req, table |-> table]
  <2>2. Recorded(rs, req, table) = Append(rs, r)
    BY <1>4 DEF Recorded
  <2>3. r \in Records
    BY DEF Records
  <2>4. /\ Append(rs, r) \in Seq(Records)
        /\ DOMAIN Append(rs, r) = DOMAIN rs \cup {Len(rs) + 1}
        /\ Append(rs, r)[Len(rs) + 1] = r
        /\ \A i \in DOMAIN rs : Append(rs, r)[i] = rs[i] /\ i # Len(rs) + 1
    BY <1>1, <2>3
  <2>5. new.records = Append(rs, r) /\ new.data = db.data
    BY <1>2, <2>2
  <2>6. new \in Database
    BY <1>1, <1>2, <2>2, <2>4 DEF Database
  <2>7. \A i \in DOMAIN rs : rs[i].req # req /\ ~TablesConflicting(rs[i].table, table)
    BY <1>4, <2>1
  <2>8. ASSUME NEW i \in DOMAIN new.records, NEW j \in DOMAIN new.records, i # j
        PROVE  /\ new.records[i].req # new.records[j].req
               /\ ~TablesConflicting(new.records[i].table, new.records[j].table)
    <3>1. CASE i \in DOMAIN rs /\ j \in DOMAIN rs
      BY <2>4, <2>5, <2>8, <3>1 DEF Separate
    <3>2. CASE i = Len(rs) + 1
      <4>1. j \in DOMAIN rs /\ new.records[i] = r /\ new.records[j] = rs[j]
        BY <2>4, <2>5, <2>8, <3>2
      <4>2. new.records[i].req = req /\ new.records[i].table = table
        BY <4>1
      <4> QED BY <4>1, <4>2, <2>7, ConflictingIsSymmetric
    <3>3. CASE j = Len(rs) + 1
      <4>1. i \in DOMAIN rs /\ new.records[j] = r /\ new.records[i] = rs[i]
        BY <2>4, <2>5, <2>8, <3>3
      <4>2. new.records[j].req = req /\ new.records[j].table = table
        BY <4>1
      <4> QED BY <4>1, <4>2, <2>7
    <3> QED BY <2>4, <2>5, <3>1, <3>2, <3>3
  <2>9. Separate(new)
    <3>1. \A k \in DOMAIN new.data : \E i \in DOMAIN new.records :
             new.records[i].req = new.data[k] /\ IsPrefix(new.records[i].table, k)
      BY <2>4, <2>5 DEF Separate
    <3> QED BY <2>8, <3>1 DEF Separate
  <2>10. \E i \in DOMAIN new.records : new.records[i].req = req /\ new.records[i].table = table
    BY <2>4, <2>5
  <2> QED BY <2>4, <2>5, <2>6, <2>9, <2>10
<1> QED BY <1>3, <1>4

LEMMA NewDatabaseIsSeparate == NewDB \in Database /\ Separate(NewDB)
<1>1. NewDB.records = <<>> /\ NewDB.data = [k \in {} |-> <<>>]
  BY DEF NewDB
<1>2. [k \in {} |-> <<>>] \in [{} -> Requests]
  OBVIOUS
<1>3. NewDB.data \in Entry
  BY <1>1, <1>2 DEF Entry
<1>4. NewDB \in Database
  BY <1>1, <1>3 DEF NewDB, Database
<1> QED BY <1>1, <1>4 DEF Separate

LEMMA OpenDBKeeps ==
    ASSUME RoutingInv, NEW req \in Requests, OpenDB(req) PROVE RoutingInv'
<1> DEFINE route == RouteOf(conf, req)
           loc == LocatorOf(route)
           db == DB(loc)
           ok == Allowed(db.records, req, route.table)
           new == IF ok THEN [db EXCEPT !.records = Recorded(@, req, route.table)] ELSE db
<1>1. route.table \in Names
  BY TablesAreNames DEF OpenDB, Running, RoutingInv
<1>2. db \in Database /\ Separate(db)
  BY NewDatabaseIsSeparate DEF DB, RoutingInv, DatabasesOK
<1>3. /\ new \in Database /\ Separate(new)
      /\ DOMAIN db.records \subseteq DOMAIN new.records
      /\ \A i \in DOMAIN db.records : new.records[i] = db.records[i]
      /\ ok => \E i \in DOMAIN new.records : new.records[i].req = req /\ new.records[i].table = route.table
  <2> HIDE DEF route, db
  <2>1. CASE ok
    <3>1. new = [db EXCEPT !.records = Recorded(@, req, route.table)] /\ Allowed(db.records, req, route.table)
      BY <2>1
    <3> DEFINE table == route.table
    <3>2. table \in Names /\ Allowed(db.records, req, table)
          /\ new = [records |-> Recorded(db.records, req, table), data |-> db.data]
      BY <1>1, <1>2, <3>1 DEF Database
    <3> HIDE DEF new, ok, table
    <3>3. /\ new \in Database /\ Separate(new)
          /\ \E i \in DOMAIN new.records : new.records[i].req = req /\ new.records[i].table = table
          /\ DOMAIN db.records \subseteq DOMAIN new.records
          /\ \A i \in DOMAIN db.records : new.records[i] = db.records[i]
      BY <1>2, <3>2, RecordedIsSeparate
    <3> QED BY <3>3 DEF table
  <2>2. CASE ~ok
    BY <1>2, <2>2
  <2> QED BY <2>1, <2>2
<1>5. dbs' = [l \in DOMAIN dbs \cup {loc} |-> IF l = loc THEN new ELSE dbs[l]]
  BY DEF OpenDB
<1>6. open' = IF ok THEN open \cup {[req |-> req, loc |-> loc, table |-> route.table, noDrop |-> route.noDrop]}
              ELSE open
  BY DEF OpenDB
<1>7. conf' = conf /\ saved' = saved
  BY DEF OpenDB
<1> HIDE DEF route, loc, db, ok, new
<1>8. DatabasesOK(dbs')
  BY <1>3, <1>5 DEF RoutingInv, DatabasesOK
<1>9. ASSUME NEW s \in open' PROVE StoreOK(s)'
  <2>1. CASE s \in open
    <3>1. StoreOK(s)
      BY <2>1 DEF RoutingInv
    <3>2. CASE s.loc = loc
      <4>1. dbs[s.loc] = db
        BY <3>1, <3>2 DEF StoreOK, db, DB
      <4> QED BY <1>3, <1>5, <3>1, <3>2, <4>1 DEF StoreOK
    <3>3. CASE s.loc # loc
      BY <1>5, <3>1, <3>3 DEF StoreOK
    <3> QED BY <3>2, <3>3
  <2>2. CASE s \notin open
    <3>1. ok /\ s.req = req /\ s.loc = loc /\ s.table = route.table
      BY <1>6, <1>9, <2>2
    <3> QED BY <1>1, <1>3, <1>5, <3>1 DEF StoreOK
  <2> QED BY <2>1, <2>2
<1> QED BY <1>7, <1>8, <1>9 DEF RoutingInv

LEMMA PutKeeps ==
    ASSUME RoutingInv, NEW store \in open, NEW key \in Keys, Put(store, key) PROVE RoutingInv'
<1> DEFINE loc == store.loc
           full == Prefixed(key, store.table)
           old == dbs[loc].data
           data == [k \in DOMAIN old \cup {full} |-> IF k = full THEN store.req ELSE old[k]]
<1>1. StoreOK(store) /\ dbs[loc] \in Database /\ Separate(dbs[loc])
  BY DEF RoutingInv, StoreOK, DatabasesOK
<1>2. full \in Names /\ IsPrefix(store.table, full)
  BY <1>1, TablesAreNames, PrefixOfPrefixed DEF StoreOK
<1>3. dbs' = [dbs EXCEPT ![loc].data = data]
  BY DEF Put
<1>4. conf' = conf /\ saved' = saved /\ open' = open
  BY DEF Put
<1>5. old \in Entry
  BY <1>1 DEF Database
<1>6. data \in Entry
  <2>1. PICK S \in SUBSET Names : old \in [S -> Requests]
    BY <1>5 DEF Entry
  <2>2. data \in [S \cup {full} -> Requests]
    BY <1>1, <2>1 DEF StoreOK
  <2>3. S \cup {full} \in SUBSET Names
    BY <1>2, <2>1
  <2> QED BY <2>2, <2>3 DEF Entry
<1> DEFINE new == [records |-> dbs[loc].records, data |-> data]
<1>7. DOMAIN dbs' = DOMAIN dbs /\ dbs'[loc] = new /\ \A l \in DOMAIN dbs \ {loc} : dbs'[l] = dbs[l]
  BY <1>1, <1>3 DEF StoreOK, Database, RoutingInv, DatabasesOK
<1>8. new \in Database
  BY <1>1, <1>6 DEF Database
<1>9. Separate(new)
  <2>1. ASSUME NEW k \in DOMAIN data
        PROVE  \E i \in DOMAIN new.records : new.records[i].req = data[k] /\ IsPrefix(new.records[i].table, k)
    <3>1. CASE k = full
      BY <1>1, <1>2, <3>1 DEF StoreOK
    <3>2. CASE k # full
      BY <1>1, <2>1, <3>2 DEF Separate
    <3> QED BY <3>1, <3>2
  <2>2. new.records = dbs[loc].records /\ new.data = data
    OBVIOUS
  <2> HIDE DEF new, data
  <2> QED BY <1>1, <2>1, <2>2 DEF Separate
<1>10. dbs' \in [DOMAIN dbs -> Database]
  BY <1>3, <1>7, <1>8 DEF RoutingInv, DatabasesOK
<1>11. DatabasesOK(dbs')
  BY <1>7, <1>9, <1>10 DEF RoutingInv, DatabasesOK
<1>12. \A s \in open : StoreOK(s)'
  BY <1>7 DEF RoutingInv, StoreOK
<1> QED BY <1>4, <1>11, <1>12 DEF RoutingInv

LEMMA DropKeeps ==
    ASSUME RoutingInv, NEW store \in open, Drop(store) PROVE RoutingInv'
<1>1. dbs' = [l \in DOMAIN dbs \ {store.loc} |-> dbs[l]] /\ conf' = conf /\ saved' = saved
      /\ open' = {s \in open : s.loc # store.loc}
  BY DEF Drop
<1>2. DatabasesOK(dbs')
  BY <1>1 DEF RoutingInv, DatabasesOK
<1>3. \A s \in open' : StoreOK(s)'
  BY <1>1 DEF RoutingInv, StoreOK
<1> QED BY <1>1, <1>2, <1>3 DEF RoutingInv

LEMMA RoutingStep == RoutingInv /\ [Next]_routingVars => RoutingInv'
<1> SUFFICES ASSUME RoutingInv, [Next]_routingVars PROVE RoutingInv'
  OBVIOUS
<1>1. ASSUME NEW c \in Configs, NewProducer(c) PROVE RoutingInv'
  BY <1>1 DEF NewProducer, RoutingInv, StoreOK
<1>2. ASSUME NEW req \in Requests, OpenDB(req) PROVE RoutingInv'
  BY <1>2, OpenDBKeeps
<1>3. ASSUME NEW store \in open, NEW key \in Keys, Put(store, key) PROVE RoutingInv'
  BY <1>3, PutKeeps
<1>4. ASSUME NEW store \in open, Close(store) PROVE RoutingInv'
  BY <1>4 DEF Close, RoutingInv, StoreOK
<1>5. ASSUME NEW store \in open, Drop(store) PROVE RoutingInv'
  BY <1>5, DropKeeps
<1>6. CASE Flush
  BY <1>6 DEF Flush, RoutingInv, StoreOK
<1>7. CASE Verify
  BY <1>7 DEF Verify, RoutingInv, StoreOK
<1>8. CASE Stop
  BY <1>8 DEF Stop, RoutingInv
<1>9. CASE UNCHANGED routingVars
  BY <1>9 DEF routingVars, RoutingInv, StoreOK
<1> QED BY <1>1, <1>2, <1>3, <1>4, <1>5, <1>6, <1>7, <1>8, <1>9 DEF Next

LEMMA RoutingStart == Init => RoutingInv
<1>1. [l \in {} |-> NewDB] \in [{} -> Database]
  OBVIOUS
<1> QED BY <1>1 DEF Init, RoutingInv, DatabasesOK

LEMMA OwnEntries == RoutingInv => ReadsOwn
<1> SUFFICES ASSUME RoutingInv, NEW s \in open, NEW k \in Entries(s) PROVE DB(s.loc).data[k] = s.req
  BY DEF ReadsOwn
<1>1. StoreOK(s) /\ DB(s.loc) = dbs[s.loc] /\ Separate(dbs[s.loc]) /\ dbs[s.loc] \in Database
  BY DEF RoutingInv, StoreOK, DB, DatabasesOK
<1> DEFINE db == dbs[s.loc]
<1>2. k \in DOMAIN db.data /\ IsPrefix(s.table, k) /\ k \in Names
  BY <1>1 DEF Entries, Database, Entry
<1>3. PICK i \in DOMAIN db.records : db.records[i].req = s.req /\ db.records[i].table = s.table
  BY <1>1 DEF StoreOK
<1>4. PICK j \in DOMAIN db.records : db.records[j].req = db.data[k] /\ IsPrefix(db.records[j].table, k)
  BY <1>1, <1>2 DEF Separate
<1>5. s.table \in Names /\ db.records[j].table \in Names
  <2>1. db.records \in Seq(Records)
    BY <1>1 DEF Database
  <2>2. db.records[j] \in Records
    BY <1>4, <2>1
  <2> QED BY <1>1, <2>2 DEF StoreOK, Records
<1>6. TablesConflicting(db.records[i].table, db.records[j].table)
  BY <1>2, <1>3, <1>4, <1>5, PrefixesConflict
<1>7. i = j
  BY <1>1, <1>6 DEF Separate
<1> QED BY <1>1, <1>3, <1>4, <1>7

(***************************************************************************)
(* A store never shows what another request has written: whatever the      *)
(* routes, the restarts with other routes, the drops and what is lost      *)
(* between two flushes.                                                    *)
(***************************************************************************)
THEOREM StoresAreSeparate == Spec => []ReadsOwn
<1>1. Spec => []RoutingInv
  BY RoutingStart, RoutingStep, PTL DEF Spec
<1> QED BY <1>1, OwnEntries, PTL
-----------------------------------------------------------------------------
(***************************************************************************)
(* What Verify finds stays true while the process runs: OpenDB records a   *)
(* request where it is routed to.                                          *)
(***************************************************************************)
VerifiedInv ==
    /\ \A l \in DOMAIN dbs \cup DOMAIN saved : l[1] \in Producers
    /\ verified => Running /\ VerifyRecords

LEMMA OpenDBVerified ==
    ASSUME RoutingInv, VerifiedInv, NEW req \in Requests, OpenDB(req) PROVE VerifiedInv'
<1> DEFINE route == RouteOf(conf, req)
           loc == LocatorOf(route)
           db == DB(loc)
           ok == Allowed(db.records, req, route.table)
           r == [req |-> req, table |-> route.table]
           new == IF ok THEN [db EXCEPT !.records = Recorded(@, req, route.table)] ELSE db
<1>1. dbs' = [l \in DOMAIN dbs \cup {loc} |-> IF l = loc THEN new ELSE dbs[l]]
  BY DEF OpenDB
<1>2. route.type \in Producers /\ conf' = conf /\ saved' = saved /\ verified' = verified /\ Running
  BY DEF OpenDB
<1>3. loc[1] = route.type
  BY DEF LocatorOf
<1>4. db \in Database
  BY NewDatabaseIsSeparate DEF DB, RoutingInv, DatabasesOK
<1>5. route.table \in Names
  BY TablesAreNames DEF OpenDB, Running, RoutingInv
<1>6. \A i \in DOMAIN new.records : (i \in DOMAIN db.records /\ new.records[i] = db.records[i]) \/ new.records[i] = r
  <2> HIDE DEF route, db
  <2>1. db.records \in Seq(Records) /\ r \in Records
    BY <1>4, <1>5 DEF Database, Records
  <2>2. new.records \in {db.records, Append(db.records, r)}
    BY <1>4 DEF Database, Recorded
  <2> HIDE DEF new, r
  <2> QED BY <2>1, <2>2
<1>7. ASSUME verified,
             NEW l \in DOMAIN dbs', NEW i \in DOMAIN dbs'[l].records
      PROVE  /\ LocatorOf(RouteOf(conf, dbs'[l].records[i].req)) = l
             /\ RouteOf(conf, dbs'[l].records[i].req).table = dbs'[l].records[i].table
  <2>1. CASE l # loc
    BY <1>1, <1>7, <2>1 DEF VerifiedInv, VerifyRecords
  <2>2. CASE l = loc /\ dbs'[l].records[i] = r
    BY <2>2
  <2>3. CASE l = loc /\ i \in DOMAIN db.records /\ dbs'[l].records[i] = db.records[i]
    <3>1. loc \in DOMAIN dbs /\ db = dbs[loc]
      BY <2>3 DEF DB, NewDB
    <3> HIDE DEF db, loc, new
    <3> QED BY <1>7, <2>3, <3>1 DEF VerifiedInv, VerifyRecords
  <2> HIDE DEF new, db, r, loc
  <2> QED BY <1>1, <1>6, <2>1, <2>2, <2>3
<1>8. verified => VerifyRecords'
  BY <1>2, <1>7 DEF VerifyRecords
<1>9. \A l \in DOMAIN dbs' \cup DOMAIN saved' : l[1] \in Producers
  BY <1>1, <1>2, <1>3 DEF VerifiedInv
<1> QED BY <1>2, <1>8, <1>9 DEF VerifiedInv, Running

LEMMA VerifiedStep == RoutingInv /\ VerifiedInv /\ [Next]_routingVars => VerifiedInv'
<1> SUFFICES ASSUME RoutingInv, VerifiedInv, [Next]_routingVars PROVE VerifiedInv'
  OBVIOUS
<1>1. ASSUME NEW c \in Configs, NewProducer(c) PROVE VerifiedInv'
  BY <1>1 DEF NewProducer, VerifiedInv
<1>2. ASSUME NEW req \in Requests, OpenDB(req) PROVE VerifiedInv'
  BY <1>2, OpenDBVerified
<1>3. ASSUME NEW store \in open, NEW key \in Keys, Put(store, key) PROVE VerifiedInv'
  <2>1. /\ DOMAIN dbs' = DOMAIN dbs /\ \A l \in DOMAIN dbs : dbs'[l].records = dbs[l].records
        /\ conf' = conf /\ saved' = saved /\ verified' = verified
    BY <1>3 DEF Put, RoutingInv, DatabasesOK, Database, StoreOK
  <2> QED BY <2>1 DEF VerifiedInv, VerifyRecords, Running
<1>4. ASSUME NEW store \in open, Close(store) PROVE VerifiedInv'
  BY <1>4 DEF Close, VerifiedInv, VerifyRecords, Running
<1>5. ASSUME NEW store \in open, Drop(store) PROVE VerifiedInv'
  BY <1>5 DEF Drop, VerifiedInv, VerifyRecords, Running
<1>6. CASE Flush
  BY <1>6 DEF Flush, VerifiedInv, VerifyRecords, Running
<1>7. CASE Verify
  BY <1>7 DEF Verify, VerifiedInv, VerifyRecords, Running
<1>8. CASE Stop
  BY <1>8 DEF Stop, VerifiedInv
<1>9. CASE UNCHANGED routingVars
  BY <1>9 DEF routingVars, VerifiedInv, VerifyRecords, Running
<1> QED BY <1>1, <1>2, <1>3, <1>4, <1>5, <1>6, <1>7, <1>8, <1>9 DEF Next

LEMMA VerifiedFinds == RoutingInv /\ VerifiedInv => VerifiedFindsAll
<1> SUFFICES ASSUME RoutingInv, VerifiedInv, verified,
                    NEW loc \in DOMAIN dbs, NEW k \in DOMAIN dbs[loc].data
             PROVE  LET req == dbs[loc].data[k]
                        route == RouteOf(conf, req)
                    IN  /\ LocatorOf(route) = loc /\ IsPrefix(route.table, k)
                        /\ route.type \in Producers
                        /\ Allowed(dbs[loc].records, req, route.table)
  BY DEF VerifiedFindsAll
<1> DEFINE rs == dbs[loc].records
           req == dbs[loc].data[k]
           route == RouteOf(conf, req)
<1>1. Separate(dbs[loc]) /\ rs \in Seq(Records)
  BY DEF RoutingInv, DatabasesOK, Database
<1>2. PICK i \in DOMAIN rs : rs[i].req = req /\ IsPrefix(rs[i].table, k)
  BY <1>1 DEF Separate
<1>3. LocatorOf(route) = loc /\ route.table = rs[i].table
  BY <1>2 DEF VerifiedInv, VerifyRecords
<1>4. route.type \in Producers
  BY <1>3 DEF VerifiedInv, LocatorOf
<1>5. Allowed(rs, req, rs[i].table)
  <2>1. {j \in DOMAIN rs : rs[j].req = req} = {i}
    BY <1>1, <1>2 DEF Separate
  <2>2. {j \in DOMAIN rs \ {i} : TablesConflicting(rs[j].table, rs[i].table)} = {}
    BY <1>1, <1>2 DEF Separate
  <2>3. {i} \cup {} = {i} /\ i \in Nat
    BY <1>1
  <2>4. Min({i}) = i
    BY <2>3 DEF Min
  <2> HIDE DEF rs, req
  <2> QED BY <2>1, <2>2, <2>3, <2>4 DEF Allowed
<1> QED BY <1>2, <1>3, <1>4, <1>5

(***************************************************************************)
(* Once Verify has found nothing, every request finds all it has ever      *)
(* written where it is routed to, and OpenDB does not refuse it.           *)
(***************************************************************************)
THEOREM VerifyIsEnough == Spec => []VerifiedFindsAll
<1>1. Spec => []RoutingInv
  BY RoutingStart, RoutingStep, PTL DEF Spec
<1>2. Init => VerifiedInv
  BY DEF Init, VerifiedInv
<1>3. Spec => []VerifiedInv
  BY <1>1, <1>2, VerifiedStep, PTL DEF Spec
<1> QED BY <1>1, <1>3, VerifiedFinds, PTL
=============================================================================
