------------------------------- MODULE Stream -------------------------------
(***************************************************************************)
(* A leecher and a seeder, and a second peer of the seeder with requests   *)
(* of its own.  Requests arrive in order; the callback SendChunk returns   *)
(* when the chunk is with the leecher.                                     *)
(***************************************************************************)
EXTENDS Seeder, Leecher

CONSTANTS
    Me, Other,          \* the peers of the seeder: the leecher, and the second one
    Start, Stop,        \* the range that the leecher asks for
    ItemsNum,           \* the number of items that it wants in a chunk
    FirstItems, LateItems,      \* the items there at first, and those that come later
    OtherRequests,      \* what the second peer may request
    MaxEvents           \* bound: see events

VARIABLES
    toSeeder,           \* the requests of the leecher on their way
    spoilt,             \* sessions of the leecher that the seeder has dropped or refused
    events              \* the number of items, requests of the second peer, peers unregistered
                        \* and sessions ended by the application so far

vars == <<seederVars, leecherVars, toSeeder, spoilt, events>>

Init ==
    /\ SeederInit /\ LeecherInit
    /\ items = FirstItems
    /\ toSeeder = <<>> /\ spoilt = {}
    /\ events = 0

Event == events < MaxEvents /\ events' = events + 1

Request(s, n) ==
    [session |-> s, peer |-> Me, start |-> Start, stop |-> Stop, num |-> ItemsNum, chunks |-> n]

\* A step of agent s; RequestChunks sends what it has requested.
AgentStep(s) ==
    /\ AgentChunk(s) \/ AgentTick(s)
    /\ LET n == agents'[s].requested - agents[s].requested
       IN  toSeeder' = IF n > 0 THEN Append(toSeeder, Request(s, n)) ELSE toSeeder
    /\ UNCHANGED <<seederVars, spoilt, events>>

LeecherStep ==
    /\ \/ /\ RegisterPeer \/ Recheck \/ \E s \in SessionIDs : AgentQuit(s)
          /\ current # 0 => current' = current
          /\ UNCHANGED events
       \/ /\ Event
          /\ Recheck \/ Terminate
          /\ current # 0 /\ current' # current
    /\ UNCHANGED <<seederVars, toSeeder, spoilt>>

DeliverRequest ==
    /\ toSeeder # <<>>
    /\ NotifyRequestReceived(Head(toSeeder))
    /\ toSeeder' = Tail(toSeeder)
    /\ UNCHANGED <<leecherVars, spoilt, events>>

OtherRequest ==
    /\ Event
    /\ \E r \in OtherRequests : NotifyRequestReceived(r)
    /\ UNCHANGED <<leecherVars, toSeeder, spoilt>>

\* One side unregisters the other.
Unregister ==
    /\ Event
    /\ \/ UnregisterPeer(Me) /\ UNCHANGED leecherVars
       \/ UnregisterSeeder /\ UNCHANGED seederVars
    /\ UNCHANGED <<toSeeder, spoilt>>

NewItem ==
    /\ Event
    /\ \E k \in LateItems \ items : items' = items \cup {k}
    /\ UNCHANGED <<sessions, peerSessions, unregistered, requests, reader, tasks, sender, pendingResponsesSize,
                   pendingSizeReduced, sessionsCounter, leecherVars, toSeeder, spoilt>>

\* The loop goes on without a session for the request.
Refuses ==
    reader.step = "wait" /\ reader' = Selecting /\ <<reader.op.session, reader.op.peer>> \notin DOMAIN sessions'
Mine(keys) == {s \in SessionIDs : <<s, Me>> \in keys}

ReaderStep ==
    /\ \/ ReadRequest \/ Block \/ Unblock \/ MakeChunk \/ AddPending \/ EnqueueChunk
       \/ ReadUnregister \/ OpenSession
    /\ spoilt' = spoilt \cup Mine(DOMAIN sessions \ DOMAIN sessions')
                \cup IF Refuses /\ reader.op.peer = Me THEN {reader.op.session} ELSE {}
    /\ UNCHANGED <<leecherVars, toSeeder, events>>

SenderStep(i) ==
    /\ \/ /\ SendChunk(i)
          /\ LET chunk == Head(tasks[i])
             IN  IF chunk.peer = Me THEN NotifyChunkReceived(chunk.session, chunk) ELSE UNCHANGED leecherVars
       \/ (SubtractPending(i) \/ SignalPendingSizeReduced(i)) /\ UNCHANGED leecherVars
    /\ UNCHANGED <<toSeeder, spoilt, events>>

Next ==
    \/ LeecherStep \/ \E s \in SessionIDs : AgentStep(s)
    \/ DeliverRequest \/ OtherRequest \/ NewItem \/ Unregister
    \/ ReaderStep \/ \E i \in Senders : SenderStep(i)

Spec == Init /\ [][Next]_vars
-----------------------------------------------------------------------------
Count(seq, s, size(_)) ==
    FoldSeq(LAMBDA m, n : n + IF m.session = s /\ m.peer = Me THEN size(m) ELSE 0, 0, seq)

\* The chunks of session s that are requested and have not arrived.
InFlight(s) ==
    LET asked(seq) == Count(seq, s, LAMBDA r : r.chunks)
        made(seq) == Count(seq, s, LAMBDA c : 1)
        left == IF reader.op.session = s /\ reader.op.peer = Me
                THEN reader.op.chunks - reader.made + IF HasChunk THEN 1 ELSE 0 ELSE 0
    IN  asked(toSeeder) + asked(requests) + left
          + MapThenSumSet(LAMBDA i : made(tasks[i]), Senders)

Ongoing(s) == s = current /\ agents[s].state = "running" /\ s \notin spoilt

(***************************************************************************)
(* Between the two sides no chunk is lost: what the agent of the ongoing   *)
(* session has requested and not got is a request or a chunk under way,    *)
(* and once the seeder has reached the end of the range, the agent has the *)
(* chunk that says so, or it is under way.                                 *)
(***************************************************************************)
ChunksAreUnderWay ==
    \A s \in SessionIDs : Ongoing(s) =>
       IF <<s, Me>> \in DOMAIN sessions /\ sessions[<<s, Me>>].done
       THEN \/ agents[s].last
            \/ \E chunk \in {reader.chunk} \cup UNION {Range(tasks[i]) : i \in Senders} :
                  chunk.session = s /\ chunk.peer = Me /\ chunk.done
       ELSE agents[s].requested - agents[s].arrived = InFlight(s)

(***************************************************************************)
(* A session that the seeder has not dropped gets the items in order, none *)
(* twice and, of those that were there all the time, none left out; with   *)
(* its last chunk it has all of them.                                      *)
(***************************************************************************)
ReceivedIsRange ==
    \A s \in SessionIDs \ spoilt :
       LET wanted == {k \in FirstItems : k >= Start /\ k < Stop}
           passed == IF agents[s].last THEN wanted
                     ELSE {k \in wanted : \E i \in DOMAIN got[s] : k <= got[s][i]}
       IN  /\ \A i, j \in DOMAIN got[s] : i < j => got[s][i] < got[s][j]
           /\ passed \subseteq Range(got[s])

(***************************************************************************)
(* The loop of an agent drops no notification: there is always room for    *)
(* the chunks that it has requested.                                       *)
(***************************************************************************)
NoChunkForgotten ==
    \A s \in SessionIDs : agents[s].state = "running" =>
       LET a == agents[s]
       IN  a.arrived = a.processed + a.processing + a.notified

(***************************************************************************)
(* A reader blocked by the limit is woken: there is something to be sent,  *)
(* or it is below the limit and the signal is there or comes.              *)
(***************************************************************************)
ReaderWakes ==
    reader.step = "blocked" =>
       \/ ~BelowLimit /\ \E i \in Senders : tasks[i] # <<>> \/ sender[i].step = "sent"
       \/ BelowLimit /\ (pendingSizeReduced \/ \E i \in Senders : sender[i].step = "reduced")

(***************************************************************************)
(* Whoever requests, there are no more sessions than the global cap, and   *)
(* at most one too many is listed for a peer.                              *)
(***************************************************************************)
SessionsBounded ==
    /\ Cardinality(DOMAIN sessions) <= MaxGlobalSessions
    /\ \A p \in Peers : Len(peerSessions[p]) <= MaxPeerSessions + 1
=============================================================================
