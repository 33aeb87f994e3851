------------------------------- MODULE Seeder -------------------------------
(***************************************************************************)
(* gossip/basestream/basestreamseeder: serves the items of a range, chunk  *)
(* by chunk.  One reader loop makes the chunks, sender threads send them,  *)
(* and the loop waits while too much is still to be sent.                  *)
(***************************************************************************)
EXTENDS Integers, FiniteSets, SequencesExt

CONSTANTS
    Peers, SenderThreads, MaxSenderTasks, MaxPendingResponsesSize,
    MaxResponseChunks, MaxResponsePayloadNum, MaxGlobalSessions,
    MaxRequests,    \* capacity of notifyReceivedRequest
    MaxPeerSessions \* 2 in the code

VARIABLES
    items,          \* what ForEachItem goes over: keys in their order
    sessions,       \* <<id, peer>> to its state
    peerSessions,   \* the ids of a peer, the oldest first
    unregistered,   \* the channel notifyUnregisteredPeer
    requests,       \* the channel notifyReceivedRequest
    reader,         \* the loop: its step, the request, the session, the chunks made of it
    tasks,          \* the queue of each sender
    sender,         \* each sender: the size that it has sent and not yet given back, and its step
    pendingResponsesSize,
    pendingSizeReduced,     \* a signal is in the channel
    sessionsCounter         \* modulo SenderThreads

seederVars == <<items, sessions, peerSessions, unregistered, requests, reader, tasks, sender,
                pendingResponsesSize, pendingSizeReduced, sessionsCounter>>

Senders == 0..(SenderThreads - 1)
NoOp == [session |-> 0, peer |-> CHOOSE p \in Peers : TRUE, start |-> 0, stop |-> 0, num |-> 0, chunks |-> 0]
NoSession == [start |-> 0, next |-> 0, stop |-> 0, done |-> FALSE, sender |-> 0]
NoChunk == [session |-> 0, peer |-> NoOp.peer, items |-> <<>>, done |-> FALSE]
Selecting == [step |-> "select", op |-> NoOp, session |-> NoSession, made |-> 0, chunk |-> NoChunk]
Idle == [step |-> "idle", size |-> 0]

Size(chunk) == Len(chunk.items)

SeederInit ==
    /\ sessions = <<>> /\ peerSessions = [p \in Peers |-> <<>>]
    /\ unregistered = <<>> /\ requests = <<>> /\ reader = Selecting
    /\ tasks = [i \in Senders |-> <<>>] /\ sender = [i \in Senders |-> Idle]
    /\ pendingResponsesSize = 0 /\ pendingSizeReduced = FALSE /\ sessionsCounter = 0
-----------------------------------------------------------------------------
(***************************************************************************)
(* The calls                                                               *)
(***************************************************************************)
Min2(a, b) == IF a < b THEN a ELSE b

\* Mutant: a request that finds the channel full is dropped.
NotifyRequestDropped(r) ==
    /\ requests' = IF r.chunks > MaxResponseChunks \/ Len(requests) >= MaxRequests THEN requests
                   ELSE Append(requests, [r EXCEPT !.num = Min2(@, MaxResponsePayloadNum)])
    /\ UNCHANGED <<items, sessions, peerSessions, unregistered, reader, tasks, sender,
                   pendingResponsesSize, pendingSizeReduced, sessionsCounter>>

NotifyRequestReceived(r) ==
    /\ IF r.chunks > MaxResponseChunks THEN UNCHANGED requests
       ELSE /\ Len(requests) < MaxRequests
            /\ requests' = Append(requests, [r EXCEPT !.num = Min2(@, MaxResponsePayloadNum)])
    /\ UNCHANGED <<items, sessions, peerSessions, unregistered, reader, tasks, sender,
                   pendingResponsesSize, pendingSizeReduced, sessionsCounter>>

UnregisterPeer(p) ==
    /\ unregistered' = Append(unregistered, p)
    /\ UNCHANGED <<items, sessions, peerSessions, requests, reader, tasks, sender,
                   pendingResponsesSize, pendingSizeReduced, sessionsCounter>>
-----------------------------------------------------------------------------
(***************************************************************************)
(* The reader loop                                                         *)
(***************************************************************************)
Without(keys) == [x \in DOMAIN sessions \ keys |-> sessions[x]]

HandleUnregister ==
    LET p == Head(unregistered)
    IN  /\ unregistered # <<>>
        /\ unregistered' = Tail(unregistered)
        /\ sessions' = Without({<<peerSessions[p][i], p>> : i \in DOMAIN peerSessions[p]})
        /\ peerSessions' = [peerSessions EXCEPT ![p] = <<>>]

\* Also while the loop is blocked in waitPendingResponsesBelowLimit, which then checks again.
ReadUnregister ==
    /\ reader.step \in {"select", "blocked"}
    /\ HandleUnregister
    /\ reader' = [reader EXCEPT !.step = IF @ = "blocked" THEN "wait" ELSE @]
    /\ UNCHANGED <<items, requests, tasks, sender, pendingResponsesSize, pendingSizeReduced, sessionsCounter>>

ReadRequest ==
    /\ reader.step = "select" /\ requests # <<>>
    /\ reader' = [reader EXCEPT !.step = "wait", !.op = Head(requests)]
    /\ requests' = Tail(requests)
    /\ UNCHANGED <<items, sessions, peerSessions, unregistered, tasks, sender,
                   pendingResponsesSize, pendingSizeReduced, sessionsCounter>>

BelowLimit == pendingResponsesSize < MaxPendingResponsesSize
HasChunk == reader.chunk # NoChunk

Block ==
    /\ reader.step = "wait" /\ ~BelowLimit
    /\ reader' = [reader EXCEPT !.step = "blocked"]
    /\ UNCHANGED <<items, sessions, peerSessions, unregistered, requests, tasks, sender,
                   pendingResponsesSize, pendingSizeReduced, sessionsCounter>>

Unblock ==
    /\ reader.step = "blocked" /\ pendingSizeReduced
    /\ reader' = [reader EXCEPT !.step = "wait"]
    /\ pendingSizeReduced' = FALSE
    /\ UNCHANGED <<items, sessions, peerSessions, unregistered, requests, tasks, sender,
                   pendingResponsesSize, sessionsCounter>>

\* The head of the loop over the chunks of a request.
Served(r) == IF r.made < r.op.chunks /\ ~r.session.done THEN r ELSE Selecting

\* The list after the prune of the oldest session.
Pruned(list) == IF Len(list) > MaxPeerSessions THEN Tail(list) ELSE list

\* Mutant: one session more.
CapExceeded(ss) == Cardinality(DOMAIN ss) > MaxGlobalSessions

CapReached(ss) == Cardinality(DOMAIN ss) >= MaxGlobalSessions

\* Finds or adds the session; the shorter list is stored only when one is added.
OpenSession ==
    LET op == reader.op
        key == <<op.session, op.peer>>
        list == peerSessions[op.peer]
        left == Without(IF Pruned(list) = list THEN {} ELSE {<<Head(list), op.peer>>})
        known == key \in DOMAIN left
        refused == ~known /\ CapReached(left)
        session == IF known THEN left[key]
                   ELSE [start |-> op.start, next |-> op.start, stop |-> op.stop, done |-> FALSE,
                         sender |-> sessionsCounter]
    IN  /\ reader.step = "wait" /\ BelowLimit /\ ~HasChunk
        /\ sessions' = left
        /\ peerSessions' = IF known \/ refused THEN peerSessions
                           ELSE [peerSessions EXCEPT ![op.peer] = Append(Pruned(list), op.session)]
        /\ sessionsCounter' = IF known \/ refused THEN sessionsCounter ELSE (sessionsCounter + 1) % SenderThreads
        /\ reader' = IF refused \/ session.start # op.start THEN Selecting
                     ELSE Served([reader EXCEPT !.step = "make", !.session = session])
        /\ UNCHANGED <<items, unregistered, requests, tasks, sender, pendingResponsesSize, pendingSizeReduced>>

\* What ForEachItem goes over before stop, and the part of it that fills a chunk.
InRange(session) == SetToSortSeq({k \in items : k >= session.next /\ k < session.stop}, <)
Filled(all, num) == SubSeq(all, 1, IF num = 0 THEN Min2(1, Len(all)) ELSE Min2(num, Len(all)))

MakeChunk ==
    LET op == reader.op
        all == InRange(reader.session)
        taken == Filled(all, op.num)
        consumed == Len(taken) < op.num \/ taken = <<>>
        session == [reader.session EXCEPT
                      !.next = (IF taken = <<>> THEN @ ELSE Last(taken)) + 1, !.done = consumed]
    IN  /\ reader.step = "make"
        /\ sessions' = (<<op.session, op.peer>> :> session) @@ sessions
        /\ reader' = [reader EXCEPT !.step = "wait", !.session = session, !.made = @ + 1,
                        !.chunk = [session |-> op.session, peer |-> op.peer, items |-> taken, done |-> consumed]]
        /\ UNCHANGED <<items, peerSessions, unregistered, requests, tasks, sender,
                       pendingResponsesSize, pendingSizeReduced, sessionsCounter>>

AddPending ==
    /\ reader.step = "wait" /\ BelowLimit /\ HasChunk
    /\ pendingResponsesSize' = pendingResponsesSize + Size(reader.chunk)
    /\ reader' = [reader EXCEPT !.step = "enqueue"]
    /\ UNCHANGED <<items, sessions, peerSessions, unregistered, requests, tasks, sender,
                   pendingSizeReduced, sessionsCounter>>

\* Mutant: the sender with the shorter queue takes the chunk.
ShortestSender(session) == CHOOSE i \in Senders : \A j \in Senders : Len(tasks[i]) <= Len(tasks[j])

\* All the chunks of a session go through one sender.
SenderOf(session) == session.sender

EnqueueChunk ==
    LET i == SenderOf(reader.session)
    IN  /\ reader.step = "enqueue" /\ Len(tasks[i]) < MaxSenderTasks
        /\ tasks' = [tasks EXCEPT ![i] = Append(@, reader.chunk)]
        /\ reader' = Served([reader EXCEPT !.step = "make", !.chunk = NoChunk])
        /\ UNCHANGED <<items, sessions, peerSessions, unregistered, requests, sender,
                       pendingResponsesSize, pendingSizeReduced, sessionsCounter>>
-----------------------------------------------------------------------------
(***************************************************************************)
(* The senders                                                             *)
(***************************************************************************)
SendChunk(i) ==
    /\ sender[i].step = "idle" /\ tasks[i] # <<>>
    /\ sender' = [sender EXCEPT ![i] = [step |-> "sent", size |-> Size(Head(tasks[i]))]]
    /\ tasks' = [tasks EXCEPT ![i] = Tail(@)]
    /\ UNCHANGED <<items, sessions, peerSessions, unregistered, requests, reader,
                   pendingResponsesSize, pendingSizeReduced, sessionsCounter>>

SubtractPending(i) ==
    /\ sender[i].step = "sent"
    /\ pendingResponsesSize' = pendingResponsesSize - sender[i].size
    /\ sender' = [sender EXCEPT ![i] = [step |-> "reduced", size |-> 0]]
    /\ UNCHANGED <<items, sessions, peerSessions, unregistered, requests, reader, tasks,
                   pendingSizeReduced, sessionsCounter>>

\* Mutant: no signal.
SignalNothing(i) ==
    /\ sender[i].step = "reduced"
    /\ sender' = [sender EXCEPT ![i] = Idle]
    /\ UNCHANGED <<items, sessions, peerSessions, unregistered, requests, reader, tasks,
                   pendingResponsesSize, pendingSizeReduced, sessionsCounter>>

SignalPendingSizeReduced(i) ==
    /\ sender[i].step = "reduced"
    /\ pendingSizeReduced' = TRUE
    /\ sender' = [sender EXCEPT ![i] = Idle]
    /\ UNCHANGED <<items, sessions, peerSessions, unregistered, requests, reader, tasks,
                   pendingResponsesSize, sessionsCounter>>
=============================================================================
