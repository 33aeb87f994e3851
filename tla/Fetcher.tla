------------------------------ MODULE Fetcher -------------------------------
(***************************************************************************)
(* itemsfetcher.Fetcher: it requests the items that peers announce, and    *)
(* requests them again while they do not arrive.                           *)
(*                                                                         *)
(* Time is abstract: a request may become overdue (ArriveTimeout -         *)
(* GatherSlack) and a running timer expire at any moment, and when the     *)
(* tick is taken any announcement may be too old (ForgetTimeout).  What    *)
(* the callbacks OnlyInterested and Suspend answer is any choice.          *)
(***************************************************************************)
EXTENDS Wlru, FiniteSetsExt

CONSTANTS
    Items, Peers,
    Calls,              \* bound: the calls of NotifyAnnounces: [peer, ids]
    HashLimit, MaxBatch, MaxQueuedBatches, MaxParallelRequests

ASSUME FetcherConstants ==
    /\ Calls \subseteq [peer : Peers, ids : Seq(Items)]
    /\ {HashLimit, MaxBatch, MaxQueuedBatches, MaxParallelRequests} \subseteq Nat \ {0}

VARIABLES
    calling,            \* the calls of NotifyAnnounces, with what they have yet to send
    called,             \* the calls made
    notifications, receivedItems,   \* the channels of the loop
    announces,          \* the cache: item to announcements
    fetching,           \* item to the peer asked, and whether the answer is overdue
    timer,              \* fetchTimer: off, running, or expired with its tick not taken
    outbox,             \* the requests the loop is about to enqueue
    tasks,              \* the channel of the workers
    quit, looping,
    workers             \* the workers that are running

envVars == <<calling, called>>
ending == <<quit, looping, workers>>
loopVars == <<announces, fetching, timer, outbox>>
vars == <<envVars, notifications, receivedItems, loopVars, tasks, ending>>

Announced == ToSet(Keys(announces))
-----------------------------------------------------------------------------
(***************************************************************************)
(* The callers                                                             *)
(***************************************************************************)
NotifyAnnounces(c) ==
    /\ c \in Calls \ called
    /\ called' = called \cup {c}
    /\ calling' = calling \cup {c}
    /\ UNCHANGED <<notifications, receivedItems, loopVars, tasks, ending>>

\* A big batch is divided; the caller waits for room in the channel, or for the end.
SendBatch(c) ==
    LET n == Min({MaxBatch, Len(c.ids)})
        rest == [c EXCEPT !.ids = SubSeq(c.ids, n + 1, Len(c.ids))]
    IN  /\ c \in calling /\ Len(notifications) < MaxQueuedBatches
        /\ notifications' = Append(notifications, [c EXCEPT !.ids = SubSeq(c.ids, 1, n)])
        /\ calling' = (calling \ {c}) \cup IF rest.ids = <<>> THEN {} ELSE {rest}
        /\ UNCHANGED <<called, receivedItems, loopVars, tasks, ending>>

SendTerminated(c) ==
    /\ c \in calling /\ quit
    /\ calling' = calling \ {c}
    /\ UNCHANGED <<called, notifications, receivedItems, loopVars, tasks, ending>>

\* NotifyReceived, one item at a time.
NotifyReceived(id) ==
    /\ Len(receivedItems) < MaxQueuedBatches
    /\ receivedItems' = Append(receivedItems, <<id>>)
    /\ UNCHANGED <<envVars, notifications, loopVars, tasks, ending>>
-----------------------------------------------------------------------------
(***************************************************************************)
(* The loop.  At its select, it has nothing left to enqueue.               *)
(***************************************************************************)
Selecting == looping /\ outbox = <<>>

\* Mutant: there is no evict callback.
KeepAll(f, cache) == f

\* The evict callback: what leaves the cache is not being fetched any more.
Keep(f, cache) == [id \in DOMAIN f \cap ToSet(Keys(cache)) |-> f[id]]

ForgetHash(cache, ids) ==
    LET after[i \in 0..Len(ids)] == IF i = 0 THEN cache ELSE RemoveKey(after[i - 1], ids[i])
    IN  after[Len(ids)]

\* rescheduleFetch: with nothing announced, the timer stays as it is.
RescheduleFetch(cache, t) == IF cache.list = <<>> THEN t ELSE "running"

\* One item of a batch.  The announcement is appended twice, and weighed once.
AddAnnounce(s, id, peer, suspended) ==
    LET anns == Append(IF Cached(s.announces, id) THEN Peek(s.announces, id) ELSE <<>>, peer)
        cache == Add(s.announces, id, Append(anns, peer), Len(anns),
                     HashLimit, HashLimit)
        kept == Keep(s.fetching, cache)
        fetch == ~suspended /\ id \notin DOMAIN kept
    IN  [announces |-> cache,
         fetching |-> IF fetch THEN [x \in DOMAIN kept \cup {id} |->
                                       IF x = id THEN [peer |-> peer, due |-> FALSE] ELSE kept[x]]
                      ELSE kept,
         toFetch |-> IF fetch THEN Append(s.toFetch, id) ELSE s.toFetch]

ProcessNotification(interested, suspended) ==
    /\ Selecting /\ notifications # <<>>
    /\ interested \subseteq ToSet(Head(notifications).ids)
    /\ notifications' = Tail(notifications)
    /\ LET n == Head(notifications)
           ids == SelectSeq(n.ids, LAMBDA id : id \in interested)
           after[i \in 0..Len(ids)] ==
              IF i = 0 THEN [announces |-> announces, fetching |-> fetching, toFetch |-> <<>>]
              ELSE AddAnnounce(after[i - 1], ids[i], n.peer, suspended)
           s == after[Len(ids)]
           first == DOMAIN fetching = {}
       IN  /\ announces' = s.announces
           /\ fetching' = s.fetching
           /\ outbox' = IF s.toFetch = <<>> THEN <<>> ELSE <<[peer |-> n.peer, ids |-> ToSet(s.toFetch)]>>
           /\ timer' = IF first /\ DOMAIN s.fetching # {} THEN RescheduleFetch(s.announces, timer)
                       ELSE timer
    /\ UNCHANGED <<envVars, receivedItems, tasks, ending>>

ProcessReceived ==
    /\ Selecting /\ receivedItems # <<>>
    /\ receivedItems' = Tail(receivedItems)
    /\ announces' = ForgetHash(announces, Head(receivedItems))
    /\ fetching' = Keep(fetching, announces')
    /\ UNCHANGED <<envVars, notifications, timer, outbox, tasks, ending>>

\* Mutant: only what has been asked for is asked for again.
OverduesAsked(ids) == {id \in ids \cap DOMAIN fetching : fetching[id].due}

\* Mutant: what is being fetched is not asked for again.
OverduesNew(ids) == ids \ DOMAIN fetching

Overdues(ids) == {id \in ids : id \in DOMAIN fetching => fetching[id].due}

\* fetchTimer.C: the announced items are touched in their order, which stays as it
\* is.  An item that is not being fetched is overdue.  pick: a random peer for each item.
ProcessTimer(interested, old, pick) ==
    LET all == Keys(announces)
        again == Overdues(interested \ old)
    IN  /\ Selecting /\ timer = "expired"
        /\ old \subseteq interested /\ interested \subseteq Announced
        /\ \A id \in Items : pick[id] \in IF id \in again THEN ToSet(Peek(announces, id))
                                                          ELSE {CHOOSE p \in Peers : TRUE}
        /\ announces' = ForgetHash(announces, SelectSeq(all, LAMBDA id : id \in old \/ id \notin interested))
        /\ fetching' = Keep([id \in DOMAIN fetching \cup again |->
                               IF id \in again THEN [peer |-> pick[id], due |-> FALSE] ELSE fetching[id]],
                            announces')
        /\ outbox' = SetToSeq({[peer |-> p, ids |-> {id \in again : pick[id] = p}] :
                                 p \in {pick[id] : id \in again}})
        /\ timer' = RescheduleFetch(announces', "off")
        /\ UNCHANGED <<envVars, notifications, receivedItems, tasks, ending>>

\* parallelTasks.Enqueue
EnqueueTask ==
    /\ looping /\ outbox # <<>>
    /\ Len(tasks) < 2 * MaxParallelRequests
    /\ outbox' = Tail(outbox)
    /\ tasks' = Append(tasks, Head(outbox))
    /\ UNCHANGED <<envVars, notifications, receivedItems, announces, fetching, timer, ending>>

\* Mutant: only room in the channel ends Enqueue.
EnqueueBlocks == FALSE /\ UNCHANGED vars

EnqueueTerminated ==
    /\ looping /\ outbox # <<>> /\ quit
    /\ outbox' = Tail(outbox)
    /\ UNCHANGED <<envVars, notifications, receivedItems, announces, fetching, timer, tasks, ending>>

LoopQuit ==
    /\ Selecting /\ quit
    /\ looping' = FALSE
    /\ UNCHANGED <<envVars, notifications, receivedItems, loopVars, tasks, quit, workers>>

\* A worker sends a request (fetchItems).
Request ==
    /\ workers > 0 /\ tasks # <<>>
    /\ tasks' = Tail(tasks)
    /\ UNCHANGED <<envVars, notifications, receivedItems, loopVars, ending>>

WorkerQuit ==
    /\ workers > 0 /\ quit
    /\ workers' = workers - 1
    /\ UNCHANGED <<envVars, notifications, receivedItems, loopVars, tasks, quit, looping>>

\* Stop closes quit, drains the tasks and waits for the loop and the workers.
Stop ==
    /\ ~quit
    /\ quit' = TRUE
    /\ UNCHANGED <<envVars, notifications, receivedItems, loopVars, tasks, looping, workers>>

Drain ==
    /\ quit /\ tasks # <<>>
    /\ tasks' = Tail(tasks)
    /\ UNCHANGED <<envVars, notifications, receivedItems, loopVars, ending>>
-----------------------------------------------------------------------------
(***************************************************************************)
(* Time                                                                    *)
(***************************************************************************)
BecomeDue(id) ==
    /\ id \in DOMAIN fetching /\ ~fetching[id].due
    /\ fetching' = [fetching EXCEPT ![id].due = TRUE]
    /\ UNCHANGED <<envVars, notifications, receivedItems, announces, timer, outbox, tasks, ending>>

Expire ==
    /\ timer = "running"
    /\ timer' = "expired"
    /\ UNCHANGED <<envVars, notifications, receivedItems, announces, fetching, outbox, tasks, ending>>

Init ==
    /\ calling = {} /\ called = {}
    /\ notifications = <<>> /\ receivedItems = <<>>
    /\ announces = EmptyCache /\ fetching = [id \in {} |-> {}]
    /\ timer = "running"        \* NewTimer(0)
    /\ outbox = <<>> /\ tasks = <<>>
    /\ quit = FALSE /\ looping = TRUE /\ workers = MaxParallelRequests

NotificationArrives ==
    \E interested \in SUBSET Items, suspended \in BOOLEAN : ProcessNotification(interested, suspended)
TimerFires ==
    \E interested, old \in SUBSET Items, pick \in [Items -> Peers] : ProcessTimer(interested, old, pick)
Loop == NotificationArrives \/ ProcessReceived \/ EnqueueTask \/ EnqueueTerminated \/ LoopQuit
Send == \E c \in calling : SendBatch(c) \/ SendTerminated(c)

Next ==
    \/ \E c \in Calls : NotifyAnnounces(c)
    \/ \E id \in Items : NotifyReceived(id) \/ BecomeDue(id)
    \/ Send \/ Loop \/ Expire \/ TimerFires \/ Request \/ WorkerQuit \/ Stop \/ Drain

\* The goroutines run.  SF: a select chooses at random among the cases that are
\* ready, so neither the timer nor quit is passed over for ever.
Fairness ==
    /\ WF_vars(Loop) /\ WF_vars(Send) /\ WF_vars(Expire) /\ WF_vars(Request)
    /\ SF_vars(TimerFires) /\ SF_vars(LoopQuit) /\ SF_vars(WorkerQuit)

Spec == Init /\ [][Next]_vars /\ Fairness
-----------------------------------------------------------------------------
(***************************************************************************)
(* forgetHash leaves no trace: what is being fetched is announced, by the  *)
(* peer that was asked, and the timer that will ask again is running.      *)
(* (With up to HashLimit announcements of one item: more than that, and    *)
(* the cache evicts the item that is just being added.)                    *)
(***************************************************************************)
FetchingIsWatched ==
    \A id \in DOMAIN fetching :
       /\ id \in Announced
       /\ fetching[id].peer \in ToSet(Peek(announces, id))
       /\ looping => timer # "off"

(***************************************************************************)
(* A request that is overdue is made again, or the item forgotten.         *)
(***************************************************************************)
Overdue(id) == id \in DOMAIN fetching /\ fetching[id].due
OverdueIsHandled == \A id \in Items : Overdue(id) ~> (~Overdue(id) \/ quit)

(***************************************************************************)
(* What was announced while Suspend answered true is asked for at a later  *)
(* tick of the timer, or forgotten, if the timer is not off at the time.   *)
(* (With the timer off, it waits for another announcement.)                *)
(***************************************************************************)
PutOff(id) == id \in Announced \ DOMAIN fetching
SuspendedIsAsked == \A id \in Items : (PutOff(id) /\ timer # "off") ~> (~PutOff(id) \/ quit)

(***************************************************************************)
(* Stop returns: the loop and the workers end, whatever is queued, and the *)
(* callers of NotifyAnnounces are unblocked.                               *)
(***************************************************************************)
StopReturns == quit ~> (~looping /\ workers = 0 /\ calling = {})
=============================================================================
