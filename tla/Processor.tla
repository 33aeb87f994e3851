----------------------------- MODULE Processor ------------------------------
(***************************************************************************)
(* dagprocessor.Processor: events arrive in batches, are checked by one    *)
(* worker and put into the ordering buffer by another.  Every event of a   *)
(* batch takes a slot of the events semaphore until it is released.        *)
(*                                                                         *)
(* The buffer is module EventsBuffer, the semaphore DataSemaphore, whose   *)
(* callers are the batches: each batch is one call of Enqueue.             *)
(***************************************************************************)
EXTENDS EventsBuffer, DataSemaphore

CONSTANTS
    EventsIn,       \* the arrivals of each, a sequence
    Ordered,        \* the batches to be processed in order
    MaxTasks        \* of each worker's channel

Batches == Callers

ASSUME ProcessorConstants ==
    /\ EventsIn \in [Batches -> Seq(Arrivals)]
    /\ \A b \in Batches : IsInjective(EventsIn[b])
    /\ \A b, c \in Batches : b # c => ToSet(EventsIn[b]) \cap ToSet(EventsIn[c]) = {}
    /\ Ordered \subseteq Batches
    /\ Ask = [b \in Batches |-> Total(EventsIn[b])]
    /\ MaxTasks \in Nat \ {0}

VARIABLES
    call,           \* how far each call of Enqueue is
    checkerTasks, inserterTasks,    \* the channels of the workers
    checks,         \* the checks CheckParentless has yet to answer
    checkedC,       \* the channel of answers of each batch
    checker, inserter,              \* the workers
    task,           \* the task of the inserter
    done,           \* the batches whose done callback was called
    announced,      \* what notifyAnnounces was told
    stop            \* how far Stop is

tasks == <<checkerTasks, inserterTasks>>
answers == <<checks, checkedC>>
workers == <<checker, inserter, task>>
outcome == <<done, announced>>
upstream == <<parents, connected, outside, arrived, stack, list>>
procVars == <<call, semVars, tasks, answers, workers, outcome, stop>>
allVars == <<bufVars, procVars>>

Quit == stop # "no"
Metric(a) == [num |-> 1, size |-> Size[EventOf[a]]]
-----------------------------------------------------------------------------
(***************************************************************************)
(* The Released callback gives the slot back, whoever calls it.            *)
(***************************************************************************)
\* The semaphore after a step that calls Released as buf' says.
ReleaseSlots ==
    LET new == SetToSeq({a \in Arrivals : buf'.calls[a] # buf.calls[a]})
        left[i \in 0..Len(new)] == IF i = 0 THEN held ELSE Less(left[i - 1], Metric(new[i]))
    IN  /\ new # <<>> => ~Locked
        /\ held' = left[Len(new)]
        /\ IF new = <<>> THEN UNCHANGED acquiring ELSE Broadcast
        /\ UNCHANGED <<expired, timer>>

\* Released is called directly, not by the buffer.
Released(as, e) == [buf EXCEPT !.calls = [a \in Arrivals |-> IF a \in as THEN Append(@[a], e) ELSE @[a]]]
-----------------------------------------------------------------------------
(***************************************************************************)
(* Enqueue, by a peer's goroutine                                          *)
(***************************************************************************)
Acquire(b) ==
    /\ Call(b) \/ Turn(b) \/ Wait(b)
    /\ UNCHANGED <<bufVars, call, tasks, answers, workers, outcome, stop>>

Time(b) ==
    /\ Expire(b) \/ Fire(b)
    /\ UNCHANGED <<bufVars, call, tasks, answers, workers, outcome, stop>>

Acquired(b) == call[b] = "new" /\ acquiring[b] = "holding"

EnqueueCheck(b) ==
    /\ Acquired(b) /\ Len(checkerTasks) < MaxTasks
    /\ checkerTasks' = Append(checkerTasks, b)
    /\ call' = [call EXCEPT ![b] = "checking"]
    /\ UNCHANGED <<bufVars, semVars, inserterTasks, answers, workers, outcome, stop>>

EnqueueInsert(b) ==
    /\ call[b] = "checking" /\ Len(inserterTasks) < MaxTasks
    /\ inserterTasks' = Append(inserterTasks, b)
    /\ call' = [call EXCEPT ![b] = "accepted"]
    /\ UNCHANGED <<bufVars, semVars, checkerTasks, answers, workers, outcome, stop>>

\* Either Enqueue of a worker gives up when the processor quits.
EnqueueTerminated(b) ==
    /\ Acquired(b) \/ call[b] = "checking"
    /\ Quit
    /\ call' = [call EXCEPT ![b] = "terminated"]
    /\ UNCHANGED <<bufVars, semVars, tasks, answers, workers, outcome, stop>>
-----------------------------------------------------------------------------
(***************************************************************************)
(* The checker                                                             *)
(***************************************************************************)
CheckTask ==
    /\ checker = "running" /\ checkerTasks # <<>>
    /\ checkerTasks' = Tail(checkerTasks)
    /\ checks' = checks \cup ToSet(EventsIn[Head(checkerTasks)])
    /\ UNCHANGED <<bufVars, call, semVars, inserterTasks, checkedC, workers, outcome, stop>>

\* CheckParentless answers, when it likes.
Checked(b, a, ok) ==
    /\ a \in checks \cap ToSet(EventsIn[b])
    /\ checks' = checks \ {a}
    /\ checkedC' = [checkedC EXCEPT ![b] = Append(@, [arrival |-> a, ok |-> ok])]
    /\ UNCHANGED <<bufVars, call, semVars, tasks, workers, outcome, stop>>

CheckerQuit ==
    /\ checker = "running" /\ Quit
    /\ checker' = "stopped"
    /\ UNCHANGED <<bufVars, call, semVars, tasks, answers, inserter, task, outcome, stop>>
-----------------------------------------------------------------------------
(***************************************************************************)
(* The inserter.  Its task has the answers received and not yet processed. *)
(***************************************************************************)
NoTask == [batch |-> "none"]
Busy == task # NoTask

InsertTask ==
    /\ inserter = "running" /\ ~Busy /\ inserterTasks # <<>>
    /\ inserterTasks' = Tail(inserterTasks)
    /\ task' = [batch |-> Head(inserterTasks), processed |-> 0, results |-> {},
                toRequest |-> {}, pushing |-> {}]
    /\ UNCHANGED <<bufVars, call, semVars, checkerTasks, answers, checker, inserter, outcome, stop>>

\* Mutant: any answer.
ReadyAny == task.results

\* The answers that can be processed now.
Ready == {r \in task.results : task.batch \in Ordered =>
             EventsIn[task.batch][task.processed + 1] = r.arrival}

\* At the select.
Selecting ==
    /\ Busy
    /\ task.pushing = {} /\ Ready = {} /\ task.processed < Len(EventsIn[task.batch])

Receive ==
    /\ Selecting /\ checkedC[task.batch] # <<>>
    /\ task' = [task EXCEPT !.results = @ \cup {Head(checkedC[task.batch])}]
    /\ checkedC' = [checkedC EXCEPT ![task.batch] = Tail(@)]
    /\ UNCHANGED <<bufVars, call, semVars, tasks, checks, checker, inserter, outcome, stop>>

Lamport(id) ==
    LET lamport[i \in Ids] == 1 + Max({0} \cup {lamport[p] : p \in parents[i]}) IN lamport[id]

HighestLamport == Max({0} \cup {Lamport(i) : i \in connected})
MaxLamportDiff == 1 + Limit.num
TooFar(a) == Lamport(EventOf[a]) > HighestLamport + MaxLamportDiff

\* Mutant: refused events are not counted.
ProcessRefusedUncounted ==
    \E r \in IF Busy /\ task.pushing = {} THEN Ready ELSE {} :
       /\ ~(r.ok /\ ~TooFar(r.arrival))
       /\ buf' = Released({r.arrival}, IF r.ok THEN "spilled" ELSE "rejected")
       /\ ReleaseSlots
       /\ task' = [task EXCEPT !.results = @ \ {r}]
       /\ UNCHANGED <<upstream, call, capacity, tasks, answers, checker, inserter, outcome, stop>>

\* process: events that fail the check, or are too far ahead, are released at once.
ProcessRefused ==
    \E r \in IF Busy /\ task.pushing = {} THEN Ready ELSE {} :
       /\ ~(r.ok /\ ~TooFar(r.arrival))
       /\ buf' = Released({r.arrival}, IF r.ok THEN "spilled" ELSE "rejected")
       /\ ReleaseSlots
       /\ task' = [task EXCEPT !.results = @ \ {r}, !.processed = @ + 1]
       /\ UNCHANGED <<upstream, call, capacity, tasks, answers, checker, inserter, outcome, stop>>

\* process: the others are pushed; near tells whether the parents are to be requested.
ProcessPush ==
    \E r \in IF Busy /\ task.pushing = {} THEN Ready ELSE {} :
       /\ r.ok /\ ~TooFar(r.arrival)
       /\ PushEvent(r.arrival)
       /\ ReleaseSlots
       /\ task' = [task EXCEPT !.results = @ \ {r},
             !.pushing = {[arrival |-> r.arrival,
                near |-> Lamport(EventOf[r.arrival]) <= HighestLamport + (MaxLamportDiff \div 10)]}]
       /\ UNCHANGED <<call, capacity, tasks, answers, checker, inserter, outcome, stop>>

Push ==
    /\ Pushing
    /\ ReleaseSlots
    /\ UNCHANGED <<call, capacity, tasks, answers, workers, outcome, stop>>

\* PushEvent has returned.
Pushed ==
    /\ Busy /\ Idle
    /\ \E p \in task.pushing :
          LET complete == buf.calls[p.arrival] # <<>> /\ Last(buf.calls[p.arrival]) = "nil"
          IN  task' = [task EXCEPT !.pushing = {}, !.processed = @ + 1,
                 !.toRequest = @ \cup IF ~complete /\ p.near THEN parents[EventOf[p.arrival]] ELSE {}]
    /\ UNCHANGED <<bufVars, call, semVars, tasks, answers, checker, inserter, outcome, stop>>

InsertDone ==
    /\ Busy /\ task.pushing = {} /\ task.processed = Len(EventsIn[task.batch])
    /\ task' = NoTask
    /\ done' = done \cup {task.batch}
    /\ announced' = announced \cup task.toRequest
    /\ UNCHANGED <<bufVars, call, semVars, tasks, answers, checker, inserter, stop>>

\* Mutant: what the channel has is released, and not what is still being checked.
InsertCancelledEarly ==
    /\ Selecting /\ Quit
    /\ buf' = Released({r.arrival : r \in ToSet(checkedC[task.batch])}, "busy")
    /\ ReleaseSlots
    /\ checkedC' = [checkedC EXCEPT ![task.batch] = <<>>]
    /\ task' = NoTask
    /\ done' = done \cup {task.batch}
    /\ UNCHANGED <<upstream, call, capacity, tasks, checks, checker, inserter, announced, stop>>

\* Mutant: the channel is read until all answers are there.
InsertCancelledBlocking ==
    /\ Selecting /\ Quit
    /\ ToSet(EventsIn[task.batch]) \cap checks = {}
    /\ buf' = Released(ToSet(EventsIn[task.batch]), "busy")
    /\ ReleaseSlots
    /\ checkedC' = [checkedC EXCEPT ![task.batch] = <<>>]
    /\ task' = NoTask
    /\ done' = done \cup {task.batch}
    /\ UNCHANGED <<upstream, call, capacity, tasks, checks, checker, inserter, announced, stop>>

\* At quit the task drains its channel and releases all its events.
InsertCancelled ==
    /\ Selecting /\ Quit
    /\ buf' = Released(ToSet(EventsIn[task.batch]), "busy")
    /\ ReleaseSlots
    /\ checkedC' = [checkedC EXCEPT ![task.batch] = <<>>]
    /\ task' = NoTask
    /\ done' = done \cup {task.batch}
    /\ UNCHANGED <<upstream, call, capacity, tasks, checks, checker, inserter, announced, stop>>

InserterQuit ==
    /\ inserter = "running" /\ ~Busy /\ Quit
    /\ inserter' = "stopped"
    /\ UNCHANGED <<bufVars, call, semVars, tasks, answers, checker, task, outcome, stop>>
-----------------------------------------------------------------------------
(***************************************************************************)
(* Stop, and Clear by the application                                      *)
(***************************************************************************)
StopQuit ==
    /\ stop = "no"
    /\ stop' = "quit"
    /\ UNCHANGED <<bufVars, call, semVars, tasks, answers, workers, outcome>>

StopTerminate ==
    /\ stop = "quit"
    /\ stop' = "waiting"
    /\ Terminate
    /\ UNCHANGED <<bufVars, call, tasks, answers, workers, outcome>>

StopWait ==
    /\ stop = "waiting" /\ checker = "stopped" /\ inserter = "stopped"
    /\ stop' = "stopped"
    /\ Clear /\ ReleaseSlots
    /\ UNCHANGED <<call, capacity, tasks, answers, workers, outcome>>

ClearBuffer ==
    /\ Clear /\ buf.incompletes # <<>>
    /\ ReleaseSlots
    /\ UNCHANGED <<call, capacity, tasks, answers, workers, outcome, stop>>
-----------------------------------------------------------------------------
Init ==
    /\ BufInit /\ SemInit
    /\ call = [b \in Batches |-> "new"]
    /\ checkerTasks = <<>> /\ inserterTasks = <<>>
    /\ checks = {} /\ checkedC = [b \in Batches |-> <<>>]
    /\ checker = "running" /\ inserter = "running" /\ task = NoTask
    /\ done = {} /\ announced = {}
    /\ stop = "no"

Enqueue(b) == Acquire(b) \/ Time(b) \/ EnqueueCheck(b) \/ EnqueueInsert(b) \/ EnqueueTerminated(b)
Checking == \E b \in Batches, a \in Arrivals, ok \in BOOLEAN : Checked(b, a, ok)
Checker == CheckTask \/ CheckerQuit
Inserter == \/ InsertTask \/ Receive \/ ProcessRefused \/ ProcessPush \/ Push \/ Pushed
            \/ InsertDone \/ InsertCancelled \/ InserterQuit
Stop == StopQuit \/ StopTerminate \/ StopWait
Connecting == \E id \in Ids : ConnectOwn(id) /\ UNCHANGED procVars

Next == \/ \E b \in Batches : Enqueue(b)
        \/ Checking \/ Checker \/ Inserter \/ Stop \/ ClearBuffer \/ Connecting

\* The goroutines and the timers run.  Stop, once called, goes on.  The checks of the
\* application answer as long as the processor is not stopped.
Spec ==
    /\ Init /\ [][Next]_allVars
    /\ \A b \in Batches :
          /\ WF_allVars(acquiring[b] # "outside" /\ Acquire(b))
          /\ WF_allVars(Time(b))
          /\ WF_allVars(EnqueueCheck(b) \/ EnqueueInsert(b) \/ EnqueueTerminated(b))
    /\ WF_allVars(Checker) /\ WF_allVars(Inserter)
    /\ WF_allVars(StopTerminate \/ StopWait)
    /\ WF_allVars(~Quit /\ Checking)
-----------------------------------------------------------------------------
(***************************************************************************)
(* Until Stop, the slots that are held are those of the events that were   *)
(* accepted and are not released, so none is lost or given back twice.     *)
(***************************************************************************)
SlotsAccounted ==
    ~Quit => LET taken == UNION {ToSet(EventsIn[b]) : b \in {c \in Batches :
                                    acquiring[c] = "holding"}}
                 left == {a \in taken : buf.calls[a] = <<>>}
             IN  /\ held = Total(SetToSeq(left))
                 /\ \A a \in Arrivals : Len(buf.calls[a]) <= IF a \in taken THEN 1 ELSE 0

(***************************************************************************)
(* The events of an ordered batch are handled in their order, whatever the *)
(* order of the answers: those handled come first.                         *)
(***************************************************************************)
Handled(a) == a \in arrived \/ buf.calls[a] # <<>>

OrderKept ==
    ~Quit => \A b \in Ordered : \A i, j \in DOMAIN EventsIn[b] :
                i < j /\ Handled(EventsIn[b][j]) => Handled(EventsIn[b][i])

\* A batch is done once, and then its events are released or in the buffer, which
\* Stop empties: only tasks that were never taken keep their slots after Stop.
DoneIsHandled ==
    /\ Busy => task.batch \notin done
    /\ \A b \in done : \A a \in ToSet(EventsIn[b]) :
          buf.calls[a] # <<>> \/ (stop # "stopped" /\ (a \in ToSet(buf.incompletes) \/ ~Idle))

\* A batch that Enqueue has accepted is done in the end, unless the processor is stopped.
AcceptedIsDone == \A b \in Batches : call[b] = "accepted" ~> (b \in done \/ Quit)

(***************************************************************************)
(* A call of Acquire returns within its timeout, though every slot may be  *)
(* held by events that wait for the events of this very call.  The         *)
(* exception is a timer that fires while its caller is between tryAcquire  *)
(* and Wait: that caller waits for the next Release or Terminate.          *)
(***************************************************************************)
Overslept(b) == acquiring[b] = "waiting" /\ timer[b] = "fired"

AcquireReturns == \A b \in Batches : Inside(b) ~> (~Inside(b) \/ Overslept(b))

\* Stop returns, even if the checks never answer, and every call of Enqueue returns,
\* those that wait in Acquire and those that overslept included.
StopReturns ==
    /\ stop = "quit" ~> stop = "stopped"
    /\ \A b \in Batches : Quit ~> ~Inside(b) /\ ~Acquired(b) /\ call[b] # "checking"

(***************************************************************************)
(* The task that is cancelled releases "every event that was never written *)
(* to the channel": no event is released twice.                            *)
(***************************************************************************)
NoneReleasedTwice == \A a \in Arrivals : Len(buf.calls[a]) <= 1
=============================================================================
