---------------------------- MODULE EventsBuffer ----------------------------
(***************************************************************************)
(* dagordering.EventsBuffer: it keeps the events whose parents are not     *)
(* known yet, and hands an event to the application after its parents.     *)
(*                                                                         *)
(* An arrival is one event from one peer, the event struct of the code:    *)
(* the same event may arrive several times.  A call of PushEvent holds the *)
(* mutex through the whole recursion of pushEvent, whose frames are the    *)
(* stack here.  The application may itself connect events meanwhile (those *)
(* it emits).                                                              *)
(***************************************************************************)
EXTENDS Naturals, FiniteSetsExt, SequencesExt

CONSTANTS
    Ids,            \* the events, 1..n: parents before children
    Dags,           \* bound: the DAGs of them to consider
    Arrivals,       \* bound: what arrives
    EventOf,        \* the event of an arrival
    Size,           \* the size of an event
    Important,      \* the events that IsImportant
    Limit,          \* of the buffer: [num, size]
    Own             \* bound: the events the application may connect itself

ASSUME BufferConstants ==
    /\ Ids \subseteq Nat
    /\ \A p \in Dags : p \in [Ids -> SUBSET Ids] /\ \A i \in Ids : \A j \in p[i] : j < i
    /\ EventOf \in [Arrivals -> Ids]
    /\ Size \in [Ids -> Nat \ {0}]
    /\ Important \subseteq Ids /\ Own \subseteq Ids
    /\ Limit \in [num : Nat, size : Nat]

VARIABLES
    parents,        \* of each event
    connected,      \* the events the application has (Exists, Get)
    outside,        \* those of them that did not come through the buffer
    arrived,        \* the arrivals so far
    buf,            \* incompletes, oldest first, the structs, and the calls of Released
    stack,          \* the calls of pushEvent in progress, outermost first
    list            \* their incompleteEventsList

bufVars == <<parents, connected, outside, arrived, buf, stack, list>>

Errors == {"nil", "duplicate", "connected", "spilled", "rejected", "busy"}
-----------------------------------------------------------------------------
\* Mutant: the error is lost.
DropEventSilently(b, a, e) == b

DropEvent(b, a, e) == [b EXCEPT !.err[a] = IF @ = "nil" THEN e ELSE @]

ReleaseEvent(b, a) ==
    IF b.released[a] THEN b
    ELSE [b EXCEPT !.released[a] = TRUE, !.calls[a] = Append(@, b.err[a])]

Unbuffer(b, id) == [b EXCEPT !.incompletes = SelectSeq(@, LAMBDA x : EventOf[x] # id)]

\* wlru.Cache.Add: it replaces what has the key.
Buffer(b, a) == [Unbuffer(b, EventOf[a]) EXCEPT !.incompletes = Append(@, a)]

IsBuffered(b, id) == \E i \in DOMAIN b.incompletes : EventOf[b.incompletes[i]] = id

Total(s) ==
    LET weight[i \in 0..Len(s)] == IF i = 0 THEN 0 ELSE weight[i - 1] + Size[EventOf[s[i]]]
    IN  [num |-> Len(s), size |-> weight[Len(s)]]

Fits(s, limit) == Total(s).num <= limit.num /\ Total(s).size <= limit.size

\* The next to evict: the oldest that is not important, or the oldest.
Evicted(s) ==
    LET plain == {i \in DOMAIN s : EventOf[s[i]] \notin Important}
    IN  s[IF plain = {} THEN 1 ELSE Min(plain)]

SpillIncompletes(b, limit) ==
    LET n == Len(b.incompletes)
        after[k \in 0..n] ==    \* k evictions at most
          IF k = 0 THEN b
          ELSE LET c == after[k - 1]
                   a == Evicted(c.incompletes)
               IN  IF Fits(c.incompletes, limit) THEN c
                   ELSE ReleaseEvent(DropEvent(Unbuffer(c, EventOf[a]), a, "spilled"), a)
    IN  after[n]
-----------------------------------------------------------------------------
Idle == stack = <<>>

\* pushEvent returns; with the outermost call, PushEvent spills and unlocks.
Return(b) ==
    /\ stack' = Front(stack)
    /\ buf' = IF Len(stack) = 1 THEN SpillIncompletes(b, Limit) ELSE b
    /\ list' = IF Len(stack) = 1 THEN <<>> ELSE list

\* Mutant: a duplicate of a buffered event is not noticed.
PushEventAgain(a) ==
    /\ Idle /\ a \notin arrived
    /\ arrived' = arrived \cup {a}
    /\ stack' = <<[arrival |-> a, recheck |-> FALSE, started |-> FALSE, todo |-> <<>>]>>
    /\ UNCHANGED <<parents, connected, outside, list, buf>>

PushEvent(a) ==
    /\ Idle /\ a \notin arrived
    /\ arrived' = arrived \cup {a}
    /\ IF IsBuffered(buf, EventOf[a])
       THEN /\ buf' = ReleaseEvent(DropEvent(buf, a, "duplicate"), a)
            /\ UNCHANGED stack
       ELSE /\ stack' = <<[arrival |-> a, recheck |-> FALSE, started |-> FALSE, todo |-> <<>>]>>
            /\ UNCHANGED buf
    /\ UNCHANGED <<parents, connected, outside, list>>

Top == Last(stack)
Starting == ~Idle /\ ~Top.started

\* The event is connected already.
PushKnown ==
    /\ Starting
    /\ EventOf[Top.arrival] \in connected
    /\ LET a == Top.arrival
           b == Unbuffer(buf, EventOf[a])
       IN  Return(ReleaseEvent(IF Top.recheck THEN b ELSE DropEvent(b, a, "connected"), a))
    /\ UNCHANGED <<parents, connected, outside, arrived>>

PushIncomplete ==
    /\ Starting
    /\ EventOf[Top.arrival] \notin connected
    /\ ~(parents[EventOf[Top.arrival]] \subseteq connected)
    /\ Return(IF Top.recheck THEN buf ELSE Buffer(buf, Top.arrival))
    /\ UNCHANGED <<parents, connected, outside, arrived>>

Complete ==
    /\ Starting
    /\ EventOf[Top.arrival] \notin connected
    /\ parents[EventOf[Top.arrival]] \subseteq connected

\* Check or Process returns an error.
PushRejected ==
    /\ Complete
    /\ LET a == Top.arrival
       IN  Return(Unbuffer(ReleaseEvent(DropEvent(buf, a, "rejected"), a), EventOf[a]))
    /\ UNCHANGED <<parents, connected, outside, arrived>>

\* Mutant: the children of a child are not looked for.
PushProcessedAlone ==
    /\ Complete
    /\ LET a == Top.arrival
       IN  /\ connected' = connected \cup {EventOf[a]}
           /\ buf' = ReleaseEvent(buf, a)
           /\ list' = IF Len(stack) = 1 THEN buf.incompletes ELSE list
           /\ stack' = [stack EXCEPT ![Len(stack)].started = TRUE, ![Len(stack)].todo =
                 IF Top.recheck THEN <<>>
                 ELSE SelectSeq(buf.incompletes, LAMBDA c : EventOf[a] \in parents[EventOf[c]])]
    /\ UNCHANGED <<parents, outside, arrived>>

\* The event is processed and released; its buffered children are tried next.
PushProcessed ==
    /\ Complete
    /\ LET a == Top.arrival
           candidates == IF Len(stack) = 1 THEN buf.incompletes ELSE list
       IN  /\ connected' = connected \cup {EventOf[a]}
           /\ buf' = ReleaseEvent(buf, a)
           /\ list' = candidates
           /\ stack' = [stack EXCEPT ![Len(stack)].started = TRUE,
                 ![Len(stack)].todo =
                    SelectSeq(candidates, LAMBDA c : EventOf[a] \in parents[EventOf[c]])]
    /\ UNCHANGED <<parents, outside, arrived>>

PushChild ==
    /\ ~Idle /\ Top.started /\ Top.todo # <<>>
    /\ stack' = Append([stack EXCEPT ![Len(stack)].todo = Tail(@)],
                       [arrival |-> Head(Top.todo), recheck |-> TRUE, started |-> FALSE, todo |-> <<>>])
    /\ UNCHANGED <<parents, connected, outside, arrived, buf, list>>

PushDone ==
    /\ ~Idle /\ Top.started /\ Top.todo = <<>>
    /\ Return(Unbuffer(buf, EventOf[Top.arrival]))
    /\ UNCHANGED <<parents, connected, outside, arrived>>

Clear ==
    /\ Idle
    /\ buf' = SpillIncompletes(buf, [num |-> 0, size |-> 0])
    /\ UNCHANGED <<parents, connected, outside, arrived, stack, list>>

\* The application connects an event that it has made.
ConnectOwn(id) ==
    /\ id \in Own \ connected
    /\ parents[id] \subseteq connected
    /\ connected' = connected \cup {id}
    /\ outside' = outside \cup {id}
    /\ UNCHANGED <<parents, arrived, buf, stack, list>>

BufInit ==
    /\ parents \in Dags
    /\ connected = {} /\ outside = {} /\ arrived = {}
    /\ buf = [incompletes |-> <<>>, err |-> [a \in Arrivals |-> "nil"],
              released |-> [a \in Arrivals |-> FALSE], calls |-> [a \in Arrivals |-> <<>>]]
    /\ stack = <<>> /\ list = <<>>

Pushing == PushKnown \/ PushIncomplete \/ PushRejected \/ PushProcessed \/ PushChild \/ PushDone

BufNext ==
    \/ \E a \in Arrivals : PushEvent(a)
    \/ Pushing
    \/ Clear /\ buf.incompletes # <<>>
    \/ \E id \in Ids : ConnectOwn(id)

\* A call of PushEvent, once in, runs on.
BufSpec == BufInit /\ [][BufNext]_bufVars /\ WF_bufVars(Pushing)
-----------------------------------------------------------------------------
BufTypeOK ==
    /\ connected \subseteq Ids /\ outside \subseteq connected /\ arrived \subseteq Arrivals
    /\ buf.incompletes \in Seq(arrived)
    /\ \A a \in ToSet(buf.incompletes) : buf.err[a] = "nil"
    /\ buf.err \in [Arrivals -> Errors]
    /\ buf.released \in [Arrivals -> BOOLEAN]
    /\ buf.calls \in [Arrivals -> Seq(Errors)]
    /\ stack \in Seq([arrival : arrived, recheck : BOOLEAN, started : BOOLEAN, todo : Seq(arrived)])
    /\ list \in Seq(arrived)

(***************************************************************************)
(* Every arrival is released exactly once: when no call is in progress,    *)
(* what is not buffered has been released, once, and what is buffered has  *)
(* not.                                                                    *)
(***************************************************************************)
ReleasedOnce ==
    Idle => \A a \in arrived :
               Len(buf.calls[a]) = IF a \in ToSet(buf.incompletes) THEN 0 ELSE 1

(***************************************************************************)
(* An event waits in the buffer only for a parent that is missing.  The    *)
(* buffer is not told of what the application connects itself, so an event *)
(* may be left waiting after one of those.                                 *)
(***************************************************************************)
NoneLeftWaiting ==
    Idle => \A a \in ToSet(buf.incompletes) :
               LET id == EventOf[a]
               IN  (id \in connected \/ parents[id] \subseteq connected)
                      => ({id} \cup parents[id]) \cap outside # {}

(***************************************************************************)
(* An arrival that is released without an error, or as already connected,  *)
(* is of a connected event; the connected events are closed under parents, *)
(* and the buffer keeps its limit.                                         *)
(***************************************************************************)
ReleasesAreTrue ==
    /\ \A a \in Arrivals : \A i \in DOMAIN buf.calls[a] :
          buf.calls[a][i] \in {"nil", "connected"} => EventOf[a] \in connected
    /\ \A id \in connected : parents[id] \subseteq connected
    /\ Idle => Fits(buf.incompletes, Limit)
=============================================================================
