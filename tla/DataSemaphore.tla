--------------------------- MODULE DataSemaphore ----------------------------
(***************************************************************************)
(* utils/datasemaphore: a semaphore over the number and the size of        *)
(* events.  Acquire waits on a condition variable, with a timeout.         *)
(*                                                                         *)
(* A caller holds the mutex from the failed tryAcquire until cond.Wait has *)
(* put it among the waiters (place "arming").  Its timer is running by     *)
(* then, and broadcasts without the mutex.                                 *)
(***************************************************************************)
EXTENDS Naturals

CONSTANTS
    Callers,        \* bound: the calls of Acquire
    Ask,            \* the metric each asks for
    Capacity        \* maxProcessing of New

Metrics == [num : Nat, size : Nat]

ASSUME SemaphoreConstants ==
    /\ Ask \in [Callers -> Metrics]
    /\ Capacity \in Metrics

VARIABLES
    held,           \* processing
    capacity,       \* maxProcessing
    acquiring,      \* where each caller is
    expired,        \* the callers in Acquire whose deadline has passed
    timer           \* the timer of each caller

semVars == <<held, capacity, acquiring, expired, timer>>

Places == {"outside", "trying", "arming", "waiting", "holding", "refused"}

Zero == [num |-> 0, size |-> 0]
Plus(m, n) == [num |-> m.num + n.num, size |-> m.size + n.size]
Within(m, n) == m.num <= n.num /\ m.size <= n.size
CanTake(c) == Within(Plus(held, Ask[c]), capacity)

\* Mutant: the mutex is free before the caller is among the waiters.
NeverLocked == FALSE

Locked == \E c \in Callers : acquiring[c] = "arming"
Inside(c) == acquiring[c] \in {"trying", "arming", "waiting"}
Broadcast == acquiring' = [c \in Callers |-> IF acquiring[c] = "waiting" THEN "trying" ELSE acquiring[c]]
-----------------------------------------------------------------------------
Call(c) ==
    /\ acquiring[c] = "outside"
    /\ acquiring' = [acquiring EXCEPT ![c] = "trying"]
    /\ UNCHANGED <<held, capacity, expired, timer>>

\* Mutant: the timer is not set.
TurnUntimed(c) ==
    /\ acquiring[c] = "trying" /\ ~Locked
    /\ held' = IF CanTake(c) THEN Plus(held, Ask[c]) ELSE held
    /\ acquiring' = [acquiring EXCEPT ![c] =
          IF CanTake(c) THEN "holding"
          ELSE IF ~Within(Ask[c], capacity) \/ c \in expired THEN "refused"
          ELSE "arming"]
    /\ expired' = IF acquiring'[c] = "arming" THEN expired ELSE expired \ {c}
    /\ UNCHANGED <<capacity, timer>>

\* A turn of Acquire's loop: timer.Stop of the turn before, tryAcquire, the next timer.
Turn(c) ==
    /\ acquiring[c] = "trying" /\ ~Locked
    /\ held' = IF CanTake(c) THEN Plus(held, Ask[c]) ELSE held
    /\ acquiring' = [acquiring EXCEPT ![c] =
          IF CanTake(c) THEN "holding"
          ELSE IF ~Within(Ask[c], capacity) \/ c \in expired THEN "refused"
          ELSE "arming"]
    /\ timer' = [timer EXCEPT ![c] = IF acquiring'[c] = "arming" THEN "running" ELSE "off"]
    /\ expired' = IF acquiring'[c] = "arming" THEN expired ELSE expired \ {c}
    /\ UNCHANGED capacity

\* cond.Wait: among the waiters first, then the mutex is unlocked.
Wait(c) ==
    /\ acquiring[c] = "arming"
    /\ acquiring' = [acquiring EXCEPT ![c] = "waiting"]
    /\ UNCHANGED <<held, capacity, expired, timer>>

Expire(c) ==
    /\ Inside(c) /\ c \notin expired
    /\ expired' = expired \cup {c}
    /\ UNCHANGED <<held, capacity, acquiring, timer>>

\* The timer fires.
Fire(c) ==
    /\ timer[c] = "running" /\ c \in expired
    /\ Broadcast
    /\ timer' = [timer EXCEPT ![c] = "fired"]
    /\ UNCHANGED <<held, capacity, expired>>

\* Mutant: the size is not given back.
LessNum(h, w) == IF ~Within(w, h) THEN Zero ELSE [h EXCEPT !.num = @ - w.num]

\* What Release leaves; if too much is released, nothing is left (with a warning).
Less(h, w) ==
    IF ~Within(w, h) THEN Zero ELSE [num |-> h.num - w.num, size |-> h.size - w.size]

Release(w) ==
    /\ ~Locked
    /\ held' = Less(held, w)
    /\ Broadcast
    /\ UNCHANGED <<capacity, expired, timer>>

Terminate ==
    /\ ~Locked
    /\ capacity' = Zero
    /\ Broadcast
    /\ UNCHANGED <<held, expired, timer>>

SemInit ==
    /\ held = Zero /\ capacity = Capacity
    /\ acquiring = [c \in Callers |-> "outside"]
    /\ expired = {} /\ timer = [c \in Callers |-> "off"]

SemNext ==
    \/ \E c \in Callers : Call(c) \/ Turn(c) \/ Wait(c) \/ Expire(c) \/ Fire(c)
    \/ \E w \in Metrics : Release(w)
    \/ Terminate

SemSpec == SemInit /\ [][SemNext]_semVars
-----------------------------------------------------------------------------
(***************************************************************************)
(* No wakeup is lost but the timer's: a caller waits in Acquire only while *)
(* what it asks for does not fit, however Release, Terminate and the       *)
(* timers come between its tryAcquire and its Wait.                        *)
(***************************************************************************)
WaitersMustWait == \A c \in Callers : acquiring[c] = "waiting" => ~CanTake(c)

\* What is held is never more than New allowed, whatever is released.
HeldWithinCapacity == Within(held, Capacity)
=============================================================================
