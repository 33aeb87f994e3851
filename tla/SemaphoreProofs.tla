-------------------------- MODULE SemaphoreProofs ---------------------------
(***************************************************************************)
(* No wakeup of a caller of Acquire is lost, and the capacity is kept, for *)
(* any callers, metrics and capacity.                                      *)
(***************************************************************************)
EXTENDS DataSemaphore, TLAPS

SemTypeOK ==
    /\ held \in Metrics /\ capacity \in Metrics
    /\ acquiring \in [Callers -> Places]
    /\ expired \subseteq Callers
    /\ timer \in [Callers -> {"off", "running", "fired"}]

(***************************************************************************)
(* A caller that is on its way to Wait must wait too.  It is inductive     *)
(* because such a caller has the mutex, so that neither Release nor        *)
(* Terminate comes before it is among the waiters they wake; other callers *)
(* only take more.                                                         *)
(***************************************************************************)
SleepersMustWait ==
    \A c \in Callers : acquiring[c] \in {"arming", "waiting"} => ~CanTake(c)

HeldInv == Within(capacity, Capacity) /\ HeldWithinCapacity

SemInv == SemTypeOK /\ SleepersMustWait /\ HeldInv

\* What Release leaves is a metric, and not more than there was.
LEMMA LessIsLess ==
    ASSUME NEW h \in Metrics, NEW w \in Metrics
    PROVE  Less(h, w) \in Metrics /\ Within(Less(h, w), h)
BY DEF Less, Within, Zero, Metrics

LEMMA SemInitially == SemInit => SemInv
BY SemaphoreConstants
DEF SemInit, SemInv, SemTypeOK, SleepersMustWait, HeldInv, HeldWithinCapacity, Zero, Metrics,
    Places, Within

LEMMA SemStep == SemInv /\ [SemNext]_semVars => SemInv'
<1> SUFFICES ASSUME SemInv, [SemNext]_semVars
             PROVE  SemTypeOK' /\ SleepersMustWait' /\ HeldInv'
    BY DEF SemInv
<1> USE SemaphoreConstants DEF SemInv, SemTypeOK
<1>1. ASSUME NEW c \in Callers, Call(c)
      PROVE  SemTypeOK' /\ SleepersMustWait' /\ HeldInv'
  <2>1. SemTypeOK'
        BY <1>1 DEF Call, Places
  <2>2. SleepersMustWait'
        BY <1>1 DEF Call, SleepersMustWait, CanTake
  <2>3. HeldInv'
        BY <1>1 DEF Call, HeldInv, HeldWithinCapacity
  <2>4. QED BY <2>1, <2>2, <2>3
<1>2. ASSUME NEW c \in Callers, Turn(c)
      PROVE  SemTypeOK' /\ SleepersMustWait' /\ HeldInv'
  <2>1. held' \in Metrics /\ Within(held, held') /\ Within(held', Capacity)
        BY <1>2 DEF Turn, HeldInv, HeldWithinCapacity, Within, CanTake, Plus, Metrics
  <2>2. SemTypeOK'
        BY <1>2, <2>1 DEF Turn, Places
  <2>3. \A d \in Callers : ~CanTake(d) => ~CanTake(d)'
        BY <1>2, <2>1 DEF Turn, CanTake, Plus, Within, Metrics
  <2>4. acquiring'[c] \in {"arming", "waiting"} => ~CanTake(c)
        BY <1>2 DEF Turn
  <2>5. SleepersMustWait'
        BY <1>2, <2>3, <2>4 DEF Turn, SleepersMustWait
  <2>6. QED BY <1>2, <2>1, <2>2, <2>5 DEF Turn, HeldInv, HeldWithinCapacity
<1>3. ASSUME NEW c \in Callers, Wait(c)
      PROVE  SemTypeOK' /\ SleepersMustWait' /\ HeldInv'
  <2>1. SemTypeOK'
        BY <1>3 DEF Wait, Places
  <2>2. SleepersMustWait'
        BY <1>3 DEF Wait, SleepersMustWait, CanTake
  <2>3. HeldInv'
        BY <1>3 DEF Wait, HeldInv, HeldWithinCapacity
  <2>4. QED BY <2>1, <2>2, <2>3
<1>4. ASSUME NEW c \in Callers, Expire(c)
      PROVE  SemTypeOK' /\ SleepersMustWait' /\ HeldInv'
  BY <1>4 DEF Expire, SleepersMustWait, CanTake, HeldInv, HeldWithinCapacity
<1>5. ASSUME NEW c \in Callers, Fire(c)
      PROVE  SemTypeOK' /\ SleepersMustWait' /\ HeldInv'
  <2>1. SemTypeOK'
        BY <1>5 DEF Fire, Broadcast, Places
  <2>2. SleepersMustWait'
        BY <1>5 DEF Fire, Broadcast, SleepersMustWait, CanTake
  <2>3. HeldInv'
        BY <1>5 DEF Fire, HeldInv, HeldWithinCapacity
  <2>4. QED BY <2>1, <2>2, <2>3
<1>6. ASSUME NEW w \in Metrics, Release(w)
      PROVE  SemTypeOK' /\ SleepersMustWait' /\ HeldInv'
  <2>1. held' \in Metrics /\ Within(held', held)
        BY <1>6, LessIsLess DEF Release
  <2>2. SemTypeOK'
        BY <1>6, <2>1 DEF Release, Broadcast, Places
  <2>3. \A d \in Callers : acquiring'[d] \notin {"arming", "waiting"}
        BY <1>6 DEF Release, Broadcast, Locked
  <2>4. HeldInv'
        BY <1>6, <2>1 DEF Release, HeldInv, HeldWithinCapacity, Within, Metrics
  <2>5. QED BY <2>2, <2>3, <2>4 DEF SleepersMustWait
<1>7. ASSUME Terminate
      PROVE  SemTypeOK' /\ SleepersMustWait' /\ HeldInv'
  <2>1. SemTypeOK'
        BY <1>7 DEF Terminate, Broadcast, Places, Zero, Metrics
  <2>2. \A d \in Callers : acquiring'[d] \notin {"arming", "waiting"}
        BY <1>7 DEF Terminate, Broadcast, Locked
  <2>3. HeldInv'
        BY <1>7 DEF Terminate, HeldInv, HeldWithinCapacity, Zero, Within, Metrics
  <2>4. QED BY <2>1, <2>2, <2>3 DEF SleepersMustWait
<1>8. CASE UNCHANGED semVars
  BY <1>8 DEF semVars, SleepersMustWait, CanTake, HeldInv, HeldWithinCapacity
<1>9. QED
  BY <1>1, <1>2, <1>3, <1>4, <1>5, <1>6, <1>7, <1>8 DEF SemNext

\* A caller waits in Acquire only while what it asks for does not fit: Release and
\* Terminate wake everyone who could go on, at whatever moment they come.
THEOREM NoLostWakeup == SemSpec => []WaitersMustWait
<1>1. SemInv => WaitersMustWait
      BY DEF SemInv, SleepersMustWait, WaitersMustWait
<1>2. QED BY SemInitially, SemStep, <1>1, PTL DEF SemSpec

\* The metric that is held never exceeds the capacity given to New.
THEOREM CapacityKept == SemSpec => []HeldWithinCapacity
<1>1. SemInv => HeldWithinCapacity
      BY DEF SemInv, HeldInv
<1>2. QED BY SemInitially, SemStep, <1>1, PTL DEF SemSpec
=============================================================================
