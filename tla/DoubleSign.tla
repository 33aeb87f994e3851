----------------------------- MODULE DoubleSign -----------------------------
(***************************************************************************)
(* emitter/doublesign: a validator must not emit while another instance of *)
(* it may be running, or it forks.  Before it emits, a node waits until    *)
(* its connections, its synchronization and what it has seen of its own    *)
(* validator from elsewhere are all older than a threshold.                *)
(*                                                                         *)
(* Times are integers; NotSynced is the zero time of P2PSynced.            *)
(***************************************************************************)
EXTENDS Integers, TLAPS

CONSTANT NotSynced

SyncStatus ==
    [peers : Nat, now : Int, startup : Int, lastConnected : Int, p2pSynced : Int \cup {NotSynced},
     becameValidator : Int, externalCreated : Int, externalDetected : Int]

Since(s, t) == s.now - t

\* maxWaitError.apply, of a reason that is younger than the threshold.
Apply(m, s, t, threshold, err) ==
    IF Since(s, t) < threshold /\ m.wait < threshold - Since(s, t)
    THEN [wait |-> threshold - Since(s, t), err |-> err]
    ELSE m

SyncedToEmit(s, threshold) ==
    LET m0 == [wait |-> 0, err |-> "nil"]
        m1 == Apply(m0, s, s.externalDetected, threshold, "self-events ongoing")
        m2 == Apply(m1, s, s.externalCreated, threshold, "self-events ongoing")
        m3 == Apply(m2, s, s.becameValidator, threshold, "just became validator")
        m4 == Apply(m3, s, s.lastConnected, threshold, "just connected")
        m5 == Apply(m4, s, s.p2pSynced, threshold, "just synced")
    IN  IF s.peers = 0 THEN [wait |-> 0, err |-> "no connections"]
        ELSE IF s.p2pSynced = NotSynced THEN [wait |-> 0, err |-> "sync ongoing"]
        ELSE m5

MayEmit(s, threshold) == SyncedToEmit(s, threshold).err = "nil"

DetectParallelInstance(s, threshold) ==
    /\ s.externalCreated >= s.startup
    /\ Since(s, s.externalCreated) < threshold

\* The same status, when some time has passed and nothing else has happened.
Later(s, d) == [s EXCEPT !.now = @ + d]
-----------------------------------------------------------------------------
Reasons(s) == {s.externalDetected, s.externalCreated, s.becameValidator, s.lastConnected, s.p2pSynced}

\* What the chain of apply computes: no error if and only if every reason is old enough,
\* and a wait that is enough for each of them and exact for one.
LEMMA WaitOfReasons ==
    ASSUME NEW s \in SyncStatus, NEW threshold \in Int, s.peers # 0, s.p2pSynced # NotSynced
    PROVE  LET m == SyncedToEmit(s, threshold)
           IN  /\ m.wait \in Nat
               /\ m.err = "nil" <=> m.wait = 0
               /\ \A t \in Reasons(s) : threshold - Since(s, t) <= m.wait
               /\ m.wait = 0 \/ \E t \in Reasons(s) : threshold - Since(s, t) = m.wait
<1> DEFINE m0 == [wait |-> 0, err |-> "nil"]
           m1 == Apply(m0, s, s.externalDetected, threshold, "self-events ongoing")
           m2 == Apply(m1, s, s.externalCreated, threshold, "self-events ongoing")
           m3 == Apply(m2, s, s.becameValidator, threshold, "just became validator")
           m4 == Apply(m3, s, s.lastConnected, threshold, "just connected")
           m5 == Apply(m4, s, s.p2pSynced, threshold, "just synced")
           Good(m, T) == /\ m.wait \in Nat
                         /\ m.err = "nil" <=> m.wait = 0
                         /\ \A t \in T : threshold - Since(s, t) <= m.wait
                         /\ m.wait = 0 \/ \E t \in T : threshold - Since(s, t) = m.wait
<1>1. /\ s.now \in Int /\ s.externalDetected \in Int /\ s.externalCreated \in Int
      /\ s.becameValidator \in Int /\ s.lastConnected \in Int /\ s.p2pSynced \in Int
  BY DEF SyncStatus
<1>2. ASSUME NEW m, NEW T \in SUBSET Int, NEW t \in Int, NEW err, err # "nil", Good(m, T)
      PROVE  Good(Apply(m, s, t, threshold, err), T \cup {t})
  <2>1. CASE Since(s, t) < threshold /\ m.wait < threshold - Since(s, t)
    <3>1. Apply(m, s, t, threshold, err) = [wait |-> threshold - Since(s, t), err |-> err]
      BY <2>1 DEF Apply
    <3>2. threshold - Since(s, t) \in Nat \ {0}
      BY <1>1, <2>1 DEF Since
    <3>3. \A u \in T : threshold - Since(s, u) <= threshold - Since(s, t)
      <4> TAKE u \in T
      <4>1. threshold - Since(s, u) <= m.wait /\ m.wait < threshold - Since(s, t) /\ m.wait \in Nat
        BY <1>2, <2>1
      <4> QED BY <1>1, <4>1, <3>2 DEF Since
    <3> QED BY <1>2, <3>1, <3>2, <3>3
  <2>2. CASE ~(Since(s, t) < threshold /\ m.wait < threshold - Since(s, t))
    <3>1. Apply(m, s, t, threshold, err) = m
      BY <2>2 DEF Apply
    <3>2. threshold - Since(s, t) <= m.wait
      BY <1>1, <1>2, <2>2 DEF Since
    <3> QED BY <1>2, <3>1, <3>2
  <2> QED BY <2>1, <2>2
<1>3. Good(m0, {})
  OBVIOUS
<1>4. SyncedToEmit(s, threshold) = m5
  BY DEF SyncedToEmit
<1> HIDE DEF Good, m0
<1>5. Good(m1, {} \cup {s.externalDetected})
  BY <1>1, <1>2, <1>3
<1> HIDE DEF m1
<1>6. Good(m2, {} \cup {s.externalDetected} \cup {s.externalCreated})
  BY <1>1, <1>2, <1>5
<1> HIDE DEF m2
<1>7. Good(m3, {} \cup {s.externalDetected} \cup {s.externalCreated} \cup {s.becameValidator})
  BY <1>1, <1>2, <1>6
<1> HIDE DEF m3
<1>8. Good(m4, {} \cup {s.externalDetected} \cup {s.externalCreated} \cup {s.becameValidator}
               \cup {s.lastConnected})
  BY <1>1, <1>2, <1>7
<1> HIDE DEF m4
<1>9. Good(m5, {} \cup {s.externalDetected} \cup {s.externalCreated} \cup {s.becameValidator}
               \cup {s.lastConnected} \cup {s.p2pSynced})
  BY <1>1, <1>2, <1>8
<1> HIDE DEF m5
<1>10. {} \cup {s.externalDetected} \cup {s.externalCreated} \cup {s.becameValidator}
          \cup {s.lastConnected} \cup {s.p2pSynced} = Reasons(s)
  BY DEF Reasons
<1> QED BY <1>4, <1>9, <1>10 DEF Good

(***************************************************************************)
(* SyncedToEmit "returns a minimum duration of how long node should wait": *)
(* if nothing happens, the node may emit after that time and not before.   *)
(***************************************************************************)
THEOREM WaitIsExact ==
    ASSUME NEW s \in SyncStatus, NEW threshold \in Int, NEW d \in Nat,
           s.peers # 0, s.p2pSynced # NotSynced
    PROVE  MayEmit(Later(s, d), threshold) <=> d >= SyncedToEmit(s, threshold).wait
<1> DEFINE u == Later(s, d)
           w == SyncedToEmit(s, threshold).wait
           v == SyncedToEmit(u, threshold).wait
<1>1. u \in SyncStatus /\ u.peers # 0 /\ u.p2pSynced # NotSynced /\ Reasons(u) = Reasons(s)
      /\ u.now = s.now + d /\ s.now \in Int
  BY DEF Later, SyncStatus, Reasons
<1>2. Reasons(s) \subseteq Int
  BY DEF Reasons, SyncStatus
<1>3. \A t \in Reasons(s) : threshold - Since(u, t) = threshold - Since(s, t) - d
  BY <1>1, <1>2 DEF Since
<1>4. /\ w \in Nat /\ \A t \in Reasons(s) : threshold - Since(s, t) <= w
      /\ w = 0 \/ \E t \in Reasons(s) : threshold - Since(s, t) = w
  BY WaitOfReasons
<1>5. /\ v \in Nat /\ \A t \in Reasons(s) : threshold - Since(u, t) <= v
      /\ v = 0 \/ \E t \in Reasons(s) : threshold - Since(u, t) = v
      /\ MayEmit(u, threshold) <=> v = 0
  BY <1>1, WaitOfReasons DEF MayEmit
<1>6. \A t \in Reasons(s) : threshold - Since(s, t) \in Int
  BY <1>1, <1>2 DEF Since
<1> HIDE DEF u, w, v
<1>7. v = 0 <=> d >= w
  BY <1>3, <1>4, <1>5, <1>6
<1> QED BY <1>5, <1>7 DEF u, w

(***************************************************************************)
(* A node that may emit does not detect a parallel instance, and one that  *)
(* detects it may not emit, with the same threshold.                       *)
(***************************************************************************)
THEOREM NoParallelWhenSynced ==
    ASSUME NEW s \in SyncStatus, NEW threshold \in Int, MayEmit(s, threshold)
    PROVE  ~DetectParallelInstance(s, threshold)
<1>1. s.peers # 0 /\ s.p2pSynced # NotSynced
  BY DEF MayEmit, SyncedToEmit
<1>2. threshold - Since(s, s.externalCreated) <= 0
  BY <1>1, WaitOfReasons DEF MayEmit, Reasons
<1>3. Since(s, s.externalCreated) \in Int
  BY DEF Since, SyncStatus
<1> QED BY <1>2, <1>3 DEF DetectParallelInstance
=============================================================================
