-------------------------- MODULE Heartbeat_proofs --------------------------
(***************************************************************************)
(* The chain of ticks never breaks by itself, for any interval of at least *)
(* ten seconds and any number of starts of the API.                        *)
(***************************************************************************)
EXTENDS Heartbeat, TLAPS

\* The key is never held for longer than it is set for, and the worker arms the
\* next tick only after the present one; with the rest this is inductive.
OneThing == ticking => arming["worker"] = "no"
HeartbeatInv == TypeOK /\ OneThing /\ lock <= LockTtl /\ LockIsBacked /\ ChainAlive

LEMMA TtlBounds ==
    ASSUME Interval >= 10 PROVE LockTtl \in Nat \ {0} /\ LockTtl <= Interval
<1>1. Interval \in Nat BY HeartbeatAssumption
<1> QED BY <1>1 DEF LockTtl, Max

LEMMA HeartbeatTypeInit == Init => TypeOK
<1> SUFFICES ASSUME Init PROVE TypeOK OBVIOUS
<1>1. <<>> \in Seq(Nat) OBVIOUS
<1>2. arming \in [Armers -> {"no", "lock", "enqueue"}] BY DEF Init
<1> QED BY <1>1, <1>2 DEF Init, TypeOK

\* The types need no bound on the interval: the floor keeps every time to live positive.
LEMMA HeartbeatTypeNext == ASSUME TypeOK, [Next]_vars PROVE TypeOK'
<1>1. Interval \in Nat /\ LockTtl \in Nat BY HeartbeatAssumption DEF LockTtl, Max
<1> USE DEF TypeOK, Armers
<1>2. CASE UNCHANGED vars BY <1>2 DEF vars
<1>3. CASE StartApi BY <1>3 DEF StartApi
<1>4. ASSUME NEW a \in Armers, TakeLock(a) PROVE TypeOK' BY <1>1, <1>4 DEF TakeLock
<1>5. ASSUME NEW a \in Armers, Enqueue(a) PROVE TypeOK'
  <2>1. arming' \in [Armers -> {"no", "lock", "enqueue"}] BY <1>5 DEF Enqueue
  <2>2. sched' \in Seq(Nat) BY <1>1, <1>5 DEF Enqueue
  <2> QED BY <1>5, <2>1, <2>2 DEF Enqueue
<1>6. ASSUME NEW a \in Armers, RedisFails(a) PROVE TypeOK' BY <1>6 DEF RedisFails
<1>7. CASE Due BY <1>7 DEF Due
<1>8. CASE BeginTick BY <1>8 DEF BeginTick
<1>9. CASE EndTick BY <1>9 DEF EndTick
<1>10. CASE Crash
  <2>1. arming' \in [Armers -> {"no", "lock", "enqueue"}] BY <1>10 DEF Crash
  <2>2. faults' = faults + 1 /\ ticking' = FALSE /\ UNCHANGED <<lock, sched, queued, starts>>
    BY <1>10 DEF Crash
  <2>3. faults' \in Nat BY <2>2
  <2> QED BY <2>1, <2>2, <2>3
<1>11. CASE Pass
  <2>1. sched' \in Seq(Nat) BY <1>11 DEF Pass, Max
  <2> QED BY <1>11, <2>1 DEF Pass, Max
<1> QED
  BY <1>2, <1>3, <1>4, <1>5, <1>6, <1>7, <1>8, <1>9, <1>10, <1>11 DEF Next, Arm

\* The key, the ticks and the places in schedule_tick keep their shape, and no time
\* left is ever negative, whatever the interval.
THEOREM HeartbeatTypes == Spec => []TypeOK
BY HeartbeatTypeInit, HeartbeatTypeNext, PTL DEF Spec

LEMMA HeartbeatInit == Init => HeartbeatInv
<1> SUFFICES ASSUME Init PROVE HeartbeatInv OBVIOUS
<1>1. TypeOK BY HeartbeatTypeInit
<1>2. lock <= LockTtl
  <2>1. Interval \in Nat BY HeartbeatAssumption
  <2> QED BY <2>1 DEF Init, LockTtl, Max
<1>3. OneThing /\ LockIsBacked /\ ChainAlive
  BY DEF Init, OneThing, LockIsBacked, ChainAlive
<1> QED BY <1>1, <1>2, <1>3 DEF HeartbeatInv

LEMMA HeartbeatNext ==
    ASSUME Interval >= 10, HeartbeatInv, [Next]_vars PROVE HeartbeatInv'
<1>1. LockTtl \in Nat \ {0} /\ LockTtl <= Interval BY TtlBounds
<1>2. Interval \in Nat /\ TypeOK /\ OneThing /\ lock <= LockTtl /\ LockIsBacked /\ ChainAlive
  BY HeartbeatAssumption DEF HeartbeatInv
<1> USE DEF TypeOK, Armers, OneThing
<1>3. CASE UNCHANGED vars
  BY <1>2, <1>3 DEF vars, HeartbeatInv, LockIsBacked, ChainAlive
<1>4. CASE StartApi
  BY <1>2, <1>4 DEF StartApi, HeartbeatInv, LockIsBacked, ChainAlive
<1>5. ASSUME NEW a \in Armers, TakeLock(a) PROVE HeartbeatInv'
  <2>1. TypeOK' /\ OneThing' /\ lock' <= LockTtl BY <1>1, <1>2, <1>5 DEF TakeLock
  <2>2. CASE lock = 0
    <3>1. arming'[a] = "enqueue" BY <1>2, <1>5, <2>2 DEF TakeLock
    <3> QED BY <2>1, <3>1 DEF HeartbeatInv, LockIsBacked, ChainAlive
\* Whoever finds the key leaves the chain to the tick behind the key.
  <2>3. CASE lock # 0
    <3>1. lock' = lock /\ lock > 0 /\ sched' = sched /\ faults' = faults
      BY <1>2, <1>5, <2>3 DEF TakeLock
    <3>2. \A b \in Armers : arming[b] = "enqueue" => arming'[b] = "enqueue"
      BY <1>2, <1>5 DEF TakeLock
    <3>3. LockIsBacked' BY <1>2, <3>1, <3>2 DEF LockIsBacked
    <3>4. ChainAlive'
      <4> SUFFICES ASSUME faults' = 0
                   PROVE  sched' # <<>> \/ \E b \in Armers : arming'[b] # "no"
        BY DEF ChainAlive
      <4>1. CASE \E b \in Armers : arming[b] = "enqueue" BY <3>2, <4>1
      <4>2. CASE \E i \in 1..Len(sched) : sched[i] >= lock BY <3>1, <4>2
      <4> QED BY <1>2, <3>1, <4>1, <4>2 DEF LockIsBacked
    <3> QED BY <2>1, <3>3, <3>4 DEF HeartbeatInv
  <2> QED BY <2>2, <2>3
<1>6. ASSUME NEW a \in Armers, Enqueue(a) PROVE HeartbeatInv'
  <2>1. sched' = Append(sched, Interval) /\ lock' = lock BY <1>6 DEF Enqueue
  <2>2. TypeOK' /\ OneThing' BY <1>2, <1>6, <2>1 DEF Enqueue
  <2>3. Len(sched') = Len(sched) + 1 /\ sched'[Len(sched')] = Interval BY <1>2, <2>1
  <2>4. Len(sched') \in 1..Len(sched') /\ sched' # <<>> BY <1>2, <2>3
  <2>5. sched'[Len(sched')] >= lock' BY <1>1, <1>2, <2>1, <2>3
  <2> QED BY <1>1, <1>2, <2>1, <2>2, <2>4, <2>5 DEF HeartbeatInv, LockIsBacked, ChainAlive
<1>7. ASSUME NEW a \in Armers, RedisFails(a) PROVE HeartbeatInv'
  <2>1. TypeOK' /\ OneThing' /\ lock' <= LockTtl /\ faults' # 0 BY <1>1, <1>2, <1>7 DEF RedisFails
  <2> QED BY <2>1 DEF HeartbeatInv, LockIsBacked, ChainAlive
<1>8. CASE Due
  <2>1. /\ sched # <<>> /\ sched[1] = 0 /\ sched' = Tail(sched)
        /\ lock' = lock /\ arming' = arming /\ faults' = faults /\ queued' = queued + 1
    BY <1>2, <1>8 DEF Due
  <2>2. TypeOK' /\ OneThing' /\ queued' > 0 BY <1>2, <1>8, <2>1 DEF Due
  <2>3. ASSUME NEW i \in 1..Len(sched), sched[i] >= lock, lock > 0
        PROVE  i - 1 \in 1..Len(sched') /\ sched'[i - 1] >= lock'
    <3>1. i # 1 BY <1>2, <2>1, <2>3
    <3> QED BY <1>2, <2>1, <2>3, <3>1
  <2>4. LockIsBacked' BY <1>2, <2>1, <2>3 DEF LockIsBacked
  <2>5. ChainAlive' BY <2>2 DEF ChainAlive
  <2> QED BY <1>1, <1>2, <2>1, <2>2, <2>4, <2>5 DEF HeartbeatInv
<1>9. CASE BeginTick
  BY <1>1, <1>2, <1>9 DEF BeginTick, HeartbeatInv, LockIsBacked, ChainAlive
<1>10. CASE EndTick
  <2>1. TypeOK' /\ OneThing' /\ lock' = lock /\ sched' = sched /\ faults' = faults
    BY <1>2, <1>10 DEF EndTick
  <2>2. arming'["worker"] = "lock" /\ arming'["api"] = arming["api"]
    BY <1>2, <1>10 DEF EndTick
  <2>3. ChainAlive' BY <2>2 DEF ChainAlive
  <2>4. LockIsBacked'
    <3>1. arming["worker"] = "no" BY <1>2, <1>10 DEF EndTick
    <3>2. \A b \in Armers : arming[b] = "enqueue" => arming'[b] = "enqueue"
      BY <2>2, <3>1
    <3> QED BY <1>2, <2>1, <3>2 DEF LockIsBacked
  <2> QED BY <1>1, <1>2, <2>1, <2>3, <2>4 DEF HeartbeatInv
<1>11. CASE Crash
  <2>1. /\ ticking' = FALSE /\ faults' = faults + 1
        /\ arming' = [arming EXCEPT !["worker"] = "no"]
        /\ UNCHANGED <<lock, sched, queued, starts>>
    BY <1>11 DEF Crash
  <2>2. arming' \in [Armers -> {"no", "lock", "enqueue"}] BY <1>2, <2>1
  <2>3. faults' \in Nat /\ faults' # 0 BY <1>2, <2>1
  <2>4. TypeOK' /\ OneThing' /\ lock' <= LockTtl BY <1>2, <2>1, <2>2, <2>3
  <2> QED BY <2>3, <2>4 DEF HeartbeatInv, LockIsBacked, ChainAlive
<1>12. CASE Pass
  <2>1. /\ lock' = Max(lock - 1, 0) /\ Len(sched') = Len(sched)
        /\ \A i \in 1..Len(sched) : sched'[i] = Max(sched[i] - 1, 0)
        /\ UNCHANGED <<queued, ticking, arming, starts, faults>>
    BY <1>2, <1>12 DEF Pass
  <2>2. sched' \in Seq(Nat) BY <1>2, <1>12 DEF Pass, Max
  <2>3. TypeOK' /\ OneThing' /\ lock' <= LockTtl BY <1>1, <1>2, <2>1, <2>2 DEF Max
  <2>4. LockIsBacked'
    <3>1. lock' > 0 => lock > 0 /\ lock' = lock - 1 BY <1>2, <2>1 DEF Max
    <3>2. ASSUME NEW i \in 1..Len(sched), sched[i] >= lock, lock' > 0
          PROVE  i \in 1..Len(sched') /\ sched'[i] >= lock'
      BY <1>2, <2>1, <3>1, <3>2 DEF Max
    <3> QED BY <1>2, <2>1, <3>1, <3>2 DEF LockIsBacked
  <2>5. ChainAlive'
    <3>1. sched # <<>> => sched' # <<>> BY <1>2, <2>1, <2>2
    <3> QED BY <1>2, <2>1, <3>1 DEF ChainAlive
  <2> QED BY <2>3, <2>4, <2>5 DEF HeartbeatInv
<1> QED BY <1>3, <1>4, <1>5, <1>6, <1>7, <1>8, <1>9, <1>10, <1>11, <1>12 DEF Next, Arm

\* With an interval of ten seconds or more, whoever finds the key taken may leave
\* the chain to the tick behind it, and as long as no process dies and Redis
\* answers, a chain once started always has a tick to go on with.
THEOREM ChainNeverBreaks ==
    ASSUME Interval >= 10 PROVE Spec => [](LockIsBacked /\ ChainAlive)
<1>1. HeartbeatInv /\ [Next]_vars => HeartbeatInv' BY HeartbeatNext
<1>2. HeartbeatInv => LockIsBacked /\ ChainAlive BY DEF HeartbeatInv
<1> QED BY <1>1, <1>2, HeartbeatInit, PTL DEF Spec
=============================================================================
