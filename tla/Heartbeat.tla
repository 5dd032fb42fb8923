------------------------------ MODULE Heartbeat ------------------------------
(***************************************************************************)
(* The heartbeat of the workflow scheduler (schedule_tick, _tick_runner    *)
(* and arm of app/workflows/scheduler.py): a chain of delayed RQ jobs.     *)
(* Each tick, whatever becomes of it, ends by arming the next one; a Redis *)
(* key with a time to live keeps the worker and a starting API from arming *)
(* two.  Nothing else restarts a chain that is broken but a start of the   *)
(* API.                                                                    *)
(*                                                                         *)
(* Time is in seconds and relative: what is stored is what is left.  A job *)
(* that is due may be late by any time.                                    *)
(***************************************************************************)
EXTENDS Integers, Sequences

CONSTANTS
    Interval,   \* WORKFLOWS_SCHEDULER_TICK_SECONDS, or 30
    MaxStarts,  \* bound: starts of the API
    MaxFaults   \* bound: crashes of the worker, failures of Redis

ASSUME HeartbeatAssumption ==
    Interval \in Nat \ {0} /\ MaxStarts \in Nat /\ MaxFaults \in Nat

Armers == {"api", "worker"}

VARIABLES
    lock,     \* seconds left of workflows:scheduler:heartbeat, 0 when absent
    sched,    \* seconds left of each delayed tick, the oldest first
    queued,   \* ticks in the queue of the worker
    ticking,  \* is the worker in run_tick?
    arming,   \* where each process is in schedule_tick
    starts, faults

vars == <<lock, sched, queued, ticking, arming, starts, faults>>

Max(a, b) == IF a >= b THEN a ELSE b
\* Mutants of LockTtl: the key outlives the interval by its margin; the margin is
\* larger than the interval and no floor catches it.
LockTtl_Long == Interval + 5
LockTtl_NoFloor == Interval - 35
LockTtl == Max(Interval - 5, 10)

Init == /\ lock = 0 /\ sched = <<>> /\ queued = 0 /\ ticking = FALSE
        /\ arming = [a \in Armers |-> "no"]
        /\ starts = 0 /\ faults = 0

\* arm, once per start of the API.
StartApi ==
    /\ starts < MaxStarts /\ arming["api"] = "no"
    /\ arming' = [arming EXCEPT !["api"] = "lock"]
    /\ starts' = starts + 1
    /\ UNCHANGED <<lock, sched, queued, ticking, faults>>

\* schedule_tick: SET key NX EX ttl, or return ...
TakeLock(a) ==
    /\ arming[a] = "lock"
    /\ lock' = IF lock = 0 THEN LockTtl ELSE lock
    /\ arming' = [arming EXCEPT ![a] = IF lock = 0 THEN "enqueue" ELSE "no"]
    /\ UNCHANGED <<sched, queued, ticking, starts, faults>>

\* ... and then enqueue_in.
Enqueue(a) ==
    /\ arming[a] = "enqueue"
    /\ sched' = Append(sched, Interval)
    /\ arming' = [arming EXCEPT ![a] = "no"]
    /\ UNCHANGED <<lock, queued, ticking, starts, faults>>

\* Redis fails at the SET, or at enqueue_in; then the key is deleted, unless
\* that fails too.  schedule_tick swallows it all.
RedisFails(a) ==
    /\ faults < MaxFaults
    /\ arming[a] # "no"
    /\ lock' \in {lock, IF arming[a] = "enqueue" THEN 0 ELSE lock}
    /\ arming' = [arming EXCEPT ![a] = "no"]
    /\ faults' = faults + 1
    /\ UNCHANGED <<sched, queued, ticking, starts>>

\* The scheduler of RQ moves a due tick to the queue.
Due == /\ sched # <<>> /\ Head(sched) = 0
       /\ sched' = Tail(sched)
       /\ queued' = queued + 1
       /\ UNCHANGED <<lock, ticking, arming, starts, faults>>

\* _tick_runner begins on the worker, if it is free ...
BeginTick == /\ queued > 0 /\ ~ticking /\ arming["worker"] = "no"
             /\ queued' = queued - 1
             /\ ticking' = TRUE
             /\ UNCHANGED <<lock, sched, arming, starts, faults>>

\* Mutant of EndTick: an exception of run_tick skips the re-arming.
EndTick_NoFinally == /\ ticking
                     /\ ticking' = FALSE
                     /\ \E next \in {"no", "lock"} :
                            arming' = [arming EXCEPT !["worker"] = next]
                     /\ UNCHANGED <<lock, sched, queued, starts, faults>>

\* ... and run_tick returns or raises: either way schedule_tick is next.
EndTick == /\ ticking
           /\ ticking' = FALSE
           /\ arming' = [arming EXCEPT !["worker"] = "lock"]
           /\ UNCHANGED <<lock, sched, queued, starts, faults>>

\* The worker is killed in the middle of a tick or of its re-arming.
Crash == /\ faults < MaxFaults
         /\ ticking \/ arming["worker"] # "no"
         /\ ticking' = FALSE
         /\ arming' = [arming EXCEPT !["worker"] = "no"]
         /\ faults' = faults + 1
         /\ UNCHANGED <<lock, sched, queued, starts>>

\* A second passes.
Pass == /\ lock' = Max(lock - 1, 0)
        /\ sched' = [i \in 1..Len(sched) |-> Max(sched[i] - 1, 0)]
        /\ UNCHANGED <<queued, ticking, arming, starts, faults>>

Arm(a) == TakeLock(a) \/ Enqueue(a)

Next == \/ StartApi \/ Due \/ BeginTick \/ EndTick \/ Crash \/ Pass
        \/ \E a \in Armers : Arm(a) \/ RedisFails(a)

Spec == Init /\ [][Next]_vars

\* The scheduler and the worker run what is due, processes go on, time passes.
LiveSpec == /\ Spec
            /\ WF_vars(Due) /\ WF_vars(BeginTick) /\ WF_vars(EndTick) /\ WF_vars(Pass)
            /\ \A a \in Armers : WF_vars(Arm(a))

-----------------------------------------------------------------------------
(* Properties                                                              *)

\* The key, the delayed and queued ticks and the places in schedule_tick have
\* the shape Redis and the code give them; no time left is negative.
TypeOK ==
    /\ lock \in Nat /\ sched \in Seq(Nat) /\ queued \in Nat /\ ticking \in BOOLEAN
    /\ arming \in [Armers -> {"no", "lock", "enqueue"}]
    /\ starts \in Nat /\ faults \in Nat

\* A key that is held is backed by the tick it was taken for, which comes no
\* sooner than the key expires: whoever finds the key may safely return.
LockIsBacked ==
    faults = 0 /\ lock > 0 =>
        \/ \E a \in Armers : arming[a] = "enqueue"
        \/ \E i \in 1..Len(sched) : sched[i] >= lock

\* Once the API has started, the chain is never broken: there is a tick
\* delayed, queued, running, or being armed.
ChainAlive ==
    starts > 0 /\ faults = 0 =>
        \/ sched # <<>> \/ queued > 0 \/ ticking
        \/ \E a \in Armers : arming[a] # "no"

\* run_tick runs again and again, as the promise "every 30 s" needs.
BeatsForever == []<>(starts = 0 \/ faults > 0 \/ ticking)
=============================================================================
