------------------------------ MODULE SyncJobs ------------------------------
(***************************************************************************)
(* Synchronisation runs: the sync_logs rows, the RQ jobs they stand for    *)
(* (app/workers/jobs.py), the closing of the rows whose job has died       *)
(* (app/workers/huerfanas.py, app/workers/worker.py) and the hourly tick   *)
(* of AgileCRM that queues one run per account                             *)
(* (app/integrations/agilecrm/scheduler.py).                               *)
(*                                                                         *)
(* The queues are those of the container worker-agilecrm: one worker,      *)
(* which prefers the queue of the tick to the queue of the runs.           *)
(* A tick comes Interval after the one before armed it, and a row counts   *)
(* as "in flight" for the same Interval (both are an hour unless           *)
(* configured): the age of a row is told by these two moments.             *)
(***************************************************************************)
EXTENDS Naturals, FiniteSets

CONSTANTS
    Tick,         \* the tick as an enqueuer
    Accounts,     \* enabled accounts
    Api,          \* requests of the API that trigger a run
    None,
    MaxRuns,      \* bound: sync_logs rows of a behaviour
    MaxFaults     \* bound: kills, lost requests and failures of Redis or MySQL

Runs == 1..MaxRuns                               \* in the order of their creation

ASSUME SyncAssumption ==
    /\ None \notin Runs \cup Accounts /\ Tick \notin Api
    /\ MaxRuns \in Nat /\ MaxFaults \in Nat

VARIABLES
    log,     \* the row of each run
    job,     \* the RQ job of each run
    ask,     \* what each enqueuer (a request, or the tick) is at
    worker,  \* the worker
    tick,    \* the RQ job of the tick
    faults   \* faults so far

vars == <<log, job, ask, worker, tick, faults>>

Open == {"pending", "running"}
Ended == {"success", "skipped", "failed"}

\* born dates coalesce(started_at, created_at): "now" is after the last tick was
\* armed, "before" is before that and at most an Interval ago, "old" is older.  It
\* is kept up to date for open rows only, which are those it is asked of.
Log == [status : Open \cup Ended \cup {"none"}, account : Accounts \cup {None},
        known : BOOLEAN,                            \* job_id is recorded
        born : {"now", "before", "old"}]

\* "held": started by a worker that died, whose last heartbeat is still recent;
\* "lost": the same, and the heartbeat is too old; "over": finished or failed.
Jobs == {"none", "queued", "running", "held", "lost", "over"}

Steps == {"down", "boot", "close", "idle", "took", "works", "wrote",
          "tick", "tickclose", "reads", "fills"}
Enqueuers == Api \cup {Tick}

Inactive == [step |-> "idle", run |-> None]
Waits == [step |-> "idle", run |-> None, seen |-> {}, todo |-> {}]

IsOpen(r) == log[r].status \in Open
Fault == faults < MaxFaults /\ faults' = faults + 1

-----------------------------------------------------------------------------
(* enqueue_sync_job: row, job, job_id; three commits of two stores         *)

\* Mutant of CreateRow: the row is born as old as its account.
CreateRow_Undated(e, a) ==
    \E r \in Runs :
        /\ log[r].status = "none" /\ \A q \in 1..(r - 1) : log[q].status # "none"
        /\ log' = [log EXCEPT ![r] = [status |-> "pending", account |-> a,
                                      known |-> FALSE, born |-> None]]
        /\ ask' = [ask EXCEPT ![e] = [step |-> "row", run |-> r]]

CreateRow(e, a) ==
    \E r \in Runs :
        /\ log[r].status = "none" /\ \A q \in 1..(r - 1) : log[q].status # "none"
        /\ log' = [log EXCEPT ![r] = [status |-> "pending", account |-> a,
                                      known |-> FALSE, born |-> "now"]]
        /\ ask' = [ask EXCEPT ![e] = [step |-> "row", run |-> r]]

PushJob(e) ==
    /\ ask[e].step = "row"
    /\ job' = [job EXCEPT ![ask[e].run] = "queued"]
    /\ ask' = [ask EXCEPT ![e].step = "job"]
    /\ UNCHANGED <<log, worker, tick, faults>>

NoteId(e) ==
    /\ ask[e].step = "job"
    /\ log' = [log EXCEPT ![ask[e].run].known = TRUE]
    /\ ask' = [ask EXCEPT ![e] = Inactive]
    /\ UNCHANGED <<job, worker, tick, faults>>

\* Redis or the database fails, or the request is killed, between two of them;
\* the tick catches the error and goes on with its next account.
EnqueueFails(e) ==
    /\ Fault
    /\ ask[e].step # "idle"
    /\ ask' = [ask EXCEPT ![e] = Inactive]
    /\ UNCHANGED <<log, job, worker, tick>>

\* _trigger and trigger_sync_all: no look at what is in flight.
Trigger(e, a) ==
    /\ e \in Api /\ ask[e].step = "idle"
    /\ CreateRow(e, a)
    /\ UNCHANGED <<job, worker, tick, faults>>

-----------------------------------------------------------------------------
(* The worker and run_sync_job                                             *)

\* RQ takes from the first queue that has a job: the tick's.
TakeTick ==
    /\ worker.step = "idle" /\ tick = "queued"
    /\ worker' = [worker EXCEPT !.step = "tick"]
    /\ tick' = "running"
    /\ UNCHANGED <<log, job, ask, faults>>

TakeRun(r) ==
    /\ worker.step = "idle" /\ tick # "queued" /\ job[r] = "queued"
    /\ worker' = [worker EXCEPT !.step = "took", !.run = r]
    /\ job' = [job EXCEPT ![r] = "running"]
    /\ UNCHANGED <<log, ask, tick, faults>>

Starts ==
    /\ worker.step = "took"
    /\ log' = [log EXCEPT ![worker.run].status = "running", ![worker.run].born = "now"]
    /\ worker' = [worker EXCEPT !.step = "works"]
    /\ UNCHANGED <<job, ask, tick, faults>>

\* The handler returned, was skipped or raised, and the row says so.
Ends ==
    /\ worker.step = "works"
    /\ \E status \in Ended : log' = [log EXCEPT ![worker.run].status = status]
    /\ worker' = [worker EXCEPT !.step = "wrote"]
    /\ UNCHANGED <<job, ask, tick, faults>>

Returns ==
    /\ worker.step = "wrote"
    /\ job' = [job EXCEPT ![worker.run] = "over"]
    /\ worker' = Waits
    /\ UNCHANGED <<log, ask, tick, faults>>

\* An error that escapes run_sync_job: the database is away, the time-out of
\* RQ comes outside the handler, or the handler left the session to be rolled
\* back and the last flush fails.  RQ files the job as failed.
Escapes ==
    /\ Fault
    /\ worker.step \in {"took", "works"}
    /\ job' = [job EXCEPT ![worker.run] = "over"]
    /\ worker' = Waits
    /\ UNCHANGED <<log, ask, tick>>

\* The container is killed; the chain of ticks ends with a tick that is killed.
Killed ==
    /\ Fault
    /\ worker.step # "down"
    /\ worker' = [Waits EXCEPT !.step = "down"]
    /\ job' = [r \in Runs |-> IF job[r] = "running" THEN "held" ELSE job[r]]
    /\ tick' = IF tick = "running" THEN "none" ELSE tick
    /\ ask' = [ask EXCEPT ![Tick] = Inactive]
    /\ UNCHANGED log

Restarts ==
    /\ worker.step = "down"
    /\ worker' = [worker EXCEPT !.step = "boot"]
    /\ UNCHANGED <<log, job, ask, tick, faults>>

\* LATIDO_MAX has passed since the last heartbeat of the worker that died.
HeartbeatAges(r) ==
    /\ job[r] = "held"
    /\ job' = [job EXCEPT ![r] = "lost"]
    /\ UNCHANGED <<log, ask, worker, tick, faults>>

-----------------------------------------------------------------------------
(* cerrar_huerfanas: read the open rows, judge each by its job, commit     *)

\* Mutant: the status is not looked at.
InQuery_AnyStatus(r) == log[r].status # "none" /\ log[r].known

InQuery(r) == IsOpen(r) /\ log[r].known

\* Mutant: only a started job is alive.
Alive_OnlyStarted(r) == job[r] \in {"running", "held"}

\* Mutant: started is alive, whatever its worker.
Alive_NoHeartbeat(r) == job[r] \in {"queued", "running", "held", "lost"}

\* ejecucion_viva
Alive(r) == job[r] \in {"queued", "running", "held"}

NextStep == IF worker.step \in {"boot", "close"} THEN "idle" ELSE "reads"

CloseReads ==
    /\ worker.step \in {"boot", "tick"}
    /\ worker' = [worker EXCEPT !.step = IF @ = "boot" THEN "close" ELSE "tickclose",
                                !.seen = {r \in Runs : InQuery(r)}]
    /\ UNCHANGED <<log, job, ask, tick, faults>>

CloseCommits ==
    /\ worker.step \in {"close", "tickclose"}
    /\ log' = [r \in Runs |-> IF r \in worker.seen /\ ~Alive(r)
                              THEN [log[r] EXCEPT !.status = "failed"] ELSE log[r]]
    /\ worker' = [worker EXCEPT !.step = NextStep, !.seen = {}]
    /\ UNCHANGED <<job, ask, tick, faults>>

\* Redis cannot be asked.  What was already judged dead is lost with the
\* session, or committed by the tick with the first row it creates.
CloseFails ==
    /\ Fault
    /\ worker.step \in {"close", "tickclose"}
    /\ \E judged \in SUBSET {r \in worker.seen : ~Alive(r)} :
           /\ worker.step = "close" => judged = {}
           /\ log' = [r \in Runs |-> IF r \in judged
                                     THEN [log[r] EXCEPT !.status = "failed"] ELSE log[r]]
    /\ worker' = [worker EXCEPT !.step = NextStep, !.seen = {}]
    /\ UNCHANGED <<job, ask, tick>>

-----------------------------------------------------------------------------
(* periodic_read_check                                                     *)

\* Mutant: a row counts for ever, as before October 2026.
Fresh_ForEver(r) == TRUE

\* The age at which inflight_vigente_desde stops counting a row.
Fresh(r) == log[r].born # "old"

InFlight(a) == \E r \in Runs : IsOpen(r) /\ log[r].account = a /\ Fresh(r)

TickReads ==
    /\ worker.step = "reads"
    /\ worker' = [worker EXCEPT !.step = "fills", !.todo = {a \in Accounts : ~InFlight(a)}]
    /\ UNCHANGED <<log, job, ask, tick, faults>>

TickQueues(a) ==
    /\ worker.step = "fills" /\ ask[Tick].step = "idle" /\ a \in worker.todo
    /\ CreateRow(Tick, a)
    /\ worker' = [worker EXCEPT !.todo = @ \ {a}]
    /\ UNCHANGED <<job, tick, faults>>

Spent == \A r \in Runs : log[r].status # "none"          \* bound: no row is left

Armed == [r \in Runs |-> IF IsOpen(r) /\ log[r].born = "now" THEN [log[r] EXCEPT !.born = "before"]
                         ELSE log[r]]

\* schedule_periodic_read at the end of the tick.
TickEnds ==
    /\ worker.step = "fills" /\ ask[Tick].step = "idle"
    /\ worker.todo = {} \/ Spent
    /\ worker' = Waits
    /\ tick' = "scheduled"
    /\ log' = Armed
    /\ UNCHANGED <<job, ask, faults>>

\* ... when Redis fails: the error is logged and the chain ends.
TickFailsToArm ==
    /\ Fault
    /\ worker.step = "fills" /\ ask[Tick].step = "idle"
    /\ worker.todo = {} \/ Spent
    /\ worker' = Waits
    /\ tick' = "none"
    /\ UNCHANGED <<log, job, ask>>

\* arm_periodic_jobs, when the API starts.
ApiBoots ==
    /\ tick = "none"
    /\ tick' = "scheduled"
    /\ log' = Armed
    /\ UNCHANGED <<job, ask, worker, faults>>

\* An Interval after it was armed the tick is moved to its queue.  That is time
\* enough for an idle worker to take what is queued.
TickIsDue ==
    /\ tick = "scheduled"
    /\ worker.step = "idle" => \A r \in Runs : job[r] # "queued"
    /\ tick' = "queued"
    /\ log' = [r \in Runs |-> IF IsOpen(r) /\ log[r].born = "before" THEN [log[r] EXCEPT !.born = "old"]
                              ELSE log[r]]
    /\ UNCHANGED <<job, ask, worker, faults>>

\* While the tick waits for the worker, younger rows reach the age too.
LogAges(r) ==
    /\ tick = "queued"
    /\ IsOpen(r) /\ log[r].born = "now"
    /\ log' = [log EXCEPT ![r].born = "old"]
    /\ UNCHANGED <<job, ask, worker, tick, faults>>

-----------------------------------------------------------------------------
Init ==
    /\ log = [r \in Runs |-> [status |-> "none", account |-> None,
                              known |-> FALSE, born |-> "now"]]
    /\ job = [r \in Runs |-> "none"]
    /\ ask = [e \in Enqueuers |-> Inactive]
    /\ worker = [Waits EXCEPT !.step = "boot"]
    /\ tick = "none"
    /\ faults = 0

Next ==
    \/ \E e \in Enqueuers : PushJob(e) \/ NoteId(e) \/ EnqueueFails(e)
    \/ \E e \in Api, a \in Accounts : Trigger(e, a)
    \/ \E a \in Accounts : TickQueues(a)
    \/ \E r \in Runs : TakeRun(r) \/ HeartbeatAges(r) \/ LogAges(r)
    \/ TakeTick \/ Starts \/ Ends \/ Returns \/ Escapes \/ Killed \/ Restarts
    \/ CloseReads \/ CloseCommits \/ CloseFails
    \/ TickReads \/ TickEnds \/ TickFailsToArm \/ ApiBoots \/ TickIsDue

Spec == Init /\ [][Next]_vars

\* The container restarts its worker, the worker goes on with what it has begun,
\* handlers return or time out, and time passes.  An hour lies between two ticks,
\* so that ticks do not keep the worker from its runs (SF).  Nothing is assumed of
\* requests or of the API being restarted.
Fairness ==
    /\ \A e \in Enqueuers : WF_vars(PushJob(e)) /\ WF_vars(NoteId(e))
    /\ \A a \in Accounts : WF_vars(TickQueues(a))
    /\ \A r \in Runs : SF_vars(TakeRun(r)) /\ WF_vars(HeartbeatAges(r))
    /\ WF_vars(TakeTick) /\ WF_vars(Starts) /\ WF_vars(Ends) /\ WF_vars(Returns)
    /\ WF_vars(Restarts) /\ WF_vars(CloseReads) /\ WF_vars(CloseCommits)
    /\ WF_vars(TickReads) /\ WF_vars(TickEnds) /\ WF_vars(TickIsDue)

LiveSpec == Spec /\ Fairness

-----------------------------------------------------------------------------
TypeOK ==
    /\ log \in [Runs -> Log]
    /\ job \in [Runs -> Jobs]
    /\ ask \in [Enqueuers -> [step : {"idle", "row", "job"}, run : Runs \cup {None}]]
    /\ worker \in [step : Steps, run : Runs \cup {None}, seen : SUBSET Runs,
                   todo : SUBSET Accounts]
    /\ tick \in {"none", "scheduled", "queued", "running"}
    /\ faults \in 0..MaxFaults

\* A run that waits in RQ is never closed as dead: its row still says pending when
\* the worker takes it, whatever was killed or restarted in between.
QueuedIsPending == \A r \in Runs : job[r] = "queued" => log[r].status = "pending"

\* What a run ended with stands: no closing of dead runs overwrites it, and no
\* run that was closed as dead starts after all.
EndStands ==
    [][\A r \in Runs : log[r].status \in Ended => log'[r].status = log[r].status]_vars

\* What keeps these two true: each row goes with its job, with what its enqueuer
\* is at and with what the worker is at.
RowsAgree ==
    \A r \in Runs :
        /\ job[r] = "none" => log[r].status \in {"none", "pending"} /\ ~log[r].known
        /\ log[r].status = "none" => job[r] = "none"
        /\ job[r] = "running" => worker.step \in {"took", "works", "wrote"} /\ worker.run = r
AsksAgree ==
    /\ \A e \in Enqueuers :
          /\ ask[e].step = "row" => /\ ask[e].run \in Runs
                                    /\ job[ask[e].run] = "none"
                                    /\ log[ask[e].run].status = "pending"
          /\ ask[e].step = "job" => ask[e].run \in Runs /\ job[ask[e].run] # "none"
    /\ \A d, e \in Enqueuers :
          d # e /\ ask[d].step = "row" /\ ask[e].step = "row" => ask[d].run # ask[e].run
WorkerAgrees ==
    /\ worker.step \in {"took", "works", "wrote"} =>
          /\ worker.run \in Runs
          /\ job[worker.run] = "running"
          /\ worker.step = "took" => log[worker.run].status = "pending"
          /\ worker.step = "works" => log[worker.run].status = "running"
          /\ worker.step = "wrote" => log[worker.run].status \in Ended
    /\ worker.step \in {"close", "tickclose"} =>
          \A r \in worker.seen : IsOpen(r) /\ log[r].known
SyncInv == QueuedIsPending /\ RowsAgree /\ AsksAgree /\ WorkerAgrees

\* A run whose job_id was recorded ends, however its worker or its handler died,
\* as long as the chain of ticks does not break.
OpenEnds ==
    \A r \in Runs : IsOpen(r) /\ log[r].known ~> ~IsOpen(r) \/ tick = "none"

\* No row keeps its account from being synchronised for ever, not even one that
\* has no job: the tick comes to count the account as free.
AccountIsFreed ==
    \A a \in Accounts : InFlight(a) ~> ~InFlight(a) \/ tick = "none"
=============================================================================
