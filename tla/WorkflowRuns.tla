---------------------------- MODULE WorkflowRuns ----------------------------
(***************************************************************************)
(* The run engine of the workflows (app/workflows/engine.py) under the     *)
(* processes that drive it: the jobs of the RQ workers (scheduler.run_tick *)
(* and dispatcher.process_event_inline) and the requests of the API        *)
(* (cancel a run, add a contact by hand, pause and activate, and the       *)
(* inline fallback of dispatch_event).                                     *)
(*                                                                         *)
(* Every process works in one database transaction at a time.  It reads    *)
(* the snapshot its first query saw, keeps its own writes to itself, holds *)
(* a row lock on whatever it has flushed, and publishes at COMMIT only the *)
(* columns it changed.  An email, unlike a row, leaves at once.            *)
(*                                                                         *)
(* Time: a wake_at or timeout_at lies ahead ("later") until Clock passes;  *)
(* Clock makes everything that lay ahead due.                              *)
(***************************************************************************)
EXTENDS WorkflowGraph, FiniteSets

CONSTANTS
    Workers,       \* the RQ workers on the workflows:* queues
    Api,           \* request threads of the API
    InlineEvents,  \* can an API thread run an event itself (enqueue failed)?
    Runs,          \* the run ids a behaviour may use
    Contacts,
    Reentry,       \* Workflow.allow_reentry
    TriggerEvents, \* the events whose type is Workflow.trigger_type
    CancelEvents,  \* Workflow.cancellation_events_json
    CronTrigger,   \* is the trigger cron.recurring?
    MaxSteps,      \* advance_run(max_steps=30)
    MaxArrivals,   \* bound: events, requests and cron slots of a behaviour
    MaxFaults      \* bound: transactions lost to a crash

ASSUME RunsAssumption ==
    /\ None \notin Runs \cup Contacts
    /\ InlineEvents \in BOOLEAN /\ Reentry \in BOOLEAN /\ CronTrigger \in BOOLEAN
    /\ TriggerEvents \subseteq Events /\ CancelEvents \subseteq Events
    /\ MaxSteps \in Nat \ {0} /\ MaxArrivals \in Nat /\ MaxFaults \in Nat

Procs == Workers \cup Api

VARIABLES
    run,       \* committed rows of workflow_runs
    wait,      \* committed rows of workflow_event_waits, <<run, step, writer>>
    hist,      \* committed rows of workflow_run_history, <<run, step, status>>
    count,     \* committed counters of the workflow row
    active,    \* committed: is Workflow.status ACTIVE (or else PAUSED)?
    sess,      \* the open transaction of each process, or None
    sent,      \* how often step s of run r put an email on the wire
    expired,   \* the event waits whose timeout_at has passed
    slot,      \* Redis: is the cron slot of the moment still unclaimed?
    arrivals,  \* events, requests and cron slots so far
    faults     \* crashes so far

store == <<run, wait, hist, count>>
vars == <<run, wait, hist, count, active, sess, sent, expired, slot, arrivals, faults>>

Terminal == {"completed", "cancelled", "failed"}
Live == {"running", "waiting", "waiting_for_event", "cancelling"}
Counters == {"entered", "completed", "cancelled", "failed"}
Cols == {"contact", "state", "step", "wake", "key"}
WaitIds == Runs \X Steps \X Procs
HistoryRows == Runs \X Steps \X {"ok", "skipped", "deferred", "failed"}

\* A row of workflow_runs.  The key "slot" stands for "workflow:contact",
\* "own" for "workflow:contact:run" and "archived" for "archived:run"; the
\* last two are unique by the run id in them.
Row == [contact : Contacts \cup {None},
        state   : Live \cup Terminal \cup {"none"},
        step    : Steps \cup {None},
        wake    : {"never", "due", "later"},
        key     : {"none", "slot", "own", "archived"}]

NoRow == [contact |-> None, state |-> "none", step |-> None,
          wake |-> "never", key |-> "none"]

Phases == {"due", "timeouts", "cancelling", "cron",   \* run_tick
           "rules", "resume", "start",                \* process_event_inline
           "manual", "cancel", "end"}

\* An open transaction and the position of the job that runs in it.
Session == [phase  : Phases,
            view   : [Runs -> Row],           \* its snapshot and own writes
            dirty  : [Runs -> SUBSET Cols],   \* columns it has flushed
            added  : SUBSET WaitIds,
            gone   : SUBSET WaitIds,
            purged : SUBSET Runs,             \* DELETE of all waits of the run
            logged : SUBSET HistoryRows,
            count  : [Counters -> Nat],
            bumped : SUBSET Counters,
            runs   : SUBSET Runs,             \* still to treat in this phase
            waits  : SUBSET WaitIds,
            admit  : SUBSET Contacts,
            cur    : Runs \cup {None},        \* the run advance_run is at
            fuel   : 0..MaxSteps]             \* max_steps - steps_executed

ASSUME NoneAssumption == None \notin Session

-----------------------------------------------------------------------------
(* Transactions                                                            *)

\* A new transaction: the snapshot its first query takes, nothing flushed.
NewSession(phase, runs, waits, admit) ==
    [phase |-> phase, view |-> run, dirty |-> [r \in Runs |-> {}],
     added |-> {}, gone |-> {}, purged |-> {}, logged |-> {}, count |-> count, bumped |-> {},
     runs |-> runs, waits |-> waits, admit |-> admit,
     cur |-> None, fuel |-> 0]

Open(p) == sess[p] # None

\* No other transaction holds the lock of run r, of the workflow row.
FreeRun(p, r) == \A q \in Procs \ {p} : Open(q) => sess[q].dirty[r] = {}
FreeWorkflow(p) == \A q \in Procs \ {p} : Open(q) => sess[q].bumped = {}

\* Flush row r: only the columns whose value changed are written.
Write(s, r, row) ==
    [s EXCEPT !.view[r] = row,
              !.dirty[r] = @ \cup {c \in Cols : row[c] # s.view[r][c]}]

Bump(s, c) == [s EXCEPT !.count[c] = @ + 1, !.bumped = @ \cup {c}]

\* Mutant of Log: only trouble is worth a line of history.
Log_TroubleOnly(s, r, status) ==
    IF status = "ok" THEN s
    ELSE [s EXCEPT !.logged = @ \cup {<<r, s.view[r].step, status>>}]

Log(s, r, status) ==
    [s EXCEPT !.logged = @ \cup {<<r, s.view[r].step, status>>}]

\* COMMIT of p's transaction s: the flushed columns, and nothing else.
Publish(p, s) ==
    LET Pick(r, c, mine, theirs) == IF c \in s.dirty[r] THEN mine ELSE theirs IN
    /\ run' = [r \in Runs |->
           [contact |-> Pick(r, "contact", s.view[r].contact, run[r].contact),
            state   |-> Pick(r, "state", s.view[r].state, run[r].state),
            step    |-> Pick(r, "step", s.view[r].step, run[r].step),
            wake    |-> Pick(r, "wake", s.view[r].wake, run[r].wake),
            key     |-> Pick(r, "key", s.view[r].key, run[r].key)]]
    /\ wait' = {w \in wait \ s.gone : w[1] \notin s.purged} \cup s.added
    /\ hist' = hist \cup s.logged
    /\ count' = [c \in Counters |-> IF c \in s.bumped THEN s.count[c] ELSE count[c]]
    /\ sess' = [sess EXCEPT ![p] = None]

-----------------------------------------------------------------------------
(* The engine: what its functions do to the transaction they are given     *)

\* Mutants of Finalize: it leaves the event waits; it leaves the key; it counts
\* every run as completed.
Finalize_KeepsWaits(s, r, state) ==
    Bump(Write(s, r, [s.view[r] EXCEPT !.state = state, !.wake = "never",
                                       !.key = "archived"]), state)
Finalize_KeepsKey(s, r, state) ==
    LET t == Write(s, r, [s.view[r] EXCEPT !.state = state, !.wake = "never"]) IN
    Bump([t EXCEPT !.purged = @ \cup {r}, !.added = {w \in @ : w[1] # r}], state)
Finalize_Miscounts(s, r, state) ==
    LET t == Write(s, r, [s.view[r] EXCEPT !.state = state, !.wake = "never",
                                           !.key = "archived"]) IN
    Bump([t EXCEPT !.purged = @ \cup {r}, !.added = {w \in @ : w[1] # r}], "completed")

\* _finalize: terminal state, slot released, counter up, event waits deleted.
Finalize(s, r, state) ==
    LET t == Write(s, r, [s.view[r] EXCEPT !.state = state, !.wake = "never",
                                           !.key = "archived"]) IN
    Bump([t EXCEPT !.purged = @ \cup {r}, !.added = {w \in @ : w[1] # r}], state)

\* cancel_run: a running run is only marked; any other live run is closed.
CancelRun(s, r) ==
    LET v == s.view[r] IN
    IF v.state \in Terminal THEN s
    ELSE IF v.state = "running" THEN Write(s, r, [v EXCEPT !.state = "cancelling"])
    ELSE Finalize(s, r, "cancelled")

\* Does cancel_run close run r at once, and so count it in the workflow row?
Closes(s, r) == s.view[r].state \notin Terminal \cup {"running"}

\* Mutants of ResumeWait: the wait is not deleted; the run is not set running.
ResumeWait_KeepsWait(s, w, branch) ==
    LET r == w[1] IN
    IF s.view[r].state # "waiting_for_event" THEN s
    ELSE [Write(s, r, [s.view[r] EXCEPT !.step = NextStep(w[2], branch),
                                        !.state = "running", !.wake = "due"])
              EXCEPT !.cur = r, !.fuel = MaxSteps]
ResumeWait_StaysParked(s, w, branch) ==
    LET r == w[1]
        t == [s EXCEPT !.gone = @ \cup {w}, !.added = @ \ {w}]
    IN  [Write(t, r, [s.view[r] EXCEPT !.step = NextStep(w[2], branch)])
             EXCEPT !.cur = r, !.fuel = MaxSteps]

\* resume_run_from_event_wait, up to its call of advance_run.
ResumeWait(s, w, branch) ==
    LET r == w[1]
        t == [s EXCEPT !.gone = @ \cup {w}, !.added = @ \ {w}]
    IN  IF s.view[r].state # "waiting_for_event" THEN t
        ELSE [Write(t, r, [s.view[r] EXCEPT !.step = NextStep(w[2], branch),
                                            !.state = "running", !.wake = "due"])
                  EXCEPT !.cur = r, !.fuel = MaxSteps]

\* The row that start_run and start_manual_run insert, all of its columns.
Insert(s, r, c, step, key) ==
    [Bump(s, "entered") EXCEPT
        !.view[r] = [contact |-> c, state |-> "running", step |-> step,
                     wake |-> "due", key |-> key],
        !.dirty[r] = Cols, !.cur = r, !.fuel = MaxSteps]

\* The end of an advance_run call, and one more step of it.
Return(s) == [s EXCEPT !.cur = None]
Further(s) == [s EXCEPT !.fuel = @ - 1]

\* Mutant of Follow: the run is not moved to the next step.
Follow_Stays(s, r, label) ==
    IF NextStep(s.view[r].step, label) = None
    THEN Return(Finalize(s, r, "completed")) ELSE Further(s)

\* Mutant of Follow: the end of the graph leaves the run as it is.
Follow_LeavesOpen(s, r, label) ==
    LET next == NextStep(s.view[r].step, label) IN
    IF next = None THEN Return(s)
    ELSE Further(Write(s, r, [s.view[r] EXCEPT !.step = next]))

\* Go on to the next step along a branch, or complete at the end of the graph.
Follow(s, r, label) ==
    LET next == NextStep(s.view[r].step, label)
        t == Write(s, r, [s.view[r] EXCEPT !.step = next])
    IN  IF next = None THEN Return(Finalize(t, r, "completed")) ELSE Further(t)

-----------------------------------------------------------------------------
(* advance_run: one action per turn of its loop                            *)

Halted(v) == \/ v.state \in Terminal \cup {"waiting_for_event"}
             \/ v.state = "waiting" /\ v.wake = "later"

\* The loop is left: the run is not to move now, or max_steps are spent.
AdvanceReturns(p) ==
    LET s == sess[p] IN
    /\ s.cur # None
    /\ s.fuel = 0 \/ Halted(s.view[s.cur])
    /\ sess' = [sess EXCEPT ![p] = Return(s)]
    /\ UNCHANGED <<store, active, sent, expired, slot, arrivals, faults>>

\* A turn of the loop may start, on a run that nobody else has locked.
Turning(p) == /\ sess[p].cur # None /\ sess[p].fuel > 0
              /\ ~Halted(sess[p].view[sess[p].cur])
              /\ FreeRun(p, sess[p].cur)

\* Mutants of AdvanceCloses: whatever is closed counts as completed; the state
\* the run is in is taken for its outcome.
AdvanceCloses_Completes(p) ==
    LET s == sess[p]
        v == s.view[s.cur]
    IN
    /\ Turning(p)
    /\ v.state = "cancelling" \/ v.step = None
    /\ FreeWorkflow(p)
    /\ sess' = [sess EXCEPT ![p] = Return(Finalize(s, s.cur, "completed"))]
    /\ UNCHANGED <<store, active, sent, expired, slot, arrivals, faults>>
AdvanceCloses_KeepsState(p) ==
    LET s == sess[p]
        v == s.view[s.cur]
    IN
    /\ Turning(p)
    /\ v.state = "cancelling" \/ v.step = None
    /\ FreeWorkflow(p)
    /\ sess' = [sess EXCEPT ![p] = Return(Finalize(s, s.cur, v.state))]
    /\ UNCHANGED <<store, active, sent, expired, slot, arrivals, faults>>

\* A run marked for cancellation, or one at the end of the graph, is closed.
AdvanceCloses(p) ==
    LET s == sess[p]
        v == s.view[s.cur]
    IN
    /\ Turning(p)
    /\ v.state = "cancelling" \/ v.step = None
    /\ FreeWorkflow(p)
    /\ sess' = [sess EXCEPT ![p] = Return(Finalize(s, s.cur,
                    IF v.state = "cancelling" THEN "cancelled" ELSE "completed"))]
    /\ UNCHANGED <<store, active, sent, expired, slot, arrivals, faults>>

\* The trigger step is an anchor: it is logged and left by its default edge.
AdvancePassesTrigger(p) ==
    LET s == sess[p]
        v == s.view[s.cur]
    IN
    /\ Turning(p)
    /\ v.state # "cancelling" /\ v.step # None /\ StepType[v.step] = "trigger"
    /\ NextStep(v.step, "default") = None => FreeWorkflow(p)
    /\ sess' = [sess EXCEPT ![p] = Follow(Log(s, s.cur, "ok"), s.cur, "default")]
    /\ UNCHANGED <<store, active, sent, expired, slot, arrivals, faults>>

\* What becomes of the transaction when handler answer a is processed.
Applied(p, s, r, a) ==
    LET v == s.view[r]
        ok == Log(s, r, "ok")
        listening == [v EXCEPT !.state = "waiting_for_event", !.wake = "later",
                          !.step = IF NextStep(v.step, "matched") # None
                                   THEN NextStep(v.step, "matched") ELSE v.step]
        sleeping(wake) == [v EXCEPT !.state = "waiting", !.wake = wake,
                                    !.step = NextStep(v.step, "default")]
    IN
    CASE a = "raise"    -> {Return(Finalize(Log(s, r, "failed"), r, "failed"))}
      [] a = "deferred" -> {Return(Write(Log(s, r, "deferred"), r,
                               [v EXCEPT !.state = "waiting", !.wake = "later"]))}
      [] a = "exit"     -> {Return(Finalize(ok, r, "completed"))}
      [] a = "sleep"    -> {Return(Write(ok, r, sleeping(wake))) :
                               wake \in IF StepType[v.step] = "wait_until"
                                        THEN {"due", "later"} ELSE {"later"}}
      [] a = "listen"   -> {Return([Write(ok, r, listening) EXCEPT
                                !.added = @ \cup {<<r, v.step, p>>}])}
      [] a = "skipped"  -> {Follow(Log(s, r, "skipped"), r, "default")}
      [] a \in Labels   -> {Follow(ok, r, a)}

\* Does processing answer a finalise the run?
Finalizes(step, a) ==
    \/ a \in {"raise", "exit"}
    \/ a = "skipped" /\ NextStep(step, "default") = None
    \/ a \in Labels /\ NextStep(step, a) = None

\* The handler of the step runs, and the run follows its answer.  An email
\* step that answers "default" has put its email on the wire.
AdvanceHandles(p) ==
    LET s == sess[p]
        r == s.cur
        step == s.view[r].step
    IN
    /\ Turning(p)
    /\ s.view[r].state # "cancelling" /\ step # None /\ StepType[step] # "trigger"
    /\ \E a \in AnswersOf(step) \ {"failed"} :
          /\ Finalizes(step, a) => FreeWorkflow(p)
          /\ \E t \in Applied(p, s, r, a) : sess' = [sess EXCEPT ![p] = t]
          /\ sent' = IF StepType[step] = "send_email" /\ a = "default"
                     THEN [sent EXCEPT ![<<r, step>>] = @ + 1] ELSE sent
          /\ expired' = IF a = "listen" THEN expired \ {<<r, step, p>>} ELSE expired
    /\ UNCHANGED <<store, active, slot, arrivals, faults>>

\* A handler answers status="failed": the row is logged and flushed, then the
\* call _finalize(..., error_summary=...) raises TypeError.  run_tick swallows
\* it in its first three phases; its cron phase rolls everything back and goes
\* on in a new transaction; anywhere else the job or request is lost.
AdvanceFails(p) ==
    LET s == sess[p]
        r == s.cur
        step == s.view[r].step
    IN
    /\ Turning(p)
    /\ s.view[r].state # "cancelling" /\ step # None
    /\ "failed" \in AnswersOf(step)
    /\ sess' = [sess EXCEPT ![p] =
           IF s.phase \in {"due", "timeouts", "cancelling"}
           THEN Return(Log(s, r, "failed"))
           ELSE IF s.phase = "cron" THEN NewSession("end", {}, {}, {})
           ELSE None]
    /\ UNCHANGED <<store, active, sent, expired, slot, arrivals, faults>>

Advance(p) == \/ AdvanceReturns(p) \/ AdvanceCloses(p) \/ AdvancePassesTrigger(p)
              \/ AdvanceHandles(p) \/ AdvanceFails(p)

-----------------------------------------------------------------------------
(* Jobs and requests: how a transaction is opened                          *)

Begin(p, s) ==
    /\ ~Open(p)
    /\ sess' = [sess EXCEPT ![p] = s]

\* run_tick selects the waiting runs and the event waits that are due.
BeginTick(p) ==
    /\ p \in Workers
    /\ Begin(p, NewSession("due",
           {r \in Runs : run[r].state = "waiting" /\ run[r].wake = "due"},
           wait \cap expired,
           IF CronTrigger /\ active THEN Contacts ELSE {}))
    /\ UNCHANGED <<store, active, sent, expired, slot, arrivals, faults>>

\* process_event_inline for event e of contact c: the runs a cancellation event
\* hits, the waits that listen to e, and c itself when the trigger matches
\* (pass: what _trigger_matches makes of the trigger's own filters).
BeginEvent(p, e, c, pass) ==
    /\ p \in Workers \/ InlineEvents
    /\ arrivals < MaxArrivals
    /\ Begin(p, NewSession("rules",
           {r \in Runs : /\ e \in CancelEvents /\ run[r].contact = c
                         /\ run[r].state \in Live \ {"cancelling"}},
           {w \in wait : Awaits[w[2]] = e /\ run[w[1]].contact = c},
           IF pass /\ active /\ ~CronTrigger /\ e \in TriggerEvents
           THEN {c} ELSE {}))
    /\ arrivals' = arrivals + 1
    /\ UNCHANGED <<store, active, sent, expired, slot, faults>>

\* manual_add_contact: refused (an exception, nothing stored) unless the
\* workflow is active and the trigger has a successor.
BeginManual(p, c) ==
    /\ p \in Api
    /\ arrivals < MaxArrivals
    /\ active /\ NextStep(Root, "default") # None
    /\ Begin(p, NewSession("manual", {}, {}, {c}))
    /\ arrivals' = arrivals + 1
    /\ UNCHANGED <<store, active, sent, expired, slot, faults>>

\* cancel_run_route: the request reads the run ...
BeginCancel(p, r) ==
    /\ p \in Api
    /\ arrivals < MaxArrivals
    /\ run[r].state # "none"
    /\ Begin(p, NewSession("cancel", {r}, {}, {}))
    /\ arrivals' = arrivals + 1
    /\ UNCHANGED <<store, active, sent, expired, slot, faults>>

\* ... and closes or marks it as it read it, in one flush and commit.
CancelCommits(p) ==
    LET s == sess[p] IN
    /\ s.phase = "cancel"
    /\ \E r \in s.runs :
          /\ FreeRun(p, r)
          /\ Closes(s, r) => FreeWorkflow(p)
          /\ Publish(p, CancelRun(s, r))
    /\ UNCHANGED <<active, sent, expired, slot, arrivals, faults>>

\* pause_workflow, activate: one committed column.
SetActive(on) ==
    /\ active # on /\ Api # {}
    /\ arrivals < MaxArrivals
    /\ active' = on
    /\ arrivals' = arrivals + 1
    /\ UNCHANGED <<store, sess, sent, expired, slot, faults>>

-----------------------------------------------------------------------------
(* Jobs: one action per item of a phase                                    *)

Idle(p, phases) == sess[p].cur = None /\ sess[p].phase \in phases

\* Phases 1 and 2.5 of run_tick: advance_run on each selected run.
TakeRun(p) ==
    /\ Idle(p, {"due", "cancelling"})
    /\ \E r \in sess[p].runs :
           sess' = [sess EXCEPT ![p].runs = @ \ {r}, ![p].cur = r,
                                ![p].fuel = MaxSteps]
    /\ UNCHANGED <<store, active, sent, expired, slot, arrivals, faults>>

\* Phase 2 of run_tick (timeout), step 2 of an event (matched; a wait whose
\* condition the event does not meet is passed over).
TakeWait(p) ==
    LET s == sess[p]
        branch == IF s.phase = "timeouts" THEN "timeout" ELSE "matched"
    IN
    /\ Idle(p, {"timeouts", "resume"})
    /\ \E w \in s.waits :
          LET t == [s EXCEPT !.waits = @ \ {w}] IN
          \/ s.phase = "resume" /\ sess' = [sess EXCEPT ![p] = t]
          \/ FreeRun(p, w[1]) /\ sess' = [sess EXCEPT ![p] = ResumeWait(t, w, branch)]
    /\ UNCHANGED <<store, active, sent, expired, slot, arrivals, faults>>

\* Step 1 of an event: cancel_for_contact, run by run.
TakeRule(p) ==
    LET s == sess[p] IN
    /\ Idle(p, {"rules"})
    /\ \E r \in s.runs :
          /\ FreeRun(p, r)
          /\ Closes(s, r) => FreeWorkflow(p)
          /\ sess' = [sess EXCEPT ![p] = CancelRun([s EXCEPT !.runs = @ \ {r}], r)]
    /\ UNCHANGED <<store, active, sent, expired, slot, arrivals, faults>>

\* The unique index on active_dedup_key, as an INSERT of p sees it: the
\* committed entries as p itself has changed them.  An entry that another
\* transaction has changed makes the INSERT wait.
HoldsSlot(row, c) == row.key = "slot" /\ row.contact = c
Sees(p, r) == IF "key" \in sess[p].dirty[r] THEN sess[p].view[r] ELSE run[r]
\* Mutants of SlotTaken: start_run does not look for a live run of the contact; it
\* looks with a SELECT, in its snapshot, where the code relies on the unique index.
SlotTaken_Never(p, c) == FALSE
SlotTaken_InSnapshot(p, c) == \E r \in Runs : HoldsSlot(sess[p].view[r], c)

SlotTaken(p, c) == \E r \in Runs : HoldsSlot(Sees(p, r), c)
SlotInDoubt(p, c) ==
    \E q \in Procs \ {p}, r \in Runs :
        /\ Open(q) /\ "key" \in sess[q].dirty[r]
        /\ HoldsSlot(run[r], c) \/ HoldsSlot(sess[q].view[r], c)

\* A fresh uuid4: never the id of a run, not even of one that was rolled back
\* after it had put an email on the wire.
Unused(r) == /\ run[r].state = "none"
             /\ \A q \in Procs : Open(q) => sess[q].dirty[r] = {}
             /\ \A s \in Steps : sent[<<r, s>>] = 0

\* start_run for the next contact (step 3 of an event, phase 3 of run_tick):
\* without re-entry a taken slot blocks it, and the SAVEPOINT leaves no trace.
TakeContact(p) ==
    LET s == sess[p] IN
    /\ Idle(p, {"start", "cron"})
    /\ \E c \in s.admit :
          LET t == [s EXCEPT !.admit = @ \ {c}] IN
          /\ ~Reentry => ~SlotInDoubt(p, c)
          /\ \/ /\ ~Reentry /\ SlotTaken(p, c)
                /\ sess' = [sess EXCEPT ![p] = t]
             \/ /\ Reentry \/ ~SlotTaken(p, c)
                /\ FreeWorkflow(p)
                /\ \E r \in Runs :
                      /\ Unused(r)
                      /\ sess' = [sess EXCEPT ![p] = Insert(t, r, c, Root,
                                     IF Reentry THEN "own" ELSE "slot")]
    /\ UNCHANGED <<store, active, sent, expired, slot, arrivals, faults>>

\* start_manual_run: the trigger is logged as passed and its successor is the
\* first step; the key is the run's own, whatever Reentry says.
TakeManual(p) ==
    LET s == sess[p] IN
    /\ Idle(p, {"manual"})
    /\ FreeWorkflow(p)
    /\ \E c \in s.admit, r \in Runs :
          /\ Unused(r)
          /\ sess' = [sess EXCEPT ![p] =
                [Insert([s EXCEPT !.admit = {}], r, c, NextStep(Root, "default"), "own")
                    EXCEPT !.logged = @ \cup {<<r, Root, "ok">>}]]
    /\ UNCHANGED <<store, active, sent, expired, slot, arrivals, faults>>

\* A phase with nothing left to take gives way to the next one.
Done(p, phase) == Idle(p, {phase}) /\ sess[p].runs = {} /\ sess[p].waits = {}

\* Mutant of TurnTick: no phase 2.5, cancelling runs are not swept.
TurnTick_NoSweep(p) ==
    LET s == sess[p] IN
    /\ \/ /\ Idle(p, {"due"}) /\ s.runs = {}
          /\ sess' = [sess EXCEPT ![p].phase = "timeouts"]
       \/ /\ Idle(p, {"timeouts"}) /\ s.waits = {}
          /\ sess' = [sess EXCEPT ![p].phase = "cancelling"]
    /\ UNCHANGED <<store, active, sent, expired, slot, arrivals, faults>>

TurnTick(p) ==
    LET s == sess[p] IN
    /\ \/ /\ Idle(p, {"due"}) /\ s.runs = {}
          /\ sess' = [sess EXCEPT ![p].phase = "timeouts"]
       \/ /\ Idle(p, {"timeouts"}) /\ s.waits = {}
          /\ sess' = [sess EXCEPT ![p].phase = "cancelling",
                 ![p].runs = {r \in Runs : s.view[r].state = "cancelling"}]
    /\ UNCHANGED <<store, active, sent, expired, slot, arrivals, faults>>

\* Phase 3 begins by claiming the cron slot in Redis; a slot already claimed
\* means no contact enters this time.
TurnCron(p) ==
    LET s == sess[p]
        claims == s.admit # {} /\ slot /\ arrivals < MaxArrivals
    IN
    /\ Done(p, "cancelling")
    /\ sess' = [sess EXCEPT ![p].phase = "cron",
                            ![p].admit = IF claims THEN @ ELSE {}]
    /\ slot' = (slot /\ ~claims)
    /\ arrivals' = arrivals + (IF claims THEN 1 ELSE 0)
    /\ UNCHANGED <<store, active, sent, expired, faults>>

TurnEvent(p) ==
    LET s == sess[p] IN
    /\ \/ /\ Idle(p, {"rules"}) /\ s.runs = {}
          /\ sess' = [sess EXCEPT ![p].phase = "resume",
                 ![p].waits = {w \in @ : w \notin expired /\ w[1] \notin s.purged}]
       \/ /\ Done(p, "resume")
          /\ sess' = [sess EXCEPT ![p].phase = "start"]
    /\ UNCHANGED <<store, active, sent, expired, slot, arrivals, faults>>

\* The job or request is through: COMMIT.
Commits(p) ==
    LET s == sess[p] IN
    /\ s.cur = None
    /\ s.phase = "end" \/ (s.phase \in {"cron", "start", "manual"} /\ s.admit = {})
    /\ Publish(p, s)
    /\ UNCHANGED <<active, sent, expired, slot, arrivals, faults>>

Work(p) == /\ Open(p)
           /\ \/ Advance(p) \/ TakeRun(p) \/ TakeWait(p) \/ TakeRule(p)
              \/ TakeContact(p) \/ TakeManual(p) \/ TurnTick(p) \/ TurnCron(p)
              \/ TurnEvent(p) \/ CancelCommits(p) \/ Commits(p)

-----------------------------------------------------------------------------
(* Environment                                                             *)

\* The process dies, or its statement fails on a lock: ROLLBACK.
Crash(p) ==
    /\ Open(p)
    /\ faults < MaxFaults
    /\ sess' = [sess EXCEPT ![p] = None]
    /\ faults' = faults + 1
    /\ UNCHANGED <<store, active, sent, expired, slot, arrivals>>

Rung(row) == [row EXCEPT !.wake = IF @ = "later" THEN "due" ELSE @]

\* Time passes every date now ahead, and a new cron slot begins.
Clock ==
    /\ run' = [r \in Runs |-> Rung(run[r])]
    /\ sess' = [p \in Procs |-> IF Open(p)
                   THEN [sess[p] EXCEPT !.view = [r \in Runs |-> Rung(@[r])]]
                   ELSE None]
    /\ expired' = wait \cup UNION {sess[p].added : p \in {q \in Procs : Open(q)}}
    /\ slot' = TRUE
    /\ UNCHANGED <<wait, hist, count, active, sent, arrivals, faults>>

Init ==
    /\ run = [r \in Runs |-> NoRow]
    /\ wait = {} /\ hist = {}
    /\ count = [c \in Counters |-> 0]
    /\ active = TRUE
    /\ sess = [p \in Procs |-> None]
    /\ sent = [x \in Runs \X Steps |-> 0]
    /\ expired = {} /\ slot = TRUE
    /\ arrivals = 0 /\ faults = 0

Next ==
    \/ Clock
    \/ \E on \in BOOLEAN : SetActive(on)
    \/ \E p \in Procs :
          \/ Work(p) \/ Crash(p) \/ BeginTick(p)
          \/ \E c \in Contacts : BeginManual(p, c)
          \/ \E r \in Runs : BeginCancel(p, r)
          \/ \E e \in Events, c \in Contacts, pass \in BOOLEAN : BeginEvent(p, e, c, pass)

\* A job once begun is worked off, the heartbeat brings tick after tick, and
\* time goes on.  Nothing obliges an event or a request to come.
Fairness == /\ \A p \in Procs : WF_vars(Work(p))
            /\ \A p \in Workers : WF_vars(BeginTick(p))
            /\ WF_vars(Clock)

Spec == Init /\ [][Next]_vars
LiveSpec == Spec /\ Fairness

-----------------------------------------------------------------------------
(* Properties                                                              *)

\* Every variable has the shape the tables and the sessions give it.
TypeOK ==
    /\ run \in [Runs -> Row]
    /\ wait \subseteq WaitIds /\ hist \subseteq HistoryRows
    /\ count \in [Counters -> Nat]
    /\ active \in BOOLEAN
    /\ sess \in [Procs -> Session \cup {None}]
    /\ sent \in [Runs \X Steps -> Nat]
    /\ expired \subseteq WaitIds /\ slot \in BOOLEAN
    /\ arrivals \in Nat /\ faults \in Nat

\* The reentry guard: two runs of a contact never hold its slot together, in
\* whatever order the transactions that insert and archive keys commit.
SlotUnique ==
    \A c \in Contacts, r1, r2 \in Runs :
        HoldsSlot(run[r1], c) /\ HoldsSlot(run[r2], c) => r1 = r2

\* What keeps SlotUnique true while transactions overlap.  An open transaction
\* that has flushed a run into a slot inserted that run whole, sees no other run
\* in the slot, and no other open transaction has flushed one into it.
Claims(p, r, c) == "key" \in sess[p].dirty[r] /\ HoldsSlot(sess[p].view[r], c)
ClaimsAreInserts ==
    \A p \in Procs, r \in Runs : Open(p) =>
        LET s == sess[p] IN
        /\ "contact" \in s.dirty[r] => "key" \in s.dirty[r]
        /\ "key" \in s.dirty[r] /\ s.view[r].key = "slot" => "contact" \in s.dirty[r]
ClaimsAreAlone ==
    \A p \in Procs, r1, r2 \in Runs, c \in Contacts :
        Open(p) /\ Claims(p, r1, c) /\ HoldsSlot(Sees(p, r2), c) => r1 = r2
ClaimsExclude ==
    \A p, q \in Procs, r1, r2 \in Runs, c \in Contacts :
        Open(p) /\ Open(q) /\ p # q => ~(Claims(p, r1, c) /\ Claims(q, r2, c))
SlotInv == SlotUnique /\ ClaimsAreInserts /\ ClaimsAreAlone /\ ClaimsExclude

\* A run that has ended holds no slot and listens to no event, so its contact
\* may enter again and no event wakes it.
EndedRunsLetGo ==
    \A r \in Runs : run[r].state \in Terminal =>
        run[r].key = "archived" /\ \A w \in wait : w[1] # r

\* What keeps EndedRunsLetGo true while transactions overlap.  A row is flushed by
\* one open transaction at a time; a transaction that has ended a run has archived
\* its key and deleted its waits; a wait or a key is never flushed without the state.
LockOfOneRun ==
    \A p, q \in Procs, r \in Runs : Open(p) /\ Open(q) /\ p # q =>
        sess[p].dirty[r] = {} \/ sess[q].dirty[r] = {}
Fits(s, r) ==
    LET v == s.view[r]
        d == s.dirty[r]
    IN  /\ v.state \in Terminal => v.key = "archived"
        /\ "state" \in d => v.state # "none"
        /\ "state" \in d /\ v.state \in Terminal =>
              r \in s.purged /\ \A w \in s.added : w[1] # r
        /\ "key" \in d => "state" \in d
        /\ \A w \in s.added : w[1] = r => "state" \in d
\* A key once archived stays so: a flush brings none back, a snapshot sees none early.
KeyAgrees(s, r) ==
    IF "key" \in s.dirty[r] THEN s.view[r].key = "archived" \/ run[r].key # "archived"
    ELSE s.view[r].key = "archived" => run[r].key = "archived"
SessionsFit ==
    \A p \in Procs, r \in Runs : Open(p) => Fits(sess[p], r) /\ KeyAgrees(sess[p], r)
UnbornAreBlank == \A r \in Runs : run[r].state = "none" => run[r].key # "archived"
\* While transactions overlap, no COMMIT leaves an ended run its key or a wait: the
\* row of a run is locked from its first flush on, and _finalize and cancel_run flush
\* the state, the archived key and the DELETE of the waits in one transaction.
EndInv == EndedRunsLetGo /\ LockOfOneRun /\ SessionsFit /\ UnbornAreBlank

\* A run waits for an event exactly when one event wait points back at it:
\* neither an orphan wait that would make a run jump, nor a deaf run.
ListensIffParked ==
    \A r \in Runs :
        Cardinality({w \in wait : w[1] = r}) =
            IF run[r].state = "waiting_for_event" THEN 1 ELSE 0

\* No step of a run sends its email twice (the workflow has no cycle).
EmailOnce == \A x \in Runs \X Steps : sent[x] <= 1

\* Every email on the wire has its row in the history of the run, or is of a
\* transaction still open: the history logs every action executed.
EmailsAreLogged ==
    \A r \in Runs, s \in Steps : sent[<<r, s>>] > 0 =>
        \/ <<r, s, "ok">> \in hist
        \/ \E p \in Procs : Open(p) /\ <<r, s, "ok">> \in sess[p].logged

\* A run that has ended stays as it ended.
EndIsFinal ==
    [][\A r \in Runs : run[r].state \in Terminal => run'[r].state = run[r].state]_vars

\* A run marked for cancellation is closed as cancelled and nothing else.
CancellingOnlyCloses ==
    [][\A r \in Runs : run[r].state = "cancelling" =>
          run'[r].state \in {"cancelling", "cancelled"}]_vars

\* A step that fails ends its run as failed.
FailedStepFailsRun ==
    \A x \in hist : x[3] = "failed" => run[x[1]].state = "failed"

\* A run that waits, for a date or an event, moves on in the end.
WaitsEnd ==
    \A r \in Runs : run[r].state \in {"waiting", "waiting_for_event"}
                        ~> run[r].state \in Terminal

\* A run marked for cancellation is closed in the end.
CancellingEnds ==
    \A r \in Runs : run[r].state = "cancelling" ~> run[r].state = "cancelled"

\* A run whose wake_at has come is woken: it ends or gets a later date.
DueRunsWake ==
    \A r \in Runs : (run[r].state \in Live /\ run[r].wake = "due")
                        ~> (run[r].wake # "due")

-----------------------------------------------------------------------------
(* Refinement: one job at a time, the engine keeps the promise of          *)
(* RunLifecycle                                                            *)

LifeOf(row) == IF row.state \in Terminal \cup {"none"} THEN row.state ELSE "live"
OccupantOf(c) == IF \E r \in Runs : HoldsSlot(run[r], c)
                 THEN CHOOSE r \in Runs : HoldsSlot(run[r], c) ELSE None

Promise == INSTANCE RunLifecycle WITH
               life <- [r \in Runs |-> LifeOf(run[r])],
               occupant <- [c \in Contacts |-> OccupantOf(c)],
               tally <- count

\* The engine implements the life cycle it promises: a run enters once, ends
\* once, is counted once, and never loses its contact's place while it lives.
KeepsPromise == Promise!Spec
=============================================================================
