# A verification development of the CRM and its ERP

This directory models, in TLA+, the parts of the repository where a mistake is
hardest to see in a test, because several processes, dates, queues or a remote
ledger meet in them:

* the **workflow engine**, which walks contacts through marketing workflows, is
  driven by several processes at once, sleeps for days, is cancelled and resumed
  from outside and sends emails that no rollback takes back;
* the **trigger on conditions**, which has to fire for a contact that comes into a
  segment, once, and for nobody who is there already;
* the **sweep of scheduled emails**, beside the requests that cancel and postpone;
* the **synchronisation runs**, each of which is a row in MySQL and a job in Redis;
* the **invoicing in FACTUSOL**, a ledger behind HTTP without transactions.

The models are translated from `src/backend/app/`; TLC checks them on small
instances and TLAPS proves theorems about them for every value of the constants.

    cd tla
    tlc -config Deployed.cfg MCWorkflowRuns.tla      # any of the runs below
    tlc -config Invoicing.cfg Invoicing.tla
    tlapm WorkflowRuns_proofs.tla                    # any module with proofs

Contents: 1 inventory, 2 the modules, 3 the runs, 4 the proofs, 5 findings,
6 what the models leave out, 7 not modelled, and plan. `PROJECT.json` names,
definition by definition, the lines of the source each one stands for, and lists
the hazards of the code with the properties that watch them.

## 1. Inventory

The repository is a CRM with an ERP on its back: a FastAPI service over MySQL
(InnoDB), RQ workers over Redis, and a React client. `src/docker-compose.prod.yml`
starts one API service and several workers. How many workers serve a queue matters
to every model: *one*, `worker-workflows` (lines 316-355), serves
`workflows:dispatch`, `workflows:execute` and `workflows:scheduler`; one,
`worker-sync`, the sweeps of email; one, `worker-agilecrm`, `agilecrm:periodic_read`,
`sync_contacts` and `purge_quota`, in this order; one `factusol:writes`. Only the
queues of Gmail have two.

| part | state it keeps | operations | what is hard | what makes it correct |
|---|---|---|---|---|
| **Run engine** `workflows/engine.py` | `workflow_runs`, `workflow_event_waits`, `workflow_run_history`, counters of `workflows` | `start_run`, `start_manual_run`, `advance_run`, `cancel_run`, `cancel_for_contact`, `resume_run_from_event_wait` | handlers with seven kinds of answer; several callers in overlapping transactions; emails leave before the commit | one run per contact and workflow; a run ends once, is counted once, lets go of slot and waits; no email twice |
| **Dispatcher** `workflows/dispatcher.py` | none | `dispatch_event`, `process_event_inline` | runs in a worker, or in the request when Redis is down; one commit for cancel, resume and start | an event does all three or none |
| **Tick** `workflows/scheduler.py` | Redis: heartbeat key, cron slots; `workflow_trigger_membership` | `run_tick`, `schedule_tick`, `arm` | plain SELECT of what is due; one commit for everything; rollback in the middle; re-arms itself | due runs wake; waits time out; cancelled runs are swept; the chain of ticks never breaks |
| **Step handlers** `workflows/steps.py` | contacts, tags, tasks, emails | one per step type | partial effects, deferral of emails over a cap | answers the engine can follow |
| **Workflow API** `api/workflows.py` | workflow status, definition | activate, pause, archive, edit, add contact, cancel run | edits of a definition with live runs on it | no run left on a step that is gone |
| **Trigger membership** `scheduler.py:278-371` | `workflow_trigger_membership` | diff of a segment at each tick, seeding at activation | a rollback between seeing and starting | fires once for each time a contact comes in |
| **Scheduled email** `email_scheduled_sweep.py`, `api/emails_scheduled.py` | pending messages | sweep, cancel, edit | state not read again before the send; crash between send and commit | a cancelled message is not sent, a message is sent once |
| **Sync jobs** `workers/jobs.py`, `workers/huerfanas.py`, `integrations/*/scheduler.py` | `sync_logs`, RQ registries | enqueue, run, periodic read, close orphans | row and job live in two systems; worker dies | every log reaches an end; one sync of a resource at a time |
| **ERP order states** `erp/state_machine/` | five status columns, audit trail | `apply_transition` | guards across domains, no lock | only declared arcs, evidence kept |
| **FactuSOL invoicing** `integrations/factusol/service.py` | remote ledger over HTTP, order status | `emit_invoice`, compensation, auto-link | no transaction; number is max+1; failure half way | one invoice per order, no half invoice left |
| **Cancelling an order** `erp/order_cancel.py`, `erp/order_documents.py` | `cancelled_at`, links to documents, snapshot for the way back | cancel, autocancel, delete documents, unlink, restore | decides on a survey of the ledger, acts later in a job | no document deleted that was invoiced; what is restored is free |
| **Offers** `erp/ofertas.py` | number counters, documents | `siguiente_numero`, ... | numbering under a row lock | numbers unique |
| **Brevo, AgileCRM, WooCommerce, Gmail, Calendar** `integrations/` | ledgers of what was pushed, cursors | paged imports, webhooks, pushes | provider I/O | ledger matches the provider |
| **Bank, documents, tracking sheets** `erp/bank`, `erp/seguimiento.py`, ... | rows | parsing, scoring, shaping | data, not protocol | left to tests |
| **Contacts, segments, forms, assignment** `services/`, `api/routes.py` | rows | CRUD and rules in one request | data | left to tests |
| **Assistant, backups, storage, audit, client** | files, logs | I/O | - | left to tests |

How they interact: requests and integrations call `dispatch_event`, which
enqueues a job; the worker's job cancels, resumes and starts runs; the tick
(a delayed RQ job that enqueues its own successor) wakes runs and times out
waits; requests cancel runs and add contacts directly. All of them meet in the
tables of workflows, through transactions of MySQL's default isolation level,
REPEATABLE READ: consistent reads come from a snapshot, `UPDATE` and `DELETE`
act on the latest row under its lock, and a unique index sees uncommitted
entries and waits for them. That is the level at which the models work.

Elsewhere a request and a job meet in rows that neither locks: a request commits
the columns it changed, by what it read before (`emails_scheduled.py`,
`order_cancel.py`), while a job has selected the same rows for something else.
SQLAlchemy writes changed columns only, and an `UPDATE` of a row that is gone
changes nothing; both facts carry some of the properties below. Redis and FACTUSOL
are not part of any transaction: what is enqueued or written there stays when the
database rolls back.

## 2. The modules

### WorkflowGraph — what a run walks through

A definition is data, so its steps, types and labelled edges are CONSTANTS.
`Answers` gives what the handler of each type may return (`steps.py`), and
`NextStep` is `next_step_for_edge`: the labelled edge, else the default edge,
else the end. `Troubles` selects the unhappy answers an instance exercises.
Two simplifications: all step types that only edit data are one, `action`; the
cases of a `switch` are one label, `case` (the answer of `classify_lead` that is
skipped with branch `omitido` is one of them).

### WorkflowRuns — the engine and its processes

| TLA+ | code |
|---|---|
| `run[r]` with `state`, `step`, `wake`, `key` | row of `workflow_runs`; `key` is the form of `active_dedup_key`: `slot` is `workflow:contact`, `own` has the run id in it, `archived` is `archived:<run>` |
| `wait`, `hist`, `count`, `active` | `workflow_event_waits`, `workflow_run_history`, `total_*`, `Workflow.status` |
| `sess[p]` | the SQLAlchemy session of process `p` and the place of its job: snapshot with own writes (`view`), flushed columns (`dirty`), inserted and deleted waits, history rows, and what is still to be treated |
| `Publish` | `session.commit()`: writes the flushed columns only, so a column nobody here changed keeps what another transaction wrote |
| `FreeRun`, `FreeWorkflow`, `SlotInDoubt` | InnoDB: an UPDATE waits for the row lock, an INSERT for an uncommitted entry of the unique index |
| `BeginTick`, `TakeRun`, `TakeWait`, `TurnTick`, `TurnCron`, `Commits` | `run_tick`, phase by phase, item by item |
| `BeginEvent`, `TakeRule`, `TurnEvent`, `TakeContact` | `process_event_inline`: cancellation events, waits, triggers |
| `AdvanceReturns/Closes/PassesTrigger/Handles/Fails` | one turn of the loop of `advance_run`, by what it does |
| `Finalize`, `CancelRun`, `ResumeWait`, `Insert`, `Follow`, `Applied`, `Log` | `_finalize`, `cancel_run`, `resume_run_from_event_wait`, the row of `start_run`, "go on along a branch", the handling of each answer, `_record_history` |
| `TakeManual`, `BeginCancel`, `CancelCommits`, `SetActive` | requests of `api/workflows.py` |
| `Crash` | the process dies, or MySQL fails its statement (lock timeout, deadlock): ROLLBACK |
| `Clock` | every date ahead comes due and a new cron slot begins |
| `sent` | what reached Gmail; no rollback touches it |

Time is `never`, `due` or `later`: the code only ever compares a date with now.
A run that a tick wakes stays `waiting` while its steps run (the code changes the
state only when it parks or ends); a run resumed from an event, or just started,
is `running`. Both facts matter for cancellation.

What a failing step does is modelled as it is, not as it is meant (see Findings):
`AdvanceFails`.

### RunLifecycle — the promise

Three variables, one action: a job admits some fresh runs and ends some living
ones with an outcome each, the counters move by exactly that, and the place a
run holds for its contact is never taken from it while it lives. `WorkflowRuns`
instantiates it as `Promise` with a refinement mapping; `KeepsPromise` says that
every commit of the engine is such a job or a stutter.

### OneWorker — what the deployment adds

What holds of the engine depends on who shares the database with it. `OneWorker`
says who does in production, and states, over the variables of `WorkflowRuns` and
without actions of its own, what is then true at every moment, open transactions
included:

* `OneWorker`: one worker on the `workflows:*` queues, any number of request
  threads beside it, and no event run inside a request;
* `OneInv`: each run has the event waits its state asks for (`Match`), in the tables
  and in what every open transaction is about to make of them (`Sound`); what the
  worker still has to treat is as it selected it (`WorkerFits`), a request only
  cancels what it has read or adds a run of its own (`ApiFits`), and a job at work on
  a run is not at work on one that a request may mark (`MarkedIsQuiet`,
  `ReadIsQuiet`);
* `MailInv(Rank)`, for a workflow whose edges all climb in `Rank`, so that it has no
  cycle: whatever a run may do next, by its row, by the job at work on it or by the
  wait that may wake it, comes after every email it has sent (`Ahead`);
* `AloneInv`, for a process that is `Alone` in the database: the tables it is about to
  commit follow from those committed by the life cycle (`Told`), and it counts exactly
  what it admits and ends (`Counted`).

### Heartbeat — the chain of ticks

`schedule_tick`, `_tick_runner`, `arm`: a Redis key with a time to live, a list
of delayed jobs, the worker, starts of the API, in seconds. `EndTick` is the
`finally`: it leads to `schedule_tick` whether `run_tick` returned or raised.

### TriggerMembership — contacts that come into a segment

A *pair* is a workflow and a contact.

| TLA+ | code |
|---|---|
| `meets`, `ComesIn`, `Leaves` | who `build_filter` selects: an edit of a contact, or of the filter of an active workflow, moves pairs |
| `rows` | `workflow_trigger_memberships`, unique by pair |
| `TickBegins`, `Enters`, `TickCommits` | `_evaluate_matches_conditions`: `entered` and `departed` of one snapshot; row, scope, `start_run`, `advance_run` per contact; the one commit of `run_tick` |
| `Collides`, `StepFails`, `Killed`, `RolledBack` | the unique index refuses a row that an activation inserted meanwhile; an exception of a step; the process dies: all end the tick, and its emails are out |
| `BeginActivate`, `EndActivate`, `Pause` | `activate_workflow` with `_seed_matches_conditions_baseline` (there is no guard against activating an active workflow), `pause_workflow` |
| `owed`, `fired`, `mailed` | history: has the pair come in since it fired; runs; first emails |

`owed` is what the docstring promises put into a variable: `"yes"` after coming in,
`"no"` after firing, `"based"` after an activation that found the contact inside,
`"raced"` where that activation counted on a row that a tick was about to delete or
had deleted since the request read it. `BaselineHolds` shows that the last one is
the only way round the baseline.

### ScheduledMail — the sweep and the requests beside it

| TLA+ | code |
|---|---|
| `row[m]` with `status`, `thread`, `due` | row of `email_messages`: `scheduled_status`, thread, `scheduled_for <= now` |
| `Compose`, `BeginReply`/`EndReply` | `persist_scheduled_message`: a new conversation opens a *sentinel* thread, named here after its message; a reply joins its parent's |
| `BeginChange`/`EndChange` | `cancel_scheduled`, `update_scheduled` with a new date: `_ensure_pending_owned`, later the COMMIT of one column |
| `SweepBegins`, `Sends`, `GmailRaises`, `Settles`, `Fails` | `scheduled_send_sweep` and `_send_one`: selected once, sent one by one without a second look, committed one by one |
| `PurgeReads`, `Purges` | `_purge_orphan_pending_threads`, on the first snapshot if no commit came between |
| `Crash`, `Interrupted` | the worker dies; the job's timeout or a lost connection after the send |
| `wire` | how often Gmail was given the message; no rollback touches it |

### SyncJobs — a row, a job, and what becomes of the two

| TLA+ | code |
|---|---|
| `log[r]`, `job[r]` | `sync_logs` row (`known`: `job_id` recorded; `born`: its age against the interval of the tick) and RQ job |
| `Trigger`, `CreateRow`, `PushJob`, `NoteId`, `EnqueueFails` | `enqueue_sync_job`: three commits in two stores, each of which may be the last |
| `TakeTick`, `TakeRun`, `Starts`, `Ends`, `Returns`, `Escapes` | the worker and `run_sync_job`; an error outside its handler leaves the row running |
| `CloseReads`, `CloseCommits`, `CloseFails`, `Alive` | `cerrar_huerfanas` and `ejecucion_viva`, at a start of the worker and in the tick |
| `TickReads`, `TickQueues`, `TickEnds`, `TickIsDue`, `ApiBoots` | `periodic_read_check`, its successor, `arm_periodic_jobs` |
| `Killed`, `Restarts`, `HeartbeatAges` | the container dies with what it was at; RQ still says *started* until `LATIDO_MAX` has passed |

Time is told by ticks: a row is younger than the last tick (`now`), than the one
before (`before`), or `old`, the age at which `inflight_vigente_desde` drops it.

### Invoicing — a ledger without transactions

| TLA+ | code |
|---|---|
| `order[o]` | row of `erp_orders`: number of the invoice, who set it (`how`), `cancelled_at`, delivery note, what a cancellation unlinked (`saved`) |
| `inv[n]`, `doc[o]` | F_FAC with its lines F_LFA; the header F_PCL (web order) or F_ALB (manual order) and its lines, which a deletion that stops half way leaves apart |
| `AskEmit`, `AskConvert`, `Take`, `FirstStep` | the requests that enqueue, and the jobs of `integrations/factusol/jobs.py` |
| `Check`, `PickNumber`, `WriteHeader`, `WriteLine`, `UndoLines`, `UndoHeader`, `Mark`, `Commit` | `emit_invoice` and `convert_document`, call by call; a call that fails may have been carried out |
| `Look`/`EndLook` | `factusol_status`, which links what it finds |
| `Cancel`/`EndCancel`, `Autocancel`/`EndAutocancel`, `Survey`, `EraseLines`, `EraseHeader`, `Forget` | `cancel_order`, `autocancel_web_order`, `delete_cancelled_order_documents`, `delete_factusol_document` call by call |
| `Uncancel`, `Unlink` | `restore_after_uncancel`, `unlink_order_document` |
| `Killed`, `ByHand` | the worker dies or the job times out; somebody invoices in FACTUSOL itself |

`FirstStep` is where cancelling and emitting meet: the deletion asks whether the
order is cancelled, the emission does not.

### Modules with proofs, and MC modules

`WorkflowRuns_proofs` (types, the slot, ended runs), `OneWorker_proofs` (waits,
cancellations, the refinement), `EmailOnce_proofs`, `Heartbeat_proofs`,
`TriggerMembership_proofs`, `ScheduledMail_proofs`, `SyncJobs_proofs` and
`Invoicing_proofs` hold theorems only. `MCWorkflowRuns` has the three workflows of
the instances: one with two emails on the branches of an event wait, a nap and an
exit; a longer one that meets the cap of steps; one with a switch, a date, a
condition, an unregistered type and steps that edit data; each with its ranks.

## 3. The runs

| run | instance | properties | shows |
|---|---|---|---|
| `serial` | 1 worker, 2 runs, 3 arrivals; steps skipped or raising | `EmailsAreLogged`, `KeepsPromise`, `WaitsEnd` | with one job at a time the engine implements its life cycle, history keeps up with every send, a parked run reaches an end |
| `deployed` | 1 worker and 1 request thread, 2 runs, reentry, cap of 3 steps, 3 arrivals | `WaitsAndEmailsAgree` (`OneInv` and `MailInv`, hence `EmailOnce`), `ListensIffParked`, `EndedRunsLetGo`, `TypeOK`, `CancellingOnlyCloses`, `CancellingEnds` | the production layout: whatever requests come in between, parked runs and event waits correspond, no step mails twice, ended runs hold nothing, and a run that a request can only mark is closed by a later tick, as cancelled and as nothing else |
| `overlap` | worker and a request that runs events inline, 2 runs, 2 arrivals, 1 crash; failed, raised | `SlotInv`, `EndInv` | overlapping transactions with crashes and rollbacks: the unique index keeps the slot to one run, no commit leaves an ended run its key or a wait |
| `cron` | cron trigger, 2 contacts, 4 runs, 2 slots; deferred, raised | `EmailOnce`, `KeepsPromise` | a rolled back cron phase leaves no trace in the tables, no contact enters twice, no retry of a deferred email sends two |
| `trigger_membership` | 2 workflows (one with reentry), 2 contacts, 3 moves, 2 requests, 1 fault | `TypeOK`, `FiresOnce`, `MailedOncePerRun`, `FiresOnTransition`, `BaselineHolds`, `ComesInIsNoted` | a contact fires for a transition and for nothing else; a transition that lasts is not missed |
| `heartbeat` | interval 30, 2 starts of the API, 1 fault | `TypeOK`, `ChainAlive`, `BeatsForever` | the chain survives starts and raising ticks |
| `scheduled_mail` | 2 messages, 2 requests in flight, 4 requests, 1 fault | `TypeOK`, `PendingIsUnsent`, `SentAtMostOnce`, `FailedIsUnsent`, `CancelHolds`, `NoneLostUnsent`, `PendingEnds` | the status tells what Gmail got, a cancel holds, at most one extra copy per killed sweep, nothing pending for ever |
| `sync_jobs` | 1 account, 1 request thread, 2 rows, 2 faults | `TypeOK`, `QueuedIsPending`, `EndStands`, `OpenEnds`, `AccountIsFreed` | what waits is spared, what ended stands, what died is closed, no account is blocked for ever |
| `invoicing` | 1 web and 1 manual order of 2 lines, 4 numbers, 3 jobs, 2 requests, 2 faults, 1 invoice by hand | `TypeOK`, `OneInvoice`, `LinkHolds`, `HandsOff`, `InvoicedIsKept`, `RetryLinks` | one complete invoice per order; a linked invoice has the lines of its source, whatever compensations and half-done deletions ran; hands off what people wrote; a retry that heals |
| `failed_step`, `mail_vanishes`, `half_invoice` | smallest that show it | one each | the findings of section 5 |

`serial` has 24 500 distinct states, `deployed` 61 000, `overlap` 99 000, `cron`
296 000, `trigger_membership` 324 000, `scheduled_mail` 131 000, `sync_jobs` 175 000
and `invoicing` 1.2 million; each ends in about two minutes or less.

**Bounds.** Each bound is a constant with a guard of its own.

* Engine: `MaxArrivals` bounds events, requests and claimed cron slots, `MaxFaults`
  crashes; time is not bounded. Two runs of one contact are enough for each hazard of
  a pair (the slot, the cancellation, the wait): the second run enters while the
  first lives (and is refused), or after it ended, and a run id is never used again.
  Three arrivals are an entry, an answer and a cancellation or a second entry.
  `MaxSteps` (30 in the code) is 4 where no chain between two naps reaches it, and 3
  in `deployed`, whose workflow is long enough to meet it.
* Trigger: three moves and two requests are an activation, a contact that leaves and
  comes back while a tick is open, and a second activation in between: every race
  of two of the three transactions. Contacts that met the filter from the start cost
  no move.
* Scheduled mail: two messages may share a thread, two requests overlap one sweep;
  four requests are two messages scheduled and two changes, of one or of each.
* Sync: two rows of one account are the one that is in flight and the one the tick
  may add; two faults are a death and a failure of its clearing up.
* Invoicing: three jobs are two emissions and a deletion, or three emissions of one
  order; two faults are a write that fails and the compensation that fails, or a
  deletion that stops between lines and header and another failure after it; two
  lines make "some lines" possible; four numbers are never used up by three jobs and
  a hand.

`CHECK_DEADLOCK FALSE` is said of the models whose every action is bounded
(`SyncJobs`, `Invoicing`): there the system may really have nothing left to do.
Elsewhere `Clock`, or a tick, is always possible, so the check says little, and what
is stuck is caught by the liveness properties instead.

**Symmetry.** Runs are symmetric where only safety is checked (`overlap`, `cron`).
Liveness runs use none.

**Fairness**, each as far as the code schedules the work itself:

* `WorkflowRuns!LiveSpec`: weak fairness of a process working off an open job, of
  the worker beginning a tick and of the clock. RQ runs the job it has begun; the
  heartbeat brings a tick every 30 s (`Heartbeat` discharges this as `BeatsForever`,
  as long as nobody dies). Nothing is assumed of events, requests or handlers'
  answers. `WaitsEnd` is checked without "deferred", which may be repeated for ever
  (an email cap that is always used up), and with the step cap out of reach.
* `TriggerMembership!LiveSpec`: the tick comes and goes on. Killed and rolled back
  ticks are faults, so finitely many; requests may hang.
* `ScheduledMail!LiveSpec`: sweeps come and are worked off, the clock goes on, a
  request that has read commits. A request that overlapped every sweep for ever would
  not matter, but one that never ends may not postpone for ever: requests are bounded.
* `SyncJobs!LiveSpec`: the container restarts its worker, the worker goes on with
  what it has begun, time passes. `TakeRun` is strongly fair, since an hour lies
  between two ticks and the queue of ticks, though preferred, cannot keep the worker
  from the other. Nothing is assumed of requests, nor of the API being restarted:
  the two liveness properties end with the chain of ticks (`tick = "none"`).
* `Invoicing!LiveSpec`: the worker works its queue off. Requests may hang.

**Mutants.** Each property of a passing run comes with a change to the model that a
plausible bug would make and that breaks it in that run (`X_Something` beside `X`):
`_finalize` that keeps the key or the waits or counts the wrong outcome, the slot
looked up with a SELECT instead of by the unique index, a wait that is not deleted, a
sweep that is left out, a `finally` that is not there, a membership row that is
only written with a run, a request that writes its whole row back, a purge that
takes failed messages for done, a closing of dead runs that does not ask for the
status or the heartbeat, an emission that does not look before it writes, a
compensation of a header that is somebody else's.

## 4. The proofs

All proofs are checked by TLAPS to the last leaf; they hold for every graph, any
number of processes, runs, contacts, messages, accounts and orders, and every value
of the bounds, and assume no more than the named `ASSUME`s of the modules, which TLC
evaluates.

* **`TypeCorrect`** (`WorkflowRuns_proofs`): `Spec => []TypeOK`. Inductive as it
  stands; one lemma per operator on a transaction (`WriteType`, `FinalizeType`,
  `AppliedType`, ...), then one step per action.
* **`SlotGuarded`** (`WorkflowRuns_proofs`): `Spec => []SlotInv`, and its corollary
  **`OneRunPerSlot`**: `Spec => []SlotUnique`. That two runs of a contact never hold
  its slot together is not inductive: a COMMIT publishes what the transaction
  flushed long before, perhaps before another one archived or took a key. `SlotInv`
  adds what keeps it: a transaction that has flushed a run into a slot inserted that
  run whole (`ClaimsAreInserts`), sees nobody else in the slot (`ClaimsAreAlone`),
  and no other open transaction has flushed one into it (`ClaimsExclude`). The
  argument: only `start_run` ever writes a slot key, everything else of the engine is
  `Tame` (it leaves contacts alone and changes a key only to archive it);
  `SlotInDoubt` and `SlotTaken` at the INSERT establish the three conjuncts;
  `Publish` then keeps `SlotUnique`. Nothing of the row locks on runs is needed for
  it: the index alone carries the guard.
* **`EndsTogether`, `EndedLetGo`** (`WorkflowRuns_proofs`): `Spec => []EndInv` and
  `Spec => []EndedRunsLetGo`. That an ended run holds neither key nor wait could be
  undone by a COMMIT that publishes a key or a wait flushed before the run ended
  elsewhere. `EndInv` says why it is not: a row is flushed by one open transaction at
  a time (`LockOfOneRun`: `FreeRun` is asked before each first flush); one that has
  ended a run has archived its key and deleted its waits, and one that has flushed a
  key or a wait has flushed the state with it (`Fits`); and an archived key never
  comes back (`KeyAgrees`). Everything the engine does between two commits is `Lawful`
  for one run: it touches no other and keeps `Fits`. `Lawful` is proved operator by
  operator and composed; `WorkCases` then sorts the actions into four kinds (goes
  on, admits, loses, stores).
* **`SentIsLogged`** (`WorkflowRuns_proofs`): `MaxFaults = 0 /\ "failed" \notin Troubles =>
  (Spec => []EmailsAreLogged)`. Both hypotheses are needed: a crash, or the exception
  that a failed step raises, rolls back the history of an email that is out.
* **`WaitsGoWithState`, `ParkedIffAwaited`, `MarkedStaysMarked`**
  (`OneWorker_proofs`): `OneWorker => (Spec => []OneInv)`, and from it
  `ListensIffParked` and `CancellingOnlyCloses`. The hypothesis is what
  `docker-compose.prod.yml` (lines 316-355) deploys, short of the inline fallback of
  `dispatch_event`; with that fallback, or a second worker, the last two are false
  (section 5). That a parked run has one wait is not inductive: a COMMIT publishes
  waits and a state flushed on a snapshot that may be old. `OneInv` says of every open
  transaction that it has flushed the state of any run whose waits it touches, and
  that the two fit; that the worker's snapshot of a run it has yet to treat is not
  outdated by more than a cancellation; and that only a running run is ever marked,
  while the job at work on a run has found it waiting or parked. For the proof, each
  function of the engine is reduced to an *effect* on the transaction: the run
  `Moves`, `Parks`, `Ends`, is marked (`Marks`), woken (`Wakes`) or born (`Births`), a
  wait is dropped (`Drops`), or nothing happens to the tables (`Stays`). These eight
  keep `OneInv`, and the same eight carry the next two proofs.
* **`EmailsLieBehind`, `DeploymentAgrees`, `MailedOnce`** (`EmailOnce_proofs`): for
  every ranking, `OneWorker /\ MaxFaults = 0 /\ "failed" \notin Troubles /\
  Ranks(Rank) => (Spec => []MailInv(Rank))`, and so `EmailOnce`;
  `WaitsAndEmailsAgree`, which `deployed` checks, is `OneInv` and `MailInv` with the
  ranks of its workflow, the constant `StepRank`. Each hypothesis is needed: a
  rollback (of a crash, or of the exception that a failed step raises) takes a run back
  to a step that has sent; a cycle sends again by design; and a second worker selects
  the same run. `EmailOnce` is not inductive, for the counter of a step is raised
  far from where a row, a wait or a job decides to run it: `MailInv` adds that all
  three point past the emails sent, and that what a job knows of a run it has not
  changed is what is committed, unless a request cancelled it meanwhile.
* **`EngineKeepsPromise`** (`OneWorker_proofs`): `Alone => (Spec => KeepsPromise)`, the
  refinement of `RunLifecycle`. From `TypeOK`, `SlotInv`, `EndInv` and `AloneInv`, a
  COMMIT of the transaction is the job that admits the runs it has inserted and ends
  those it has finalised (`PublishKeepsPromise`): a run that goes on keeps key and
  contact, hence its place; a place changes hands only from a run that ends to one that
  is admitted; and the counters move by the sizes of the two sets. Everything else,
  crashes and rollbacks included, is a stutter. One process alone is needed: with
  two, the counters, read and written back, lose an update, and the first end of a run
  does not stand (section 5).
* **`HeartbeatTypes`, `ChainNeverBreaks`** (`Heartbeat_proofs`): the types and, for
  every interval of at least ten seconds, `Spec => [](LockIsBacked /\ ChainAlive)`.
  The inductive invariant `HeartbeatInv` adds that the key never has longer to live
  than it was set for (at most the interval) and that the worker does not tick and arm
  at once. The hypothesis is needed: at five seconds `ChainAlive` is false.
* **`MembershipTypes`, `OnceForEver`, `TransitionsFire`, `BaselineKept`,
  `EmailsMatchRuns`** (`TriggerMembership_proofs`). A firing is decided by a snapshot
  and committed later, so the firing properties need an invariant about everybody
  *outside* the rows: `OutsideIsOwed` (who meets the filter without a row came in
  since it fired last), `TickIsOwed` (so did whom the open tick is about to start, or
  whose row it is about to delete; it inserts no row that is there), `OnceIsKept`
  (without reentry a row stays) and `RequestsAgree` (an activation counts on rows
  that are there). The two action properties then follow at `TickCommits`, the only
  step that fires. `EmailsMatchRuns` is inductive on top of it.
* **`MailTypes`, `NoEmailTwice`, `PendingIsTrue`, `FailedIsTrue`, `CancelIsFinal`**
  (`ScheduledMail_proofs`), from `TypeOK` and `MailInv`: what a sweep still has
  to treat (`TodoUnsent`), what is pending or failed (`RowsUnsent`) and what a reply
  is about to insert (`RepliesAreNew`) has reached Gmail at most once per killed sweep.
  The conjunct about replies is needed because an INSERT makes a message pending
  again in the model's table, and only ever a new one in the code's.
  **`NothingIsLost`**: `~ReplyToScheduled => (Spec => NoneLostUnsent)`, from `LossInv`:
  a sentinel thread holds no message but its own (`OwnThreads`), what a purge is about
  to delete has been settled (`OrphansSettled`), and a message in hand is sent
  (`HandIsSent`). Without the hypothesis it is false (section 5).
* **`SyncTypes`, `WaitingIsSpared`, `EndsAreFinal`** (`SyncJobs_proofs`), from
  `TypeOK` and `SyncInv`: each row goes with its job (`RowsAgree`), with what its
  enqueuer is at (`AsksAgree`) and with what the worker is at (`WorkerAgrees`: what a
  closing has seen open is still open when it commits, because there is one worker).
* **`InvoicingTypes`, `OneInvoiceEach`, `LinksHold`, `HandsAreOff`,
  `InvoicedStays`** (`Invoicing_proofs`), from the types and `InvoicingInv`:
  `JobAgrees` says that while a job writes, the invoice under its number is its own
  and nobody's link, that until it is written its order has no whole one of the
  worker, and that it is linked with as many lines as its source then has. `LinkHolds`
  is inductive only with this and with types that say a source has all its lines or
  none: `EraseLines` takes them only where no whole invoice is, so what a job wrote
  of that source and linked has none either. The maximum plus one needs no lock for this: a number somebody
  took meanwhile makes the header fail, and the header is written outside the
  `try` whose handler deletes.

Only model-checked: liveness (`WaitsEnd`, `CancellingEnds`, `BeatsForever`,
`ComesInIsNoted`, `PendingEnds`, `OpenEnds`, `AccountIsFreed`, `RetryLinks`), which
under fairness is beyond the prover. Every invariant and every action property of
the passing runs, and the refinement, has a theorem whose hypotheses the run meets.

## 5. Findings

Three places where the code does not do what it says, each a run that TLC refutes:

1. `failed_step` — a step that answers `failed` should fail its run
   (engine.py:556-558). The call at 561 passes `error_summary=`, which `_finalize`
   does not take: TypeError. In a tick the error is swallowed, the history row stays
   and the run is tried again at every tick; in an event the job is lost; in the phase
   of matches_conditions the whole tick is rolled back, every time.
2. `mail_vanishes` — when a scheduled message that opens a conversation is sent, its
   sentinel thread is deleted, and the delete cascades to the message itself: it
   leaves Gmail and disappears from the CRM, which promises to keep it as sent
   (email_scheduled_sweep.py:16-19).
3. `half_invoice` — a header whose answer is lost, or a kill or a timeout between two
   lines, is not compensated, and the
   next emission of the order finds what is left by its reference and links it, whatever
   lines it has; the docstring has in mind an invoice "creada a mano por Bart o por una
   carrera" (service.py:814-820).

Known from the models, and no run of their own:

* the first end of a run does not stand: `cancel_run` closes a waiting run "direct, no
  step in flight" (engine.py:677), but a run that a tick has woken is waiting too, and
  the later of the two commits rewrites the other's outcome;
* scheduler.py:5-6 promises `FOR UPDATE SKIP LOCKED`; the query has none, and with a
  second worker on the queues `EmailOnce` is false. Production has one;
* with a second worker, or an event that a request runs inline while a tick is open,
  `ListensIffParked` is false for a workflow that comes back to its event wait: either
  may park the run again by an old snapshot, which leaves two waits, and the run jumps
  when the second fires. `CancellingOnlyCloses` is false there too;
* a run that has used up `max_steps` in state `running` stays there: the tick looks at
  waiting runs only;
* `WORKFLOWS_SCHEDULER_TICK_SECONDS` below ten is accepted, and the key's floor of ten
  seconds then stops the chain the `finally` protects;
* with reentry, a contact that is back inside when its workflow is activated fires all
  the same if a tick that saw it outside is still open (`"raced"` in
  `TriggerMembership`), although scheduler.py:283-285 says that who meets the
  conditions at the activation does not fire;
* if a reply could join a sentinel thread (`ReplyToScheduled`), which
  emails_scheduled.py:154-158 does not rule out, sending the first message of the
  thread would delete the reply unsent: `NoneLostUnsent` is false there;
* interval of the AgileCRM tick and expiry of "in flight" are both an hour, so with
  several accounts on the one worker an account whose row still waits is queued
  again behind it;
* a `sync_logs` row without `job_id` is never closed, only disregarded after an hour;
* an order invoiced from its delivery note and not linked (a kill before the commit)
  cannot be healed by asking again: the conversion is refused;
* a source document whose deletion stopped between its lines and its header
  (order_cancel.py:330-337, a failed call or a kill; nothing is put back) is invoiced
  all the same when the emission is asked for: neither `emit_invoice`
  (service.py:887-926) nor `convert_document` (chain.py:709, 823-826) asks whether
  there are lines, or whether the order is cancelled. The order is then linked as
  emitted to an invoice without lines. So "the linked invoice has all lines of the
  order" is false of the code, and `LinkHolds` says that it has those of its source;
  of a delivery note, which finds its invoices by their lines, such an invoice may
  even be written twice (`OneInvoice` is about complete ones);
* `factusol_status` may link an invoice the worker is still writing, and the
  compensation then deletes it behind the link.

A crash between a send and the commit that would record it leaves an email without
history and a run that sends it again; nothing in the code claims otherwise, so it is
a hazard of `PROJECT.json`, not a finding.

## 6. What the models leave out

Engine and tick:

* **Batch limits** (200 runs per phase of a tick, 1000 contacts of a segment): the
  selection is taken whole; a rest is selected by the next tick.
* **Locks taken by foreign keys** on inserts, and gap locks: leaving them out gives
  the model more interleavings than MySQL, never fewer.
* **Lock timeouts and deadlocks**: a `Crash` of the statement's transaction.
* **autoflush**: sessions of requests have it off and those of workers on; the code
  flushes by hand wherever the order matters, so there is no difference.
* **Redis down at a cron slot**: `_claim_cron_slot` then grants the slot each time;
  the model has Redis up in `run_tick`.
* **Payload conditions** of triggers and waits: a nondeterministic yes or no. **A
  handler's effects on other tables**: not part of any property here.
* **A step or a contact that is gone** when a run is to move (`step_missing`,
  `contact_missing`, engine.py:446-464, which fail the run): the graph and the contacts
  of an instance do not change.
* **More than one workflow** in `WorkflowRuns`: runs of different workflows share
  only the commit of their job.
* **With an inline event and a tick on the same wait** both branches of that wait may
  run, since neither reads under a lock; `overlap` checks what still holds.

Trigger on conditions: `allow_reentry` does not change; a run of it is its first
email; the phases of the tick before it are not repeated here (a rollback of this
phase undoes them too); deleting a workflow or a contact, which cascades to the rows.

Scheduled mail: editing the text of a pending message, attachments, the chain of
sweeps (`schedule_sweep`, the pattern of `Heartbeat`), of which fairness is assumed.

Sync: a second chain of ticks, which a start of the API begins when the key of
`arm_periodic_jobs` has expired while a tick is still queued (`ApiBoots` begins one
only where there is none); the tick of Brevo; queues that two workers serve (there a
closing may overwrite an end); what a run does to its resource.

Invoicing: one series of numbers; an invoice by hand is written at once, and people
do not edit the lines of a document; `delete_records` of all lines is one call, as in
the code; restoring and unlinking are one step each, and the two
surveys of an automatic cancellation are one; `factusol_status` is modelled for web
orders; quotes, samples, `force`, the other conversions of the chain, payments and
collections are left out.

## 7. Not modelled, and plan

Not modelled because it is input and output, parsing, scoring or layout over data,
with no protocol state of its own: the client, the assistant, backups and storage,
bank statements, tracking sheets, mappings and catalogues of the integrations, the
documents of the ERP. Most of the repository's lines are of this kind: long request
handlers that read, filter and format in one transaction.

Built, most important first: `WorkflowGraph`, `WorkflowRuns`, `RunLifecycle`,
`MCWorkflowRuns`, `Heartbeat`, `ScheduledMail`, `SyncJobs`, `Invoicing`,
`TriggerMembership`, `OneWorker`, with their proofs.

Next, in this order:

1. **A promise for several processes** — what of `RunLifecycle` survives overlap: the
   part about slots does (`SlotGuarded`), the first end and the counters do not; to be
   stated as a weaker life cycle and proved from `EndInv`.
2. **OrderStates** — the arcs and guards of `erp/state_machine`, two requests at once.
   To be proved: the cross-domain invariants, from the table of arcs.
3. **WorkflowEdit** — structural edits, archive and delete against live runs and
   their waits (cascades). To be checked: no live run on a step that is gone.
4. **Two workflows in one event**, where one's failure undoes the other's start, and
   the counters as a refinement of their own.
5. **WooIngest** — orders by webhook and by poll into the same row, once the order
   states are there; the numbering of offers under its row lock.
6. **BrevoTargets** — the ledger of what was pushed, which shares its diff with
   `TriggerMembership`.
