--------------------------- MODULE SyncJobs_proofs ---------------------------
(***************************************************************************)
(* For any number of runs, accounts, requests and faults: a run that waits *)
(* is never closed as dead, and what a run ended with stands.              *)
(***************************************************************************)
EXTENDS SyncJobs, TLAPS

IndInv == TypeOK /\ SyncInv

\* The step changes the end of no run.
EndsKept == \A r \in Runs : log[r].status \in Ended => log'[r].status = log[r].status

LEMMA SyncInit == Init => IndInv
<1> SUFFICES ASSUME Init PROVE IndInv OBVIOUS
<1>1. TypeOK
  BY SyncAssumption DEF Init, TypeOK, Log, Jobs, Steps, Inactive, Waits, Open, Ended
<1>2. SyncInv
  BY DEF Init, SyncInv, QueuedIsPending, RowsAgree, AsksAgree, WorkerAgrees, Inactive, Waits
<1> QED BY <1>1, <1>2 DEF IndInv

-----------------------------------------------------------------------------
(* Rows and their enqueuers                                                *)

LEMMA CreateKeeps ==
    ASSUME IndInv, NEW e \in Enqueuers, NEW a \in Accounts,
           ask[e].step = "idle",
           CreateRow(e, a), UNCHANGED <<job, faults, tick>>,
           worker' \in [step : Steps, run : Runs \cup {None}, seen : SUBSET Runs,
                        todo : SUBSET Accounts],
           worker'.step = worker.step, worker'.run = worker.run, worker'.seen = worker.seen
    PROVE  IndInv' /\ EndsKept
<1> USE DEF IndInv, SyncInv, TypeOK
<1>1. PICK r \in Runs :
        /\ log[r].status = "none"
        /\ log' = [log EXCEPT ![r] = [status |-> "pending", account |-> a,
                                      known |-> FALSE, born |-> "now"]]
        /\ ask' = [ask EXCEPT ![e] = [step |-> "row", run |-> r]]
  BY DEF CreateRow
<1>2. log'[r].status = "pending" /\ ~log'[r].known /\ ask'[e].step = "row" /\ ask'[e].run = r
  BY <1>1
<1>3. \A q \in Runs : q # r => log'[q] = log[q] BY <1>1
<1>4. \A d \in Enqueuers : d # e => ask'[d] = ask[d] BY <1>1
<1>5. job[r] = "none" BY <1>1 DEF RowsAgree
<1>6. TypeOK' BY <1>1 DEF Log, Open, Ended
<1>7. QueuedIsPending' BY <1>2, <1>3 DEF QueuedIsPending
<1>8. RowsAgree' BY <1>2, <1>3, <1>5 DEF RowsAgree
<1>9. AsksAgree'
  <2>1. \A d \in Enqueuers : ask[d].step = "row" => ask[d].run # r BY <1>1 DEF AsksAgree
  <2> QED BY <1>2, <1>3, <1>4, <1>5, <2>1 DEF AsksAgree
<1>10. WorkerAgrees'
  <2>1. \A q \in worker.seen : q \in Runs OBVIOUS
  <2> QED BY <1>1, <1>3, <1>5, <2>1 DEF WorkerAgrees, IsOpen, Open
<1>11. EndsKept BY <1>1, <1>3 DEF EndsKept, Ended
<1> QED BY <1>6, <1>7, <1>8, <1>9, <1>10, <1>11

LEMMA PushKeeps ==
    ASSUME IndInv, NEW e \in Enqueuers, PushJob(e) PROVE IndInv' /\ EndsKept
<1> USE DEF IndInv, SyncInv, TypeOK
<1> DEFINE r == ask[e].run
<1>1. /\ r \in Runs /\ job[r] = "none" /\ log[r].status = "pending"
      /\ job' = [job EXCEPT ![r] = "queued"]
      /\ ask' = [ask EXCEPT ![e].step = "job"]
      /\ UNCHANGED <<log, worker, tick, faults>>
  BY DEF PushJob, AsksAgree
<1>2. \A d \in Enqueuers : d # e => ask'[d] = ask[d] BY <1>1
<1>3. ask'[e].step = "job" /\ ask'[e].run = r BY <1>1
<1>4. TypeOK' BY <1>1 DEF Jobs
<1>5. QueuedIsPending' /\ RowsAgree' BY <1>1 DEF QueuedIsPending, RowsAgree
<1>6. AsksAgree'
  <2>1. \A d \in Enqueuers : d # e /\ ask[d].step = "row" => ask[d].run # r
    BY DEF PushJob, AsksAgree
  <2> QED BY <1>1, <1>2, <1>3, <2>1 DEF AsksAgree
<1>7. WorkerAgrees' BY <1>1 DEF WorkerAgrees, IsOpen
<1> QED BY <1>1, <1>4, <1>5, <1>6, <1>7 DEF EndsKept

LEMMA NoteKeeps ==
    ASSUME IndInv, NEW e \in Enqueuers, NoteId(e) \/ EnqueueFails(e)
    PROVE  IndInv' /\ EndsKept
<1> USE DEF IndInv, SyncInv, TypeOK
<1>1. CASE NoteId(e)
  <2> DEFINE r == ask[e].run
  <2>1. /\ r \in Runs /\ job[r] # "none"
        /\ log' = [log EXCEPT ![r].known = TRUE]
        /\ ask' = [ask EXCEPT ![e] = Inactive]
        /\ UNCHANGED <<job, worker, tick, faults>>
    BY <1>1 DEF NoteId, AsksAgree
  <2>2. \A q \in Runs : /\ log'[q].status = log[q].status
                        /\ log[q].known => log'[q].known
                        /\ q # r => log'[q] = log[q]
    BY <2>1 DEF Log
  <2>3. TypeOK'
    <3>1. log[r] \in Log BY <2>1
    <3>2. [log[r] EXCEPT !.known = TRUE] \in Log BY <3>1 DEF Log
    <3>3. log' \in [Runs -> Log] BY <2>1, <3>2
    <3> QED BY <2>1, <3>3 DEF Inactive
  <2>4. QueuedIsPending' /\ RowsAgree' BY <2>1, <2>2 DEF QueuedIsPending, RowsAgree
  <2>5. AsksAgree' BY <2>1, <2>2 DEF AsksAgree, Inactive
  <2>6. WorkerAgrees' BY <2>1, <2>2 DEF WorkerAgrees, IsOpen
  <2> QED BY <2>2, <2>3, <2>4, <2>5, <2>6 DEF EndsKept
<1>2. CASE EnqueueFails(e)
  <2>1. /\ ask' = [ask EXCEPT ![e] = Inactive] /\ faults' \in 0..MaxFaults
        /\ UNCHANGED <<log, job, worker, tick>>
    BY <1>2, SyncAssumption DEF EnqueueFails, Fault
  <2>2. TypeOK' BY <2>1 DEF Inactive
  <2>3. AsksAgree' BY <2>1 DEF AsksAgree, Inactive
  <2> QED BY <2>1, <2>2, <2>3 DEF QueuedIsPending, RowsAgree, WorkerAgrees, IsOpen, EndsKept
<1> QED BY <1>1, <1>2

-----------------------------------------------------------------------------
(* The worker                                                              *)

LEMMA RunKeeps ==
    ASSUME IndInv,
           (\E r \in Runs : TakeRun(r) \/ HeartbeatAges(r)) \/ Starts \/ Ends
    PROVE  IndInv' /\ EndsKept
<1> USE DEF IndInv, SyncInv, TypeOK
<1>1. ASSUME NEW r \in Runs, TakeRun(r) PROVE IndInv' /\ EndsKept
  <2>1. /\ job[r] = "queued" /\ log[r].status = "pending" /\ worker.step = "idle"
        /\ job' = [job EXCEPT ![r] = "running"]
        /\ UNCHANGED <<log, ask, tick, faults>>
    BY <1>1 DEF TakeRun, QueuedIsPending
  <2>2. worker'.step = "took" /\ worker'.run = r BY <1>1 DEF TakeRun
  <2>3. TypeOK' BY <1>1, <2>1 DEF TakeRun, Jobs, Steps
  <2>4. QueuedIsPending' BY <2>1 DEF QueuedIsPending
  <2>5. RowsAgree' BY <2>1, <2>2 DEF RowsAgree
  <2>6. AsksAgree' BY <2>1 DEF AsksAgree
  <2>7. WorkerAgrees' BY <2>1, <2>2 DEF WorkerAgrees
  <2> QED BY <2>1, <2>3, <2>4, <2>5, <2>6, <2>7 DEF EndsKept
<1>2. ASSUME NEW r \in Runs, HeartbeatAges(r) PROVE IndInv' /\ EndsKept
  <2>1. /\ job[r] = "held" /\ job' = [job EXCEPT ![r] = "lost"]
        /\ UNCHANGED <<log, ask, worker, tick, faults>>
    BY <1>2 DEF HeartbeatAges
  <2>2. TypeOK' /\ QueuedIsPending' /\ RowsAgree' BY <2>1 DEF Jobs, QueuedIsPending, RowsAgree
  <2>3. AsksAgree' BY <2>1 DEF AsksAgree
  <2>4. WorkerAgrees' BY <2>1 DEF WorkerAgrees, IsOpen
  <2> QED BY <2>1, <2>2, <2>3, <2>4 DEF EndsKept
<1>3. ASSUME NEW s \in {"works", "wrote"}, NEW st \in {"running"} \cup Ended,
             NEW b \in {"now", "before", "old"},
             \/ worker.step = "took" /\ s = "works" /\ st = "running"
             \/ worker.step = "works" /\ s = "wrote" /\ st \in Ended,
             log' = [log EXCEPT ![worker.run] =
                         [log[worker.run] EXCEPT !.status = st, !.born = b]],
             worker' = [worker EXCEPT !.step = s],
             UNCHANGED <<job, ask, tick, faults>>
      PROVE  IndInv' /\ EndsKept
  <2> DEFINE r == worker.run
  <2>1. r \in Runs /\ job[r] = "running" /\ log[r].status \in Open
    BY <1>3 DEF WorkerAgrees, Open
  <2>2. log'[r].status = st /\ log'[r].known = log[r].known
    BY <1>3, <2>1 DEF Log
  <2>3. \A q \in Runs : q # r => log'[q] = log[q] BY <1>3, <2>1
  <2>4. worker'.step = s /\ worker'.run = r BY <1>3
  <2>5. TypeOK'
    <3>1. log[r] \in Log /\ st \in Open \cup Ended BY <2>1 DEF Open
    <3>2. [log[r] EXCEPT !.status = st, !.born = b] \in Log BY <3>1 DEF Log
    <3>3. log' \in [Runs -> Log] BY <1>3, <3>2
    <3> QED BY <1>3, <3>3 DEF Steps
  <2>6. QueuedIsPending' BY <1>3, <2>1, <2>3 DEF QueuedIsPending
  <2>7. RowsAgree' BY <1>3, <2>1, <2>2, <2>3, <2>4 DEF RowsAgree, Ended
  <2>8. AsksAgree' BY <1>3, <2>1, <2>3 DEF AsksAgree
  <2>9. WorkerAgrees' BY <1>3, <2>1, <2>2, <2>4 DEF WorkerAgrees
  <2>10. EndsKept BY <2>1, <2>3 DEF EndsKept, Open, Ended
  <2> QED BY <2>5, <2>6, <2>7, <2>8, <2>9, <2>10
<1>4. CASE Starts
  <2>1. log' = [log EXCEPT ![worker.run] =
                    [log[worker.run] EXCEPT !.status = "running", !.born = "now"]]
    <3>1. worker.run \in Runs BY <1>4 DEF Starts, WorkerAgrees
    <3> QED BY <1>4, <3>1 DEF Starts
  <2> QED BY <1>3, <1>4, <2>1 DEF Starts
<1>5. CASE Ends
  <2>1. PICK st \in Ended : log' = [log EXCEPT ![worker.run].status = st]
    BY <1>5 DEF Ends
  <2>2. worker.run \in Runs BY <1>5 DEF Ends, WorkerAgrees
  <2>3. log[worker.run] \in Log BY <2>2
  <2>4. [log[worker.run] EXCEPT !.status = st] =
          [log[worker.run] EXCEPT !.status = st, !.born = log[worker.run].born]
    BY <2>3 DEF Log
  <2>5. log[worker.run].born \in {"now", "before", "old"} BY <2>3 DEF Log
  <2> QED BY <1>3, <1>5, <2>1, <2>4, <2>5 DEF Ends
<1> QED BY <1>1, <1>2, <1>4, <1>5

\* The worker lets its run go, with the row as it is.
LEMMA StopKeeps ==
    ASSUME IndInv, Returns \/ Escapes \/ Killed PROVE IndInv' /\ EndsKept
<1> USE DEF IndInv, SyncInv, TypeOK
<1>1. CASE Returns \/ Escapes
  <2> DEFINE r == worker.run
  <2>1. /\ r \in Runs /\ job[r] = "running"
        /\ job' = [job EXCEPT ![r] = "over"] /\ worker' = Waits
        /\ UNCHANGED <<log, ask, tick>> /\ faults' \in 0..MaxFaults
    BY <1>1, SyncAssumption DEF Returns, Escapes, Fault, WorkerAgrees
  <2>2. TypeOK' BY <2>1 DEF Jobs, Waits, Steps
  <2>3. QueuedIsPending' BY <2>1 DEF QueuedIsPending
  <2>4. RowsAgree' BY <2>1 DEF RowsAgree
  <2>5. AsksAgree' BY <2>1 DEF AsksAgree
  <2>6. WorkerAgrees' BY <2>1 DEF WorkerAgrees, Waits
  <2> QED BY <2>1, <2>2, <2>3, <2>4, <2>5, <2>6 DEF EndsKept
<1>2. CASE Killed
  <2>1. /\ \A r \in Runs : job'[r] = IF job[r] = "running" THEN "held" ELSE job[r]
        /\ job' \in [Runs -> Jobs]
        /\ UNCHANGED log /\ faults' \in 0..MaxFaults
        /\ worker' = [Waits EXCEPT !.step = "down"]
        /\ ask' = [ask EXCEPT ![Tick] = Inactive]
    BY <1>2, SyncAssumption DEF Killed, Fault, Jobs
  <2>2. tick' \in {"none", "scheduled", "queued", "running"} BY <1>2 DEF Killed
  <2>3. TypeOK' BY <2>1, <2>2 DEF Waits, Steps, Inactive
  <2>4. QueuedIsPending' BY <2>1 DEF QueuedIsPending
  <2>5. RowsAgree' BY <2>1 DEF RowsAgree
  <2>6. AsksAgree'
    <3>1. \A e \in Enqueuers : ask'[e] = ask[e] \/ ask'[e].step = "idle" BY <2>1 DEF Inactive
    <3> QED BY <2>1, <3>1 DEF AsksAgree
  <2>7. WorkerAgrees' BY <2>1 DEF WorkerAgrees, Waits
  <2> QED BY <2>1, <2>3, <2>4, <2>5, <2>6, <2>7 DEF EndsKept
<1> QED BY <1>1, <1>2

\* Steps of the worker and of the tick that touch no run.
LEMMA IdleKeeps ==
    ASSUME IndInv, UNCHANGED <<log, job, ask>>,
           worker' = worker
             \/ /\ worker' \in [step : Steps, run : Runs \cup {None}, seen : SUBSET Runs,
                                todo : SUBSET Accounts]
                /\ worker.step \notin {"took", "works", "wrote"}
                /\ worker'.step \notin {"took", "works", "wrote", "close", "tickclose"},
           tick' \in {"none", "scheduled", "queued", "running"}, faults' \in 0..MaxFaults
    PROVE  IndInv' /\ EndsKept
<1> USE DEF IndInv, SyncInv, TypeOK
<1>1. TypeOK' /\ QueuedIsPending' BY DEF QueuedIsPending
<1>2. RowsAgree' BY DEF RowsAgree
<1>3. AsksAgree' BY DEF AsksAgree
<1>4. WorkerAgrees' BY DEF WorkerAgrees, IsOpen
<1> QED BY <1>1, <1>2, <1>3, <1>4 DEF EndsKept

-----------------------------------------------------------------------------
(* The closing of dead runs                                                *)

LEMMA CloseKeeps ==
    ASSUME IndInv, CloseReads \/ CloseCommits \/ CloseFails PROVE IndInv' /\ EndsKept
<1> USE DEF IndInv, SyncInv, TypeOK
<1>1. CASE CloseReads
  <2>1. /\ UNCHANGED <<log, job, ask, tick, faults>>
        /\ worker.step \in {"boot", "tick"}
        /\ worker' = [worker EXCEPT !.step = IF worker.step = "boot" THEN "close" ELSE "tickclose",
                                    !.seen = {r \in Runs : InQuery(r)}]
    BY <1>1 DEF CloseReads
  <2>2. worker'.step \in {"close", "tickclose"} /\ worker'.seen = {r \in Runs : InQuery(r)}
    BY <2>1
  <2>3. TypeOK' BY <2>1 DEF Steps
  <2>4. QueuedIsPending' BY <2>1 DEF QueuedIsPending
  <2>5. RowsAgree' BY <2>1 DEF RowsAgree
  <2>6. AsksAgree' BY <2>1 DEF AsksAgree
  <2>7. WorkerAgrees' BY <2>1, <2>2 DEF WorkerAgrees, InQuery, IsOpen
  <2> QED BY <2>1, <2>3, <2>4, <2>5, <2>6, <2>7 DEF EndsKept
\* Only runs that were read open, and whose job is found dead, are closed.
<1>2. CASE CloseCommits \/ CloseFails
  <2>1. PICK dead \in SUBSET {r \in worker.seen : ~Alive(r)} :
          /\ log' = [r \in Runs |-> IF r \in dead THEN [log[r] EXCEPT !.status = "failed"]
                                    ELSE log[r]]
          /\ worker.step \in {"close", "tickclose"}
          /\ worker' = [worker EXCEPT !.step = NextStep, !.seen = {}]
          /\ UNCHANGED <<job, ask, tick>> /\ faults' \in 0..MaxFaults
    <3>1. CASE CloseFails
      <4>1. PICK judged \in SUBSET {r \in worker.seen : ~Alive(r)} :
              log' = [r \in Runs |-> IF r \in judged THEN [log[r] EXCEPT !.status = "failed"]
                                     ELSE log[r]]
        BY <3>1 DEF CloseFails
      <4>2. faults' \in 0..MaxFaults BY <3>1, SyncAssumption DEF CloseFails, Fault
      <4> QED BY <3>1, <4>1, <4>2 DEF CloseFails
    <3>2. CASE CloseCommits
      <4>1. log' = [r \in Runs |-> IF r \in {q \in worker.seen : ~Alive(q)}
                                   THEN [log[r] EXCEPT !.status = "failed"] ELSE log[r]]
        BY <3>2 DEF CloseCommits
      <4> QED BY <3>2, <4>1 DEF CloseCommits
    <3> QED BY <1>2, <3>1, <3>2
  <2>2. \A r \in dead : /\ r \in Runs /\ log[r].status \in Open /\ log[r].known
                        /\ job[r] \notin {"none", "queued"}
    BY <2>1 DEF WorkerAgrees, IsOpen, RowsAgree, Alive
  <2>3. \A r \in Runs : r \notin dead => log'[r] = log[r] BY <2>1
  <2>4. \A r \in dead : log'[r].status = "failed" /\ log'[r].known = log[r].known
    BY <2>1, <2>2 DEF Log
  <2>5. worker'.step \in {"idle", "reads"} /\ worker'.run = worker.run
    BY <2>1 DEF NextStep
  <2>6. TypeOK'
    <3>1. log' \in [Runs -> Log] BY <2>1 DEF Log, Ended
    <3> QED BY <2>1, <3>1 DEF NextStep, Steps
  <2>7. QueuedIsPending' BY <2>1, <2>2, <2>3 DEF QueuedIsPending
  <2>8. RowsAgree' BY <2>1, <2>2, <2>3, <2>4, <2>5 DEF RowsAgree
  <2>9. AsksAgree' BY <2>1, <2>2, <2>3 DEF AsksAgree
  <2>10. WorkerAgrees' BY <2>5 DEF WorkerAgrees
  <2>11. EndsKept BY <2>2, <2>3 DEF EndsKept, Open, Ended
  <2> QED BY <2>6, <2>7, <2>8, <2>9, <2>10, <2>11
<1> QED BY <1>1, <1>2

-----------------------------------------------------------------------------
(* Time                                                                    *)

\* Arming and ageing change nothing of a row but its age.
LEMMA AgeKeeps ==
    ASSUME IndInv, UNCHANGED <<job, ask>>, log' \in [Runs -> Log],
           \A r \in Runs : log'[r].status = log[r].status /\ log'[r].known = log[r].known,
           tick' \in {"none", "scheduled", "queued", "running"}, faults' \in 0..MaxFaults,
           worker' = worker \/ (worker' = Waits /\ worker.step = "fills")
    PROVE  IndInv' /\ EndsKept
<1> USE DEF IndInv, SyncInv, TypeOK
<1>1. TypeOK' BY DEF Waits, Steps
<1>2. QueuedIsPending' BY DEF QueuedIsPending
<1>3. RowsAgree' BY DEF RowsAgree
<1>4. AsksAgree' BY DEF AsksAgree
<1>5. WorkerAgrees'
  <2>1. \A r \in worker.seen : r \in Runs OBVIOUS
  <2> QED BY <2>1 DEF WorkerAgrees, IsOpen, Waits
<1> QED BY <1>1, <1>2, <1>3, <1>4, <1>5 DEF EndsKept

LEMMA ArmedAges ==
    ASSUME TypeOK
    PROVE  /\ Armed \in [Runs -> Log]
           /\ \A r \in Runs : Armed[r].status = log[r].status /\ Armed[r].known = log[r].known
BY DEF TypeOK, Armed, Log

LEMMA TickKeeps ==
    ASSUME IndInv,
           TakeTick \/ TickReads \/ TickEnds \/ TickFailsToArm \/ ApiBoots \/ TickIsDue
             \/ Restarts \/ \E r \in Runs : LogAges(r)
    PROVE  IndInv' /\ EndsKept
<1> USE DEF IndInv, TypeOK
<1>1. CASE TakeTick BY <1>1, IdleKeeps DEF TakeTick, Steps
<1>2. CASE TickReads BY <1>2, IdleKeeps DEF TickReads, Steps
<1>3. CASE Restarts BY <1>3, IdleKeeps DEF Restarts, Steps
<1>4. CASE TickFailsToArm
  <2>1. faults' \in 0..MaxFaults BY <1>4, SyncAssumption DEF TickFailsToArm, Fault
  <2> QED BY <1>4, <2>1, IdleKeeps DEF TickFailsToArm, Waits, Steps
<1>5. CASE TickEnds BY <1>5, AgeKeeps, ArmedAges DEF TickEnds
<1>6. CASE ApiBoots
  <2>1. /\ UNCHANGED <<job, ask>> /\ log' = Armed /\ tick' = "scheduled"
        /\ faults' \in 0..MaxFaults /\ worker' = worker
    BY <1>6 DEF ApiBoots
  <2>2. TypeOK OBVIOUS
  <2> HIDE DEF IndInv, TypeOK
  <2> QED BY <2>1, <2>2, AgeKeeps, ArmedAges
<1>7. CASE TickIsDue
  <2>1. /\ log' \in [Runs -> Log]
        /\ \A r \in Runs : log'[r].status = log[r].status /\ log'[r].known = log[r].known
    BY <1>7 DEF TickIsDue, Log
  <2>2. /\ UNCHANGED <<job, ask>> /\ tick' = "queued"
        /\ faults' \in 0..MaxFaults /\ worker' = worker
    BY <1>7 DEF TickIsDue
  <2> QED BY <2>1, <2>2, AgeKeeps
<1>8. ASSUME NEW r \in Runs, LogAges(r) PROVE IndInv' /\ EndsKept
  <2>1. /\ log' \in [Runs -> Log]
        /\ \A q \in Runs : log'[q].status = log[q].status /\ log'[q].known = log[q].known
    <3>1. log' = [log EXCEPT ![r] = [log[r] EXCEPT !.born = "old"]] BY <1>8 DEF LogAges
    <3>2. [log[r] EXCEPT !.born = "old"] \in Log BY DEF Log
    <3>3. log' \in [Runs -> Log] BY <3>1, <3>2
    <3>4. \A q \in Runs : q # r => log'[q] = log[q] BY <3>1
    <3>5. log'[r].status = log[r].status /\ log'[r].known = log[r].known
      BY <3>1, <3>2 DEF Log
    <3> QED BY <3>3, <3>4, <3>5
  <2>2. /\ UNCHANGED <<job, ask>> /\ tick' \in {"none", "scheduled", "queued", "running"}
        /\ faults' \in 0..MaxFaults /\ worker' = worker
    BY <1>8 DEF LogAges
  <2> QED BY <2>1, <2>2, AgeKeeps
<1> QED BY <1>1, <1>2, <1>3, <1>4, <1>5, <1>6, <1>7, <1>8

-----------------------------------------------------------------------------
LEMMA SyncNext == ASSUME IndInv, [Next]_vars PROVE IndInv' /\ EndsKept
<1>1. CASE UNCHANGED vars BY <1>1, IdleKeeps DEF vars, IndInv, TypeOK
<1>2. ASSUME NEW e \in Api, NEW a \in Accounts, Trigger(e, a) PROVE IndInv' /\ EndsKept
  BY <1>2, CreateKeeps DEF Trigger, Enqueuers, IndInv, TypeOK
<1>3. ASSUME NEW a \in Accounts, TickQueues(a) PROVE IndInv' /\ EndsKept
  <2>1. worker' = [worker EXCEPT !.todo = @ \ {a}] BY <1>3 DEF TickQueues
  <2>2. /\ worker' \in [step : Steps, run : Runs \cup {None}, seen : SUBSET Runs,
                        todo : SUBSET Accounts]
        /\ worker'.step = worker.step /\ worker'.run = worker.run
        /\ worker'.seen = worker.seen
    BY <2>1 DEF IndInv, TypeOK
  <2> QED BY <1>3, <2>2, CreateKeeps DEF TickQueues, Enqueuers
<1> QED BY <1>1, <1>2, <1>3, PushKeeps, NoteKeeps, RunKeeps, StopKeeps, CloseKeeps, TickKeeps
        DEF Next

LEMMA SyncInductive == Spec => []IndInv
<1>1. IndInv /\ [Next]_vars => IndInv' BY SyncNext
<1> QED BY <1>1, SyncInit, PTL DEF Spec

\* Every variable keeps its type.
THEOREM SyncTypes == Spec => []TypeOK
<1>1. IndInv => TypeOK BY DEF IndInv
<1> QED BY <1>1, SyncInductive, PTL

\* A run that waits in its queue is never closed as dead.
THEOREM WaitingIsSpared == Spec => []QueuedIsPending
<1>1. IndInv => QueuedIsPending BY DEF IndInv, SyncInv
<1> QED BY <1>1, SyncInductive, PTL

\* No closing of dead runs, kill or restart changes what a run ended with.
THEOREM EndsAreFinal == Spec => EndStands
<1>1. IndInv /\ [Next]_vars =>
        [\A r \in Runs : log[r].status \in Ended => log'[r].status = log[r].status]_vars
  BY SyncNext DEF EndsKept
<1> QED BY <1>1, SyncInductive, PTL DEF Spec, EndStands
=============================================================================
