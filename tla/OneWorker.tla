----------------------------- MODULE OneWorker ------------------------------
(***************************************************************************)
(* The run engine as docker-compose.prod.yml deploys it: one RQ worker on  *)
(* the workflows:* queues, any number of API threads, and no event run     *)
(* inside a request.  What then holds between the rows of workflow_runs,   *)
(* the event waits and the open transactions, and why no run is deaf,      *)
(* woken twice or mailed twice.  Last, what a process alone keeps.         *)
(***************************************************************************)
EXTENDS WorkflowRuns

CONSTANT StepRank   \* a number for each step that grows along the edges, if one does

OneWorker ==
    /\ \E w \in Workers : Workers = {w}
    /\ Workers \cap Api = {}
    /\ ~InlineEvents

Parked == "waiting_for_event"

\* The event waits of run r: committed, and as transaction s would leave them.
WaitsOf(r) == {x \in wait : x[1] = r}
Heard(s, r) == {x \in WaitsOf(r) \ s.gone : r \notin s.purged} \cup {x \in s.added : x[1] = r}

\* A run in this state has these waits.
Match(waits, state) ==
    IF state = Parked THEN \E x \in waits : waits = {x} ELSE waits = {}

Matched == \A r \in Runs : Match(WaitsOf(r), run[r].state)

\* What any transaction s makes of run r: it knows of none before it is born, and
\* touches the waits of a run only together with its state.
Sound(s, r) ==
    /\ run[r].state = "none" /\ s.dirty[r] = {} => s.view[r].state = "none"
    /\ "state" \in s.dirty[r] => Match(Heard(s, r), s.view[r].state)
    /\ r \in s.purged => "state" \in s.dirty[r] /\ s.view[r].state \in Terminal
    /\ \A x \in s.gone : x[1] = r => "state" \in s.dirty[r]
Coherent(s) ==
    /\ \A r \in Runs : Sound(s, r)
    /\ \A r \in Runs : r \in s.runs \/ r = s.cur => s.view[r].state # "none"

\* A request cancels a run it has only read, or adds one run of its own.
ApiFits(s) ==
    /\ s.phase \in {"manual", "cancel"}
    /\ s.phase = "cancel" =>
          /\ s.cur = None /\ \A r \in Runs : s.dirty[r] = {}
          /\ s.added = {} /\ s.gone = {} /\ s.purged = {}
    /\ s.phase = "manual" =>
          /\ s.waits = {} /\ s.runs = {}
          /\ \A r \in Runs : s.cur = r => s.dirty[r] # {}
          /\ \A r \in Runs : s.dirty[r] # {} => s.dirty[r] = Cols /\ run[r].state = "none"

\* A job: what it has still to treat is as it selected it, and what it has not
\* parked itself has no wait that it does not see.
WorkerFits(s) ==
    /\ s.phase \notin {"manual", "cancel"}
    /\ \A r \in Runs : "state" \notin s.dirty[r] /\ s.view[r].state \notin {"none", Parked}
           => WaitsOf(r) = {}
    /\ \A r \in Runs : s.cur = r /\ s.view[r].state = "running" => "state" \in s.dirty[r]
    /\ \A r \in s.runs :
          /\ s.phase = "due" => s.view[r].state = "waiting" /\ s.cur # r
          /\ s.phase = "cancelling" => s.view[r].state = "cancelling" /\ s.cur # r
    /\ \A x \in s.waits : x[1] \notin s.purged =>
          /\ s.view[x[1]].state = Parked /\ s.dirty[x[1]] = {}
          /\ WaitsOf(x[1]) \subseteq {x}
    /\ \A x, y \in s.waits : x[1] = y[1] => x = y

Own(p, s) ==
    /\ Coherent(s)
    /\ p \in Api => ApiFits(s)
    /\ p \in Workers => WorkerFits(s)

\* Transaction s can do nothing to run r but cancel it.
Quiet(s, r) ==
    /\ s.view[r].state \in {"none", "running", "cancelling", "cancelled"}
    /\ s.view[r].state = "running" => s.dirty[r] = {}

\* Whoever marks a running run, the worker is not at work on it.
MarkedIsQuiet ==
    \A w \in Workers, r \in Runs :
        Open(w) /\ run[r].state \in {"running", "cancelling"} => Quiet(sess[w], r)
ReadIsQuiet ==
    \A a \in Api, r \in Runs :
        Open(a) /\ sess[a].phase = "cancel" /\ sess[a].view[r].state = "running" =>
            /\ run[r].state \in {"running", "cancelling", "cancelled"}
            /\ \A w \in Workers : Open(w) => Quiet(sess[w], r)

\* With one worker, the waits and the states of the runs change together.
OneInv ==
    /\ Matched
    /\ \A p \in Procs : Open(p) => Own(p, sess[p])
    /\ MarkedIsQuiet /\ ReadIsQuiet

-----------------------------------------------------------------------------
(* The emails of a run, when the workflow has no cycle: Rank grows along   *)
(* every edge                                                              *)

Ranks(Rank) ==
    /\ Rank \in [Steps -> Nat]
    /\ \A a, b \in Steps : (\E l \in Labels : <<a, l, b>> \in Edges) => Rank[a] < Rank[b]

\* Every email of run r is of a step before step a.
Past(Rank, r, a) == \A b \in Steps : sent[<<r, b>>] > 0 => Rank[b] < Rank[a]

\* Whatever run r does next, from this row and these waits, comes after its emails.
Ahead(Rank, r, row, waits) ==
    /\ row.state \in {"running", "waiting"} => row.step = None \/ Past(Rank, r, row.step)
    /\ row.state = Parked => \A x \in waits : Past(Rank, r, x[2])

\* The job s of the worker: what it makes of a run it knows comes after the run's
\* emails, and what it has not changed is as it read it, unless a request cancels.
JobAhead(Rank, s) ==
    /\ \A r \in Runs : s.view[r].state = "none" => s.dirty[r] = {}
    /\ \A r \in Runs : s.view[r].state # "none" =>
          /\ Ahead(Rank, r, s.view[r], Heard(s, r))
          /\ "step" \notin s.dirty[r] => run[r].step = s.view[r].step
          /\ "state" \notin s.dirty[r] =>
                run[r].state \in {s.view[r].state, "cancelling"} \cup Terminal
    /\ \A x \in s.waits : x[1] \notin s.purged => Past(Rank, x[1], x[2])

\* The request s: the run it adds has its emails behind it.
RequestAhead(Rank, s) ==
    \A r \in Runs : s.dirty[r] # {} => Ahead(Rank, r, s.view[r], Heard(s, r))

\* The row of a run says what it does next only while the job does not know the run.
RowAhead(Rank, r) ==
    (\A w \in Workers : Open(w) => sess[w].view[r].state = "none") =>
        Ahead(Rank, r, run[r], WaitsOf(r))

MailInv(Rank) ==
    /\ EmailOnce
    /\ \A r \in Runs : RowAhead(Rank, r)
    /\ \A w \in Workers : Open(w) => JobAhead(Rank, sess[w])
    /\ \A a \in Api : Open(a) => RequestAhead(Rank, sess[a])

\* With one worker, and requests that come in between: the waits of each run go with
\* its state, in the tables and in what every open transaction is about to commit,
\* and whatever a run does next lies behind every email it has sent.
WaitsAndEmailsAgree == OneInv /\ MailInv(StepRank)
-----------------------------------------------------------------------------
(* One process alone in the database, as the promise of RunLifecycle has it *)

Alone == \E p \in Procs : Procs = {p}

\* What transaction s has not flushed it sees as it is committed.
AsCommitted(s) == \A r \in Runs, c \in Cols : c \notin s.dirty[r] => s.view[r][c] = run[r][c]

\* From one row of a run to a later one: it keeps its contact, and its key until it
\* ends and archives it; it is not forgotten; and it ends once.
Follows(old, new) ==
    /\ new.state = "none" => new.key = "none"
    /\ new.state \in Terminal => new.key = "archived"
    /\ old.state # "none" =>
          /\ new.state # "none" /\ new.contact = old.contact
          /\ new.key = old.key \/ new.state \in Terminal
    /\ old.state \in Terminal => new.state = old.state

\* The runs that s is about to commit as admitted, and as ended with outcome k, are
\* those it counts.
AdmittedBy(s) == {r \in Runs : run[r].state = "none" /\ s.view[r].state # "none"}
EndedBy(s, k) == {r \in Runs : run[r].state \notin Terminal /\ s.view[r].state = k}
Counted(s) ==
    /\ IsFiniteSet(AdmittedBy(s))
    /\ s.count["entered"] = count["entered"] + Cardinality(AdmittedBy(s))
    /\ \A k \in Terminal : /\ IsFiniteSet(EndedBy(s, k))
                           /\ s.count[k] = count[k] + Cardinality(EndedBy(s, k))
    /\ \A k \in Counters \ s.bumped : s.count[k] = count[k]

Told(s) == AsCommitted(s) /\ (\A r \in Runs : Follows(run[r], s.view[r])) /\ Counted(s)

\* With one process alone, a transaction tells the tables what the life cycle allows.
AloneInv ==
    /\ \A r \in Runs : run[r].state = "none" => run[r].key = "none"
    /\ \A p \in Procs : Open(p) =>
          /\ Told(sess[p])
          /\ \A r \in Runs : r \in sess[p].runs \/ r = sess[p].cur
                                 => sess[p].view[r].state # "none"
=============================================================================
