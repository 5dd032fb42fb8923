-------------------------- MODULE TriggerMembership --------------------------
(***************************************************************************)
(* The trigger contact.matches_conditions: phase 4 of a tick               *)
(* (_evaluate_matches_conditions of app/workflows/scheduler.py), which     *)
(* compares the contacts that meet the filter of a workflow with the rows  *)
(* of workflow_trigger_memberships and starts a run for each that came in, *)
(* and the activation of a workflow, which seeds these rows                *)
(* (app/api/workflows.py).                                                 *)
(*                                                                         *)
(* One worker ticks.  A tick reads one snapshot, of all its workflows, and *)
(* commits once; requests run beside it.  A pair is a workflow and a       *)
(* contact.  Contacts are edited by everybody, and so is the filter of an  *)
(* active workflow: both make pairs come in and leave.                     *)
(***************************************************************************)
EXTENDS Naturals

CONSTANTS
    Workflows, Contacts,
    Reentry,      \* the workflows with allow_reentry
    Clients,      \* requests that are in flight at a time
    None,
    MaxMoves,     \* bound: pairs that come in or leave
    MaxRequests,  \* bound: activations and pauses
    MaxFaults     \* bound: ticks killed or rolled back by a step

Pairs == Workflows \X Contacts

ASSUME MembershipAssumption ==
    /\ Reentry \subseteq Workflows
    /\ {MaxMoves, MaxRequests, MaxFaults} \subseteq Nat

VARIABLES
    active,   \* workflows with status active
    meets,    \* pairs whose contact meets the filter
    rows,     \* workflow_trigger_memberships
    tick,     \* phase 4 of the tick that is open, or None
    request,  \* what each activation has read, or None
    owed,     \* history: has the pair come in since it last fired?
    fired,    \* history: runs started and committed, by pair
    mailed,   \* history: first emails given to Gmail, by pair
    counts    \* moves, requests, faults and ticks rolled back so far

vars == <<active, meets, rows, tick, request, owed, fired, mailed, counts>>

Tick == [todo    : SUBSET Pairs,   \* came in, still to treat
         new     : SUBSET Pairs,   \* rows inserted
         started : SUBSET Pairs,   \* runs started
         gone    : SUBSET Pairs]   \* rows to be deleted

Request == [workflow : Workflows,
            met      : SUBSET Pairs,   \* in the filter when it read
            seed     : SUBSET Pairs,   \* without a row when it read
            was      : BOOLEAN]        \* active when it read

ASSUME NoneAssumption == None \notin Tick \cup Request

Of(w) == {p \in Pairs : p[1] = w}
On == {p \in Pairs : p[1] \in active}
Spend(what) == counts' = [counts EXCEPT ![what] = @ + 1]

-----------------------------------------------------------------------------
(* Contacts and requests                                                   *)

ComesIn(p) ==
    /\ counts.moves < MaxMoves /\ Spend("moves")
    /\ p \notin meets
    /\ meets' = meets \cup {p}
    /\ owed' = [owed EXCEPT ![p] = "yes"]
    /\ UNCHANGED <<active, rows, tick, request, fired, mailed>>

Leaves(p) ==
    /\ counts.moves < MaxMoves /\ Spend("moves")
    /\ p \in meets
    /\ meets' = meets \ {p}
    /\ UNCHANGED <<active, rows, tick, request, owed, fired, mailed>>

\* pause_workflow
Pause(w) ==
    /\ counts.requests < MaxRequests /\ Spend("requests")
    /\ active' = active \ {w}
    /\ UNCHANGED <<meets, rows, tick, request, owed, fired, mailed>>

\* Mutant of BeginActivate: contacts without their workflow are seeded.
BeginActivate_ContactsOnly(c, w) ==
    /\ counts.requests < MaxRequests /\ Spend("requests")
    /\ request[c] = None
    /\ request' = [request EXCEPT ![c] =
          [workflow |-> w, met |-> meets \cap Of(w), seed |-> {p[2] : p \in meets \cap Of(w)},
           was |-> w \in active]]
    /\ UNCHANGED <<active, meets, rows, tick, owed, fired, mailed>>

\* activate_workflow, of an active workflow too: _seed_matches_conditions_baseline
\* reads who meets the filter and has no row ...
BeginActivate(c, w) ==
    /\ counts.requests < MaxRequests /\ Spend("requests")
    /\ request[c] = None
    /\ request' = [request EXCEPT ![c] =
          [workflow |-> w, met |-> meets \cap Of(w), seed |-> (meets \cap Of(w)) \ rows,
           was |-> w \in active]]
    /\ UNCHANGED <<active, meets, rows, tick, owed, fired, mailed>>

\* Is the row of p about to be deleted by the tick that is open?
Doomed(p) == tick # None /\ p \in tick.gone

Based(q) == [p \in Pairs |->
                IF p \notin q.met THEN owed[p]
                ELSE IF p \in rows \cup q.seed /\ ~Doomed(p) THEN "based" ELSE "raced"]

\* ... inserts their rows, waiting for those a tick has inserted, and commits.  A
\* row that is there meanwhile fails the request.  The column status is written if
\* it changes.
EndActivate(c) ==
    LET q == request[c] IN
    /\ q # None
    /\ tick # None => q.seed \cap tick.new = {}
    /\ IF q.seed \cap rows # {} THEN UNCHANGED <<active, rows, owed>>
       ELSE /\ rows' = rows \cup q.seed
            /\ active' = IF q.was THEN active ELSE active \cup {q.workflow}
            /\ owed' = Based(q)
    /\ request' = [request EXCEPT ![c] = None]
    /\ UNCHANGED <<meets, tick, fired, mailed, counts>>

-----------------------------------------------------------------------------
(* The tick                                                                *)

\* Mutant of TickBegins: departed rows are deleted without reentry too.
TickBegins_AllDepart ==
    /\ tick = None
    /\ tick' = [todo |-> (meets \cap On) \ rows, new |-> {}, started |-> {},
                gone |-> (rows \cap On) \ meets]
    /\ UNCHANGED <<active, meets, rows, request, owed, fired, mailed, counts>>

\* current_ids, rows, entered and departed of every active workflow, as the
\* snapshot of the tick has them.
TickBegins ==
    /\ tick = None
    /\ tick' = [todo |-> (meets \cap On) \ rows, new |-> {}, started |-> {},
                gone |-> {p \in (rows \cap On) \ meets : p[1] \in Reentry}]
    /\ UNCHANGED <<active, meets, rows, request, owed, fired, mailed, counts>>

Takes(p) == tick # None /\ p \in tick.todo
More(p) == [mailed EXCEPT ![p] = @ + 1]
Treated(p) == [tick EXCEPT !.todo = @ \ {p}, !.new = @ \cup {p}]

\* Mutants of Enters: a contact that starts no run gets no row; no unique index.
Enters_RowWithRun(p) ==
    /\ Takes(p) /\ p \notin rows
    /\ \/ /\ tick' = [Treated(p) EXCEPT !.started = @ \cup {p}]
          /\ mailed' = More(p)
       \/ /\ tick' = [tick EXCEPT !.todo = @ \ {p}]
          /\ UNCHANGED mailed
    /\ UNCHANGED <<active, meets, rows, request, owed, fired, counts>>
Enters_NoIndex(p) ==
    /\ Takes(p)
    /\ \/ /\ tick' = [Treated(p) EXCEPT !.started = @ \cup {p}]
          /\ mailed' = More(p)
       \/ /\ tick' = Treated(p)
          /\ UNCHANGED mailed
    /\ UNCHANGED <<active, meets, rows, request, owed, fired, counts>>

\* The row is inserted, then the run started and advanced, here through an email
\* that leaves at once.  A private workflow starts none for a contact of others,
\* nor does a workflow that cannot start: the row stays.
Enters(p) ==
    /\ Takes(p) /\ p \notin rows
    /\ \/ /\ tick' = [Treated(p) EXCEPT !.started = @ \cup {p}]
          /\ mailed' = More(p)
       \/ /\ tick' = Treated(p)
          /\ UNCHANGED mailed
    /\ UNCHANGED <<active, meets, rows, request, owed, fired, counts>>

\* The exception handler of phase 4, or the COMMIT that raises: the whole tick is
\* undone, other than what left by mail.
RolledBack ==
    /\ tick' = None
    /\ UNCHANGED <<active, meets, rows, request, owed, fired>>

\* An activation inserted the row after the snapshot: the unique index refuses
\* ours.
Collides(p) ==
    /\ Takes(p) /\ p \in rows
    /\ RolledBack
    /\ Spend("lost")
    /\ UNCHANGED mailed

Fault == counts.faults < MaxFaults
         /\ counts' = [counts EXCEPT !.faults = @ + 1, !.lost = @ + 1]

\* Mutant of StepFails: the tick goes on with the next contact.
StepFails_SkipsContact(p) ==
    /\ counts.faults < MaxFaults /\ Spend("faults")
    /\ Takes(p) /\ p \notin rows
    /\ tick' = [tick EXCEPT !.todo = @ \ {p}]
    /\ mailed' \in {mailed, More(p)}
    /\ UNCHANGED <<active, meets, rows, request, owed, fired>>

\* A step answers failed, before or after an email: advance_run raises, and
\* nothing in phase 4 catches it for this contact alone.
StepFails(p) ==
    /\ Fault
    /\ Takes(p) /\ p \notin rows
    /\ RolledBack
    /\ mailed' \in {mailed, More(p)}

\* The worker is killed.
Killed ==
    /\ Fault
    /\ tick # None
    /\ RolledBack
    /\ UNCHANGED mailed

\* Mutant of TickCommits: only those that started no run get a row.
TickCommits_ForgetsStarted ==
    /\ tick # None /\ tick.todo = {}
    /\ tick' = None
    /\ rows' = (rows \cup (tick.new \ tick.started)) \ tick.gone
    /\ owed' = [p \in Pairs |-> IF p \in tick.started THEN "no" ELSE owed[p]]
    /\ fired' = [p \in Pairs |-> IF p \in tick.started THEN fired[p] + 1 ELSE fired[p]]
    /\ UNCHANGED <<active, meets, request, mailed, counts>>

\* The one COMMIT of the tick.
TickCommits ==
    /\ tick # None /\ tick.todo = {}
    /\ tick' = None
    /\ rows' = (rows \cup tick.new) \ tick.gone
    /\ owed' = [p \in Pairs |-> IF p \in tick.started THEN "no" ELSE owed[p]]
    /\ fired' = [p \in Pairs |-> IF p \in tick.started THEN fired[p] + 1 ELSE fired[p]]
    /\ UNCHANGED <<active, meets, request, mailed, counts>>

TickStep == TickBegins \/ TickCommits \/ \E p \in Pairs : Enters(p) \/ Collides(p)

-----------------------------------------------------------------------------
\* Before it is ever activated a workflow has no rows.
Init ==
    /\ active = {} /\ rows = {} /\ tick = None
    /\ meets \in SUBSET Pairs
    /\ request = [c \in Clients |-> None]
    /\ owed = [p \in Pairs |-> IF p \in meets THEN "yes" ELSE "no"]
    /\ fired = [p \in Pairs |-> 0]
    /\ mailed = [p \in Pairs |-> 0]
    /\ counts = [moves |-> 0, requests |-> 0, faults |-> 0, lost |-> 0]

Next ==
    \/ TickStep \/ Killed
    \/ \E p \in Pairs : ComesIn(p) \/ Leaves(p) \/ StepFails(p)
    \/ \E w \in Workflows : Pause(w)
    \/ \E c \in Clients : EndActivate(c) \/ \E w \in Workflows : BeginActivate(c, w)

Spec == Init /\ [][Next]_vars

\* A tick comes every 30 s (Heartbeat) and is worked off; requests may hang.
LiveSpec == Spec /\ WF_vars(TickStep)

-----------------------------------------------------------------------------
(* Properties                                                              *)

\* Every variable has the shape of the tables and of the tick's local sets.
TypeOK ==
    /\ active \subseteq Workflows
    /\ meets \subseteq Pairs /\ rows \subseteq Pairs
    /\ tick \in Tick \cup {None}
    /\ request \in [Clients -> Request \cup {None}]
    /\ owed \in [Pairs -> {"no", "yes", "based", "raced"}]
    /\ fired \in [Pairs -> Nat] /\ mailed \in [Pairs -> Nat]
    /\ counts \in [{"moves", "requests", "faults", "lost"} -> Nat]

Fires(p) == fired'[p] > fired[p]

\* A contact fires only if it has come in since it fired last, whatever ticks were
\* rolled back and whatever was paused and activated in between.
FiresOnTransition == [][\A p \in Pairs : Fires(p) => owed[p] # "no"]_vars

\* A contact that meets the filter when its workflow is activated does not fire for
\* it.  With reentry one race is left: a tick that saw the contact gone deletes its
\* row after the activation has counted on it ("raced").
BaselineHolds ==
    [][\A p \in Pairs : Fires(p) => owed[p] \in {"yes"} \cup
          (IF p[1] \in Reentry THEN {"raced"} ELSE {})]_vars

\* Without reentry a contact fires once and never again.
FiresOnce == \A p \in Pairs : p[1] \notin Reentry => fired[p] <= 1

\* No more emails leave than runs start, but for one per tick that was rolled back.
MailedOncePerRun ==
    \A p \in Pairs : mailed[p] <= fired[p] + counts.lost
                                  + (IF tick # None /\ p \in tick.started THEN 1 ELSE 0)

\* A contact that comes in and stays is noted, as long as its workflow is active,
\* although ticks are killed and rolled back.
ComesInIsNoted ==
    \A p \in Pairs : p \in meets \ rows /\ p[1] \in active
                        ~> p \in rows \/ p \notin meets \/ p[1] \notin active

\* What keeps the first three true: who is outside the rows, or about to be, came in
\* since it fired, and a tick writes no row that is there.
Entitled(p) == owed[p] \in {"yes", "raced"}
OutsideIsOwed == \A p \in meets \ rows : Entitled(p)
TickIsOwed ==
    tick # None =>
        /\ \A p \in meets \cap tick.gone : Entitled(p)
        /\ \A p \in (tick.todo \cup tick.started) \ rows : Entitled(p)
        /\ tick.started \subseteq tick.new /\ tick.gone \subseteq rows
        /\ tick.new \cap (rows \cup tick.todo \cup tick.gone) = {}
OnceIsKept ==
    \A p \in Pairs : p[1] \notin Reentry =>
        /\ fired[p] > 0 \/ owed[p] = "based" => p \in rows
        /\ owed[p] # "raced"
        /\ tick # None => p \notin tick.gone
RequestsAgree ==
    \A c \in Clients : request[c] # None =>
        \A p \in request[c].met : p[1] \notin Reentry => p \in rows \cup request[c].seed
MembershipInv == OutsideIsOwed /\ TickIsOwed /\ OnceIsKept /\ RequestsAgree
=============================================================================
