-------------------------- MODULE OneWorker_proofs --------------------------
(***************************************************************************)
(* Proofs about the engine with one worker: the waits of a run go with its *)
(* state, and a run marked for cancellation is not revived; and with one   *)
(* process alone: the engine implements RunLifecycle.  Each function of    *)
(* the engine is reduced to what it does to the transaction (Moves, Parks, *)
(* Ends, ...), and these few effects keep OneInv and AloneInv.             *)
(***************************************************************************)
EXTENDS OneWorker, WorkflowRuns_proofs, FiniteSetTheorems

-----------------------------------------------------------------------------
(* What the functions of the engine do to a transaction s, from s to t     *)

\* Row r becomes row, and what differs is flushed.
Puts(s, t, r, row) ==
    /\ row \in Row
    /\ t.view = [s.view EXCEPT ![r] = row]
    /\ \A x \in Runs \ {r} : t.dirty[x] = s.dirty[x]
    /\ s.dirty[r] \subseteq t.dirty[r]
    /\ \A c \in Cols : row[c] # s.view[r][c] => c \in t.dirty[r]
SameWaits(s, t) == t.added = s.added /\ t.gone = s.gone /\ t.purged = s.purged
SameCount(s, t) == t.count = s.count /\ t.bumped = s.bumped
SamePlace(s, t) ==
    t.phase = s.phase /\ t.runs = s.runs /\ t.waits = s.waits /\ t.admit = s.admit

\* The step after a along some branch.
Onward(a, b) == a \in Steps /\ \E label : b = NextStep(a, label)

\* The tables are not touched.
Stays(s, t) == t.view = s.view /\ t.dirty = s.dirty /\ SameWaits(s, t) /\ SameCount(s, t)

\* A live run goes to row: a further step, or a date to wait for.
Moves(s, t, r, row) ==
    LET v == s.view[r] IN
    /\ v.state \notin Terminal \cup {Parked, "cancelling"}
    /\ Puts(s, t, r, row) /\ SameWaits(s, t) /\ SameCount(s, t)
    /\ row.state \in {v.state, "waiting"} /\ row.contact = v.contact /\ row.key = v.key
    /\ row.step = v.step \/ Onward(v.step, row.step)

\* A live run stops to listen at its step, in the name of p.
Parks(p, s, t, r) ==
    LET v == s.view[r] IN
    /\ v.state \notin Terminal \cup {Parked, "cancelling"} /\ v.step \in Steps
    /\ t.added = s.added \cup {<<r, v.step, p>>} /\ t.gone = s.gone /\ t.purged = s.purged
    /\ SameCount(s, t)
    /\ \E row : /\ Puts(s, t, r, row)
                /\ row.state = Parked /\ row.contact = v.contact /\ row.key = v.key

\* A run ends as k, and is counted.
Ends(s, t, r, k) ==
    LET v == s.view[r] IN
    /\ v.state \notin Terminal /\ k \in Terminal
    /\ v.state = "cancelling" => k = "cancelled"
    /\ t.added = {x \in s.added : x[1] # r} /\ t.gone = s.gone /\ t.purged = s.purged \cup {r}
    /\ t.count = [s.count EXCEPT ![k] = @ + 1] /\ t.bumped = s.bumped \cup {k}
    /\ \E row : /\ Puts(s, t, r, row)
                /\ row.state = k /\ row.contact = v.contact /\ row.key = "archived"

\* A running run is marked for cancellation.
Marks(s, t, r) ==
    LET v == s.view[r] IN
    /\ v.state = "running"
    /\ Puts(s, t, r, [v EXCEPT !.state = "cancelling"]) /\ SameWaits(s, t) /\ SameCount(s, t)

\* The wait x of a run that listens is over.
Wakes(s, t, x) ==
    LET r == x[1]
        v == s.view[r]
    IN  /\ v.state = Parked
        /\ t.added = s.added \ {x} /\ t.gone = s.gone \cup {x} /\ t.purged = s.purged
        /\ SameCount(s, t)
        /\ \E row : /\ Puts(s, t, r, row) /\ Onward(x[2], row.step)
                    /\ row.state = "running" /\ row.contact = v.contact /\ row.key = v.key

\* The wait x of a run that does not listen is deleted.
Drops(s, t, x) ==
    /\ s.view[x[1]].state # Parked
    /\ t.view = s.view /\ t.dirty = s.dirty /\ SameCount(s, t)
    /\ t.added = s.added \ {x} /\ t.gone = s.gone \cup {x} /\ t.purged = s.purged

\* Run r of contact c is inserted at a step.
Births(s, t, r, c, step) ==
    /\ c \in Contacts
    /\ t.dirty[r] = Cols /\ SameWaits(s, t)
    /\ t.count = [s.count EXCEPT !["entered"] = @ + 1]
    /\ t.bumped = s.bumped \cup {"entered"}
    /\ \E row : /\ Puts(s, t, r, row)
                /\ row.state = "running" /\ row.contact = c /\ row.step = step
                /\ row.key \in {"slot", "own"}

LEMMA WritePuts ==
    ASSUME NEW s \in Session, NEW r \in Runs, NEW row \in Row
    PROVE  LET t == Write(s, r, row) IN
           /\ t \in Session
           /\ Puts(s, t, r, row) /\ SameWaits(s, t) /\ SameCount(s, t) /\ SamePlace(s, t)
           /\ t.cur = s.cur
<1>1. Write(s, r, row) \in Session BY WriteType
<1>2. LET t == Write(s, r, row) IN
        /\ t.view = [s.view EXCEPT ![r] = row]
        /\ t.dirty = [s.dirty EXCEPT ![r] = @ \cup {c \in Cols : row[c] # s.view[r][c]}]
        /\ SameWaits(s, t) /\ SameCount(s, t) /\ SamePlace(s, t) /\ t.cur = s.cur
  BY DEF Write, Session, SameWaits, SameCount, SamePlace
<1>3. s.dirty \in [Runs -> SUBSET Cols] BY DEF Session
<1> HIDE DEF Write
<1> QED BY <1>1, <1>2, <1>3 DEF Puts

LEMMA LogStays ==
    ASSUME NEW s \in Session, NEW r \in Runs, s.view[r].step \in Steps,
           NEW status \in {"ok", "skipped", "deferred", "failed"}
    PROVE  LET t == Log(s, r, status) IN
           t \in Session /\ Stays(s, t) /\ SamePlace(s, t) /\ t.cur = s.cur /\ t.fuel = s.fuel
<1>1. Log(s, r, status) \in Session BY LogType
<1> QED BY <1>1 DEF Log, Session, Stays, SameWaits, SameCount, SamePlace

LEMMA ReturnStays ==
    ASSUME NEW s \in Session
    PROVE  /\ Return(s) \in Session /\ Stays(s, Return(s)) /\ SamePlace(s, Return(s))
           /\ Return(s).cur = None
           /\ Stays(s, Further(s)) /\ SamePlace(s, Further(s)) /\ Further(s).cur = s.cur
BY ReturnType DEF Return, Further, Session, Stays, SameWaits, SameCount, SamePlace

LEMMA FinalizeEnds ==
    ASSUME NEW s \in Session, NEW r \in Runs, NEW k \in Terminal,
           s.view[r].state \notin Terminal, s.view[r].state = "cancelling" => k = "cancelled"
    PROVE  LET t == Finalize(s, r, k) IN
           t \in Session /\ Ends(s, t, r, k) /\ SamePlace(s, t) /\ t.cur = s.cur
<1> DEFINE row == [s.view[r] EXCEPT !.state = k, !.wake = "never", !.key = "archived"]
           t == Write(s, r, row)
           f == [t EXCEPT !.purged = @ \cup {r}, !.added = {x \in @ : x[1] # r}]
           u == Finalize(s, r, k)
<1>1. s.view[r] \in Row BY DEF Session
<1>2. /\ row \in Row /\ row.state = k /\ row.key = "archived"
      /\ row.contact = s.view[r].contact
  BY <1>1 DEF Row
<1> HIDE DEF row
<1>3. /\ t \in Session /\ Puts(s, t, r, row) /\ SameWaits(s, t) /\ SameCount(s, t)
      /\ SamePlace(s, t) /\ t.cur = s.cur
  BY <1>2, WritePuts
<1>4. u = Bump(f, k) BY DEF Finalize, row
<1>5. u \in Session BY FinalizeType
<1> HIDE DEF t, u
<1>6. /\ u.view = t.view /\ u.dirty = t.dirty /\ u.gone = t.gone
      /\ u.purged = t.purged \cup {r} /\ u.added = {x \in t.added : x[1] # r}
      /\ u.count = [t.count EXCEPT ![k] = @ + 1] /\ u.bumped = t.bumped \cup {k}
      /\ SamePlace(t, u) /\ u.cur = t.cur
  BY <1>3, <1>4 DEF Bump, Session, SamePlace
<1>7. Puts(s, u, r, row) BY <1>3, <1>6 DEF Puts
<1>8. Ends(s, u, r, k) BY <1>2, <1>3, <1>6, <1>7 DEF Ends, SameWaits, SameCount
<1>9. SamePlace(s, u) /\ u.cur = s.cur BY <1>3, <1>6 DEF SamePlace
<1> QED BY <1>5, <1>8, <1>9 DEF u

\* A step that is left by its last edge ends the run: one change of the row.
LEMMA MovesEnds ==
    ASSUME NEW s \in Session, NEW t, NEW u, NEW r \in Runs, NEW row, NEW k,
           Moves(s, t, r, row), row.state = s.view[r].state, Ends(t, u, r, k)
    PROVE  Ends(s, u, r, k)
<1> DEFINE v == s.view[r]
<1>1. t.view = [s.view EXCEPT ![r] = row] /\ t.view[r] = row BY DEF Moves, Puts, Session
<1>2. PICK end : /\ Puts(t, u, r, end)
                 /\ end.state = k /\ end.contact = row.contact /\ end.key = "archived"
  BY <1>1 DEF Ends
<1>3. u.view = [s.view EXCEPT ![r] = end] BY <1>1, <1>2 DEF Puts, Session
<1>4. Puts(s, u, r, end) BY <1>1, <1>2, <1>3 DEF Moves, Puts
<1>5. end.contact = v.contact BY <1>2 DEF Moves
<1>6. /\ v.state \notin Terminal /\ k \in Terminal
      /\ v.state = "cancelling" => k = "cancelled"
      /\ u.added = {x \in s.added : x[1] # r} /\ u.gone = s.gone
      /\ u.purged = s.purged \cup {r}
      /\ u.count = [s.count EXCEPT ![k] = @ + 1] /\ u.bumped = s.bumped \cup {k}
  BY DEF Ends, Moves, SameWaits, SameCount
<1> HIDE DEF v
<1> QED BY <1>2, <1>4, <1>5, <1>6 DEF Ends, v

LEMMA StaysThen ==
    ASSUME NEW s, NEW t, NEW u, Stays(s, t), NEW p, NEW r, NEW k, NEW x
    PROVE  /\ Stays(t, u) => Stays(s, u)
           /\ \A row : Moves(t, u, r, row) => Moves(s, u, r, row)
           /\ Ends(t, u, r, k) => Ends(s, u, r, k)
           /\ Parks(p, t, u, r) => Parks(p, s, u, r)
           /\ Marks(t, u, r) => Marks(s, u, r)
           /\ Wakes(t, u, x) => Wakes(s, u, x)
           /\ Drops(t, u, x) => Drops(s, u, x)
           /\ \A c, step : Births(t, u, r, c, step) => Births(s, u, r, c, step)
<1> USE DEF Stays, SameWaits, SameCount
<1>1. \A y, row : Puts(t, u, y, row) <=> Puts(s, u, y, row) BY DEF Puts
<1>2. Stays(t, u) => Stays(s, u) OBVIOUS
<1>3. \A row : Moves(t, u, r, row) => Moves(s, u, r, row) BY <1>1 DEF Moves
<1>4. Ends(t, u, r, k) => Ends(s, u, r, k) BY <1>1 DEF Ends
<1>5. Parks(p, t, u, r) => Parks(p, s, u, r) BY <1>1 DEF Parks
<1>6. Marks(t, u, r) => Marks(s, u, r) BY <1>1 DEF Marks
<1>7. Wakes(t, u, x) => Wakes(s, u, x) BY <1>1 DEF Wakes
<1>8. Drops(t, u, x) => Drops(s, u, x) BY DEF Drops
<1>9. \A c, step : Births(t, u, r, c, step) => Births(s, u, r, c, step) BY <1>1 DEF Births
<1> QED BY <1>2, <1>3, <1>4, <1>5, <1>6, <1>7, <1>8, <1>9

LEMMA ThenStays ==
    ASSUME NEW s, NEW t, NEW u, Stays(t, u), NEW p, NEW r, NEW k, NEW x
    PROVE  /\ \A row : Moves(s, t, r, row) => Moves(s, u, r, row)
           /\ Ends(s, t, r, k) => Ends(s, u, r, k)
           /\ Parks(p, s, t, r) => Parks(p, s, u, r)
           /\ Wakes(s, t, x) => Wakes(s, u, x)
           /\ \A c, step : Births(s, t, r, c, step) => Births(s, u, r, c, step)
<1> USE DEF Stays, SameWaits, SameCount
<1>1. \A y, row : Puts(s, t, y, row) <=> Puts(s, u, y, row) BY DEF Puts
<1>2. \A row : Moves(s, t, r, row) => Moves(s, u, r, row) BY <1>1 DEF Moves
<1>3. Ends(s, t, r, k) => Ends(s, u, r, k) BY <1>1 DEF Ends
<1>4. Parks(p, s, t, r) => Parks(p, s, u, r) BY <1>1 DEF Parks
<1>5. Wakes(s, t, x) => Wakes(s, u, x) BY <1>1 DEF Wakes
<1>6. \A c, step : Births(s, t, r, c, step) => Births(s, u, r, c, step)
  <2>1. t.dirty = u.dirty OBVIOUS
  <2> QED BY <1>1, <2>1 DEF Births
<1> QED BY <1>2, <1>3, <1>4, <1>5, <1>6

\* Following a branch moves the run on, or ends it as completed.
LEMMA FollowEffect ==
    ASSUME NEW s \in Session, NEW r \in Runs, s.view[r].step \in Steps, s.fuel > 0,
           s.view[r].state \notin Terminal \cup {Parked, "cancelling"}, NEW label
    PROVE  LET t == Follow(s, r, label) IN
           /\ t \in Session /\ SamePlace(s, t) /\ t.cur \in {s.cur, None}
           /\ \/ \E row : /\ Moves(s, t, r, row) /\ row.state = s.view[r].state
                          /\ Onward(s.view[r].step, row.step)
              \/ Ends(s, t, r, "completed")
<1> DEFINE next == NextStep(s.view[r].step, label)
           row == [s.view[r] EXCEPT !.step = next]
           t == Write(s, r, row)
           f == Finalize(t, r, "completed")
           u == Follow(s, r, label)
<1>1. s.view[r] \in Row BY DEF Session
<1>2. next \in Steps \cup {None} BY NextStepType
<1>3. /\ row \in Row /\ row.key = s.view[r].key /\ row.state = s.view[r].state
      /\ row.contact = s.view[r].contact /\ row.step = next
  BY <1>1, <1>2 DEF Row
<1>4. Onward(s.view[r].step, row.step) BY <1>3 DEF Onward
<1>5. u \in Session BY FollowType
<1>6. u \in {Return(f), Further(t)} BY DEF Follow
<1> HIDE DEF row, u
<1>7. /\ t \in Session /\ Puts(s, t, r, row) /\ SameWaits(s, t) /\ SameCount(s, t)
      /\ SamePlace(s, t) /\ t.cur = s.cur
  BY <1>3, WritePuts
<1> HIDE DEF t
<1>8. Moves(s, t, r, row) BY <1>3, <1>4, <1>7 DEF Moves
<1>9. t.view[r] = row BY <1>7 DEF Puts, Session
<1>10. f \in Session /\ Ends(t, f, r, "completed") /\ SamePlace(t, f) /\ f.cur = t.cur
  BY <1>3, <1>7, <1>9, FinalizeEnds DEF Terminal
<1> HIDE DEF f
<1>11. Ends(s, f, r, "completed") BY <1>3, <1>8, <1>10, MovesEnds
<1>12. CASE u = Further(t)
  <2>1. Stays(t, u) /\ SamePlace(t, u) /\ u.cur = t.cur BY <1>7, <1>12, ReturnStays
  <2>2. Moves(s, u, r, row) BY <1>8, <2>1, ThenStays
  <2>3. SamePlace(s, u) /\ u.cur = s.cur BY <1>7, <2>1 DEF SamePlace
  <2> QED BY <1>3, <1>4, <1>5, <2>2, <2>3 DEF u
<1>13. CASE u = Return(f)
  <2>1. Stays(f, u) /\ SamePlace(f, u) /\ u.cur = None BY <1>10, <1>13, ReturnStays
  <2>2. Ends(s, u, r, "completed") BY <1>11, <2>1, ThenStays
  <2>3. SamePlace(s, u) BY <1>7, <1>10, <2>1 DEF SamePlace
  <2> QED BY <1>5, <2>1, <2>2, <2>3 DEF u
<1> QED BY <1>6, <1>12, <1>13

\* What becomes of a run by the answer of its handler.
LEMMA AppliedEffect ==
    ASSUME NEW p \in Procs, NEW s \in Session, NEW r \in Runs,
           s.view[r].step \in Steps, s.fuel > 0,
           s.view[r].state \notin Terminal \cup {Parked, "cancelling"},
           NEW a \in AnswersOf(s.view[r].step) \ {"failed"},
           NEW t \in Applied(p, s, r, a)
    PROVE  /\ t \in Session /\ SamePlace(s, t) /\ t.cur \in {s.cur, None}
           /\ \/ \E row : /\ Moves(s, t, r, row)
                          /\ a = "default" => Onward(s.view[r].step, row.step)
              \/ \E k : Ends(s, t, r, k)
              \/ Parks(p, s, t, r) /\ a # "default"
<1> DEFINE v == s.view[r]
           ok == Log(s, r, "ok")
           heard == NextStep(v.step, "matched")
           listening == [v EXCEPT !.state = "waiting_for_event", !.wake = "later",
                           !.step = IF heard # None THEN heard ELSE v.step]
           sleeping(wake) == [v EXCEPT !.state = "waiting", !.wake = wake,
                                       !.step = NextStep(v.step, "default")]
           Goal == /\ t \in Session /\ SamePlace(s, t) /\ t.cur \in {s.cur, None}
                   /\ \/ \E row : /\ Moves(s, t, r, row)
                                  /\ a = "default" => Onward(s.view[r].step, row.step)
                      \/ \E k : Ends(s, t, r, k)
                      \/ Parks(p, s, t, r) /\ a # "default"
<1> SUFFICES Goal OBVIOUS
<1>1. v \in Row BY DEF Session
<1>2. \A status \in {"ok", "skipped", "deferred", "failed"} :
         /\ Log(s, r, status) \in Session /\ Stays(s, Log(s, r, status))
         /\ SamePlace(s, Log(s, r, status))
         /\ Log(s, r, status).cur = s.cur /\ Log(s, r, status).fuel = s.fuel
  BY LogStays
<1>3. a \in AllAnswers \ {"failed"}
  <2>1. StepType[v.step] \in DOMAIN Answers BY GraphAssumption
  <2> QED BY <2>1 DEF AnswersOf, Answers, AllAnswers, Labels, EmailAnswers, TouchAnswers,
                     TestAnswers, CaseAnswers, NapAnswers, DateAnswers, ListenAnswers
\* A write of a waiting row after a log entry, and the return after it.
<1>4. ASSUME NEW status \in {"ok", "skipped", "deferred", "failed"}, NEW row \in Row,
             row.key = v.key, row.contact = v.contact, row.state = "waiting",
             row.step = v.step \/ Onward(v.step, row.step), a # "default",
             t = Return(Write(Log(s, r, status), r, row))
      PROVE  Goal
  <2> DEFINE l == Log(s, r, status)
             u == Write(l, r, row)
  <2>1. l \in Session /\ Stays(s, l) /\ SamePlace(s, l) /\ l.cur = s.cur BY <1>2
  <2> HIDE DEF l
  <2>2. /\ u \in Session /\ Puts(l, u, r, row) /\ SameWaits(l, u) /\ SameCount(l, u)
        /\ SamePlace(l, u) /\ u.cur = l.cur
    BY <2>1, WritePuts
  <2> HIDE DEF u
  <2>3. l.view = s.view BY <2>1 DEF Stays
  <2>4. Moves(l, u, r, row) BY <1>4, <2>2, <2>3 DEF Moves
  <2>5. t \in Session /\ Stays(u, t) /\ SamePlace(u, t) /\ t.cur = None
    BY <1>4, <2>2, ReturnStays DEF u, l
  <2>6. Moves(s, t, r, row) BY <2>1, <2>4, <2>5, StaysThen, ThenStays
  <2>7. SamePlace(s, t) BY <2>1, <2>2, <2>5 DEF SamePlace
  <2> QED BY <1>4, <2>5, <2>6, <2>7
<1>5. ASSUME NEW status \in {"ok", "skipped", "deferred", "failed"}, NEW k \in Terminal,
             t = Return(Finalize(Log(s, r, status), r, k))
      PROVE  Goal
  <2> DEFINE l == Log(s, r, status)
             u == Finalize(l, r, k)
  <2>1. l \in Session /\ Stays(s, l) /\ SamePlace(s, l) /\ l.view = s.view /\ l.cur = s.cur
    BY <1>2 DEF Stays
  <2> HIDE DEF l
  <2>2. u \in Session /\ Ends(l, u, r, k) /\ SamePlace(l, u) /\ u.cur = l.cur
    BY <2>1, FinalizeEnds
  <2> HIDE DEF u
  <2>3. t \in Session /\ Stays(u, t) /\ SamePlace(u, t) /\ t.cur = None
    BY <1>5, <2>2, ReturnStays DEF u, l
  <2>4. Ends(s, t, r, k) BY <2>1, <2>2, <2>3, StaysThen, ThenStays
  <2>5. SamePlace(s, t) BY <2>1, <2>2, <2>3 DEF SamePlace
  <2> QED BY <2>3, <2>4, <2>5
<1>6. ASSUME NEW status \in {"ok", "skipped", "deferred", "failed"}, NEW label,
             t = Follow(Log(s, r, status), r, label)
      PROVE  Goal
  <2> DEFINE l == Log(s, r, status)
  <2>1. /\ l \in Session /\ Stays(s, l) /\ SamePlace(s, l) /\ l.view = s.view
        /\ l.cur = s.cur /\ l.fuel = s.fuel
    BY <1>2 DEF Stays
  <2>2. t = Follow(l, r, label) BY <1>6
  <2> HIDE DEF l
  <2>3. /\ t \in Session /\ SamePlace(l, t) /\ t.cur \in {l.cur, None}
        /\ \/ \E row : Moves(l, t, r, row) /\ Onward(v.step, row.step)
           \/ Ends(l, t, r, "completed")
    BY <2>1, <2>2, FollowEffect
  <2>4. \/ \E row : Moves(s, t, r, row) /\ Onward(v.step, row.step)
        \/ Ends(s, t, r, "completed")
    BY <2>1, <2>3, StaysThen
  <2>5. SamePlace(s, t) BY <2>1, <2>3 DEF SamePlace
  <2> QED BY <2>1, <2>3, <2>4, <2>5
<1>7. CASE a \in {"raise", "exit"}
  <2>1. \/ t = Return(Finalize(Log(s, r, "failed"), r, "failed"))
        \/ t = Return(Finalize(Log(s, r, "ok"), r, "completed"))
    BY <1>7 DEF Applied, Labels
  <2> HIDE DEF Goal
  <2> QED BY <2>1, <1>5 DEF Terminal
<1>8. CASE a = "deferred"
  <2> DEFINE row == [v EXCEPT !.state = "waiting", !.wake = "later"]
  <2>1. /\ row \in Row /\ row.key = v.key /\ row.contact = v.contact
        /\ row.state = "waiting" /\ row.step = v.step
    BY <1>1 DEF Row, Live
  <2>2. t = Return(Write(Log(s, r, "deferred"), r, row)) BY <1>8 DEF Applied, Labels
  <2> HIDE DEF row, Goal
  <2> QED BY <1>8, <2>1, <2>2, <1>4
<1>9. CASE a = "sleep"
  <2>1. PICK wake \in {"due", "later"} : t = Return(Write(ok, r, sleeping(wake)))
    BY <1>9 DEF Applied, Labels
  <2>2. /\ sleeping(wake) \in Row /\ sleeping(wake).key = v.key
        /\ sleeping(wake).contact = v.contact /\ sleeping(wake).state = "waiting"
        /\ sleeping(wake).step = NextStep(v.step, "default")
    BY <1>1, NextStepType DEF Row, Live
  <2> HIDE DEF sleeping, Goal
  <2>3. Onward(v.step, sleeping(wake).step) BY <2>2 DEF Onward
  <2> QED BY <1>9, <2>1, <2>2, <2>3, <1>4
<1>10. CASE a = "listen"
  <2> DEFINE u == Write(ok, r, listening)
             w == <<r, v.step, p>>
             x == [u EXCEPT !.added = @ \cup {w}]
  <2>1. /\ listening \in Row /\ listening.key = v.key /\ listening.contact = v.contact
        /\ listening.state = Parked
    <3>1. (IF heard # None THEN heard ELSE v.step) \in Steps \cup {None}
      BY NextStepType
    <3> QED BY <1>1, <3>1 DEF Row, Live, Parked
  <2>2. t = Return(x) BY <1>10 DEF Applied, Labels
  <2>3. w \in WaitIds BY DEF WaitIds
  <2>4. ok \in Session /\ Stays(s, ok) /\ SamePlace(s, ok) /\ ok.cur = s.cur BY <1>2
  <2> HIDE DEF listening, ok
  <2>5. /\ u \in Session /\ Puts(ok, u, r, listening) /\ SameWaits(ok, u)
        /\ SameCount(ok, u) /\ SamePlace(ok, u) /\ u.cur = ok.cur
    BY <2>1, <2>4, WritePuts
  <2> HIDE DEF u, w
  <2>6. /\ x \in Session /\ x.view = u.view /\ x.dirty = u.dirty /\ x.purged = u.purged
        /\ x.added = u.added \cup {w} /\ x.gone = u.gone /\ SameCount(u, x)
        /\ SamePlace(u, x)
    <3>1. u.added \cup {w} \subseteq WaitIds BY <2>3, <2>5 DEF Session
    <3> QED BY <2>5, <3>1 DEF Session, SameCount, SamePlace
  <2> HIDE DEF x
  <2>7. Puts(ok, x, r, listening) BY <2>5, <2>6 DEF Puts
  <2>8. ok.view = s.view BY <2>4 DEF Stays
  <2>9. SameCount(ok, x) BY <2>5, <2>6 DEF SameCount
  <2>10. Parks(p, ok, x, r)
    BY <2>1, <2>5, <2>6, <2>7, <2>8, <2>9 DEF Parks, SameWaits, w
  <2>11. t \in Session /\ Stays(x, t) /\ SamePlace(x, t) /\ t.cur = None
    BY <2>2, <2>6, ReturnStays
  <2>12. Parks(p, s, t, r) BY <2>4, <2>10, <2>11, StaysThen, ThenStays
  <2>13. SamePlace(s, t) BY <2>4, <2>5, <2>6, <2>11 DEF SamePlace
  <2> QED BY <1>10, <2>11, <2>12, <2>13
<1>11. CASE a = "skipped"
  <2>1. t = Follow(Log(s, r, "skipped"), r, "default") BY <1>11 DEF Applied, Labels
  <2> HIDE DEF Goal
  <2> QED BY <2>1, <1>6
<1>12. CASE a \in Labels
  <2>1. t = Follow(Log(s, r, "ok"), r, a) BY <1>12 DEF Applied, Labels
  <2> HIDE DEF Goal
  <2> QED BY <2>1, <1>6
<1> QED BY <1>3, <1>7, <1>8, <1>9, <1>10, <1>11, <1>12 DEF AllAnswers

LEMMA CancelEffect ==
    ASSUME NEW s \in Session, NEW r \in Runs
    PROVE  LET t == CancelRun(s, r) IN
           /\ t \in Session /\ SamePlace(s, t) /\ t.cur = s.cur
           /\ Stays(s, t) \/ Marks(s, t, r) \/ Ends(s, t, r, "cancelled")
<1> DEFINE v == s.view[r]
           row == [v EXCEPT !.state = "cancelling"]
<1>1. v \in Row BY DEF Session
<1>2. row \in Row BY <1>1 DEF Row, Live
<1>3. CASE v.state \in Terminal
  BY <1>3 DEF CancelRun, SamePlace, Stays, SameWaits, SameCount
<1>4. CASE v.state = "running"
  <2>1. CancelRun(s, r) = Write(s, r, row) BY <1>4 DEF CancelRun, Terminal
  <2> HIDE DEF row
  <2> QED BY <1>2, <1>4, <2>1, WritePuts DEF Marks, row
<1>5. CASE v.state \notin Terminal \cup {"running"}
  <2>1. CancelRun(s, r) = Finalize(s, r, "cancelled") BY <1>5 DEF CancelRun
  <2> QED BY <1>5, <2>1, FinalizeEnds DEF Terminal
<1> QED BY <1>3, <1>4, <1>5

\* A cancellation leaves the step of the run alone.
LEMMA CancelKeepsStep ==
    ASSUME NEW s \in Session, NEW r \in Runs, \A q \in Runs : "step" \notin s.dirty[q]
    PROVE  \A q \in Runs : "step" \notin CancelRun(s, r).dirty[q]
<1> DEFINE v == s.view[r]
<1>1. v \in Row /\ s.dirty \in [Runs -> SUBSET Cols] BY DEF Session
<1>2. ASSUME NEW row \in Row, row.step = v.step
      PROVE  \A q \in Runs : "step" \notin Write(s, r, row).dirty[q]
  <2>1. Write(s, r, row).dirty
          = [s.dirty EXCEPT ![r] = @ \cup {c \in Cols : row[c] # s.view[r][c]}]
    BY DEF Write, Session
  <2>2. row["step"] = s.view[r]["step"] BY <1>2
  <2> HIDE DEF Write
  <2> QED BY <1>1, <2>1, <2>2
<1>3. CASE v.state \in Terminal BY <1>3 DEF CancelRun
<1>4. CASE v.state = "running"
  <2> DEFINE row == [v EXCEPT !.state = "cancelling"]
  <2>1. row \in Row /\ row.step = v.step BY <1>1 DEF Row, Live
  <2>2. CancelRun(s, r) = Write(s, r, row) BY <1>4 DEF CancelRun, Terminal
  <2> HIDE DEF row
  <2> QED BY <1>2, <2>1, <2>2
<1>5. CASE v.state \notin Terminal \cup {"running"}
  <2> DEFINE row == [v EXCEPT !.state = "cancelled", !.wake = "never", !.key = "archived"]
             u == Write(s, r, row)
  <2>1. row \in Row /\ row.step = v.step BY <1>1 DEF Row, Terminal
  <2>2. CancelRun(s, r) = Bump([u EXCEPT !.purged = @ \cup {r},
                                         !.added = {w \in @ : w[1] # r}], "cancelled")
    BY <1>5 DEF CancelRun, Finalize
  <2> HIDE DEF row
  <2>3. u \in Session /\ \A q \in Runs : "step" \notin u.dirty[q]
    BY <1>2, <2>1, WriteType
  <2> HIDE DEF u
  <2> QED BY <2>2, <2>3 DEF Bump, Session
<1> QED BY <1>3, <1>4, <1>5

LEMMA ResumeEffect ==
    ASSUME NEW s \in Session, NEW x \in WaitIds, NEW branch
    PROVE  LET t == ResumeWait(s, x, branch) IN
           /\ t \in Session /\ SamePlace(s, t)
           /\ \/ Wakes(s, t, x) /\ t.cur = x[1]
              \/ Drops(s, t, x) /\ t.cur = s.cur
<1> DEFINE r == x[1]
           v == s.view[r]
           d == [s EXCEPT !.gone = @ \cup {x}, !.added = @ \ {x}]
           row == [v EXCEPT !.step = NextStep(x[2], branch), !.state = "running",
                            !.wake = "due"]
           u == Write(d, r, row)
           t == [u EXCEPT !.cur = r, !.fuel = MaxSteps]
<1>1. r \in Runs /\ x[2] \in Steps BY DEF WaitIds
<1>2. v \in Row BY <1>1 DEF Session
<1>3. /\ row \in Row /\ row.state = "running" /\ row.key = v.key /\ row.contact = v.contact
      /\ Onward(x[2], row.step)
  BY <1>1, <1>2, NextStepType DEF Row, Live, Onward
<1>4. /\ d \in Session /\ d.view = s.view /\ d.dirty = s.dirty /\ d.purged = s.purged
      /\ d.added = s.added \ {x} /\ d.gone = s.gone \cup {x} /\ SameCount(s, d)
      /\ SamePlace(s, d) /\ d.cur = s.cur
  <2>1. s.gone \cup {x} \subseteq WaitIds /\ s.added \ {x} \subseteq WaitIds
    BY DEF Session
  <2> QED BY <2>1 DEF Session, SameCount, SamePlace
<1>5. ResumeWait(s, x, branch) \in Session BY ResumeWaitType
<1>6. CASE v.state # Parked
  <2>1. ResumeWait(s, x, branch) = d BY <1>6 DEF ResumeWait, Parked
  <2> HIDE DEF d
  <2> QED BY <1>4, <1>6, <2>1 DEF Drops
<1>7. CASE v.state = Parked
  <2>1. ResumeWait(s, x, branch) = t BY <1>7 DEF ResumeWait, Parked
  <2> HIDE DEF d, row
  <2>2. /\ u \in Session /\ Puts(d, u, r, row) /\ SameWaits(d, u) /\ SameCount(d, u)
        /\ SamePlace(d, u)
    BY <1>1, <1>3, <1>4, WritePuts
  <2> HIDE DEF u
  <2>3. /\ t.view = u.view /\ t.dirty = u.dirty /\ SameWaits(u, t) /\ SameCount(u, t)
        /\ SamePlace(u, t) /\ t.cur = r
    BY <2>2 DEF Session, SameWaits, SameCount, SamePlace
  <2> HIDE DEF t
  <2>4. Puts(s, t, r, row) BY <1>4, <2>2, <2>3 DEF Puts
  <2>5. SamePlace(s, t) /\ SameCount(s, t) BY <1>4, <2>2, <2>3 DEF SamePlace, SameCount
  <2>6. Wakes(s, t, x) BY <1>3, <1>4, <1>7, <2>2, <2>3, <2>4, <2>5 DEF Wakes, SameWaits
  <2> QED BY <1>5, <2>1, <2>3, <2>5, <2>6
<1> QED BY <1>6, <1>7

LEMMA BirthEffect ==
    ASSUME NEW s \in Session, NEW r \in Runs, NEW c \in Contacts,
           NEW step \in Steps \cup {None}, NEW key \in {"slot", "own"}
    PROVE  LET t == Insert(s, r, c, step, key) IN
           t \in Session /\ Births(s, t, r, c, step) /\ SamePlace(s, t) /\ t.cur = r
<1> DEFINE t == Insert(s, r, c, step, key)
           row == [contact |-> c, state |-> "running", step |-> step,
                   wake |-> "due", key |-> key]
<1>1. t \in Session BY InsertType
<1>2. row \in Row BY DEF Row, Live
<1>3. /\ t.view = [s.view EXCEPT ![r] = row] /\ t.dirty = [s.dirty EXCEPT ![r] = Cols]
      /\ SameWaits(s, t) /\ SamePlace(s, t) /\ t.cur = r
      /\ t.count = [s.count EXCEPT !["entered"] = @ + 1]
      /\ t.bumped = s.bumped \cup {"entered"}
  BY DEF Insert, Bump, Session, SameWaits, SamePlace
<1>4. s.dirty \in [Runs -> SUBSET Cols] BY DEF Session
<1> HIDE DEF t
<1>5. Puts(s, t, r, row) /\ t.dirty[r] = Cols BY <1>2, <1>3, <1>4 DEF Puts
<1> QED BY <1>1, <1>3, <1>5 DEF Births, t
-----------------------------------------------------------------------------
(* What a step of a process does to its transaction                        *)

\* The loop of advance_run is left, or a phase of the tick swallows an error.
Idles(s, t) == Stays(s, t) /\ SamePlace(s, t) /\ t.cur \in {s.cur, None}

\* A turn of the loop of advance_run.
Turned(p, t) ==
    LET s == sess[p]
        r == s.cur
        v == s.view[r]
    IN  /\ r \in Runs /\ FreeRun(p, r) /\ SamePlace(s, t) /\ t.cur \in {r, None}
        /\ v.state \notin Terminal \cup {Parked}
        /\ \/ \E row : /\ Moves(s, t, r, row)
                       /\ sent' # sent => Onward(v.step, row.step)
           \/ \E k : Ends(s, t, r, k)
           \/ Parks(p, s, t, r) /\ sent' = sent
        /\ \/ sent' = sent
           \/ /\ v.state \notin Terminal \cup {Parked, "cancelling"} /\ v.step \in Steps
              /\ sent' = [sent EXCEPT ![<<r, v.step>>] = @ + 1]

\* A handler reports a failure, and the job or its transaction is lost.
GivesUp(p) ==
    LET s == sess[p] IN
    /\ "failed" \in Troubles /\ sent' = sent
    /\ \/ sess' = [sess EXCEPT ![p] = None]
       \/ /\ s.phase = "cron"
          /\ sess' = [sess EXCEPT ![p] = NewSession("end", {}, {}, {})]

Becomes(p, t) == t \in Session /\ sess' = [sess EXCEPT ![p] = t]

LEMMA AdvanceEffect ==
    ASSUME TypeOK, NEW p \in Procs, Open(p), Advance(p)
    PROVE  /\ UNCHANGED store
           /\ \/ \E t : Becomes(p, t) /\ ((Idles(sess[p], t) /\ sent' = sent) \/ Turned(p, t))
              \/ GivesUp(p)
<1> DEFINE s == sess[p]
           r == s.cur
           v == s.view[r]
<1>1. s \in Session BY DEF TypeOK, Open
<1>2. s.cur \in Runs \cup {None} /\ s.fuel \in Nat
  BY <1>1, RunsAssumption DEF Session
<1>3. ASSUME Turning(p)
      PROVE  /\ r \in Runs /\ FreeRun(p, r) /\ s.fuel > 0
             /\ v.state \notin Terminal \cup {Parked} /\ v \in Row
  BY <1>1, <1>2, <1>3 DEF Turning, Halted, Session, Parked
<1>4. CASE AdvanceReturns(p)
  BY <1>1, <1>4, ReturnStays DEF AdvanceReturns, Becomes, Idles
<1>5. CASE AdvanceCloses(p)
  <2> DEFINE k == IF v.state = "cancelling" THEN "cancelled" ELSE "completed"
             f == Finalize(s, r, k)
             t == Return(f)
  <2>1. Turning(p) /\ sess' = [sess EXCEPT ![p] = t] /\ sent' = sent /\ UNCHANGED store
    BY <1>5 DEF AdvanceCloses
  <2>2. f \in Session /\ Ends(s, f, r, k) /\ SamePlace(s, f) /\ f.cur = s.cur
    BY <1>1, <1>3, <2>1, FinalizeEnds DEF Terminal
  <2> HIDE DEF f
  <2>3. t \in Session /\ Stays(f, t) /\ SamePlace(f, t) /\ t.cur = None
    BY <2>2, ReturnStays
  <2>4. Ends(s, t, r, k) /\ SamePlace(s, t) BY <2>2, <2>3, ThenStays DEF SamePlace
  <2> QED BY <1>3, <2>1, <2>3, <2>4 DEF Turned, Becomes
<1>6. CASE AdvancePassesTrigger(p)
  <2> DEFINE l == Log(s, r, "ok")
             t == Follow(l, r, "default")
  <2>1. /\ Turning(p) /\ v.state # "cancelling" /\ v.step # None
        /\ sess' = [sess EXCEPT ![p] = t] /\ sent' = sent /\ UNCHANGED store
    BY <1>6 DEF AdvancePassesTrigger
  <2>2. v.step \in Steps BY <1>3, <2>1 DEF Row
  <2>3. /\ l \in Session /\ Stays(s, l) /\ SamePlace(s, l) /\ l.cur = s.cur
        /\ l.fuel = s.fuel /\ l.view = s.view
    BY <1>1, <1>3, <2>1, <2>2, LogStays DEF Stays
  <2> HIDE DEF l
  <2>4. /\ t \in Session /\ SamePlace(l, t) /\ t.cur \in {l.cur, None}
        /\ \/ \E row : Moves(l, t, r, row) /\ row.state = v.state /\ Onward(v.step, row.step)
           \/ Ends(l, t, r, "completed")
    BY <1>3, <2>1, <2>2, <2>3, FollowEffect
  <2> HIDE DEF t
  <2>5. \/ \E row : Moves(s, t, r, row) /\ Onward(v.step, row.step)
        \/ Ends(s, t, r, "completed")
    BY <2>3, <2>4, StaysThen
  <2>6. SamePlace(s, t) BY <2>3, <2>4 DEF SamePlace
  <2> QED BY <1>3, <2>1, <2>3, <2>4, <2>5, <2>6 DEF Turned, Becomes
<1>7. CASE AdvanceHandles(p)
  <2>1. /\ Turning(p) /\ v.state # "cancelling" /\ v.step # None /\ UNCHANGED store
    BY <1>7 DEF AdvanceHandles
  <2>2. PICK a \in AnswersOf(v.step) \ {"failed"} :
           /\ \E t \in Applied(p, s, r, a) : sess' = [sess EXCEPT ![p] = t]
           /\ sent' = IF StepType[v.step] = "send_email" /\ a = "default"
                      THEN [sent EXCEPT ![<<r, v.step>>] = @ + 1] ELSE sent
    BY <1>7 DEF AdvanceHandles
  <2>3. PICK t \in Applied(p, s, r, a) : sess' = [sess EXCEPT ![p] = t] BY <2>2
  <2>4. v.step \in Steps BY <1>3, <2>1 DEF Row
  <2>5. /\ t \in Session /\ SamePlace(s, t) /\ t.cur \in {s.cur, None}
        /\ \/ \E row : Moves(s, t, r, row) /\ (a = "default" => Onward(v.step, row.step))
           \/ \E k : Ends(s, t, r, k)
           \/ Parks(p, s, t, r) /\ a # "default"
    BY <1>1, <1>3, <2>1, <2>4, AppliedEffect
  <2>6. /\ \/ \E row : Moves(s, t, r, row) /\ (sent' # sent => Onward(v.step, row.step))
           \/ \E k : Ends(s, t, r, k)
           \/ Parks(p, s, t, r) /\ sent' = sent
        /\ sent' = sent \/ sent' = [sent EXCEPT ![<<r, v.step>>] = @ + 1]
    BY <2>2, <2>5
  <2> QED BY <1>3, <2>1, <2>3, <2>4, <2>5, <2>6 DEF Turned, Becomes
<1>8. CASE AdvanceFails(p)
  <2> DEFINE l == Log(s, r, "failed")
             t == Return(l)
  <2>1. /\ Turning(p) /\ v.step # None /\ "failed" \in AnswersOf(v.step)
        /\ sent' = sent /\ UNCHANGED store
        /\ \/ sess' = [sess EXCEPT ![p] = t]
           \/ s.phase = "cron" /\ sess' = [sess EXCEPT ![p] = NewSession("end", {}, {}, {})]
           \/ sess' = [sess EXCEPT ![p] = None]
    BY <1>8 DEF AdvanceFails
  <2>2. "failed" \in Troubles BY <2>1 DEF AnswersOf
  <2>3. v.step \in Steps BY <1>3, <2>1 DEF Row
  <2>4. l \in Session /\ Stays(s, l) /\ SamePlace(s, l)
    BY <1>1, <1>3, <2>1, <2>3, LogStays
  <2> HIDE DEF l
  <2>5. t \in Session /\ Stays(l, t) /\ SamePlace(l, t) /\ t.cur = None
    BY <2>4, ReturnStays
  <2>6. Idles(s, t) BY <2>4, <2>5, StaysThen DEF Idles, SamePlace
  <2> HIDE DEF t
  <2> QED BY <2>1, <2>2, <2>5, <2>6 DEF Becomes, GivesUp
<1> QED BY <1>4, <1>5, <1>6, <1>7, <1>8 DEF Advance

\* A job or a request takes the next run, wait or contact it has selected.
Calls(s, t) ==
    /\ Stays(s, t) /\ s.cur = None /\ s.phase \in {"due", "cancelling"}
    /\ t.cur \in s.runs /\ t.runs = s.runs \ {t.cur}
    /\ t.phase = s.phase /\ t.waits = s.waits
Passes(s, t) ==
    /\ Stays(s, t) /\ s.cur = None /\ t.cur = None /\ t.waits \subseteq s.waits
    /\ s.phase \notin {"manual", "cancel"} /\ t.phase \notin {"manual", "cancel", "due"}
    /\ \/ t.phase # "cancelling" /\ t.runs \subseteq s.runs
       \/ t.runs = {r \in Runs : s.view[r].state = "cancelling"}
Resumes(p, s, t, x) ==
    /\ s.cur = None /\ s.phase \in {"timeouts", "resume"} /\ FreeRun(p, x[1])
    /\ x \in s.waits /\ t.waits = s.waits \ {x}
    /\ t.phase = s.phase /\ t.runs = s.runs
    /\ \/ Wakes(s, t, x) /\ t.cur = x[1]
       \/ Drops(s, t, x) /\ t.cur = None
Rules(p, s, t, r) ==
    /\ s.cur = None /\ t.cur = None /\ s.phase = "rules" /\ FreeRun(p, r)
    /\ r \in s.runs /\ t.runs = s.runs \ {r}
    /\ t.phase = s.phase /\ t.waits = s.waits
    /\ Stays(s, t) \/ Marks(s, t, r) \/ Ends(s, t, r, "cancelled")
LetsIn(s, t, r) ==
    /\ s.cur = None /\ t.cur = r /\ s.phase \in {"start", "cron", "manual"} /\ Unused(r)
    /\ t.phase = s.phase /\ t.waits = s.waits /\ t.runs = s.runs
    /\ \E c, step : Births(s, t, r, c, step)

Takes(p, s, t) ==
    \/ Calls(s, t) \/ Passes(s, t)
    \/ \E x \in WaitIds : Resumes(p, s, t, x)
    \/ \E r \in Runs : Rules(p, s, t, r) \/ LetsIn(s, t, r)

LEMMA TakeEffect ==
    ASSUME TypeOK, NEW p \in Procs, Open(p),
           \/ TakeRun(p) \/ TakeWait(p) \/ TakeRule(p) \/ TakeContact(p)
           \/ TakeManual(p) \/ TurnTick(p) \/ TurnCron(p) \/ TurnEvent(p)
    PROVE  /\ UNCHANGED store /\ sent' = sent
           /\ \E t : Becomes(p, t) /\ Takes(p, sess[p], t)
<1> DEFINE s == sess[p]
<1>1. s \in Session BY DEF TypeOK, Open
<1>2. sess[p] = s /\ sess \in [Procs -> Session \cup {None}] BY DEF TypeOK
<1>3. CASE TakeRun(p)
  <2>1. PICK r \in s.runs :
            sess' = [sess EXCEPT ![p].runs = @ \ {r}, ![p].cur = r, ![p].fuel = MaxSteps]
    BY <1>3 DEF TakeRun
  <2> DEFINE u == [s EXCEPT !.runs = @ \ {r}]
             t == [u EXCEPT !.cur = r, !.fuel = MaxSteps]
  <2>2. r \in Runs /\ s.runs \ {r} \subseteq Runs BY <1>1, <2>1 DEF Session
  <2>3. u \in Session BY <1>1, <2>2 DEF Session
  <2>4. t \in Session BY <2>2, <2>3, CallType
  <2>5. sess' = [sess EXCEPT ![p] = t] BY <1>1, <1>2, <2>1 DEF Session
  <2>6. Calls(s, t)
    BY <1>1, <1>3, <2>1 DEF Calls, Stays, SameWaits, SameCount, Session, TakeRun, Idle
  <2> QED BY <1>3, <2>4, <2>5, <2>6 DEF TakeRun, Becomes, Takes
<1>4. CASE TakeWait(p)
  <2> DEFINE branch == IF s.phase = "timeouts" THEN "timeout" ELSE "matched"
  <2>1. PICK x \in s.waits :
           \/ s.phase = "resume" /\ sess' = [sess EXCEPT ![p] = [s EXCEPT !.waits = @ \ {x}]]
           \/ /\ FreeRun(p, x[1])
              /\ sess' = [sess EXCEPT ![p] = ResumeWait([s EXCEPT !.waits = @ \ {x}], x, branch)]
    BY <1>4 DEF TakeWait
  <2> DEFINE u == [s EXCEPT !.waits = @ \ {x}]
             t == ResumeWait(u, x, branch)
  <2>2. x \in WaitIds BY <1>1, <2>1 DEF Session
  <2>3. s.cur = None /\ s.phase \in {"timeouts", "resume"} /\ UNCHANGED store /\ sent' = sent
    BY <1>4 DEF TakeWait, Idle
  <2>4. u \in Session
    <3>1. s.waits \ {x} \subseteq WaitIds BY <1>1 DEF Session
    <3> QED BY <1>1, <3>1 DEF Session
  <2>5. /\ Stays(s, u) /\ u.waits = s.waits \ {x} /\ u.cur = s.cur /\ u.phase = s.phase
        /\ u.runs = s.runs
    BY <1>1 DEF Session, Stays, SameWaits, SameCount
  <2>6. CASE s.phase = "resume" /\ sess' = [sess EXCEPT ![p] = u]
    <3>1. Passes(s, u) BY <2>3, <2>5, <2>6 DEF Passes
    <3> QED BY <2>3, <2>4, <2>6, <3>1 DEF Becomes, Takes
  <2>7. CASE FreeRun(p, x[1]) /\ sess' = [sess EXCEPT ![p] = t]
    <3> HIDE DEF u, branch
    <3>1. /\ t \in Session /\ SamePlace(u, t)
          /\ \/ Wakes(u, t, x) /\ t.cur = x[1]
             \/ Drops(u, t, x) /\ t.cur = u.cur
      BY <2>2, <2>4, ResumeEffect
    <3> HIDE DEF t
    <3>2. (Wakes(u, t, x) => Wakes(s, t, x)) /\ (Drops(u, t, x) => Drops(s, t, x))
      BY <2>5, StaysThen
    <3>3. Resumes(p, s, t, x) BY <2>1, <2>3, <2>5, <2>7, <3>1, <3>2 DEF Resumes, SamePlace
    <3> QED BY <2>2, <2>3, <2>7, <3>1, <3>3 DEF Becomes, Takes
  <2> QED BY <2>1, <2>6, <2>7
<1>5. CASE TakeRule(p)
  <2>1. PICK r \in s.runs :
           /\ FreeRun(p, r)
           /\ sess' = [sess EXCEPT ![p] = CancelRun([s EXCEPT !.runs = @ \ {r}], r)]
    BY <1>5 DEF TakeRule
  <2> DEFINE u == [s EXCEPT !.runs = @ \ {r}]
             t == CancelRun(u, r)
  <2>2. r \in Runs /\ s.runs \ {r} \subseteq Runs BY <1>1, <2>1 DEF Session
  <2>3. s.cur = None /\ s.phase = "rules" /\ UNCHANGED store /\ sent' = sent
    BY <1>5 DEF TakeRule, Idle
  <2>4. /\ u \in Session /\ Stays(s, u) /\ u.waits = s.waits /\ u.cur = s.cur
        /\ u.phase = s.phase /\ u.runs = s.runs \ {r}
    BY <1>1, <2>2 DEF Session, Stays, SameWaits, SameCount
  <2> HIDE DEF u
  <2>5. /\ t \in Session /\ SamePlace(u, t) /\ t.cur = u.cur
        /\ Stays(u, t) \/ Marks(u, t, r) \/ Ends(u, t, r, "cancelled")
    BY <2>2, <2>4, CancelEffect
  <2>6. sess' = [sess EXCEPT ![p] = t] BY <2>1 DEF u
  <2> HIDE DEF t
  <2>7. Stays(s, t) \/ Marks(s, t, r) \/ Ends(s, t, r, "cancelled")
    BY <2>4, <2>5, StaysThen
  <2>8. Rules(p, s, t, r) BY <2>1, <2>3, <2>4, <2>5, <2>7 DEF Rules, SamePlace
  <2> QED BY <2>2, <2>3, <2>5, <2>6, <2>8 DEF Becomes, Takes
<1>6. CASE TakeContact(p)
  <2> DEFINE key == IF Reentry THEN "own" ELSE "slot"
  <2>1. PICK c \in s.admit :
           \/ sess' = [sess EXCEPT ![p] = [s EXCEPT !.admit = @ \ {c}]]
           \/ \E r \in Runs : Unused(r) /\ sess' =
                 [sess EXCEPT ![p] = Insert([s EXCEPT !.admit = @ \ {c}], r, c, Root, key)]
    BY <1>6 DEF TakeContact
  <2> DEFINE u == [s EXCEPT !.admit = @ \ {c}]
  <2>2. c \in Contacts /\ s.admit \ {c} \subseteq Contacts BY <1>1, <2>1 DEF Session
  <2>3. s.cur = None /\ s.phase \in {"start", "cron"} /\ UNCHANGED store /\ sent' = sent
    BY <1>6 DEF TakeContact, Idle
  <2>4. /\ u \in Session /\ Stays(s, u) /\ u.waits = s.waits /\ u.cur = s.cur
        /\ u.phase = s.phase /\ u.runs = s.runs
    BY <1>1, <2>2 DEF Session, Stays, SameWaits, SameCount
  <2> HIDE DEF u
  <2>5. CASE sess' = [sess EXCEPT ![p] = u]
    <3>1. Passes(s, u) BY <2>3, <2>4 DEF Passes
    <3> QED BY <2>3, <2>4, <2>5, <3>1 DEF Becomes, Takes
  <2>6. ASSUME NEW r \in Runs, Unused(r), sess' = [sess EXCEPT ![p] = Insert(u, r, c, Root, key)]
        PROVE  \E t : Becomes(p, t) /\ Takes(p, s, t)
    <3> DEFINE t == Insert(u, r, c, Root, key)
    <3>1. t \in Session /\ Births(u, t, r, c, Root) /\ SamePlace(u, t) /\ t.cur = r
      BY <2>2, <2>4, BirthEffect, GraphAssumption
    <3>2. sess' = [sess EXCEPT ![p] = t] BY <2>6
    <3> HIDE DEF t
    <3>3. Births(s, t, r, c, Root) BY <2>4, <3>1, StaysThen
    <3>4. LetsIn(s, t, r) BY <2>3, <2>4, <2>6, <3>1, <3>3 DEF LetsIn, SamePlace
    <3> QED BY <2>6, <3>1, <3>2, <3>4 DEF Becomes, Takes
  <2> QED BY <2>1, <2>3, <2>5, <2>6 DEF u
<1>7. CASE TakeManual(p)
  <2> DEFINE u == [s EXCEPT !.admit = {}]
             next == NextStep(Root, "default")
  <2>1. PICK c \in s.admit, r \in Runs :
           /\ Unused(r)
           /\ sess' = [sess EXCEPT ![p] = [Insert(u, r, c, next, "own")
                                             EXCEPT !.logged = @ \cup {<<r, Root, "ok">>}]]
    BY <1>7 DEF TakeManual
  <2> DEFINE i == Insert(u, r, c, next, "own")
             t == [i EXCEPT !.logged = @ \cup {<<r, Root, "ok">>}]
  <2>2. c \in Contacts /\ Root \in Steps /\ next \in Steps \cup {None}
    BY <1>1, <2>1, GraphAssumption, NextStepType DEF Session
  <2>3. s.cur = None /\ s.phase = "manual" /\ UNCHANGED store /\ sent' = sent
    BY <1>7 DEF TakeManual, Idle
  <2>4. /\ u \in Session /\ Stays(s, u) /\ u.waits = s.waits /\ u.cur = s.cur
        /\ u.phase = s.phase /\ u.runs = s.runs
    BY <1>1 DEF Session, Stays, SameWaits, SameCount
  <2> HIDE DEF u, next
  <2>5. i \in Session /\ Births(u, i, r, c, next) /\ SamePlace(u, i) /\ i.cur = r
    BY <2>2, <2>4, BirthEffect
  <2>6. sess' = [sess EXCEPT ![p] = t] BY <2>1
  <2> HIDE DEF i
  <2>7. t \in Session
    <3>1. i.logged \cup {<<r, Root, "ok">>} \subseteq HistoryRows
      BY <2>1, <2>2, <2>5 DEF Session, HistoryRows
    <3> QED BY <2>5, <3>1 DEF Session
  <2>8. Stays(i, t) /\ SamePlace(i, t) /\ t.cur = i.cur
    BY <2>5 DEF Session, Stays, SameWaits, SameCount, SamePlace
  <2> HIDE DEF t
  <2>9. Births(u, t, r, c, next) BY <2>5, <2>8, ThenStays
  <2>10. Births(s, t, r, c, next) BY <2>4, <2>9, StaysThen
  <2>11. LetsIn(s, t, r) BY <2>1, <2>3, <2>4, <2>5, <2>8, <2>10 DEF LetsIn, SamePlace
  <2> QED BY <2>3, <2>6, <2>7, <2>11 DEF Becomes, Takes
<1>8. CASE TurnTick(p)
  <2> DEFINE t == [s EXCEPT !.phase = "timeouts"]
             u == [s EXCEPT !.phase = "cancelling",
                            !.runs = {r \in Runs : s.view[r].state = "cancelling"}]
  <2>1. t \in Session /\ u \in Session BY <1>1 DEF Session, Phases
  <2>2. /\ UNCHANGED store /\ sent' = sent /\ s.cur = None
        /\ s.phase \in {"due", "timeouts"}
        /\ sess' = [sess EXCEPT ![p] = t] \/ sess' = [sess EXCEPT ![p] = u]
    BY <1>1, <1>2, <1>8 DEF TurnTick, Session, Idle
  <2>3. Passes(s, t) BY <1>1, <2>2 DEF Passes, Session, Stays, SameWaits, SameCount
  <2>4. Passes(s, u) BY <1>1, <2>2 DEF Passes, Session, Stays, SameWaits, SameCount
  <2> HIDE DEF t, u
  <2> QED BY <2>1, <2>2, <2>3, <2>4 DEF Becomes, Takes
<1>9. CASE TurnCron(p)
  <2>1. PICK admit \in {s.admit, {}} :
           sess' = [sess EXCEPT ![p] = [s EXCEPT !.phase = "cron", !.admit = admit]]
    BY <1>1, <1>2, <1>9 DEF TurnCron, Session
  <2> DEFINE t == [s EXCEPT !.phase = "cron", !.admit = admit]
  <2>2. UNCHANGED store /\ sent' = sent /\ s.cur = None /\ s.phase = "cancelling"
    BY <1>9 DEF TurnCron, Done, Idle
  <2>3. t \in Session BY <1>1, <2>1 DEF Session, Phases
  <2>4. Passes(s, t) BY <1>1, <2>2 DEF Passes, Session, Stays, SameWaits, SameCount
  <2> QED BY <2>1, <2>2, <2>3, <2>4 DEF Becomes, Takes
<1>10. CASE TurnEvent(p)
  <2> DEFINE left == {w \in s.waits : w \notin expired /\ w[1] \notin s.purged}
             t == [s EXCEPT !.phase = "resume", !.waits = left]
             u == [s EXCEPT !.phase = "start"]
  <2>1. left \subseteq WaitIds BY <1>1 DEF Session
  <2>2. t \in Session /\ u \in Session BY <1>1, <2>1 DEF Session, Phases
  <2>3. /\ UNCHANGED store /\ sent' = sent /\ s.cur = None
        /\ s.phase \in {"rules", "resume"}
        /\ sess' = [sess EXCEPT ![p] = t] \/ sess' = [sess EXCEPT ![p] = u]
    BY <1>1, <1>2, <1>10 DEF TurnEvent, Session, Done, Idle
  <2>4. left \subseteq s.waits OBVIOUS
  <2> HIDE DEF left
  <2>5. Passes(s, t) BY <1>1, <2>3, <2>4 DEF Passes, Session, Stays, SameWaits, SameCount
  <2>6. Passes(s, u) BY <1>1, <2>3 DEF Passes, Session, Stays, SameWaits, SameCount
  <2> HIDE DEF t, u
  <2> QED BY <2>2, <2>3, <2>5, <2>6 DEF Becomes, Takes
<1> QED BY <1>3, <1>4, <1>5, <1>6, <1>7, <1>8, <1>9, <1>10

-----------------------------------------------------------------------------
(* What a transaction may do and be (Own) after one of these steps         *)

\* The waits p would leave to a run change only for r, and its row only there.
OnlyRun(s, t, r) ==
    /\ \A q \in Runs \ {r} : t.view[q] = s.view[q] /\ t.dirty[q] = s.dirty[q]
    /\ \A x : x[1] # r => (x \in t.added <=> x \in s.added) /\ (x \in t.gone <=> x \in s.gone)
    /\ s.purged \subseteq t.purged /\ t.purged \subseteq s.purged \cup {r}

LEMMA OtherRuns ==
    ASSUME NEW s, NEW t, NEW r, OnlyRun(s, t, r), NEW q \in Runs \ {r}
    PROVE  /\ Heard(t, q) = Heard(s, q)
           /\ Sound(s, q) => Sound(t, q)
<1>1. Heard(t, q) = Heard(s, q) BY DEF OnlyRun, Heard, WaitsOf
<1>2. t.view[q] = s.view[q] /\ t.dirty[q] = s.dirty[q] /\ (q \in t.purged => q \in s.purged)
  BY DEF OnlyRun
<1>3. \A x \in t.gone : x[1] = q => x \in s.gone BY DEF OnlyRun
<1> QED BY <1>1, <1>2, <1>3 DEF Sound

\* A step that treats run r alone, and leaves it out of what is still to treat.
LEMMA OwnTreats ==
    ASSUME NEW p \in Procs, NEW s \in Session, NEW t \in Session, NEW r \in Runs,
           Own(p, s), OnlyRun(s, t, r), Sound(t, r), t.view[r].state # "none",
           "state" \notin t.dirty[r] =>
              "state" \notin s.dirty[r] /\ t.view[r].state = s.view[r].state,
           t.phase = s.phase, t.runs \subseteq s.runs, t.waits \subseteq s.waits,
           t.cur \in {r, None}, s.phase \in {"due", "cancelling"} => r \notin t.runs,
           t.cur = r /\ t.view[r].state = "running" => "state" \in t.dirty[r],
           \A x \in t.waits : x[1] = r => r \in t.purged,
           p \in Api => s.phase = "manual" /\ run[r].state = "none" /\ t.dirty[r] = Cols
    PROVE  Own(p, t)
<1>0. None \notin Runs BY RunsAssumption
<1>1. \A q \in Runs \ {r} : t.view[q] = s.view[q] /\ t.dirty[q] = s.dirty[q] BY DEF OnlyRun
<1>2. Coherent(t)
  <2>1. \A q \in Runs : Sound(t, q) BY OtherRuns DEF Own, Coherent
  <2>2. \A q \in Runs : q \in t.runs \/ q = t.cur => t.view[q].state # "none"
    BY <1>0, <1>1 DEF Own, Coherent
  <2> QED BY <2>1, <2>2 DEF Coherent
<1>3. p \in Api => ApiFits(t)
  <2> SUFFICES ASSUME p \in Api PROVE ApiFits(t) OBVIOUS
  <2>1. s.phase = "manual" /\ ApiFits(s) BY DEF Own
  <2>2. t.waits = {} /\ t.runs = {} BY <2>1 DEF ApiFits
  <2>3. \A q \in Runs : t.cur = q => t.dirty[q] # {} BY <1>0 DEF Cols
  <2>4. \A q \in Runs : t.dirty[q] # {} => t.dirty[q] = Cols /\ run[q].state = "none"
    BY <1>1, <2>1 DEF ApiFits
  <2> QED BY <2>1, <2>2, <2>3, <2>4 DEF ApiFits
<1>4. p \in Workers => WorkerFits(t)
  <2> SUFFICES ASSUME p \in Workers PROVE WorkerFits(t) OBVIOUS
  <2>0. WorkerFits(s) BY DEF Own
  <2>1. t.phase \notin {"manual", "cancel"} BY <2>0 DEF WorkerFits
  <2>2. \A q \in Runs : "state" \notin t.dirty[q] /\ t.view[q].state \notin {"none", Parked}
           => WaitsOf(q) = {}
    BY <1>1, <2>0 DEF WorkerFits
  <2>3. \A q \in Runs : t.cur = q /\ t.view[q].state = "running" => "state" \in t.dirty[q]
    BY <1>0
  <2>4. \A q \in t.runs :
          /\ t.phase = "due" => t.view[q].state = "waiting" /\ t.cur # q
          /\ t.phase = "cancelling" => t.view[q].state = "cancelling" /\ t.cur # q
    <3> TAKE q \in t.runs
    <3>1. q \in s.runs /\ q \in Runs BY DEF Session
    <3>2. t.phase \in {"due", "cancelling"} => q # r /\ t.cur # q BY <1>0, <3>1
    <3> QED BY <1>1, <2>0, <3>1, <3>2 DEF WorkerFits
  <2>5. \A x \in t.waits : x[1] \notin t.purged =>
          /\ t.view[x[1]].state = Parked /\ t.dirty[x[1]] = {}
          /\ WaitsOf(x[1]) \subseteq {x}
    <3> SUFFICES ASSUME NEW x \in t.waits, x[1] \notin t.purged
                 PROVE  /\ t.view[x[1]].state = Parked /\ t.dirty[x[1]] = {}
                        /\ WaitsOf(x[1]) \subseteq {x}
      OBVIOUS
    <3>1. x \in WaitIds /\ x[1] \in Runs BY DEF Session, WaitIds
    <3>2. x[1] # r /\ x[1] \notin s.purged BY DEF OnlyRun
    <3> QED BY <1>1, <2>0, <3>1, <3>2 DEF WorkerFits
  <2>6. \A x, y \in t.waits : x[1] = y[1] => x = y BY <2>0 DEF WorkerFits
  <2> QED BY <2>1, <2>2, <2>3, <2>4, <2>5, <2>6 DEF WorkerFits
<1> QED BY <1>2, <1>3, <1>4 DEF Own

LEMMA PutsFacts ==
    ASSUME NEW s \in Session, NEW t \in Session, NEW r \in Runs, NEW row, Puts(s, t, r, row)
    PROVE  /\ t.view[r] = row /\ row \in Row
           /\ \A q \in Runs \ {r} : t.view[q] = s.view[q] /\ t.dirty[q] = s.dirty[q]
           /\ s.dirty[r] \subseteq t.dirty[r]
           /\ "state" \notin t.dirty[r] =>
                 "state" \notin s.dirty[r] /\ t.view[r].state = s.view[r].state
BY DEF Puts, Session, Cols

\* A run that p may move, or mark, has no wait.
LEMMA NoWaits ==
    ASSUME NEW p \in Procs, NEW s \in Session, NEW r \in Runs, Own(p, s), Fits(s, r),
           s.view[r].state \notin {"none", Parked}, p \in Workers \/ s.cur = r
    PROVE  Heard(s, r) = {}
<1>1. Sound(s, r) BY DEF Own, Coherent
<1>2. CASE "state" \in s.dirty[r] BY <1>1, <1>2 DEF Sound, Match
<1>3. CASE "state" \notin s.dirty[r]
  <2>1. p \notin Api \/ p \in Workers
    BY <1>3, RunsAssumption DEF Own, ApiFits, Cols
  <2>2. WaitsOf(r) = {} BY <1>3, <2>1 DEF Own, WorkerFits, Procs
  <2>3. \A x \in s.added : x[1] # r BY <1>3 DEF Fits
  <2> QED BY <2>2, <2>3 DEF Heard
<1> QED BY <1>2, <1>3

\* What may only be cancelled stays so.
QuietKept(s, t) == \A q \in Runs : run[q].state # "none" /\ Quiet(s, q) => Quiet(t, q)

LEMMA QuietOther ==
    ASSUME NEW s, NEW t, NEW r, Quiet(s, r) => Quiet(t, r),
           \A q \in Runs \ {r} : t.view[q] = s.view[q] /\ t.dirty[q] = s.dirty[q]
    PROVE  QuietKept(s, t)
BY DEF QuietKept, Quiet

LEMMA SoundMoves ==
    ASSUME NEW s \in Session, NEW t \in Session, NEW r \in Runs, NEW row,
           Moves(s, t, r, row), Sound(s, r), s.view[r].state # "none", Heard(s, r) = {}
    PROVE  OnlyRun(s, t, r) /\ Sound(t, r)
<1>1. Puts(s, t, r, row) /\ SameWaits(s, t) BY DEF Moves
<1>2. /\ t.view[r] = row /\ s.dirty[r] \subseteq t.dirty[r]
      /\ \A q \in Runs \ {r} : t.view[q] = s.view[q] /\ t.dirty[q] = s.dirty[q]
  BY <1>1, PutsFacts
<1>3. OnlyRun(s, t, r) BY <1>1, <1>2 DEF OnlyRun, SameWaits
<1>4. Heard(t, r) = {} BY <1>1 DEF Heard, SameWaits
<1>5. row.state # Parked /\ s.view[r].state \notin Terminal BY DEF Moves, Parked
<1>6. r \notin t.purged BY <1>1, <1>5 DEF SameWaits, Sound
<1>7. \A x \in t.gone : x[1] = r => "state" \in t.dirty[r] BY <1>1, <1>2 DEF Sound, SameWaits
<1>8. run[r].state = "none" => s.dirty[r] # {} BY DEF Sound
<1> QED BY <1>2, <1>3, <1>4, <1>5, <1>6, <1>7, <1>8 DEF Sound, Match

LEMMA SoundParks ==
    ASSUME NEW p, NEW s \in Session, NEW t \in Session, NEW r \in Runs,
           Parks(p, s, t, r), Sound(s, r), s.view[r].state # "none", Heard(s, r) = {}
    PROVE  OnlyRun(s, t, r) /\ Sound(t, r) /\ "state" \in t.dirty[r] /\ t.view[r].state = Parked
<1>1. PICK row : Puts(s, t, r, row) /\ row.state = Parked BY DEF Parks
<1>2. /\ t.view[r] = row /\ s.dirty[r] \subseteq t.dirty[r]
      /\ \A q \in Runs \ {r} : t.view[q] = s.view[q] /\ t.dirty[q] = s.dirty[q]
      /\ "state" \notin t.dirty[r] => row.state = s.view[r].state
  BY <1>1, PutsFacts
<1> DEFINE x == <<r, s.view[r].step, p>>
<1>3. /\ t.added = s.added \cup {x} /\ t.gone = s.gone /\ t.purged = s.purged
      /\ s.view[r].state \notin Terminal \cup {Parked}
  BY DEF Parks
<1>4. x[1] = r OBVIOUS
<1> HIDE DEF x
<1>5. OnlyRun(s, t, r) BY <1>2, <1>3, <1>4 DEF OnlyRun
<1>6. Heard(t, r) = {x} BY <1>3, <1>4 DEF Heard
<1>7. "state" \in t.dirty[r] BY <1>1, <1>2, <1>3
<1>8. r \notin t.purged BY <1>3 DEF Sound
<1> QED BY <1>1, <1>2, <1>5, <1>6, <1>7, <1>8 DEF Sound, Match

LEMMA SoundEnds ==
    ASSUME NEW s \in Session, NEW t \in Session, NEW r \in Runs, NEW k,
           Ends(s, t, r, k), Sound(s, r)
    PROVE  /\ OnlyRun(s, t, r) /\ Sound(t, r) /\ "state" \in t.dirty[r]
           /\ t.view[r].state = k /\ k \in Terminal /\ r \in t.purged
<1>1. PICK row : Puts(s, t, r, row) /\ row.state = k BY DEF Ends
<1>2. /\ t.view[r] = row /\ s.dirty[r] \subseteq t.dirty[r]
      /\ \A q \in Runs \ {r} : t.view[q] = s.view[q] /\ t.dirty[q] = s.dirty[q]
      /\ "state" \notin t.dirty[r] => row.state = s.view[r].state
  BY <1>1, PutsFacts
<1>3. /\ t.added = {x \in s.added : x[1] # r} /\ t.gone = s.gone
      /\ t.purged = s.purged \cup {r} /\ s.view[r].state \notin Terminal /\ k \in Terminal
  BY DEF Ends
<1>4. OnlyRun(s, t, r) BY <1>2, <1>3 DEF OnlyRun
<1>5. Heard(t, r) = {} BY <1>3 DEF Heard
<1>6. "state" \in t.dirty[r] BY <1>1, <1>2, <1>3
<1> QED BY <1>1, <1>2, <1>3, <1>4, <1>5, <1>6 DEF Sound, Match, Terminal, Parked

LEMMA SoundMarks ==
    ASSUME NEW s \in Session, NEW t \in Session, NEW r \in Runs,
           Marks(s, t, r), Sound(s, r), Heard(s, r) = {}
    PROVE  /\ OnlyRun(s, t, r) /\ Sound(t, r) /\ "state" \in t.dirty[r]
           /\ t.view[r].state = "cancelling"
<1> DEFINE row == [s.view[r] EXCEPT !.state = "cancelling"]
<1>1. Puts(s, t, r, row) /\ SameWaits(s, t) /\ s.view[r].state = "running" BY DEF Marks
<1>2. row.state = "cancelling" BY DEF Session, Row
<1> HIDE DEF row
<1>3. /\ t.view[r] = row /\ s.dirty[r] \subseteq t.dirty[r]
      /\ \A q \in Runs \ {r} : t.view[q] = s.view[q] /\ t.dirty[q] = s.dirty[q]
      /\ "state" \notin t.dirty[r] => row.state = s.view[r].state
  BY <1>1, PutsFacts
<1>4. OnlyRun(s, t, r) BY <1>1, <1>3 DEF OnlyRun, SameWaits
<1>5. Heard(t, r) = {} BY <1>1 DEF Heard, SameWaits
<1>6. "state" \in t.dirty[r] BY <1>1, <1>2, <1>3
<1>7. r \notin t.purged BY <1>1 DEF Sound, SameWaits, Terminal
<1> QED BY <1>2, <1>3, <1>4, <1>5, <1>6, <1>7 DEF Sound, Match, Parked

LEMMA SoundWakes ==
    ASSUME NEW s \in Session, NEW t \in Session, NEW x \in WaitIds, NEW r, r = x[1],
           Wakes(s, t, x), Sound(s, r), Fits(s, r), s.dirty[r] = {}, WaitsOf(r) \subseteq {x}
    PROVE  /\ OnlyRun(s, t, r) /\ Sound(t, r) /\ "state" \in t.dirty[r]
           /\ t.view[r].state = "running"
<1>0. r \in Runs BY DEF WaitIds
<1>1. PICK row : Puts(s, t, r, row) /\ row.state = "running" BY DEF Wakes
<1>2. /\ t.view[r] = row /\ s.dirty[r] \subseteq t.dirty[r]
      /\ \A q \in Runs \ {r} : t.view[q] = s.view[q] /\ t.dirty[q] = s.dirty[q]
      /\ "state" \notin t.dirty[r] => row.state = s.view[r].state
  BY <1>0, <1>1, PutsFacts
<1>3. /\ t.added = s.added \ {x} /\ t.gone = s.gone \cup {x} /\ t.purged = s.purged
      /\ s.view[r].state = Parked
  BY DEF Wakes
<1>4. OnlyRun(s, t, r) BY <1>2, <1>3 DEF OnlyRun
<1>5. \A y \in s.added : y[1] # r BY DEF Fits
<1>6. Heard(t, r) = {} BY <1>3, <1>5 DEF Heard
<1>7. "state" \in t.dirty[r] BY <1>1, <1>2, <1>3 DEF Parked
<1>8. r \notin t.purged BY <1>3 DEF Sound
<1> QED BY <1>1, <1>2, <1>4, <1>6, <1>7, <1>8 DEF Sound, Match, Parked

LEMMA SoundDrops ==
    ASSUME NEW s \in Session, NEW t \in Session, NEW x \in WaitIds, NEW r, r = x[1],
           Drops(s, t, x), Sound(s, r), Fits(s, r), r \in s.purged
    PROVE  OnlyRun(s, t, r) /\ Sound(t, r) /\ t.view = s.view /\ t.dirty = s.dirty
<1>1. /\ t.view = s.view /\ t.dirty = s.dirty /\ t.purged = s.purged
      /\ t.added = s.added \ {x} /\ t.gone = s.gone \cup {x}
  BY DEF Drops
<1>2. OnlyRun(s, t, r) BY <1>1 DEF OnlyRun
<1>3. "state" \in s.dirty[r] /\ s.view[r].state \in Terminal BY DEF Sound
<1>4. \A y \in s.added : y[1] # r BY <1>3 DEF Fits
<1>5. Heard(t, r) = {} BY <1>1, <1>4 DEF Heard
<1> QED BY <1>1, <1>2, <1>3, <1>5 DEF Sound, Match, Parked, Terminal

LEMMA SoundBirths ==
    ASSUME NEW s \in Session, NEW t \in Session, NEW r \in Runs, NEW c, NEW step,
           Births(s, t, r, c, step), Sound(s, r), Fits(s, r), s.dirty[r] = {}, WaitsOf(r) = {}
    PROVE  OnlyRun(s, t, r) /\ Sound(t, r) /\ t.dirty[r] = Cols /\ t.view[r].state = "running"
<1>1. PICK row : Puts(s, t, r, row) /\ row.state = "running" BY DEF Births
<1>2. /\ t.view[r] = row
      /\ \A q \in Runs \ {r} : t.view[q] = s.view[q] /\ t.dirty[q] = s.dirty[q]
  BY <1>1, PutsFacts
<1>3. t.dirty[r] = Cols /\ SameWaits(s, t) BY DEF Births
<1>4. OnlyRun(s, t, r) BY <1>2, <1>3 DEF OnlyRun, SameWaits
<1>5. \A y \in s.added : y[1] # r BY DEF Fits
<1>6. Heard(t, r) = {} BY <1>3, <1>5 DEF Heard, SameWaits
<1>7. r \notin t.purged BY <1>3 DEF Sound, SameWaits
<1> QED BY <1>1, <1>2, <1>3, <1>4, <1>6, <1>7 DEF Sound, Match, Parked, Cols

\* A turn of advance_run: the run is p's to treat and is not one that p selected
\* and has still before it.
LEMMA OwnTurned ==
    ASSUME TypeOK, NEW p \in Procs, Open(p), NEW t \in Session, Turned(p, t),
           Own(p, sess[p]), Fits(sess[p], sess[p].cur)
    PROVE  Own(p, t) /\ (p \in Workers => QuietKept(sess[p], t))
<1> DEFINE s == sess[p]
           r == s.cur
           v == s.view[r]
<1>1. s \in Session BY DEF TypeOK, Open
<1>2. r \in Runs /\ t.cur \in {r, None} /\ SamePlace(s, t) BY DEF Turned
<1>3. v.state # "none" /\ Sound(s, r) BY <1>2 DEF Own, Coherent
<1>4. v.state \notin Terminal \cup {Parked} BY DEF Turned
<1>5. p \in Api => /\ s.phase = "manual" /\ run[r].state = "none" /\ s.dirty[r] = Cols
                   /\ s.waits = {}
  BY <1>2, RunsAssumption DEF Own, ApiFits
<1>6. p \in Workers => WorkerFits(s) BY DEF Own
<1>7. Heard(s, r) = {} BY <1>1, <1>2, <1>3, <1>4, NoWaits DEF Procs
<1>8. v.state = "running" => "state" \in s.dirty[r]
  BY <1>2, <1>5, <1>6 DEF Procs, WorkerFits, Cols
<1>9. s.phase \in {"due", "cancelling"} => r \notin s.runs
  BY <1>5, <1>6 DEF Procs, WorkerFits
<1>10. \A x \in s.waits : x[1] # r
  <2>1. r \notin s.purged BY <1>3, <1>4 DEF Sound
  <2> QED BY <1>4, <1>5, <1>6, <2>1 DEF Procs, WorkerFits
<1>11. /\ OnlyRun(s, t, r) /\ Sound(t, r) /\ t.view[r].state # "none"
       /\ s.dirty[r] \subseteq t.dirty[r]
       /\ "state" \notin t.dirty[r] =>
             "state" \notin s.dirty[r] /\ t.view[r].state = v.state
       /\ t.view[r].state = "running" => v.state = "running"
       /\ v.state = "cancelling" => t.view[r].state = "cancelled"
  <2>1. ASSUME NEW row, Moves(s, t, r, row) PROVE <1>11!:
    <3>1. OnlyRun(s, t, r) /\ Sound(t, r) BY <1>1, <1>2, <1>3, <1>7, <2>1, SoundMoves
    <3>2. Puts(s, t, r, row) /\ row.state \in {v.state, "waiting"} /\ v.state # "cancelling"
      BY <2>1 DEF Moves
    <3> QED BY <1>1, <1>2, <1>3, <3>1, <3>2, PutsFacts
  <2>2. ASSUME NEW k, Ends(s, t, r, k) PROVE <1>11!:
    <3>1. /\ OnlyRun(s, t, r) /\ Sound(t, r) /\ t.view[r].state = k /\ k \in Terminal
          /\ "state" \in t.dirty[r]
      BY <1>1, <1>2, <1>3, <2>2, SoundEnds
    <3>2. PICK row : Puts(s, t, r, row) /\ (v.state = "cancelling" => k = "cancelled")
      BY <2>2 DEF Ends
    <3> QED BY <1>1, <1>2, <3>1, <3>2, PutsFacts DEF Terminal
  <2>3. ASSUME Parks(p, s, t, r) PROVE <1>11!:
    <3>1. /\ OnlyRun(s, t, r) /\ Sound(t, r) /\ t.view[r].state = Parked
          /\ "state" \in t.dirty[r]
      BY <1>1, <1>2, <1>3, <1>7, <2>3, SoundParks
    <3>2. PICK row : Puts(s, t, r, row) /\ v.state # "cancelling" BY <2>3 DEF Parks
    <3> QED BY <1>1, <1>2, <3>1, <3>2, PutsFacts DEF Parked
  <2> QED BY <2>1, <2>2, <2>3 DEF Turned
<1>12. Own(p, t)
  <2>1. p \in Api => s.phase = "manual" /\ run[r].state = "none" /\ t.dirty[r] = Cols
    BY <1>2, <1>5, <1>11 DEF Session
  <2>2. t.phase = s.phase /\ t.runs = s.runs /\ t.waits = s.waits BY <1>2 DEF SamePlace
  <2>3. t.view[r].state = "running" => "state" \in t.dirty[r] BY <1>8, <1>11
  <2> HIDE DEF v
  <2> QED BY <1>1, <1>2, <1>9, <1>10, <1>11, <2>1, <2>2, <2>3, OwnTreats DEF v
<1>13. ASSUME p \in Workers PROVE QuietKept(s, t)
  <2>1. Quiet(s, r) => v.state = "cancelling" BY <1>3, <1>4, <1>8 DEF Quiet, Terminal
  <2>2. Quiet(s, r) => Quiet(t, r) BY <1>11, <2>1 DEF Quiet
  <2>3. \A q \in Runs \ {r} : t.view[q] = s.view[q] /\ t.dirty[q] = s.dirty[q]
    BY <1>11 DEF OnlyRun
  <2> QED BY <2>2, <2>3, QuietOther
<1> QED BY <1>12, <1>13

LEMMA StaysSound ==
    ASSUME NEW s, NEW t, Stays(s, t)
    PROVE  /\ \A r \in Runs : Sound(s, r) => Sound(t, r)
           /\ QuietKept(s, t)
<1>1. \A r \in Runs : Heard(t, r) = Heard(s, r) BY DEF Stays, SameWaits, Heard
<1> QED BY <1>1 DEF Stays, SameWaits, Sound, QuietKept, Quiet

LEMMA OwnIdles ==
    ASSUME NEW p \in Procs, NEW s \in Session, NEW t \in Session, Own(p, s), Idles(s, t)
    PROVE  Own(p, t) /\ QuietKept(s, t)
<1>0. None \notin Runs BY RunsAssumption
<1>1. Stays(s, t) /\ SamePlace(s, t) /\ t.cur \in {s.cur, None} BY DEF Idles
<1>2. (\A r \in Runs : Sound(t, r)) /\ QuietKept(s, t) BY <1>1, StaysSound DEF Own, Coherent
<1>3. /\ t.view = s.view /\ t.dirty = s.dirty /\ t.added = s.added /\ t.gone = s.gone
      /\ t.purged = s.purged /\ t.phase = s.phase /\ t.runs = s.runs /\ t.waits = s.waits
  BY <1>1 DEF Stays, SameWaits, SamePlace
<1>4. \A r \in Runs : t.cur = r => s.cur = r BY <1>0, <1>1
<1>5. \A r \in s.runs : r \in Runs BY DEF Session
<1>6. Coherent(t) BY <1>2, <1>3, <1>4 DEF Own, Coherent
<1>7. p \in Api => ApiFits(t) BY <1>1, <1>3, <1>4 DEF Own, ApiFits
<1>8. p \in Workers => WorkerFits(t)
  <2> SUFFICES ASSUME p \in Workers PROVE WorkerFits(t) OBVIOUS
  <2>1. WorkerFits(s) BY DEF Own
  <2> QED BY <1>3, <1>4, <1>5, <2>1 DEF WorkerFits
<1> QED BY <1>2, <1>6, <1>7, <1>8 DEF Own

LEMMA OwnTakes ==
    ASSUME NEW p \in Procs, NEW s \in Session, NEW t \in Session, Takes(p, s, t),
           TypeOK, Matched, Open(p), s = sess[p],
           Own(p, s), \A r \in Runs : Fits(s, r)
    PROVE  Own(p, t) /\ QuietKept(s, t)
<1>0. None \notin Runs /\ s.runs \subseteq Runs BY RunsAssumption DEF Session
<1>1. (\A r \in Runs : Sound(s, r)) /\ (p \in Api => ApiFits(s)) /\ (p \in Workers => WorkerFits(s))
  BY DEF Own, Coherent
<1>2. CASE Calls(s, t)
  <2>1. p \notin Api /\ WorkerFits(s) BY <1>1, <1>2 DEF Calls, ApiFits, Procs
  <2>2. (\A r \in Runs : Sound(t, r)) /\ QuietKept(s, t)
    BY <1>1, <1>2, StaysSound DEF Calls
  <2>3. /\ t.view = s.view /\ t.dirty = s.dirty /\ t.purged = s.purged /\ t.phase = s.phase
        /\ t.waits = s.waits /\ t.cur \in s.runs /\ t.runs = s.runs \ {t.cur}
        /\ s.phase \in {"due", "cancelling"}
    BY <1>2 DEF Calls, Stays, SameWaits
  <2>4. Coherent(t) BY <1>0, <2>2, <2>3 DEF Own, Coherent
  <2>5. WorkerFits(t)
    <3>1. t.view[t.cur].state # "running" BY <2>1, <2>3 DEF WorkerFits
    <3> QED BY <1>0, <2>1, <2>3, <3>1 DEF WorkerFits
  <2> QED BY <2>1, <2>2, <2>4, <2>5 DEF Own
<1>3. CASE Passes(s, t)
  <2>1. p \notin Api /\ WorkerFits(s) BY <1>1, <1>3 DEF Passes, ApiFits, Procs
  <2>2. (\A r \in Runs : Sound(t, r)) /\ QuietKept(s, t)
    BY <1>1, <1>3, StaysSound DEF Passes
  <2>3. /\ t.view = s.view /\ t.dirty = s.dirty /\ t.purged = s.purged
        /\ t.waits \subseteq s.waits /\ t.cur = None
        /\ t.phase \notin {"manual", "cancel", "due"}
        /\ \/ t.phase # "cancelling" /\ t.runs \subseteq s.runs
           \/ t.runs = {r \in Runs : s.view[r].state = "cancelling"}
    BY <1>3 DEF Passes, Stays, SameWaits
  <2>4. \A r \in t.runs : r \in s.runs \/ t.view[r].state = "cancelling" BY <2>3
  <2>5. Coherent(t) BY <1>0, <2>2, <2>3, <2>4 DEF Own, Coherent
  <2>6. WorkerFits(t)
    <3>1. \A r \in t.runs : t.phase = "cancelling" => t.view[r].state = "cancelling" /\ t.cur # r
      BY <1>0, <2>3
    <3> QED BY <1>0, <2>1, <2>3, <3>1 DEF WorkerFits
  <2> QED BY <2>1, <2>2, <2>5, <2>6 DEF Own
<1>4. ASSUME NEW x \in WaitIds, Resumes(p, s, t, x) PROVE Own(p, t) /\ QuietKept(s, t)
  <2> DEFINE r == x[1]
  <2>1. p \notin Api /\ WorkerFits(s) BY <1>1, <1>4 DEF Resumes, ApiFits, Procs
  <2>2. /\ x \in s.waits /\ t.waits = s.waits \ {x} /\ t.phase = s.phase /\ t.runs = s.runs
        /\ s.phase \in {"timeouts", "resume"} /\ r \in Runs
    BY <1>4 DEF Resumes, WaitIds
  <2>3. \A y \in t.waits : y[1] # r BY <2>1, <2>2 DEF WorkerFits
  <2>4. CASE Wakes(s, t, x) /\ t.cur = r
    <3>1. PICK row : Puts(s, t, r, row) /\ s.view[r].state = Parked BY <2>4 DEF Wakes
    <3>2. r \notin s.purged BY <1>1, <2>2, <3>1 DEF Sound, Terminal, Parked
    <3>3. s.dirty[r] = {} /\ WaitsOf(r) \subseteq {x} BY <2>1, <2>2, <3>2 DEF WorkerFits
    <3>4. /\ OnlyRun(s, t, r) /\ Sound(t, r) /\ "state" \in t.dirty[r]
          /\ t.view[r].state = "running"
      BY <1>1, <2>2, <2>4, <3>3, SoundWakes
    <3>5. Own(p, t) BY <2>1, <2>2, <2>3, <2>4, <3>4, OwnTreats
    <3>6. Quiet(s, r) => Quiet(t, r) BY <3>1 DEF Quiet, Parked
    <3>7. \A q \in Runs \ {r} : t.view[q] = s.view[q] /\ t.dirty[q] = s.dirty[q]
      BY <3>4 DEF OnlyRun
    <3> HIDE DEF r
    <3>8. QuietKept(s, t) BY <3>6, <3>7 DEF QuietKept, Quiet
    <3> QED BY <3>5, <3>8
  <2>5. CASE Drops(s, t, x) /\ t.cur = None
    <3>1. s.view[r].state # Parked BY <2>5 DEF Drops
    <3>2. r \in s.purged BY <2>1, <2>2, <3>1 DEF WorkerFits
    <3>3. OnlyRun(s, t, r) /\ Sound(t, r) /\ t.view = s.view /\ t.dirty = s.dirty
      BY <1>1, <2>2, <2>5, <3>2, SoundDrops
    <3>4. s.view[r].state # "none" BY <1>1, <2>2, <3>2 DEF Sound, Terminal
    <3>5. Own(p, t)
      <4> HIDE DEF r
      <4> QED BY <1>0, <2>1, <2>2, <2>3, <2>5, <3>3, <3>4, OwnTreats
    <3>6. QuietKept(s, t) BY <3>3 DEF QuietKept, Quiet
    <3> QED BY <3>5, <3>6
  <2> QED BY <1>4, <2>4, <2>5 DEF Resumes
<1>5. ASSUME NEW r \in Runs, Rules(p, s, t, r) PROVE Own(p, t) /\ QuietKept(s, t)
  <2>1. p \notin Api /\ p \in Workers /\ WorkerFits(s) BY <1>1, <1>5 DEF Rules, ApiFits, Procs
  <2>2. /\ r \in s.runs /\ t.runs = s.runs \ {r} /\ t.waits = s.waits /\ t.phase = s.phase
        /\ s.phase = "rules" /\ s.cur = None /\ t.cur = None
    BY <1>5 DEF Rules
  <2>3. s.view[r].state # "none" BY <2>2 DEF Own, Coherent
  <2>4. CASE Stays(s, t)
    <3>1. (\A q \in Runs : Sound(t, q)) /\ QuietKept(s, t) BY <1>1, <2>4, StaysSound
    <3>2. t.view = s.view /\ t.dirty = s.dirty /\ t.purged = s.purged
      BY <2>4 DEF Stays, SameWaits
    <3>3. Coherent(t) BY <1>0, <2>2, <3>1, <3>2 DEF Own, Coherent
    <3>4. WorkerFits(t) BY <1>0, <2>1, <2>2, <3>2 DEF WorkerFits
    <3> QED BY <2>1, <3>1, <3>3, <3>4 DEF Own
  <2>5. CASE Marks(s, t, r)
    <3>1. s.view[r].state = "running" BY <2>5 DEF Marks
    <3>2. Heard(s, r) = {} BY <2>1, <3>1, NoWaits DEF Parked
    <3>3. /\ OnlyRun(s, t, r) /\ Sound(t, r) /\ "state" \in t.dirty[r]
          /\ t.view[r].state = "cancelling"
      BY <1>1, <2>5, <3>2, SoundMarks
    <3>4. \A x \in t.waits : x[1] # r
      <4>1. r \notin s.purged BY <1>1, <3>1 DEF Sound, Terminal
      <4> QED BY <2>1, <2>2, <3>1, <4>1 DEF WorkerFits, Parked
    <3>5. Own(p, t) BY <2>1, <2>2, <3>3, <3>4, OwnTreats
    <3>6. Quiet(t, r) BY <3>3 DEF Quiet
    <3> QED BY <3>3, <3>5, <3>6, QuietOther DEF OnlyRun
  <2>6. CASE Ends(s, t, r, "cancelled")
    <3>1. /\ OnlyRun(s, t, r) /\ Sound(t, r) /\ "state" \in t.dirty[r]
          /\ t.view[r].state = "cancelled" /\ r \in t.purged
      BY <1>1, <2>6, SoundEnds
    <3>2. Own(p, t) BY <2>1, <2>2, <3>1, OwnTreats
    <3>3. Quiet(t, r) BY <3>1 DEF Quiet
    <3> QED BY <3>1, <3>2, <3>3, QuietOther DEF OnlyRun
  <2> QED BY <1>5, <2>4, <2>5, <2>6 DEF Rules
<1>6. ASSUME NEW r \in Runs, LetsIn(s, t, r) PROVE Own(p, t) /\ QuietKept(s, t)
  <2>1. PICK c, step : Births(s, t, r, c, step) BY <1>6 DEF LetsIn
  <2>2. /\ s.cur = None /\ t.cur = r /\ s.phase \in {"start", "cron", "manual"} /\ Unused(r)
        /\ t.phase = s.phase /\ t.waits = s.waits /\ t.runs = s.runs
    BY <1>6 DEF LetsIn
  <2>3. run[r].state = "none" /\ s.dirty[r] = {} BY <2>2 DEF Unused
  <2>4. WaitsOf(r) = {} BY <2>3 DEF Matched, Match, Parked
  <2>5. OnlyRun(s, t, r) /\ Sound(t, r) /\ t.dirty[r] = Cols /\ t.view[r].state = "running"
    BY <1>1, <2>1, <2>3, <2>4, SoundBirths
  <2>6. s.view[r].state = "none" BY <1>1, <2>3 DEF Sound
  <2>7. \A x \in t.waits : x[1] # r
    <3>1. r \notin s.purged BY <1>1, <2>6 DEF Sound, Terminal
    <3>2. CASE p \in Api BY <1>1, <2>2, <3>2 DEF ApiFits
    <3>3. CASE p \in Workers BY <1>1, <2>2, <2>6, <3>1, <3>3 DEF WorkerFits, Parked
    <3> QED BY <3>2, <3>3 DEF Procs
  <2>8. p \in Api => s.phase = "manual" BY <1>1, <2>2 DEF ApiFits
  <2>9. Own(p, t) BY <2>2, <2>3, <2>5, <2>7, <2>8, OwnTreats DEF Cols
  <2>10. QuietKept(s, t) BY <2>3, <2>5 DEF QuietKept, Quiet, OnlyRun
  <2> QED BY <2>9, <2>10
<1> QED BY <1>2, <1>3, <1>4, <1>5, <1>6 DEF Takes

-----------------------------------------------------------------------------
(* How the steps bear on OneInv                                            *)

LEMMA OwnPrime ==
    ASSUME run' = run, wait' = wait, NEW q \in Procs, NEW s, sess'[q] = s, Own(q, s)
    PROVE  Own(q, sess[q])'
<1>1. \A r \in Runs : (WaitsOf(r))' = WaitsOf(r) BY DEF WaitsOf
<1>2. \A r \in Runs : (Heard(sess[q], r))' = Heard(s, r) BY <1>1 DEF Heard
<1>3. Coherent(sess[q])' BY <1>2 DEF Own, Coherent, Sound
<1>4. ApiFits(s) => ApiFits(sess[q])' BY DEF ApiFits
<1>5. WorkerFits(s) => WorkerFits(sess[q])'
  <2>1. \A r : (WaitsOf(r))' = WaitsOf(r) BY DEF WaitsOf
  <2> QED BY <2>1 DEF WorkerFits
<1> QED BY <1>3, <1>4, <1>5 DEF Own

\* p goes on.
LEMMA OneGoesOn ==
    ASSUME OneWorker, TypeOK, OneInv, NEW p \in Procs, Open(p), NEW t \in Session,
           sess' = [sess EXCEPT ![p] = t], UNCHANGED store, Own(p, t),
           p \in Workers => QuietKept(sess[p], t),
           p \in Api /\ t.phase = "cancel" => sess[p].phase = "cancel" /\ t.view = sess[p].view
    PROVE  OneInv'
<1>1. sess'[p] = t /\ \A q \in Procs \ {p} : sess'[q] = sess[q] BY DEF TypeOK
<1>2. run' = run /\ wait' = wait BY DEF store
<1>3. t # None BY NoneAssumption
<1>4. \A q \in Procs : Open(q)' <=> Open(q) BY <1>1, <1>3 DEF Open
<1>5. Matched' BY <1>2 DEF OneInv, Matched, WaitsOf
<1>6. ASSUME NEW q \in Procs, Open(q)' PROVE Own(q, sess[q])'
  <2>1. CASE q = p BY <1>1, <1>2, <2>1, OwnPrime
  <2>2. CASE q # p BY <1>1, <1>2, <1>4, <1>6, <2>2, OwnPrime DEF OneInv
  <2> QED BY <2>1, <2>2
<1>7. \A w \in Workers, r \in Runs : run[r].state # "none" /\ Open(w) /\ Quiet(sess[w], r)
         => Quiet(sess'[w], r)
  BY <1>1 DEF QuietKept, Procs
<1>8. MarkedIsQuiet'
  <2> SUFFICES ASSUME NEW w \in Workers, NEW r \in Runs, Open(w)',
                      run[r].state \in {"running", "cancelling"}
               PROVE  Quiet(sess'[w], r)
    BY <1>2 DEF MarkedIsQuiet, Quiet
  <2>1. Open(w) /\ Quiet(sess[w], r) BY <1>4 DEF OneInv, MarkedIsQuiet, Procs
  <2> QED BY <1>7, <2>1
<1>9. ReadIsQuiet'
  <2> SUFFICES ASSUME NEW a \in Api, NEW r \in Runs, Open(a)', sess'[a].phase = "cancel",
                      sess'[a].view[r].state = "running"
               PROVE  /\ run[r].state \in {"running", "cancelling", "cancelled"}
                      /\ \A w \in Workers : Open(w)' => Quiet(sess'[w], r)
    BY <1>2 DEF ReadIsQuiet, Quiet
  <2>1. /\ Open(a) /\ sess[a].phase = "cancel" /\ sess[a].view[r].state = "running"
    BY <1>1, <1>4 DEF Procs
  <2>2. /\ run[r].state \in {"running", "cancelling", "cancelled"}
        /\ \A w \in Workers : Open(w) => Quiet(sess[w], r)
    BY <2>1 DEF OneInv, ReadIsQuiet
  <2> QED BY <1>4, <1>7, <2>2 DEF Procs
<1> QED BY <1>5, <1>6, <1>8, <1>9 DEF OneInv

\* p is gone: a crash, a job lost.
LEMMA OneLost ==
    ASSUME TypeOK, OneInv, NEW p \in Procs, sess' = [sess EXCEPT ![p] = None], UNCHANGED store
    PROVE  OneInv'
<1>1. sess'[p] = None /\ \A q \in Procs \ {p} : sess'[q] = sess[q] BY DEF TypeOK
<1>2. run' = run /\ wait' = wait BY DEF store
<1>3. \A q \in Procs : Open(q)' => Open(q) /\ sess'[q] = sess[q] BY <1>1 DEF Open
<1>4. Matched' BY <1>2 DEF OneInv, Matched, WaitsOf
<1>5. \A q \in Procs : Open(q)' => Own(q, sess[q])' BY <1>2, <1>3, OwnPrime DEF OneInv
<1>6. MarkedIsQuiet' BY <1>2, <1>3 DEF OneInv, MarkedIsQuiet, Quiet, Procs
<1>7. ReadIsQuiet' BY <1>2, <1>3 DEF OneInv, ReadIsQuiet, Quiet, Procs
<1> QED BY <1>4, <1>5, <1>6, <1>7 DEF OneInv

\* p begins: it sees what is committed.
LEMMA OneBegins ==
    ASSUME OneWorker, TypeOK, OneInv, NEW p \in Procs,
           NEW phase \in Phases, NEW runs \in SUBSET Runs, NEW waits \in SUBSET WaitIds,
           NEW admit \in SUBSET Contacts,
           sess' = [sess EXCEPT ![p] = NewSession(phase, runs, waits, admit)], UNCHANGED store,
           \A r \in runs : run[r].state # "none",
           p \in Workers => /\ phase \notin {"manual", "cancel", "cancelling"}
                            /\ phase = "due" => \A r \in runs : run[r].state = "waiting"
                            /\ waits \subseteq wait,
           p \in Api => \/ phase = "manual" /\ runs = {} /\ waits = {}
                        \/ phase = "cancel"
    PROVE  OneInv'
<1> DEFINE t == NewSession(phase, runs, waits, admit)
<1>0. None \notin Runs BY RunsAssumption
<1>1. sess'[p] = t /\ \A q \in Procs \ {p} : sess'[q] = sess[q] BY DEF TypeOK
<1>2. run' = run /\ wait' = wait BY DEF store
<1>3. /\ t.phase = phase /\ t.view = run /\ t.dirty = [r \in Runs |-> {}] /\ t.added = {}
      /\ t.gone = {} /\ t.purged = {} /\ t.runs = runs /\ t.waits = waits /\ t.cur = None
  BY DEF NewSession
<1> HIDE DEF t
<1>4. \A q \in Procs \ {p} : Open(q)' <=> Open(q) BY <1>1 DEF Open
<1>5. Matched' BY <1>2 DEF OneInv, Matched, WaitsOf
<1>6. Own(p, t)
  <2>1. Coherent(t) BY <1>0, <1>3 DEF Coherent, Sound
  <2>2. p \in Api => ApiFits(t) BY <1>0, <1>3 DEF ApiFits
  <2>3. ASSUME p \in Workers PROVE WorkerFits(t)
    <3>1. \A x \in waits : x[1] \in Runs /\ x \in WaitsOf(x[1])
      BY <2>3 DEF WaitIds, WaitsOf
    <3>2. \A x \in waits : run[x[1]].state = Parked /\ WaitsOf(x[1]) = {x}
      BY <3>1 DEF OneInv, Matched, Match
    <3>3. \A x, y \in waits : x[1] = y[1] => x = y BY <3>2
    <3>4. \A r \in Runs : run[r].state # Parked => WaitsOf(r) = {}
      BY DEF OneInv, Matched, Match
    <3> QED BY <1>0, <1>3, <2>3, <3>1, <3>2, <3>3, <3>4 DEF WorkerFits
  <2> QED BY <2>1, <2>2, <2>3 DEF Own
<1>7. ASSUME NEW q \in Procs, Open(q)' PROVE Own(q, sess[q])'
  <2>1. CASE q = p BY <1>1, <1>2, <1>6, <2>1, OwnPrime
  <2>2. CASE q # p BY <1>1, <1>2, <1>4, <1>7, <2>2, OwnPrime DEF OneInv
  <2> QED BY <2>1, <2>2
<1>8. \A r \in Runs : run[r].state \in {"running", "cancelling", "cancelled"} => Quiet(t, r)
  BY <1>3 DEF Quiet
<1>9. MarkedIsQuiet'
  <2> SUFFICES ASSUME NEW w \in Workers, NEW r \in Runs, Open(w)',
                      run[r].state \in {"running", "cancelling"}
               PROVE  Quiet(sess'[w], r)
    BY <1>2 DEF MarkedIsQuiet, Quiet
  <2> QED BY <1>1, <1>4, <1>8 DEF OneInv, MarkedIsQuiet, Procs
<1>10. ReadIsQuiet'
  <2> SUFFICES ASSUME NEW a \in Api, NEW r \in Runs, Open(a)', sess'[a].phase = "cancel",
                      sess'[a].view[r].state = "running"
               PROVE  /\ run[r].state \in {"running", "cancelling", "cancelled"}
                      /\ \A w \in Workers : Open(w)' => Quiet(sess'[w], r)
    BY <1>2 DEF ReadIsQuiet, Quiet
  <2>1. a \notin Workers /\ a \in Procs BY DEF OneWorker, Procs
  <2>2. CASE a = p
    <3>1. run[r].state = "running" BY <1>1, <1>3, <2>2
    <3>2. \A w \in Workers : Open(w)' => Open(w) /\ sess'[w] = sess[w]
      BY <1>1, <1>4, <2>1, <2>2 DEF Procs
    <3> QED BY <3>1, <3>2 DEF OneInv, MarkedIsQuiet
  <2>3. CASE a # p
    <3>1. /\ run[r].state \in {"running", "cancelling", "cancelled"}
          /\ \A w \in Workers : Open(w) => Quiet(sess[w], r)
      BY <1>1, <1>4, <2>1, <2>3 DEF OneInv, ReadIsQuiet
    <3> QED BY <1>1, <1>4, <1>8, <3>1 DEF Procs
  <2> QED BY <2>2, <2>3
<1> QED BY <1>5, <1>7, <1>9, <1>10 DEF OneInv

\* COMMIT: the state and the waits of a run change together.
LEMMA PublishWaits ==
    ASSUME NEW p \in Procs, NEW t \in Session, Publish(p, t), NEW r \in Runs,
           Sound(t, r), Fits(t, r)
    PROVE  /\ "state" \in t.dirty[r] =>
                 run'[r].state = t.view[r].state /\ (WaitsOf(r))' = Heard(t, r)
           /\ "state" \notin t.dirty[r] =>
                 run'[r].state = run[r].state /\ (WaitsOf(r))' = WaitsOf(r)
           /\ (WaitsOf(r))' = Heard(t, r)
<1>1. run'[r].state = IF "state" \in t.dirty[r] THEN t.view[r].state ELSE run[r].state
  BY DEF Publish
<1>2. wait' = {x \in wait \ t.gone : x[1] \notin t.purged} \cup t.added BY DEF Publish
<1>3. (WaitsOf(r))' = {x \in wait' : x[1] = r} BY DEF WaitsOf
<1>4. (WaitsOf(r))' = Heard(t, r) BY <1>2, <1>3 DEF Heard, WaitsOf
<1>5. "state" \notin t.dirty[r] => Heard(t, r) = WaitsOf(r)
  <2> SUFFICES ASSUME "state" \notin t.dirty[r] PROVE Heard(t, r) = WaitsOf(r) OBVIOUS
  <2>1. r \notin t.purged /\ (\A x \in t.gone : x[1] # r) BY DEF Sound
  <2>2. \A x \in t.added : x[1] # r BY DEF Fits
  <2> QED BY <2>1, <2>2 DEF Heard, WaitsOf
<1> QED BY <1>1, <1>4, <1>5

\* What p has flushed when it commits.
Publishable(p, t) ==
    /\ t \in Session /\ Coherent(t) /\ \A r \in Runs : Fits(t, r)
    /\ \A r \in Runs : t.dirty[r] = {} \/ \A q \in Procs \ {p} : Open(q) => sess[q].dirty[r] = {}
    /\ p \in Workers => t = sess[p]
    /\ p \in Api =>
          \/ t = sess[p] /\ t.phase = "manual"
          \/ /\ sess[p].phase = "cancel" /\ t.added = {}
             /\ \A r \in Runs : t.dirty[r] # {} =>
                   /\ "state" \in t.dirty[r] /\ "step" \notin t.dirty[r]
                   /\ \/ t.view[r].state = "cancelled"
                      \/ t.view[r].state = "cancelling" /\ sess[p].view[r].state = "running"

LEMMA OnePublishes ==
    ASSUME OneWorker, TypeOK, OneInv, NEW p \in Procs, Open(p), NEW t,
           Publishable(p, t), Publish(p, t)
    PROVE  OneInv'
<1>0. t \in Session BY DEF Publishable
<1>1. sess'[p] = None /\ \A q \in Procs \ {p} : sess'[q] = sess[q]
  BY DEF Publish, TypeOK
<1>2. ASSUME NEW q \in Procs, Open(q)' PROVE q # p /\ Open(q) /\ sess'[q] = sess[q]
  BY <1>1, <1>2 DEF Open
<1>3. \A r \in Runs :
        /\ "state" \in t.dirty[r] =>
              run'[r].state = t.view[r].state /\ (WaitsOf(r))' = Heard(t, r)
        /\ "state" \notin t.dirty[r] =>
              run'[r].state = run[r].state /\ (WaitsOf(r))' = WaitsOf(r)
  BY <1>0, PublishWaits DEF Publishable, Coherent
<1>4. \A r \in Runs : Sound(t, r) /\ Fits(t, r) BY DEF Publishable, Coherent
<1>5. Matched'
  <2>1. \A r \in Runs : Match((WaitsOf(r))', run'[r].state)
    BY <1>3, <1>4 DEF Sound, OneInv, Matched
  <2> QED BY <2>1 DEF Matched
\* A request that inserts changes what did not exist; one that cancels adds no wait.
<1>6. ASSUME p \in Api, NEW r \in Runs, t.dirty[r] # {}
      PROVE  \/ run[r].state = "none" /\ \A w \in Workers : Open(w) => sess[w].view[r].state = "none"
             \/ /\ t.added = {} /\ sess[p].phase = "cancel"
                /\ \/ t.view[r].state = "cancelled"
                   \/ t.view[r].state = "cancelling" /\ sess[p].view[r].state = "running"
  <2>1. CASE t = sess[p] /\ t.phase = "manual"
    <3>1. run[r].state = "none" BY <1>6, <2>1 DEF OneInv, Own, ApiFits
    <3>2. ASSUME NEW w \in Workers, Open(w) PROVE sess[w].view[r].state = "none"
      <4>1. w \in Procs /\ w # p BY <1>6 DEF OneWorker, Procs
      <4>2. sess[w].dirty[r] = {} BY <1>6, <3>2, <4>1 DEF Publishable
      <4> QED BY <3>1, <3>2, <4>1, <4>2 DEF OneInv, Own, Coherent, Sound
    <3> QED BY <3>1, <3>2
  <2> QED BY <1>6, <2>1 DEF Publishable
<1>7. ASSUME p \in Api, NEW w \in Workers, Open(w), NEW r \in Runs, sess[w].view[r].state # "none"
      PROVE  (WaitsOf(r))' \subseteq WaitsOf(r)
  <2>1. CASE "state" \notin t.dirty[r] BY <1>3, <2>1
  <2>2. CASE "state" \in t.dirty[r]
    <3>1. t.added = {} BY <1>6, <1>7, <2>2
    <3> QED BY <1>3, <2>2, <3>1 DEF Heard
  <2> QED BY <2>1, <2>2
<1>8. ASSUME NEW q \in Procs, Open(q)' PROVE Own(q, sess[q])'
  <2> DEFINE s == sess[q]
  <2>1. q # p /\ Open(q) /\ sess'[q] = s BY <1>2, <1>8
  <2>2. Own(q, s) /\ s \in Session BY <2>1 DEF OneInv, TypeOK, Open
  <2>3. \A r \in Runs : s.dirty[r] # {} => t.dirty[r] = {} BY <2>1 DEF Publishable
  <2>4. \A r \in Runs : run'[r].state = "none" => run[r].state = "none"
    BY <1>3, <1>4 DEF Fits
  <2> HIDE DEF s
  <2>5. \A r \in Runs : "state" \in s.dirty[r] => (Heard(sess[q], r))' = Heard(s, r)
    <3> SUFFICES ASSUME NEW r \in Runs, "state" \in s.dirty[r]
                 PROVE  (Heard(sess[q], r))' = Heard(s, r)
      OBVIOUS
    <3>1. (WaitsOf(r))' = WaitsOf(r) BY <1>3, <2>3
    <3> QED BY <2>1, <3>1 DEF Heard
  <2>6. Coherent(sess[q])'
    <3>1. \A r \in Runs : Sound(sess[q], r)'
      BY <2>1, <2>2, <2>4, <2>5 DEF Own, Coherent, Sound
    <3> QED BY <2>1, <2>2, <3>1 DEF Own, Coherent
  <2>7. (q \in Api => ApiFits(sess[q]))'
    <3>1. \A r \in Runs : s.dirty[r] # {} => run'[r].state = run[r].state BY <1>3, <2>3
    <3> QED BY <2>1, <2>2, <3>1 DEF Own, ApiFits
  <2>8. (q \in Workers => WorkerFits(sess[q]))'
    <3> SUFFICES ASSUME q \in Workers PROVE WorkerFits(sess[q])' OBVIOUS
    <3>1. p \in Api BY <2>1 DEF OneWorker, Procs
    <3>2. \A r \in Runs : s.view[r].state # "none" => (WaitsOf(r))' \subseteq WaitsOf(r)
      BY <1>7, <2>1, <3>1 DEF s
    <3>3. WorkerFits(s) BY <2>2 DEF Own
    <3>4. \A x \in s.waits : x[1] \in Runs BY <2>2 DEF Session, WaitIds
    <3>5. \A r \in Runs : "state" \notin s.dirty[r] /\ s.view[r].state \notin {"none", Parked}
             => (WaitsOf(r))' = {}
      BY <3>2, <3>3 DEF WorkerFits
    <3>6. \A x \in s.waits : x[1] \notin s.purged => (WaitsOf(x[1]))' \subseteq {x}
      <4> SUFFICES ASSUME NEW x \in s.waits, x[1] \notin s.purged
                   PROVE  (WaitsOf(x[1]))' \subseteq {x}
        OBVIOUS
      <4>1. s.view[x[1]].state = Parked /\ WaitsOf(x[1]) \subseteq {x} BY <3>3 DEF WorkerFits
      <4> QED BY <3>2, <3>4, <4>1 DEF Parked
    <3> QED BY <2>1, <3>3, <3>5, <3>6 DEF WorkerFits
  <2> QED BY <2>6, <2>7, <2>8 DEF Own
\* The state that p gives a run.
<1>9. ASSUME p \in Workers, NEW r \in Runs, "state" \in t.dirty[r], Quiet(sess[p], r)
      PROVE  run'[r].state \in {"cancelling", "cancelled"}
  <2>1. t = sess[p] BY <1>9 DEF Publishable
  <2> QED BY <1>3, <1>4, <1>9, <2>1 DEF Quiet, Fits
<1>10. MarkedIsQuiet'
  <2> SUFFICES ASSUME NEW w \in Workers, NEW r \in Runs, Open(w)',
                      run'[r].state \in {"running", "cancelling"}
               PROVE  Quiet(sess[w], r)
    BY <1>2 DEF MarkedIsQuiet, Quiet, Procs
  <2>1. w # p /\ Open(w) /\ w \in Procs /\ p \in Api
    BY <1>2 DEF OneWorker, Procs
  <2>2. CASE "state" \notin t.dirty[r]
    BY <1>3, <2>1, <2>2 DEF OneInv, MarkedIsQuiet
  <2>3. CASE "state" \in t.dirty[r]
    <3>1. CASE sess[w].view[r].state = "none" BY <3>1 DEF Quiet
    <3>2. CASE sess[w].view[r].state # "none"
      <4>1. sess[p].phase = "cancel" /\ sess[p].view[r].state = "running"
        BY <1>3, <1>6, <2>1, <2>3, <3>2
      <4> QED BY <2>1, <4>1 DEF OneInv, ReadIsQuiet
    <3> QED BY <3>1, <3>2
  <2> QED BY <2>2, <2>3
<1>11. ReadIsQuiet'
  <2> SUFFICES ASSUME NEW a \in Api, NEW r \in Runs, Open(a)', sess'[a].phase = "cancel",
                      sess'[a].view[r].state = "running"
               PROVE  /\ run'[r].state \in {"running", "cancelling", "cancelled"}
                      /\ \A w \in Workers : Open(w)' => Quiet(sess'[w], r)
    BY DEF ReadIsQuiet, Quiet
  <2>1. /\ Open(a) /\ a # p /\ sess[a].phase = "cancel" /\ sess[a].view[r].state = "running"
    BY <1>2 DEF Procs
  <2>2. /\ run[r].state \in {"running", "cancelling", "cancelled"}
        /\ \A w \in Workers : Open(w) => Quiet(sess[w], r)
    BY <2>1 DEF OneInv, ReadIsQuiet
  <2>3. \A w \in Workers : Open(w)' => Quiet(sess'[w], r) BY <1>2, <2>2 DEF Procs
  <2>4. run'[r].state \in {"running", "cancelling", "cancelled"}
    <3>1. CASE "state" \notin t.dirty[r] BY <1>3, <2>2, <3>1
    <3>2. CASE "state" \in t.dirty[r] /\ p \in Workers BY <1>9, <2>2, <3>2
    <3>3. CASE "state" \in t.dirty[r] /\ p \in Api BY <1>3, <1>6, <2>2, <3>3
    <3> QED BY <3>1, <3>2, <3>3 DEF Procs
  <2> QED BY <2>3, <2>4
<1> QED BY <1>5, <1>8, <1>10, <1>11 DEF OneInv

LEMMA OneClock == TypeOK /\ OneInv /\ Clock => OneInv'
<1> SUFFICES ASSUME TypeOK, OneInv, Clock PROVE OneInv' OBVIOUS
<1>1. \A row \in Row : Rung(row).state = row.state BY DEF Rung, Row
<1>2. (\A r \in Runs : run'[r].state = run[r].state) /\ wait' = wait
  BY <1>1 DEF Clock, TypeOK
<1>3. ASSUME NEW q \in Procs, Open(q)'
      PROVE  /\ Open(q) /\ sess'[q].phase = sess[q].phase /\ sess'[q].dirty = sess[q].dirty
             /\ sess'[q].added = sess[q].added /\ sess'[q].gone = sess[q].gone
             /\ sess'[q].purged = sess[q].purged /\ sess'[q].runs = sess[q].runs
             /\ sess'[q].waits = sess[q].waits /\ sess'[q].cur = sess[q].cur
             /\ \A r \in Runs : sess'[q].view[r].state = sess[q].view[r].state
  <2>1. Open(q) BY <1>3 DEF Clock, Open
  <2>2. sess[q] \in Session BY <2>1 DEF TypeOK, Open
  <2>3. sess'[q] = [sess[q] EXCEPT !.view = [r \in Runs |-> Rung(@[r])]]
    BY <2>1 DEF Clock
  <2>4. \A r \in Runs : sess[q].view[r] \in Row BY <2>2 DEF Session
  <2> HIDE DEF Rung
  <2>5. sess'[q].view = [r \in Runs |-> Rung(sess[q].view[r])]
    BY <2>2, <2>3 DEF Session
  <2>6. \A r \in Runs : sess'[q].view[r].state = sess[q].view[r].state
    BY <1>1, <2>4, <2>5
  <2> QED BY <2>1, <2>2, <2>3, <2>6 DEF Session
<1>4. \A r : (WaitsOf(r))' = WaitsOf(r) BY <1>2 DEF WaitsOf
<1>5. Matched' BY <1>2, <1>4 DEF OneInv, Matched
<1>6. ASSUME NEW q \in Procs, Open(q)' PROVE Own(q, sess[q])'
  <2>1. Own(q, sess[q]) /\ sess[q] \in Session BY <1>3, <1>6 DEF OneInv, TypeOK, Open
  <2>2. \A r \in Runs : (Heard(sess[q], r))' = Heard(sess[q], r)
    BY <1>3, <1>4, <1>6 DEF Heard
  <2>3. sess[q].runs \subseteq Runs /\ \A x \in sess[q].waits : x[1] \in Runs
    BY <2>1 DEF Session, WaitIds
  <2>4. sess[q].purged \subseteq Runs BY <2>1 DEF Session
  <2>5. Coherent(sess[q])' BY <1>2, <1>3, <1>6, <2>1, <2>2, <2>3 DEF Own, Coherent, Sound
  <2>6. ApiFits(sess[q]) => ApiFits(sess[q])' BY <1>2, <1>3, <1>6 DEF ApiFits
  <2>7. WorkerFits(sess[q]) => WorkerFits(sess[q])'
    BY <1>3, <1>4, <1>6, <2>3 DEF WorkerFits
  <2> QED BY <2>1, <2>5, <2>6, <2>7 DEF Own
<1>7. \A w \in Workers, r \in Runs : Open(w)' => (Quiet(sess'[w], r) <=> Quiet(sess[w], r))
  BY <1>3 DEF Quiet, Procs
<1>8. MarkedIsQuiet'
  <2> SUFFICES ASSUME NEW w \in Workers, NEW r \in Runs, Open(w)',
                      run'[r].state \in {"running", "cancelling"}
               PROVE  Quiet(sess'[w], r)
    BY DEF MarkedIsQuiet, Quiet
  <2> QED BY <1>2, <1>3, <1>7 DEF OneInv, MarkedIsQuiet, Procs
<1>9. ReadIsQuiet'
  <2> SUFFICES ASSUME NEW a \in Api, NEW r \in Runs, Open(a)', sess'[a].phase = "cancel",
                      sess'[a].view[r].state = "running"
               PROVE  /\ run'[r].state \in {"running", "cancelling", "cancelled"}
                      /\ \A w \in Workers : Open(w)' => Quiet(sess'[w], r)
    BY DEF ReadIsQuiet, Quiet
  <2>1. Open(a) /\ sess[a].phase = "cancel" /\ sess[a].view[r].state = "running"
    BY <1>3 DEF Procs
  <2>2. \A w \in Workers : Open(w)' => Open(w) BY <1>3 DEF Procs
  <2> QED BY <1>2, <1>7, <2>1, <2>2 DEF OneInv, ReadIsQuiet
<1> QED BY <1>5, <1>6, <1>8, <1>9 DEF OneInv

-----------------------------------------------------------------------------
(* Every step of a process, as what it does to the transaction             *)

LEMMA CancelPublishable ==
    ASSUME OneWorker, TypeOK, EndInv, OneInv, NEW p \in Procs, Open(p),
           sess[p].phase = "cancel", NEW r \in sess[p].runs, FreeRun(p, r)
    PROVE  Publishable(p, CancelRun(sess[p], r))
<1> DEFINE s == sess[p]
           t == CancelRun(s, r)
<1>1. s \in Session /\ r \in Runs BY DEF TypeOK, Open, Session
<1>2. Own(p, s) /\ p \notin Workers /\ p \in Api
  BY DEF OneInv, Own, WorkerFits, Procs
<1>3. /\ s.cur = None /\ \A q \in Runs : s.dirty[q] = {}
      /\ s.added = {} /\ s.gone = {} /\ s.purged = {}
  BY <1>2 DEF Own, ApiFits
<1>4. /\ t \in Session /\ SamePlace(s, t) /\ t.cur = s.cur
      /\ Stays(s, t) \/ Marks(s, t, r) \/ Ends(s, t, r, "cancelled")
  BY <1>1, CancelEffect
<1>5. Tame(s, t) /\ Lawful(s, t, r) BY <1>1, TameCancelRun, LawfulCancelRun
<1>6. \A q \in Runs : "step" \notin t.dirty[q] BY <1>1, <1>3, CancelKeepsStep
<1> HIDE DEF t
<1>7. ASSUME NEW q \in Runs
      PROVE  /\ Fits(t, q)
             /\ t.dirty[q] = {} \/ \A o \in Procs \ {p} : Open(o) => sess[o].dirty[q] = {}
  BY <1>5, Carried
<1>8. \A q \in Runs : Sound(s, q) BY <1>2 DEF Own, Coherent
<1>9. \A q \in Runs : q \in s.runs => s.view[q].state # "none" BY <1>2 DEF Own, Coherent
<1>10. None \notin Runs BY RunsAssumption
<1>11. /\ \A q \in Runs : Sound(t, q)
       /\ t.added = {}
       /\ \A q \in Runs : s.view[q].state # "none" => t.view[q].state # "none"
       /\ \A q \in Runs : t.dirty[q] # {} =>
             /\ "state" \in t.dirty[q]
             /\ \/ t.view[q].state = "cancelled"
                \/ t.view[q].state = "cancelling" /\ s.view[q].state = "running"
  <2>1. CASE Stays(s, t)
    <3>1. \A q \in Runs : Sound(t, q) BY <1>8, <2>1, StaysSound
    <3> QED BY <1>3, <2>1, <3>1 DEF Stays, SameWaits
  <2>2. CASE Marks(s, t, r)
    <3>1. s.view[r].state = "running" /\ t.added = {} BY <1>3, <2>2 DEF Marks, SameWaits
    <3>2. run[r].state \in {"running", "cancelling", "cancelled"}
      BY <1>1, <1>2, <3>1 DEF OneInv, ReadIsQuiet
    <3>3. Heard(s, r) = {} BY <1>1, <1>3, <3>2 DEF OneInv, Matched, Match, Heard, Parked
    <3>4. /\ OnlyRun(s, t, r) /\ Sound(t, r) /\ "state" \in t.dirty[r]
          /\ t.view[r].state = "cancelling"
      BY <1>1, <1>4, <1>8, <2>2, <3>3, SoundMarks
    <3> QED BY <1>1, <1>3, <1>8, <3>1, <3>4, OtherRuns DEF OnlyRun
  <2>3. CASE Ends(s, t, r, "cancelled")
    <3>1. /\ OnlyRun(s, t, r) /\ Sound(t, r) /\ "state" \in t.dirty[r]
          /\ t.view[r].state = "cancelled"
      BY <1>1, <1>4, <1>8, <2>3, SoundEnds
    <3>2. t.added = {} BY <1>3, <2>3 DEF Ends
    <3> QED BY <1>1, <1>3, <1>8, <3>1, <3>2, OtherRuns DEF OnlyRun
  <2> QED BY <1>4, <2>1, <2>2, <2>3
<1>12. Coherent(t) BY <1>3, <1>4, <1>9, <1>10, <1>11 DEF Coherent, SamePlace
<1>13. Publishable(p, t) BY <1>2, <1>4, <1>6, <1>7, <1>11, <1>12 DEF Publishable
<1> QED BY <1>13 DEF t

\* p goes on with t, as it may.
Continues(p, t) ==
    /\ Becomes(p, t) /\ UNCHANGED store
    /\ Own(p, t) /\ (p \in Workers => QuietKept(sess[p], t))
    /\ p \in Api /\ t.phase = "cancel" => sess[p].phase = "cancel" /\ t.view = sess[p].view
    /\ \/ Idles(sess[p], t) /\ sent' = sent
       \/ Turned(p, t)
       \/ Takes(p, sess[p], t) /\ sent' = sent

LEMMA WorkEffect ==
    ASSUME OneWorker, TypeOK, EndInv, OneInv, NEW p \in Procs, Work(p)
    PROVE  \/ \E t : Continues(p, t)
           \/ GivesUp(p) /\ UNCHANGED store
           \/ \E t : Publishable(p, t) /\ Publish(p, t) /\ sent' = sent
<1> DEFINE s == sess[p]
<1>1. Open(p) /\ s \in Session BY DEF Work, TypeOK, Open
<1>2. Own(p, s) /\ Matched BY <1>1 DEF OneInv
<1>3. \A r \in Runs : Fits(s, r) BY <1>1 DEF EndInv, SessionsFit
<1>4. p \in Api /\ s.phase = "cancel" => s.cur = None BY <1>2 DEF Own, ApiFits
<1>5. CASE Advance(p)
  <2>1. ASSUME NEW t, Becomes(p, t), Idles(s, t), sent' = sent PROVE Continues(p, t)
    <3>1. t \in Session /\ UNCHANGED store BY <1>1, <1>5, <2>1, AdvanceEffect DEF Becomes
    <3>2. Own(p, t) /\ QuietKept(s, t) BY <1>1, <1>2, <2>1, <3>1, OwnIdles
    <3>3. t.phase = s.phase /\ t.view = s.view BY <2>1 DEF Idles, SamePlace, Stays
    <3> QED BY <2>1, <3>1, <3>2, <3>3 DEF Continues
  <2>2. ASSUME NEW t, Becomes(p, t), Turned(p, t) PROVE Continues(p, t)
    <3>1. t \in Session /\ UNCHANGED store BY <1>1, <1>5, <2>2, AdvanceEffect DEF Becomes
    <3>2. s.cur \in Runs /\ t.phase = s.phase BY <2>2 DEF Turned, SamePlace
    <3>3. Own(p, t) /\ (p \in Workers => QuietKept(s, t))
      BY <1>1, <1>2, <1>3, <2>2, <3>1, <3>2, OwnTurned
    <3>4. p \in Api => t.phase # "cancel" BY <1>4, <3>2, RunsAssumption
    <3> QED BY <2>2, <3>1, <3>3, <3>4 DEF Continues
  <2> QED BY <1>1, <1>5, <2>1, <2>2, AdvanceEffect
<1>6. CASE \/ TakeRun(p) \/ TakeWait(p) \/ TakeRule(p) \/ TakeContact(p)
           \/ TakeManual(p) \/ TurnTick(p) \/ TurnCron(p) \/ TurnEvent(p)
  <2>1. UNCHANGED store /\ sent' = sent BY <1>1, <1>6, TakeEffect
  <2>2. PICK t : Becomes(p, t) /\ Takes(p, s, t) BY <1>1, <1>6, TakeEffect
  <2>3. t \in Session BY <2>2 DEF Becomes
  <2>4. Own(p, t) /\ QuietKept(s, t) BY <1>1, <1>2, <1>3, <2>2, <2>3, OwnTakes
  <2>5. p \in Api => t.phase # "cancel"
    BY <2>2 DEF Takes, Calls, Passes, Resumes, Rules, LetsIn
  <2> QED BY <2>1, <2>2, <2>4, <2>5 DEF Continues
<1>7. CASE CancelCommits(p)
  <2>1. PICK r \in s.runs : FreeRun(p, r) /\ Publish(p, CancelRun(s, r))
    BY <1>7 DEF CancelCommits
  <2>2. s.phase = "cancel" /\ sent' = sent BY <1>7 DEF CancelCommits
  <2> QED BY <1>1, <2>1, <2>2, CancelPublishable
<1>8. CASE Commits(p)
  <2>1. Publish(p, s) /\ sent' = sent /\ s.phase # "cancel" BY <1>8 DEF Commits
  <2>2. p \in Api => s.phase = "manual" BY <1>2, <2>1 DEF Own, ApiFits
  <2>3. \A r \in Runs : s.dirty[r] = {} \/ \A q \in Procs \ {p} : Open(q) => sess[q].dirty[r] = {}
    BY <1>1 DEF EndInv, LockOfOneRun
  <2>4. Publishable(p, s) BY <1>1, <1>2, <1>3, <2>2, <2>3 DEF Publishable, Own
  <2> QED BY <2>1, <2>4
<1> QED BY <1>5, <1>6, <1>7, <1>8 DEF Work

\* p begins a transaction, with what it selects.
Selects(p, phase, runs, waits, admit) ==
    /\ sess' = [sess EXCEPT ![p] = NewSession(phase, runs, waits, admit)]
    /\ \A r \in runs : run[r].state # "none"
    /\ p \in Workers => /\ phase \notin {"manual", "cancel", "cancelling"}
                        /\ phase = "due" => \A r \in runs : run[r].state = "waiting"
                        /\ waits \subseteq wait
    /\ p \in Api => \/ phase = "manual" /\ runs = {} /\ waits = {}
                    \/ phase = "cancel"

LEMMA BeginEffect ==
    ASSUME OneWorker, NEW p \in Procs,
           \/ BeginTick(p) \/ \E c \in Contacts : BeginManual(p, c)
           \/ \E r \in Runs : BeginCancel(p, r)
           \/ \E e \in Events, c \in Contacts, pass \in BOOLEAN : BeginEvent(p, e, c, pass),
           TypeOK
    PROVE  /\ ~Open(p) /\ UNCHANGED store /\ sent' = sent
           /\ \E phase \in Phases, runs \in SUBSET Runs, waits \in SUBSET WaitIds,
                admit \in SUBSET Contacts :
                  Selects(p, phase, runs, waits, admit)
<1> DEFINE Goal == \E phase \in Phases, runs \in SUBSET Runs, waits \in SUBSET WaitIds,
                     admit \in SUBSET Contacts :
                  Selects(p, phase, runs, waits, admit)
<1>1. (p \in Workers => p \notin Api) /\ wait \subseteq WaitIds BY DEF OneWorker, TypeOK
<1>2. ASSUME BeginTick(p) PROVE ~Open(p) /\ UNCHANGED store /\ sent' = sent /\ Goal
  <2> DEFINE runs == {r \in Runs : run[r].state = "waiting" /\ run[r].wake = "due"}
             waits == wait \cap expired
             admit == IF CronTrigger /\ active THEN Contacts ELSE {}
  <2>1. /\ sess' = [sess EXCEPT ![p] = NewSession("due", runs, waits, admit)]
        /\ p \in Workers /\ ~Open(p) /\ UNCHANGED store /\ sent' = sent
    BY <1>2 DEF BeginTick, Begin
  <2>2. /\ runs \in SUBSET Runs /\ waits \in SUBSET WaitIds /\ admit \in SUBSET Contacts
        /\ "due" \in Phases /\ waits \subseteq wait /\ \A r \in runs : run[r].state = "waiting"
    BY <1>1 DEF Phases
  <2> HIDE DEF runs, waits, admit
  <2>3. Goal BY <1>1, <2>1, <2>2 DEF Selects
  <2> QED BY <2>1, <2>3
<1>3. ASSUME NEW c \in Contacts, BeginManual(p, c)
      PROVE  ~Open(p) /\ UNCHANGED store /\ sent' = sent /\ Goal
  <2>1. /\ sess' = [sess EXCEPT ![p] = NewSession("manual", {}, {}, {c})]
        /\ p \in Api /\ ~Open(p) /\ UNCHANGED store /\ sent' = sent
    BY <1>3 DEF BeginManual, Begin
  <2>2. {c} \in SUBSET Contacts /\ "manual" \in Phases BY DEF Phases
  <2>3. Goal BY <1>1, <2>1, <2>2 DEF Selects
  <2> QED BY <2>1, <2>3
<1>4. ASSUME NEW r \in Runs, BeginCancel(p, r)
      PROVE  ~Open(p) /\ UNCHANGED store /\ sent' = sent /\ Goal
  <2> DEFINE runs == {r}
             phase == "cancel"
             waits == {}
             admit == {}
  <2>1. /\ sess' = [sess EXCEPT ![p] = NewSession(phase, runs, waits, admit)]
        /\ p \in Api /\ ~Open(p) /\ UNCHANGED store /\ sent' = sent
    BY <1>4 DEF BeginCancel, Begin
  <2>2. /\ runs \in SUBSET Runs /\ waits \in SUBSET WaitIds /\ admit \in SUBSET Contacts
        /\ phase \in Phases /\ \A x \in runs : run[x].state # "none"
    BY <1>4 DEF BeginCancel, Phases
  <2>3. p \notin Workers /\ phase = "cancel" BY <1>1, <2>1
  <2> HIDE DEF runs, phase, waits, admit
  <2>4. Goal BY <2>1, <2>2, <2>3 DEF Selects
  <2> QED BY <2>1, <2>4
<1>5. ASSUME NEW e \in Events, NEW c \in Contacts, NEW pass \in BOOLEAN, BeginEvent(p, e, c, pass)
      PROVE  ~Open(p) /\ UNCHANGED store /\ sent' = sent /\ Goal
  <2> DEFINE runs == {r \in Runs : /\ e \in CancelEvents /\ run[r].contact = c
                                   /\ run[r].state \in Live \ {"cancelling"}}
             waits == {w \in wait : Awaits[w[2]] = e /\ run[w[1]].contact = c}
             admit == IF pass /\ active /\ ~CronTrigger /\ e \in TriggerEvents
                      THEN {c} ELSE {}
  <2>1. /\ sess' = [sess EXCEPT ![p] = NewSession("rules", runs, waits, admit)]
        /\ p \in Workers /\ ~Open(p) /\ UNCHANGED store /\ sent' = sent
    BY <1>5 DEF BeginEvent, Begin, OneWorker
  <2>2. /\ runs \in SUBSET Runs /\ waits \in SUBSET WaitIds /\ admit \in SUBSET Contacts
        /\ "rules" \in Phases /\ waits \subseteq wait /\ \A r \in runs : run[r].state # "none"
    BY <1>1 DEF Phases, Live
  <2> HIDE DEF runs, waits, admit
  <2>3. Goal BY <1>1, <2>1, <2>2 DEF Selects
  <2> QED BY <2>1, <2>3
<1> HIDE DEF Goal
<1>6. ~Open(p) /\ UNCHANGED store /\ sent' = sent /\ Goal BY <1>2, <1>3, <1>4, <1>5
<1> QED BY <1>6 DEF Goal

-----------------------------------------------------------------------------
(* The waits and the states of the runs change together                    *)

LEMMA OneInit == Init => OneInv
<1> SUFFICES ASSUME Init PROVE OneInv OBVIOUS
<1>1. \A p \in Workers \cup Api : ~Open(p) BY DEF Init, Open, Procs
<1>2. \A r \in Runs : run[r].state = "none" /\ WaitsOf(r) = {}
  BY DEF Init, NoRow, WaitsOf
<1> QED BY <1>1, <1>2 DEF OneInv, Matched, Match, Parked, MarkedIsQuiet, ReadIsQuiet, Procs

LEMMA OneWork ==
    ASSUME OneWorker, TypeOK, EndInv, OneInv, NEW p \in Procs, Work(p)
    PROVE  OneInv'
<1>1. Open(p) /\ Own(p, sess[p]) BY DEF Work, OneInv
<1>2. ASSUME NEW t, Continues(p, t) PROVE OneInv'
  BY <1>1, <1>2, OneGoesOn DEF Continues, Becomes
<1>3. ASSUME GivesUp(p), UNCHANGED store PROVE OneInv'
  <2>1. CASE sess' = [sess EXCEPT ![p] = None] BY <1>3, <2>1, OneLost
  <2>2. CASE /\ sess[p].phase = "cron"
             /\ sess' = [sess EXCEPT ![p] = NewSession("end", {}, {}, {})]
    <3>1. p \notin Api BY <1>1, <2>2 DEF Own, ApiFits
    <3>2. /\ {} \in SUBSET Runs /\ {} \in SUBSET WaitIds /\ {} \in SUBSET Contacts
          /\ "end" \in Phases /\ "end" \notin {"manual", "cancel", "cancelling", "due"}
      BY DEF Phases
    <3> QED BY <1>3, <2>2, <3>1, <3>2, OneBegins
  <2> QED BY <1>3, <2>1, <2>2 DEF GivesUp
<1>4. ASSUME NEW t, Publishable(p, t), Publish(p, t) PROVE OneInv'
  BY <1>1, <1>4, OnePublishes
<1> QED BY <1>2, <1>3, <1>4, WorkEffect

LEMMA OneNext == OneWorker /\ TypeOK /\ EndInv /\ OneInv /\ [Next]_vars => OneInv'
<1> SUFFICES ASSUME OneWorker, TypeOK, EndInv, OneInv, [Next]_vars PROVE OneInv' OBVIOUS
<1>1. ASSUME run' = run, wait' = wait, sess' = sess PROVE OneInv'
  <2>1. \A q \in Procs : Open(q) => sess'[q] = sess[q] /\ Own(q, sess[q])
    BY <1>1 DEF OneInv
  <2>2. \A q \in Procs : Open(q)' => Own(q, sess[q])' BY <1>1, <2>1, OwnPrime DEF Open
  <2> QED BY <1>1, <2>2 DEF OneInv, Matched, WaitsOf, Open, MarkedIsQuiet, ReadIsQuiet, Quiet
<1>2. CASE UNCHANGED vars BY <1>1, <1>2 DEF vars
<1>3. CASE Clock BY <1>3, OneClock
<1>4. ASSUME NEW on \in BOOLEAN, SetActive(on) PROVE OneInv'
  BY <1>1, <1>4 DEF SetActive, store
<1>5. ASSUME NEW p \in Procs, Work(p) PROVE OneInv' BY <1>5, OneWork
<1>6. ASSUME NEW p \in Procs, Crash(p) PROVE OneInv' BY <1>6, OneLost DEF Crash
<1>7. ASSUME NEW p \in Procs,
             \/ BeginTick(p) \/ \E c \in Contacts : BeginManual(p, c)
             \/ \E r \in Runs : BeginCancel(p, r)
             \/ \E e \in Events, c \in Contacts, pass \in BOOLEAN : BeginEvent(p, e, c, pass)
      PROVE OneInv'
  <2>1. UNCHANGED store BY <1>7, BeginEffect
  <2>2. PICK phase \in Phases, runs \in SUBSET Runs, waits \in SUBSET WaitIds,
             admit \in SUBSET Contacts :
                  Selects(p, phase, runs, waits, admit)
    BY <1>7, BeginEffect
  <2> QED BY <2>1, <2>2, OneBegins DEF Selects
<1> QED BY <1>2, <1>3, <1>4, <1>5, <1>6, <1>7 DEF Next

LEMMA OneAlways == OneWorker => (Spec => [](TypeOK /\ EndInv /\ OneInv))
<1> SUFFICES ASSUME OneWorker PROVE Spec => [](TypeOK /\ EndInv /\ OneInv) OBVIOUS
<1>1. Init => TypeOK /\ EndInv /\ OneInv BY InitType, EndInit, OneInit
<1>2. (TypeOK /\ EndInv /\ OneInv) /\ [Next]_vars => (TypeOK /\ EndInv /\ OneInv)'
  BY NextType, EndNext, OneNext
<1> QED BY <1>1, <1>2, PTL DEF Spec

\* With one worker and no event run inside a request, however the requests and the
\* job overlap: what is committed of a run and what every transaction is about to
\* commit of it have the waits that the state of the run asks for.
THEOREM WaitsGoWithState == OneWorker => (Spec => []OneInv)
<1>1. TypeOK /\ EndInv /\ OneInv => OneInv OBVIOUS
<1> QED BY <1>1, OneAlways, PTL

\* No run is deaf or woken twice: it is parked exactly when one event wait points at it.
THEOREM ParkedIffAwaited == OneWorker => (Spec => []ListensIffParked)
<1>1. OneInv => ListensIffParked
  <2> SUFFICES ASSUME OneInv, NEW r \in Runs
               PROVE  Cardinality({w \in wait : w[1] = r}) =
                          IF run[r].state = "waiting_for_event" THEN 1 ELSE 0
    BY DEF ListensIffParked
  <2>1. Match({w \in wait : w[1] = r}, run[r].state) BY DEF OneInv, Matched, WaitsOf
  <2>2. CASE run[r].state = "waiting_for_event"
    <3>1. PICK x : {w \in wait : w[1] = r} = {x} BY <2>1, <2>2 DEF Match, Parked
    <3> QED BY <2>2, <3>1, FS_Singleton
  <2>3. CASE run[r].state # "waiting_for_event"
    BY <2>1, <2>3, FS_EmptySet DEF Match, Parked
  <2> QED BY <2>2, <2>3
<1> QED BY <1>1, WaitsGoWithState, PTL

-----------------------------------------------------------------------------
(* A cancellation is never overwritten                                     *)

CancellingCloses ==
    \A r \in Runs : run[r].state = "cancelling" =>
        run'[r].state \in {"cancelling", "cancelled"}

\* A step that does not commit changes no state of a run.
LEMMA ClosesKept ==
    ASSUME UNCHANGED run PROVE CancellingCloses
BY DEF CancellingCloses

LEMMA ClosesPublished ==
    ASSUME OneWorker, TypeOK, OneInv, NEW p \in Procs, Open(p), NEW t,
           Publishable(p, t), Publish(p, t)
    PROVE  CancellingCloses
<1> SUFFICES ASSUME NEW r \in Runs, run[r].state = "cancelling"
             PROVE  run'[r].state \in {"cancelling", "cancelled"}
  BY DEF CancellingCloses
<1>1. t \in Session BY DEF Publishable
<1>2. run'[r].state = IF "state" \in t.dirty[r] THEN t.view[r].state ELSE run[r].state
  BY DEF Publish
<1>3. CASE "state" \notin t.dirty[r] BY <1>2, <1>3
<1>4. CASE p \in Workers /\ "state" \in t.dirty[r]
  <2>1. t = sess[p] /\ Sound(t, r) BY <1>4 DEF Publishable, Coherent
  <2>2. Quiet(t, r) BY <1>4, <2>1 DEF OneInv, MarkedIsQuiet
  <2>3. t.view[r].state # "none" BY <1>4, <2>1 DEF Publishable, Fits
  <2> QED BY <1>2, <1>4, <2>2, <2>3 DEF Quiet
<1>5. CASE p \in Api /\ "state" \in t.dirty[r]
  <2>1. CASE t = sess[p] /\ t.phase = "manual"
    <3>1. ApiFits(t) BY <1>5, <2>1 DEF OneInv, Own
    <3> QED BY <1>5, <2>1, <3>1 DEF ApiFits
  <2>2. CASE \/ t.view[r].state = "cancelled"
             \/ t.view[r].state = "cancelling"
    BY <1>2, <1>5, <2>2
  <2> QED BY <1>5, <2>1, <2>2 DEF Publishable
<1> QED BY <1>3, <1>4, <1>5 DEF Procs

LEMMA ClosesNext == OneWorker /\ TypeOK /\ EndInv /\ OneInv /\ [Next]_vars => CancellingCloses
<1> SUFFICES ASSUME OneWorker, TypeOK, EndInv, OneInv, [Next]_vars PROVE CancellingCloses
  OBVIOUS
<1>1. CASE UNCHANGED run BY <1>1, ClosesKept
<1>2. CASE UNCHANGED vars BY <1>1, <1>2 DEF vars
<1>3. CASE Clock
  BY <1>3 DEF CancellingCloses, Clock, Rung, TypeOK, Row
<1>4. ASSUME NEW on \in BOOLEAN, SetActive(on) PROVE CancellingCloses
  BY <1>1, <1>4 DEF SetActive, store
<1>5. ASSUME NEW p \in Procs, Work(p) PROVE CancellingCloses
  <2>1. Open(p) BY <1>5 DEF Work
  <2>2. ASSUME NEW t, Continues(p, t) PROVE CancellingCloses
    BY <1>1, <2>2 DEF Continues, store
  <2>3. ASSUME GivesUp(p), UNCHANGED store PROVE CancellingCloses BY <1>1, <2>3 DEF store
  <2>4. ASSUME NEW t, Publishable(p, t), Publish(p, t) PROVE CancellingCloses
    BY <2>1, <2>4, ClosesPublished
  <2> QED BY <1>5, <2>2, <2>3, <2>4, WorkEffect
<1>6. ASSUME NEW p \in Procs, Crash(p) PROVE CancellingCloses BY <1>1, <1>6 DEF Crash, store
<1>7. ASSUME NEW p \in Procs,
             \/ BeginTick(p) \/ \E c \in Contacts : BeginManual(p, c)
             \/ \E r \in Runs : BeginCancel(p, r)
             \/ \E e \in Events, c \in Contacts, pass \in BOOLEAN : BeginEvent(p, e, c, pass)
      PROVE CancellingCloses
  <2>1. UNCHANGED store BY <1>7, BeginEffect
  <2> QED BY <1>1, <2>1 DEF store
<1> QED BY <1>2, <1>3, <1>4, <1>5, <1>6, <1>7 DEF Next

\* With one worker, a run that was marked for cancellation is closed as cancelled and
\* not otherwise: a job at work on a run has found it waiting or parked, marking
\* asks for a running run, and so the job that is open knows nothing to write of it.
THEOREM MarkedStaysMarked == OneWorker => (Spec => CancellingOnlyCloses)
<1> SUFFICES ASSUME OneWorker PROVE Spec => CancellingOnlyCloses OBVIOUS
<1>1. Spec => [](TypeOK /\ EndInv /\ OneInv) BY OneAlways
<1>2. TypeOK /\ EndInv /\ OneInv /\ [Next]_vars => [CancellingCloses]_vars
  BY ClosesNext
<1>3. CancellingCloses <=> (\A r \in Runs : run[r].state = "cancelling" =>
          run'[r].state \in {"cancelling", "cancelled"})
  BY DEF CancellingCloses
<1> QED BY <1>1, <1>2, <1>3, PTL DEF Spec, CancellingOnlyCloses

-----------------------------------------------------------------------------
(* The refinement of RunLifecycle, by a process alone in the database      *)

\* A run goes on: live before and after, with its contact and its key.
Goes(s, t, r) ==
    /\ s.view[r].state \notin Terminal \cup {"none"} /\ SameCount(s, t)
    /\ \E row : /\ Puts(s, t, r, row)
                /\ row.state \notin Terminal \cup {"none"}
                /\ row.contact = s.view[r].contact /\ row.key = s.view[r].key
\* What a transaction may do to run r, by its life: it is admitted, goes on, or ends.
Lives(s, t, r) ==
    \/ Stays(s, t)
    \/ Goes(s, t, r)
    \/ s.view[r].state # "none" /\ \E k : Ends(s, t, r, k)
    \/ Unused(r) /\ s.dirty[r] = {} /\ \E c, step : Births(s, t, r, c, step)

LEMMA LivesOn ==
    ASSUME NEW s \in Session, NEW t \in Session, NEW r \in Runs, Lives(s, t, r)
    PROVE  \A q \in Runs : s.view[q].state # "none" => t.view[q].state # "none"
<1>1. CASE Stays(s, t) BY <1>1 DEF Stays
<1>2. CASE Goes(s, t, r) BY <1>2, PutsFacts DEF Goes
<1>3. ASSUME NEW k, Ends(s, t, r, k)
      PROVE \A q \in Runs : s.view[q].state # "none" => t.view[q].state # "none"
  BY <1>3, PutsFacts DEF Ends, Terminal
<1>4. ASSUME NEW c, NEW step, Births(s, t, r, c, step)
      PROVE \A q \in Runs : s.view[q].state # "none" => t.view[q].state # "none"
  BY <1>4, PutsFacts DEF Births
<1> QED BY <1>1, <1>2, <1>3, <1>4 DEF Lives

\* Only r is counted anew: once when it is admitted, and once when it ends.
LEMMA ToldOn ==
    ASSUME TypeOK, EndedRunsLetGo, NEW s \in Session, NEW t \in Session, NEW r \in Runs,
           Told(s), Lives(s, t, r)
    PROVE  Told(t)
<1>1. CASE Stays(s, t)
  BY <1>1 DEF Stays, SameCount, Told, AsCommitted, Counted, AdmittedBy, EndedBy
<1>2. ASSUME NEW row, Puts(s, t, r, row) PROVE AsCommitted(t)
  <2> SUFFICES ASSUME NEW q \in Runs, NEW c \in Cols, c \notin t.dirty[q]
               PROVE  t.view[q][c] = run[q][c]
    BY DEF AsCommitted
  <2>1. CASE q # r BY <1>2, <2>1, PutsFacts DEF Told, AsCommitted
  <2>2. CASE q = r BY <1>2, <2>2, PutsFacts DEF Puts, Told, AsCommitted
  <2> QED BY <2>1, <2>2
<1>3. CASE Goes(s, t, r)
  <2>1. PICK row : /\ Puts(s, t, r, row) /\ row.state \notin Terminal \cup {"none"}
                   /\ row.contact = s.view[r].contact /\ row.key = s.view[r].key
    BY <1>3 DEF Goes
  <2>2. /\ t.view[r] = row /\ \A q \in Runs \ {r} : t.view[q] = s.view[q]
        /\ t.count = s.count /\ t.bumped = s.bumped
        /\ s.view[r].state \notin Terminal \cup {"none"}
    BY <1>3, <2>1, PutsFacts DEF Goes, SameCount
  <2>3. AdmittedBy(t) = AdmittedBy(s) BY <2>1, <2>2 DEF AdmittedBy
  <2>4. \A k \in Terminal : EndedBy(t, k) = EndedBy(s, k) BY <2>1, <2>2 DEF EndedBy
  <2>5. Counted(t) BY <2>2, <2>3, <2>4 DEF Told, Counted
  <2>6. \A q \in Runs : Follows(run[q], t.view[q]) BY <2>1, <2>2 DEF Told, Follows
  <2> QED BY <1>2, <2>1, <2>5, <2>6 DEF Told
<1>4. ASSUME s.view[r].state # "none", NEW k, Ends(s, t, r, k) PROVE Told(t)
  <2>1. PICK row : /\ Puts(s, t, r, row) /\ row.state = k
                   /\ row.contact = s.view[r].contact /\ row.key = "archived"
    BY <1>4 DEF Ends
  <2>2. /\ t.view[r] = row /\ \A q \in Runs \ {r} : t.view[q] = s.view[q]
        /\ t.count = [s.count EXCEPT ![k] = @ + 1] /\ t.bumped = s.bumped \cup {k}
        /\ s.view[r].state \notin Terminal \cup {"none"} /\ k \in Terminal
    BY <1>4, <2>1, PutsFacts DEF Ends
  <2>3. Counted(s) /\ Follows(run[r], s.view[r]) BY DEF Told
  <2>4. run[r].state \notin Terminal BY <2>2, <2>3 DEF Follows
  <2>5. AdmittedBy(t) = AdmittedBy(s) BY <2>1, <2>2 DEF AdmittedBy, Terminal
  <2>6. r \notin EndedBy(s, k) /\ EndedBy(t, k) = EndedBy(s, k) \cup {r}
    BY <2>1, <2>2, <2>4 DEF EndedBy
  <2>7. \A m \in Terminal \ {k} : EndedBy(t, m) = EndedBy(s, m) BY <2>1, <2>2 DEF EndedBy
  <2>8. /\ s.count \in [Counters -> Nat] /\ k \in Counters \ {"entered"} /\ count \in [Counters -> Nat]
        /\ Terminal \subseteq Counters
    BY <2>2 DEF Session, TypeOK, Counters, Terminal
  <2>9. IsFiniteSet(EndedBy(s, k)) /\ s.count[k] = count[k] + Cardinality(EndedBy(s, k))
    BY <2>2, <2>3 DEF Counted
  <2>10. /\ IsFiniteSet(EndedBy(t, k))
         /\ Cardinality(EndedBy(t, k)) = Cardinality(EndedBy(s, k)) + 1
    BY <2>6, <2>9, FS_AddElement
  <2>11. Cardinality(EndedBy(s, k)) \in Nat BY <2>9, FS_CardinalityType
  <2>12. /\ t.count[k] = s.count[k] + 1
         /\ \A m \in Counters \ {k} : t.count[m] = s.count[m]
    BY <2>2, <2>8
  <2>13. t.count[k] = count[k] + Cardinality(EndedBy(t, k))
    BY <2>8, <2>9, <2>10, <2>11, <2>12
  <2>14. Counted(t)
    <3>1. t.count["entered"] = s.count["entered"] BY <2>8, <2>12 DEF Counters
    <3>2. \A m \in Terminal : /\ IsFiniteSet(EndedBy(t, m))
                              /\ t.count[m] = count[m] + Cardinality(EndedBy(t, m))
      BY <2>3, <2>7, <2>8, <2>10, <2>12, <2>13 DEF Counted
    <3>3. \A m \in Counters \ t.bumped : t.count[m] = count[m]
      BY <2>2, <2>3, <2>12 DEF Counted
    <3> QED BY <2>3, <2>5, <3>1, <3>2, <3>3 DEF Counted
  <2>15. \A q \in Runs : Follows(run[q], t.view[q])
    BY <2>1, <2>2, <2>4 DEF Told, Follows, Terminal
  <2> QED BY <1>2, <2>1, <2>14, <2>15 DEF Told
<1>5. ASSUME Unused(r), s.dirty[r] = {}, NEW c, NEW step, Births(s, t, r, c, step) PROVE Told(t)
  <2>1. PICK row : /\ Puts(s, t, r, row) /\ row.state = "running" /\ row.key \in {"slot", "own"}
    BY <1>5 DEF Births
  <2>2. /\ t.view[r] = row /\ \A q \in Runs \ {r} : t.view[q] = s.view[q]
        /\ t.count = [s.count EXCEPT !["entered"] = @ + 1]
        /\ t.bumped = s.bumped \cup {"entered"}
    BY <1>5, <2>1, PutsFacts DEF Births
  <2>3. Counted(s) /\ AsCommitted(s) BY DEF Told
  <2>4. run[r].state = "none" /\ s.view[r].state = "none"
    BY <1>5, <2>3 DEF Unused, AsCommitted, Cols
  <2>5. \A k \in Terminal : EndedBy(t, k) = EndedBy(s, k)
    BY <2>1, <2>2, <2>4 DEF EndedBy, Terminal
  <2>6. r \notin AdmittedBy(s) /\ AdmittedBy(t) = AdmittedBy(s) \cup {r}
    BY <2>1, <2>2, <2>4 DEF AdmittedBy
  <2>7. /\ s.count \in [Counters -> Nat] /\ count \in [Counters -> Nat]
        /\ "entered" \in Counters \ Terminal /\ Terminal \subseteq Counters
    BY DEF Session, TypeOK, Counters, Terminal
  <2>8. IsFiniteSet(AdmittedBy(s)) /\ s.count["entered"] = count["entered"] + Cardinality(AdmittedBy(s))
    BY <2>3 DEF Counted
  <2>9. /\ IsFiniteSet(AdmittedBy(t))
        /\ Cardinality(AdmittedBy(t)) = Cardinality(AdmittedBy(s)) + 1
    BY <2>6, <2>8, FS_AddElement
  <2>10. Cardinality(AdmittedBy(s)) \in Nat BY <2>8, FS_CardinalityType
  <2>11. /\ t.count["entered"] = s.count["entered"] + 1
         /\ \A m \in Counters \ {"entered"} : t.count[m] = s.count[m]
    BY <2>2, <2>7
  <2>12. t.count["entered"] = count["entered"] + Cardinality(AdmittedBy(t))
    BY <2>7, <2>8, <2>9, <2>10, <2>11
  <2>13. Counted(t)
    <3>1. \A m \in Terminal : /\ IsFiniteSet(EndedBy(t, m))
                              /\ t.count[m] = count[m] + Cardinality(EndedBy(t, m))
      BY <2>3, <2>5, <2>7, <2>11 DEF Counted
    <3>2. \A m \in Counters \ t.bumped : t.count[m] = count[m]
      BY <2>2, <2>3, <2>11 DEF Counted
    <3> QED BY <2>9, <2>12, <3>1, <3>2 DEF Counted
  <2>14. \A q \in Runs : Follows(run[q], t.view[q])
    BY <2>1, <2>2, <2>4 DEF Told, Follows, Terminal
  <2> QED BY <1>2, <2>1, <2>13, <2>14 DEF Told
<1> QED BY <1>1, <1>3, <1>4, <1>5 DEF Lives

\* What AloneInv says of an open transaction.
Fine(s) ==
    /\ Told(s)
    /\ \A r \in Runs : r \in s.runs \/ r = s.cur => s.view[r].state # "none"

LEMMA FreshIsFine ==
    ASSUME TypeOK, EndedRunsLetGo, \A r \in Runs : run[r].state = "none" => run[r].key = "none",
           NEW phase, NEW runs, NEW waits, NEW admit, \A r \in runs : run[r].state # "none"
    PROVE  Fine(NewSession(phase, runs, waits, admit))
<1> DEFINE s == NewSession(phase, runs, waits, admit)
<1>1. /\ s.view = run /\ \A r \in Runs : s.dirty[r] = {}
      /\ s.count = count /\ s.bumped = {} /\ s.runs = runs /\ s.cur = None
  BY DEF NewSession
<1> HIDE DEF s
<1>2. AdmittedBy(s) = {} /\ \A k \in Terminal : EndedBy(s, k) = {}
  BY <1>1 DEF AdmittedBy, EndedBy
<1>3. Counted(s)
  <2>1. count \in [Counters -> Nat] /\ Terminal \cup {"entered"} \subseteq Counters
    BY DEF TypeOK, Terminal, Counters
  <2>2. \A k \in Counters : count[k] = count[k] + 0 BY <2>1
  <2> QED BY <1>1, <1>2, <2>1, <2>2, FS_EmptySet DEF Counted
<1>4. AsCommitted(s) /\ \A r \in Runs : Follows(run[r], s.view[r])
  BY <1>1 DEF AsCommitted, Follows, EndedRunsLetGo
<1>5. \A r \in Runs : r \in s.runs \/ r = s.cur => s.view[r].state # "none"
  BY <1>1, RunsAssumption
<1> QED BY <1>3, <1>4, <1>5 DEF Fine, Told, s

\* A step of an open transaction that commits nothing.
LEMMA FineOn ==
    ASSUME TypeOK, EndInv, NEW p \in Procs, Open(p), Fine(sess[p]),
           Advance(p) \/ TakeRun(p) \/ TakeWait(p) \/ TakeRule(p) \/ TakeContact(p)
             \/ TakeManual(p) \/ TurnTick(p) \/ TurnCron(p) \/ TurnEvent(p)
    PROVE  /\ UNCHANGED store
           /\ \/ sess' = [sess EXCEPT ![p] = None]
              \/ sess' = [sess EXCEPT ![p] = NewSession("end", {}, {}, {})]
              \/ \E t \in Session : sess' = [sess EXCEPT ![p] = t] /\ Fine(t)
<1> DEFINE s == sess[p]
<1>1. s \in Session /\ Told(s) /\ EndedRunsLetGo BY DEF TypeOK, Open, Fine, EndInv
<1>2. \A r \in Runs : r \in s.runs \/ r = s.cur => s.view[r].state # "none" BY DEF Fine
<1>3. ASSUME NEW t \in Session, NEW r \in Runs, Lives(s, t, r),
             \A q \in Runs : q \in t.runs \/ q = t.cur => t.view[q].state # "none"
      PROVE  Fine(t)
  BY <1>1, <1>3, ToldOn DEF Fine
<1>4. ASSUME NEW t \in Session, Stays(s, t),
             \A q \in Runs : q \in t.runs \/ q = t.cur => s.view[q].state # "none"
      PROVE  Fine(t)
  <2>1. Told(t)
    BY <1>1, <1>4 DEF Stays, SameCount, Told, AsCommitted, Counted, AdmittedBy, EndedBy
  <2> QED BY <1>4, <2>1 DEF Fine, Stays
<1>5. CASE Advance(p)
  <2>1. UNCHANGED store BY <1>5, AdvanceEffect
  <2>2. ASSUME NEW t, Becomes(p, t), Idles(s, t) PROVE t \in Session /\ Fine(t)
    <3>1. t \in Session /\ Stays(s, t) /\ t.runs = s.runs /\ t.cur \in {s.cur, None}
      BY <2>2 DEF Becomes, Idles, SamePlace
    <3> QED BY <1>2, <1>4, <3>1, RunsAssumption
  <2>3. ASSUME NEW t, Becomes(p, t), Turned(p, t) PROVE t \in Session /\ Fine(t)
    <3> DEFINE r == s.cur
    <3>1. /\ t \in Session /\ r \in Runs /\ t.runs = s.runs /\ t.cur \in {r, None}
          /\ \/ \E row : Moves(s, t, r, row)
             \/ \E k : Ends(s, t, r, k)
             \/ Parks(p, s, t, r)
      BY <2>3 DEF Becomes, Turned, SamePlace
    <3>2. s.view[r].state # "none" BY <1>2, <3>1
    <3>3. ASSUME NEW row, Moves(s, t, r, row) PROVE Goes(s, t, r)
      BY <3>2, <3>3 DEF Moves, Goes, Terminal
    <3>4. ASSUME Parks(p, s, t, r) PROVE Goes(s, t, r)
      BY <3>2, <3>4 DEF Parks, Goes, Terminal, Parked
    <3>5. Lives(s, t, r) BY <3>1, <3>2, <3>3, <3>4 DEF Lives
    <3>6. \A q \in Runs : s.view[q].state # "none" => t.view[q].state # "none"
      BY <1>1, <3>1, <3>5, LivesOn
    <3> HIDE DEF r
    <3>7. \A q \in Runs : q \in t.runs \/ q = t.cur => t.view[q].state # "none"
      BY <1>2, <3>1, <3>2, <3>6, RunsAssumption DEF r
    <3> QED BY <1>3, <3>1, <3>5, <3>7
  <2> QED BY <1>5, <2>1, <2>2, <2>3, AdvanceEffect DEF Becomes, GivesUp
<1>6. CASE \/ TakeRun(p) \/ TakeWait(p) \/ TakeRule(p) \/ TakeContact(p)
           \/ TakeManual(p) \/ TurnTick(p) \/ TurnCron(p) \/ TurnEvent(p)
  <2>1. UNCHANGED store BY <1>6, TakeEffect
  <2>2. PICK t : Becomes(p, t) /\ Takes(p, s, t) BY <1>6, TakeEffect
  <2>3. t \in Session /\ s.runs \subseteq Runs BY <1>1, <2>2 DEF Becomes, Session
  <2>4. ASSUME Calls(s, t) PROVE Fine(t)
    <3>1. Stays(s, t) /\ t.cur \in s.runs /\ t.runs \subseteq s.runs BY <2>4 DEF Calls
    <3>2. \A q \in Runs : q \in t.runs \/ q = t.cur => s.view[q].state # "none"
      BY <1>2, <3>1
    <3> QED BY <1>4, <2>3, <3>1, <3>2
  <2>5. ASSUME Passes(s, t) PROVE Fine(t)
    <3>1. /\ Stays(s, t) /\ t.cur = None
          /\ t.runs \subseteq s.runs \/ t.runs = {r \in Runs : s.view[r].state = "cancelling"}
      BY <2>5 DEF Passes
    <3>2. \A q \in Runs : q \in t.runs \/ q = t.cur => s.view[q].state # "none"
      BY <1>2, <3>1, RunsAssumption
    <3> QED BY <1>4, <2>3, <3>1, <3>2
  <2>6. ASSUME NEW x \in WaitIds, Resumes(p, s, t, x) PROVE Fine(t)
    <3>1. x[1] \in Runs BY DEF WaitIds
    <3>2. t.runs = s.runs /\ t.cur \in {x[1], None} BY <2>6 DEF Resumes
    <3>3. CASE Wakes(s, t, x)
      <4>1. Goes(s, t, x[1]) BY <3>3 DEF Wakes, Goes, Terminal, Parked
      <4>2. Lives(s, t, x[1]) BY <4>1 DEF Lives
      <4>3. \A q \in Runs : s.view[q].state # "none" => t.view[q].state # "none"
        BY <1>1, <2>3, <3>1, <4>2, LivesOn
      <4>4. s.view[x[1]].state # "none" BY <4>1 DEF Goes
      <4> QED BY <1>2, <1>3, <2>3, <3>1, <3>2, <4>2, <4>3, <4>4, RunsAssumption
    <3>4. CASE Drops(s, t, x) /\ t.cur = None
      <4>1. Told(t)
        BY <1>1, <3>4 DEF Drops, SameCount, Told, AsCommitted, Counted, AdmittedBy, EndedBy
      <4> QED BY <1>2, <3>2, <3>4, <4>1, RunsAssumption DEF Fine, Drops
    <3> QED BY <2>6, <3>3, <3>4 DEF Resumes
  <2>7. ASSUME NEW r \in Runs, Rules(p, s, t, r) PROVE Fine(t)
    <3>1. /\ t.cur = None /\ r \in s.runs /\ t.runs \subseteq s.runs
          /\ Stays(s, t) \/ Marks(s, t, r) \/ Ends(s, t, r, "cancelled")
      BY <2>7 DEF Rules
    <3>2. s.view[r].state # "none" BY <1>2, <3>1
    <3>3. ASSUME Marks(s, t, r) PROVE Goes(s, t, r)
      <4>1. s.view[r] \in Row BY <1>1 DEF Session
      <4> QED BY <3>3, <4>1 DEF Marks, Goes, Terminal, Row
    <3>4. Lives(s, t, r) BY <3>1, <3>2, <3>3 DEF Lives
    <3>5. \A q \in Runs : s.view[q].state # "none" => t.view[q].state # "none"
      BY <1>1, <2>3, <3>4, LivesOn
    <3> QED BY <1>2, <1>3, <2>3, <3>1, <3>4, <3>5, RunsAssumption
  <2>8. ASSUME NEW r \in Runs, LetsIn(s, t, r) PROVE Fine(t)
    <3>1. /\ t.cur = r /\ t.runs = s.runs /\ Unused(r)
          /\ \E c, step : Births(s, t, r, c, step)
      BY <2>8 DEF LetsIn
    <3>2. s.dirty[r] = {} BY <3>1 DEF Unused
    <3>3. Lives(s, t, r) BY <3>1, <3>2 DEF Lives
    <3>4. \A q \in Runs : s.view[q].state # "none" => t.view[q].state # "none"
      BY <1>1, <2>3, <3>3, LivesOn
    <3>5. t.view[r].state # "none" BY <1>1, <2>3, <3>1, PutsFacts DEF Births
    <3> QED BY <1>2, <1>3, <2>3, <3>1, <3>3, <3>4, <3>5
  <2> QED BY <2>1, <2>2, <2>3, <2>4, <2>5, <2>6, <2>7, <2>8 DEF Becomes, Takes
<1> QED BY <1>5, <1>6

LEMMA FineClock ==
    ASSUME TypeOK, AloneInv, Clock PROVE AloneInv'
<1>1. /\ \A r \in Runs : run'[r] = Rung(run[r])
      /\ count' = count
      /\ \A p \in Procs : sess'[p] = IF Open(p)
            THEN [sess[p] EXCEPT !.view = [r \in Runs |-> Rung(@[r])]] ELSE None
  BY DEF Clock
<1>2. \A row \in Row : /\ Rung(row).state = row.state /\ Rung(row).key = row.key
                       /\ Rung(row).contact = row.contact /\ Rung(row).step = row.step
  BY DEF Rung, Row
<1>3. \A x, y \in Row : x.wake = y.wake => Rung(x).wake = Rung(y).wake BY DEF Rung, Row
<1>4. \A r \in Runs : run[r] \in Row BY DEF TypeOK
<1>5. \A r \in Runs : run'[r].state = "none" => run'[r].key = "none"
  BY <1>1, <1>2, <1>4 DEF AloneInv
<1>6. ASSUME NEW p \in Procs, Open(p)' PROVE (Fine(sess[p]))'
  <2> DEFINE s == sess[p]
             t == sess'[p]
  <2>1. Open(p) /\ Fine(s) /\ s \in Session
    BY <1>1, <1>6 DEF Open, AloneInv, Fine, TypeOK
  <2>2. /\ t.view = [r \in Runs |-> Rung(s.view[r])] /\ t.dirty = s.dirty
        /\ t.count = s.count /\ t.bumped = s.bumped /\ t.runs = s.runs /\ t.cur = s.cur
    BY <1>1, <2>1 DEF Session
  <2>3. \A r \in Runs : s.view[r] \in Row BY <2>1 DEF Session
  <2> HIDE DEF s, t
  <2>4. \A r \in Runs, c \in Cols : c \notin t.dirty[r] => t.view[r][c] = run'[r][c]
    <3> SUFFICES ASSUME NEW r \in Runs, NEW c \in Cols, c \notin t.dirty[r]
                 PROVE  Rung(s.view[r])[c] = Rung(run[r])[c]
      BY <1>1, <2>2
    <3>1. s.view[r][c] = run[r][c] BY <2>1, <2>2 DEF Fine, Told, AsCommitted
    <3>2. CASE c = "wake" BY <1>3, <1>4, <2>3, <3>1, <3>2
    <3>3. CASE c # "wake" BY <1>2, <1>4, <2>3, <3>1, <3>3 DEF Cols
    <3> QED BY <3>2, <3>3
  <2>5. \A r \in Runs : Follows(run'[r], t.view[r])
    BY <1>1, <1>2, <1>4, <2>1, <2>2, <2>3 DEF Fine, Told, Follows
  <2>6. /\ {r \in Runs : run'[r].state = "none" /\ t.view[r].state # "none"} = AdmittedBy(s)
        /\ \A k : {r \in Runs : run'[r].state \notin Terminal /\ t.view[r].state = k}
                     = EndedBy(s, k)
    BY <1>1, <1>2, <1>4, <2>2, <2>3 DEF AdmittedBy, EndedBy
  <2>7. (Counted(sess[p]))'
    BY <1>1, <2>1, <2>2, <2>6 DEF Fine, Told, Counted, AdmittedBy, EndedBy, t
  <2>8. \A r \in Runs : r \in t.runs \/ r = t.cur => t.view[r].state # "none"
    BY <1>2, <2>1, <2>2, <2>3 DEF Fine
  <2> QED BY <2>4, <2>5, <2>7, <2>8 DEF Fine, Told, AsCommitted, t
<1> QED BY <1>5, <1>6 DEF AloneInv, Fine

\* Who occupies the place of a contact, now and after a step.
LEMMA Occupant ==
    ASSUME SlotUnique, NEW c \in Contacts
    PROVE  /\ OccupantOf(c) \in Runs \cup {None}
           /\ \A r \in Runs : OccupantOf(c) = r <=> HoldsSlot(run[r], c)
<1>1. CASE \E r \in Runs : HoldsSlot(run[r], c)
  BY <1>1 DEF OccupantOf, SlotUnique
<1>2. CASE ~ \E r \in Runs : HoldsSlot(run[r], c)
  BY <1>2, RunsAssumption DEF OccupantOf
<1> QED BY <1>1, <1>2
LEMMA NextOccupant ==
    ASSUME SlotUnique', NEW c \in Contacts
    PROVE  /\ OccupantOf(c)' \in Runs \cup {None}
           /\ \A r \in Runs : OccupantOf(c)' = r <=> HoldsSlot(run'[r], c)
<1>1. CASE \E r \in Runs : HoldsSlot(run'[r], c)
  BY <1>1 DEF OccupantOf, SlotUnique
<1>2. CASE ~ \E r \in Runs : HoldsSlot(run'[r], c)
  BY <1>2, RunsAssumption DEF OccupantOf
<1> QED BY <1>1, <1>2

\* A step that changes no state, key or contact of a run means nothing to the promise.
LEMMA PromiseStays ==
    ASSUME SlotUnique, SlotUnique', count' = count,
           \A r \in Runs : /\ run'[r].state = run[r].state /\ run'[r].key = run[r].key
                           /\ run'[r].contact = run[r].contact
    PROVE  UNCHANGED <<[r \in Runs |-> LifeOf(run[r])],
                       [c \in Contacts |-> OccupantOf(c)], count>>
<1>1. \A r \in Runs : LifeOf(run'[r]) = LifeOf(run[r]) BY DEF LifeOf
<1>2. ASSUME NEW c \in Contacts PROVE OccupantOf(c)' = OccupantOf(c)
  <2>1. \A r \in Runs : HoldsSlot(run'[r], c) <=> HoldsSlot(run[r], c) BY DEF HoldsSlot
  <2> QED BY <2>1, Occupant, NextOccupant, RunsAssumption
<1> QED BY <1>1, <1>2

\* What COMMIT publishes is what the transaction saw and wrote.
LEMMA PublishesView ==
    ASSUME TypeOK, NEW p \in Procs, NEW t \in Session, Told(t), Publish(p, t)
    PROVE  /\ \A r \in Runs : /\ run'[r].state = t.view[r].state
                              /\ run'[r].key = t.view[r].key
                              /\ run'[r].contact = t.view[r].contact
           /\ count' \in [Counters -> Nat] /\ \A k \in Counters : count'[k] = t.count[k]
<1>1. t.count \in [Counters -> Nat] /\ count \in [Counters -> Nat] BY DEF Session, TypeOK
<1>2. \A k \in Counters : k \notin t.bumped => t.count[k] = count[k]
  BY DEF Told, Counted
<1>3. count' = [c \in Counters |-> IF c \in t.bumped THEN t.count[c] ELSE count[c]]
  BY DEF Publish
<1>4. ASSUME NEW r \in Runs
      PROVE  /\ run'[r].state = t.view[r].state /\ run'[r].key = t.view[r].key
             /\ run'[r].contact = t.view[r].contact
  <2>1. /\ "state" \notin t.dirty[r] => t.view[r]["state"] = run[r]["state"]
        /\ "key" \notin t.dirty[r] => t.view[r]["key"] = run[r]["key"]
        /\ "contact" \notin t.dirty[r] => t.view[r]["contact"] = run[r]["contact"]
    BY DEF Told, AsCommitted, Cols
  <2> QED BY <2>1 DEF Publish
<1>5. count' \in [Counters -> Nat] /\ \A k \in Counters : count'[k] = t.count[k]
  BY <1>1, <1>2, <1>3
<1> QED BY <1>4, <1>5

\* COMMIT is one step of the life cycle: the runs admitted, the runs ended.
LEMMA PublishKeepsPromise ==
    ASSUME TypeOK, SlotUnique, SlotUnique', EndedRunsLetGo,
           \A r \in Runs : run[r].state = "none" => run[r].key = "none",
           NEW p \in Procs, NEW t \in Session, Told(t), Publish(p, t)
    PROVE  Promise!Next
<1> DEFINE entering == AdmittedBy(t)
           ending == {r \in Runs : run[r].state \notin Terminal /\ t.view[r].state \in Terminal}
           outcome == [r \in ending |-> t.view[r].state]
           life == [r \in Runs |-> LifeOf(run[r])]
           occ == [c \in Contacts |-> OccupantOf(c)]
           living == {r \in Runs : life[r] = "live"}
<1>1. \A r \in Runs : /\ run'[r].state = t.view[r].state /\ run'[r].key = t.view[r].key
                      /\ run'[r].contact = t.view[r].contact
                      /\ Follows(run[r], t.view[r])
  BY PublishesView DEF Told
<1>2. \A r \in Runs : run[r].state \in Terminal => run[r].key = "archived"
  BY DEF EndedRunsLetGo
<1>3. entering \in SUBSET Runs /\ ending \in SUBSET Runs BY DEF AdmittedBy
<1>4. entering \subseteq {r \in Runs : life[r] = "none"} BY DEF AdmittedBy, LifeOf
<1>5. ending \subseteq living \cup entering BY DEF AdmittedBy, LifeOf, Terminal
<1>6. outcome \in [ending -> Terminal] OBVIOUS
<1>7. life' = [r \in Runs |-> IF r \in ending THEN outcome[r]
                              ELSE IF r \in entering THEN "live" ELSE life[r]]
  <2> SUFFICES ASSUME NEW r \in Runs
               PROVE  LifeOf(run'[r]) = IF r \in ending THEN outcome[r]
                              ELSE IF r \in entering THEN "live" ELSE LifeOf(run[r])
    OBVIOUS
  <2>1. LifeOf(run'[r]) = IF t.view[r].state \in Terminal \cup {"none"}
                          THEN t.view[r].state ELSE "live"
    BY <1>1 DEF LifeOf
  <2>2. CASE r \in ending BY <2>1, <2>2
  <2>3. CASE r \in entering \ ending BY <2>1, <2>3 DEF AdmittedBy, Terminal
  <2>4. CASE r \notin entering \cup ending
    BY <1>1, <2>1, <2>4 DEF AdmittedBy, LifeOf, Follows, Terminal
  <2> QED BY <2>2, <2>3, <2>4
<1>8. count' = [k \in DOMAIN count |-> count[k] +
                   IF k = "entered" THEN Cardinality(entering)
                   ELSE Cardinality({r \in ending : outcome[r] = k})]
  <2>1. DOMAIN count = Counters BY DEF TypeOK
  <2>2. count' \in [Counters -> Nat] /\ \A k \in Counters : count'[k] = t.count[k]
    BY PublishesView
  <2>3. \A k \in Terminal : {r \in ending : outcome[r] = k} = EndedBy(t, k)
    BY DEF EndedBy
  <2>4. /\ t.count["entered"] = count["entered"] + Cardinality(entering)
        /\ \A k \in Terminal : t.count[k] = count[k] + Cardinality(EndedBy(t, k))
    BY DEF Told, Counted
  <2>5. Counters = Terminal \cup {"entered"} /\ "entered" \notin Terminal
    BY DEF Counters, Terminal
  <2> HIDE DEF entering, ending, outcome
  <2>6. \A k \in Counters : count'[k] = count[k] +
                   IF k = "entered" THEN Cardinality(entering)
                   ELSE Cardinality({r \in ending : outcome[r] = k})
    BY <2>2, <2>3, <2>4, <2>5
  <2> QED BY <2>1, <2>2, <2>6
<1>9. ASSUME NEW c \in Contacts, NEW r \in Runs, OccupantOf(c)' = r
      PROVE  r \in (entering \ ending) \cup (living \ ending)
  <2>1. HoldsSlot(run'[r], c) BY <1>9, NextOccupant
  <2>2. t.view[r].key = "slot" BY <1>1, <2>1 DEF HoldsSlot
  <2>3. t.view[r].state \notin Terminal \cup {"none"} BY <1>1, <2>2 DEF Follows
  <2>4. run[r].state \notin Terminal BY <1>1, <2>3 DEF Follows
  <2>5. CASE run[r].state = "none" BY <2>3, <2>5 DEF AdmittedBy
  <2>6. CASE run[r].state # "none" BY <2>3, <2>4, <2>6 DEF LifeOf
  <2> QED BY <2>5, <2>6
<1>10. occ' \in [Contacts -> (entering \ ending) \cup (living \ ending) \cup {None}]
  <2> HIDE DEF entering, ending, living
  <2> QED BY <1>9, NextOccupant
<1>11. ASSUME NEW c \in Contacts
       PROVE  \/ occ'[c] = occ[c]
              \/ occ[c] \in ending \cup {None} /\ occ'[c] \in entering \cup {None}
  <2> DEFINE o == OccupantOf(c)
             n == OccupantOf(c)'
  <2>1. ASSUME o \in Runs PROVE n = o \/ o \in ending
    <3>1. HoldsSlot(run[o], c) BY <2>1, Occupant
    <3>2. run[o].state \notin Terminal \cup {"none"} BY <1>2, <2>1, <3>1 DEF HoldsSlot
    <3>3. /\ t.view[o].contact = run[o].contact
          /\ t.view[o].key = run[o].key \/ t.view[o].state \in Terminal
      BY <1>1, <2>1, <3>2 DEF Follows
    <3>4. CASE t.view[o].key = run[o].key
      BY <1>1, <2>1, <3>1, <3>3, <3>4, NextOccupant DEF HoldsSlot
    <3>5. CASE t.view[o].state \in Terminal BY <2>1, <3>2, <3>5
    <3> QED BY <3>3, <3>4, <3>5
  <2>2. ASSUME n \in Runs PROVE n = o \/ n \in entering
    <3>1. HoldsSlot(run'[n], c) BY <2>2, NextOccupant
    <3>2. t.view[n].key = "slot" /\ t.view[n].contact = c BY <1>1, <2>2, <3>1 DEF HoldsSlot
    <3>3. t.view[n].state \notin Terminal \cup {"none"} BY <1>1, <2>2, <3>2 DEF Follows
    <3>4. CASE run[n].state = "none" BY <2>2, <3>3, <3>4 DEF AdmittedBy
    <3>5. CASE run[n].state # "none"
      <4>1. run[n].contact = c /\ run[n].key = "slot"
        BY <1>1, <2>2, <3>2, <3>3, <3>5 DEF Follows
      <4> QED BY <2>2, <4>1, Occupant DEF HoldsSlot
    <3> QED BY <3>4, <3>5
  <2>3. o \in Runs \cup {None} /\ n \in Runs \cup {None} BY Occupant, NextOccupant
  <2>4. occ[c] = o /\ occ'[c] = n OBVIOUS
  <2> HIDE DEF o, n, entering, ending, occ
  <2> QED BY <2>1, <2>2, <2>3, <2>4
<1>12. ASSUME NEW c \in Contacts, NEW d \in Contacts, occ'[c] = occ'[d], occ'[c] # None
       PROVE  c = d
  <2>1. OccupantOf(c)' \in Runs /\ OccupantOf(c)' = OccupantOf(d)' BY <1>12, NextOccupant
  <2>2. HoldsSlot(run'[OccupantOf(c)'], c) /\ HoldsSlot(run'[OccupantOf(c)'], d)
    BY <2>1, NextOccupant
  <2> QED BY <2>2 DEF HoldsSlot
<1>13. \A S : Promise!Cardinality(S) = Cardinality(S)
  BY DEF Cardinality, Promise!Cardinality
<1>14. count' = [k \in DOMAIN count |-> count[k] +
                   IF k = "entered" THEN Promise!Cardinality(entering)
                   ELSE Promise!Cardinality({r \in ending : outcome[r] = k})]
  <2> HIDE DEF entering, ending, outcome
  <2> QED BY <1>8, <1>13
<1> HIDE DEF entering, ending, outcome
<1>15. Promise!Job(entering, ending)
  BY <1>4, <1>5, <1>6, <1>7, <1>14, <1>10, <1>11, <1>12
     DEF Promise!Job, Promise!Fresh, Promise!Living, Promise!Outcomes, Terminal
<1> QED BY <1>3, <1>15 DEF Promise!Next

\* After COMMIT no transaction is open, and no run was forgotten.
LEMMA PublishLeavesAlone ==
    ASSUME Alone, TypeOK, NEW p \in Procs, NEW t \in Session, Told(t), Publish(p, t)
    PROVE  AloneInv'
<1>1. \A q \in Procs : sess'[q] = None BY DEF Publish, Alone, TypeOK
<1>2. \A r \in Runs : run'[r].state = "none" => run'[r].key = "none"
  BY PublishesView DEF Told, Follows
<1> QED BY <1>1, <1>2 DEF AloneInv, Open

\* Whatever opens a transaction, the runs it selects exist.
LEMMA BeginSelects ==
    ASSUME NEW p \in Procs,
           \/ BeginTick(p) \/ \E c \in Contacts : BeginManual(p, c)
           \/ \E r \in Runs : BeginCancel(p, r)
           \/ \E e \in Events, c \in Contacts, pass \in BOOLEAN : BeginEvent(p, e, c, pass)
    PROVE  /\ UNCHANGED store
           /\ \E phase, runs, waits, admit :
                 /\ \A r \in runs : run[r].state # "none"
                 /\ sess' = [sess EXCEPT ![p] = NewSession(phase, runs, waits, admit)]
<1> DEFINE Selected(runs) ==
             /\ UNCHANGED store /\ \A r \in runs : run[r].state # "none"
             /\ \E phase, waits, admit :
                   sess' = [sess EXCEPT ![p] = NewSession(phase, runs, waits, admit)]
<1>1. ASSUME BeginTick(p) PROVE \E runs : Selected(runs)
  <2> DEFINE runs == {r \in Runs : run[r].state = "waiting" /\ run[r].wake = "due"}
  <2>1. Selected(runs) BY <1>1 DEF BeginTick, Begin
  <2> QED BY <2>1
<1>2. ASSUME NEW c \in Contacts, BeginManual(p, c) PROVE \E runs : Selected(runs)
  <2>1. Selected({}) BY <1>2 DEF BeginManual, Begin
  <2> QED BY <2>1
<1>3. ASSUME NEW r \in Runs, BeginCancel(p, r) PROVE \E runs : Selected(runs)
  <2>1. Selected({r}) BY <1>3 DEF BeginCancel, Begin
  <2> QED BY <2>1
<1>4. ASSUME NEW e \in Events, NEW c \in Contacts, NEW pass \in BOOLEAN,
             BeginEvent(p, e, c, pass)
      PROVE  \E runs : Selected(runs)
  <2> DEFINE runs == {r \in Runs : /\ e \in CancelEvents /\ run[r].contact = c
                                   /\ run[r].state \in Live \ {"cancelling"}}
  <2>1. Selected(runs) BY <1>4 DEF BeginEvent, Begin, Live
  <2> QED BY <2>1
<1>5. PICK runs : Selected(runs) BY <1>1, <1>2, <1>3, <1>4
<1> QED BY <1>5

\* A job or request that ends commits the tables it has told.
LEMMA Commitment ==
    ASSUME TypeOK, EndedRunsLetGo, NEW p \in Procs, Open(p), Fine(sess[p]),
           Commits(p) \/ CancelCommits(p)
    PROVE  \E t \in Session : Told(t) /\ Publish(p, t)
<1> DEFINE s == sess[p]
<1>1. s \in Session /\ Told(s) /\ \A r \in s.runs : r \in Runs /\ s.view[r].state # "none"
  BY DEF TypeOK, Open, Fine, Session
<1>2. CASE Commits(p)
  <2>1. Publish(p, s) BY <1>2 DEF Commits
  <2> QED BY <1>1, <2>1
<1>3. CASE CancelCommits(p)
  <2>1. PICK r \in s.runs : Publish(p, CancelRun(s, r)) BY <1>3 DEF CancelCommits
  <2> DEFINE t == CancelRun(s, r)
  <2>2. r \in Runs /\ s.view[r].state # "none" BY <1>1
  <2>3. t \in Session /\ (Stays(s, t) \/ Marks(s, t, r) \/ Ends(s, t, r, "cancelled"))
    BY <1>1, <2>2, CancelEffect
  <2>4. ASSUME Marks(s, t, r) PROVE Goes(s, t, r)
    <3>1. s.view[r] \in Row BY <1>1, <2>2 DEF Session
    <3> HIDE DEF s, t
    <3> QED BY <2>4, <3>1 DEF Marks, Goes, Terminal, Row
  <2>5. Publish(p, t) BY <2>1
  <2> HIDE DEF s, t
  <2>6. Lives(s, t, r) BY <2>2, <2>3, <2>4 DEF Lives
  <2>7. Told(t) BY <1>1, <2>2, <2>3, <2>6, ToldOn
  <2> QED BY <2>3, <2>5, <2>7
<1> QED BY <1>2, <1>3

LEMMA FineAsIs ==
    ASSUME run' = run, count' = count, NEW q, NEW t, sess'[q] = t, Fine(t)
    PROVE  Fine(sess[q])'
<1>1. /\ AdmittedBy(sess[q])' = AdmittedBy(t)
      /\ \A k : EndedBy(sess[q], k)' = EndedBy(t, k)
  BY DEF AdmittedBy, EndedBy
<1>2. Counted(sess[q])' BY <1>1 DEF Fine, Told, Counted
<1>3. AsCommitted(sess[q])' BY DEF Fine, Told, AsCommitted
<1> QED BY <1>2, <1>3 DEF Fine, Told

LEMMA AloneOn ==
    ASSUME Alone, TypeOK, AloneInv, NEW p \in Procs, UNCHANGED store,
           NEW t, t = None \/ Fine(t), sess' = [sess EXCEPT ![p] = t]
    PROVE  AloneInv'
<1>1. run' = run /\ count' = count BY DEF store
<1>2. \A r \in Runs : run'[r].state = "none" => run'[r].key = "none"
  BY <1>1 DEF AloneInv
<1>3. \A q \in Procs : sess'[q] = t BY DEF Alone, TypeOK
<1>4. ASSUME NEW q \in Procs, sess'[q] # None PROVE Fine(sess[q])'
  BY <1>1, <1>3, <1>4, FineAsIs
<1> QED BY <1>2, <1>4 DEF AloneInv, Fine, Open

LEMMA AloneInit == Init => AloneInv /\ Promise!Init
<1> SUFFICES ASSUME Init PROVE AloneInv /\ Promise!Init OBVIOUS
<1>1. AloneInv BY DEF Init, AloneInv, NoRow, Open
<1>2. \A r \in Runs : LifeOf(run[r]) = "none" BY DEF Init, NoRow, LifeOf
<1>3. \A c \in Contacts : OccupantOf(c) = None
  BY DEF Init, NoRow, OccupantOf, HoldsSlot
<1>4. Counters = Promise!Outcomes \cup {"entered"} BY DEF Counters, Promise!Outcomes
<1>5. count = [c \in Counters |-> 0] BY DEF Init
<1> QED BY <1>1, <1>2, <1>3, <1>4, <1>5 DEF Promise!Init

LEMMA AloneNext ==
    ASSUME Alone, TypeOK, SlotInv, SlotInv', EndInv, AloneInv, [Next]_vars
    PROVE  /\ AloneInv'
           /\ \/ Promise!Next
              \/ UNCHANGED <<[r \in Runs |-> LifeOf(run[r])],
                             [c \in Contacts |-> OccupantOf(c)], count>>
<1> DEFINE Goal ==
       /\ AloneInv'
       /\ \/ Promise!Next
          \/ UNCHANGED <<[r \in Runs |-> LifeOf(run[r])],
                         [c \in Contacts |-> OccupantOf(c)], count>>
<1> SUFFICES Goal OBVIOUS
<1>1. SlotUnique /\ SlotUnique' /\ EndedRunsLetGo BY DEF SlotInv, EndInv
<1>2. /\ \A r \in Runs : run[r].state = "none" => run[r].key = "none"
      /\ \A p \in Procs : Open(p) => Fine(sess[p])
  BY DEF AloneInv, Fine
<1>3. ASSUME UNCHANGED store, AloneInv' PROVE Goal
  BY <1>1, <1>3, PromiseStays DEF store
<1>4. ASSUME UNCHANGED store, sess' = sess PROVE Goal
  <2>1. run' = run /\ count' = count BY <1>4 DEF store
  <2>2. ASSUME NEW p \in Procs, Open(p)' PROVE Fine(sess[p])'
    <3>1. Fine(sess[p]) BY <1>2, <1>4, <2>2 DEF Open
    <3> QED BY <1>4, <2>1, <3>1, FineAsIs
  <2>3. AloneInv' BY <1>2, <2>1, <2>2 DEF AloneInv, Fine
  <2> QED BY <1>3, <1>4, <2>3
<1>5. ASSUME NEW p \in Procs, UNCHANGED store, NEW t, t = None \/ Fine(t),
             sess' = [sess EXCEPT ![p] = t]
      PROVE  Goal
  BY <1>3, <1>5, AloneOn
<1>6. ASSUME NEW p \in Procs, UNCHANGED store, NEW phase, NEW runs, NEW waits, NEW admit,
             \A r \in runs : run[r].state # "none",
             sess' = [sess EXCEPT ![p] = NewSession(phase, runs, waits, admit)]
      PROVE  Goal
  <2>1. Fine(NewSession(phase, runs, waits, admit)) BY <1>1, <1>2, <1>6, FreshIsFine
  <2> QED BY <1>5, <1>6, <2>1
<1>7. CASE UNCHANGED vars BY <1>4, <1>7 DEF vars, store
<1>8. CASE Clock
  <2>1. AloneInv' BY <1>8, FineClock
  <2>2. \A r \in Runs : /\ run'[r].state = run[r].state /\ run'[r].key = run[r].key
                        /\ run'[r].contact = run[r].contact
    BY <1>8 DEF Clock, Rung, TypeOK, Row
  <2>3. count' = count BY <1>8 DEF Clock
  <2> QED BY <1>1, <2>1, <2>2, <2>3, PromiseStays
<1>9. ASSUME NEW on \in BOOLEAN, SetActive(on) PROVE Goal
  BY <1>4, <1>9 DEF SetActive
<1>10. ASSUME NEW p \in Procs, Work(p) PROVE Goal
  <2>1. Open(p) /\ Fine(sess[p]) BY <1>2, <1>10 DEF Work
  <2>2. CASE Commits(p) \/ CancelCommits(p)
    <3>1. PICK t \in Session : Told(t) /\ Publish(p, t)
      BY <1>1, <2>1, <2>2, Commitment
    <3>2. AloneInv' BY <3>1, PublishLeavesAlone
    <3>3. Promise!Next BY <1>1, <1>2, <3>1, PublishKeepsPromise
    <3> QED BY <3>2, <3>3
  <2>3. CASE Advance(p) \/ TakeRun(p) \/ TakeWait(p) \/ TakeRule(p) \/ TakeContact(p)
               \/ TakeManual(p) \/ TurnTick(p) \/ TurnCron(p) \/ TurnEvent(p)
    <3>1. /\ UNCHANGED store
          /\ \/ sess' = [sess EXCEPT ![p] = None]
             \/ sess' = [sess EXCEPT ![p] = NewSession("end", {}, {}, {})]
             \/ \E t \in Session : sess' = [sess EXCEPT ![p] = t] /\ Fine(t)
      BY <2>1, <2>3, FineOn
    <3> HIDE DEF Goal
    <3> QED BY <1>5, <1>6, <3>1
  <2> HIDE DEF Goal
  <2> QED BY <1>10, <2>2, <2>3 DEF Work
<1>11. ASSUME NEW p \in Procs, Crash(p) PROVE Goal
  BY <1>5, <1>11 DEF Crash
<1>12. ASSUME NEW p \in Procs,
             \/ BeginTick(p) \/ \E c \in Contacts : BeginManual(p, c)
             \/ \E r \in Runs : BeginCancel(p, r)
             \/ \E e \in Events, c \in Contacts, pass \in BOOLEAN : BeginEvent(p, e, c, pass)
      PROVE Goal
  <2> HIDE DEF Goal
  <2> QED BY <1>6, <1>12, BeginSelects
<1> HIDE DEF Goal
<1>13. CASE Next
  <2>1. CASE Clock \/ \E on \in BOOLEAN : SetActive(on) BY <1>8, <1>9, <2>1
  <2>2. ASSUME NEW p \in Procs,
               \/ Work(p) \/ Crash(p) \/ BeginTick(p)
               \/ \E c \in Contacts : BeginManual(p, c)
               \/ \E r \in Runs : BeginCancel(p, r)
               \/ \E e \in Events, c \in Contacts, pass \in BOOLEAN : BeginEvent(p, e, c, pass)
        PROVE  Goal
    BY <1>10, <1>11, <1>12, <2>2
  <2> QED BY <1>13, <2>1, <2>2 DEF Next
<1> QED BY <1>7, <1>13

\* One process alone in the database: whatever its jobs and requests do, and whenever
\* they are lost, each COMMIT is one step of the life cycle of RunLifecycle.  A run
\* enters once, ends once and for good, is counted once, and keeps the place of its
\* contact while it lives.
THEOREM EngineKeepsPromise == Alone => (Spec => KeepsPromise)
<1> SUFFICES ASSUME Alone PROVE Spec => KeepsPromise OBVIOUS
<1> DEFINE Inv == TypeOK /\ SlotInv /\ EndInv /\ AloneInv
<1>1. Init => Inv /\ Promise!Init BY InitType, SlotInit, EndInit, AloneInit
<1>2. Inv /\ [Next]_vars =>
        /\ Inv'
        /\ [Promise!Next]_<<[r \in Runs |-> LifeOf(run[r])],
                            [c \in Contacts |-> OccupantOf(c)], count>>
  <2> SUFFICES ASSUME Inv, [Next]_vars
               PROVE  /\ Inv'
                      /\ \/ Promise!Next
                         \/ UNCHANGED <<[r \in Runs |-> LifeOf(run[r])],
                                        [c \in Contacts |-> OccupantOf(c)], count>>
    OBVIOUS
  <2>1. TypeOK' /\ SlotInv' /\ EndInv' BY NextType, SlotNext, EndNext
  <2> QED BY <2>1, AloneNext
<1> HIDE DEF Inv
<1> QED BY <1>1, <1>2, PTL DEF Spec, KeepsPromise, Promise!Spec
=============================================================================
