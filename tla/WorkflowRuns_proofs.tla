------------------------- MODULE WorkflowRuns_proofs -------------------------
(***************************************************************************)
(* Proofs about WorkflowRuns, for any workflow, any number of workers and  *)
(* API threads, and any sets of runs and contacts.                         *)
(***************************************************************************)
EXTENDS WorkflowRuns, TLAPS

\* Following an edge ends at a step of the workflow, or nowhere.
LEMMA NextStepType ==
    ASSUME NEW s \in Steps, NEW label PROVE NextStep(s, label) \in Steps \cup {None}
BY DEF NextStep, Targets

LEMMA WriteType ==
    ASSUME NEW s \in Session, NEW r \in Runs, NEW row \in Row
    PROVE  Write(s, r, row) \in Session
BY DEF Write, Session, Cols

LEMMA BumpType ==
    ASSUME NEW s \in Session, NEW c \in Counters PROVE Bump(s, c) \in Session
<1>1. s.count \in [Counters -> Nat] /\ s.bumped \subseteq Counters BY DEF Session
<1>2. [s.count EXCEPT ![c] = @ + 1] \in [Counters -> Nat] BY <1>1
<1>3. s.bumped \cup {c} \subseteq Counters BY <1>1
<1> QED BY <1>2, <1>3 DEF Bump, Session

LEMMA LogType ==
    ASSUME NEW s \in Session, NEW r \in Runs, s.view[r].step \in Steps,
           NEW status \in {"ok", "skipped", "deferred", "failed"}
    PROVE  Log(s, r, status) \in Session
BY DEF Log, Session, HistoryRows

LEMMA FinalizeType ==
    ASSUME NEW s \in Session, NEW r \in Runs, NEW state \in Terminal
    PROVE  Finalize(s, r, state) \in Session
<1> DEFINE row == [s.view[r] EXCEPT !.state = state, !.wake = "never",
                                    !.key = "archived"]
           t == Write(s, r, row)
           u == [t EXCEPT !.purged = @ \cup {r}, !.added = {w \in @ : w[1] # r}]
<1>0. s.view[r] \in Row BY DEF Session
<1>1. row \in Row BY <1>0 DEF Row
<1>2. t \in Session BY <1>1, WriteType
<1>3. t.purged \cup {r} \subseteq Runs /\ {w \in t.added : w[1] # r} \subseteq WaitIds
  BY <1>2 DEF Session
<1>4. u \in Session
  <2> HIDE DEF t
  <2> QED BY <1>2, <1>3 DEF Session
<1> QED BY <1>4, BumpType DEF Finalize, Counters, Terminal

LEMMA CancelRunType ==
    ASSUME NEW s \in Session, NEW r \in Runs PROVE CancelRun(s, r) \in Session
<1>1. s.view[r] \in Row BY DEF Session
<1>2. [s.view[r] EXCEPT !.state = "cancelling"] \in Row BY <1>1 DEF Row, Live
<1>3. Finalize(s, r, "cancelled") \in Session BY FinalizeType DEF Terminal
<1> QED BY <1>2, <1>3, WriteType DEF CancelRun

\* Calling advance_run on a run.
LEMMA CallType ==
    ASSUME NEW s \in Session, NEW r \in Runs
    PROVE  [s EXCEPT !.cur = r, !.fuel = MaxSteps] \in Session
<1>1. MaxSteps \in 0..MaxSteps BY RunsAssumption
<1> QED BY <1>1 DEF Session

LEMMA ResumeWaitType ==
    ASSUME NEW s \in Session, NEW w \in WaitIds, NEW branch
    PROVE  ResumeWait(s, w, branch) \in Session
<1> DEFINE r == w[1]
           t == [s EXCEPT !.gone = @ \cup {w}, !.added = @ \ {w}]
           row == [s.view[r] EXCEPT !.step = NextStep(w[2], branch),
                                    !.state = "running", !.wake = "due"]
<1>1. r \in Runs /\ w[2] \in Steps BY DEF WaitIds
<1>2. t \in Session
  <2>1. s.gone \cup {w} \subseteq WaitIds /\ s.added \ {w} \subseteq WaitIds
    BY DEF Session
  <2> QED BY <2>1 DEF Session
<1>3. s.view[r] \in Row BY <1>1 DEF Session
<1>4. row \in Row BY <1>1, <1>3, NextStepType DEF Row, Live
<1>5. Write(t, r, row) \in Session BY <1>1, <1>2, <1>4, WriteType
<1> HIDE DEF t, row
<1>6. [Write(t, r, row) EXCEPT !.cur = r, !.fuel = MaxSteps] \in Session
  BY <1>1, <1>5, CallType
<1> QED BY <1>2, <1>6 DEF ResumeWait, t, row

LEMMA InsertType ==
    ASSUME NEW s \in Session, NEW r \in Runs, NEW c \in Contacts,
           NEW step \in Steps \cup {None}, NEW key \in {"slot", "own"}
    PROVE  Insert(s, r, c, step, key) \in Session
<1> DEFINE row == [contact |-> c, state |-> "running", step |-> step,
                   wake |-> "due", key |-> key]
           t == Bump(s, "entered")
<1>1. row \in Row BY DEF Row, Live
<1>2. t \in Session BY BumpType DEF Counters
<1> HIDE DEF row, t
<1>3. [t EXCEPT !.view[r] = row, !.dirty[r] = Cols] \in Session
  BY <1>1, <1>2 DEF Session
<1>4. [[t EXCEPT !.view[r] = row, !.dirty[r] = Cols]
          EXCEPT !.cur = r, !.fuel = MaxSteps] \in Session
  BY <1>3, CallType
<1>5. Insert(s, r, c, step, key) =
      [[t EXCEPT !.view[r] = row, !.dirty[r] = Cols]
          EXCEPT !.cur = r, !.fuel = MaxSteps]
  BY <1>2 DEF Insert, t, row, Session
<1> QED BY <1>4, <1>5

LEMMA ReturnType == ASSUME NEW s \in Session PROVE Return(s) \in Session
BY DEF Return, Session

LEMMA FurtherType ==
    ASSUME NEW s \in Session, s.fuel > 0 PROVE Further(s) \in Session
<1>1. s.fuel \in 0..MaxSteps BY DEF Session
<1>2. s.fuel - 1 \in 0..MaxSteps BY <1>1, RunsAssumption
<1> QED BY <1>2 DEF Further, Session

LEMMA FollowType ==
    ASSUME NEW s \in Session, NEW r \in Runs, s.view[r].step \in Steps,
           s.fuel > 0, NEW label
    PROVE  Follow(s, r, label) \in Session
<1> DEFINE next == NextStep(s.view[r].step, label)
           t == Write(s, r, [s.view[r] EXCEPT !.step = next])
<1>1. s.view[r] \in Row BY DEF Session
<1>2. next \in Steps \cup {None} BY NextStepType
<1>3. [s.view[r] EXCEPT !.step = next] \in Row BY <1>1, <1>2 DEF Row
<1>4. t \in Session BY <1>3, WriteType
<1>5. t.fuel > 0 BY DEF Write, Session
<1> HIDE DEF t
<1>6. Further(t) \in Session BY <1>4, <1>5, FurtherType
<1>7. Return(Finalize(t, r, "completed")) \in Session
  BY <1>4, FinalizeType, ReturnType DEF Terminal
<1> QED BY <1>6, <1>7 DEF Follow, t

\* Whatever a handler answers, the transaction stays well formed.
LEMMA AppliedType ==
    ASSUME NEW p \in Procs, NEW s \in Session, NEW r \in Runs,
           s.view[r].step \in Steps, s.fuel > 0,
           NEW a \in AnswersOf(s.view[r].step) \ {"failed"},
           NEW t \in Applied(p, s, r, a)
    PROVE  t \in Session
<1> DEFINE v == s.view[r]
           ok == Log(s, r, "ok")
           heard == NextStep(v.step, "matched")
           listening == [v EXCEPT !.state = "waiting_for_event", !.wake = "later",
                           !.step = IF heard # None THEN heard ELSE v.step]
           sleeping(wake) == [v EXCEPT !.state = "waiting", !.wake = wake,
                                       !.step = NextStep(v.step, "default")]
<1>1. v \in Row BY DEF Session
<1>2. \A status \in {"ok", "skipped", "deferred", "failed"} :
         /\ Log(s, r, status) \in Session
         /\ Log(s, r, status).view = s.view
         /\ Log(s, r, status).fuel = s.fuel
  BY LogType DEF Log, Session
<1>3. a \in AllAnswers \ {"failed"}
  <2>1. StepType[v.step] \in DOMAIN Answers BY GraphAssumption
  <2> QED BY <2>1 DEF AnswersOf, Answers, AllAnswers, Labels, EmailAnswers, TouchAnswers,
                     TestAnswers, CaseAnswers, NapAnswers, DateAnswers, ListenAnswers
<1>4. CASE a = "raise"
  <2>1. Finalize(Log(s, r, "failed"), r, "failed") \in Session
    BY <1>2, FinalizeType DEF Terminal
  <2>2. t = Return(Finalize(Log(s, r, "failed"), r, "failed")) BY <1>4 DEF Applied, Labels
  <2> QED BY <2>1, <2>2, ReturnType
<1>5. CASE a = "deferred"
  <2> DEFINE row == [v EXCEPT !.state = "waiting", !.wake = "later"]
  <2>1. row \in Row BY <1>1 DEF Row, Live
  <2>2. Write(Log(s, r, "deferred"), r, row) \in Session BY <1>2, <2>1, WriteType
  <2>3. t = Return(Write(Log(s, r, "deferred"), r, row)) BY <1>5 DEF Applied, Labels
  <2> QED BY <2>2, <2>3, ReturnType
<1>6. CASE a = "exit"
  <2>1. Finalize(ok, r, "completed") \in Session BY <1>2, FinalizeType DEF Terminal
  <2>2. t = Return(Finalize(ok, r, "completed")) BY <1>6 DEF Applied, Labels
  <2> QED BY <2>1, <2>2, ReturnType
<1>7. CASE a = "sleep"
  <2>1. PICK wake \in {"due", "later"} : t = Return(Write(ok, r, sleeping(wake)))
    BY <1>7 DEF Applied, Labels
  <2>2. sleeping(wake) \in Row BY <1>1, NextStepType DEF Row, Live
  <2>3. Write(ok, r, sleeping(wake)) \in Session BY <1>2, <2>2, WriteType
  <2> QED BY <2>1, <2>3, ReturnType
<1>8. CASE a = "listen"
  <2> DEFINE u == Write(ok, r, listening)
             w == <<r, v.step, p>>
  <2>1. listening \in Row
    <3>1. (IF heard # None THEN heard ELSE v.step) \in Steps \cup {None}
      BY NextStepType
    <3> QED BY <1>1, <3>1 DEF Row, Live
  <2>2. u \in Session BY <1>2, <2>1, WriteType
  <2>3. t = Return([u EXCEPT !.added = @ \cup {w}]) BY <1>8 DEF Applied, Labels
  <2>4. w \in WaitIds BY DEF WaitIds
  <2> HIDE DEF u, w
  <2>5. u.added \cup {w} \subseteq WaitIds BY <2>2, <2>4 DEF Session
  <2>6. [u EXCEPT !.added = @ \cup {w}] \in Session BY <2>2, <2>5 DEF Session
  <2> QED BY <2>3, <2>6, ReturnType
<1>9. CASE a = "skipped"
  <2>1. t = Follow(Log(s, r, "skipped"), r, "default") BY <1>9 DEF Applied, Labels
  <2> QED BY <1>2, <2>1, FollowType
<1>10. CASE a \in Labels
  <2>1. t = Follow(ok, r, a) BY <1>10 DEF Applied, Labels
  <2> QED BY <1>2, <2>1, FollowType
<1> QED BY <1>3, <1>4, <1>5, <1>6, <1>7, <1>8, <1>9, <1>10 DEF AllAnswers

LEMMA NewSessionType ==
    ASSUME TypeOK, NEW phase \in Phases, NEW runs \in SUBSET Runs,
           NEW waits \in SUBSET WaitIds, NEW admit \in SUBSET Contacts
    PROVE  NewSession(phase, runs, waits, admit) \in Session
<1>1. 0 \in 0..MaxSteps BY RunsAssumption
<1> QED BY <1>1 DEF NewSession, Session, TypeOK

\* COMMIT leaves well-formed tables.
LEMMA PublishType ==
    ASSUME TypeOK, NEW p \in Procs, NEW s \in Session, Publish(p, s)
    PROVE  /\ run' \in [Runs -> Row]
           /\ wait' \subseteq WaitIds /\ hist' \subseteq HistoryRows
           /\ count' \in [Counters -> Nat]
           /\ sess' \in [Procs -> Session \cup {None}]
<1> USE DEF Publish, TypeOK
<1>1. run' \in [Runs -> Row]
  <2>1. \A r \in Runs : s.view[r] \in Row /\ run[r] \in Row BY DEF Session
  <2>2. \A r \in Runs : run'[r] \in Row
    <3> SUFFICES ASSUME NEW r \in Runs PROVE run'[r] \in Row OBVIOUS
    <3> QED BY <2>1 DEF Row
  <2> QED BY <2>2
<1>2. wait' \subseteq WaitIds BY DEF Session
<1>3. hist' \subseteq HistoryRows BY DEF Session
<1>4. count' \in [Counters -> Nat] BY DEF Session
<1>5. sess' \in [Procs -> Session \cup {None}] OBVIOUS
<1> QED BY <1>1, <1>2, <1>3, <1>4, <1>5

-----------------------------------------------------------------------------
(* Type correctness                                                        *)

LEMMA InitType == Init => TypeOK
<1> SUFFICES ASSUME Init PROVE TypeOK OBVIOUS
<1>1. NoRow \in Row BY DEF NoRow, Row
<1> QED BY <1>1 DEF Init, TypeOK

\* What an action needs to keep the types: a session of p that is one.
LEMMA SessionStepType ==
    ASSUME TypeOK, NEW p \in Procs, NEW s \in Session \cup {None},
           sess' = [sess EXCEPT ![p] = s], UNCHANGED <<store, active>>,
           sent' \in [Runs \X Steps -> Nat], expired' \subseteq WaitIds,
           slot' \in BOOLEAN, arrivals' \in Nat, faults' \in Nat
    PROVE  TypeOK'
BY DEF TypeOK, store

LEMMA AdvanceType ==
    ASSUME TypeOK, NEW p \in Procs, Open(p), Advance(p) PROVE TypeOK'
<1> DEFINE s == sess[p]
           r == s.cur
           step == s.view[r].step
<1>1. s \in Session BY DEF TypeOK, Open
<1>2. s.cur # None => r \in Runs /\ s.view[r] \in Row BY <1>1 DEF Session
<1>3. s.cur # None /\ step # None => step \in Steps BY <1>2 DEF Row
<1>4. /\ sent \in [Runs \X Steps -> Nat] /\ expired \subseteq WaitIds
      /\ slot \in BOOLEAN /\ arrivals \in Nat /\ faults \in Nat
  BY DEF TypeOK
<1>5. CASE AdvanceReturns(p)
  BY <1>1, <1>4, <1>5, ReturnType, SessionStepType DEF AdvanceReturns
<1>6. CASE AdvanceCloses(p)
  <2>1. \A state \in Terminal : Return(Finalize(s, r, state)) \in Session
    BY <1>1, <1>2, <1>6, FinalizeType, ReturnType DEF AdvanceCloses, Turning
  <2> QED BY <2>1, <1>4, <1>6, SessionStepType DEF AdvanceCloses, Terminal
<1>7. CASE AdvancePassesTrigger(p)
  <2>1. r \in Runs /\ step \in Steps /\ s.fuel > 0
    BY <1>2, <1>3, <1>7 DEF AdvancePassesTrigger, Turning
  <2>2. Log(s, r, "ok") \in Session BY <1>1, <2>1, LogType
  <2>3. Log(s, r, "ok").view = s.view /\ Log(s, r, "ok").fuel = s.fuel
    BY <1>1 DEF Log, Session
  <2>4. Follow(Log(s, r, "ok"), r, "default") \in Session
    BY <2>1, <2>2, <2>3, FollowType
  <2> QED BY <2>4, <1>4, <1>7, SessionStepType DEF AdvancePassesTrigger
<1>8. CASE AdvanceHandles(p)
  <2>1. r \in Runs /\ step \in Steps /\ s.fuel > 0
    BY <1>2, <1>3, <1>8 DEF AdvanceHandles, Turning
  <2>2. PICK a \in AnswersOf(step) \ {"failed"} :
            \E t \in Applied(p, s, r, a) : sess' = [sess EXCEPT ![p] = t]
    BY <1>8 DEF AdvanceHandles
  <2>3. PICK t \in Session : sess' = [sess EXCEPT ![p] = t]
    BY <1>1, <2>1, <2>2, AppliedType
  <2>4. sent' \in [Runs \X Steps -> Nat]
    BY <1>4, <1>8, <2>1 DEF AdvanceHandles
  <2>5. expired' \subseteq WaitIds BY <1>4, <1>8 DEF AdvanceHandles
  <2> QED BY <2>3, <2>4, <2>5, <1>4, <1>8, SessionStepType DEF AdvanceHandles
<1>9. CASE AdvanceFails(p)
  <2>1. r \in Runs /\ step \in Steps
    BY <1>2, <1>3, <1>9 DEF AdvanceFails, Turning
  <2>2. Return(Log(s, r, "failed")) \in Session BY <1>1, <2>1, LogType, ReturnType
  <2>3. NewSession("end", {}, {}, {}) \in Session BY NewSessionType DEF Phases
  <2> QED BY <2>2, <2>3, <1>4, <1>9, SessionStepType DEF AdvanceFails
<1> QED BY <1>5, <1>6, <1>7, <1>8, <1>9 DEF Advance

LEMMA WorkType ==
    ASSUME TypeOK, NEW p \in Procs, Work(p) PROVE TypeOK'
<1> DEFINE s == sess[p]
<1>1. s \in Session BY DEF TypeOK, Open, Work
<1>2. /\ sent \in [Runs \X Steps -> Nat] /\ expired \subseteq WaitIds
      /\ slot \in BOOLEAN /\ arrivals \in Nat /\ faults \in Nat
  BY DEF TypeOK
<1>3. CASE Advance(p) BY <1>3, AdvanceType DEF Work
<1>4. CASE TakeRun(p)
  <2>1. PICK r \in s.runs :
            sess' = [sess EXCEPT ![p].runs = @ \ {r}, ![p].cur = r, ![p].fuel = MaxSteps]
    BY <1>4 DEF TakeRun
  <2>2. r \in Runs /\ s.runs \ {r} \subseteq Runs BY <1>1, <2>1 DEF Session
  <2>3. [s EXCEPT !.runs = @ \ {r}] \in Session BY <1>1, <2>2 DEF Session
  <2>4. [[s EXCEPT !.runs = @ \ {r}] EXCEPT !.cur = r, !.fuel = MaxSteps] \in Session
    BY <2>2, <2>3, CallType
  <2>5. sess' = [sess EXCEPT ![p] =
                    [[s EXCEPT !.runs = @ \ {r}] EXCEPT !.cur = r, !.fuel = MaxSteps]]
    BY <1>1, <2>1 DEF TypeOK, Session
  <2> QED BY <2>4, <2>5, <1>2, <1>4, SessionStepType DEF TakeRun
<1>5. CASE TakeWait(p)
  <2> DEFINE branch == IF s.phase = "timeouts" THEN "timeout" ELSE "matched"
             t(w) == [s EXCEPT !.waits = @ \ {w}]
  <2>1. PICK w \in s.waits :
           \/ sess' = [sess EXCEPT ![p] = t(w)]
           \/ sess' = [sess EXCEPT ![p] = ResumeWait(t(w), w, branch)]
    BY <1>5 DEF TakeWait
  <2>2. w \in WaitIds BY <1>1, <2>1 DEF Session
  <2>3. t(w) \in Session
    <3>1. s.waits \ {w} \subseteq WaitIds BY <1>1 DEF Session
    <3> QED BY <1>1, <3>1 DEF Session
  <2>4. ResumeWait(t(w), w, branch) \in Session BY <2>2, <2>3, ResumeWaitType
  <2> QED BY <2>1, <2>3, <2>4, <1>2, <1>5, SessionStepType DEF TakeWait
<1>6. CASE TakeRule(p)
  <2>1. PICK r \in s.runs :
            sess' = [sess EXCEPT ![p] = CancelRun([s EXCEPT !.runs = @ \ {r}], r)]
    BY <1>6 DEF TakeRule
  <2>2. r \in Runs /\ s.runs \ {r} \subseteq Runs BY <1>1, <2>1 DEF Session
  <2>3. [s EXCEPT !.runs = @ \ {r}] \in Session BY <1>1, <2>2 DEF Session
  <2> QED BY <2>1, <2>2, <2>3, <1>2, <1>6, CancelRunType, SessionStepType DEF TakeRule
<1>7. CASE TakeContact(p)
  <2> DEFINE t(c) == [s EXCEPT !.admit = @ \ {c}]
             key == IF Reentry THEN "own" ELSE "slot"
  <2>1. PICK c \in s.admit :
           \/ sess' = [sess EXCEPT ![p] = t(c)]
           \/ \E r \in Runs : sess' = [sess EXCEPT ![p] = Insert(t(c), r, c, Root, key)]
    BY <1>7 DEF TakeContact
  <2>2. c \in Contacts BY <1>1, <2>1 DEF Session
  <2>3. t(c) \in Session
    <3>1. s.admit \ {c} \subseteq Contacts BY <1>1 DEF Session
    <3> QED BY <1>1, <3>1 DEF Session
  <2>4. \A r \in Runs : Insert(t(c), r, c, Root, key) \in Session
    BY <2>2, <2>3, InsertType, GraphAssumption
  <2> QED BY <2>1, <2>3, <2>4, <1>2, <1>7, SessionStepType DEF TakeContact
<1>8. CASE TakeManual(p)
  <2> DEFINE t == [s EXCEPT !.admit = {}]
             u(c, r) == Insert(t, r, c, NextStep(Root, "default"), "own")
  <2>1. PICK c \in s.admit, r \in Runs :
           sess' = [sess EXCEPT ![p] =
                       [u(c, r) EXCEPT !.logged = @ \cup {<<r, Root, "ok">>}]]
    BY <1>8 DEF TakeManual
  <2>2. c \in Contacts /\ Root \in Steps BY <1>1, <2>1, GraphAssumption DEF Session
  <2>3. t \in Session BY <1>1 DEF Session
  <2>4. u(c, r) \in Session BY <2>1, <2>2, <2>3, InsertType, NextStepType
  <2>5. [u(c, r) EXCEPT !.logged = @ \cup {<<r, Root, "ok">>}] \in Session
    <3> HIDE DEF u
    <3>1. u(c, r).logged \cup {<<r, Root, "ok">>} \subseteq HistoryRows
      BY <2>1, <2>2, <2>4 DEF Session, HistoryRows
    <3> QED BY <2>4, <3>1 DEF Session
  <2> QED BY <2>1, <2>5, <1>2, <1>8, SessionStepType DEF TakeManual
<1>9. CASE TurnTick(p)
  <2> DEFINE t == [s EXCEPT !.phase = "timeouts"]
             u == [s EXCEPT !.phase = "cancelling",
                            !.runs = {r \in Runs : s.view[r].state = "cancelling"}]
  <2>1. t \in Session /\ u \in Session BY <1>1 DEF Session, Phases
  <2>2. sess' = [sess EXCEPT ![p] = t] \/ sess' = [sess EXCEPT ![p] = u]
    BY <1>1, <1>9 DEF TurnTick, TypeOK, Session
  <2> QED BY <2>1, <2>2, <1>2, <1>9, SessionStepType DEF TurnTick
<1>10. CASE TurnCron(p)
  <2> DEFINE t(admit) == [s EXCEPT !.phase = "cron", !.admit = admit]
  <2>1. PICK admit \in {s.admit, {}} : sess' = [sess EXCEPT ![p] = t(admit)]
    BY <1>1, <1>10 DEF TurnCron, TypeOK, Session
  <2>2. t(admit) \in Session BY <1>1, <2>1 DEF Session, Phases
  <2>3. slot' \in BOOLEAN /\ arrivals' \in Nat BY <1>2, <1>10 DEF TurnCron
  <2> QED BY <2>1, <2>2, <2>3, <1>2, <1>10, SessionStepType DEF TurnCron
<1>11. CASE TurnEvent(p)
  <2> DEFINE t == [s EXCEPT !.phase = "resume",
                     !.waits = {w \in @ : w \notin expired /\ w[1] \notin s.purged}]
             u == [s EXCEPT !.phase = "start"]
  <2>1. {w \in s.waits : w \notin expired /\ w[1] \notin s.purged} \subseteq WaitIds
    BY <1>1 DEF Session
  <2>2. t \in Session /\ u \in Session BY <1>1, <2>1 DEF Session, Phases
  <2>3. sess' = [sess EXCEPT ![p] = t] \/ sess' = [sess EXCEPT ![p] = u]
    BY <1>1, <1>11 DEF TurnEvent, TypeOK, Session
  <2> QED BY <2>2, <2>3, <1>2, <1>11, SessionStepType DEF TurnEvent
<1>12. CASE CancelCommits(p)
  <2>1. PICK r \in s.runs : Publish(p, CancelRun(s, r)) BY <1>12 DEF CancelCommits
  <2>2. CancelRun(s, r) \in Session BY <1>1, <2>1, CancelRunType DEF Session
  <2> QED BY <2>1, <2>2, <1>12, PublishType DEF CancelCommits, TypeOK
<1>13. CASE Commits(p)
  <2>1. Publish(p, s) BY <1>13 DEF Commits
  <2> QED BY <2>1, <1>1, <1>13, PublishType DEF Commits, TypeOK
<1> QED BY <1>3, <1>4, <1>5, <1>6, <1>7, <1>8, <1>9, <1>10, <1>11, <1>12, <1>13 DEF Work

LEMMA BeginType ==
    ASSUME TypeOK, NEW p \in Procs,
           \/ BeginTick(p) \/ \E c \in Contacts : BeginManual(p, c)
           \/ \E r \in Runs : BeginCancel(p, r)
           \/ \E e \in Events, c \in Contacts, pass \in BOOLEAN : BeginEvent(p, e, c, pass)
    PROVE  TypeOK'
<1> DEFINE Opened == \E phase \in Phases, runs \in SUBSET Runs, waits \in SUBSET WaitIds,
                        admit \in SUBSET Contacts :
                  sess' = [sess EXCEPT ![p] = NewSession(phase, runs, waits, admit)]
<1>1. wait \subseteq WaitIds BY DEF TypeOK
<1>2. Opened
  <2>1. CASE BeginTick(p)
    <3> DEFINE runs == {r \in Runs : run[r].state = "waiting" /\ run[r].wake = "due"}
               admit == IF CronTrigger /\ active THEN Contacts ELSE {}
    <3>1. sess' = [sess EXCEPT ![p] = NewSession("due", runs, wait \cap expired, admit)]
      BY <2>1 DEF BeginTick, Begin
    <3>2. runs \in SUBSET Runs /\ admit \in SUBSET Contacts
          /\ wait \cap expired \in SUBSET WaitIds /\ "due" \in Phases
      BY <1>1 DEF Phases
    <3> HIDE DEF runs, admit
    <3> QED BY <3>1, <3>2
  <2>2. ASSUME NEW c \in Contacts, BeginManual(p, c) PROVE Opened
    <3>1. sess' = [sess EXCEPT ![p] = NewSession("manual", {}, {}, {c})]
      BY <2>2 DEF BeginManual, Begin
    <3>2. {c} \in SUBSET Contacts /\ "manual" \in Phases BY DEF Phases
    <3> QED BY <3>1, <3>2
  <2>3. ASSUME NEW r \in Runs, BeginCancel(p, r) PROVE Opened
    <3>1. sess' = [sess EXCEPT ![p] = NewSession("cancel", {r}, {}, {})]
      BY <2>3 DEF BeginCancel, Begin
    <3>2. {r} \in SUBSET Runs /\ "cancel" \in Phases BY DEF Phases
    <3> QED BY <3>1, <3>2
  <2>4. ASSUME NEW e \in Events, NEW c \in Contacts, NEW pass \in BOOLEAN,
               BeginEvent(p, e, c, pass) PROVE Opened
    <3> DEFINE runs == {r \in Runs : /\ e \in CancelEvents /\ run[r].contact = c
                                     /\ run[r].state \in Live \ {"cancelling"}}
               waits == {w \in wait : Awaits[w[2]] = e /\ run[w[1]].contact = c}
               admit == IF pass /\ active /\ ~CronTrigger /\ e \in TriggerEvents
                        THEN {c} ELSE {}
    <3>1. sess' = [sess EXCEPT ![p] = NewSession("rules", runs, waits, admit)]
      BY <2>4 DEF BeginEvent, Begin
    <3>2. runs \in SUBSET Runs /\ waits \in SUBSET WaitIds
          /\ admit \in SUBSET Contacts /\ "rules" \in Phases
      BY <1>1 DEF Phases
    <3> HIDE DEF runs, waits, admit
    <3> QED BY <3>1, <3>2
  <2> QED BY <2>1, <2>2, <2>3, <2>4
<1>3. PICK s \in Session : sess' = [sess EXCEPT ![p] = s] BY <1>2, NewSessionType
<1>4. /\ UNCHANGED <<store, active, sent, expired, slot, faults>>
      /\ arrivals' \in Nat
  <2>1. arrivals \in Nat BY DEF TypeOK
  <2>2. CASE BeginTick(p) BY <2>1, <2>2 DEF BeginTick
  <2>3. ASSUME NEW c \in Contacts, BeginManual(p, c)
        PROVE  UNCHANGED <<store, active, sent, expired, slot, faults>> /\ arrivals' \in Nat
    BY <2>1, <2>3 DEF BeginManual
  <2>4. ASSUME NEW r \in Runs, BeginCancel(p, r)
        PROVE  UNCHANGED <<store, active, sent, expired, slot, faults>> /\ arrivals' \in Nat
    BY <2>1, <2>4 DEF BeginCancel
  <2>5. ASSUME NEW e \in Events, NEW c \in Contacts, NEW pass \in BOOLEAN,
               BeginEvent(p, e, c, pass)
        PROVE  UNCHANGED <<store, active, sent, expired, slot, faults>> /\ arrivals' \in Nat
    BY <2>1, <2>5 DEF BeginEvent
  <2> QED BY <2>2, <2>3, <2>4, <2>5
<1> QED BY <1>3, <1>4, SessionStepType DEF TypeOK

LEMMA ClockType == TypeOK /\ Clock => TypeOK'
<1> SUFFICES ASSUME TypeOK, Clock PROVE TypeOK' OBVIOUS
<1>1. \A row \in Row : Rung(row) \in Row BY DEF Rung, Row
<1>2. run' \in [Runs -> Row] BY <1>1 DEF Clock, TypeOK
<1>3. \A p \in Procs : Open(p) => sess[p] \in Session BY DEF TypeOK, Open
<1>4. sess' \in [Procs -> Session \cup {None}]
  <2>1. ASSUME NEW s \in Session
        PROVE  [s EXCEPT !.view = [r \in Runs |-> Rung(@[r])]] \in Session
    <3>1. [r \in Runs |-> Rung(s.view[r])] \in [Runs -> Row] BY <1>1 DEF Session
    <3> HIDE DEF Rung
    <3> QED BY <3>1 DEF Session
  <2> QED BY <1>3, <2>1 DEF Clock
<1>5. expired' \subseteq WaitIds
  <2>1. \A p \in {q \in Procs : Open(q)} : sess[p].added \subseteq WaitIds
    BY <1>3 DEF Session
  <2> QED BY <2>1 DEF Clock, TypeOK
<1> QED BY <1>2, <1>4, <1>5 DEF Clock, TypeOK

\* Every step of every process keeps the types.
LEMMA NextType == TypeOK /\ [Next]_vars => TypeOK'
<1> SUFFICES ASSUME TypeOK, [Next]_vars PROVE TypeOK' OBVIOUS
<1>1. CASE UNCHANGED vars BY <1>1 DEF vars, TypeOK
<1>2. CASE Clock BY <1>2, ClockType
<1>3. ASSUME NEW on \in BOOLEAN, SetActive(on) PROVE TypeOK'
  BY <1>3 DEF SetActive, store, TypeOK
<1>4. ASSUME NEW p \in Procs, Work(p) PROVE TypeOK' BY <1>4, WorkType
<1>5. ASSUME NEW p \in Procs, Crash(p) PROVE TypeOK'
  BY <1>5 DEF Crash, store, TypeOK
<1>6. ASSUME NEW p \in Procs,
             \/ BeginTick(p) \/ \E c \in Contacts : BeginManual(p, c)
             \/ \E r \in Runs : BeginCancel(p, r)
             \/ \E e \in Events, c \in Contacts, pass \in BOOLEAN : BeginEvent(p, e, c, pass)
      PROVE TypeOK'
  BY <1>6, BeginType
<1> QED BY <1>1, <1>2, <1>3, <1>4, <1>5, <1>6 DEF Next

\* The tables and the open transactions keep their shape in every behaviour of
\* the engine, whatever the workflow, the workers and the requests are.
THEOREM TypeCorrect == Spec => []TypeOK
BY InitType, NextType, PTL DEF Spec

-----------------------------------------------------------------------------
(***************************************************************************)
(* The reentry guard, proved: two runs of a contact never hold its slot    *)
(* together.  SlotUnique alone is not inductive, because a COMMIT publishes *)
(* what an open transaction flushed long before; SlotInv says what an open *)
(* transaction may have flushed.  Only start_run ever puts a run into a    *)
(* slot; all the rest of the engine is Tame: it leaves contacts alone and  *)
(* changes a key only to archive it.                                       *)
(***************************************************************************)

\* A transaction s turned into t without moving a run into a slot.
Tame(s, t) ==
    \A r \in Runs :
        /\ t.view[r].contact = s.view[r].contact
        /\ "contact" \in t.dirty[r] <=> "contact" \in s.dirty[r]
        /\ "key" \in s.dirty[r] => "key" \in t.dirty[r]
        /\ \/ t.view[r].key = "archived" /\ "key" \in t.dirty[r]
           \/ /\ t.view[r].key = s.view[r].key
              /\ "key" \in t.dirty[r] <=> "key" \in s.dirty[r]

LEMMA TameStays ==
    ASSUME NEW s, NEW t, t.view = s.view, t.dirty = s.dirty PROVE Tame(s, t)
BY DEF Tame

LEMMA TameTransitive ==
    ASSUME NEW s, NEW t, NEW u, Tame(s, t), Tame(t, u) PROVE Tame(s, u)
BY DEF Tame

\* A write that leaves the contact and keeps or archives the key.
LEMMA TameWrite ==
    ASSUME NEW s \in Session, NEW r \in Runs, NEW row \in Row,
           row.contact = s.view[r].contact, row.key \in {s.view[r].key, "archived"}
    PROVE  Tame(s, Write(s, r, row))
<1> DEFINE t == Write(s, r, row)
           d == {c \in Cols : row[c] # s.view[r][c]}
<1>1. s.view \in [Runs -> Row] /\ s.dirty \in [Runs -> SUBSET Cols] BY DEF Session
<1>2. /\ t.view = [s.view EXCEPT ![r] = row]
      /\ t.dirty = [s.dirty EXCEPT ![r] = @ \cup d]
  BY DEF Write, Session
<1>3. "contact" \notin d BY DEF Cols
<1>4. "key" \in d <=> row.key # s.view[r].key BY DEF Cols
<1>5. ASSUME NEW q \in Runs, q # r
      PROVE  t.view[q] = s.view[q] /\ t.dirty[q] = s.dirty[q]
  BY <1>1, <1>2, <1>5
<1>6. t.view[r] = row /\ t.dirty[r] = s.dirty[r] \cup d BY <1>1, <1>2
<1> HIDE DEF t, d
<1>7. t.view[r].contact = s.view[r].contact BY <1>6
<1>8. "contact" \in t.dirty[r] <=> "contact" \in s.dirty[r] BY <1>6, <1>3
<1>9. "key" \in s.dirty[r] => "key" \in t.dirty[r] BY <1>6
<1>10. CASE row.key = s.view[r].key
  <2>1. "key" \in t.dirty[r] <=> "key" \in s.dirty[r] BY <1>6, <1>4, <1>10
  <2> QED BY <1>5, <1>6, <1>7, <1>8, <1>9, <1>10, <2>1 DEF Tame, t
<1>11. CASE row.key # s.view[r].key
  <2>1. "key" \in t.dirty[r] /\ t.view[r].key = "archived" BY <1>6, <1>4, <1>11
  <2> QED BY <1>5, <1>7, <1>8, <1>9, <2>1 DEF Tame, t
<1> QED BY <1>10, <1>11 DEF t

LEMMA TameLog ==
    ASSUME NEW s \in Session, NEW r \in Runs, NEW status PROVE Tame(s, Log(s, r, status))
BY TameStays DEF Log, Session

LEMMA TameReturn == ASSUME NEW s \in Session PROVE Tame(s, Return(s))
BY TameStays DEF Return, Session

LEMMA TameFurther == ASSUME NEW s \in Session PROVE Tame(s, Further(s))
BY TameStays DEF Further, Session

LEMMA TameFinalize ==
    ASSUME NEW s \in Session, NEW r \in Runs, NEW state \in Terminal
    PROVE  Tame(s, Finalize(s, r, state))
<1> DEFINE row == [s.view[r] EXCEPT !.state = state, !.wake = "never",
                                    !.key = "archived"]
           t == Write(s, r, row)
<1>1. s.view[r] \in Row BY DEF Session
<1>2. row \in Row /\ row.contact = s.view[r].contact /\ row.key = "archived"
  BY <1>1 DEF Row
<1>3. t \in Session /\ Tame(s, t) BY <1>2, WriteType, TameWrite
<1>4. Finalize(s, r, state).view = t.view /\ Finalize(s, r, state).dirty = t.dirty
  <2> HIDE DEF t
  <2>1. Finalize(s, r, state) =
        Bump([t EXCEPT !.purged = @ \cup {r}, !.added = {w \in @ : w[1] # r}], state)
    BY DEF Finalize, t
  <2> QED BY <2>1, <1>3 DEF Bump, Session
<1> QED BY <1>3, <1>4, TameStays, TameTransitive

LEMMA TameCancelRun ==
    ASSUME NEW s \in Session, NEW r \in Runs PROVE Tame(s, CancelRun(s, r))
<1> DEFINE row == [s.view[r] EXCEPT !.state = "cancelling"]
<1>1. s.view[r] \in Row BY DEF Session
<1>2. row \in Row /\ row.contact = s.view[r].contact /\ row.key = s.view[r].key
  BY <1>1 DEF Row, Live
<1>3. Tame(s, Write(s, r, row)) BY <1>2, TameWrite
<1>4. Tame(s, Finalize(s, r, "cancelled")) BY TameFinalize DEF Terminal
<1> QED BY <1>3, <1>4, TameStays DEF CancelRun

LEMMA TameResumeWait ==
    ASSUME NEW s \in Session, NEW w \in WaitIds, NEW branch
    PROVE  Tame(s, ResumeWait(s, w, branch))
<1> DEFINE r == w[1]
           t == [s EXCEPT !.gone = @ \cup {w}, !.added = @ \ {w}]
           row == [s.view[r] EXCEPT !.step = NextStep(w[2], branch),
                                    !.state = "running", !.wake = "due"]
           u == Write(t, r, row)
           v == [u EXCEPT !.cur = r, !.fuel = MaxSteps]
<1>1. r \in Runs /\ w[2] \in Steps BY DEF WaitIds
<1>2. s.view[r] \in Row BY <1>1 DEF Session
<1>3. /\ row \in Row /\ row.contact = s.view[r].contact /\ row.key = s.view[r].key
  BY <1>1, <1>2, NextStepType DEF Row, Live
<1>4. t \in Session /\ t.view = s.view /\ t.dirty = s.dirty
  <2>1. s.gone \cup {w} \subseteq WaitIds /\ s.added \ {w} \subseteq WaitIds
    BY DEF Session
  <2> QED BY <2>1 DEF Session
<1>5. Tame(s, t) BY <1>4, TameStays
<1> HIDE DEF t, row
<1>6. u \in Session /\ Tame(t, u) BY <1>1, <1>3, <1>4, WriteType, TameWrite
<1> HIDE DEF u
<1>7. Tame(u, v)
  <2>1. v.view = u.view /\ v.dirty = u.dirty BY <1>6 DEF Session
  <2> QED BY <2>1, TameStays
<1>8. ResumeWait(s, w, branch) \in {t, v} BY DEF ResumeWait, t, row, u
<1> HIDE DEF v
<1> QED BY <1>5, <1>6, <1>7, <1>8, TameTransitive

LEMMA TameFollow ==
    ASSUME NEW s \in Session, NEW r \in Runs, s.view[r].step \in Steps, NEW label
    PROVE  Tame(s, Follow(s, r, label))
<1> DEFINE next == NextStep(s.view[r].step, label)
           row == [s.view[r] EXCEPT !.step = next]
           t == Write(s, r, row)
           f == Finalize(t, r, "completed")
<1>1. s.view[r] \in Row BY DEF Session
<1>2. next \in Steps \cup {None} BY NextStepType
<1>3. row \in Row /\ row.contact = s.view[r].contact /\ row.key = s.view[r].key
  BY <1>1, <1>2 DEF Row
<1>4. t \in Session /\ Tame(s, t) BY <1>3, WriteType, TameWrite
<1>5. Follow(s, r, label) \in {Return(f), Further(t)} BY DEF Follow
<1> HIDE DEF t
<1>6. f \in Session /\ Tame(t, f) BY <1>4, FinalizeType, TameFinalize DEF Terminal
<1> HIDE DEF f
<1>7. Tame(t, Further(t)) /\ Tame(f, Return(f)) BY <1>4, <1>6, TameFurther, TameReturn
<1> QED BY <1>4, <1>5, <1>6, <1>7, TameTransitive

LEMMA TameApplied ==
    ASSUME NEW p \in Procs, NEW s \in Session, NEW r \in Runs,
           s.view[r].step \in Steps,
           NEW a \in AnswersOf(s.view[r].step) \ {"failed"},
           NEW t \in Applied(p, s, r, a)
    PROVE  Tame(s, t)
<1> DEFINE v == s.view[r]
           ok == Log(s, r, "ok")
           heard == NextStep(v.step, "matched")
           listening == [v EXCEPT !.state = "waiting_for_event", !.wake = "later",
                           !.step = IF heard # None THEN heard ELSE v.step]
           sleeping(wake) == [v EXCEPT !.state = "waiting", !.wake = wake,
                                       !.step = NextStep(v.step, "default")]
<1>1. v \in Row BY DEF Session
<1>2. \A status \in {"ok", "skipped", "deferred", "failed"} :
         /\ Log(s, r, status) \in Session
         /\ Log(s, r, status).view = s.view
         /\ Tame(s, Log(s, r, status))
  BY LogType, TameLog DEF Log, Session
<1>3. a \in AllAnswers \ {"failed"}
  <2>1. StepType[v.step] \in DOMAIN Answers BY GraphAssumption
  <2> QED BY <2>1 DEF AnswersOf, Answers, AllAnswers, Labels, EmailAnswers, TouchAnswers,
                     TestAnswers, CaseAnswers, NapAnswers, DateAnswers, ListenAnswers
\* A write of a row after a log entry, and the return after it.
<1>4. ASSUME NEW status \in {"ok", "skipped", "deferred", "failed"}, NEW row \in Row,
             row.contact = v.contact, row.key = v.key
      PROVE  /\ Write(Log(s, r, status), r, row) \in Session
             /\ Tame(s, Write(Log(s, r, status), r, row))
             /\ Tame(s, Return(Write(Log(s, r, status), r, row)))
  <2> DEFINE l == Log(s, r, status)
             u == Write(l, r, row)
  <2>1. l \in Session /\ l.view = s.view /\ Tame(s, l) BY <1>2
  <2> HIDE DEF l
  <2>2. u \in Session /\ Tame(l, u) BY <1>4, <2>1, WriteType, TameWrite
  <2> HIDE DEF u
  <2>3. Tame(u, Return(u)) BY <2>2, TameReturn
  <2>4. u \in Session /\ Tame(s, u) /\ Tame(s, Return(u))
    BY <2>1, <2>2, <2>3, TameTransitive
  <2> QED BY <2>4 DEF u, l
<1>5. ASSUME NEW status \in {"ok", "skipped", "deferred", "failed"}, NEW state \in Terminal
      PROVE  Tame(s, Return(Finalize(Log(s, r, status), r, state)))
  <2> DEFINE l == Log(s, r, status)
             u == Finalize(l, r, state)
  <2>1. l \in Session /\ Tame(s, l) BY <1>2
  <2> HIDE DEF l
  <2>2. u \in Session /\ Tame(l, u) BY <2>1, FinalizeType, TameFinalize
  <2> HIDE DEF u
  <2>3. Tame(u, Return(u)) BY <2>2, TameReturn
  <2>4. Tame(s, Return(u)) BY <2>1, <2>2, <2>3, TameTransitive
  <2> QED BY <2>4 DEF u, l
<1>6. ASSUME NEW status \in {"ok", "skipped", "deferred", "failed"}, NEW label
      PROVE  Tame(s, Follow(Log(s, r, status), r, label))
  <2> DEFINE l == Log(s, r, status)
  <2>1. l \in Session /\ l.view = s.view /\ Tame(s, l) BY <1>2
  <2> HIDE DEF l
  <2>2. Tame(l, Follow(l, r, label)) BY <2>1, TameFollow
  <2>3. Tame(s, Follow(l, r, label)) BY <2>1, <2>2, TameTransitive
  <2> QED BY <2>3 DEF l
<1>7. CASE a \in {"raise", "exit"}
  <2>1. \/ t = Return(Finalize(Log(s, r, "failed"), r, "failed"))
        \/ t = Return(Finalize(ok, r, "completed"))
    BY <1>7 DEF Applied, Labels
  <2> QED BY <2>1, <1>5 DEF Terminal
<1>8. CASE a = "deferred"
  <2> DEFINE row == [v EXCEPT !.state = "waiting", !.wake = "later"]
  <2>1. row \in Row /\ row.contact = v.contact /\ row.key = v.key
    BY <1>1 DEF Row, Live
  <2>2. t = Return(Write(Log(s, r, "deferred"), r, row)) BY <1>8 DEF Applied, Labels
  <2> HIDE DEF row
  <2> QED BY <2>1, <2>2, <1>4
<1>9. CASE a = "sleep"
  <2>1. PICK wake \in {"due", "later"} : t = Return(Write(ok, r, sleeping(wake)))
    BY <1>9 DEF Applied, Labels
  <2>2. /\ sleeping(wake) \in Row
        /\ sleeping(wake).contact = v.contact /\ sleeping(wake).key = v.key
    BY <1>1, NextStepType DEF Row, Live
  <2> HIDE DEF sleeping
  <2> QED BY <2>1, <2>2, <1>4
<1>10. CASE a = "listen"
  <2> DEFINE u == Write(ok, r, listening)
             x == [u EXCEPT !.added = @ \cup {<<r, v.step, p>>}]
  <2>1. /\ listening \in Row
        /\ listening.contact = v.contact /\ listening.key = v.key
    <3>1. (IF heard # None THEN heard ELSE v.step) \in Steps \cup {None}
      BY NextStepType
    <3> QED BY <1>1, <3>1 DEF Row, Live
  <2>2. t = Return(x) BY <1>10 DEF Applied, Labels
  <2> HIDE DEF listening
  <2>3. u \in Session /\ Tame(s, u) BY <2>1, <1>4
  <2> HIDE DEF u
  <2>4. Return(x).view = u.view /\ Return(x).dirty = u.dirty
    BY <2>3 DEF Return, Session
  <2>5. Tame(u, t) BY <2>2, <2>4, TameStays
  <2> QED BY <2>3, <2>5, TameTransitive
<1>11. CASE a = "skipped"
  <2>1. t = Follow(Log(s, r, "skipped"), r, "default") BY <1>11 DEF Applied, Labels
  <2> QED BY <2>1, <1>6
<1>12. CASE a \in Labels
  <2>1. t = Follow(ok, r, a) BY <1>12 DEF Applied, Labels
  <2> QED BY <2>1, <1>6
<1> QED BY <1>3, <1>7, <1>8, <1>9, <1>10, <1>11, <1>12 DEF AllAnswers

-----------------------------------------------------------------------------
(* How the steps of a process bear on SlotInv                              *)

\* A tame change of an open transaction.
LEMMA TameStep ==
    ASSUME TypeOK, SlotInv, NEW p \in Procs, Open(p), NEW t, Tame(sess[p], t),
           sess' = [sess EXCEPT ![p] = t], run' = run
    PROVE  SlotInv'
<1> DEFINE s == sess[p]
<1>1. SlotUnique' BY DEF SlotInv, SlotUnique, HoldsSlot
<1>2. sess'[p] = t /\ \A q \in Procs \ {p} : sess'[q] = sess[q] BY DEF TypeOK
<1>3. \A q \in Procs : Open(q)' => Open(q) BY <1>2 DEF Open
<1>4. ASSUME NEW r \in Runs, NEW c, Claims(p, r, c)' PROVE Claims(p, r, c)
  BY <1>2, <1>4 DEF Claims, HoldsSlot, Tame
<1>5. ASSUME NEW q \in Procs, NEW r \in Runs, NEW c, Claims(q, r, c)' PROVE Claims(q, r, c)
  BY <1>2, <1>4, <1>5 DEF Claims, HoldsSlot
<1>6. ASSUME NEW q \in Procs, NEW r \in Runs, NEW c, HoldsSlot(Sees(q, r), c)'
      PROVE  HoldsSlot(Sees(q, r), c)
  <2>1. CASE q = p BY <1>2, <1>6, <2>1 DEF Sees, HoldsSlot, Tame
  <2>2. CASE q # p BY <1>2, <1>6, <2>2 DEF Sees, HoldsSlot
  <2> QED BY <2>1, <2>2
<1>7. ClaimsAreInserts'
  <2> SUFFICES ASSUME NEW q \in Procs, NEW r \in Runs, Open(q)'
      PROVE  LET u == sess'[q] IN
             /\ "contact" \in u.dirty[r] => "key" \in u.dirty[r]
             /\ "key" \in u.dirty[r] /\ u.view[r].key = "slot" => "contact" \in u.dirty[r]
    BY DEF ClaimsAreInserts
  <2>1. CASE q = p BY <1>2, <2>1 DEF SlotInv, ClaimsAreInserts, Tame
  <2>2. CASE q # p BY <1>2, <1>3, <2>2 DEF SlotInv, ClaimsAreInserts
  <2> QED BY <2>1, <2>2
<1>8. ClaimsAreAlone' BY <1>3, <1>5, <1>6 DEF SlotInv, ClaimsAreAlone
<1>9. ClaimsExclude' BY <1>3, <1>5 DEF SlotInv, ClaimsExclude
<1> QED BY <1>1, <1>7, <1>8, <1>9 DEF SlotInv

\* A transaction that begins, has nothing flushed, or ends without COMMIT.
LEMMA FreshStep ==
    ASSUME TypeOK, SlotInv, NEW p \in Procs, NEW t,
           t = None \/ \A r \in Runs : t.dirty[r] = {},
           sess' = [sess EXCEPT ![p] = t], run' = run
    PROVE  SlotInv'
<1>1. SlotUnique' BY DEF SlotInv, SlotUnique, HoldsSlot
<1>2. sess'[p] = t /\ \A q \in Procs \ {p} : sess'[q] = sess[q] BY DEF TypeOK
<1>3. ASSUME NEW q \in Procs, NEW r \in Runs, Open(q)', sess'[q].dirty[r] # {}
      PROVE  q # p /\ Open(q) /\ sess'[q] = sess[q]
  BY <1>2, <1>3 DEF Open
<1>4. ASSUME NEW q \in Procs, NEW r \in Runs, NEW c, Open(q)', Claims(q, r, c)'
      PROVE  q # p /\ Open(q) /\ sess'[q] = sess[q] /\ Claims(q, r, c)
  BY <1>3, <1>4 DEF Claims, HoldsSlot
<1>5. ClaimsAreInserts' BY <1>3 DEF SlotInv, ClaimsAreInserts
<1>6. ClaimsAreAlone'
  <2> SUFFICES ASSUME NEW q \in Procs, NEW r1 \in Runs, NEW r2 \in Runs, NEW c \in Contacts,
                      Open(q)', Claims(q, r1, c)', HoldsSlot(Sees(q, r2), c)'
               PROVE  r1 = r2
    BY DEF ClaimsAreAlone
  <2>1. Open(q) /\ sess'[q] = sess[q] /\ Claims(q, r1, c) BY <1>4
  <2>2. HoldsSlot(Sees(q, r2), c) BY <2>1 DEF Sees, HoldsSlot
  <2> QED BY <2>1, <2>2 DEF SlotInv, ClaimsAreAlone
<1>7. ClaimsExclude' BY <1>4 DEF SlotInv, ClaimsExclude
<1> QED BY <1>1, <1>5, <1>6, <1>7 DEF SlotInv

\* COMMIT of a transaction, perhaps after one more tame change.
LEMMA PublishStep ==
    ASSUME TypeOK, SlotInv, NEW p \in Procs, Open(p),
           NEW t, Tame(sess[p], t), Publish(p, t)
    PROVE  SlotInv'
<1> DEFINE s == sess[p]
<1>1. sess'[p] = None /\ \A q \in Procs \ {p} : sess'[q] = sess[q]
  BY DEF Publish, TypeOK
<1>2. ASSUME NEW q \in Procs, Open(q)' PROVE q # p /\ Open(q) /\ sess'[q] = sess[q]
  BY <1>1, <1>2 DEF Open
<1>3. ASSUME NEW r \in Runs
      PROVE  /\ run'[r].contact = IF "contact" \in t.dirty[r]
                                  THEN t.view[r].contact ELSE run[r].contact
             /\ run'[r].key = IF "key" \in t.dirty[r] THEN t.view[r].key ELSE run[r].key
  BY DEF Publish
\* What the COMMIT puts into a slot, p saw there before.
<1>4. ASSUME NEW r \in Runs, NEW c, HoldsSlot(run'[r], c) PROVE HoldsSlot(Sees(p, r), c)
  <2>1. /\ "contact" \in s.dirty[r] => "key" \in s.dirty[r]
        /\ "key" \in s.dirty[r] /\ s.view[r].key = "slot" => "contact" \in s.dirty[r]
    BY DEF SlotInv, ClaimsAreInserts
  <2>2. CASE "key" \in t.dirty[r]
    <3>1. t.view[r].key = "slot" BY <1>3, <1>4, <2>2 DEF HoldsSlot
    <3>2. s.view[r].key = "slot" /\ "key" \in s.dirty[r] BY <2>2, <3>1 DEF Tame
    <3>3. "contact" \in t.dirty[r] /\ t.view[r].contact = s.view[r].contact
      BY <2>1, <3>2 DEF Tame
    <3> QED BY <1>3, <1>4, <3>2, <3>3 DEF HoldsSlot, Sees
  <2>3. CASE "key" \notin t.dirty[r]
    <3>1. "key" \notin s.dirty[r] /\ "contact" \notin t.dirty[r]
      BY <2>1, <2>3 DEF Tame
    <3> QED BY <1>3, <1>4, <2>3, <3>1 DEF HoldsSlot, Sees
  <2> QED BY <2>2, <2>3
<1>5. ASSUME NEW r \in Runs, NEW c, HoldsSlot(Sees(p, r), c)
      PROVE  Claims(p, r, c) \/ HoldsSlot(run[r], c)
  BY <1>5 DEF Sees, Claims
<1>6. SlotUnique'
  <2> SUFFICES ASSUME NEW c \in Contacts, NEW r1 \in Runs, NEW r2 \in Runs,
                      HoldsSlot(run'[r1], c), HoldsSlot(run'[r2], c)
               PROVE  r1 = r2
    BY DEF SlotUnique, HoldsSlot
  <2>1. HoldsSlot(Sees(p, r1), c) /\ HoldsSlot(Sees(p, r2), c) BY <1>4
  <2>2. CASE Claims(p, r1, c) \/ Claims(p, r2, c)
    BY <2>1, <2>2 DEF SlotInv, ClaimsAreAlone
  <2>3. CASE HoldsSlot(run[r1], c) /\ HoldsSlot(run[r2], c)
    BY <2>3 DEF SlotInv, SlotUnique
  <2> QED BY <2>1, <2>2, <2>3, <1>5
<1>7. ClaimsAreInserts' BY <1>2 DEF SlotInv, ClaimsAreInserts
<1>8. ClaimsAreAlone'
  <2> SUFFICES ASSUME NEW q \in Procs, NEW r1 \in Runs, NEW r2 \in Runs, NEW c \in Contacts,
                      Open(q)', Claims(q, r1, c)', HoldsSlot(Sees(q, r2), c)'
               PROVE  r1 = r2
    BY DEF ClaimsAreAlone
  <2>1. q # p /\ Open(q) /\ sess'[q] = sess[q] BY <1>2
  <2>2. Claims(q, r1, c) BY <2>1 DEF Claims, HoldsSlot
  <2>3. CASE "key" \in sess[q].dirty[r2]
    <3>1. HoldsSlot(Sees(q, r2), c) BY <2>1, <2>3 DEF Sees, HoldsSlot
    <3> QED BY <2>1, <2>2, <3>1 DEF SlotInv, ClaimsAreAlone
  <2>4. CASE "key" \notin sess[q].dirty[r2]
    <3>1. HoldsSlot(run'[r2], c) BY <2>1, <2>4 DEF Sees, HoldsSlot
    <3>2. ~Claims(p, r2, c) BY <2>1, <2>2 DEF SlotInv, ClaimsExclude
    <3>3. HoldsSlot(run[r2], c) BY <1>4, <1>5, <3>1, <3>2
    <3>4. HoldsSlot(Sees(q, r2), c) BY <2>4, <3>3 DEF Sees
    <3> QED BY <2>1, <2>2, <3>4 DEF SlotInv, ClaimsAreAlone
  <2> QED BY <2>3, <2>4
<1>9. ClaimsExclude' BY <1>2 DEF SlotInv, ClaimsExclude, Claims, HoldsSlot
<1> QED BY <1>6, <1>7, <1>8, <1>9 DEF SlotInv

\* The INSERT of a run: into a slot only if p sees it free and no other
\* transaction has an entry for it in doubt.
LEMMA InsertStep ==
    ASSUME TypeOK, SlotInv, NEW p \in Procs, Open(p), NEW r \in Runs, NEW row, NEW u,
           u.view = [sess[p].view EXCEPT ![r] = row],
           u.dirty = [sess[p].dirty EXCEPT ![r] = Cols],
           row.key = "slot" => ~SlotTaken(p, row.contact) /\ ~SlotInDoubt(p, row.contact),
           sess' = [sess EXCEPT ![p] = u], run' = run
    PROVE  SlotInv'
<1> DEFINE s == sess[p]
<1>1. SlotUnique' BY DEF SlotInv, SlotUnique, HoldsSlot
<1>2. sess'[p] = u /\ \A q \in Procs \ {p} : sess'[q] = sess[q] BY DEF TypeOK
<1>3. s \in Session BY DEF TypeOK, Open
<1>4. /\ u.view[r] = row /\ u.dirty[r] = Cols
      /\ \A x \in Runs : x # r => /\ sess'[p].view[x] = sess[p].view[x]
                                /\ sess'[p].dirty[x] = sess[p].dirty[x]
  BY <1>2, <1>3 DEF Session
<1>5. \A q \in Procs : Open(q)' /\ q # p => Open(q) BY <1>2 DEF Open
<1>6. ASSUME NEW q \in Procs, q # p, NEW x \in Runs, NEW c
      PROVE  /\ Claims(q, x, c)' <=> Claims(q, x, c)
             /\ HoldsSlot(Sees(q, x), c)' <=> HoldsSlot(Sees(q, x), c)
  BY <1>2, <1>6 DEF Claims, HoldsSlot, Sees
<1>7. ASSUME NEW x \in Runs, x # r, NEW c
      PROVE  /\ Claims(p, x, c)' <=> Claims(p, x, c)
             /\ HoldsSlot(Sees(p, x), c)' <=> HoldsSlot(Sees(p, x), c)
  BY <1>4, <1>7 DEF Claims, HoldsSlot, Sees
<1>8. ASSUME NEW c, Claims(p, r, c)' \/ HoldsSlot(Sees(p, r), c)'
      PROVE  c = row.contact /\ row.key = "slot"
  BY <1>2, <1>4, <1>8 DEF Claims, HoldsSlot, Sees, Cols
<1>9. ClaimsAreInserts'
  <2> SUFFICES ASSUME NEW q \in Procs, NEW x \in Runs, Open(q)'
      PROVE  LET v == sess'[q] IN
             /\ "contact" \in v.dirty[x] => "key" \in v.dirty[x]
             /\ "key" \in v.dirty[x] /\ v.view[x].key = "slot" => "contact" \in v.dirty[x]
    BY DEF ClaimsAreInserts
  <2>1. CASE q # p BY <1>2, <1>5, <2>1 DEF SlotInv, ClaimsAreInserts
  <2>2. CASE q = p /\ x # r BY <1>4, <2>2 DEF SlotInv, ClaimsAreInserts
  <2>3. CASE q = p /\ x = r BY <1>2, <1>4, <2>3 DEF Cols
  <2> QED BY <2>1, <2>2, <2>3
<1>10. ClaimsAreAlone'
  <2> SUFFICES ASSUME NEW q \in Procs, NEW x1 \in Runs, NEW x2 \in Runs, NEW c \in Contacts,
                      Open(q)', Claims(q, x1, c)', HoldsSlot(Sees(q, x2), c)'
               PROVE  x1 = x2
    BY DEF ClaimsAreAlone
  <2>1. CASE q # p BY <1>5, <1>6, <2>1 DEF SlotInv, ClaimsAreAlone
  <2>2. CASE q = p /\ x1 # r /\ x2 # r BY <1>7, <2>2 DEF SlotInv, ClaimsAreAlone
  <2>3. CASE q = p /\ x1 = r /\ x2 # r BY <1>7, <1>8, <2>3 DEF SlotTaken
  <2>4. CASE q = p /\ x1 # r /\ x2 = r
    <3>1. Claims(p, x1, c) /\ c = row.contact /\ row.key = "slot" BY <1>7, <1>8, <2>4
    <3>2. HoldsSlot(Sees(p, x1), c) BY <3>1 DEF Claims, Sees
    <3> QED BY <3>1, <3>2 DEF SlotTaken
  <2> QED BY <2>1, <2>2, <2>3, <2>4
<1>11. ClaimsExclude'
  <2>1. ASSUME NEW q \in Procs, q # p, Open(q)', NEW x1 \in Runs, NEW x2 \in Runs,
               NEW c \in Contacts, Claims(p, x1, c)', Claims(q, x2, c)'
        PROVE  FALSE
    <3>1. Open(q) /\ Claims(q, x2, c) BY <1>5, <1>6, <2>1
    <3>2. CASE x1 = r
      <4>1. c = row.contact /\ row.key = "slot" BY <1>8, <2>1, <3>2
      <4>2. SlotInDoubt(p, c) BY <2>1, <3>1 DEF SlotInDoubt, Claims
      <4> QED BY <4>1, <4>2
    <3>3. CASE x1 # r BY <1>7, <2>1, <3>1, <3>3 DEF SlotInv, ClaimsExclude
    <3> QED BY <3>2, <3>3
  <2>2. ASSUME NEW q \in Procs, NEW o \in Procs, q # p, o # p, q # o, Open(q)', Open(o)',
               NEW x1 \in Runs, NEW x2 \in Runs, NEW c \in Contacts,
               Claims(q, x1, c)', Claims(o, x2, c)'
        PROVE  FALSE
    BY <1>5, <1>6, <2>2 DEF SlotInv, ClaimsExclude
  <2> QED BY <2>1, <2>2 DEF ClaimsExclude
<1> QED BY <1>1, <1>9, <1>10, <1>11 DEF SlotInv

\* The passing of time touches neither contacts nor keys.
LEMMA ClockStep == TypeOK /\ SlotInv /\ Clock => SlotInv'
<1> SUFFICES ASSUME TypeOK, SlotInv, Clock PROVE SlotInv' OBVIOUS
<1>1. \A row \in Row : Rung(row).contact = row.contact /\ Rung(row).key = row.key
  BY DEF Rung, Row
<1>2. \A r \in Runs : run'[r].contact = run[r].contact /\ run'[r].key = run[r].key
  BY <1>1 DEF Clock, TypeOK
<1>3. ASSUME NEW q \in Procs, Open(q)'
      PROVE  /\ Open(q) /\ sess'[q].dirty = sess[q].dirty
             /\ \A r \in Runs : /\ sess'[q].view[r].contact = sess[q].view[r].contact
                                /\ sess'[q].view[r].key = sess[q].view[r].key
  <2>1. Open(q) BY <1>3 DEF Clock, Open
  <2>2. sess[q] \in Session BY <2>1 DEF TypeOK, Open
  <2>3. sess'[q] = [sess[q] EXCEPT !.view = [r \in Runs |-> Rung(@[r])]]
    BY <2>1 DEF Clock
  <2>4. sess'[q].dirty = sess[q].dirty BY <2>2, <2>3 DEF Session
  <2>5. sess'[q].view = [r \in Runs |-> Rung(sess[q].view[r])]
    BY <2>2, <2>3 DEF Session
  <2>6. \A r \in Runs : sess[q].view[r] \in Row BY <2>2 DEF Session
  <2> QED BY <2>1, <2>4, <2>5, <2>6, <1>1
<1>4. ASSUME NEW q \in Procs, Open(q)', NEW r \in Runs, NEW c
      PROVE  /\ Claims(q, r, c)' => Claims(q, r, c)
             /\ HoldsSlot(Sees(q, r), c)' => HoldsSlot(Sees(q, r), c)
  BY <1>2, <1>3, <1>4 DEF Claims, HoldsSlot, Sees
<1>5. SlotUnique' BY <1>2 DEF SlotInv, SlotUnique, HoldsSlot
<1>6. ClaimsAreInserts' BY <1>3 DEF SlotInv, ClaimsAreInserts
<1>7. ClaimsAreAlone'
  <2> SUFFICES ASSUME NEW q \in Procs, NEW r1 \in Runs, NEW r2 \in Runs, NEW c \in Contacts,
                      Open(q)', Claims(q, r1, c)', HoldsSlot(Sees(q, r2), c)'
               PROVE  r1 = r2
    BY DEF ClaimsAreAlone
  <2> QED BY <1>3, <1>4 DEF SlotInv, ClaimsAreAlone
<1>8. ClaimsExclude' BY <1>3, <1>4 DEF SlotInv, ClaimsExclude
<1> QED BY <1>5, <1>6, <1>7, <1>8 DEF SlotInv

-----------------------------------------------------------------------------
(* The actions                                                             *)

LEMMA AdvanceKeepsSlots ==
    ASSUME TypeOK, SlotInv, NEW p \in Procs, Open(p), Advance(p) PROVE SlotInv'
<1> DEFINE s == sess[p]
           r == s.cur
           step == s.view[r].step
<1>1. s \in Session BY DEF TypeOK, Open
<1>2. s.cur # None => r \in Runs /\ s.view[r] \in Row BY <1>1 DEF Session
<1>3. s.cur # None /\ step # None => step \in Steps BY <1>2 DEF Row
<1>4. CASE AdvanceReturns(p)
  BY <1>1, <1>4, TameReturn, TameStep DEF AdvanceReturns, store
<1>5. CASE AdvanceCloses(p)
  <2>1. \A state \in Terminal : Tame(s, Return(Finalize(s, r, state)))
    <3>1. ASSUME NEW state \in Terminal PROVE Tame(s, Return(Finalize(s, r, state)))
      <4>1. Finalize(s, r, state) \in Session /\ Tame(s, Finalize(s, r, state))
        BY <1>1, <1>2, <1>5, FinalizeType, TameFinalize DEF AdvanceCloses, Turning
      <4> QED BY <4>1, TameReturn, TameTransitive
    <3> QED BY <3>1
  <2> QED BY <2>1, <1>5, TameStep DEF AdvanceCloses, Terminal, store
<1>6. CASE AdvancePassesTrigger(p)
  <2> DEFINE l == Log(s, r, "ok")
  <2>1. r \in Runs /\ step \in Steps BY <1>2, <1>3, <1>6 DEF AdvancePassesTrigger, Turning
  <2>2. l \in Session /\ Tame(s, l) BY <1>1, <2>1, LogType, TameLog
  <2>3. l.view = s.view BY <1>1 DEF Log, Session
  <2>4. Tame(s, Follow(l, r, "default"))
    <3> HIDE DEF l
    <3>1. Tame(l, Follow(l, r, "default")) BY <2>1, <2>2, <2>3, TameFollow
    <3> QED BY <3>1, <2>2, TameTransitive
  <2> QED BY <2>4, <1>6, TameStep DEF AdvancePassesTrigger, store
<1>7. CASE AdvanceHandles(p)
  <2>1. r \in Runs /\ step \in Steps BY <1>2, <1>3, <1>7 DEF AdvanceHandles, Turning
  <2>2. PICK a \in AnswersOf(step) \ {"failed"} :
            \E t \in Applied(p, s, r, a) : sess' = [sess EXCEPT ![p] = t]
    BY <1>7 DEF AdvanceHandles
  <2>3. PICK t \in Applied(p, s, r, a) : sess' = [sess EXCEPT ![p] = t] BY <2>2
  <2>4. Tame(s, t) BY <1>1, <2>1, TameApplied
  <2> QED BY <2>3, <2>4, <1>7, TameStep DEF AdvanceHandles, store
<1>8. CASE AdvanceFails(p)
  <2> DEFINE l == Return(Log(s, r, "failed"))
             fresh == NewSession("end", {}, {}, {})
  <2>1. r \in Runs /\ step \in Steps BY <1>2, <1>3, <1>8 DEF AdvanceFails, Turning
  <2>2. Log(s, r, "failed") \in Session /\ Tame(s, Log(s, r, "failed"))
    BY <1>1, <2>1, LogType, TameLog
  <2>3. Tame(s, l) BY <2>2, TameReturn, TameTransitive
  <2>4. \A x \in Runs : fresh.dirty[x] = {} BY DEF NewSession
  <2>5. \/ sess' = [sess EXCEPT ![p] = l] \/ sess' = [sess EXCEPT ![p] = fresh]
        \/ sess' = [sess EXCEPT ![p] = None]
    BY <1>8 DEF AdvanceFails
  <2>6. run' = run BY <1>8 DEF AdvanceFails, store
  <2> HIDE DEF l, fresh
  <2> QED BY <2>3, <2>4, <2>5, <2>6, TameStep, FreshStep
<1> QED BY <1>4, <1>5, <1>6, <1>7, <1>8 DEF Advance

\* An open transaction that has not moved since t inserts a run.
LEMMA AdmitStep ==
    ASSUME TypeOK, SlotInv, NEW p \in Procs, Open(p),
           NEW t \in Session, t.view = sess[p].view, t.dirty = sess[p].dirty,
           NEW r \in Runs, NEW c \in Contacts, NEW step \in Steps \cup {None},
           NEW key \in {"slot", "own"},
           key = "slot" => ~SlotTaken(p, c) /\ ~SlotInDoubt(p, c),
           NEW entry,
           \/ sess' = [sess EXCEPT ![p] = Insert(t, r, c, step, key)]
           \/ sess' = [sess EXCEPT ![p] =
                  [Insert(t, r, c, step, key) EXCEPT !.logged = @ \cup {entry}]],
           run' = run
    PROVE  SlotInv'
<1> DEFINE row == [contact |-> c, state |-> "running", step |-> step,
                   wake |-> "due", key |-> key]
           i == Insert(t, r, c, step, key)
           u == [i EXCEPT !.logged = @ \cup {entry}]
<1>1. /\ i.view = [sess[p].view EXCEPT ![r] = row]
      /\ i.dirty = [sess[p].dirty EXCEPT ![r] = Cols]
  BY DEF Insert, Bump, Session
<1>2. i \in Session BY InsertType
<1>3. row.contact = c /\ row.key = key OBVIOUS
<1>4. sess' = [sess EXCEPT ![p] = i] \/ sess' = [sess EXCEPT ![p] = u] OBVIOUS
<1> HIDE DEF row, i
<1>5. u.view = i.view /\ u.dirty = i.dirty BY <1>2 DEF Session
<1> HIDE DEF u
<1>6. row.key = "slot" => ~SlotTaken(p, row.contact) /\ ~SlotInDoubt(p, row.contact)
  BY <1>3
<1>7. CASE sess' = [sess EXCEPT ![p] = i] BY <1>1, <1>6, <1>7, InsertStep
<1>8. CASE sess' = [sess EXCEPT ![p] = u]
  <2>1. /\ u.view = [sess[p].view EXCEPT ![r] = row]
        /\ u.dirty = [sess[p].dirty EXCEPT ![r] = Cols]
    BY <1>1, <1>5
  <2> QED BY <1>6, <1>8, <2>1, InsertStep
<1> QED BY <1>4, <1>7, <1>8

\* The two insertions, of start_run and of start_manual_run.
LEMMA AdmissionKeepsSlots ==
    ASSUME TypeOK, SlotInv, NEW p \in Procs, Open(p), TakeContact(p) \/ TakeManual(p)
    PROVE  SlotInv'
<1> DEFINE s == sess[p]
<1>1. s \in Session BY DEF TypeOK, Open
<1>2. CASE TakeContact(p)
  <2>1. run' = run BY <1>2 DEF TakeContact, store
  <2>2. PICK c \in s.admit :
          LET t == [s EXCEPT !.admit = @ \ {c}] IN
          /\ ~Reentry => ~SlotInDoubt(p, c)
          /\ \/ sess' = [sess EXCEPT ![p] = t]
             \/ /\ Reentry \/ ~SlotTaken(p, c)
                /\ \E r \in Runs : sess' = [sess EXCEPT ![p] =
                       Insert(t, r, c, Root, IF Reentry THEN "own" ELSE "slot")]
    BY <1>2 DEF TakeContact
  <2> DEFINE t == [s EXCEPT !.admit = @ \ {c}]
             key == IF Reentry THEN "own" ELSE "slot"
  <2>3. t \in Session /\ t.view = s.view /\ t.dirty = s.dirty
    <3>1. s.admit \ {c} \subseteq Contacts BY <1>1 DEF Session
    <3> QED BY <1>1, <3>1 DEF Session
  <2>4. \/ sess' = [sess EXCEPT ![p] = t]
        \/ /\ key = "slot" => ~SlotTaken(p, c) /\ ~SlotInDoubt(p, c)
           /\ \E r \in Runs : sess' = [sess EXCEPT ![p] = Insert(t, r, c, Root, key)]
    BY <2>2, RunsAssumption
  <2> HIDE DEF t, key
  <2>5. CASE sess' = [sess EXCEPT ![p] = t] BY <2>1, <2>3, <2>5, TameStays, TameStep
  <2>6. ASSUME key = "slot" => ~SlotTaken(p, c) /\ ~SlotInDoubt(p, c), NEW r \in Runs,
               sess' = [sess EXCEPT ![p] = Insert(t, r, c, Root, key)]
        PROVE  SlotInv'
    <3>1. c \in Contacts /\ Root \in Steps /\ key \in {"slot", "own"}
      BY <1>1, GraphAssumption DEF Session, key
    <3> QED BY <2>1, <2>3, <2>6, <3>1, AdmitStep
  <2> QED BY <2>4, <2>5, <2>6
<1>3. CASE TakeManual(p)
  <2>1. run' = run BY <1>3 DEF TakeManual, store
  <2> DEFINE t == [s EXCEPT !.admit = {}]
             step == NextStep(Root, "default")
             key == "own"
  <2>2. PICK c \in s.admit, r \in Runs :
           sess' = [sess EXCEPT ![p] =
              [Insert(t, r, c, step, key) EXCEPT !.logged = @ \cup {<<r, Root, "ok">>}]]
    BY <1>3 DEF TakeManual
  <2>3. t \in Session /\ t.view = s.view /\ t.dirty = s.dirty BY <1>1 DEF Session
  <2>4. c \in Contacts /\ step \in Steps \cup {None}
    BY <1>1, <2>2, NextStepType, GraphAssumption DEF Session
  <2>5. key \in {"slot", "own"} /\ key # "slot" OBVIOUS
  <2> HIDE DEF t, step, key
  <2> QED BY <2>1, <2>2, <2>3, <2>4, <2>5, AdmitStep
<1> QED BY <1>2, <1>3

LEMMA WorkKeepsSlots ==
    ASSUME TypeOK, SlotInv, NEW p \in Procs, Work(p) PROVE SlotInv'
<1> DEFINE s == sess[p]
<1>1. Open(p) /\ s \in Session BY DEF TypeOK, Open, Work
<1>2. CASE Advance(p) BY <1>1, <1>2, AdvanceKeepsSlots
<1>3. CASE TakeContact(p) \/ TakeManual(p) BY <1>1, <1>3, AdmissionKeepsSlots
<1>4. CASE TakeWait(p)
  <2> DEFINE branch == IF s.phase = "timeouts" THEN "timeout" ELSE "matched"
             t(w) == [s EXCEPT !.waits = @ \ {w}]
  <2>1. PICK w \in s.waits : \/ sess' = [sess EXCEPT ![p] = t(w)]
                            \/ sess' = [sess EXCEPT ![p] = ResumeWait(t(w), w, branch)]
    BY <1>4 DEF TakeWait
  <2>2. w \in WaitIds /\ s.waits \ {w} \subseteq WaitIds BY <1>1, <2>1 DEF Session
  <2>3. t(w) \in Session /\ t(w).view = s.view /\ t(w).dirty = s.dirty
    BY <1>1, <2>2 DEF Session
  <2>4. Tame(s, t(w)) BY <2>3, TameStays
  <2>5. Tame(t(w), ResumeWait(t(w), w, branch)) BY <2>2, <2>3, TameResumeWait
  <2>6. Tame(s, ResumeWait(t(w), w, branch)) BY <2>4, <2>5, TameTransitive
  <2>7. run' = run BY <1>4 DEF TakeWait, store
  <2> QED BY <1>1, <2>1, <2>4, <2>6, <2>7, TameStep
<1>5. CASE TakeRule(p)
  <2> DEFINE t(r) == [s EXCEPT !.runs = @ \ {r}]
  <2>1. PICK r \in s.runs : sess' = [sess EXCEPT ![p] = CancelRun(t(r), r)]
    BY <1>5 DEF TakeRule
  <2>2. r \in Runs /\ s.runs \ {r} \subseteq Runs BY <1>1, <2>1 DEF Session
  <2>3. t(r) \in Session /\ t(r).view = s.view /\ t(r).dirty = s.dirty
    BY <1>1, <2>2 DEF Session
  <2>4. Tame(s, CancelRun(t(r), r)) BY <2>2, <2>3, TameStays, TameCancelRun, TameTransitive
  <2>5. run' = run BY <1>5 DEF TakeRule, store
  <2> QED BY <1>1, <2>1, <2>4, <2>5, TameStep
<1>6. CASE TakeRun(p) \/ TurnTick(p) \/ TurnCron(p) \/ TurnEvent(p)
  <2>1. PICK t : /\ sess' = [sess EXCEPT ![p] = t]
                 /\ t.view = s.view /\ t.dirty = s.dirty
    <3>1. CASE TakeRun(p)
      <4>1. PICK r \in s.runs : sess' = [sess EXCEPT ![p].runs = @ \ {r}, ![p].cur = r,
                                                    ![p].fuel = MaxSteps]
        BY <3>1 DEF TakeRun
      <4> DEFINE u == [s EXCEPT !.runs = @ \ {r}, !.cur = r, !.fuel = MaxSteps]
      <4>2. sess' = [sess EXCEPT ![p] = u] BY <1>1, <4>1 DEF TypeOK, Session
      <4>3. u.view = s.view /\ u.dirty = s.dirty BY <1>1 DEF Session
      <4> QED BY <4>2, <4>3
    <3>2. CASE TurnTick(p) BY <1>1, <3>2 DEF TurnTick, TypeOK, Session
    <3>3. CASE TurnCron(p)
      <4>1. PICK admit \in {s.admit, {}} :
                sess' = [sess EXCEPT ![p].phase = "cron", ![p].admit = admit]
        BY <1>1, <3>3 DEF TurnCron, TypeOK, Session
      <4> DEFINE u == [s EXCEPT !.phase = "cron", !.admit = admit]
      <4>2. sess' = [sess EXCEPT ![p] = u] BY <1>1, <4>1 DEF TypeOK, Session
      <4>3. u.view = s.view /\ u.dirty = s.dirty BY <1>1 DEF Session
      <4> QED BY <4>2, <4>3
    <3>4. CASE TurnEvent(p) BY <1>1, <3>4 DEF TurnEvent, TypeOK, Session
    <3> QED BY <1>6, <3>1, <3>2, <3>3, <3>4
  <2>2. run' = run BY <1>6 DEF TakeRun, TurnTick, TurnCron, TurnEvent, store
  <2> QED BY <1>1, <2>1, <2>2, TameStays, TameStep
<1>7. CASE CancelCommits(p)
  <2>1. PICK r \in s.runs : Publish(p, CancelRun(s, r)) BY <1>7 DEF CancelCommits
  <2>2. Tame(s, CancelRun(s, r)) BY <1>1, <2>1, TameCancelRun DEF Session
  <2> QED BY <1>1, <2>1, <2>2, PublishStep
<1>8. CASE Commits(p)
  <2>1. Publish(p, s) /\ Tame(s, s) BY <1>8, TameStays DEF Commits
  <2> QED BY <1>1, <2>1, PublishStep
<1> QED BY <1>2, <1>3, <1>4, <1>5, <1>6, <1>7, <1>8 DEF Work

LEMMA BeginKeepsSlots ==
    ASSUME TypeOK, SlotInv, NEW p \in Procs,
           \/ BeginTick(p) \/ \E c \in Contacts : BeginManual(p, c)
           \/ \E r \in Runs : BeginCancel(p, r)
           \/ \E e \in Events, c \in Contacts, pass \in BOOLEAN : BeginEvent(p, e, c, pass)
    PROVE  SlotInv'
<1>1. ASSUME NEW phase, NEW runs, NEW waits, NEW admit, run' = run,
             Begin(p, NewSession(phase, runs, waits, admit))
      PROVE  SlotInv'
  <2>1. \A r \in Runs : NewSession(phase, runs, waits, admit).dirty[r] = {}
    BY DEF NewSession
  <2> QED BY <1>1, <2>1, FreshStep DEF Begin
<1>2. CASE BeginTick(p) BY <1>1, <1>2 DEF BeginTick, store
<1>3. ASSUME NEW c \in Contacts, BeginManual(p, c) PROVE SlotInv'
  BY <1>1, <1>3 DEF BeginManual, store
<1>4. ASSUME NEW r \in Runs, BeginCancel(p, r) PROVE SlotInv'
  BY <1>1, <1>4 DEF BeginCancel, store
<1>5. ASSUME NEW e \in Events, NEW c \in Contacts, NEW pass \in BOOLEAN,
             BeginEvent(p, e, c, pass)
      PROVE  SlotInv'
  BY <1>1, <1>5 DEF BeginEvent, store
<1> QED BY <1>2, <1>3, <1>4, <1>5

LEMMA SlotInit == Init => SlotInv
BY DEF Init, NoRow, SlotInv, SlotUnique, HoldsSlot, Open,
       ClaimsAreInserts, ClaimsAreAlone, ClaimsExclude

LEMMA SlotNext == TypeOK /\ SlotInv /\ [Next]_vars => SlotInv'
<1> SUFFICES ASSUME TypeOK, SlotInv, [Next]_vars PROVE SlotInv' OBVIOUS
<1>1. CASE run' = run /\ sess' = sess
  BY <1>1 DEF SlotInv, SlotUnique, HoldsSlot, Open, Claims, Sees,
              ClaimsAreInserts, ClaimsAreAlone, ClaimsExclude
<1>2. CASE UNCHANGED vars BY <1>1, <1>2 DEF vars
<1>3. ASSUME NEW on \in BOOLEAN, SetActive(on) PROVE SlotInv'
  BY <1>1, <1>3 DEF SetActive, store
<1>4. CASE Clock BY <1>4, ClockStep
<1>5. ASSUME NEW p \in Procs, Work(p) PROVE SlotInv' BY <1>5, WorkKeepsSlots
<1>6. ASSUME NEW p \in Procs, Crash(p) PROVE SlotInv'
  BY <1>6, FreshStep DEF Crash, store
<1>7. ASSUME NEW p \in Procs,
             \/ BeginTick(p) \/ \E c \in Contacts : BeginManual(p, c)
             \/ \E r \in Runs : BeginCancel(p, r)
             \/ \E e \in Events, c \in Contacts, pass \in BOOLEAN : BeginEvent(p, e, c, pass)
      PROVE SlotInv'
  BY <1>7, BeginKeepsSlots
<1> QED BY <1>2, <1>3, <1>4, <1>5, <1>6, <1>7 DEF Next

\* However the jobs and requests overlap, fail and commit, no transaction ever
\* holds a claim on a slot that another run holds or another transaction claims.
THEOREM SlotGuarded == Spec => []SlotInv
<1>1. TypeOK /\ SlotInv /\ [Next]_vars => (TypeOK /\ SlotInv)' BY NextType, SlotNext
<1> QED BY <1>1, InitType, SlotInit, PTL DEF Spec

\* The reentry guard of the engine: without allow_reentry a contact is never in
\* two runs of the workflow that hold its slot.
THEOREM OneRunPerSlot == Spec => []SlotUnique
<1>1. SlotInv => SlotUnique BY DEF SlotInv
<1> QED BY <1>1, SlotGuarded, PTL

-----------------------------------------------------------------------------
(***************************************************************************)
(* What a run leaves behind, proved: a run that has ended holds no slot    *)
(* and listens to no event, and what it sent is in its history.  A COMMIT  *)
(* publishes columns that were flushed long before, so the proof says of   *)
(* every open transaction what it may have flushed (EndInv): the engine    *)
(* only ever does Lawful things to one run at a time, whose row it locks.  *)
(***************************************************************************)

\* A transaction s turned into t by the treatment of run r.
Lawful(s, t, r) ==
    /\ \A q \in Runs \ {r} : /\ t.view[q] = s.view[q] /\ t.dirty[q] = s.dirty[q]
                             /\ q \in s.purged => q \in t.purged
    /\ \A w \in t.added : w[1] # r => w \in s.added
    /\ s.logged \subseteq t.logged
    /\ Fits(s, r) => Fits(t, r)

LEMMA LawfulStays ==
    ASSUME NEW s, NEW t, NEW r, t.view = s.view, t.dirty = s.dirty,
           t.purged = s.purged, t.added = s.added, s.logged \subseteq t.logged
    PROVE  Lawful(s, t, r)
BY DEF Lawful, Fits

LEMMA LawfulTransitive ==
    ASSUME NEW s, NEW t, NEW u, NEW r, Lawful(s, t, r), Lawful(t, u, r)
    PROVE  Lawful(s, u, r)
BY DEF Lawful

\* What a write does to the transaction.
LEMMA WriteEffect ==
    ASSUME NEW s \in Session, NEW r \in Runs, NEW row \in Row
    PROVE  LET t == Write(s, r, row) IN
           /\ t.view[r] = row
           /\ t.dirty[r] = s.dirty[r] \cup {c \in Cols : row[c] # s.view[r][c]}
           /\ \A q \in Runs \ {r} : t.view[q] = s.view[q] /\ t.dirty[q] = s.dirty[q]
           /\ t.added = s.added /\ t.purged = s.purged /\ t.logged = s.logged
BY DEF Write, Session

\* A live run that stays one.
LEMMA LawfulWrite ==
    ASSUME NEW s \in Session, NEW r \in Runs, NEW row \in Row,
           s.view[r].state \notin Terminal, row.key = s.view[r].key,
           row.state \in Live \cup {s.view[r].state}
    PROVE  Lawful(s, Write(s, r, row), r)
<1> DEFINE t == Write(s, r, row)
           d == {c \in Cols : row[c] # s.view[r][c]}
<1>1. /\ t.view[r] = row /\ t.dirty[r] = s.dirty[r] \cup d
      /\ \A q \in Runs \ {r} : t.view[q] = s.view[q] /\ t.dirty[q] = s.dirty[q]
      /\ t.added = s.added /\ t.purged = s.purged /\ t.logged = s.logged
  BY WriteEffect
<1>2. /\ "state" \in d <=> row.state # s.view[r].state
      /\ "key" \notin d
  BY DEF Cols
<1>3. row.state \notin Terminal BY DEF Live, Terminal
<1>4. row.state # s.view[r].state => row.state # "none" BY DEF Live
<1> HIDE DEF t, d
<1>5. Fits(s, r) => Fits(t, r) BY <1>1, <1>2, <1>3, <1>4 DEF Fits
<1>6. Lawful(s, t, r) BY <1>1, <1>5 DEF Lawful
<1> QED BY <1>6 DEF t

LEMMA LawfulFinalize ==
    ASSUME NEW s \in Session, NEW r \in Runs, NEW state \in Terminal,
           s.view[r].state \notin Terminal
    PROVE  Lawful(s, Finalize(s, r, state), r)
<1> DEFINE row == [s.view[r] EXCEPT !.state = state, !.wake = "never",
                                    !.key = "archived"]
           t == Write(s, r, row)
           d == {c \in Cols : row[c] # s.view[r][c]}
           u == Finalize(s, r, state)
<1>1. s.view[r] \in Row BY DEF Session
<1>2. row \in Row /\ row.state = state /\ row.key = "archived" BY <1>1 DEF Row
<1>3. t \in Session BY <1>2, WriteType
<1>4. /\ t.view[r] = row /\ t.dirty[r] = s.dirty[r] \cup d
      /\ \A q \in Runs \ {r} : t.view[q] = s.view[q] /\ t.dirty[q] = s.dirty[q]
      /\ t.added = s.added /\ t.purged = s.purged /\ t.logged = s.logged
  <2> HIDE DEF row
  <2> QED BY <1>2, WriteEffect
<1>5. "state" \in d BY <1>2 DEF Cols
<1>6. /\ u.view = t.view /\ u.dirty = t.dirty /\ u.logged = t.logged
      /\ u.purged = t.purged \cup {r} /\ u.added = {w \in t.added : w[1] # r}
  <2>1. u = Bump([t EXCEPT !.purged = @ \cup {r}, !.added = {w \in @ : w[1] # r}], state)
    BY DEF Finalize
  <2> HIDE DEF t, u
  <2> QED BY <1>3, <2>1 DEF Bump, Session
<1>7. state # "none" BY DEF Terminal
<1> HIDE DEF row, t, d, u
<1>8. Fits(u, r) BY <1>2, <1>4, <1>5, <1>6, <1>7 DEF Fits
<1>9. Lawful(s, u, r) BY <1>4, <1>6, <1>8 DEF Lawful
<1> QED BY <1>9 DEF u

LEMMA LawfulCancelRun ==
    ASSUME NEW s \in Session, NEW r \in Runs PROVE Lawful(s, CancelRun(s, r), r)
<1> DEFINE row == [s.view[r] EXCEPT !.state = "cancelling"]
<1>1. s.view[r] \in Row BY DEF Session
<1>2. row \in Row /\ row.state \in Live /\ row.key = s.view[r].key
  BY <1>1 DEF Row, Live
<1>3. CASE s.view[r].state \in Terminal BY <1>3, LawfulStays DEF CancelRun
<1>4. CASE s.view[r].state = "running"
  <2>1. s.view[r].state \notin Terminal BY <1>4 DEF Terminal
  <2>2. Lawful(s, Write(s, r, row), r) BY <1>2, <2>1, LawfulWrite
  <2> QED BY <1>4, <2>1, <2>2 DEF CancelRun
<1>5. CASE s.view[r].state \notin Terminal \cup {"running"}
  BY <1>5, LawfulFinalize DEF CancelRun, Terminal
<1> QED BY <1>3, <1>4, <1>5

LEMMA LawfulResumeWait ==
    ASSUME NEW s \in Session, NEW w \in WaitIds, NEW branch
    PROVE  Lawful(s, ResumeWait(s, w, branch), w[1])
<1> DEFINE r == w[1]
           t == [s EXCEPT !.gone = @ \cup {w}, !.added = @ \ {w}]
           row == [s.view[r] EXCEPT !.step = NextStep(w[2], branch),
                                    !.state = "running", !.wake = "due"]
           u == Write(t, r, row)
           v == [u EXCEPT !.cur = r, !.fuel = MaxSteps]
<1>1. r \in Runs /\ w[2] \in Steps BY DEF WaitIds
<1>2. s.view[r] \in Row BY <1>1 DEF Session
<1>3. row \in Row /\ row.state \in Live /\ row.key = s.view[r].key
  BY <1>1, <1>2, NextStepType DEF Row, Live
<1>4. /\ t \in Session /\ t.view = s.view /\ t.dirty = s.dirty /\ t.purged = s.purged
      /\ t.added = s.added \ {w} /\ t.logged = s.logged
  <2>1. s.gone \cup {w} \subseteq WaitIds /\ s.added \ {w} \subseteq WaitIds
    BY DEF Session
  <2> QED BY <2>1 DEF Session
<1> HIDE DEF t, row
<1>5. Lawful(s, t, r) BY <1>4 DEF Lawful, Fits
<1>6. CASE s.view[r].state # "waiting_for_event"
  BY <1>5, <1>6 DEF ResumeWait, t
<1>7. CASE s.view[r].state = "waiting_for_event"
  <2>1. u \in Session BY <1>1, <1>3, <1>4, WriteType
  <2>2. t.view[r].state \notin Terminal BY <1>4, <1>7 DEF Terminal
  <2>3. Lawful(t, u, r) BY <1>1, <1>3, <1>4, <2>2, LawfulWrite
  <2>4. ResumeWait(s, w, branch) = v BY <1>7 DEF ResumeWait, t, row
  <2> HIDE DEF u
  <2>5. Lawful(u, v, r)
    <3>1. /\ v.view = u.view /\ v.dirty = u.dirty /\ v.purged = u.purged
          /\ v.added = u.added /\ v.logged = u.logged
      BY <2>1 DEF Session
    <3> QED BY <3>1, LawfulStays
  <2> HIDE DEF v
  <2>6. Lawful(s, v, r) BY <1>5, <2>3, <2>5, LawfulTransitive
  <2> QED BY <2>4, <2>6
<1> QED BY <1>6, <1>7

LEMMA LawfulLog ==
    ASSUME NEW s \in Session, NEW r, NEW x \in Runs, NEW status
    PROVE  /\ Lawful(s, Log(s, x, status), r)
           /\ Log(s, x, status).view = s.view
           /\ <<x, s.view[x].step, status>> \in Log(s, x, status).logged
<1> DEFINE t == Log(s, x, status)
<1>1. /\ t.view = s.view /\ t.dirty = s.dirty /\ t.purged = s.purged /\ t.added = s.added
      /\ t.logged = s.logged \cup {<<x, s.view[x].step, status>>}
  BY DEF Log, Session
<1> HIDE DEF t
<1>2. Lawful(s, t, r) BY <1>1, LawfulStays
<1> QED BY <1>1, <1>2 DEF t

LEMMA LawfulReturn ==
    ASSUME NEW s \in Session, NEW r
    PROVE  Lawful(s, Return(s), r) /\ Lawful(s, Further(s), r)
<1>1. /\ Return(s).view = s.view /\ Return(s).dirty = s.dirty
      /\ Return(s).purged = s.purged /\ Return(s).added = s.added
      /\ Return(s).logged = s.logged
  BY DEF Return, Session
<1>2. /\ Further(s).view = s.view /\ Further(s).dirty = s.dirty
      /\ Further(s).purged = s.purged /\ Further(s).added = s.added
      /\ Further(s).logged = s.logged
  BY DEF Further, Session
<1> QED BY <1>1, <1>2, LawfulStays

LEMMA LawfulFollow ==
    ASSUME NEW s \in Session, NEW r \in Runs, s.view[r].step \in Steps,
           s.view[r].state \notin Terminal, NEW label
    PROVE  Lawful(s, Follow(s, r, label), r)
<1> DEFINE next == NextStep(s.view[r].step, label)
           row == [s.view[r] EXCEPT !.step = next]
           t == Write(s, r, row)
           f == Finalize(t, r, "completed")
<1>1. s.view[r] \in Row BY DEF Session
<1>2. next \in Steps \cup {None} BY NextStepType
<1>3. row \in Row /\ row.key = s.view[r].key /\ row.state = s.view[r].state
  BY <1>1, <1>2 DEF Row
<1>4. t \in Session /\ t.view[r] = row /\ Lawful(s, t, r)
  BY <1>3, WriteType, WriteEffect, LawfulWrite
<1>5. Follow(s, r, label) \in {Return(f), Further(t)} BY DEF Follow
<1> HIDE DEF t, row
<1>6. f \in Session /\ Lawful(t, f, r)
  BY <1>3, <1>4, FinalizeType, LawfulFinalize DEF Terminal
<1> HIDE DEF f
<1>7. Lawful(t, Further(t), r) /\ Lawful(f, Return(f), r) BY <1>4, <1>6, LawfulReturn
<1> QED BY <1>4, <1>5, <1>6, <1>7, LawfulTransitive

LEMMA LawfulApplied ==
    ASSUME NEW p \in Procs, NEW s \in Session, NEW r \in Runs,
           s.view[r].step \in Steps,
           s.view[r].state \notin Terminal \cup {"waiting_for_event"},
           NEW a \in AnswersOf(s.view[r].step) \ {"failed"},
           NEW t \in Applied(p, s, r, a)
    PROVE  Lawful(s, t, r)
<1> DEFINE v == s.view[r]
           ok == Log(s, r, "ok")
           heard == NextStep(v.step, "matched")
           listening == [v EXCEPT !.state = "waiting_for_event", !.wake = "later",
                           !.step = IF heard # None THEN heard ELSE v.step]
           sleeping(wake) == [v EXCEPT !.state = "waiting", !.wake = wake,
                                       !.step = NextStep(v.step, "default")]
<1>1. v \in Row BY DEF Session
<1>2. \A status \in {"ok", "skipped", "deferred", "failed"} :
         /\ Log(s, r, status) \in Session
         /\ Log(s, r, status).view = s.view
         /\ Lawful(s, Log(s, r, status), r)
  BY LogType, LawfulLog
<1>3. a \in AllAnswers \ {"failed"}
  <2>1. StepType[v.step] \in DOMAIN Answers BY GraphAssumption
  <2> QED BY <2>1 DEF AnswersOf, Answers, AllAnswers, Labels, EmailAnswers, TouchAnswers,
                     TestAnswers, CaseAnswers, NapAnswers, DateAnswers, ListenAnswers
\* A write of a live row after a log entry, and the return after it.
<1>4. ASSUME NEW status \in {"ok", "skipped", "deferred", "failed"}, NEW row \in Row,
             row.key = v.key, row.state \in Live
      PROVE  /\ Write(Log(s, r, status), r, row) \in Session
             /\ Write(Log(s, r, status), r, row).view[r] = row
             /\ row.state # v.state => "state" \in Write(Log(s, r, status), r, row).dirty[r]
             /\ Lawful(s, Write(Log(s, r, status), r, row), r)
             /\ Lawful(s, Return(Write(Log(s, r, status), r, row)), r)
  <2> DEFINE l == Log(s, r, status)
             u == Write(l, r, row)
  <2>1. l \in Session /\ l.view = s.view /\ Lawful(s, l, r) BY <1>2
  <2> HIDE DEF l
  <2>2. /\ u \in Session /\ u.view[r] = row
        /\ u.dirty[r] = l.dirty[r] \cup {c \in Cols : row[c] # l.view[r][c]}
    BY <1>4, <2>1, WriteType, WriteEffect
  <2>3. Lawful(l, u, r) BY <1>4, <2>1, LawfulWrite
  <2>4. row.state # v.state => "state" \in u.dirty[r] BY <2>1, <2>2 DEF Cols
  <2> HIDE DEF u
  <2>5. Lawful(u, Return(u), r) BY <2>2, LawfulReturn
  <2>6. u \in Session /\ Lawful(s, u, r) /\ Lawful(s, Return(u), r)
    BY <2>1, <2>2, <2>3, <2>5, LawfulTransitive
  <2> QED BY <2>2, <2>4, <2>6 DEF u, l
<1>5. ASSUME NEW status \in {"ok", "skipped", "deferred", "failed"}, NEW state \in Terminal
      PROVE  Lawful(s, Return(Finalize(Log(s, r, status), r, state)), r)
  <2> DEFINE l == Log(s, r, status)
             u == Finalize(l, r, state)
  <2>1. l \in Session /\ l.view = s.view /\ Lawful(s, l, r) BY <1>2
  <2> HIDE DEF l
  <2>2. u \in Session /\ Lawful(l, u, r) BY <2>1, FinalizeType, LawfulFinalize
  <2> HIDE DEF u
  <2>3. Lawful(u, Return(u), r) BY <2>2, LawfulReturn
  <2>4. Lawful(s, Return(u), r) BY <2>1, <2>2, <2>3, LawfulTransitive
  <2> QED BY <2>4 DEF u, l
<1>6. ASSUME NEW status \in {"ok", "skipped", "deferred", "failed"}, NEW label
      PROVE  Lawful(s, Follow(Log(s, r, status), r, label), r)
  <2> DEFINE l == Log(s, r, status)
  <2>1. l \in Session /\ l.view = s.view /\ Lawful(s, l, r) BY <1>2
  <2> HIDE DEF l
  <2>2. Lawful(l, Follow(l, r, label), r) BY <2>1, LawfulFollow
  <2>3. Lawful(s, Follow(l, r, label), r) BY <2>1, <2>2, LawfulTransitive
  <2> QED BY <2>3 DEF l
<1>7. CASE a \in {"raise", "exit"}
  <2>1. \/ t = Return(Finalize(Log(s, r, "failed"), r, "failed"))
        \/ t = Return(Finalize(ok, r, "completed"))
    BY <1>7 DEF Applied, Labels
  <2> QED BY <2>1, <1>5 DEF Terminal
<1>8. CASE a = "deferred"
  <2> DEFINE row == [v EXCEPT !.state = "waiting", !.wake = "later"]
  <2>1. row \in Row /\ row.key = v.key /\ row.state \in Live BY <1>1 DEF Row, Live
  <2>2. t = Return(Write(Log(s, r, "deferred"), r, row)) BY <1>8 DEF Applied, Labels
  <2> HIDE DEF row
  <2> QED BY <2>1, <2>2, <1>4
<1>9. CASE a = "sleep"
  <2>1. PICK wake \in {"due", "later"} : t = Return(Write(ok, r, sleeping(wake)))
    BY <1>9 DEF Applied, Labels
  <2>2. /\ sleeping(wake) \in Row /\ sleeping(wake).key = v.key
        /\ sleeping(wake).state \in Live
    BY <1>1, NextStepType DEF Row, Live
  <2> HIDE DEF sleeping
  <2> QED BY <2>1, <2>2, <1>4
\* The one step that stores an event wait makes the run listen: it did not before.
<1>10. CASE a = "listen"
  <2> DEFINE u == Write(ok, r, listening)
             w == <<r, v.step, p>>
             x == [u EXCEPT !.added = @ \cup {w}]
  <2>1. /\ listening \in Row /\ listening.key = v.key
        /\ listening.state = "waiting_for_event" /\ listening.state \in Live
    <3>1. (IF heard # None THEN heard ELSE v.step) \in Steps \cup {None}
      BY NextStepType
    <3> QED BY <1>1, <3>1 DEF Row, Live
  <2>2. t = Return(x) BY <1>10 DEF Applied, Labels
  <2>3. w \in WaitIds /\ w[1] = r BY DEF WaitIds
  <2> HIDE DEF listening, w
  <2>4. u \in Session /\ Lawful(s, u, r) /\ u.view[r] = listening /\ "state" \in u.dirty[r]
    BY <2>1, <1>4
  <2> HIDE DEF u
  <2>5. /\ x \in Session /\ x.view = u.view /\ x.dirty = u.dirty /\ x.purged = u.purged
        /\ x.added = u.added \cup {w} /\ x.logged = u.logged
    <3>1. u.added \cup {w} \subseteq WaitIds BY <2>3, <2>4 DEF Session
    <3> QED BY <2>4, <3>1 DEF Session
  <2> HIDE DEF x
  <2>6. Lawful(u, x, r) BY <2>1, <2>3, <2>4, <2>5 DEF Lawful, Fits, Terminal
  <2>7. Lawful(x, Return(x), r) BY <2>5, LawfulReturn
  <2> QED BY <2>2, <2>4, <2>6, <2>7, LawfulTransitive
<1>11. CASE a = "skipped"
  <2>1. t = Follow(Log(s, r, "skipped"), r, "default") BY <1>11 DEF Applied, Labels
  <2> QED BY <2>1, <1>6
<1>12. CASE a \in Labels
  <2>1. t = Follow(ok, r, a) BY <1>12 DEF Applied, Labels
  <2> QED BY <2>1, <1>6
<1> QED BY <1>3, <1>7, <1>8, <1>9, <1>10, <1>11, <1>12 DEF AllAnswers

-----------------------------------------------------------------------------
(* How the steps of a process bear on EndInv                               *)

\* A transaction changed lawfully, on a run nobody else has locked, is still one
\* that EndInv allows p.
LEMMA Carried ==
    ASSUME TypeOK, EndInv, NEW p \in Procs, Open(p), NEW t, NEW r,
           Tame(sess[p], t), Lawful(sess[p], t, r),
           FreeRun(p, r) \/ t.dirty = sess[p].dirty,
           NEW x \in Runs
    PROVE  /\ Fits(t, x) /\ KeyAgrees(t, x)
           /\ t.dirty[x] = {} \/ \A q \in Procs \ {p} : Open(q) => sess[q].dirty[x] = {}
<1> DEFINE s == sess[p]
<1>1. Fits(s, x) /\ KeyAgrees(s, x) BY DEF EndInv, SessionsFit
<1>2. Fits(t, x)
  <2>1. CASE x = r BY <1>1, <2>1 DEF Lawful
  <2>2. CASE x # r BY <1>1, <2>2 DEF Lawful, Fits
  <2> QED BY <2>1, <2>2
<1>3. KeyAgrees(t, x) BY <1>1 DEF KeyAgrees, Tame
<1>4. s.dirty[x] = {} \/ \A q \in Procs \ {p} : Open(q) => sess[q].dirty[x] = {}
  BY DEF EndInv, LockOfOneRun
<1>5. t.dirty[x] = {} \/ \A q \in Procs \ {p} : Open(q) => sess[q].dirty[x] = {}
  BY <1>4 DEF Lawful, FreeRun
<1> QED BY <1>2, <1>3, <1>5

\* p goes on with a transaction that EndInv allows it.
LEMMA EndGoesOn ==
    ASSUME TypeOK, EndInv, NEW p \in Procs, NEW t,
           sess' = [sess EXCEPT ![p] = t], run' = run, wait' = wait,
           t = None \/ \A x \in Runs :
              /\ Fits(t, x) /\ KeyAgrees(t, x)
              /\ t.dirty[x] = {} \/ \A q \in Procs \ {p} : Open(q) => sess[q].dirty[x] = {}
    PROVE  EndInv'
<1>1. sess'[p] = t /\ \A q \in Procs \ {p} : sess'[q] = sess[q] BY DEF TypeOK
<1>2. \A q \in Procs \ {p} : Open(q)' <=> Open(q) BY <1>1 DEF Open
<1>3. EndedRunsLetGo' /\ UnbornAreBlank' BY DEF EndInv, EndedRunsLetGo, UnbornAreBlank
<1>4. LockOfOneRun' BY <1>1, <1>2 DEF EndInv, LockOfOneRun, Open
<1>5. SessionsFit'
  <2> SUFFICES ASSUME NEW q \in Procs, NEW x \in Runs, Open(q)'
               PROVE  (Fits(sess[q], x) /\ KeyAgrees(sess[q], x))'
    BY DEF SessionsFit
  <2>1. CASE q = p
    <3>1. Fits(t, x) /\ KeyAgrees(t, x) BY <1>1, <2>1 DEF Open
    <3> QED BY <1>1, <2>1, <3>1 DEF Fits, KeyAgrees
  <2>2. CASE q # p
    <3>1. Fits(sess[q], x) /\ KeyAgrees(sess[q], x)
      BY <1>2, <2>2 DEF EndInv, SessionsFit
    <3> QED BY <1>1, <2>2, <3>1 DEF Fits, KeyAgrees
  <2> QED BY <2>1, <2>2
<1> QED BY <1>3, <1>4, <1>5 DEF EndInv

LEMMA EndStep ==
    ASSUME TypeOK, EndInv, NEW p \in Procs, Open(p), NEW t, NEW r,
           Tame(sess[p], t), Lawful(sess[p], t, r),
           FreeRun(p, r) \/ t.dirty = sess[p].dirty,
           sess' = [sess EXCEPT ![p] = t], UNCHANGED store
    PROVE  EndInv'
BY Carried, EndGoesOn DEF store

\* A new transaction sees what is committed; a lost one leaves nothing.
LEMMA EndFresh ==
    ASSUME TypeOK, EndInv, NEW p \in Procs, NEW t,
           t = None \/ \E phase, runs, waits, admit :
                          t = NewSession(phase, runs, waits, admit),
           sess' = [sess EXCEPT ![p] = t], UNCHANGED store
    PROVE  EndInv'
<1>1. ASSUME NEW phase, NEW runs, NEW waits, NEW admit,
             t = NewSession(phase, runs, waits, admit), NEW x \in Runs
      PROVE  Fits(t, x) /\ KeyAgrees(t, x) /\ t.dirty[x] = {}
  <2>1. t.view = run /\ t.dirty[x] = {} /\ t.added = {} BY <1>1 DEF NewSession
  <2> QED BY <2>1 DEF Fits, KeyAgrees, EndInv, EndedRunsLetGo
<1> QED BY <1>1, EndGoesOn DEF store

\* COMMIT: what ended before stays ended without key and waits, what p ended has
\* lost them in the same transaction.
LEMMA EndPublish ==
    ASSUME TypeOK, EndInv, NEW p \in Procs, Open(p), NEW t, NEW r,
           Tame(sess[p], t), Lawful(sess[p], t, r),
           FreeRun(p, r) \/ t.dirty = sess[p].dirty, Publish(p, t)
    PROVE  EndInv'
<1>1. sess'[p] = None /\ \A q \in Procs \ {p} : sess'[q] = sess[q]
  BY DEF Publish, TypeOK
<1>2. ASSUME NEW q \in Procs, Open(q)' PROVE q # p /\ Open(q) /\ sess'[q] = sess[q]
  BY <1>1, <1>2 DEF Open
<1>3. \A x \in Runs :
        /\ run'[x].state = IF "state" \in t.dirty[x] THEN t.view[x].state ELSE run[x].state
        /\ run'[x].key = IF "key" \in t.dirty[x] THEN t.view[x].key ELSE run[x].key
  BY DEF Publish
<1>4. wait' = {w \in wait \ t.gone : w[1] \notin t.purged} \cup t.added BY DEF Publish
<1>5. \A x \in Runs :
        /\ Fits(t, x) /\ KeyAgrees(t, x)
        /\ t.dirty[x] = {} \/ \A q \in Procs \ {p} : Open(q) => sess[q].dirty[x] = {}
  BY Carried
<1>6. \A x \in Runs : run[x].key = "archived" => run'[x].key = "archived"
  BY <1>3, <1>5 DEF KeyAgrees
<1>7. EndedRunsLetGo'
  <2> SUFFICES ASSUME NEW x \in Runs, run'[x].state \in Terminal
               PROVE  run'[x].key = "archived" /\ \A w \in wait' : w[1] # x
    BY DEF EndedRunsLetGo
  <2>1. CASE "state" \in t.dirty[x]
    <3>1. /\ t.view[x].key = "archived" /\ x \in t.purged
          /\ \A w \in t.added : w[1] # x
      BY <1>3, <1>5, <2>1 DEF Fits
    <3>2. run'[x].key = "archived" BY <1>3, <1>5, <3>1 DEF KeyAgrees
    <3> QED BY <1>4, <3>1, <3>2
  <2>2. CASE "state" \notin t.dirty[x]
    <3>1. run[x].state \in Terminal BY <1>3, <2>2
    <3>2. run[x].key = "archived" /\ \A w \in wait : w[1] # x
      BY <3>1 DEF EndInv, EndedRunsLetGo
    <3>3. \A w \in t.added : w[1] # x BY <1>5, <2>2 DEF Fits
    <3> QED BY <1>4, <1>6, <3>2, <3>3
  <2> QED BY <2>1, <2>2
<1>8. UnbornAreBlank' BY <1>3, <1>5 DEF EndInv, UnbornAreBlank, Fits
<1>9. LockOfOneRun' BY <1>2 DEF EndInv, LockOfOneRun
<1>10. SessionsFit'
  <2> SUFFICES ASSUME NEW q \in Procs, NEW x \in Runs, Open(q)'
               PROVE  (Fits(sess[q], x) /\ KeyAgrees(sess[q], x))'
    BY DEF SessionsFit
  <2>1. q # p /\ Open(q) /\ sess'[q] = sess[q] BY <1>2
  <2>2. Fits(sess[q], x) /\ KeyAgrees(sess[q], x) BY <2>1 DEF EndInv, SessionsFit
  <2>3. CASE "key" \in sess[q].dirty[x]
    <3>1. run'[x].key = run[x].key BY <1>3, <1>5, <2>1, <2>3
    <3> QED BY <2>1, <2>2, <2>3, <3>1 DEF Fits, KeyAgrees
  <2>4. CASE "key" \notin sess[q].dirty[x] 
    BY <1>6, <2>1, <2>2, <2>4 DEF Fits, KeyAgrees
  <2> QED BY <2>3, <2>4
<1> QED BY <1>7, <1>8, <1>9, <1>10 DEF EndInv

\* The INSERT of a run, under an id no row and no open transaction uses.
LEMMA EndInsert ==
    ASSUME TypeOK, EndInv, NEW p \in Procs, Open(p), NEW r \in Runs, Unused(r),
           NEW u, NEW row, row.state = "running", row.key \in {"slot", "own"},
           u.view = [sess[p].view EXCEPT ![r] = row],
           u.dirty = [sess[p].dirty EXCEPT ![r] = Cols],
           u.added = sess[p].added, u.purged = sess[p].purged,
           sess' = [sess EXCEPT ![p] = u], UNCHANGED store
    PROVE  EndInv'
<1> DEFINE s == sess[p]
<1>1. s \in Session BY DEF TypeOK, Open
<1>2. /\ u.view[r] = row /\ u.dirty[r] = Cols
      /\ \A x \in Runs \ {r} : u.view[x] = s.view[x] /\ u.dirty[x] = s.dirty[x]
  BY <1>1 DEF Session
<1>3. ASSUME NEW x \in Runs
      PROVE  /\ Fits(u, x) /\ KeyAgrees(u, x)
             /\ u.dirty[x] = {} \/ \A q \in Procs \ {p} : Open(q) => sess[q].dirty[x] = {}
  <2>1. CASE x = r
    <3>1. run[r].key # "archived" BY DEF Unused, EndInv, UnbornAreBlank
    <3>2. \A q \in Procs : Open(q) => sess[q].dirty[r] = {} BY DEF Unused
    <3>3. Fits(u, r) BY <1>2 DEF Fits, Terminal, Cols
    <3>4. KeyAgrees(u, r) BY <1>2, <3>1 DEF KeyAgrees, Cols
    <3> QED BY <2>1, <3>2, <3>3, <3>4
  <2>2. CASE x # r
    <3>1. Fits(s, x) /\ KeyAgrees(s, x) BY DEF EndInv, SessionsFit
    <3>2. s.dirty[x] = {} \/ \A q \in Procs \ {p} : Open(q) => sess[q].dirty[x] = {}
      BY DEF EndInv, LockOfOneRun
    <3> QED BY <1>2, <2>2, <3>1, <3>2 DEF Fits, KeyAgrees
  <2> QED BY <2>1, <2>2
<1> QED BY <1>3, EndGoesOn DEF store

\* Time touches neither states nor keys.
LEMMA EndClock == TypeOK /\ EndInv /\ Clock => EndInv'
<1> SUFFICES ASSUME TypeOK, EndInv, Clock PROVE EndInv' OBVIOUS
<1>1. \A row \in Row : Rung(row).state = row.state /\ Rung(row).key = row.key
  BY DEF Rung, Row
<1>2. /\ \A r \in Runs : run'[r].state = run[r].state /\ run'[r].key = run[r].key
      /\ wait' = wait
  BY <1>1 DEF Clock, TypeOK
<1>3. ASSUME NEW q \in Procs, Open(q)'
      PROVE  /\ Open(q) /\ sess'[q].dirty = sess[q].dirty
             /\ sess'[q].added = sess[q].added /\ sess'[q].purged = sess[q].purged
             /\ \A r \in Runs : /\ sess'[q].view[r].state = sess[q].view[r].state
                                /\ sess'[q].view[r].key = sess[q].view[r].key
  <2>1. Open(q) BY <1>3 DEF Clock, Open
  <2>2. sess[q] \in Session BY <2>1 DEF TypeOK, Open
  <2>3. sess'[q] = [sess[q] EXCEPT !.view = [r \in Runs |-> Rung(@[r])]]
    BY <2>1 DEF Clock
  <2>4. /\ sess'[q].dirty = sess[q].dirty
        /\ sess'[q].added = sess[q].added /\ sess'[q].purged = sess[q].purged
    BY <2>2, <2>3 DEF Session
  <2>5. sess'[q].view = [r \in Runs |-> Rung(sess[q].view[r])]
    BY <2>2, <2>3 DEF Session
  <2>6. \A r \in Runs : sess[q].view[r] \in Row BY <2>2 DEF Session
  <2> QED BY <2>1, <2>4, <2>5, <2>6, <1>1
<1>4. EndedRunsLetGo' /\ UnbornAreBlank'
  BY <1>2 DEF EndInv, EndedRunsLetGo, UnbornAreBlank
<1>5. LockOfOneRun' BY <1>3 DEF EndInv, LockOfOneRun
<1>6. SessionsFit' BY <1>2, <1>3 DEF EndInv, SessionsFit, Fits, KeyAgrees
<1> QED BY <1>4, <1>5, <1>6 DEF EndInv

-----------------------------------------------------------------------------
(* The actions, as what they do to the transaction                         *)

\* What the INSERT of r changes from s to u, but for the history.
Inserts(s, u, r) ==
    \E row \in Row :
       /\ row.state = "running" /\ row.key \in {"slot", "own"}
       /\ u.view = [s.view EXCEPT ![r] = row]
       /\ u.dirty = [s.dirty EXCEPT ![r] = Cols]
       /\ u.added = s.added /\ u.purged = s.purged

\* p treats run r in its transaction; a new email is logged in it.
Treats(p, t, r) ==
    /\ t \in Session
    /\ Tame(sess[p], t) /\ Lawful(sess[p], t, r)
    /\ FreeRun(p, r) \/ t.dirty = sess[p].dirty
    /\ \A x \in Runs \X Steps : sent'[x] # sent[x] => <<x[1], x[2], "ok">> \in t.logged
GoesOn(p) ==
    \E t, r : Treats(p, t, r) /\ sess' = [sess EXCEPT ![p] = t] /\ UNCHANGED store
Stores(p) == \E t, r : Treats(p, t, r) /\ Publish(p, t)
Loses(p) ==
    /\ "failed" \in Troubles
    /\ \/ sess' = [sess EXCEPT ![p] = None]
       \/ \E phase, runs, waits, admit :
              sess' = [sess EXCEPT ![p] = NewSession(phase, runs, waits, admit)]
    /\ UNCHANGED <<store, sent>>
Admits(p) ==
    \E u \in Session, r \in Runs :
       /\ Unused(r) /\ Inserts(sess[p], u, r)
       /\ sess[p].logged \subseteq u.logged
       /\ sess' = [sess EXCEPT ![p] = u] /\ UNCHANGED <<store, sent>>

LEMMA StaysTreats ==
    ASSUME TypeOK, NEW p \in Procs, Open(p), NEW t \in Session,
           t.view = sess[p].view, t.dirty = sess[p].dirty, t.purged = sess[p].purged,
           t.added = sess[p].added, sess[p].logged \subseteq t.logged, UNCHANGED sent
    PROVE  Treats(p, t, None)
BY TameStays, LawfulStays DEF Treats

\* An email that the handler of a step sends is one of "ok" in the history.
LEMMA AppliedLogs ==
    ASSUME NEW p \in Procs, NEW s \in Session, NEW r \in Runs,
           s.view[r].step \in Steps, s.view[r].state \notin Terminal,
           NEW t \in Applied(p, s, r, "default")
    PROVE  <<r, s.view[r].step, "ok">> \in t.logged
<1> DEFINE l == Log(s, r, "ok")
<1>1. t = Follow(l, r, "default") BY DEF Applied, Labels
<1>2. l \in Session /\ l.view = s.view /\ <<r, s.view[r].step, "ok">> \in l.logged
  BY LogType, LawfulLog
<1> HIDE DEF l
<1>3. Lawful(l, Follow(l, r, "default"), r) BY <1>2, LawfulFollow
<1> QED BY <1>1, <1>2, <1>3 DEF Lawful

LEMMA AdvanceCases ==
    ASSUME TypeOK, NEW p \in Procs, Open(p), Advance(p) PROVE GoesOn(p) \/ Loses(p)
<1> DEFINE s == sess[p]
           r == s.cur
           step == s.view[r].step
<1>1. s \in Session BY DEF TypeOK, Open
<1>2. s.cur # None => r \in Runs /\ s.view[r] \in Row BY <1>1 DEF Session
<1>3. s.cur # None /\ step # None => step \in Steps BY <1>2 DEF Row
<1>4. Turning(p) => /\ r \in Runs /\ FreeRun(p, r) /\ s.fuel > 0
                    /\ s.view[r].state \notin Terminal \cup {"waiting_for_event"}
  BY <1>2 DEF Turning, Halted
<1>5. CASE AdvanceReturns(p)
  <2>1. /\ Return(s) \in Session /\ Return(s).view = s.view /\ Return(s).dirty = s.dirty
        /\ Return(s).purged = s.purged /\ Return(s).added = s.added
        /\ Return(s).logged = s.logged
    BY <1>1, ReturnType DEF Return, Session
  <2>2. sent' = sent /\ sess' = [sess EXCEPT ![p] = Return(s)] /\ UNCHANGED store
    BY <1>5 DEF AdvanceReturns
  <2>3. Treats(p, Return(s), None) BY <2>1, <2>2, StaysTreats
  <2> QED BY <2>2, <2>3 DEF GoesOn
<1>6. CASE AdvanceCloses(p)
  <2>1. PICK state \in Terminal : sess' = [sess EXCEPT ![p] = Return(Finalize(s, r, state))]
    BY <1>6 DEF AdvanceCloses, Terminal
  <2>2. UNCHANGED <<store, sent>> /\ Turning(p) BY <1>6 DEF AdvanceCloses
  <2> DEFINE f == Finalize(s, r, state)
  <2>3. f \in Session /\ Tame(s, f) /\ Lawful(s, f, r)
    BY <1>1, <1>4, <2>2, FinalizeType, TameFinalize, LawfulFinalize
  <2> HIDE DEF f
  <2>4. /\ Return(f) \in Session /\ Tame(s, Return(f)) /\ Lawful(s, Return(f), r)
    BY <2>3, ReturnType, TameReturn, TameTransitive, LawfulReturn, LawfulTransitive
  <2>5. Treats(p, Return(f), r) BY <1>4, <2>2, <2>4 DEF Treats
  <2> QED BY <2>1, <2>2, <2>5 DEF GoesOn, f
<1>7. CASE AdvancePassesTrigger(p)
  <2> DEFINE l == Log(s, r, "ok")
             f == Follow(l, r, "default")
  <2>1. UNCHANGED <<store, sent>> /\ Turning(p) /\ step \in Steps
    BY <1>3, <1>7 DEF AdvancePassesTrigger, Turning
  <2>2. /\ l \in Session /\ l.view = s.view /\ l.fuel = s.fuel
        /\ Tame(s, l) /\ Lawful(s, l, r)
    <3>1. l \in Session /\ l.view = s.view /\ Tame(s, l) /\ Lawful(s, l, r)
      BY <1>1, <1>4, <2>1, LogType, TameLog, LawfulLog
    <3>2. l.fuel = s.fuel BY <1>1 DEF Log, Session
    <3> QED BY <3>1, <3>2
  <2>3. sess' = [sess EXCEPT ![p] = f] BY <1>7 DEF AdvancePassesTrigger
  <2> HIDE DEF l
  <2>4. f \in Session /\ Tame(l, f) /\ Lawful(l, f, r)
    BY <1>4, <2>1, <2>2, FollowType, TameFollow, LawfulFollow
  <2> HIDE DEF f
  <2>5. Tame(s, f) /\ Lawful(s, f, r)
    BY <2>2, <2>4, TameTransitive, LawfulTransitive
  <2>6. Treats(p, f, r) BY <1>4, <2>1, <2>4, <2>5 DEF Treats
  <2> QED BY <2>1, <2>3, <2>6 DEF GoesOn
<1>8. CASE AdvanceHandles(p)
  <2>1. UNCHANGED store /\ Turning(p) /\ step \in Steps
    BY <1>3, <1>8 DEF AdvanceHandles, Turning
  <2>2. PICK a \in AnswersOf(step) \ {"failed"} :
          /\ \E t \in Applied(p, s, r, a) : sess' = [sess EXCEPT ![p] = t]
          /\ sent' = IF StepType[step] = "send_email" /\ a = "default"
                     THEN [sent EXCEPT ![<<r, step>>] = @ + 1] ELSE sent
    BY <1>8 DEF AdvanceHandles
  <2>3. PICK t \in Applied(p, s, r, a) : sess' = [sess EXCEPT ![p] = t] BY <2>2
  <2>4. t \in Session /\ Tame(s, t) /\ Lawful(s, t, r)
    BY <1>1, <1>4, <2>1, AppliedType, TameApplied, LawfulApplied
  <2>5. ASSUME NEW x \in Runs \X Steps, sent'[x] # sent[x]
        PROVE  <<x[1], x[2], "ok">> \in t.logged
    <3>1. a = "default" /\ x = <<r, step>> BY <2>2, <2>5 DEF TypeOK
    <3>2. <<r, step, "ok">> \in t.logged BY <1>1, <1>4, <2>1, <3>1, AppliedLogs
    <3> QED BY <3>1, <3>2
  <2>6. Treats(p, t, r) BY <1>4, <2>1, <2>4, <2>5 DEF Treats
  <2> QED BY <2>1, <2>3, <2>6 DEF GoesOn
<1>9. CASE AdvanceFails(p)
  <2> DEFINE l == Log(s, r, "failed")
  <2>1. UNCHANGED <<store, sent>> /\ Turning(p) /\ step \in Steps
    BY <1>3, <1>9 DEF AdvanceFails, Turning
  <2>2. "failed" \in Troubles BY <1>9 DEF AdvanceFails, AnswersOf
  <2>3. l \in Session /\ Tame(s, l) /\ Lawful(s, l, r)
    BY <1>1, <1>4, <2>1, LogType, TameLog, LawfulLog
  <2>4. \/ sess' = [sess EXCEPT ![p] = Return(l)]
        \/ sess' = [sess EXCEPT ![p] = NewSession("end", {}, {}, {})]
        \/ sess' = [sess EXCEPT ![p] = None]
    BY <1>9 DEF AdvanceFails
  <2> HIDE DEF l
  <2>5. /\ Return(l) \in Session /\ Tame(s, Return(l)) /\ Lawful(s, Return(l), r)
    BY <2>3, ReturnType, TameReturn, TameTransitive, LawfulReturn, LawfulTransitive
  <2>6. Treats(p, Return(l), r) BY <1>4, <2>1, <2>5 DEF Treats
  <2> QED BY <2>1, <2>2, <2>4, <2>6 DEF GoesOn, Loses
<1> QED BY <1>5, <1>6, <1>7, <1>8, <1>9 DEF Advance

\* What the INSERT does to the transaction.
LEMMA InsertEffect ==
    ASSUME NEW t \in Session, NEW r \in Runs, NEW c \in Contacts,
           NEW step \in Steps \cup {None}, NEW key \in {"slot", "own"}
    PROVE  /\ Insert(t, r, c, step, key) \in Session
           /\ Inserts(t, Insert(t, r, c, step, key), r)
           /\ Insert(t, r, c, step, key).logged = t.logged
<1> DEFINE u == Insert(t, r, c, step, key)
           row == [contact |-> c, state |-> "running", step |-> step,
                   wake |-> "due", key |-> key]
<1>1. u \in Session BY InsertType
<1>2. row \in Row /\ row.state = "running" /\ row.key \in {"slot", "own"}
  BY DEF Row, Live
<1>3. /\ u.view = [t.view EXCEPT ![r] = row] /\ u.dirty = [t.dirty EXCEPT ![r] = Cols]
      /\ u.added = t.added /\ u.purged = t.purged /\ u.logged = t.logged
  BY DEF Insert, Bump, Session
<1>4. Inserts(t, u, r) BY <1>2, <1>3 DEF Inserts
<1> QED BY <1>1, <1>3, <1>4

LEMMA AdmissionCases ==
    ASSUME TypeOK, NEW p \in Procs, Open(p), TakeContact(p) \/ TakeManual(p)
    PROVE  GoesOn(p) \/ Admits(p)
<1> DEFINE s == sess[p]
<1>1. s \in Session BY DEF TypeOK, Open
<1>2. CASE TakeContact(p)
  <2> DEFINE key == IF Reentry THEN "own" ELSE "slot"
             t(c) == [s EXCEPT !.admit = @ \ {c}]
  <2>1. UNCHANGED <<store, sent>> BY <1>2 DEF TakeContact
  <2>2. PICK c \in s.admit :
          \/ sess' = [sess EXCEPT ![p] = t(c)]
          \/ \E r \in Runs : Unused(r) /\ sess' = [sess EXCEPT ![p] =
                                Insert(t(c), r, c, Root, key)]
    BY <1>2 DEF TakeContact
  <2>3. c \in Contacts /\ Root \in Steps \cup {None} /\ key \in {"slot", "own"}
    BY <1>1, GraphAssumption DEF Session
  <2>4. /\ t(c) \in Session /\ t(c).view = s.view /\ t(c).dirty = s.dirty
        /\ t(c).added = s.added /\ t(c).purged = s.purged /\ t(c).logged = s.logged
    <3>1. s.admit \ {c} \subseteq Contacts BY <1>1 DEF Session
    <3> QED BY <1>1, <3>1 DEF Session
  <2> HIDE DEF t, key
  <2>5. CASE sess' = [sess EXCEPT ![p] = t(c)]
    <3>1. Treats(p, t(c), None) BY <2>1, <2>4, StaysTreats
    <3> QED BY <2>1, <2>5, <3>1 DEF GoesOn
  <2>6. ASSUME NEW r \in Runs, Unused(r),
               sess' = [sess EXCEPT ![p] = Insert(t(c), r, c, Root, key)]
        PROVE  Admits(p)
    <3> DEFINE u == Insert(t(c), r, c, Root, key)
    <3>1. u \in Session /\ Inserts(t(c), u, r) /\ u.logged = t(c).logged
      BY <2>3, <2>4, InsertEffect
    <3>2. sess' = [sess EXCEPT ![p] = u] BY <2>6
    <3> HIDE DEF u
    <3>3. Inserts(s, u, r) BY <2>4, <3>1 DEF Inserts
    <3> QED BY <2>1, <2>4, <2>6, <3>1, <3>2, <3>3 DEF Admits
  <2> QED BY <2>2, <2>5, <2>6
<1>3. CASE TakeManual(p)
  <2> DEFINE t == [s EXCEPT !.admit = {}]
             step == NextStep(Root, "default")
  <2>1. UNCHANGED <<store, sent>> BY <1>3 DEF TakeManual
  <2>2. PICK c \in s.admit, r \in Runs :
          /\ Unused(r)
          /\ sess' = [sess EXCEPT ![p] =
                [Insert(t, r, c, step, "own") EXCEPT !.logged = @ \cup {<<r, Root, "ok">>}]]
    BY <1>3 DEF TakeManual
  <2>3. /\ t \in Session /\ t.view = s.view /\ t.dirty = s.dirty
        /\ t.added = s.added /\ t.purged = s.purged /\ t.logged = s.logged
    BY <1>1 DEF Session
  <2>4. c \in Contacts /\ step \in Steps \cup {None}
    BY <1>1, <2>2, NextStepType, GraphAssumption DEF Session
  <2> HIDE DEF t, step
  <2> DEFINE i == Insert(t, r, c, step, "own")
             u == [i EXCEPT !.logged = @ \cup {<<r, Root, "ok">>}]
  <2>5. i \in Session /\ Inserts(t, i, r) /\ i.logged = t.logged
    BY <2>3, <2>4, InsertEffect
  <2>6. sess' = [sess EXCEPT ![p] = u] BY <2>2
  <2> HIDE DEF i
  <2>7. /\ u \in Session /\ u.view = i.view /\ u.dirty = i.dirty
        /\ u.added = i.added /\ u.purged = i.purged /\ s.logged \subseteq u.logged
    <3>1. i.logged \cup {<<r, Root, "ok">>} \subseteq HistoryRows
      BY <2>5, GraphAssumption DEF Session, HistoryRows
    <3> QED BY <2>3, <2>5, <3>1 DEF Session
  <2> HIDE DEF u
  <2>8. Inserts(s, u, r) BY <2>3, <2>5, <2>7 DEF Inserts
  <2>9. Unused(r) BY <2>2
  <2> QED BY <2>1, <2>6, <2>7, <2>8, <2>9 DEF Admits
<1> QED BY <1>2, <1>3

LEMMA WorkCases ==
    ASSUME TypeOK, NEW p \in Procs, Work(p)
    PROVE  GoesOn(p) \/ Admits(p) \/ Loses(p) \/ (Stores(p) /\ UNCHANGED sent)
<1> DEFINE s == sess[p]
<1>1. Open(p) /\ s \in Session BY DEF TypeOK, Open, Work
<1>2. CASE Advance(p) BY <1>1, <1>2, AdvanceCases
<1>3. CASE TakeContact(p) \/ TakeManual(p) BY <1>1, <1>3, AdmissionCases
\* Steps that only move the position of the job.
<1>4. ASSUME NEW t \in Session, sess' = [sess EXCEPT ![p] = t], UNCHANGED <<store, sent>>,
             t.view = s.view, t.dirty = s.dirty, t.purged = s.purged,
             t.added = s.added, t.logged = s.logged
      PROVE  GoesOn(p)
  <2>1. Treats(p, t, None) BY <1>1, <1>4, StaysTreats
  <2> QED BY <1>4, <2>1 DEF GoesOn
<1>5. CASE TakeRun(p)
  <2>1. PICK r \in s.runs : sess' = [sess EXCEPT ![p].runs = @ \ {r}, ![p].cur = r,
                                                ![p].fuel = MaxSteps]
    BY <1>5 DEF TakeRun
  <2> DEFINE o == [s EXCEPT !.runs = @ \ {r}]
             t == [o EXCEPT !.cur = r, !.fuel = MaxSteps]
  <2>2. sess' = [sess EXCEPT ![p] = t] BY <1>1, <2>1 DEF TypeOK, Session
  <2>3. r \in Runs /\ s.runs \ {r} \subseteq Runs BY <1>1, <2>1 DEF Session
  <2>4. o \in Session BY <1>1, <2>3 DEF Session
  <2>5. t \in Session BY <2>3, <2>4, CallType
  <2>6. /\ t.view = s.view /\ t.dirty = s.dirty /\ t.purged = s.purged
        /\ t.added = s.added /\ t.logged = s.logged
    BY <1>1 DEF Session
  <2>7. UNCHANGED <<store, sent>> BY <1>5 DEF TakeRun
  <2> HIDE DEF t
  <2> QED BY <1>4, <2>2, <2>5, <2>6, <2>7
<1>6. CASE TurnTick(p)
  <2> DEFINE t == [s EXCEPT !.phase = "timeouts"]
             u == [s EXCEPT !.phase = "cancelling",
                            !.runs = {r \in Runs : s.view[r].state = "cancelling"}]
  <2>1. sess' = [sess EXCEPT ![p] = t] \/ sess' = [sess EXCEPT ![p] = u]
    BY <1>1, <1>6 DEF TurnTick, TypeOK, Session
  <2>2. /\ t \in Session /\ t.view = s.view /\ t.dirty = s.dirty
        /\ t.purged = s.purged /\ t.added = s.added /\ t.logged = s.logged
    BY <1>1 DEF Session, Phases
  <2>3. /\ u \in Session /\ u.view = s.view /\ u.dirty = s.dirty
        /\ u.purged = s.purged /\ u.added = s.added /\ u.logged = s.logged
    BY <1>1 DEF Session, Phases
  <2>4. UNCHANGED <<store, sent>> BY <1>6 DEF TurnTick
  <2> HIDE DEF t, u
  <2> QED BY <1>4, <2>1, <2>2, <2>3, <2>4
<1>7. CASE TurnCron(p)
  <2> DEFINE t(admit) == [s EXCEPT !.phase = "cron", !.admit = admit]
  <2>1. PICK admit \in {s.admit, {}} : sess' = [sess EXCEPT ![p] = t(admit)]
    BY <1>1, <1>7 DEF TurnCron, TypeOK, Session
  <2>2. /\ t(admit) \in Session /\ t(admit).view = s.view /\ t(admit).dirty = s.dirty
        /\ t(admit).purged = s.purged /\ t(admit).added = s.added
        /\ t(admit).logged = s.logged
    BY <1>1, <2>1 DEF Session, Phases
  <2>3. UNCHANGED <<store, sent>> BY <1>7 DEF TurnCron
  <2> HIDE DEF t
  <2> QED BY <1>4, <2>1, <2>2, <2>3
<1>8. CASE TurnEvent(p)
  <2> DEFINE t == [s EXCEPT !.phase = "resume",
                     !.waits = {w \in @ : w \notin expired /\ w[1] \notin s.purged}]
             u == [s EXCEPT !.phase = "start"]
  <2>1. sess' = [sess EXCEPT ![p] = t] \/ sess' = [sess EXCEPT ![p] = u]
    BY <1>1, <1>8 DEF TurnEvent, TypeOK, Session
  <2>2. {w \in s.waits : w \notin expired /\ w[1] \notin s.purged} \subseteq WaitIds
    BY <1>1 DEF Session
  <2>3. /\ t \in Session /\ t.view = s.view /\ t.dirty = s.dirty
        /\ t.purged = s.purged /\ t.added = s.added /\ t.logged = s.logged
    BY <1>1, <2>2 DEF Session, Phases
  <2>4. /\ u \in Session /\ u.view = s.view /\ u.dirty = s.dirty
        /\ u.purged = s.purged /\ u.added = s.added /\ u.logged = s.logged
    BY <1>1 DEF Session, Phases
  <2>5. UNCHANGED <<store, sent>> BY <1>8 DEF TurnEvent
  <2> HIDE DEF t, u
  <2> QED BY <1>4, <2>1, <2>3, <2>4, <2>5
<1>9. CASE TakeWait(p)
  <2> DEFINE branch == IF s.phase = "timeouts" THEN "timeout" ELSE "matched"
             t(w) == [s EXCEPT !.waits = @ \ {w}]
  <2>1. PICK w \in s.waits :
           \/ sess' = [sess EXCEPT ![p] = t(w)]
           \/ FreeRun(p, w[1]) /\ sess' = [sess EXCEPT ![p] = ResumeWait(t(w), w, branch)]
    BY <1>9 DEF TakeWait
  <2>2. w \in WaitIds /\ s.waits \ {w} \subseteq WaitIds BY <1>1, <2>1 DEF Session
  <2>3. /\ t(w) \in Session /\ t(w).view = s.view /\ t(w).dirty = s.dirty
        /\ t(w).purged = s.purged /\ t(w).added = s.added /\ t(w).logged = s.logged
    BY <1>1, <2>2 DEF Session
  <2>4. UNCHANGED <<store, sent>> BY <1>9 DEF TakeWait
  <2> HIDE DEF t, branch
  <2>5. CASE sess' = [sess EXCEPT ![p] = t(w)] BY <1>4, <2>3, <2>4, <2>5
  <2>6. CASE FreeRun(p, w[1]) /\ sess' = [sess EXCEPT ![p] = ResumeWait(t(w), w, branch)]
    <3> DEFINE u == ResumeWait(t(w), w, branch)
    <3>1. u \in Session /\ Tame(t(w), u) /\ Lawful(t(w), u, w[1])
      BY <2>2, <2>3, ResumeWaitType, TameResumeWait, LawfulResumeWait
    <3>2. Tame(s, t(w)) /\ Lawful(s, t(w), w[1]) BY <2>3, TameStays, LawfulStays
    <3> HIDE DEF u
    <3>3. Tame(s, u) /\ Lawful(s, u, w[1]) BY <3>1, <3>2, TameTransitive, LawfulTransitive
    <3>4. Treats(p, u, w[1]) BY <2>4, <2>6, <3>1, <3>3 DEF Treats
    <3> QED BY <2>4, <2>6, <3>4 DEF GoesOn, u
  <2> QED BY <2>1, <2>5, <2>6
<1>10. CASE TakeRule(p)
  <2> DEFINE t(r) == [s EXCEPT !.runs = @ \ {r}]
             u(r) == CancelRun(t(r), r)
  <2>1. PICK r \in s.runs : FreeRun(p, r) /\ sess' = [sess EXCEPT ![p] = u(r)]
    BY <1>10 DEF TakeRule
  <2>2. r \in Runs /\ s.runs \ {r} \subseteq Runs BY <1>1, <2>1 DEF Session
  <2>3. /\ t(r) \in Session /\ t(r).view = s.view /\ t(r).dirty = s.dirty
        /\ t(r).purged = s.purged /\ t(r).added = s.added /\ t(r).logged = s.logged
    BY <1>1, <2>2 DEF Session
  <2>4. UNCHANGED <<store, sent>> BY <1>10 DEF TakeRule
  <2> HIDE DEF t
  <2>5. u(r) \in Session /\ Tame(t(r), u(r)) /\ Lawful(t(r), u(r), r)
    BY <2>2, <2>3, CancelRunType, TameCancelRun, LawfulCancelRun
  <2>6. Tame(s, t(r)) /\ Lawful(s, t(r), r) BY <2>3, TameStays, LawfulStays
  <2> HIDE DEF u
  <2>7. Tame(s, u(r)) /\ Lawful(s, u(r), r)
    BY <2>5, <2>6, TameTransitive, LawfulTransitive
  <2>8. Treats(p, u(r), r) BY <2>1, <2>4, <2>5, <2>7 DEF Treats
  <2> QED BY <2>1, <2>4, <2>8 DEF GoesOn
<1>11. CASE CancelCommits(p)
  <2>1. PICK r \in s.runs : FreeRun(p, r) /\ Publish(p, CancelRun(s, r))
    BY <1>11 DEF CancelCommits
  <2>2. r \in Runs BY <1>1, <2>1 DEF Session
  <2>3. /\ CancelRun(s, r) \in Session /\ Tame(s, CancelRun(s, r))
        /\ Lawful(s, CancelRun(s, r), r)
    BY <1>1, <2>2, CancelRunType, TameCancelRun, LawfulCancelRun
  <2>4. UNCHANGED sent BY <1>11 DEF CancelCommits
  <2>5. Treats(p, CancelRun(s, r), r) BY <2>1, <2>3, <2>4 DEF Treats
  <2> QED BY <2>1, <2>4, <2>5 DEF Stores
<1>12. CASE Commits(p)
  <2>1. Publish(p, s) /\ UNCHANGED sent BY <1>12 DEF Commits
  <2>2. Treats(p, s, None) BY <1>1, <2>1, StaysTreats
  <2> QED BY <2>1, <2>2 DEF Stores
<1> QED BY <1>2, <1>3, <1>5, <1>6, <1>7, <1>8, <1>9, <1>10, <1>11, <1>12 DEF Work

LEMMA BeginCases ==
    ASSUME NEW p \in Procs,
           \/ BeginTick(p) \/ \E c \in Contacts : BeginManual(p, c)
           \/ \E r \in Runs : BeginCancel(p, r)
           \/ \E e \in Events, c \in Contacts, pass \in BOOLEAN : BeginEvent(p, e, c, pass)
    PROVE  /\ ~Open(p) /\ UNCHANGED <<store, sent>>
           /\ \E phase, runs, waits, admit :
                 sess' = [sess EXCEPT ![p] = NewSession(phase, runs, waits, admit)]
<1> DEFINE Opened ==
             /\ ~Open(p) /\ UNCHANGED <<store, sent>>
             /\ \E phase, runs, waits, admit :
                   sess' = [sess EXCEPT ![p] = NewSession(phase, runs, waits, admit)]
<1>1. CASE BeginTick(p) BY <1>1 DEF BeginTick, Begin
<1>2. ASSUME NEW c \in Contacts, BeginManual(p, c) PROVE Opened
  BY <1>2 DEF BeginManual, Begin
<1>3. ASSUME NEW r \in Runs, BeginCancel(p, r) PROVE Opened
  BY <1>3 DEF BeginCancel, Begin
<1>4. ASSUME NEW e \in Events, NEW c \in Contacts, NEW pass \in BOOLEAN,
             BeginEvent(p, e, c, pass)
      PROVE  Opened
  BY <1>4 DEF BeginEvent, Begin
<1> QED BY <1>1, <1>2, <1>3, <1>4

-----------------------------------------------------------------------------
(* Ended runs                                                              *)

LEMMA EndInit == Init => EndInv
BY DEF Init, NoRow, EndInv, EndedRunsLetGo, LockOfOneRun, SessionsFit, UnbornAreBlank,
       Open, Terminal

LEMMA EndNext == TypeOK /\ EndInv /\ [Next]_vars => EndInv'
<1> SUFFICES ASSUME TypeOK, EndInv, [Next]_vars PROVE EndInv' OBVIOUS
<1>1. CASE run' = run /\ wait' = wait /\ sess' = sess
  BY <1>1 DEF EndInv, EndedRunsLetGo, LockOfOneRun, SessionsFit, UnbornAreBlank,
              Open, Fits, KeyAgrees
<1>2. CASE UNCHANGED vars BY <1>1, <1>2 DEF vars, store
<1>3. ASSUME NEW on \in BOOLEAN, SetActive(on) PROVE EndInv'
  BY <1>1, <1>3 DEF SetActive, store
<1>4. CASE Clock BY <1>4, EndClock
<1>5. ASSUME NEW p \in Procs, Work(p) PROVE EndInv'
  <2>1. Open(p) BY <1>5 DEF Work
  <2>2. CASE GoesOn(p) BY <2>1, <2>2, EndStep DEF GoesOn, Treats
  <2>3. CASE Admits(p)
    <3>1. PICK u \in Session, r \in Runs :
            /\ Unused(r) /\ Inserts(sess[p], u, r)
            /\ sess' = [sess EXCEPT ![p] = u] /\ UNCHANGED store
      BY <2>3 DEF Admits
    <3>2. PICK row \in Row :
            /\ row.state = "running" /\ row.key \in {"slot", "own"}
            /\ u.view = [sess[p].view EXCEPT ![r] = row]
            /\ u.dirty = [sess[p].dirty EXCEPT ![r] = Cols]
            /\ u.added = sess[p].added /\ u.purged = sess[p].purged
      BY <3>1 DEF Inserts
    <3> QED BY <2>1, <3>1, <3>2, EndInsert
  <2>4. CASE Loses(p)
    <3>1. UNCHANGED store BY <2>4 DEF Loses
    <3> QED BY <2>4, <3>1, EndFresh DEF Loses
  <2>5. CASE Stores(p) BY <2>1, <2>5, EndPublish DEF Stores, Treats
  <2> QED BY <1>5, <2>2, <2>3, <2>4, <2>5, WorkCases
<1>6. ASSUME NEW p \in Procs, Crash(p) PROVE EndInv' BY <1>6, EndFresh DEF Crash
<1>7. ASSUME NEW p \in Procs,
             \/ BeginTick(p) \/ \E c \in Contacts : BeginManual(p, c)
             \/ \E r \in Runs : BeginCancel(p, r)
             \/ \E e \in Events, c \in Contacts, pass \in BOOLEAN : BeginEvent(p, e, c, pass)
      PROVE EndInv'
  <2>1. UNCHANGED store BY <1>7, BeginCases
  <2> QED BY <1>7, <2>1, BeginCases, EndFresh
<1> QED BY <1>2, <1>3, <1>4, <1>5, <1>6, <1>7 DEF Next

\* However transactions overlap, each run is flushed by one of them at a time, and
\* whatever ends a run takes its key and its event waits in the same COMMIT.
THEOREM EndsTogether == Spec => []EndInv
<1>1. TypeOK /\ EndInv /\ [Next]_vars => (TypeOK /\ EndInv)' BY NextType, EndNext
<1> QED BY <1>1, InitType, EndInit, PTL DEF Spec

\* A run that has ended holds no slot and listens to no event.
THEOREM EndedLetGo == Spec => []EndedRunsLetGo
<1>1. EndInv => EndedRunsLetGo BY DEF EndInv
<1> QED BY <1>1, EndsTogether, PTL

-----------------------------------------------------------------------------
(* Emails in the history                                                   *)

LEMMA LogsNext ==
    ASSUME MaxFaults = 0, "failed" \notin Troubles, TypeOK, EmailsAreLogged, [Next]_vars
    PROVE  EmailsAreLogged'
\* What a process has logged it goes on to have logged, or it is in the history.
<1>1. ASSUME NEW p \in Procs, NEW t, t # None \/ ~Open(p),
             sess' = [sess EXCEPT ![p] = t], hist' = hist,
             Open(p) => sess[p].logged \subseteq t.logged,
             \A x \in Runs \X Steps :
                sent'[x] # sent[x] => t # None /\ <<x[1], x[2], "ok">> \in t.logged
      PROVE  EmailsAreLogged'
  <2> SUFFICES ASSUME NEW r \in Runs, NEW s \in Steps, sent'[<<r, s>>] > 0
               PROVE  \/ <<r, s, "ok">> \in hist'
                      \/ \E q \in Procs : sess'[q] # None /\ <<r, s, "ok">> \in sess'[q].logged
    BY DEF EmailsAreLogged, Open
  <2>1. CASE sent'[<<r, s>>] # sent[<<r, s>>]
    <3>1. t # None /\ <<r, s, "ok">> \in t.logged BY <1>1, <2>1
    <3> QED BY <1>1, <3>1 DEF TypeOK
  <2>2. CASE sent'[<<r, s>>] = sent[<<r, s>>]
    <3>1. CASE <<r, s, "ok">> \in hist BY <1>1, <3>1
    <3>2. ASSUME NEW q \in Procs, Open(q), <<r, s, "ok">> \in sess[q].logged
          PROVE  sess'[q] # None /\ <<r, s, "ok">> \in sess'[q].logged
      <4>1. CASE q = p BY <1>1, <3>2, <4>1 DEF TypeOK
      <4>2. CASE q # p BY <1>1, <3>2, <4>2 DEF TypeOK, Open
      <4> QED BY <4>1, <4>2
    <3> QED BY <2>2, <3>1, <3>2 DEF EmailsAreLogged
  <2> QED BY <2>1, <2>2
<1>2. ASSUME hist' = hist, sent' = sent,
             \A q \in Procs : Open(q) => sess'[q] # None /\ sess'[q].logged = sess[q].logged
      PROVE  EmailsAreLogged'
  BY <1>2 DEF EmailsAreLogged, Open
<1>3. CASE UNCHANGED vars BY <1>2, <1>3 DEF vars, store, Open
<1>4. ASSUME NEW on \in BOOLEAN, SetActive(on) PROVE EmailsAreLogged'
  BY <1>2, <1>4 DEF SetActive, store, Open
<1>5. CASE Clock
  <2>1. ASSUME NEW q \in Procs, Open(q)
        PROVE  sess'[q] # None /\ sess'[q].logged = sess[q].logged
    <3>1. sess[q] \in Session BY <2>1 DEF TypeOK, Open
    <3>2. sess'[q] = [sess[q] EXCEPT !.view = [r \in Runs |-> Rung(@[r])]]
      BY <1>5, <2>1 DEF Clock
    <3>3. sess'[q].logged = sess[q].logged BY <3>1, <3>2 DEF Session
    <3>4. sess'[q] \in Session \cup {None} BY <1>5, ClockType DEF TypeOK
    <3>5. sess'[q] # None
      <4>1. \A row \in Row : Rung(row) \in Row BY DEF Rung, Row
      <4>2. [r \in Runs |-> Rung(sess[q].view[r])] \in [Runs -> Row]
        BY <3>1, <4>1 DEF Session
      <4> HIDE DEF Rung
      <4>3. sess'[q] \in Session BY <3>1, <3>2, <4>2 DEF Session
      <4> QED BY <4>3, NoneAssumption
    <3> QED BY <3>3, <3>5
  <2> QED BY <1>2, <1>5, <2>1 DEF Clock
<1>6. ASSUME NEW p \in Procs, Work(p) PROVE EmailsAreLogged'
  <2>1. Open(p) /\ sess[p] \in Session BY <1>6 DEF Work, TypeOK, Open
  <2>2. CASE GoesOn(p)
    <3>1. PICK t, r : /\ Treats(p, t, r) /\ sess' = [sess EXCEPT ![p] = t]
                      /\ UNCHANGED store
      BY <2>2 DEF GoesOn
    <3>2. t # None /\ sess[p].logged \subseteq t.logged
      BY <3>1, NoneAssumption DEF Treats, Lawful
    <3> QED BY <1>1, <3>1, <3>2 DEF Treats, store
  <2>3. CASE Admits(p)
    <3>1. PICK u \in Session : /\ sess[p].logged \subseteq u.logged
                               /\ sess' = [sess EXCEPT ![p] = u] /\ UNCHANGED <<store, sent>>
      BY <2>3 DEF Admits
    <3> QED BY <1>1, <3>1, NoneAssumption DEF store
  <2>4. CASE Stores(p) /\ UNCHANGED sent
    <3>1. PICK t, r : Treats(p, t, r) /\ Publish(p, t) BY <2>4 DEF Stores
    <3>2. sess[p].logged \subseteq t.logged BY <3>1 DEF Treats, Lawful
    <3>3. /\ hist' = hist \cup t.logged /\ sess' = [sess EXCEPT ![p] = None]
      BY <3>1 DEF Publish
    <3>4. \A q \in Procs : q # p => sess'[q] = sess[q] BY <3>3 DEF TypeOK
    <3> QED BY <2>4, <3>2, <3>3, <3>4 DEF EmailsAreLogged, Open
  <2> QED BY <1>6, <2>2, <2>3, <2>4, WorkCases DEF Loses
<1>7. ASSUME NEW p \in Procs, Crash(p) PROVE FALSE BY <1>7 DEF Crash, TypeOK
<1>8. ASSUME NEW p \in Procs,
             \/ BeginTick(p) \/ \E c \in Contacts : BeginManual(p, c)
             \/ \E r \in Runs : BeginCancel(p, r)
             \/ \E e \in Events, c \in Contacts, pass \in BOOLEAN : BeginEvent(p, e, c, pass)
      PROVE EmailsAreLogged'
  <2>1. ~Open(p) /\ UNCHANGED <<store, sent>> BY <1>8, BeginCases
  <2>2. PICK t : sess' = [sess EXCEPT ![p] = t] BY <1>8, BeginCases
  <2> QED BY <1>1, <2>1, <2>2 DEF store
<1> QED BY <1>3, <1>4, <1>5, <1>6, <1>7, <1>8 DEF Next

\* While no transaction is rolled back, every email on the wire has its line in the
\* history of its run, or in a transaction that is about to store it.
THEOREM SentIsLogged ==
    MaxFaults = 0 /\ "failed" \notin Troubles => (Spec => []EmailsAreLogged)
<1> SUFFICES ASSUME MaxFaults = 0, "failed" \notin Troubles
             PROVE  Spec => []EmailsAreLogged
  OBVIOUS
<1>1. Init => EmailsAreLogged BY DEF Init, EmailsAreLogged
<1>2. (TypeOK /\ EmailsAreLogged) /\ [Next]_vars => (TypeOK /\ EmailsAreLogged)'
  BY NextType, LogsNext
<1> QED BY <1>1, <1>2, InitType, PTL DEF Spec
=============================================================================
