-------------------------- MODULE EmailOnce_proofs ---------------------------
(***************************************************************************)
(* Proof that no step of a run mails twice, with one worker and a workflow *)
(* without a cycle.  MailInv says that what a run does next lies behind    *)
(* every email it has sent: by its row while no job knows the run, by the  *)
(* transaction of the job once it does.                                    *)
(***************************************************************************)
EXTENDS OneWorker_proofs

LEMMA Uphill ==
    ASSUME NEW Rank, Ranks(Rank), NEW a, NEW b, Onward(a, b), b # None
    PROVE  a \in Steps /\ b \in Steps /\ Rank[a] \in Nat /\ Rank[b] \in Nat /\ Rank[a] < Rank[b]
<1>1. PICK label : a \in Steps /\ b = NextStep(a, label) BY DEF Onward
<1>2. PICK l : b \in Targets(a, l)
  <2>1. CASE Targets(a, label) # {} BY <1>1, <2>1 DEF NextStep
  <2>2. CASE Targets(a, label) = {} /\ Targets(a, "default") # {}
    BY <1>1, <2>2 DEF NextStep
  <2>3. CASE Targets(a, label) = {} /\ Targets(a, "default") = {}
    BY <1>1, <2>3 DEF NextStep
  <2> QED BY <2>1, <2>2, <2>3
<1>3. b \in Steps /\ <<a, l, b>> \in Edges BY <1>2 DEF Targets
<1>4. l \in Labels BY <1>3, GraphAssumption
<1> QED BY <1>1, <1>3, <1>4 DEF Ranks

\* While no email of the run leaves, what comes after its emails still does.
LEMMA AheadKept ==
    ASSUME NEW Rank, NEW r, NEW row, NEW waits, Ahead(Rank, r, row, waits),
           \A b \in Steps : sent'[<<r, b>>] = sent[<<r, b>>],
           NEW row2, row2.state = row.state, row2.step = row.step,
           NEW waits2, waits2 \subseteq waits
    PROVE  Ahead(Rank, r, row2, waits2)'
BY DEF Ahead, Past

\* So do the steps further on.
LEMMA OnwardPast ==
    ASSUME NEW Rank, Ranks(Rank), NEW r, NEW a, NEW b, Onward(a, b), b # None,
           Past(Rank, r, a),
           \A c \in Steps : sent'[<<r, c>>] > 0 => sent[<<r, c>>] > 0 \/ c = a
    PROVE  Past(Rank, r, b)'
<1>1. a \in Steps /\ b \in Steps /\ Rank[a] < Rank[b] BY Uphill
<1>2. Rank \in [Steps -> Nat] BY DEF Ranks
<1> SUFFICES ASSUME NEW c \in Steps, sent'[<<r, c>>] > 0 PROVE Rank[c] < Rank[b]
  BY DEF Past
<1>3. Rank[c] < Rank[a] \/ c = a BY DEF Past
<1> QED BY <1>1, <1>2, <1>3

\* A row without waits, at a step no email has come after.
LEMMA AheadStep ==
    ASSUME NEW Rank, NEW r, NEW row, row.state # Parked,
           row.state \in {"running", "waiting"} => row.step = None \/ Past(Rank, r, row.step)',
           NEW waits
    PROVE  Ahead(Rank, r, row, waits)'
BY DEF Ahead

\* What a session makes of a run: it knows it, and leaves what it does not flush.
Moved(s, t, r) ==
    /\ t.view[r].state # "none"
    /\ "step" \notin t.dirty[r] => "step" \notin s.dirty[r] /\ t.view[r].step = s.view[r].step
    /\ "state" \notin t.dirty[r] =>
          "state" \notin s.dirty[r] /\ t.view[r].state = s.view[r].state

LEMMA PutsMoved ==
    ASSUME NEW s \in Session, NEW t \in Session, NEW r \in Runs, NEW row, Puts(s, t, r, row),
           row.state # "none"
    PROVE  Moved(s, t, r)
<1>1. t.view[r] = row /\ s.dirty[r] \subseteq t.dirty[r] BY PutsFacts
<1>2. \A c \in {"state", "step"} : c \in Cols BY DEF Cols
<1>3. row["step"] # s.view[r]["step"] => "step" \in t.dirty[r] BY <1>2 DEF Puts
<1>4. row["state"] # s.view[r]["state"] => "state" \in t.dirty[r] BY <1>2 DEF Puts
<1> QED BY <1>1, <1>3, <1>4 DEF Moved

\* A turn of advance_run: the email of the step is the run's first of this step, and
\* the run goes on to a later one.
LEMMA TurnAhead ==
    ASSUME NEW Rank, Ranks(Rank), TypeOK, EmailOnce, NEW p \in Procs, Open(p),
           NEW s, s = sess[p], NEW r, r = s.cur,
           NEW t \in Session, Turned(p, t), wait' = wait,
           Own(p, s), Fits(s, r), Ahead(Rank, r, s.view[r], Heard(s, r))
    PROVE  /\ EmailOnce'
           /\ \A q \in Runs \ {r}, b \in Steps : sent'[<<q, b>>] = sent[<<q, b>>]
           /\ OnlyRun(s, t, r) /\ Moved(s, t, r)
           /\ Ahead(Rank, r, t.view[r], Heard(t, r))'
<1> DEFINE v == s.view[r]
<1>1. s \in Session /\ r \in Runs BY DEF TypeOK, Open, Turned
<1>2. v \in Row /\ v.state # "none" /\ Sound(s, r) BY <1>1 DEF Own, Coherent, Session
<1>3. v.state \notin Terminal \cup {Parked} BY DEF Turned
<1>4. Heard(s, r) = {} BY <1>1, <1>2, <1>3, NoWaits DEF Procs
<1>5. v.state \in {"running", "waiting"} => v.step = None \/ Past(Rank, r, v.step)
  BY DEF Ahead
<1>6. v.state \in {"running", "waiting", "cancelling"} BY <1>2, <1>3 DEF Row, Live, Parked
<1>7. \/ sent' = sent
      \/ /\ v.state \in {"running", "waiting"} /\ v.step \in Steps
         /\ sent' = [sent EXCEPT ![<<r, v.step>>] = @ + 1]
  BY <1>6 DEF Turned
<1>8. sent \in [Runs \X Steps -> Nat] BY DEF TypeOK
<1> HIDE DEF v
<1>9. \A q \in Runs \ {r}, b \in Steps : sent'[<<q, b>>] = sent[<<q, b>>] BY <1>7, <1>8
<1>10. \A b \in Steps : sent'[<<r, b>>] > 0 => sent[<<r, b>>] > 0 \/ b = v.step
  BY <1>1, <1>7, <1>8
<1>11. EmailOnce'
  <2>1. CASE sent' = sent BY <2>1 DEF EmailOnce
  <2>2. CASE /\ v.state \in {"running", "waiting"} /\ v.step \in Steps
             /\ sent' = [sent EXCEPT ![<<r, v.step>>] = @ + 1]
    <3>1. Past(Rank, r, v.step) BY <1>5, <2>2, GraphAssumption
    <3>2. Rank[v.step] \in Nat BY <2>2 DEF Ranks
    <3>3. ~(sent[<<r, v.step>>] > 0) BY <2>2, <3>1, <3>2 DEF Past
    <3>4. <<r, v.step>> \in Runs \X Steps BY <1>1, <2>2
    <3>5. sent[<<r, v.step>>] = 0 BY <1>8, <3>3, <3>4
    <3> QED BY <1>8, <2>2, <3>4, <3>5 DEF EmailOnce
  <2> QED BY <1>7, <2>1, <2>2
<1>12. /\ OnlyRun(s, t, r) /\ Moved(s, t, r)
       /\ Ahead(Rank, r, t.view[r], Heard(t, r))'
  <2>1. ASSUME NEW row, Moves(s, t, r, row), sent' # sent => Onward(v.step, row.step)
        PROVE  <1>12!:
    <3>1. /\ OnlyRun(s, t, r) /\ Puts(s, t, r, row) /\ row.state \in {v.state, "waiting"}
          /\ row.step = v.step \/ Onward(v.step, row.step)
          /\ v.state # "cancelling"
      BY <1>1, <1>2, <1>4, <2>1, SoundMoves DEF Moves, v
    <3>2. t.view[r] = row /\ Moved(s, t, r)
      BY <1>1, <1>2, <3>1, PutsMoved, PutsFacts
    <3>3. row.step = None \/ Past(Rank, r, row.step)'
      <4> SUFFICES ASSUME row.step # None PROVE Past(Rank, r, row.step)' OBVIOUS
      <4>1. CASE Onward(v.step, row.step)
        <5>1. v.step # None BY <4>1, GraphAssumption DEF Onward
        <5>2. Past(Rank, r, v.step) BY <1>5, <1>6, <3>1, <5>1
        <5> QED BY <1>10, <4>1, <5>2, OnwardPast
      <4>2. CASE row.step = v.step /\ sent' = sent
        BY <1>5, <1>6, <3>1, <4>2 DEF Past
      <4> QED BY <2>1, <3>1, <4>1, <4>2
    <3>4. row.state # Parked BY <1>3, <3>1 DEF Parked
    <3> QED BY <3>1, <3>2, <3>3, <3>4, AheadStep DEF Ahead
  <2>2. ASSUME NEW k, Ends(s, t, r, k) PROVE <1>12!:
    <3>1. OnlyRun(s, t, r) /\ t.view[r].state = k /\ k \in Terminal
      BY <1>1, <1>2, <2>2, SoundEnds
    <3>2. PICK row : Puts(s, t, r, row) BY <2>2 DEF Ends
    <3>3. Moved(s, t, r) BY <1>1, <3>1, <3>2, PutsMoved, PutsFacts DEF Terminal
    <3> QED BY <3>1, <3>3 DEF Ahead, Terminal, Parked
  <2>3. ASSUME Parks(p, s, t, r), sent' = sent PROVE <1>12!:
    <3>1. OnlyRun(s, t, r) /\ t.view[r].state = Parked
      BY <1>1, <1>2, <1>4, <2>3, SoundParks DEF v
    <3>2. PICK row : Puts(s, t, r, row) BY <2>3 DEF Parks
    <3>3. Moved(s, t, r) BY <1>1, <3>1, <3>2, PutsMoved, PutsFacts DEF Parked
    <3>4. v.state \in {"running", "waiting"} /\ v.step \in Steps
      BY <1>6, <2>3 DEF Parks, v
    <3>5. Past(Rank, r, v.step)' BY <1>5, <2>3, <3>4, GraphAssumption DEF Past
    <3>6. \A x \in Heard(t, r)' : x[2] = v.step
      <4>1. t.added = s.added \cup {<<r, v.step, p>>} /\ t.gone = s.gone /\ t.purged = s.purged
        BY <2>3 DEF Parks, v
      <4>2. Heard(t, r)' = Heard(t, r) BY DEF Heard, WaitsOf
      <4>3. \A x \in Heard(t, r) : x \in Heard(s, r) \/ x = <<r, v.step, p>>
        BY <4>1 DEF Heard
      <4> QED BY <1>4, <4>2, <4>3
    <3> QED BY <3>1, <3>3, <3>5, <3>6 DEF Ahead, Parked
  <2> QED BY <2>1, <2>2, <2>3 DEF Turned, v
<1> QED BY <1>9, <1>11, <1>12

\* A job that treats run r alone.
LEMMA JobTreats ==
    ASSUME NEW Rank, NEW s \in Session, NEW t \in Session, NEW r \in Runs,
           run' = run, wait' = wait, JobAhead(Rank, s),
           OnlyRun(s, t, r), Moved(s, t, r), Ahead(Rank, r, t.view[r], Heard(t, r))',
           \A q \in Runs \ {r}, b \in Steps : sent'[<<q, b>>] = sent[<<q, b>>],
           s.view[r].state = "none" => "step" \in t.dirty[r] /\ "state" \in t.dirty[r],
           t.waits \subseteq s.waits,
           \A x \in t.waits : x[1] = r => x[1] \in t.purged
    PROVE  JobAhead(Rank, t)'
<1>1. \A q \in Runs \ {r} : t.view[q] = s.view[q] /\ t.dirty[q] = s.dirty[q] BY DEF OnlyRun
<1>2. \A q \in Runs : t.view[q].state = "none" => t.dirty[q] = {}
  BY <1>1 DEF JobAhead, Moved
<1>3. ASSUME NEW q \in Runs, t.view[q].state # "none"
      PROVE  /\ Ahead(Rank, q, t.view[q], Heard(t, q))'
             /\ "step" \notin t.dirty[q] => run'[q].step = t.view[q].step
             /\ "state" \notin t.dirty[q] =>
                   run'[q].state \in {t.view[q].state, "cancelling"} \cup Terminal
  <2>1. CASE q = r BY <2>1 DEF Moved, JobAhead
  <2>2. CASE q # r
    <3>1. Heard(t, q)' = Heard(t, q) BY DEF Heard, WaitsOf
    <3>2. Heard(t, q) = Heard(s, q) BY <2>2, OtherRuns
    <3>3. Ahead(Rank, q, s.view[q], Heard(s, q)) BY <1>1, <1>3, <2>2 DEF JobAhead
    <3>4. Ahead(Rank, q, t.view[q], Heard(t, q))'
      BY <1>1, <2>2, <3>1, <3>2, <3>3, AheadKept
    <3> QED BY <1>1, <1>3, <2>2, <3>4 DEF JobAhead
  <2> QED BY <2>1, <2>2
<1>4. ASSUME NEW x \in t.waits, x[1] \notin t.purged PROVE Past(Rank, x[1], x[2])'
  <2>1. x \in s.waits /\ x[1] \notin s.purged /\ x[1] \in Runs \ {r}
    BY <1>4 DEF OnlyRun, Session, WaitIds
  <2>2. Past(Rank, x[1], x[2]) BY <2>1 DEF JobAhead
  <2> QED BY <2>1, <2>2 DEF Past
<1> QED BY <1>2, <1>3, <1>4 DEF JobAhead

\* What other transactions write of no concern to a job, or to a request.
LEMMA JobUnmoved ==
    ASSUME NEW Rank, NEW s \in Session, run' = run, wait' = wait, JobAhead(Rank, s),
           WorkerFits(s),
           \A q \in Runs : s.view[q].state # "none" =>
              \A b \in Steps : sent'[<<q, b>>] = sent[<<q, b>>]
    PROVE  JobAhead(Rank, s)'
<1>1. ASSUME NEW q \in Runs, s.view[q].state # "none"
      PROVE  Ahead(Rank, q, s.view[q], Heard(s, q))'
  <2>1. Heard(s, q)' = Heard(s, q) BY DEF Heard, WaitsOf
  <2>2. Ahead(Rank, q, s.view[q], Heard(s, q)) BY <1>1 DEF JobAhead
  <2> QED BY <1>1, <2>1, <2>2, AheadKept
<1>2. ASSUME NEW x \in s.waits, x[1] \notin s.purged PROVE Past(Rank, x[1], x[2])'
  <2>1. x[1] \in Runs BY DEF Session, WaitIds
  <2>2. s.view[x[1]].state = Parked BY <1>2 DEF WorkerFits
  <2>3. \A b \in Steps : sent'[<<x[1], b>>] = sent[<<x[1], b>>] BY <2>1, <2>2 DEF Parked
  <2>4. Past(Rank, x[1], x[2]) BY <1>2 DEF JobAhead
  <2> QED BY <2>3, <2>4 DEF Past
<1> QED BY <1>1, <1>2 DEF JobAhead

LEMMA RequestUnmoved ==
    ASSUME NEW Rank, NEW s \in Session, wait' = wait, RequestAhead(Rank, s),
           \A q \in Runs : s.dirty[q] # {} =>
              \A b \in Steps : sent'[<<q, b>>] = sent[<<q, b>>]
    PROVE  RequestAhead(Rank, s)'
<1> SUFFICES ASSUME NEW q \in Runs, s.dirty[q] # {}
             PROVE  Ahead(Rank, q, s.view[q], Heard(s, q))'
  BY DEF RequestAhead
<1>1. Heard(s, q)' = Heard(s, q) BY DEF Heard, WaitsOf
<1>2. Ahead(Rank, q, s.view[q], Heard(s, q)) BY DEF RequestAhead
<1> QED BY <1>1, <1>2, AheadKept

\* A step that leaves the tables as they are.
LEMMA StaysAhead ==
    ASSUME NEW Rank, NEW s \in Session, NEW t \in Session, Stays(s, t),
           t.waits \subseteq s.waits, run' = run, wait' = wait, sent' = sent
    PROVE  /\ JobAhead(Rank, s) => JobAhead(Rank, t)'
           /\ RequestAhead(Rank, s) => RequestAhead(Rank, t)'
<1>1. t.view = s.view /\ t.dirty = s.dirty /\ t.purged = s.purged
  BY DEF Stays, SameWaits
<1>2. \A q \in Runs : Heard(t, q)' = Heard(s, q) BY DEF Stays, SameWaits, Heard, WaitsOf
<1>3. \A q \in Runs : Ahead(Rank, q, s.view[q], Heard(s, q))
                         => Ahead(Rank, q, t.view[q], Heard(t, q))'
  BY <1>1, <1>2 DEF Ahead, Past
<1>4. JobAhead(Rank, s) => JobAhead(Rank, t)' BY <1>1, <1>3 DEF JobAhead, Past
<1>5. RequestAhead(Rank, s) => RequestAhead(Rank, t)' BY <1>1, <1>3 DEF RequestAhead
<1> QED BY <1>4, <1>5

\* Emails leave only of the run a transaction is at, and known runs stay known.
Mails(p, s, t) ==
    /\ \A q \in Runs : \/ \A b \in Steps : sent'[<<q, b>>] = sent[<<q, b>>]
                       \/ q = s.cur /\ FreeRun(p, q) /\ s.cur # None
    /\ \A q \in Runs : s.view[q].state # "none" => t.view[q].state # "none"

LEMMA MovedMails ==
    ASSUME NEW p, NEW s, NEW t, NEW r \in Runs, OnlyRun(s, t, r), Moved(s, t, r),
           \A q \in Runs \ {r}, b \in Steps : sent'[<<q, b>>] = sent[<<q, b>>],
           sent' = sent \/ (r = s.cur /\ FreeRun(p, r))
    PROVE  Mails(p, s, t)
BY RunsAssumption DEF Mails, OnlyRun, Moved

\* The job goes on.
LEMMA JobContinues ==
    ASSUME NEW Rank, Ranks(Rank), OneWorker, TypeOK, EndInv, OneInv, EmailOnce,
           NEW p \in Workers, Open(p), NEW s, s = sess[p], JobAhead(Rank, s),
           NEW t, Continues(p, t)
    PROVE  EmailOnce' /\ JobAhead(Rank, t)' /\ Mails(p, s, t)
<1>0. p \in Procs /\ p \notin Api BY DEF OneWorker, Procs
<1>1. s \in Session /\ t \in Session BY <1>0 DEF TypeOK, Open, Continues, Becomes
<1>2. run' = run /\ wait' = wait BY DEF Continues, store
<1>3. Own(p, s) /\ WorkerFits(s) /\ \A r \in Runs : Fits(s, r) /\ Sound(s, r)
  BY <1>0 DEF OneInv, Own, Coherent, EndInv, SessionsFit
<1>4. ASSUME Stays(s, t), t.waits \subseteq s.waits, sent' = sent
      PROVE  EmailOnce' /\ JobAhead(Rank, t)' /\ Mails(p, s, t)
  BY <1>1, <1>2, <1>4, StaysAhead DEF EmailOnce, Mails, Stays
<1>5. CASE Idles(s, t) /\ sent' = sent
  BY <1>4, <1>5 DEF Idles, SamePlace
<1>6. CASE Turned(p, t)
  <2>1. PICK r \in Runs : r = s.cur BY <1>6 DEF Turned
  <2>2. /\ FreeRun(p, r) /\ t.waits = s.waits /\ s.view[r].state \notin Terminal \cup {Parked}
    BY <1>6, <2>1 DEF Turned, SamePlace
  <2>3. s.view[r].state # "none" BY <1>3, <2>1 DEF Own, Coherent
  <2>4. Ahead(Rank, r, s.view[r], Heard(s, r)) BY <2>3 DEF JobAhead
  <2>5. /\ EmailOnce'
        /\ \A q \in Runs \ {r}, b \in Steps : sent'[<<q, b>>] = sent[<<q, b>>]
        /\ OnlyRun(s, t, r) /\ Moved(s, t, r)
        /\ Ahead(Rank, r, t.view[r], Heard(t, r))'
    BY <1>0, <1>1, <1>2, <1>3, <1>6, <2>1, <2>4, TurnAhead
  <2>6. \A x \in t.waits : x[1] = r => x[1] \in t.purged
    BY <1>3, <2>2, <2>5 DEF WorkerFits, OnlyRun
  <2>7. JobAhead(Rank, t)' BY <1>1, <1>2, <2>2, <2>3, <2>5, <2>6, JobTreats
  <2>8. Mails(p, s, t) BY <2>1, <2>2, <2>5, MovedMails
  <2> QED BY <2>5, <2>7, <2>8
<1>7. CASE Takes(p, s, t) /\ sent' = sent
  <2>0. EmailOnce' BY <1>7 DEF EmailOnce
  <2>1. ASSUME NEW r \in Runs, OnlyRun(s, t, r), Moved(s, t, r),
               Ahead(Rank, r, t.view[r], Heard(t, r))', t.waits \subseteq s.waits,
               s.view[r].state = "none" => "step" \in t.dirty[r] /\ "state" \in t.dirty[r],
               \A x \in t.waits : x[1] = r => x[1] \in t.purged
        PROVE  EmailOnce' /\ JobAhead(Rank, t)' /\ Mails(p, s, t)
    <3>1. JobAhead(Rank, t)' BY <1>1, <1>2, <1>7, <2>1, JobTreats
    <3>2. Mails(p, s, t) BY <1>7, <2>1, MovedMails
    <3> QED BY <2>0, <3>1, <3>2
  <2>2. CASE Calls(s, t) BY <1>4, <1>7, <2>2 DEF Calls
  <2>3. CASE Passes(s, t) BY <1>4, <1>7, <2>3 DEF Passes
  <2>4. ASSUME NEW x \in WaitIds, Resumes(p, s, t, x)
        PROVE  EmailOnce' /\ JobAhead(Rank, t)' /\ Mails(p, s, t)
    <3>1. PICK r \in Runs : r = x[1] BY DEF WaitIds
    <3>2. x \in s.waits /\ t.waits = s.waits \ {x} BY <2>4 DEF Resumes
    <3>3. \A y \in t.waits : y[1] # r BY <1>3, <3>1, <3>2 DEF WorkerFits
    <3>4. CASE Wakes(s, t, x)
      <4>1. PICK row : /\ Puts(s, t, r, row) /\ Onward(x[2], row.step)
                       /\ row.state = "running" /\ s.view[r].state = Parked
        BY <3>1, <3>4 DEF Wakes
      <4>2. r \notin s.purged BY <1>3, <4>1 DEF Sound, Terminal, Parked
      <4>3. Past(Rank, r, x[2]) BY <3>1, <3>2, <4>2 DEF JobAhead
      <4>4. row.step = None \/ Past(Rank, r, row.step)'
        BY <1>7, <4>1, <4>3, OnwardPast
      <4>5. t.view[r] = row /\ Moved(s, t, r) BY <1>1, <4>1, PutsFacts, PutsMoved
      <4>6. Ahead(Rank, r, t.view[r], Heard(t, r))' BY <4>1, <4>4, <4>5 DEF Ahead, Parked
      <4>7. s.dirty[r] = {} /\ WaitsOf(r) \subseteq {x} BY <1>3, <3>1, <3>2, <4>2 DEF WorkerFits
      <4>8. OnlyRun(s, t, r) BY <1>1, <1>3, <3>1, <3>4, <4>7, SoundWakes
      <4> QED BY <2>1, <3>2, <3>3, <4>1, <4>5, <4>6, <4>8 DEF Parked
    <3>5. CASE Drops(s, t, x)
      <4>1. t.view = s.view /\ t.dirty = s.dirty /\ t.purged = s.purged
            /\ t.added = s.added \ {x} /\ t.gone = s.gone \cup {x}
        BY <3>5 DEF Drops
      <4>2. \A q \in Runs : (Heard(t, q))' \subseteq Heard(s, q) BY <1>2, <4>1 DEF Heard, WaitsOf
      <4>3. ASSUME NEW q \in Runs, s.view[q].state # "none"
            PROVE  Ahead(Rank, q, t.view[q], Heard(t, q))'
        <5>1. Ahead(Rank, q, s.view[q], Heard(s, q)) BY <4>3 DEF JobAhead
        <5> QED BY <1>7, <4>1, <4>2, <5>1, AheadKept
      <4>4. JobAhead(Rank, t)' BY <1>2, <1>7, <3>2, <4>1, <4>3 DEF JobAhead, Past
      <4>5. Mails(p, s, t) BY <1>7, <4>1 DEF Mails
      <4> QED BY <2>0, <4>4, <4>5
    <3> QED BY <2>4, <3>4, <3>5 DEF Resumes
  <2>5. ASSUME NEW r \in Runs, Rules(p, s, t, r)
        PROVE  EmailOnce' /\ JobAhead(Rank, t)' /\ Mails(p, s, t)
    <3>1. r \in s.runs /\ t.waits = s.waits BY <2>5 DEF Rules
    <3>2. s.view[r].state # "none" BY <1>3, <3>1 DEF Own, Coherent
    <3>3. CASE Stays(s, t) BY <1>4, <1>7, <3>1, <3>3
    <3>4. CASE Marks(s, t, r)
      <4>1. s.view[r].state = "running" BY <3>4 DEF Marks
      <4>2. Heard(s, r) = {} BY <1>0, <1>1, <1>3, <4>1, NoWaits DEF Parked
      <4>3. OnlyRun(s, t, r) /\ t.view[r].state = "cancelling"
        BY <1>1, <1>3, <3>4, <4>2, SoundMarks
      <4>4. PICK row : Puts(s, t, r, row) BY <3>4 DEF Marks
      <4>5. Moved(s, t, r) BY <1>1, <4>3, <4>4, PutsMoved, PutsFacts
      <4>6. Ahead(Rank, r, t.view[r], Heard(t, r))' BY <4>3 DEF Ahead, Parked
      <4>7. r \notin s.purged BY <1>3, <4>1 DEF Sound, Terminal
      <4>8. \A x \in t.waits : x[1] # r BY <1>3, <3>1, <4>1, <4>7 DEF WorkerFits, Parked
      <4> QED BY <2>1, <3>1, <3>2, <4>3, <4>5, <4>6, <4>8
    <3>5. CASE Ends(s, t, r, "cancelled")
      <4>1. OnlyRun(s, t, r) /\ t.view[r].state = "cancelled" /\ r \in t.purged
        BY <1>1, <1>3, <3>5, SoundEnds
      <4>2. PICK row : Puts(s, t, r, row) BY <3>5 DEF Ends
      <4>3. Moved(s, t, r) BY <1>1, <4>1, <4>2, PutsMoved, PutsFacts
      <4>4. Ahead(Rank, r, t.view[r], Heard(t, r))' BY <4>1 DEF Ahead, Parked
      <4> QED BY <2>1, <3>1, <3>2, <4>1, <4>3, <4>4
    <3> QED BY <2>5, <3>3, <3>4, <3>5 DEF Rules
  <2>6. ASSUME NEW r \in Runs, LetsIn(s, t, r)
        PROVE  EmailOnce' /\ JobAhead(Rank, t)' /\ Mails(p, s, t)
    <3>1. /\ Unused(r) /\ t.waits = s.waits /\ \E c, step : Births(s, t, r, c, step)
      BY <2>6 DEF LetsIn
    <3>2. run[r].state = "none" /\ s.dirty[r] = {} /\ \A b \in Steps : sent[<<r, b>>] = 0
      BY <1>0, <3>1 DEF Unused
    <3>3. WaitsOf(r) = {} BY <3>2 DEF OneInv, Matched, Match, Parked
    <3>4. /\ OnlyRun(s, t, r) /\ Sound(t, r) /\ t.dirty[r] = Cols
          /\ t.view[r].state = "running"
      BY <1>1, <1>3, <3>1, <3>2, <3>3, SoundBirths
    <3>5. PICK row : Puts(s, t, r, row) BY <3>1 DEF Births
    <3>6. Moved(s, t, r) BY <1>1, <3>4, <3>5, PutsMoved, PutsFacts
    <3>7. Ahead(Rank, r, t.view[r], Heard(t, r))' BY <1>7, <3>2, <3>4 DEF Ahead, Past, Parked
    <3>8. s.view[r].state = "none" BY <1>3, <3>2 DEF Sound
    <3>9. r \notin s.purged BY <1>3, <3>8 DEF Sound, Terminal
    <3>10. \A x \in t.waits : x[1] # r BY <1>3, <3>1, <3>8, <3>9 DEF WorkerFits, Parked
    <3> QED BY <2>1, <3>1, <3>4, <3>6, <3>7, <3>10 DEF Cols
  <2> QED BY <1>7, <2>2, <2>3, <2>4, <2>5, <2>6 DEF Takes
<1> QED BY <1>5, <1>6, <1>7 DEF Continues

\* The request goes on.
LEMMA RequestContinues ==
    ASSUME NEW Rank, Ranks(Rank), OneWorker, TypeOK, EndInv, OneInv, EmailOnce,
           NEW p \in Api, Open(p), NEW s, s = sess[p], RequestAhead(Rank, s),
           NEW t, Continues(p, t)
    PROVE  /\ EmailOnce' /\ RequestAhead(Rank, t)' /\ Mails(p, s, t)
           /\ s.cur # None => s.cur \in Runs /\ run[s.cur].state = "none"
<1>0. p \in Procs /\ p \notin Workers BY DEF OneWorker, Procs
<1>1. s \in Session /\ t \in Session BY <1>0 DEF TypeOK, Open, Continues, Becomes
<1>2. run' = run /\ wait' = wait BY DEF Continues, store
<1>3. Own(p, s) /\ ApiFits(s) /\ \A r \in Runs : Fits(s, r) /\ Sound(s, r)
  BY <1>0 DEF OneInv, Own, Coherent, EndInv, SessionsFit
<1>4. s.cur # None => /\ s.cur \in Runs /\ run[s.cur].state = "none"
                      /\ s.dirty[s.cur] # {} /\ s.dirty[s.cur] = Cols
  BY <1>1, <1>3 DEF ApiFits, Session
\* Every run but r is as before, and r comes after its emails.
<1>5. ASSUME NEW r \in Runs, OnlyRun(s, t, r), Ahead(Rank, r, t.view[r], Heard(t, r))',
             \A q \in Runs \ {r}, b \in Steps : sent'[<<q, b>>] = sent[<<q, b>>]
      PROVE  RequestAhead(Rank, t)'
  <2> SUFFICES ASSUME NEW q \in Runs, t.dirty[q] # {}, q # r
               PROVE  Ahead(Rank, q, t.view[q], Heard(t, q))'
    BY <1>5 DEF RequestAhead
  <2>1. Heard(t, q)' = Heard(t, q) BY <1>2 DEF Heard, WaitsOf
  <2>2. Heard(t, q) = Heard(s, q) BY <1>5, OtherRuns
  <2>3. t.view[q] = s.view[q] /\ s.dirty[q] # {} BY <1>5 DEF OnlyRun
  <2>4. Ahead(Rank, q, s.view[q], Heard(s, q)) BY <2>3 DEF RequestAhead
  <2> QED BY <1>5, <2>1, <2>2, <2>3, <2>4, AheadKept
<1>6. CASE Idles(s, t) /\ sent' = sent
  <2>1. Stays(s, t) /\ t.waits \subseteq s.waits BY <1>6 DEF Idles, SamePlace
  <2>2. RequestAhead(Rank, t)' BY <1>1, <1>2, <1>6, <2>1, StaysAhead
  <2> QED BY <1>4, <1>6, <2>1, <2>2 DEF EmailOnce, Mails, Stays
<1>7. CASE Turned(p, t)
  <2>1. PICK r \in Runs : r = s.cur BY <1>7 DEF Turned
  <2>2. FreeRun(p, r) BY <1>7, <2>1 DEF Turned
  <2>3. Ahead(Rank, r, s.view[r], Heard(s, r))
    BY <1>4, <2>1, RunsAssumption DEF RequestAhead
  <2>4. /\ EmailOnce'
        /\ \A q \in Runs \ {r}, b \in Steps : sent'[<<q, b>>] = sent[<<q, b>>]
        /\ OnlyRun(s, t, r) /\ Moved(s, t, r)
        /\ Ahead(Rank, r, t.view[r], Heard(t, r))'
    BY <1>0, <1>1, <1>2, <1>3, <1>7, <2>1, <2>3, TurnAhead
  <2>5. Mails(p, s, t) BY <2>1, <2>2, <2>4, MovedMails
  <2> QED BY <1>4, <1>5, <2>4, <2>5
<1>8. CASE Takes(p, s, t) /\ sent' = sent
  <2>1. PICK r \in Runs : LetsIn(s, t, r)
    <3>1. s.phase \in {"manual", "cancel"} BY <1>3 DEF ApiFits
    <3> QED BY <1>8, <3>1 DEF Takes, Calls, Passes, Resumes, Rules
  <2>2. Unused(r) /\ \E c, step : Births(s, t, r, c, step) BY <2>1 DEF LetsIn
  <2>3. run[r].state = "none" /\ s.dirty[r] = {} /\ \A b \in Steps : sent[<<r, b>>] = 0
    BY <1>0, <2>2 DEF Unused
  <2>4. WaitsOf(r) = {} BY <2>3 DEF OneInv, Matched, Match, Parked
  <2>5. OnlyRun(s, t, r) /\ t.view[r].state = "running"
    BY <1>1, <1>3, <2>2, <2>3, <2>4, SoundBirths
  <2>6. PICK row : Puts(s, t, r, row) BY <2>2 DEF Births
  <2>7. Moved(s, t, r) BY <1>1, <2>5, <2>6, PutsMoved, PutsFacts
  <2>8. Ahead(Rank, r, t.view[r], Heard(t, r))' BY <1>8, <2>3, <2>5 DEF Ahead, Past, Parked
  <2>9. Mails(p, s, t) BY <1>8, <2>5, <2>7, MovedMails
  <2> QED BY <1>4, <1>5, <1>8, <2>5, <2>8, <2>9 DEF EmailOnce
<1> QED BY <1>6, <1>7, <1>8 DEF Continues

LEMMA JobPrime ==
    ASSUME NEW Rank, NEW q, NEW s, sess'[q] = s
    PROVE  /\ JobAhead(Rank, s)' => JobAhead(Rank, sess[q])'
           /\ RequestAhead(Rank, s)' => RequestAhead(Rank, sess[q])'
<1>1. \A r : (Heard(sess[q], r))' = Heard(s, r)' BY DEF Heard, WaitsOf
<1>2. JobAhead(Rank, s)' => JobAhead(Rank, sess[q])' BY <1>1 DEF JobAhead
<1>3. RequestAhead(Rank, s)' => RequestAhead(Rank, sess[q])' BY <1>1 DEF RequestAhead
<1> QED BY <1>2, <1>3

\* A process goes on: the others neither know nor have flushed a run whose email leaves.
LEMMA MailGoesOn ==
    ASSUME NEW Rank, Ranks(Rank), OneWorker, TypeOK, EndInv, OneInv, MailInv(Rank),
           NEW p \in Procs, Open(p), NEW t, Continues(p, t)
    PROVE  MailInv(Rank)'
<1> DEFINE s == sess[p]
<1>1. /\ sess'[p] = t /\ \A q \in Procs \ {p} : sess'[q] = sess[q]
      /\ t \in Session /\ t # None
  BY NoneAssumption DEF TypeOK, Continues, Becomes
<1>2. run' = run /\ wait' = wait BY DEF Continues, store
<1>3. \A q \in Procs : Open(q)' <=> Open(q) BY <1>1 DEF Open
<1>4. EmailOnce BY DEF MailInv
<1>5. /\ EmailOnce' /\ Mails(p, s, t)
      /\ p \in Workers => JobAhead(Rank, t)'
      /\ p \in Api => /\ RequestAhead(Rank, t)'
                      /\ s.cur # None => s.cur \in Runs /\ run[s.cur].state = "none"
  <2>1. CASE p \in Workers
    <3>1. JobAhead(Rank, s) BY <2>1 DEF MailInv
    <3>2. EmailOnce' /\ JobAhead(Rank, t)' /\ Mails(p, s, t) BY <1>4, <2>1, <3>1, JobContinues
    <3> QED BY <2>1, <3>2 DEF OneWorker
  <2>2. CASE p \in Api
    <3>1. RequestAhead(Rank, s) BY <2>2 DEF MailInv
    <3>2. /\ EmailOnce' /\ RequestAhead(Rank, t)' /\ Mails(p, s, t)
          /\ s.cur # None => s.cur \in Runs /\ run[s.cur].state = "none"
      BY <1>4, <2>2, <3>1, RequestContinues
    <3> QED BY <2>2, <3>2 DEF OneWorker
  <2> QED BY <2>1, <2>2 DEF Procs
<1> HIDE DEF s
<1>6. ASSUME NEW r \in Runs, \A w \in Workers : Open(w)' => sess'[w].view[r].state = "none"
      PROVE  Ahead(Rank, r, run[r], WaitsOf(r))'
  <2>1. \A w \in Workers : Open(w) => sess[w].view[r].state = "none"
    <3> SUFFICES ASSUME NEW w \in Workers, Open(w) PROVE sess[w].view[r].state = "none"
      OBVIOUS
    <3>1. w \in Procs /\ Open(w)' BY <1>3 DEF Procs
    <3>2. CASE w = p BY <1>1, <1>5, <1>6, <3>1, <3>2 DEF Mails, s
    <3>3. CASE w # p BY <1>1, <1>6, <3>1, <3>3
    <3> QED BY <3>2, <3>3
  <2>2. Ahead(Rank, r, run[r], WaitsOf(r)) BY <2>1 DEF MailInv, RowAhead
  <2>3. WaitsOf(r)' = WaitsOf(r) BY <1>2 DEF WaitsOf
  <2>4. CASE \A b \in Steps : sent'[<<r, b>>] = sent[<<r, b>>]
    BY <1>2, <2>2, <2>3, <2>4, AheadKept
  <2>5. CASE r = s.cur /\ s.cur # None
    <3>1. CASE p \in Api
      <4>1. run'[r].state = "none" BY <1>2, <1>5, <2>5, <3>1
      <4> QED BY <4>1 DEF Ahead, Parked
    <3>2. CASE p \in Workers
      <4>1. s.view[r].state # "none" BY <2>5 DEF OneInv, Own, Coherent, s
      <4> QED BY <2>1, <3>2, <4>1 DEF s
    <3> QED BY <3>1, <3>2 DEF Procs
  <2> QED BY <1>5, <2>4, <2>5 DEF Mails
<1>7. ASSUME NEW w \in Workers, Open(w)' PROVE JobAhead(Rank, sess[w])'
  <2>1. w \in Procs /\ Open(w) BY <1>3, <1>7 DEF Procs
  <2>2. CASE w = p BY <1>1, <1>5, <1>7, <2>2, JobPrime
  <2>3. CASE w # p
    <3>1. p \in Api BY <1>7, <2>3 DEF OneWorker, Procs
    <3>2. PICK z : z = sess[w] OBVIOUS
    <3>3. z \in Session /\ JobAhead(Rank, z) /\ WorkerFits(z) /\ \A r \in Runs : Sound(z, r)
      BY <1>7, <2>1, <3>2 DEF TypeOK, Open, MailInv, OneInv, Own, Coherent
    <3>4. ASSUME NEW q \in Runs, z.view[q].state # "none"
          PROVE  \A b \in Steps : sent'[<<q, b>>] = sent[<<q, b>>]
      <4> SUFFICES ASSUME q = s.cur, FreeRun(p, q), s.cur # None PROVE FALSE
        BY <1>5 DEF Mails
      <4>1. run[q].state = "none" BY <1>5, <3>1
      <4>2. z.dirty[q] = {} BY <2>1, <2>3, <3>2 DEF FreeRun
      <4> QED BY <3>3, <3>4, <4>1, <4>2 DEF Sound
    <3>5. JobAhead(Rank, z)' BY <1>2, <3>3, <3>4, JobUnmoved
    <3>6. sess'[w] = z BY <1>1, <2>1, <2>3, <3>2
    <3> QED BY <3>5, <3>6, JobPrime
  <2> QED BY <2>2, <2>3
<1>8. ASSUME NEW a \in Api, Open(a)' PROVE RequestAhead(Rank, sess[a])'
  <2>1. a \in Procs /\ Open(a) BY <1>3, <1>8 DEF Procs
  <2>2. CASE a = p BY <1>1, <1>5, <1>8, <2>2, JobPrime
  <2>3. CASE a # p
    <3>1. PICK z : z = sess[a] OBVIOUS
    <3>2. z \in Session /\ RequestAhead(Rank, z)
      BY <1>8, <2>1, <3>1 DEF TypeOK, Open, MailInv
    <3>3. ASSUME NEW q \in Runs, z.dirty[q] # {}
          PROVE  \A b \in Steps : sent'[<<q, b>>] = sent[<<q, b>>]
      BY <1>5, <2>1, <2>3, <3>1, <3>3 DEF Mails, FreeRun
    <3>4. RequestAhead(Rank, z)' BY <1>2, <3>2, <3>3, RequestUnmoved
    <3>5. sess'[a] = z BY <1>1, <2>1, <2>3, <3>1
    <3> QED BY <3>4, <3>5, JobPrime
  <2> QED BY <2>2, <2>3
<1> QED BY <1>5, <1>6, <1>7, <1>8 DEF MailInv, RowAhead

\* p begins: it knows what is committed.
LEMMA MailBegins ==
    ASSUME NEW Rank, OneWorker, TypeOK, OneInv, MailInv(Rank), NEW p \in Procs, ~Open(p),
           NEW phase, NEW runs, NEW waits, NEW admit, p \in Workers => waits \subseteq wait,
           sess' = [sess EXCEPT ![p] = NewSession(phase, runs, waits, admit)],
           UNCHANGED store, sent' = sent
    PROVE  MailInv(Rank)'
<1>1. PICK t : t = NewSession(phase, runs, waits, admit) OBVIOUS
<1>2. sess'[p] = t /\ \A q \in Procs \ {p} : sess'[q] = sess[q] BY <1>1 DEF TypeOK
<1>3. run' = run /\ wait' = wait BY DEF store
<1>4. /\ t.view = run /\ t.dirty = [r \in Runs |-> {}] /\ t.added = {} /\ t.gone = {}
      /\ t.purged = {} /\ t.waits = waits
  BY <1>1 DEF NewSession
<1>5. \A q \in Procs \ {p} : Open(q)' <=> Open(q) BY <1>2 DEF Open
<1>6. \A r : WaitsOf(r)' = WaitsOf(r) BY <1>3 DEF WaitsOf
<1>7. \A r, row, ws : Ahead(Rank, r, row, ws) => Ahead(Rank, r, row, ws)'
  BY DEF Ahead, Past
<1>8. EmailOnce' BY DEF MailInv, EmailOnce
<1>9. ASSUME NEW w \in Workers, Open(w)' PROVE JobAhead(Rank, sess[w])'
  <2>1. CASE w = p
    <3>1. \A v \in Workers : ~Open(v) BY <2>1 DEF OneWorker
    <3>2. \A r \in Runs : Ahead(Rank, r, run[r], WaitsOf(r)) BY <3>1 DEF MailInv, RowAhead
    <3>3. \A r \in Runs : Heard(t, r)' = WaitsOf(r) BY <1>4, <1>6 DEF Heard
    <3>4. \A r \in Runs : Ahead(Rank, r, t.view[r], Heard(t, r))' BY <1>4, <1>7, <3>2, <3>3
    <3>5. ASSUME NEW x \in t.waits PROVE Past(Rank, x[1], x[2])'
      <4>1. x \in wait /\ x[1] \in Runs BY <1>4, <2>1, <3>5 DEF TypeOK, WaitIds
      <4>2. x \in WaitsOf(x[1]) BY <4>1 DEF WaitsOf
      <4>3. run[x[1]].state = Parked BY <4>1, <4>2 DEF OneInv, Matched, Match
      <4>4. Past(Rank, x[1], x[2]) BY <3>2, <4>1, <4>2, <4>3 DEF Ahead
      <4> QED BY <4>4 DEF Past
    <3>6. JobAhead(Rank, t)' BY <1>3, <1>4, <3>4, <3>5 DEF JobAhead
    <3> QED BY <1>2, <2>1, <3>6, JobPrime
  <2>2. CASE w # p
    <3>1. w \in Procs BY DEF Procs
    <3>2. PICK z : z = sess[w] OBVIOUS
    <3>3. JobAhead(Rank, z) BY <1>5, <1>9, <2>2, <3>1, <3>2 DEF MailInv
    <3>4. \A r : Heard(z, r)' = Heard(z, r) BY <1>6 DEF Heard
    <3>5. JobAhead(Rank, z)' BY <1>3, <1>7, <3>3, <3>4 DEF JobAhead, Past
    <3> QED BY <1>2, <2>2, <3>1, <3>2, <3>5, JobPrime
  <2> QED BY <2>1, <2>2
<1>10. ASSUME NEW a \in Api, Open(a)' PROVE RequestAhead(Rank, sess[a])'
  <2>1. CASE a = p
    <3>1. RequestAhead(Rank, t)' BY <1>4 DEF RequestAhead
    <3> QED BY <1>2, <2>1, <3>1, JobPrime
  <2>2. CASE a # p
    <3>1. a \in Procs BY DEF Procs
    <3>2. PICK z : z = sess[a] OBVIOUS
    <3>3. RequestAhead(Rank, z) BY <1>5, <1>10, <2>2, <3>1, <3>2 DEF MailInv
    <3>4. \A r : Heard(z, r)' = Heard(z, r) BY <1>6 DEF Heard
    <3>5. RequestAhead(Rank, z)' BY <1>7, <3>3, <3>4 DEF RequestAhead
    <3> QED BY <1>2, <2>2, <3>1, <3>2, <3>5, JobPrime
  <2> QED BY <2>1, <2>2
<1>11. ASSUME NEW r \in Runs, \A w \in Workers : Open(w)' => sess'[w].view[r].state = "none"
       PROVE  Ahead(Rank, r, run[r], WaitsOf(r))'
  <2>1. CASE p \in Workers
    <3>1. \A w \in Workers : ~Open(w) BY <2>1 DEF OneWorker
    <3>2. Ahead(Rank, r, run[r], WaitsOf(r)) BY <3>1 DEF MailInv, RowAhead
    <3> QED BY <1>3, <1>6, <1>7, <3>2
  <2>2. CASE p \notin Workers
    <3>1. \A w \in Workers : w \in Procs \ {p} BY <2>2 DEF Procs
    <3>2. \A w \in Workers : Open(w) => sess[w].view[r].state = "none"
      BY <1>2, <1>5, <1>11, <3>1
    <3>3. Ahead(Rank, r, run[r], WaitsOf(r)) BY <3>2 DEF MailInv, RowAhead
    <3> QED BY <1>3, <1>6, <1>7, <3>3
  <2> QED BY <2>1, <2>2
<1> QED BY <1>8, <1>9, <1>10, <1>11 DEF MailInv, RowAhead

\* Time changes neither the states nor the steps.
LEMMA MailClock ==
    ASSUME NEW Rank, TypeOK, MailInv(Rank), Clock
    PROVE  MailInv(Rank)'
<1>1. \A row \in Row : Rung(row).state = row.state /\ Rung(row).step = row.step
  BY DEF Rung, Row
<1>2. /\ \A r \in Runs : run'[r].state = run[r].state /\ run'[r].step = run[r].step
      /\ wait' = wait /\ sent' = sent
  BY <1>1 DEF Clock, TypeOK
<1>3. ASSUME NEW q \in Procs, Open(q)'
      PROVE  /\ Open(q) /\ sess'[q].dirty = sess[q].dirty
             /\ sess'[q].added = sess[q].added /\ sess'[q].gone = sess[q].gone
             /\ sess'[q].purged = sess[q].purged /\ sess'[q].waits = sess[q].waits
             /\ \A r \in Runs : /\ sess'[q].view[r].state = sess[q].view[r].state
                                /\ sess'[q].view[r].step = sess[q].view[r].step
  <2>1. Open(q) BY <1>3 DEF Clock, Open
  <2>2. sess[q] \in Session BY <2>1 DEF TypeOK, Open
  <2>3. sess'[q] = [sess[q] EXCEPT !.view = [r \in Runs |-> Rung(@[r])]]
    BY <2>1 DEF Clock
  <2>4. \A r \in Runs : sess[q].view[r] \in Row BY <2>2 DEF Session
  <2> HIDE DEF Rung
  <2>5. sess'[q].view = [r \in Runs |-> Rung(sess[q].view[r])]
    BY <2>2, <2>3 DEF Session
  <2>6. \A r \in Runs : /\ sess'[q].view[r].state = sess[q].view[r].state
                        /\ sess'[q].view[r].step = sess[q].view[r].step
    BY <1>1, <2>4, <2>5
  <2> QED BY <2>1, <2>2, <2>3, <2>6 DEF Session
<1>4. \A r : WaitsOf(r)' = WaitsOf(r) BY <1>2 DEF WaitsOf
<1>5. ASSUME NEW r, NEW row, NEW ws, Ahead(Rank, r, row, ws),
             NEW row2, row2.state = row.state, row2.step = row.step
      PROVE  Ahead(Rank, r, row2, ws)'
  BY <1>2, <1>5 DEF Ahead, Past
<1>6. EmailOnce' BY <1>2 DEF MailInv, EmailOnce
<1>7. ASSUME NEW q \in Procs, Open(q)'
      PROVE  /\ JobAhead(Rank, sess[q]) => JobAhead(Rank, sess[q])'
             /\ RequestAhead(Rank, sess[q]) => RequestAhead(Rank, sess[q])'
  <2>1. PICK s : s = sess[q] OBVIOUS
  <2>2. PICK t : t = sess'[q] OBVIOUS
  <2>3. /\ t.dirty = s.dirty /\ t.added = s.added /\ t.gone = s.gone
        /\ t.purged = s.purged /\ t.waits = s.waits
        /\ \A r \in Runs : t.view[r].state = s.view[r].state /\ t.view[r].step = s.view[r].step
    BY <1>3, <1>7, <2>1, <2>2
  <2>4. \A r : Heard(t, r)' = Heard(s, r) BY <1>4, <2>3 DEF Heard
  <2>5. \A r \in Runs : Ahead(Rank, r, s.view[r], Heard(s, r))
                            => Ahead(Rank, r, t.view[r], Heard(t, r))'
    BY <1>5, <2>3, <2>4
  <2>6. JobAhead(Rank, s) => JobAhead(Rank, t)' BY <1>2, <2>3, <2>5 DEF JobAhead, Past
  <2>7. RequestAhead(Rank, s) => RequestAhead(Rank, t)' BY <2>3, <2>5 DEF RequestAhead
  <2> QED BY <2>1, <2>2, <2>6, <2>7, JobPrime
<1>8. \A w \in Workers : Open(w)' => JobAhead(Rank, sess[w])'
  BY <1>3, <1>7 DEF MailInv, Procs
<1>9. \A a \in Api : Open(a)' => RequestAhead(Rank, sess[a])'
  BY <1>3, <1>7 DEF MailInv, Procs
<1>10. ASSUME NEW r \in Runs, \A w \in Workers : Open(w)' => sess'[w].view[r].state = "none"
       PROVE  Ahead(Rank, r, run[r], WaitsOf(r))'
  <2>1. \A w \in Workers : Open(w) => Open(w)'
    <3> SUFFICES ASSUME NEW w \in Workers, Open(w) PROVE Open(w)' OBVIOUS
    <3>1. w \in Procs /\ sess[w] \in Session BY DEF Procs, TypeOK, Open
    <3>2. sess'[w] = [sess[w] EXCEPT !.view = [q \in Runs |-> Rung(@[q])]]
      BY <3>1 DEF Clock
    <3>3. \A row \in Row : Rung(row) \in Row BY DEF Rung, Row
    <3>4. [q \in Runs |-> Rung(sess[w].view[q])] \in [Runs -> Row]
      BY <3>1, <3>3 DEF Session
    <3> HIDE DEF Rung
    <3>5. sess'[w] \in Session BY <3>1, <3>2, <3>4 DEF Session
    <3> QED BY <3>5, NoneAssumption DEF Open
  <2>2. \A w \in Workers : Open(w) => sess[w].view[r].state = "none"
    BY <1>3, <1>10, <2>1 DEF Procs
  <2>3. Ahead(Rank, r, run[r], WaitsOf(r)) BY <2>2 DEF MailInv, RowAhead
  <2> QED BY <1>2, <1>4, <1>5, <2>3
<1> QED BY <1>6, <1>8, <1>9, <1>10 DEF MailInv, RowAhead

\* COMMIT: the row of a run becomes what the job made of it, or what a request did.
LEMMA MailPublishes ==
    ASSUME NEW Rank, OneWorker, TypeOK, OneInv, MailInv(Rank), NEW p \in Procs, Open(p),
           NEW t, Publishable(p, t), Publish(p, t), sent' = sent
    PROVE  MailInv(Rank)'
<1>1. sess'[p] = None /\ \A q \in Procs \ {p} : sess'[q] = sess[q]
  BY DEF Publish, TypeOK
<1>2. ASSUME NEW q \in Procs, Open(q)' PROVE q # p /\ Open(q) /\ sess'[q] = sess[q]
  BY <1>1, <1>2 DEF Open
<1>3. t \in Session /\ \A r \in Runs : Sound(t, r) /\ Fits(t, r)
  BY DEF Publishable, Coherent
<1>4. ASSUME NEW r \in Runs
      PROVE  /\ run'[r].state = IF "state" \in t.dirty[r] THEN t.view[r].state ELSE run[r].state
             /\ run'[r].step = IF "step" \in t.dirty[r] THEN t.view[r].step ELSE run[r].step
             /\ WaitsOf(r)' = Heard(t, r)
             /\ "state" \notin t.dirty[r] => WaitsOf(r)' = WaitsOf(r)
  <2>1. WaitsOf(r)' = Heard(t, r) /\ ("state" \notin t.dirty[r] => WaitsOf(r)' = WaitsOf(r))
    BY <1>3, PublishWaits
  <2> QED BY <2>1 DEF Publish
<1>5. ASSUME NEW r, NEW row, NEW ws, Ahead(Rank, r, row, ws),
             NEW row2, row2.state = row.state, row2.step = row.step, NEW ws2, ws2 \subseteq ws
      PROVE  Ahead(Rank, r, row2, ws2)'
  BY <1>5, AheadKept
<1>6. \A r, row, ws : row.state \in {"cancelling"} \cup Terminal => Ahead(Rank, r, row, ws)'
  BY DEF Ahead, Terminal, Parked
<1>7. EmailOnce' BY DEF MailInv, EmailOnce
\* What a request commits.
<1>8. ASSUME p \in Api, NEW r \in Runs, t.dirty[r] # {}
      PROVE  \/ /\ t = sess[p] /\ t.dirty[r] = Cols
                /\ \A w \in Workers : Open(w) => sess[w].view[r].state = "none"
             \/ /\ "state" \in t.dirty[r] /\ "step" \notin t.dirty[r] /\ t.added = {}
                /\ t.view[r].state \in {"cancelling", "cancelled"}
  <2>1. CASE t = sess[p] /\ t.phase = "manual"
    <3>1. run[r].state = "none" /\ t.dirty[r] = Cols BY <1>8, <2>1 DEF OneInv, Own, ApiFits
    <3>2. ASSUME NEW w \in Workers, Open(w) PROVE sess[w].view[r].state = "none"
      <4>1. w \in Procs /\ w # p BY <1>8 DEF OneWorker, Procs
      <4>2. sess[w].dirty[r] = {} BY <1>8, <3>2, <4>1 DEF Publishable
      <4> QED BY <3>1, <3>2, <4>1, <4>2 DEF OneInv, Own, Coherent, Sound
    <3> QED BY <2>1, <3>1, <3>2
  <2> QED BY <1>8, <2>1 DEF Publishable
<1>9. ASSUME NEW r \in Runs, \A w \in Workers : Open(w)' => sess'[w].view[r].state = "none"
      PROVE  Ahead(Rank, r, run[r], WaitsOf(r))'
  <2>1. CASE p \in Workers
    <3>1. t = sess[p] /\ JobAhead(Rank, t) BY <2>1 DEF Publishable, MailInv
    <3>2. CASE t.view[r].state = "none"
      <4>1. t.dirty[r] = {} BY <3>1, <3>2 DEF JobAhead
      <4>2. \A w \in Workers : Open(w) => sess[w].view[r].state = "none"
        BY <2>1, <3>1, <3>2 DEF OneWorker
      <4>3. Ahead(Rank, r, run[r], WaitsOf(r)) BY <4>2 DEF MailInv, RowAhead
      <4> QED BY <1>4, <1>5, <4>1, <4>3
    <3>3. CASE t.view[r].state # "none"
      <4>1. Ahead(Rank, r, t.view[r], Heard(t, r)) BY <3>1, <3>3 DEF JobAhead
      <4>2. run'[r].step = t.view[r].step BY <1>4, <3>1, <3>3 DEF JobAhead
      <4>3. CASE run'[r].state = t.view[r].state BY <1>4, <1>5, <4>1, <4>2, <4>3
      <4>4. CASE run'[r].state # t.view[r].state
        <5>1. run'[r].state \in {"cancelling"} \cup Terminal
          BY <1>4, <3>1, <3>3, <4>4 DEF JobAhead
        <5> QED BY <1>6, <5>1
      <4> QED BY <4>3, <4>4
    <3> QED BY <3>2, <3>3
  <2>2. CASE p \in Api
    <3>1. \A w \in Workers : w \in Procs \ {p} BY <2>2 DEF OneWorker, Procs
    <3>2. \A w \in Workers : Open(w) => sess[w].view[r].state = "none"
      BY <1>1, <1>9, <3>1 DEF Open
    <3>3. Ahead(Rank, r, run[r], WaitsOf(r)) BY <3>2 DEF MailInv, RowAhead
    <3>4. CASE t.dirty[r] = {} BY <1>4, <1>5, <3>3, <3>4
    <3>5. CASE t = sess[p] /\ t.dirty[r] = Cols
      <4>1. t.dirty[r] # {} /\ "state" \in t.dirty[r] /\ "step" \in t.dirty[r]
        BY <3>5 DEF Cols
      <4>2. RequestAhead(Rank, t) BY <2>2, <3>5 DEF MailInv
      <4>3. Ahead(Rank, r, t.view[r], Heard(t, r)) BY <4>1, <4>2 DEF RequestAhead
      <4> QED BY <1>4, <1>5, <4>1, <4>3
    <3>6. CASE "state" \in t.dirty[r] /\ t.view[r].state \in {"cancelling", "cancelled"}
      <4>1. run'[r].state \in {"cancelling"} \cup Terminal BY <1>4, <3>6 DEF Terminal
      <4> QED BY <1>6, <4>1
    <3> QED BY <1>8, <2>2, <3>4, <3>5, <3>6
  <2> QED BY <2>1, <2>2 DEF Procs
<1>10. ASSUME NEW w \in Workers, Open(w)' PROVE JobAhead(Rank, sess[w])'
  <2>1. w \in Procs /\ w # p /\ Open(w) BY <1>2, <1>10 DEF Procs
  <2>2. p \in Api BY <2>1 DEF OneWorker, Procs
  <2>3. PICK z : z = sess[w] OBVIOUS
  <2>4. z \in Session /\ JobAhead(Rank, z) BY <2>1, <2>3 DEF TypeOK, Open, MailInv
  <2>5. ASSUME NEW q \in Runs, z.view[q].state # "none"
        PROVE  /\ run'[q].step = run[q].step /\ WaitsOf(q)' \subseteq WaitsOf(q)
               /\ run'[q].state \in {run[q].state, "cancelling"} \cup Terminal
    <3>1. CASE t.dirty[q] = {} BY <1>4, <3>1
    <3>2. CASE /\ "state" \in t.dirty[q] /\ "step" \notin t.dirty[q] /\ t.added = {}
               /\ t.view[q].state \in {"cancelling", "cancelled"}
      <4>1. Heard(t, q) \subseteq WaitsOf(q) BY <3>2 DEF Heard
      <4> QED BY <1>4, <3>2, <4>1 DEF Terminal
    <3> QED BY <1>8, <2>1, <2>2, <2>3, <2>5, <3>1, <3>2
  <2>6. ASSUME NEW q \in Runs, z.view[q].state # "none"
        PROVE  Ahead(Rank, q, z.view[q], Heard(z, q))'
    <3>1. Heard(z, q)' \subseteq Heard(z, q) BY <2>5, <2>6 DEF Heard
    <3>2. Ahead(Rank, q, z.view[q], Heard(z, q)) BY <2>4, <2>6 DEF JobAhead
    <3> QED BY <1>5, <3>1, <3>2
  <2>7. ASSUME NEW x \in z.waits, x[1] \notin z.purged PROVE Past(Rank, x[1], x[2])'
    BY <2>4, <2>7 DEF JobAhead, Past
  <2>8. JobAhead(Rank, z)' BY <2>4, <2>5, <2>6, <2>7 DEF JobAhead
  <2> QED BY <1>1, <2>1, <2>3, <2>8, JobPrime
<1>11. ASSUME NEW a \in Api, Open(a)' PROVE RequestAhead(Rank, sess[a])'
  <2>1. a \in Procs /\ a # p /\ Open(a) BY <1>2, <1>11 DEF Procs
  <2>2. PICK z : z = sess[a] OBVIOUS
  <2>3. RequestAhead(Rank, z) BY <2>1, <2>2 DEF MailInv
  <2>4. ASSUME NEW q \in Runs, z.dirty[q] # {} PROVE Ahead(Rank, q, z.view[q], Heard(z, q))'
    <3>1. t.dirty[q] = {} BY <2>1, <2>2, <2>4 DEF Publishable
    <3>2. Heard(z, q)' = Heard(z, q) BY <1>4, <3>1 DEF Heard
    <3>3. Ahead(Rank, q, z.view[q], Heard(z, q)) BY <2>3, <2>4 DEF RequestAhead
    <3> QED BY <1>5, <3>2, <3>3
  <2>5. RequestAhead(Rank, z)' BY <2>4 DEF RequestAhead
  <2> QED BY <1>1, <2>1, <2>2, <2>5, JobPrime
<1> QED BY <1>7, <1>9, <1>10, <1>11 DEF MailInv, RowAhead

LEMMA MailInit == ASSUME NEW Rank, OneWorker, Init PROVE MailInv(Rank)
<1>1. \A p \in Workers \cup Api : ~Open(p) BY DEF Init, Open, Procs
<1>2. \A x \in Runs \X Steps : sent[x] = 0 BY DEF Init
<1>3. \A r \in Runs : run[r].state = "none" BY DEF Init, NoRow
<1>4. EmailOnce BY <1>2 DEF EmailOnce
<1> QED BY <1>1, <1>3, <1>4 DEF MailInv, RowAhead, Ahead, Parked

LEMMA MailNext ==
    ASSUME NEW Rank, Ranks(Rank), OneWorker, MaxFaults = 0, "failed" \notin Troubles,
           TypeOK, EndInv, OneInv, MailInv(Rank), [Next]_vars
    PROVE  MailInv(Rank)'
<1>1. ASSUME run' = run, wait' = wait, sess' = sess, sent' = sent PROVE MailInv(Rank)'
  <2>1. \A r : WaitsOf(r)' = WaitsOf(r) BY <1>1 DEF WaitsOf
  <2>3. \A r, row, ws : Ahead(Rank, r, row, ws) <=> Ahead(Rank, r, row, ws)'
    BY <1>1 DEF Ahead, Past
  <2>4. \A r \in Runs : RowAhead(Rank, r)'
    BY <1>1, <2>1, <2>3 DEF MailInv, RowAhead, Open
  <2>5. ASSUME NEW q
        PROVE  /\ JobAhead(Rank, sess[q]) => JobAhead(Rank, sess[q])'
               /\ RequestAhead(Rank, sess[q]) => RequestAhead(Rank, sess[q])'
    <3>1. PICK z : z = sess[q] OBVIOUS
    <3>2. \A r : Heard(z, r)' = Heard(z, r) BY <2>1 DEF Heard
    <3>3. JobAhead(Rank, z) => JobAhead(Rank, z)'
      BY <1>1, <2>3, <3>2 DEF JobAhead, Past
    <3>4. RequestAhead(Rank, z) => RequestAhead(Rank, z)'
      BY <2>3, <3>2 DEF RequestAhead
    <3> QED BY <1>1, <3>1, <3>3, <3>4, JobPrime
  <2> QED BY <1>1, <2>4, <2>5 DEF MailInv, EmailOnce, Open
<1>2. CASE UNCHANGED vars BY <1>1, <1>2 DEF vars
<1>3. CASE Clock BY <1>3, MailClock
<1>4. ASSUME NEW on \in BOOLEAN, SetActive(on) PROVE MailInv(Rank)'
  BY <1>1, <1>4 DEF SetActive, store
<1>5. ASSUME NEW p \in Procs, Work(p) PROVE MailInv(Rank)'
  <2>1. Open(p) BY <1>5 DEF Work
  <2>2. ASSUME NEW t, Continues(p, t) PROVE MailInv(Rank)' BY <2>1, <2>2, MailGoesOn
  <2>3. ~GivesUp(p) BY DEF GivesUp
  <2>4. ASSUME NEW t, Publishable(p, t), Publish(p, t), sent' = sent PROVE MailInv(Rank)'
    BY <2>1, <2>4, MailPublishes
  <2> QED BY <1>5, <2>2, <2>3, <2>4, WorkEffect
<1>6. ASSUME NEW p \in Procs, Crash(p) PROVE FALSE BY <1>6 DEF Crash, TypeOK
<1>7. ASSUME NEW p \in Procs,
             \/ BeginTick(p) \/ \E c \in Contacts : BeginManual(p, c)
             \/ \E r \in Runs : BeginCancel(p, r)
             \/ \E e \in Events, c \in Contacts, pass \in BOOLEAN : BeginEvent(p, e, c, pass)
      PROVE MailInv(Rank)'
  <2>1. ~Open(p) /\ UNCHANGED store /\ sent' = sent BY <1>7, BeginEffect
  <2>2. PICK phase \in Phases, runs \in SUBSET Runs, waits \in SUBSET WaitIds,
             admit \in SUBSET Contacts :
                  Selects(p, phase, runs, waits, admit)
    BY <1>7, BeginEffect
  <2> QED BY <2>1, <2>2, MailBegins DEF Selects
<1> QED BY <1>2, <1>3, <1>4, <1>5, <1>6, <1>7 DEF Next

\* With one worker, on a workflow whose steps can be ranked along its edges (it has
\* no cycle), and while no transaction is lost: whatever a run does next, by its row
\* or by the open job that knows it, lies behind every email it has sent.
THEOREM EmailsLieBehind ==
    ASSUME NEW Rank, Ranks(Rank), OneWorker, MaxFaults = 0, "failed" \notin Troubles
    PROVE  Spec => []MailInv(Rank)
<1>1. Init => MailInv(Rank) BY MailInit
<1>2. TypeOK /\ EndInv /\ OneInv /\ MailInv(Rank) /\ [Next]_vars => MailInv(Rank)'
  BY MailNext
<1>3. Spec => [](TypeOK /\ EndInv /\ OneInv) BY OneAlways
<1> QED BY <1>1, <1>2, <1>3, PTL DEF Spec

\* In the production layout the waits of a run go with its state, and its emails lie
\* behind whatever it does next, at every moment and in every open transaction.
THEOREM DeploymentAgrees ==
    OneWorker /\ MaxFaults = 0 /\ "failed" \notin Troubles /\ Ranks(StepRank)
        => (Spec => []WaitsAndEmailsAgree)
<1> SUFFICES ASSUME OneWorker, MaxFaults = 0, "failed" \notin Troubles,
                    NEW Rank, Rank = StepRank, Ranks(Rank)
             PROVE  Spec => []WaitsAndEmailsAgree
  OBVIOUS
<1>1. Spec => []OneInv BY WaitsGoWithState
<1>2. Spec => []MailInv(Rank) BY EmailsLieBehind
<1>3. OneInv /\ MailInv(Rank) => WaitsAndEmailsAgree BY DEF WaitsAndEmailsAgree
<1> QED BY <1>1, <1>2, <1>3, PTL

\* So no step of a run puts its email on the wire twice.
THEOREM MailedOnce ==
    OneWorker /\ MaxFaults = 0 /\ "failed" \notin Troubles /\ (\E Rank : Ranks(Rank))
        => (Spec => []EmailOnce)
<1> SUFFICES ASSUME OneWorker, MaxFaults = 0, "failed" \notin Troubles,
                    NEW Rank, Ranks(Rank)
             PROVE  Spec => []EmailOnce
  OBVIOUS
<1>1. MailInv(Rank) => EmailOnce BY DEF MailInv
<1>2. Spec => []MailInv(Rank) BY EmailsLieBehind
<1> QED BY <1>1, <1>2, PTL
=============================================================================
