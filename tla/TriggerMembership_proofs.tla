----------------------- MODULE TriggerMembership_proofs -----------------------
(***************************************************************************)
(* For any workflows, contacts, requests and faults: a contact fires only  *)
(* when it came in since it last fired, the baseline of an activation      *)
(* holds, and without reentry a contact fires once.                        *)
(***************************************************************************)
EXTENDS TriggerMembership, TLAPS

IndInv == TypeOK /\ MembershipInv /\ FiresOnce

\* The step fires none but contacts entitled to it.
FiresRightly ==
    \A p \in Pairs : Fires(p) => owed[p] \in {"yes"} \cup
                                     (IF p[1] \in Reentry THEN {"raced"} ELSE {})

LEMMA MembershipInit == Init => IndInv
<1> SUFFICES ASSUME Init PROVE IndInv OBVIOUS
<1>1. TypeOK BY DEF Init, TypeOK
<1>2. MembershipInv
  BY DEF Init, MembershipInv, OutsideIsOwed, TickIsOwed, OnceIsKept, RequestsAgree, Entitled
<1>3. FiresOnce BY DEF Init, FiresOnce
<1> QED BY <1>1, <1>2, <1>3 DEF IndInv

-----------------------------------------------------------------------------
(* Contacts and requests                                                   *)

LEMMA ComesInKeeps ==
    ASSUME IndInv, NEW p \in Pairs, ComesIn(p) PROVE IndInv' /\ FiresRightly
<1> USE DEF IndInv, MembershipInv, TypeOK, ComesIn
<1>1. TypeOK' BY DEF Spend
<1>2. /\ \A q \in Pairs : q # p => owed'[q] = owed[q]
      /\ owed'[p] = "yes"
  OBVIOUS
<1>3. OutsideIsOwed' BY <1>2 DEF OutsideIsOwed, Entitled
<1>4. TickIsOwed'
  <2>1. CASE tick # None
    <3>1. tick \in Tick BY <2>1
    <3> QED BY <1>2, <2>1, <3>1 DEF TickIsOwed, Entitled, Tick
  <2> QED BY <2>1 DEF TickIsOwed
<1>5. OnceIsKept' BY <1>2 DEF OnceIsKept
<1>6. RequestsAgree' BY DEF RequestsAgree
<1>7. FiresOnce' /\ FiresRightly BY DEF FiresOnce, FiresRightly, Fires
<1> QED BY <1>1, <1>3, <1>4, <1>5, <1>6, <1>7

LEMMA LeavesKeeps ==
    ASSUME IndInv, NEW p \in Pairs, Leaves(p) PROVE IndInv' /\ FiresRightly
<1> USE DEF IndInv, MembershipInv, TypeOK, Leaves
<1>1. TypeOK' BY DEF Spend
<1>2. OutsideIsOwed' BY DEF OutsideIsOwed, Entitled
<1>3. TickIsOwed' BY DEF TickIsOwed, Entitled
<1>4. OnceIsKept' BY DEF OnceIsKept
<1>5. RequestsAgree' BY DEF RequestsAgree
<1>6. FiresOnce' /\ FiresRightly BY DEF FiresOnce, FiresRightly, Fires
<1> QED BY <1>1, <1>2, <1>3, <1>4, <1>5, <1>6

LEMMA PauseKeeps ==
    ASSUME IndInv, NEW w \in Workflows, Pause(w) PROVE IndInv' /\ FiresRightly
<1> USE DEF IndInv, MembershipInv, TypeOK, Pause
<1>1. TypeOK' BY DEF Spend
<1>2. OutsideIsOwed' BY DEF OutsideIsOwed, Entitled
<1>3. TickIsOwed' BY DEF TickIsOwed, Entitled
<1>4. OnceIsKept' BY DEF OnceIsKept
<1>5. RequestsAgree' BY DEF RequestsAgree
<1>6. FiresOnce' /\ FiresRightly BY DEF FiresOnce, FiresRightly, Fires
<1> QED BY <1>1, <1>2, <1>3, <1>4, <1>5, <1>6

LEMMA BeginActivateKeeps ==
    ASSUME IndInv, NEW c \in Clients, NEW w \in Workflows, BeginActivate(c, w)
    PROVE  IndInv' /\ FiresRightly
<1> USE DEF IndInv, MembershipInv, TypeOK, BeginActivate
<1> DEFINE q == [workflow |-> w, met |-> meets \cap Of(w),
                 seed |-> (meets \cap Of(w)) \ rows, was |-> w \in active]
<1>1. q \in Request BY DEF Request, Of
<1>2. request' = [request EXCEPT ![c] = q] OBVIOUS
<1>3. request' \in [Clients -> Request \cup {None}] BY <1>1, <1>2
<1>4. TypeOK' BY <1>3 DEF Spend
<1>5. OutsideIsOwed' BY DEF OutsideIsOwed, Entitled
<1>6. TickIsOwed' BY DEF TickIsOwed, Entitled
<1>7. OnceIsKept' BY DEF OnceIsKept
<1>8. RequestsAgree'
  <2>1. \A p \in q.met : p \in rows \cup q.seed OBVIOUS
  <2>2. request'[c] = q BY <1>2
  <2>3. \A d \in Clients : d # c => request'[d] = request[d] BY <1>2
  <2> HIDE DEF q
  <2> QED BY <2>1, <2>2, <2>3 DEF RequestsAgree
<1>9. FiresOnce' /\ FiresRightly BY DEF FiresOnce, FiresRightly, Fires
<1> QED BY <1>4, <1>5, <1>6, <1>7, <1>8, <1>9

\* An activation adds rows; whom it counts on without a row that lasts is raced.
LEMMA EndActivateKeeps ==
    ASSUME IndInv, NEW c \in Clients, EndActivate(c) PROVE IndInv' /\ FiresRightly
<1> USE DEF IndInv, MembershipInv, TypeOK
<1> DEFINE q == request[c]
<1>1. q \in Request BY NoneAssumption DEF EndActivate
<1>2. q.met \subseteq Pairs /\ q.seed \subseteq Pairs /\ q.workflow \in Workflows
  BY <1>1 DEF Request
<1>3. /\ UNCHANGED <<meets, tick, fired, mailed, counts>>
      /\ request' = [request EXCEPT ![c] = None]
      /\ q # None
      /\ tick # None => q.seed \cap tick.new = {}
  BY DEF EndActivate
<1>4. request'[c] = None /\ \A d \in Clients : d # c => request'[d] = request[d] BY <1>3
<1>5. FiresRightly BY <1>3 DEF FiresRightly, Fires
<1>6. FiresOnce' BY <1>3 DEF FiresOnce
<1>7. CASE q.seed \cap rows # {}
  <2>1. UNCHANGED <<active, rows, owed>> BY <1>7 DEF EndActivate
  <2>2. TypeOK' BY <1>3, <2>1
  <2>3. OutsideIsOwed' BY <1>3, <2>1 DEF OutsideIsOwed, Entitled
  <2>4. TickIsOwed' BY <1>3, <2>1 DEF TickIsOwed, Entitled
  <2>5. OnceIsKept' BY <1>3, <2>1 DEF OnceIsKept
  <2>6. RequestsAgree' BY <1>3, <1>4, <2>1 DEF RequestsAgree
  <2> QED BY <1>5, <1>6, <2>2, <2>3, <2>4, <2>5, <2>6
<1>8. CASE q.seed \cap rows = {}
  <2>1. /\ rows' = rows \cup q.seed
        /\ active' = IF q.was THEN active ELSE active \cup {q.workflow}
        /\ owed' = Based(q)
    BY <1>8 DEF EndActivate
  <2>2. \A p \in Pairs :
           /\ p \notin q.met => owed'[p] = owed[p]
           /\ p \in q.met /\ p \in rows' /\ ~Doomed(p) => owed'[p] = "based"
           /\ p \in q.met /\ (p \notin rows' \/ Doomed(p)) => owed'[p] = "raced"
    BY <2>1 DEF Based
  <2>3. TypeOK'
    <3>1. owed' \in [Pairs -> {"no", "yes", "based", "raced"}] BY <2>1 DEF Based
    <3> QED BY <1>2, <1>3, <2>1, <3>1
  <2>4. OutsideIsOwed' BY <1>3, <2>1, <2>2 DEF OutsideIsOwed, Entitled
  <2>5. TickIsOwed'
    <3>1. CASE tick # None
      <4>1. tick \in Tick BY <3>1
      <4>2. \A p \in meets' \cap tick'.gone : Entitled(p)'
        BY <1>3, <2>2, <3>1, <4>1 DEF TickIsOwed, Entitled, Doomed, Tick
      <4>3. \A p \in (tick'.todo \cup tick'.started) \ rows' : Entitled(p)'
        BY <1>3, <2>1, <2>2, <3>1, <4>1 DEF TickIsOwed, Entitled, Tick
      <4>4. /\ tick'.started \subseteq tick'.new /\ tick'.gone \subseteq rows'
            /\ tick'.new \cap (rows' \cup tick'.todo \cup tick'.gone) = {}
        BY <1>3, <2>1, <3>1 DEF TickIsOwed
      <4> QED BY <4>2, <4>3, <4>4 DEF TickIsOwed
    <3> QED BY <1>3, <3>1 DEF TickIsOwed
  <2>6. OnceIsKept'
    <3>1. \A p \in Pairs : p[1] \notin Reentry /\ p \in q.met => p \in rows'
      BY <1>3, <2>1 DEF RequestsAgree
    <3>2. \A p \in Pairs : p[1] \notin Reentry => ~Doomed(p) BY DEF OnceIsKept, Doomed
    <3> QED BY <1>3, <2>1, <2>2, <3>1, <3>2 DEF OnceIsKept
  <2>7. RequestsAgree' BY <1>4, <2>1 DEF RequestsAgree
  <2> QED BY <1>5, <1>6, <2>3, <2>4, <2>5, <2>6, <2>7
<1> QED BY <1>7, <1>8

-----------------------------------------------------------------------------
(* The tick                                                                *)

LEMMA TickBeginsKeeps == ASSUME IndInv, TickBegins PROVE IndInv' /\ FiresRightly
<1> USE DEF IndInv, MembershipInv, TypeOK, TickBegins
<1>1. tick' = [todo |-> (meets \cap On) \ rows, new |-> {}, started |-> {},
               gone |-> {p \in (rows \cap On) \ meets : p[1] \in Reentry}]
  OBVIOUS
<1>2. tick' \in Tick BY <1>1 DEF Tick, On
<1>3. TypeOK' BY <1>2
<1>4. OutsideIsOwed' BY DEF OutsideIsOwed, Entitled
<1>5. TickIsOwed' BY <1>1 DEF TickIsOwed, OutsideIsOwed, Entitled
<1>6. OnceIsKept' BY <1>1 DEF OnceIsKept
<1>7. RequestsAgree' BY DEF RequestsAgree
<1>8. FiresOnce' /\ FiresRightly BY DEF FiresOnce, FiresRightly, Fires
<1> QED BY <1>3, <1>4, <1>5, <1>6, <1>7, <1>8

LEMMA EntersKeeps ==
    ASSUME IndInv, NEW p \in Pairs, Enters(p) PROVE IndInv' /\ FiresRightly
<1> USE DEF IndInv, MembershipInv, TypeOK
<1>1. tick # None /\ tick \in Tick /\ p \in tick.todo /\ p \notin rows BY DEF Enters, Takes
<1>2. UNCHANGED <<active, meets, rows, request, owed, fired, counts>> BY DEF Enters
<1>3. mailed' \in [Pairs -> Nat] BY DEF Enters, More
<1>4. /\ tick' \in Tick
      /\ tick'.todo = tick.todo \ {p} /\ tick'.new = tick.new \cup {p}
      /\ tick'.started \subseteq tick.started \cup {p} /\ tick'.gone = tick.gone
  <2> DEFINE T == [tick EXCEPT !.todo = @ \ {p}, !.new = @ \cup {p}]
  <2>1. /\ T \in Tick
        /\ T.todo = tick.todo \ {p} /\ T.new = tick.new \cup {p}
        /\ T.started = tick.started /\ T.gone = tick.gone
    BY <1>1 DEF Tick
  <2>2. tick' = T \/ tick' = [T EXCEPT !.started = T.started \cup {p}]
    BY DEF Enters, Treated
  <2> HIDE DEF T
  <2>3. CASE tick' = T BY <2>1, <2>3
  <2>4. CASE tick' = [T EXCEPT !.started = T.started \cup {p}] BY <2>1, <2>4 DEF Tick
  <2> QED BY <2>2, <2>3, <2>4
<1>5. TypeOK' BY <1>2, <1>3, <1>4
<1>6. OutsideIsOwed' BY <1>2 DEF OutsideIsOwed, Entitled
<1>7. TickIsOwed'
  <2>1. \A x \in meets' \cap tick'.gone : Entitled(x)'
    BY <1>1, <1>2, <1>4 DEF TickIsOwed, Entitled
  <2>2. \A x \in (tick'.todo \cup tick'.started) \ rows' : Entitled(x)'
    BY <1>1, <1>2, <1>4 DEF TickIsOwed, Entitled
  <2>3. tick'.gone \subseteq rows' BY <1>1, <1>2, <1>4 DEF TickIsOwed
  <2>4. tick'.started \subseteq tick'.new
    <3>1. tick.started \subseteq tick.new BY <1>1 DEF TickIsOwed
    <3> QED BY <1>4, <3>1
  <2>5. tick'.new \cap (rows' \cup tick'.todo \cup tick'.gone) = {}
    BY <1>1, <1>2, <1>4 DEF TickIsOwed
  <2> QED BY <2>1, <2>2, <2>3, <2>4, <2>5 DEF TickIsOwed
<1>8. OnceIsKept' BY <1>1, <1>2, <1>4 DEF OnceIsKept
<1>9. RequestsAgree' BY <1>2 DEF RequestsAgree
<1>10. FiresOnce' /\ FiresRightly BY <1>2 DEF FiresOnce, FiresRightly, Fires
<1> QED BY <1>5, <1>6, <1>7, <1>8, <1>9, <1>10

LEMMA RollbackKeeps ==
    ASSUME IndInv, RolledBack, mailed' \in [Pairs -> Nat],
           counts' \in [{"moves", "requests", "faults", "lost"} -> Nat]
    PROVE  IndInv' /\ FiresRightly
<1> USE DEF IndInv, MembershipInv, TypeOK, RolledBack
<1>1. TypeOK' OBVIOUS
<1>2. OutsideIsOwed' BY DEF OutsideIsOwed, Entitled
<1>3. TickIsOwed' BY DEF TickIsOwed
<1>4. OnceIsKept' BY DEF OnceIsKept
<1>5. RequestsAgree' BY DEF RequestsAgree
<1>6. FiresOnce' /\ FiresRightly BY DEF FiresOnce, FiresRightly, Fires
<1> QED BY <1>1, <1>2, <1>3, <1>4, <1>5, <1>6

LEMMA LostTickKeeps ==
    ASSUME IndInv,
           Killed \/ \E p \in Pairs : Collides(p) \/ StepFails(p)
    PROVE  IndInv' /\ FiresRightly
<1>1. RolledBack BY DEF Killed, Collides, StepFails
<1>2. mailed' \in [Pairs -> Nat]
  BY DEF Killed, Collides, StepFails, More, IndInv, TypeOK
<1>3. counts' \in [{"moves", "requests", "faults", "lost"} -> Nat]
  <2>1. counts \in [{"moves", "requests", "faults", "lost"} -> Nat] BY DEF IndInv, TypeOK
  <2>2. CASE \E p \in Pairs : Collides(p) BY <2>1, <2>2 DEF Collides, Spend
  <2>3. CASE Killed \/ \E p \in Pairs : StepFails(p)
    <3>1. counts' = [counts EXCEPT !.faults = @ + 1, !.lost = @ + 1]
      BY <2>3 DEF Killed, StepFails, Fault
    <3>2. counts.faults + 1 \in Nat /\ counts.lost + 1 \in Nat BY <2>1
    <3> QED BY <2>1, <3>1, <3>2
  <2> QED BY <2>2, <2>3
<1> QED BY <1>1, <1>2, <1>3, RollbackKeeps

\* Only here contacts fire: each is outside the rows, so it is owed a firing and, if
\* its workflow has no reentry, never fired before.
LEMMA TickCommitsKeeps == ASSUME IndInv, TickCommits PROVE IndInv' /\ FiresRightly
<1> USE DEF IndInv, MembershipInv, TypeOK
<1>1. /\ tick # None /\ tick \in Tick /\ tick' = None
      /\ rows' = (rows \cup tick.new) \ tick.gone
      /\ owed' = [p \in Pairs |-> IF p \in tick.started THEN "no" ELSE owed[p]]
      /\ fired' = [p \in Pairs |-> IF p \in tick.started THEN fired[p] + 1 ELSE fired[p]]
      /\ UNCHANGED <<active, meets, request, mailed, counts>>
  BY DEF TickCommits
<1>2. /\ tick.started \subseteq Pairs /\ tick.new \subseteq Pairs /\ tick.gone \subseteq Pairs
  BY <1>1 DEF Tick
<1>3. /\ tick.started \subseteq tick.new
      /\ tick.new \cap rows = {} /\ tick.new \cap tick.gone = {}
  BY <1>1 DEF TickIsOwed
<1>4. \A p \in tick.started : Entitled(p) BY <1>1, <1>3 DEF TickIsOwed
<1>5. \A p \in Pairs : p \notin tick.started => owed'[p] = owed[p] /\ fired'[p] = fired[p]
  BY <1>1
<1>6. \A p \in tick.started : fired'[p] = fired[p] + 1 /\ owed'[p] = "no" BY <1>1, <1>2
<1>7. \A p \in tick.started : p[1] \notin Reentry => fired[p] = 0 /\ owed[p] # "raced"
  BY <1>2, <1>3 DEF OnceIsKept
<1>8. TypeOK' BY <1>1, <1>2
<1>9. OutsideIsOwed'
  <2> SUFFICES ASSUME NEW p \in meets, p \notin rows' PROVE owed'[p] \in {"yes", "raced"}
    BY <1>1 DEF OutsideIsOwed, Entitled
  <2>1. p \notin tick.started BY <1>1, <1>3
  <2>2. owed'[p] = owed[p] BY <1>5, <2>1
  <2>3. CASE p \in tick.gone BY <1>1, <2>2, <2>3 DEF TickIsOwed, Entitled
  <2>4. CASE p \notin tick.gone BY <1>1, <2>2, <2>4 DEF OutsideIsOwed, Entitled
  <2> QED BY <2>3, <2>4
<1>10. TickIsOwed' BY <1>1 DEF TickIsOwed
<1>11. OnceIsKept'
  <2> SUFFICES ASSUME NEW p \in Pairs, p[1] \notin Reentry
               PROVE  /\ fired'[p] > 0 \/ owed'[p] = "based" => p \in rows'
                      /\ owed'[p] # "raced"
    BY <1>1 DEF OnceIsKept
  <2>1. p \notin tick.gone BY <1>1 DEF OnceIsKept
  <2>2. CASE p \in tick.started BY <1>1, <1>3, <1>6, <2>1, <2>2
  <2>3. CASE p \notin tick.started BY <1>1, <1>5, <2>1, <2>3 DEF OnceIsKept
  <2> QED BY <2>2, <2>3
<1>12. RequestsAgree'
  <2>1. \A d \in Clients : request[d] # None => request[d].met \subseteq Pairs
    BY DEF Request
  <2>2. \A p \in rows : p \in Pairs /\ p[1] \notin Reentry => p \in rows'
    BY <1>1 DEF OnceIsKept
  <2> QED BY <1>1, <2>1, <2>2 DEF RequestsAgree
<1>13. FiresOnce'
  <2> SUFFICES ASSUME NEW p \in Pairs, p[1] \notin Reentry PROVE fired'[p] <= 1
    BY DEF FiresOnce
  <2>1. CASE p \in tick.started BY <1>6, <1>7, <2>1
  <2>2. CASE p \notin tick.started BY <1>5, <2>2 DEF FiresOnce
  <2> QED BY <2>1, <2>2
<1>14. FiresRightly
  <2> SUFFICES ASSUME NEW p \in Pairs, fired'[p] > fired[p]
               PROVE  owed[p] \in {"yes"} \cup (IF p[1] \in Reentry THEN {"raced"} ELSE {})
    BY DEF FiresRightly, Fires
  <2>1. p \in tick.started BY <1>5
  <2> QED BY <1>4, <1>7, <2>1 DEF Entitled
<1> QED BY <1>8, <1>9, <1>10, <1>11, <1>12, <1>13, <1>14

LEMMA IdleKeeps == ASSUME IndInv, UNCHANGED vars PROVE IndInv' /\ FiresRightly
<1> USE DEF IndInv, MembershipInv, TypeOK, vars
<1>1. TypeOK' OBVIOUS
<1>2. OutsideIsOwed' BY DEF OutsideIsOwed, Entitled
<1>3. TickIsOwed' BY DEF TickIsOwed, Entitled
<1>4. OnceIsKept' BY DEF OnceIsKept
<1>5. RequestsAgree' BY DEF RequestsAgree
<1>6. FiresOnce' /\ FiresRightly BY DEF FiresOnce, FiresRightly, Fires
<1> QED BY <1>1, <1>2, <1>3, <1>4, <1>5, <1>6

-----------------------------------------------------------------------------
LEMMA MembershipNext == ASSUME IndInv, [Next]_vars PROVE IndInv' /\ FiresRightly
<1>1. CASE UNCHANGED vars BY <1>1, IdleKeeps
<1>2. CASE TickStep
  BY <1>2, TickBeginsKeeps, TickCommitsKeeps, EntersKeeps, LostTickKeeps DEF TickStep
<1>3. CASE Killed \/ \E p \in Pairs : StepFails(p) BY <1>3, LostTickKeeps
<1>4. ASSUME NEW p \in Pairs, ComesIn(p) \/ Leaves(p) PROVE IndInv' /\ FiresRightly
  BY <1>4, ComesInKeeps, LeavesKeeps
<1>5. ASSUME NEW w \in Workflows, Pause(w) PROVE IndInv' /\ FiresRightly
  BY <1>5, PauseKeeps
<1>6. ASSUME NEW c \in Clients,
             EndActivate(c) \/ \E w \in Workflows : BeginActivate(c, w)
      PROVE  IndInv' /\ FiresRightly
  BY <1>6, EndActivateKeeps, BeginActivateKeeps
<1> QED BY <1>1, <1>2, <1>3, <1>4, <1>5, <1>6 DEF Next

LEMMA MembershipInductive == Spec => []IndInv
<1>1. IndInv /\ [Next]_vars => IndInv' BY MembershipNext
<1> QED BY <1>1, MembershipInit, PTL DEF Spec

-----------------------------------------------------------------------------
(* Emails against runs                                                     *)

Hand(p) == IF tick # None /\ p \in tick.started THEN 1 ELSE 0

LEMMA MailedNext ==
    ASSUME IndInv, MailedOncePerRun, [Next]_vars PROVE MailedOncePerRun'
<1> USE DEF IndInv, TypeOK
<1>1. \A p \in Pairs : /\ mailed[p] \in Nat /\ fired[p] \in Nat /\ counts.lost \in Nat
                       /\ Hand(p) \in {0, 1}
                       /\ mailed[p] <= fired[p] + counts.lost + Hand(p)
  BY DEF MailedOncePerRun, Hand
<1>2. SUFFICES \A p \in Pairs : mailed'[p] <= fired'[p] + counts'.lost + Hand(p)'
  BY DEF MailedOncePerRun, Hand
<1>3. CASE UNCHANGED <<tick, fired, mailed>> /\ counts'.lost = counts.lost
  BY <1>1, <1>3 DEF Hand
<1>4. CASE TickBegins
  <2>1. UNCHANGED <<fired, mailed, counts>> /\ tick = None BY <1>4 DEF TickBegins
  <2>2. \A p \in Pairs : Hand(p) = 0 /\ Hand(p)' \in {0, 1} BY <2>1 DEF Hand
  <2> QED BY <1>1, <2>1, <2>2
<1>5. CASE TickCommits
  <2>1. /\ UNCHANGED <<mailed, counts>> /\ tick # None /\ tick' = None
        /\ \A p \in Pairs : fired'[p] = fired[p] + Hand(p)
    BY <1>1, <1>5 DEF TickCommits, Hand
  <2>2. \A p \in Pairs : Hand(p)' = 0 BY <2>1 DEF Hand
  <2> QED BY <1>1, <2>1, <2>2
<1>6. ASSUME NEW p \in Pairs, Enters(p) PROVE MailedOncePerRun'
  <2>1. /\ tick # None /\ tick \in Tick /\ p \in tick.todo
        /\ UNCHANGED <<fired, counts>>
    BY <1>6 DEF Enters, Takes
  <2>2. p \notin tick.started BY <2>1 DEF MembershipInv, TickIsOwed
  <2>3. CASE tick' = [Treated(p) EXCEPT !.started = @ \cup {p}] /\ mailed' = More(p)
    <3>1. tick'.started = tick.started \cup {p} /\ tick' # None
      <4> DEFINE T == [tick EXCEPT !.todo = @ \ {p}, !.new = @ \cup {p}]
      <4>1. T \in Tick /\ T.started = tick.started BY <2>1 DEF Tick
      <4>2. tick' = [T EXCEPT !.started = T.started \cup {p}] BY <2>3 DEF Treated
      <4> HIDE DEF T
      <4>3. [T EXCEPT !.started = T.started \cup {p}] \in Tick BY <4>1 DEF Tick
      <4> QED BY <4>1, <4>2, <4>3, NoneAssumption DEF Tick
    <3>2. Hand(p) = 0 /\ Hand(p)' = 1 BY <2>2, <3>1 DEF Hand
    <3>3. \A q \in Pairs : q # p => Hand(q)' = Hand(q) BY <2>1, <3>1 DEF Hand
    <3>4. mailed'[p] = mailed[p] + 1 /\ \A q \in Pairs : q # p => mailed'[q] = mailed[q]
      BY <2>3 DEF More
    <3>5. \A q \in Pairs : mailed'[q] <= fired'[q] + counts'.lost + Hand(q)'
      BY <1>1, <2>1, <3>2, <3>3, <3>4
    <3> QED BY <3>5 DEF MailedOncePerRun, Hand
  <2>4. CASE tick' = Treated(p) /\ mailed' = mailed
    <3> DEFINE T == [tick EXCEPT !.todo = @ \ {p}, !.new = @ \cup {p}]
    <3>1. T \in Tick /\ T.started = tick.started BY <2>1 DEF Tick
    <3>2. tick' = T BY <2>4 DEF Treated
    <3> HIDE DEF T
    <3>3. \A q \in Pairs : Hand(q)' = Hand(q) BY <2>1, <3>1, <3>2, NoneAssumption DEF Hand
    <3>4. \A q \in Pairs : mailed'[q] <= fired'[q] + counts'.lost + Hand(q)'
      BY <1>1, <2>1, <2>4, <3>3
    <3> QED BY <3>4 DEF MailedOncePerRun, Hand
  <2> QED BY <1>6, <2>3, <2>4 DEF Enters
<1>7. ASSUME Killed \/ \E p \in Pairs : Collides(p) \/ StepFails(p)
      PROVE  \A p \in Pairs : mailed'[p] <= fired'[p] + counts'.lost + Hand(p)'
  <2>1. tick' = None /\ fired' = fired BY <1>7 DEF Killed, Collides, StepFails, RolledBack
  <2>2. counts'.lost = counts.lost + 1
    BY <1>7 DEF Killed, Collides, StepFails, Spend, Fault
  <2>3. \A p \in Pairs : Hand(p)' = 0 BY <2>1 DEF Hand
  <2>4. CASE mailed' = mailed BY <1>1, <2>1, <2>2, <2>3, <2>4
  <2>5. CASE \E p \in Pairs : StepFails(p) /\ mailed' = More(p)
    <3>1. PICK p \in Pairs : StepFails(p) /\ mailed' = More(p) BY <2>5
    <3>2. /\ tick # None /\ tick \in Tick /\ p \in tick.todo BY <3>1 DEF StepFails, Takes
    <3>3. Hand(p) = 0 BY <3>2 DEF MembershipInv, TickIsOwed, Hand
    <3>4. mailed'[p] = mailed[p] + 1 /\ \A q \in Pairs : q # p => mailed'[q] = mailed[q]
      BY <3>1 DEF More
    <3> QED BY <1>1, <2>1, <2>2, <2>3, <3>3, <3>4
  <2> QED BY <1>7, <2>4, <2>5 DEF Killed, Collides, StepFails
<1>8. ASSUME \/ \E p \in Pairs : ComesIn(p) \/ Leaves(p)
             \/ \E w \in Workflows : Pause(w)
             \/ \E c \in Clients : EndActivate(c) \/ \E w \in Workflows : BeginActivate(c, w)
      PROVE  UNCHANGED <<tick, fired, mailed>> /\ counts'.lost = counts.lost
  BY <1>8 DEF ComesIn, Leaves, Pause, EndActivate, BeginActivate, Spend
<1>9. CASE UNCHANGED vars BY <1>3, <1>9 DEF vars
<1>10. CASE Next BY <1>2, <1>3, <1>4, <1>5, <1>6, <1>7, <1>8, <1>10
            DEF Next, TickStep, MailedOncePerRun, Hand
<1> QED BY <1>9, <1>10

-----------------------------------------------------------------------------
\* Every variable keeps its type.
THEOREM MembershipTypes == Spec => []TypeOK
<1>1. IndInv => TypeOK BY DEF IndInv
<1> QED BY <1>1, MembershipInductive, PTL

\* Without reentry a contact fires once and never again.
THEOREM OnceForEver == Spec => []FiresOnce
<1>1. IndInv => FiresOnce BY DEF IndInv
<1> QED BY <1>1, MembershipInductive, PTL

\* Gmail is given no more first emails of a contact than runs of it were started and
\* ticks rolled back.
THEOREM EmailsMatchRuns == Spec => []MailedOncePerRun
<1>1. Init => MailedOncePerRun BY DEF Init, MailedOncePerRun
<1>2. IndInv /\ MailedOncePerRun /\ [Next]_vars => MailedOncePerRun' BY MailedNext
<1> QED BY <1>1, <1>2, MembershipInductive, PTL DEF Spec

\* Between two firings of a contact it left the filter and came in again.
THEOREM TransitionsFire == Spec => FiresOnTransition
<1>1. IndInv /\ [Next]_vars => [\A p \in Pairs : Fires(p) => owed[p] # "no"]_vars
  BY MembershipNext DEF FiresRightly
<1> QED BY <1>1, MembershipInductive, PTL DEF Spec, FiresOnTransition

\* A contact that meets the filter at an activation does not fire for it, but for
\* the race of a tick that deletes its row, and without reentry not even then.
THEOREM BaselineKept == Spec => BaselineHolds
<1>1. IndInv /\ [Next]_vars =>
        [\A p \in Pairs : Fires(p) => owed[p] \in {"yes"} \cup
            (IF p[1] \in Reentry THEN {"raced"} ELSE {})]_vars
  BY MembershipNext DEF FiresRightly
<1> QED BY <1>1, MembershipInductive, PTL DEF Spec, BaselineHolds
=============================================================================
