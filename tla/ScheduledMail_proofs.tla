------------------------ MODULE ScheduledMail_proofs ------------------------
(***************************************************************************)
(* For any number of messages, clients and killed sweeps, and with replies *)
(* to scheduled messages allowed: nobody gets an email twice, and what is  *)
(* shown as pending or failed was not sent.                                *)
(***************************************************************************)
EXTENDS ScheduledMail, TLAPS

IndInv == TypeOK /\ MailInv

LEMMA MailInit == Init => IndInv
<1> SUFFICES ASSUME Init PROVE IndInv OBVIOUS
<1>1. TypeOK BY DEF Init, TypeOK, Row, Statuses, Request
<1>2. MailInv
  BY DEF Init, MailInv, SentAtMostOnce, TodoUnsent, RowsUnsent, RepliesAreNew
<1> QED BY <1>1, <1>2 DEF IndInv

-----------------------------------------------------------------------------
(* Types                                                                   *)

LEMMA OrphansType == Orphans \in SUBSET Messages
BY DEF Orphans

LEMMA RequestsType ==
    ASSUME TypeOK,
           NEW c \in Clients,
           \/ EndReply(c) \/ EndChange(c)
           \/ \E m \in Messages : BeginReply(c, m)
           \/ \E m \in Messages, k \in {"cancel", "postpone"} : BeginChange(c, m, k)
    PROVE  TypeOK'
<1> USE DEF TypeOK
<1>1. CASE EndReply(c)
  <2>1. request[c] \in Request BY <1>1 DEF EndReply
  <2> QED BY <1>1, <2>1 DEF EndReply, Row, Statuses, Request
<1>2. CASE EndChange(c)
  <2> DEFINE m == request[c].msg
  <2>1. m \in Messages BY <1>2 DEF EndChange, Request
  <2>2. row[m] \in Row BY <2>1
  <2>3. \/ row' = row
        \/ row' = [row EXCEPT ![m] = [row[m] EXCEPT !.status = "cancelled"]]
        \/ row' = [row EXCEPT ![m] = [row[m] EXCEPT !.due = FALSE]]
    BY <1>2 DEF EndChange
  <2>4. [row[m] EXCEPT !.status = "cancelled"] \in Row BY <2>2 DEF Row, Statuses
  <2>5. [row[m] EXCEPT !.due = FALSE] \in Row BY <2>2 DEF Row
  <2>6. row' \in [Messages -> Row] BY <2>1, <2>3, <2>4, <2>5
  <2> QED BY <1>2, <2>6 DEF EndChange
<1>3. ASSUME NEW m \in Messages, BeginReply(c, m) PROVE TypeOK'
  <2>1. PICK t \in Threads \cup {None} :
          request' = [request EXCEPT ![c] = [kind |-> "reply", msg |-> m, thread |-> t]]
    BY <1>3 DEF BeginReply, Row, Threads
  <2> QED BY <1>3, <2>1 DEF BeginReply, Arrives, Request
<1>4. ASSUME NEW m \in Messages, NEW k \in {"cancel", "postpone"}, BeginChange(c, m, k)
      PROVE  TypeOK'
  BY <1>4 DEF BeginChange, Arrives, Request
<1> QED BY <1>1, <1>2, <1>3, <1>4

LEMMA SweepType == ASSUME TypeOK, SweepStep PROVE TypeOK'
<1> USE DEF TypeOK
<1>1. CASE SweepBegins
  BY <1>1, OrphansType DEF SweepBegins, Sweep
<1>2. CASE Settles
  BY <1>2 DEF Settles, NextPick, Sweep, Row, Statuses
<1>3. CASE Fails
  BY <1>3 DEF Fails, NextPick, Sweep, Row, Statuses
<1>4. CASE PurgeReads
  BY <1>4, OrphansType DEF PurgeReads, Sweep
<1>5. CASE Purges
  BY <1>5 DEF Purges, Row, Statuses
<1>6. ASSUME NEW m \in Messages, Sends(m) PROVE TypeOK'
  <2>1. sweep' \in Sweep BY <1>6 DEF Sends, Picks, Sweep
  <2>2. wire[m] + 1 \in Nat OBVIOUS
  <2>3. wire' \in [Messages -> Nat] BY <1>6, <2>2 DEF Sends
  <2> QED BY <1>6, <2>1, <2>3 DEF Sends
<1>7. ASSUME NEW m \in Messages, GmailRaises(m) PROVE TypeOK'
  BY <1>7 DEF GmailRaises, Picks, Sweep
<1> QED BY <1>1, <1>2, <1>3, <1>4, <1>5, <1>6, <1>7 DEF SweepStep

LEMMA TypeNext == ASSUME TypeOK, [Next]_vars PROVE TypeOK'
<1>1. CASE UNCHANGED vars BY <1>1 DEF TypeOK, vars
<1>2. CASE SweepStep BY <1>2, SweepType
<1>3. CASE Crash BY <1>3 DEF TypeOK, Crash
<1>4. CASE Interrupted BY <1>4 DEF TypeOK, Interrupted, Sweep
<1>5. CASE Clock BY <1>5 DEF TypeOK, Clock, Row
<1>6. ASSUME NEW m \in Messages, Compose(m) PROVE TypeOK'
  BY <1>6 DEF TypeOK, Compose, Arrives, Row, Statuses, Threads
<1> QED BY <1>1, <1>2, <1>3, <1>4, <1>5, <1>6, RequestsType DEF Next, Answer

-----------------------------------------------------------------------------
(* Requests write no message that was sent                                 *)

LEMMA ComposeKeeps ==
    ASSUME IndInv, NEW m \in Messages, Compose(m) PROVE MailInv'
<1> USE DEF IndInv, MailInv, TypeOK
<1>1. /\ row[m].status = "none" /\ \A n \in Messages : n # m => row'[n] = row[n]
      /\ row'[m].status = "pending"
      /\ UNCHANGED <<sweep, request, wire, faults>>
  BY DEF Compose
<1>2. wire[m] = 0 BY <1>1 DEF RowsUnsent
<1>3. SentAtMostOnce' BY <1>1 DEF SentAtMostOnce
<1>4. TodoUnsent' BY <1>1 DEF TodoUnsent, Spent, Sweep
<1>5. RowsUnsent' BY <1>1, <1>2 DEF RowsUnsent, Spent, InHand
<1>6. RepliesAreNew'
  <2>1. \A c \in Clients : request[c] # None => request[c] \in Request /\ request[c].msg # m
    BY DEF Compose
  <2> QED BY <1>1, <2>1 DEF RepliesAreNew, Request
<1> QED BY <1>3, <1>4, <1>5, <1>6

\* Reading changes no row.
LEMMA BeginKeeps ==
    ASSUME IndInv, NEW c \in Clients, NEW m \in Messages,
           \/ BeginReply(c, m)
           \/ \E k \in {"cancel", "postpone"} : BeginChange(c, m, k)
    PROVE  MailInv'
<1> USE DEF IndInv, MailInv, TypeOK
<1>1. UNCHANGED <<row, sweep, wire, faults>> BY DEF BeginReply, BeginChange
<1>2. SentAtMostOnce' /\ TodoUnsent' /\ RowsUnsent'
  BY <1>1 DEF SentAtMostOnce, TodoUnsent, RowsUnsent, Spent, InHand
<1>3. RepliesAreNew'
  <2>1. /\ \A d \in Clients : d # c => request'[d] = request[d]
        /\ request'[c].msg = m
        /\ \/ /\ row[m].status = "none"
              /\ \A d \in Clients : request[d] # None => request[d].msg # m
           \/ request'[c].kind # "reply" /\ row[m].status = "pending"
    <3>1. CASE BeginReply(c, m)
      <4>1. PICK t \in Threads \cup {None} :
              request' = [request EXCEPT ![c] = [kind |-> "reply", msg |-> m, thread |-> t]]
        BY <3>1 DEF BeginReply, Row, Threads
      <4> QED BY <3>1, <4>1 DEF BeginReply
    <3>2. ASSUME NEW k \in {"cancel", "postpone"}, BeginChange(c, m, k) PROVE <2>1!:
      <4>1. request' = [request EXCEPT ![c] = [kind |-> k, msg |-> m, thread |-> None]]
            /\ row[m].status = "pending"
        BY <3>2 DEF BeginChange
      <4>2. k # "reply" OBVIOUS
      <4> QED BY <4>1, <4>2
    <3> QED BY <3>1, <3>2
  <2>2. \A d \in Clients : request[d] # None /\ request[d].kind = "reply"
                              => row[request[d].msg].status = "none"
    BY DEF RepliesAreNew
  <2> QED BY <1>1, <2>1, <2>2 DEF RepliesAreNew
<1> QED BY <1>2, <1>3

LEMMA EndKeeps ==
    ASSUME IndInv, NEW c \in Clients, Answer(c) PROVE MailInv'
<1> USE DEF IndInv, MailInv, TypeOK
<1> DEFINE q == request[c]
<1>1. /\ q \in Request
      /\ \A d \in Clients : d # c => request'[d] = request[d]
      /\ request'[c] = None
      /\ UNCHANGED <<sweep, wire, faults>>
  BY DEF Answer, EndReply, EndChange
<1>2. q.msg \in Messages BY <1>1 DEF Request
\* The one row that may change is that of the request.
<1>3. \A n \in Messages : n # q.msg => row'[n] = row[n]
  BY <1>1 DEF Answer, EndReply, EndChange
<1>4. \/ row'[q.msg].status = row[q.msg].status
      \/ row[q.msg].status # "none" /\ row'[q.msg].status = "cancelled"
      \/ q.kind = "reply" /\ row'[q.msg].status = "pending"
  BY <1>1, <1>2 DEF Answer, EndReply, EndChange, Kept, Statuses, Row
<1>5. q.kind = "reply" => row[q.msg].status = "none" /\ wire[q.msg] = 0
  <2>1. q # None BY <1>1, NoneAssumption
  <2> QED BY <1>2, <2>1 DEF RepliesAreNew, RowsUnsent
<1>6. SentAtMostOnce' BY <1>1 DEF SentAtMostOnce
<1>7. TodoUnsent' BY <1>1, <1>2, <1>3, <1>4 DEF TodoUnsent, Spent, Sweep
<1>8. RowsUnsent' BY <1>1, <1>2, <1>3, <1>4, <1>5 DEF RowsUnsent, Spent, InHand
<1>9. RepliesAreNew'
  <2> SUFFICES ASSUME NEW d \in Clients, NEW e \in Clients,
                      request'[d] # None, request'[d].kind = "reply"
               PROVE  /\ row'[request'[d].msg].status = "none"
                      /\ d # e /\ request'[e] # None => request'[e].msg # request'[d].msg
    BY DEF RepliesAreNew
  <2>1. d # c /\ request'[d] = request[d] BY <1>1
  <2>2. request[d].msg # q.msg /\ row[request[d].msg].status = "none"
    <3>1. q # None BY <1>1, NoneAssumption
    <3> QED BY <2>1, <3>1 DEF RepliesAreNew
  <2>3. request[d].msg \in Messages BY <2>1 DEF Request
  <2> QED BY <1>1, <1>3, <2>1, <2>2, <2>3 DEF RepliesAreNew
<1> QED BY <1>6, <1>7, <1>8, <1>9

-----------------------------------------------------------------------------
(* The sweep                                                               *)

\* No step of the sweep touches a request or inserts a row.
LEMMA SweepNew ==
    ASSUME IndInv, UNCHANGED request,
           \A m \in Messages : row[m].status = "none" => row'[m].status = "none"
    PROVE  RepliesAreNew'
<1> USE DEF IndInv, MailInv, TypeOK
<1>1. \A c \in Clients : request[c] # None => request[c].msg \in Messages BY DEF Request
<1> QED BY <1>1 DEF RepliesAreNew

LEMMA SweepKeeps ==
    ASSUME IndInv, SweepStep PROVE MailInv'
<1> USE DEF IndInv, MailInv, TypeOK
<1>1. CASE SweepBegins
  <2>1. UNCHANGED <<row, request, wire, faults>> /\ sweep = None BY <1>1 DEF SweepBegins
  <2>2. /\ sweep' # None /\ sweep'.step = "pick"
        /\ sweep'.todo = {m \in Messages : row[m].status = "pending" /\ row[m].due}
    <3>1. sweep' \in Sweep BY <1>1, OrphansType DEF SweepBegins, Sweep
    <3> QED BY <1>1, <3>1, NoneAssumption DEF SweepBegins
  <2>3. TodoUnsent' BY <2>1, <2>2 DEF TodoUnsent, RowsUnsent, Spent, InHand
  <2>4. RowsUnsent' BY <2>1 DEF RowsUnsent, Spent, InHand
  <2> QED BY <2>1, <2>3, <2>4 DEF SentAtMostOnce, RepliesAreNew
<1>2. CASE Settles
  <2> DEFINE m == sweep.hand
  <2>1. /\ sweep # None /\ sweep.step = "sent" /\ m \in Messages
        /\ UNCHANGED <<wire, request, faults>>
    BY <1>2 DEF Settles, TodoUnsent, Sweep
  <2>2. sweep' # None /\ sweep'.step = "pick" /\ sweep'.todo = sweep.todo
    <3>1. sweep \in Sweep BY <2>1
    <3>2. sweep' = [sweep EXCEPT !.step = "pick", !.hand = None, !.fresh = TRUE]
      BY <1>2 DEF Settles, NextPick
    <3>3. sweep' \in Sweep BY <3>1, <3>2 DEF Sweep
    <3>4. sweep'.step = "pick" /\ sweep'.todo = sweep.todo BY <3>1, <3>2 DEF Sweep
    <3> QED BY <3>3, <3>4, NoneAssumption
  <2>3. \A n \in Messages :
          \/ row'[n].status = row[n].status
          \/ row[n].status # "none" /\ row'[n].status \in {"sent", "deleted"}
    BY <1>2, <2>1 DEF Settles, Kept, Statuses, Row
  <2>4. row'[m].status # "pending"
    BY <1>2, <2>1 DEF Settles, Kept, Statuses, Row
  <2>5. TodoUnsent'
    <3>1. \A n \in sweep.todo : n \in Messages BY <2>1 DEF Sweep
    <3> QED BY <2>1, <2>2, <2>3, <3>1 DEF TodoUnsent, Spent
  <2>6. RowsUnsent'
    <3> SUFFICES ASSUME NEW n \in Messages
                 PROVE  /\ row'[n].status = "none" => wire[n] = 0
                        /\ row'[n].status = "failed" => Spent(n)
                        /\ row'[n].status = "pending" => Spent(n)
      BY <2>1 DEF RowsUnsent, Spent
    <3>1. row'[n].status = "pending" => ~InHand(n) BY <2>4 DEF InHand
    <3> QED BY <2>3, <3>1 DEF RowsUnsent
  <2>7. RepliesAreNew' BY <2>1, <2>3, SweepNew
  <2> QED BY <2>1, <2>5, <2>6, <2>7 DEF SentAtMostOnce
<1>3. CASE Fails
  <2> DEFINE m == sweep.hand
  <2>1. /\ sweep # None /\ sweep.step = "raised" /\ m \in Messages /\ Spent(m)
        /\ UNCHANGED <<wire, request, faults>>
    BY <1>3 DEF Fails, TodoUnsent, Sweep
  <2>2. sweep' # None /\ sweep'.step = "pick" /\ sweep'.todo = sweep.todo
    <3>1. sweep \in Sweep BY <2>1
    <3>2. sweep' = [sweep EXCEPT !.step = "pick", !.hand = None, !.fresh = TRUE]
      BY <1>3 DEF Fails, NextPick
    <3>3. sweep' \in Sweep BY <3>1, <3>2 DEF Sweep
    <3>4. sweep'.step = "pick" /\ sweep'.todo = sweep.todo BY <3>1, <3>2 DEF Sweep
    <3> QED BY <3>3, <3>4, NoneAssumption
  <2>3. \A n \in Messages :
          \/ row'[n].status = row[n].status
          \/ n = m /\ row[n].status # "none" /\ row'[n].status = "failed"
    BY <1>3, <2>1 DEF Fails, Kept, Statuses, Row
  <2>4. TodoUnsent'
    <3>1. \A n \in sweep.todo : n \in Messages BY <2>1 DEF Sweep
    <3> QED BY <2>1, <2>2, <2>3, <3>1 DEF TodoUnsent, Spent
  <2>5. RowsUnsent'
    <3>1. \A n \in Messages : ~InHand(n) BY <2>1 DEF InHand
    <3> QED BY <2>1, <2>3, <3>1 DEF RowsUnsent, Spent
  <2>6. RepliesAreNew' BY <2>1, <2>3, SweepNew
  <2> QED BY <2>1, <2>4, <2>5, <2>6 DEF SentAtMostOnce
<1>4. CASE PurgeReads
  <2>1. /\ UNCHANGED <<row, request, wire, faults>> /\ sweep # None /\ sweep.step = "pick"
        /\ sweep' # None /\ sweep'.step = "purge" /\ sweep'.todo = sweep.todo
    BY <1>4, NoneAssumption, OrphansType DEF PurgeReads, Sweep
  <2>2. TodoUnsent' BY <2>1 DEF TodoUnsent, Spent
  <2>3. RowsUnsent' BY <2>1 DEF RowsUnsent, Spent, InHand
  <2> QED BY <2>1, <2>2, <2>3 DEF SentAtMostOnce, RepliesAreNew
<1>5. CASE Purges
  <2>1. sweep' = None /\ sweep.step = "purge" /\ UNCHANGED <<wire, request, faults>>
    BY <1>5 DEF Purges
  <2>2. \A n \in Messages :
          \/ row'[n].status = row[n].status
          \/ row[n].status # "none" /\ row'[n].status = "deleted"
    BY <1>5 DEF Purges, Kept, Statuses, Row
  <2>3. TodoUnsent' BY <2>1 DEF TodoUnsent
  <2>4. RowsUnsent'
    <3>1. \A n \in Messages : ~InHand(n) BY <2>1 DEF InHand
    <3> QED BY <2>1, <2>2, <3>1 DEF RowsUnsent, Spent
  <2>5. RepliesAreNew' BY <2>1, <2>2, SweepNew
  <2> QED BY <2>1, <2>3, <2>4, <2>5 DEF SentAtMostOnce
\* What is sent had not been sent since the last killed sweep.
<1>6. ASSUME NEW m \in Messages, Sends(m) PROVE MailInv'
  <2>1. /\ sweep # None /\ sweep.step = "pick" /\ m \in sweep.todo /\ Spent(m)
        /\ row[m].status \notin {"none", "failed"}
        /\ UNCHANGED <<row, request, faults>>
        /\ wire' = [wire EXCEPT ![m] = @ + 1]
    BY <1>6 DEF Sends, Picks, TodoUnsent
  <2>2. sweep' # None /\ sweep'.step = "sent" /\ sweep'.hand = m
        /\ sweep'.todo = sweep.todo \ {m}
    <3>1. sweep \in Sweep BY <2>1
    <3>2. sweep' = [sweep EXCEPT !.step = "sent", !.hand = m, !.todo = @ \ {m}]
      BY <1>6 DEF Sends
    <3>3. sweep' \in Sweep BY <3>1, <3>2 DEF Sweep
    <3>4. sweep'.step = "sent" /\ sweep'.hand = m /\ sweep'.todo = sweep.todo \ {m}
      BY <3>1, <3>2 DEF Sweep
    <3> QED BY <3>3, <3>4, NoneAssumption
  <2>3. SentAtMostOnce' BY <2>1 DEF SentAtMostOnce, Spent
  <2>4. TodoUnsent'
    <3>1. \A n \in sweep.todo : n \in Messages BY <2>1 DEF Sweep
    <3>2. m # None BY MailAssumption
    <3>3. \A n \in sweep'.todo : wire'[n] = wire[n] BY <2>1, <2>2, <3>1
    <3> QED BY <2>1, <2>2, <3>2, <3>3 DEF TodoUnsent, Spent
  <2>5. RowsUnsent'
    <3> SUFFICES ASSUME NEW n \in Messages
                 PROVE  /\ row[n].status = "none" => wire'[n] = 0
                        /\ row[n].status = "failed" => wire'[n] <= faults
                        /\ row[n].status = "pending" /\ n # m => wire'[n] <= faults
      BY <2>1, <2>2 DEF RowsUnsent, Spent, InHand
    <3>1. n # m => wire'[n] = wire[n] BY <2>1
    <3>2. row[m].status \notin {"none", "failed"} BY <2>1 DEF TodoUnsent
    <3> QED BY <2>1, <3>1, <3>2 DEF RowsUnsent, Spent, InHand
  <2>6. RepliesAreNew' BY <2>1 DEF RepliesAreNew
  <2> QED BY <2>3, <2>4, <2>5, <2>6
<1>7. ASSUME NEW m \in Messages, GmailRaises(m) PROVE MailInv'
  <2>1. /\ sweep # None /\ sweep.step = "pick" /\ m \in sweep.todo /\ Spent(m)
        /\ row[m].status # "none"
        /\ UNCHANGED <<row, request, wire, faults>>
    BY <1>7 DEF GmailRaises, Picks, TodoUnsent
  <2>2. sweep' # None /\ sweep'.step = "raised" /\ sweep'.hand = m
        /\ sweep'.todo = sweep.todo \ {m}
    BY <1>7, <2>1, NoneAssumption DEF GmailRaises, Sweep
  <2>3. m # None BY MailAssumption
  <2>4. TodoUnsent' BY <2>1, <2>2, <2>3 DEF TodoUnsent, Spent
  <2>5. RowsUnsent' BY <2>1 DEF RowsUnsent, Spent, InHand
  <2> QED BY <2>1, <2>4, <2>5 DEF SentAtMostOnce, RepliesAreNew
<1> QED BY <1>1, <1>2, <1>3, <1>4, <1>5, <1>6, <1>7 DEF SweepStep

-----------------------------------------------------------------------------
LEMMA MailNext == ASSUME IndInv, [Next]_vars PROVE IndInv'
<1>1. TypeOK' BY TypeNext DEF IndInv
<1> USE DEF IndInv, MailInv, TypeOK
<1>2. CASE UNCHANGED vars
  BY <1>1, <1>2 DEF vars, SentAtMostOnce, TodoUnsent, RowsUnsent, RepliesAreNew, Spent, InHand
\* A fault more makes up for the copy that is out.
<1>3. CASE Crash
  <2>1. sweep' = None /\ faults' = faults + 1 /\ UNCHANGED <<row, wire, request>>
    BY <1>3 DEF Crash
  <2>2. \A m \in Messages : wire'[m] <= faults' BY <2>1 DEF SentAtMostOnce
  <2>3. SentAtMostOnce' BY <2>1, <2>2 DEF SentAtMostOnce
  <2> QED BY <1>1, <2>1, <2>2, <2>3 DEF TodoUnsent, RowsUnsent, RepliesAreNew, Spent
<1>4. CASE Interrupted
  <2>1. /\ sweep # None /\ sweep.step = "sent" /\ faults' = faults + 1
        /\ UNCHANGED <<row, wire, request>>
    BY <1>4 DEF Interrupted
  <2>2. \A m \in Messages : wire'[m] <= faults' BY <2>1 DEF SentAtMostOnce
  <2>3. sweep' # None /\ sweep'.hand = sweep.hand /\ sweep'.todo = sweep.todo
    BY <1>4, <2>1, NoneAssumption DEF Interrupted, Sweep
  <2>4. SentAtMostOnce' BY <2>1, <2>2 DEF SentAtMostOnce
  <2>5. TodoUnsent'
    <3>1. sweep.hand \in Messages /\ row[sweep.hand].status # "none"
      BY <2>1 DEF TodoUnsent, Sweep
    <3> QED BY <2>1, <2>2, <2>3, <3>1 DEF TodoUnsent, Spent, Sweep
  <2>6. RowsUnsent' BY <2>1, <2>2 DEF RowsUnsent, Spent
  <2> QED BY <1>1, <2>1, <2>4, <2>5, <2>6 DEF RepliesAreNew
<1>5. CASE Clock
  <2>1. /\ UNCHANGED <<sweep, wire, request, faults>>
        /\ \A m \in Messages : row'[m].status = row[m].status
    BY <1>5 DEF Clock, Row
  <2>2. TodoUnsent' BY <2>1 DEF TodoUnsent, Spent, Sweep
  <2>3. RowsUnsent' BY <2>1 DEF RowsUnsent, Spent, InHand
  <2>4. RepliesAreNew' BY <2>1, SweepNew
  <2> QED BY <1>1, <2>1, <2>2, <2>3, <2>4 DEF SentAtMostOnce
<1> QED BY <1>1, <1>2, <1>3, <1>4, <1>5, ComposeKeeps, BeginKeeps, EndKeeps, SweepKeeps
        DEF Next

LEMMA MailInductive == Spec => []IndInv
BY MailInit, MailNext, PTL DEF Spec

\* Every variable keeps its type.
THEOREM MailTypes == Spec => []TypeOK
<1>1. IndInv => TypeOK BY DEF IndInv
<1> QED BY <1>1, MailInductive, PTL

\* Nobody gets an email twice, except for one more copy per killed sweep.
THEOREM NoEmailTwice == Spec => []SentAtMostOnce
<1>1. IndInv => SentAtMostOnce BY DEF IndInv, MailInv
<1> QED BY <1>1, MailInductive, PTL

\* A message that is pending has not been sent, unless the sweep has it in hand or
\* was killed.
THEOREM PendingIsTrue == Spec => []PendingIsUnsent
<1>1. IndInv => PendingIsUnsent
  BY DEF IndInv, MailInv, RowsUnsent, Spent, PendingIsUnsent, TypeOK
<1> QED BY <1>1, MailInductive, PTL

\* A message shown as failed has not been sent, unless the sweep was interrupted
\* after Gmail took it.
THEOREM FailedIsTrue == Spec => []FailedIsUnsent
<1>1. IndInv => FailedIsUnsent
  BY DEF IndInv, MailInv, RowsUnsent, Spent, FailedIsUnsent, TypeOK
<1> QED BY <1>1, MailInductive, PTL

\* What was cancelled before a sweep selected it is never sent and never pending
\* again, whatever the requests that overlap the cancel had read.
THEOREM CancelIsFinal == Spec => CancelHolds
<1>1. IndInv /\ [Next]_vars => [\A m \in Messages : row[m].status = "cancelled" /\ ~Awaits(m)
           => row'[m].status # "pending" /\ wire'[m] = wire[m]]_vars
  <2> SUFFICES ASSUME IndInv, [Next]_vars,
                      NEW m \in Messages, row[m].status = "cancelled", ~Awaits(m)
               PROVE  row'[m].status # "pending" /\ wire'[m] = wire[m]
    OBVIOUS
  <2> USE DEF IndInv, TypeOK
  <2>1. ASSUME NEW c \in Clients, EndReply(c) PROVE row'[m] = row[m] /\ wire' = wire
    <3>1. request[c] \in Request /\ request[c].kind = "reply" BY <2>1 DEF EndReply
    <3>2. row[request[c].msg].status = "none"
      BY <2>1, <3>1 DEF EndReply, MailInv, RepliesAreNew
    <3>3. request[c].msg \in Messages \ {m} BY <3>1, <3>2 DEF Request
    <3> QED BY <2>1, <3>3 DEF EndReply
  <2>2. ASSUME NEW c \in Clients, EndChange(c) PROVE row'[m].status = "cancelled" /\ wire' = wire
    <3>1. request[c].msg \in Messages BY <2>2 DEF EndChange, Request
    <3>2. row[m] \in Row OBVIOUS
    <3> QED BY <2>2, <3>1, <3>2 DEF EndChange, Row
  <2>3. CASE SweepStep
    <3>1. CASE SweepBegins \/ PurgeReads BY <3>1 DEF SweepBegins, PurgeReads
    <3>2. CASE Settles BY <3>2 DEF Settles, Row
    <3>3. CASE Fails BY <3>3 DEF Fails, Row
    <3>4. CASE Purges BY <3>4 DEF Purges, Row
    <3>5. ASSUME NEW n \in Messages, Sends(n) \/ GmailRaises(n)
          PROVE  row'[m] = row[m] /\ wire'[m] = wire[m]
      <4>1. n # m BY <3>5 DEF Sends, GmailRaises, Picks, Awaits
      <4> QED BY <3>5, <4>1 DEF Sends, GmailRaises
    <3> QED BY <2>3, <3>1, <3>2, <3>3, <3>4, <3>5 DEF SweepStep
  <2>4. CASE Crash \/ Interrupted BY <2>4 DEF Crash, Interrupted
  <2>5. CASE Clock BY <2>5 DEF Clock, Row
  <2>6. ASSUME NEW n \in Messages, Compose(n) PROVE row'[m] = row[m] /\ wire' = wire
    BY <2>6 DEF Compose
  <2>7. ASSUME NEW c \in Clients, NEW n \in Messages,
               BeginReply(c, n) \/ \E k \in {"cancel", "postpone"} : BeginChange(c, n, k)
        PROVE  row' = row /\ wire' = wire
    BY <2>7 DEF BeginReply, BeginChange
  <2>8. CASE UNCHANGED vars BY <2>8 DEF vars
  <2> QED BY <2>1, <2>2, <2>3, <2>4, <2>5, <2>6, <2>7, <2>8 DEF Next, Answer
<1> QED BY <1>1, MailInductive, PTL DEF Spec, CancelHolds

-----------------------------------------------------------------------------
(* Nothing is lost while no reply joins a sentinel thread                  *)

\* Then a sentinel thread holds the one message it is named after ...
OwnThreads ==
    /\ \A m \in Messages : row[m].thread \in {None, Inbox, m}
    /\ \A c \in Clients : request[c] # None => request[c].thread \in {None, Inbox}

\* ... what the purge is about to delete stays settled ...
OrphansSettled ==
    sweep # None /\ (sweep.step = "purge" \/ ~sweep.fresh) =>
        \A t \in sweep.orphan : row[t].status \notin {"none", "pending", "failed"}

\* ... and what the sweep settles is on the wire.
HandIsSent == sweep # None /\ sweep.step = "sent" => wire[sweep.hand] > 0

LossInv == IndInv /\ OwnThreads /\ OrphansSettled /\ HandIsSent

LEMMA ThreadsNext ==
    ASSUME ~ReplyToScheduled, LossInv, [Next]_vars PROVE OwnThreads'
<1> USE DEF LossInv, IndInv, TypeOK
<1>1. ASSUME UNCHANGED request, \A m \in Messages : row'[m].thread = row[m].thread
      PROVE  OwnThreads'
  BY <1>1 DEF OwnThreads
<1>2. CASE SweepStep
  <2>1. UNCHANGED request /\ \A m \in Messages : row'[m].thread = row[m].thread
    <3>1. \A m \in Messages : row[m] \in Row OBVIOUS
    <3>2. CASE Settles BY <3>1, <3>2 DEF Settles, Row
    <3>3. CASE Fails BY <3>1, <3>3 DEF Fails, Row
    <3>4. CASE Purges BY <3>1, <3>4 DEF Purges, Row
    <3>5. CASE SweepBegins \/ PurgeReads BY <3>5 DEF SweepBegins, PurgeReads
    <3>6. ASSUME NEW m \in Messages, Sends(m) \/ GmailRaises(m) PROVE <2>1!:
      BY <3>6 DEF Sends, GmailRaises
    <3> QED BY <1>2, <3>2, <3>3, <3>4, <3>5, <3>6 DEF SweepStep
  <2> QED BY <1>1, <2>1
<1>3. CASE Crash \/ Interrupted BY <1>1, <1>3 DEF Crash, Interrupted
<1>4. CASE Clock BY <1>1, <1>4 DEF Clock, Row
<1>5. ASSUME NEW m \in Messages, Compose(m) PROVE OwnThreads'
  BY <1>5 DEF Compose, OwnThreads
<1>6. ASSUME NEW c \in Clients, EndReply(c) PROVE OwnThreads'
  <2>1. request[c] \in Request /\ request[c].thread \in {None, Inbox}
    BY <1>6 DEF EndReply, OwnThreads
  <2>2. \A m \in Messages : row'[m].thread \in {None, Inbox, m}
    BY <1>6, <2>1 DEF EndReply, OwnThreads, Request
  <2> QED BY <1>6, <2>2 DEF EndReply, OwnThreads
<1>7. ASSUME NEW c \in Clients, EndChange(c) PROVE OwnThreads'
  <2>1. \A m \in Messages : row'[m].thread = row[m].thread
    <3>1. \A m \in Messages : row[m] \in Row OBVIOUS
    <3> QED BY <1>7, <3>1 DEF EndChange, Row
  <2> QED BY <1>7, <2>1 DEF EndChange, OwnThreads
<1>8. ASSUME NEW c \in Clients, NEW m \in Messages, BeginReply(c, m) PROVE OwnThreads'
  <2>1. request' = [request EXCEPT ![c] = [kind |-> "reply", msg |-> m, thread |-> Inbox]]
        /\ UNCHANGED row
    BY <1>8 DEF BeginReply
  <2> QED BY <2>1 DEF OwnThreads
<1>9. ASSUME NEW c \in Clients, NEW m \in Messages, NEW k \in {"cancel", "postpone"},
             BeginChange(c, m, k)
      PROVE  OwnThreads'
  BY <1>9 DEF BeginChange, OwnThreads
<1>10. CASE UNCHANGED vars BY <1>1, <1>10 DEF vars
<1> QED BY <1>2, <1>3, <1>4, <1>5, <1>6, <1>7, <1>8, <1>9, <1>10 DEF Next, Answer

\* A query for orphans finds none whose message is still to be sent or seen.
LEMMA OrphansAreSettled ==
    ASSUME TypeOK, OwnThreads, NEW t \in Orphans
    PROVE  t \in Messages /\ row[t].status \notin {"none", "pending", "failed"}
<1>1. t \in Messages /\ t # None /\ t # Inbox BY MailAssumption DEF Orphans
<1>2. PICK m \in Messages : Kept(m) /\ row[m].thread = t BY DEF Orphans
<1>3. m = t BY <1>1, <1>2 DEF OwnThreads
<1> QED BY <1>1, <1>2, <1>3 DEF Orphans, Kept, Statuses

\* The one step that makes a settled message failed or pending again is Fails, and
\* the commit it ends with sends the purge back to the table.
LEMMA OrphansNext ==
    ASSUME ~ReplyToScheduled, LossInv, [Next]_vars PROVE OrphansSettled'
<1> USE DEF LossInv, IndInv, TypeOK
<1> DEFINE Settled(t) == row[t].status \notin {"none", "pending", "failed"}
<1>1. ASSUME UNCHANGED sweep, \A t \in Messages : Settled(t) => Settled(t)'
      PROVE  OrphansSettled'
  BY <1>1 DEF OrphansSettled, Sweep
<1>2. CASE SweepStep
  <2>1. CASE SweepBegins
    <3>1. sweep' \in Sweep /\ sweep'.orphan = Orphans /\ UNCHANGED row
      BY <2>1, OrphansType DEF SweepBegins, Sweep
    <3> QED BY <3>1, OrphansAreSettled DEF OrphansSettled
  <2>2. CASE Settles \/ Fails
    <3>1. sweep' = NextPick /\ sweep \in Sweep BY <2>2 DEF Settles, Fails
    <3>2. sweep'.step = "pick" /\ sweep'.fresh BY <3>1 DEF NextPick, Sweep
    <3> QED BY <3>2 DEF OrphansSettled
  <2>3. CASE PurgeReads
    <3>1. /\ sweep \in Sweep /\ sweep # None /\ UNCHANGED row
          /\ sweep'.orphan = IF sweep.fresh THEN Orphans ELSE sweep.orphan
      BY <2>3 DEF PurgeReads, Sweep
    <3> QED BY <3>1, OrphansAreSettled DEF OrphansSettled
  <2>4. CASE Purges BY <2>4 DEF Purges, OrphansSettled
  <2>5. ASSUME NEW m \in Messages, Sends(m) \/ GmailRaises(m) PROVE OrphansSettled'
    <3>1. /\ sweep \in Sweep /\ sweep # None /\ UNCHANGED row
          /\ sweep'.orphan = sweep.orphan /\ sweep'.fresh = sweep.fresh
          /\ sweep'.step # "purge"
      BY <2>5 DEF Sends, GmailRaises, Picks, Sweep
    <3> QED BY <3>1 DEF OrphansSettled
  <2> QED BY <1>2, <2>1, <2>2, <2>3, <2>4, <2>5 DEF SweepStep
<1>3. CASE Crash BY <1>3 DEF Crash, OrphansSettled
<1>4. CASE Interrupted
  <2>1. /\ sweep \in Sweep /\ sweep # None /\ UNCHANGED row
        /\ sweep'.orphan = sweep.orphan /\ sweep'.fresh = sweep.fresh
        /\ sweep'.step # "purge"
    BY <1>4 DEF Interrupted, Sweep
  <2> QED BY <2>1 DEF OrphansSettled
<1>5. CASE Clock
  <2>1. \A t \in Messages : row'[t].status = row[t].status BY <1>5 DEF Clock, Row
  <2> QED BY <1>1, <1>5, <2>1 DEF Clock
<1>6. ASSUME NEW m \in Messages, Compose(m) PROVE OrphansSettled'
  BY <1>1, <1>6 DEF Compose
<1>7. ASSUME NEW c \in Clients, EndReply(c) PROVE OrphansSettled'
  <2>1. request[c] \in Request /\ row[request[c].msg].status = "none"
    BY <1>7 DEF EndReply, MailInv, RepliesAreNew
  <2>2. \A t \in Messages : Settled(t) => row'[t] = row[t]
    BY <1>7, <2>1 DEF EndReply, Request
  <2> QED BY <1>1, <1>7, <2>2 DEF EndReply
<1>8. ASSUME NEW c \in Clients, EndChange(c) PROVE OrphansSettled'
  <2>1. request[c].msg \in Messages BY <1>8 DEF EndChange, Request
  <2>2. \A t \in Messages : row'[t].status \in {row[t].status, "cancelled"}
    <3>1. \A t \in Messages : row[t] \in Row OBVIOUS
    <3> QED BY <1>8, <2>1, <3>1 DEF EndChange, Row
  <2> QED BY <1>1, <1>8, <2>2 DEF EndChange
<1>9. ASSUME NEW c \in Clients, NEW m \in Messages,
             BeginReply(c, m) \/ \E k \in {"cancel", "postpone"} : BeginChange(c, m, k)
      PROVE  OrphansSettled'
  BY <1>1, <1>9 DEF BeginReply, BeginChange
<1>10. CASE UNCHANGED vars BY <1>1, <1>10 DEF vars
<1> QED BY <1>2, <1>3, <1>4, <1>5, <1>6, <1>7, <1>8, <1>9, <1>10 DEF Next, Answer

LEMMA HandNext == ASSUME LossInv, [Next]_vars PROVE HandIsSent'
<1> USE DEF LossInv, IndInv, TypeOK
<1>1. ASSUME NEW m \in Messages, Sends(m) PROVE HandIsSent'
  <2>1. sweep' = [sweep EXCEPT !.step = "sent", !.hand = m, !.todo = @ \ {m}]
        /\ sweep \in Sweep /\ wire' = [wire EXCEPT ![m] = @ + 1]
    BY <1>1 DEF Sends, Picks
  <2>2. sweep'.hand = m BY <2>1 DEF Sweep
  <2> QED BY <2>1, <2>2 DEF HandIsSent
<1>2. ASSUME UNCHANGED <<sweep, wire>> PROVE HandIsSent' BY <1>2 DEF HandIsSent
<1>3. CASE SweepBegins \/ Settles \/ Fails \/ PurgeReads \/ Purges
  <2>1. sweep' = None \/ sweep'.step \in {"pick", "purge"}
    <3>1. CASE SweepBegins \/ Purges BY <3>1 DEF SweepBegins, Purges
    <3>2. CASE Settles \/ Fails BY <3>2 DEF Settles, Fails, NextPick, Sweep
    <3>3. CASE PurgeReads BY <3>3, OrphansType DEF PurgeReads, Sweep
    <3> QED BY <1>3, <3>1, <3>2, <3>3
  <2> QED BY <2>1 DEF HandIsSent
<1>4. ASSUME NEW m \in Messages, GmailRaises(m) PROVE HandIsSent'
  BY <1>4 DEF GmailRaises, Picks, Sweep, HandIsSent
<1>5. CASE Crash \/ Interrupted BY <1>5 DEF Crash, Interrupted, Sweep, HandIsSent
<1> QED BY <1>1, <1>2, <1>3, <1>4, <1>5
        DEF Next, SweepStep, Clock, Compose, Answer, EndReply, EndChange, BeginReply,
            BeginChange, vars

LEMMA LossInductive == ~ReplyToScheduled => (Spec => []LossInv)
<1> SUFFICES ASSUME ~ReplyToScheduled PROVE Spec => []LossInv OBVIOUS
<1>1. Init => LossInv
  <2> SUFFICES ASSUME Init PROVE LossInv OBVIOUS
  <2>1. OwnThreads BY DEF Init, OwnThreads
  <2> QED BY <2>1, MailInit DEF Init, LossInv, OrphansSettled, HandIsSent
<1>2. LossInv /\ [Next]_vars => LossInv'
  BY MailNext, ThreadsNext, OrphansNext, HandNext DEF LossInv
<1> QED BY <1>1, <1>2, PTL DEF Spec

\* While no reply joins a sentinel thread, nothing that is still to be sent, and no
\* failure that is still to be seen, is deleted by the sweep or its purge.
THEOREM NothingIsLost == ~ReplyToScheduled => (Spec => NoneLostUnsent)
<1> SUFFICES ASSUME ~ReplyToScheduled PROVE Spec => NoneLostUnsent OBVIOUS
<1>1. LossInv /\ [Next]_vars =>
        [\A m \in Messages : row[m].status \in {"pending", "failed"}
            /\ row'[m].status = "deleted" => wire[m] > 0]_vars
  <2> SUFFICES ASSUME LossInv, [Next]_vars, NEW m \in Messages,
                      row[m].status \in {"pending", "failed"}, row'[m].status = "deleted"
               PROVE  wire[m] > 0
    OBVIOUS
  <2> USE DEF LossInv, IndInv, TypeOK
  <2>1. row[m] \in Row /\ row[m].status # "deleted" OBVIOUS
  <2>2. row[m].thread \in Messages => row[m].thread = m
    BY MailAssumption DEF OwnThreads
  <2>3. CASE Settles
    <3> DEFINE h == sweep.hand
    <3>1. h \in Messages /\ wire[h] > 0
      BY <2>3 DEF Settles, HandIsSent, MailInv, TodoUnsent, Sweep
    <3>2. CASE Kept(h) /\ Sentinel(h)
      <4>1. row[m].thread = row[h].thread /\ row[h].thread \in Messages
        BY <2>1, <2>3, <3>2 DEF Settles, Sentinel
      <4>2. row[h].thread = h BY <3>1, <4>1, MailAssumption DEF OwnThreads
      <4> QED BY <2>2, <3>1, <4>1, <4>2
    <3>3. CASE ~(Kept(h) /\ Sentinel(h))
      <4>1. row'[m].status \in {row[m].status, "sent"} BY <2>1, <2>3, <3>1, <3>3 DEF Settles, Row
      <4> QED BY <2>1, <4>1
    <3> QED BY <3>2, <3>3
  <2>4. CASE Purges
    <3>1. row[m].thread \in sweep.orphan /\ sweep \in Sweep /\ sweep.step = "purge"
          /\ sweep # None
      BY <2>1, <2>4 DEF Purges
    <3>2. row[m].thread = m BY <2>2, <3>1 DEF Sweep
    <3> QED BY <3>1, <3>2 DEF OrphansSettled
  \* No other step deletes a row.
  <2>5. CASE Fails BY <2>1, <2>5 DEF Fails, Row
  <2>6. CASE Clock BY <2>1, <2>6 DEF Clock, Row
  <2>7. ASSUME NEW c \in Clients, EndReply(c) PROVE FALSE
    BY <2>1, <2>7 DEF EndReply, Row
  <2>8. ASSUME NEW c \in Clients, EndChange(c) PROVE FALSE
    BY <2>1, <2>8 DEF EndChange, Row
  <2>9. ASSUME NEW n \in Messages, Compose(n) PROVE FALSE
    BY <2>1, <2>9 DEF Compose, Row
  <2>10. ASSUME UNCHANGED row PROVE FALSE BY <2>1, <2>10
  <2> QED BY <2>3, <2>4, <2>5, <2>6, <2>7, <2>8, <2>9, <2>10
          DEF Next, SweepStep, SweepBegins, PurgeReads, Sends, GmailRaises, Crash,
              Interrupted, Answer, BeginReply, BeginChange, vars
<1> QED BY <1>1, LossInductive, PTL DEF Spec, NoneLostUnsent
=============================================================================
