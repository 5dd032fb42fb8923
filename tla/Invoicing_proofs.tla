-------------------------- MODULE Invoicing_proofs --------------------------
(***************************************************************************)
(* For any orders, requests, jobs and faults: the worker completes no two  *)
(* invoices of an order, links none that is not there, changes none that   *)
(* people wrote and takes nothing from a source document it has invoiced.  *)
(***************************************************************************)
EXTENDS Invoicing, TLAPS

Types ==
    /\ order \in [Orders -> Order]
    /\ inv \in [Numbers -> Invoice \cup {None}]
    /\ doc \in [Orders -> Source]
    /\ queue \in Seq([kind : Kinds, of : Orders])
    /\ job \in Job \cup {None}
    /\ request \in [Clients -> Request \cup {None}]

IndInv == Types /\ InvoicingInv

LEMMA Constants ==
    /\ Lines \in Nat \ {0} /\ MaxNumber \in Nat \ {0}
    /\ \A n \in Numbers : n # None
    /\ \A r \in Job \cup Request \cup Invoice : r # None
BY InvoicingAssumption, NoneAssumption DEF Numbers

LEMMA InvoicingInit == Init => IndInv
<1> SUFFICES ASSUME Init PROVE IndInv OBVIOUS
<1>1. order \in [Orders -> Order] BY DEF Init, Order
<1>2. doc \in [Orders -> Source] BY DEF Init, Source
<1>3. Types BY <1>1, <1>2 DEF Init, Types
<1>4. InvoicingInv
  BY DEF Init, InvoicingInv, OneInvoice, LinkHolds, JobAgrees, Whole
<1> QED BY <1>3, <1>4 DEF IndInv

-----------------------------------------------------------------------------
(* Linking and unlinking                                                   *)

LEMMA LinkedRow ==
    ASSUME Types, NEW o \in Orders, NEW n \in Numbers \cup {None},
           NEW how \in {"none", "emitted", "located", "looked", "restored"}
    PROVE  /\ Linked(o, n, how) \in [Orders -> Order]
           /\ Linked(o, n, how)[o].number = n /\ Linked(o, n, how)[o].how = how
           /\ \A p \in Orders : p # o => Linked(o, n, how)[p] = order[p]
<1>1. order[o] \in Order BY DEF Types
<1> DEFINE r == [[order[o] EXCEPT !.number = n] EXCEPT !.how = how]
<1>2. r \in Order /\ r.number = n /\ r.how = how BY <1>1 DEF Order
<1>3. Linked(o, n, how) = [order EXCEPT ![o] = r] BY DEF Linked, Types
<1> HIDE DEF r
<1> QED BY <1>2, <1>3 DEF Types

\* Unlinking leaves the link as it is, or removes it with the way it came about.
LEMMA UnlinkedRow ==
    ASSUME Types, NEW o \in Orders, NEW row \in Order, NEW keep \in BOOLEAN
    PROVE  /\ UnlinkAll(o, row, keep) \in Order
           /\ UnlinkAll(o, row, keep).how \in {"emitted", "located"} =>
                 /\ UnlinkAll(o, row, keep).how = order[o].how
                 /\ UnlinkAll(o, row, keep).number = order[o].number
<1>1. order[o] \in Order BY DEF Types
<1>2. row.number \in Numbers \cup {None} BY DEF Order
<1> QED BY <1>1, <1>2 DEF UnlinkAll, Order

\* No order is newly linked by the worker.
LinksKept ==
    \A o \in Orders : order'[o].how \in {"emitted", "located"} =>
        order'[o].how = order[o].how /\ order'[o].number = order[o].number

\* No source document gains or loses lines.
LinesStay == \A o \in Orders : doc'[o].lines = doc[o].lines

LEMMA SameDoc == UNCHANGED doc => LinesStay
BY DEF LinesStay

LEMMA LinksKeepInv ==
    ASSUME IndInv, LinksKept, LinesStay, UNCHANGED inv,
           \/ UNCHANGED job
           \/ job' = None
           \/ job' # None /\ job'.step \in {"check", "survey", "unlink"}
    PROVE  InvoicingInv'
<1> USE DEF IndInv, Types, InvoicingInv
<1>1. OneInvoice' BY DEF OneInvoice, Whole
<1>2. LinkHolds' BY DEF LinkHolds, LinksKept, LinesStay, InvoicesOf
<1>3. JobAgrees'
  <2>1. job # None => job.of \in Orders BY DEF Job
  <2> QED BY <2>1 DEF JobAgrees, LinksKept, LinesStay, InvoicesOf, Completed, Whole
<1> QED BY <1>1, <1>2, <1>3

-----------------------------------------------------------------------------
(* Requests                                                                *)

LEMMA EnqueueType ==
    ASSUME Types, NEW k \in Kinds, NEW o \in Orders, Enqueue(k, o)
    PROVE  queue' \in Seq([kind : Kinds, of : Orders])
BY DEF Types, Enqueue

LEMMA BeginsType ==
    ASSUME Types, NEW c \in Clients, NEW q \in Request, Begins(c, q)
    PROVE  request' \in [Clients -> Request \cup {None}]
BY DEF Types, Begins

LEMMA AnswerKeeps ==
    ASSUME IndInv, NEW c \in Clients, Answer(c)
    PROVE  IndInv' /\ UNCHANGED <<inv, doc>>
<1> USE DEF IndInv
<1> DEFINE q == request[c]
<1>1. q \in Request BY DEF Answer, EndLook, EndCancel, EndAutocancel, Types
<1>2. q.of \in Orders /\ q.row \in Order /\ q.number \in Numbers \cup {None}
      /\ q.erase \in BOOLEAN
  BY <1>1 DEF Request
<1>3. /\ UNCHANGED <<inv, doc, job>>
      /\ request' = [request EXCEPT ![c] = None]
  BY DEF Answer, EndLook, EndCancel, EndAutocancel
<1>4. request' \in [Clients -> Request \cup {None}] BY <1>3 DEF Types
<1>5. queue' \in Seq([kind : Kinds, of : Orders])
  <2>1. CASE UNCHANGED queue BY <2>1 DEF Types
  <2>2. CASE Enqueue("delete", q.of)
    <3>1. "delete" \in Kinds BY DEF Kinds
    <3> QED BY <1>2, <2>2, <3>1, EnqueueType
  <2> QED BY <2>1, <2>2 DEF Answer, EndLook, EndCancel, EndAutocancel
<1>6. order' \in [Orders -> Order] /\ LinksKept
  <2>1. CASE EndLook(c)
    <3>1. order' = Linked(q.of, q.number, "looked") BY <2>1 DEF EndLook
    <3> QED BY <1>2, <3>1, LinkedRow DEF LinksKept
  <2>2. CASE EndCancel(c)
    <3> DEFINE r == UnlinkAll(q.of, q.row, q.erase)
    <3>1. /\ r \in Order
          /\ r.how \in {"emitted", "located"} =>
                r.how = order[q.of].how /\ r.number = order[q.of].number
      BY <1>2, UnlinkedRow
    <3>2. order' = [order EXCEPT ![q.of] = [r EXCEPT !.cancelled = TRUE]]
      BY <2>2 DEF EndCancel
    <3> HIDE DEF r
    <3>3. /\ [r EXCEPT !.cancelled = TRUE] \in Order
          /\ [r EXCEPT !.cancelled = TRUE].how = r.how
          /\ [r EXCEPT !.cancelled = TRUE].number = r.number
      BY <3>1 DEF Order
    <3> QED BY <1>2, <3>1, <3>2, <3>3 DEF Types, LinksKept
  <2>3. CASE EndAutocancel(c)
    <3>1. order[q.of] \in Order BY <1>2 DEF Types
    <3>2. order' = [order EXCEPT ![q.of] = [order[q.of] EXCEPT !.cancelled = TRUE]]
      BY <2>3 DEF EndAutocancel
    <3>3. /\ [order[q.of] EXCEPT !.cancelled = TRUE] \in Order
          /\ [order[q.of] EXCEPT !.cancelled = TRUE].how = order[q.of].how
          /\ [order[q.of] EXCEPT !.cancelled = TRUE].number = order[q.of].number
      BY <3>1 DEF Order
    <3> QED BY <1>2, <3>2, <3>3 DEF Types, LinksKept
  <2> QED BY <2>1, <2>2, <2>3 DEF Answer
<1>7. InvoicingInv' BY <1>3, <1>6, SameDoc, LinksKeepInv
<1> QED BY <1>3, <1>4, <1>5, <1>6, <1>7 DEF Types

LEMMA AskKeeps ==
    ASSUME IndInv, NEW o \in Orders,
           \/ AskEmit(o) \/ AskConvert(o)
           \/ \E c \in Clients : Look(c, o) \/ Cancel(c, o) \/ Autocancel(c, o)
    PROVE  IndInv' /\ UNCHANGED <<inv, doc>>
<1> USE DEF IndInv
<1>1. UNCHANGED <<order, inv, doc, job>>
  BY DEF AskEmit, AskConvert, Look, Cancel, Autocancel
<1>2. order[o] \in Order BY DEF Types
<1>3. queue' \in Seq([kind : Kinds, of : Orders])
  <2>1. {"emit", "convert"} \subseteq Kinds BY DEF Kinds
  <2>2. CASE AskEmit(o) \/ AskConvert(o)
    BY <2>1, <2>2, EnqueueType DEF AskEmit, AskConvert
  <2>3. ASSUME NEW c \in Clients, Look(c, o) \/ Cancel(c, o) PROVE <1>3!:
    BY <2>3 DEF Look, Cancel, Types
  <2>4. ASSUME NEW c \in Clients, Autocancel(c, o) PROVE <1>3!:
    <3>1. [kind |-> "autocancel", of |-> o] \in [kind : Kinds, of : Orders] BY DEF Kinds
    <3> QED BY <2>4, <3>1 DEF Autocancel, Types
  <2> QED BY <2>2, <2>3, <2>4
<1>4. request' \in [Clients -> Request \cup {None}]
  <2>1. CASE AskEmit(o) \/ AskConvert(o) BY <2>1 DEF AskEmit, AskConvert, Types
  <2>2. ASSUME NEW c \in Clients, Look(c, o) PROVE <1>4!:
    <3>1. PICK n \in InvoicesOf(o) :
            Begins(c, [kind |-> "look", of |-> o, row |-> order[o], number |-> n,
                       erase |-> FALSE])
      BY <2>2 DEF Look
    <3>2. n \in Numbers BY <3>1 DEF InvoicesOf
    <3>3. [kind |-> "look", of |-> o, row |-> order[o], number |-> n, erase |-> FALSE]
            \in Request
      BY <1>2, <3>2 DEF Request
    <3> QED BY <3>1, <3>3, BeginsType
  <2>3. ASSUME NEW c \in Clients, Cancel(c, o) PROVE <1>4!:
    <3>1. PICK erase \in BOOLEAN :
            Begins(c, [kind |-> "cancel", of |-> o, row |-> order[o], number |-> None,
                       erase |-> erase])
      BY <2>3 DEF Cancel, Deletable
    <3>2. [kind |-> "cancel", of |-> o, row |-> order[o], number |-> None, erase |-> erase]
            \in Request
      BY <1>2, <3>1 DEF Request
    <3> QED BY <3>1, <3>2, BeginsType
  <2>4. ASSUME NEW c \in Clients, Autocancel(c, o) PROVE <1>4!:
    BY <1>2, <2>4 DEF Autocancel, Request, Types
  <2> QED BY <2>1, <2>2, <2>3, <2>4
<1>5. InvoicingInv' BY <1>1, SameDoc, LinksKeepInv DEF LinksKept
<1> QED BY <1>1, <1>3, <1>4, <1>5 DEF Types

LEMMA RestoreKeeps ==
    ASSUME IndInv, NEW o \in Orders, Uncancel(o) \/ Unlink(o)
    PROVE  IndInv' /\ UNCHANGED <<inv, doc>>
<1> USE DEF IndInv
<1>1. UNCHANGED <<inv, doc, queue, job, request>> BY DEF Uncancel, Unlink
<1>2. order[o] \in Order BY DEF Types
<1>3. order' \in [Orders -> Order] /\ LinksKept
  <2>1. CASE Unlink(o)
    <3>1. order' = Linked(o, None, "none") BY <2>1 DEF Unlink
    <3> QED BY <3>1, LinkedRow DEF LinksKept
  <2>2. CASE Uncancel(o)
    <3>1. PICK n \in order[o].saved \cup {None} :
            order' = [order EXCEPT ![o] =
              [number    |-> IF n = None THEN order[o].number ELSE n,
               how       |-> IF n = None THEN order[o].how ELSE "restored",
               cancelled |-> FALSE,
               albaran   |-> IF order[o].albaran = "kept" THEN "linked" ELSE order[o].albaran,
               saved     |-> {}]]
      BY <2>2 DEF Uncancel
    <3> DEFINE r == [number    |-> IF n = None THEN order[o].number ELSE n,
                     how       |-> IF n = None THEN order[o].how ELSE "restored",
                     cancelled |-> FALSE,
                     albaran   |-> IF order[o].albaran = "kept" THEN "linked"
                                   ELSE order[o].albaran,
                     saved     |-> {}]
    <3>2. n \in Numbers \cup {None} BY <1>2, <3>1 DEF Order
    <3>3. r \in Order /\ (r.how \in {"emitted", "located"} =>
                             r.how = order[o].how /\ r.number = order[o].number)
      BY <1>2, <3>2 DEF Order
    <3>4. order' = [order EXCEPT ![o] = r] BY <3>1
    <3> HIDE DEF r
    <3> QED BY <3>3, <3>4 DEF Types, LinksKept
  <2> QED BY <2>1, <2>2
<1>4. InvoicingInv' BY <1>1, <1>3, SameDoc, LinksKeepInv
<1> QED BY <1>1, <1>3, <1>4 DEF Types
-----------------------------------------------------------------------------
(* The worker                                                              *)

\* A job keeps its order, whatever step it goes to.
LEMMA GoesTo ==
    ASSUME Types, NEW s \in {"check", "number", "header", "lines", "undo lines",
                             "undo header", "mark", "commit", "survey",
                             "erase lines", "erase header", "unlink"},
           job # None, Goes(s)
    PROVE  /\ job' \in Job /\ job' # None /\ job'.step = s
           /\ job'.of = job.of /\ job'.number = job.number
           /\ job.of \in Orders
<1>1. job \in Job BY DEF Types
<1>2. job' = [job EXCEPT !.step = s] BY DEF Goes
<1>3. job' \in Job BY <1>1, <1>2 DEF Job
<1>4. job' # None BY <1>3, Constants
<1> QED BY <1>1, <1>2, <1>3, <1>4 DEF Job

Done(f, o) == \E n \in Numbers :
    f[n] # None /\ f[n].of = o /\ f[n].lines = Lines /\ f[n].by = "worker"

LEMMA DoneIsCompleted == \A o \in Orders : Completed(o) <=> Done(inv, o)
BY DEF Completed, Done, InvoicesOf, Whole

\* JobAgrees of the next state, spelled out.
LEMMA Agreement ==
    ASSUME NEW j, job' = j, NEW f, inv' = f, UNCHANGED order,
           j # None =>
             /\ j.step = "header" => j.number \in Numbers
             /\ j.step \in {"number", "header", "lines", "erase lines", "erase header"} =>
                   ~Done(f, j.of)
             /\ j.step \in {"lines", "undo lines", "undo header", "mark", "commit"} =>
                   /\ j.number \in Numbers /\ f[j.number] # None
                   /\ f[j.number].of = j.of /\ f[j.number].by = "worker"
                   /\ j.step = "lines" => f[j.number].lines < doc'[j.of].lines
                   /\ j.step \in {"mark", "commit"} => f[j.number].lines = doc'[j.of].lines
                   /\ \A o \in Orders : order[o].how \in {"emitted", "located"} =>
                         order[o].number # j.number
    PROVE  JobAgrees'
BY DEF JobAgrees, Completed, Done, InvoicesOf, Whole

LEMMA TakeKeeps == ASSUME IndInv, Take PROVE IndInv' /\ UNCHANGED <<inv, doc>>
<1> USE DEF IndInv
<1>1. UNCHANGED <<order, inv, doc, request>> /\ queue # <<>> /\ queue' = Tail(queue)
  BY DEF Take
<1> DEFINE q == Head(queue)
           row == order[q.of]
           from == IF q.kind = "convert" \/ row.albaran = "linked" THEN "albaran" ELSE "pcl"
<1>2. q \in [kind : Kinds, of : Orders]
  <2> DEFINE S == [kind : Kinds, of : Orders]
  <2>1. queue \in Seq(S) BY DEF Types
  <2>2. queue # <<>> BY <1>1
  <2> HIDE DEF S
  <2>3. Head(queue) \in S BY <2>1, <2>2
  <2> QED BY <2>3 DEF S
<1>3. q.kind \in Kinds /\ q.of \in Orders /\ row \in Order BY <1>2 DEF Types
<1>4. queue' \in Seq([kind : Kinds, of : Orders]) BY <1>1 DEF Types
<1>5. FirstStep(q.kind, row) \in {"check", "survey", None}
  BY <1>3 DEF FirstStep, Kinds
<1>6. \/ job' = None
      \/ \E s \in {"check", "survey"} :
            job' = [kind |-> q.kind, of |-> q.of, step |-> s, row |-> row, from |-> from,
                    number |-> None, erased |-> FALSE]
  BY <1>5 DEF Take
<1>7. job' = None \/ (job' \in Job /\ job'.step \in {"check", "survey"})
  <2>1. from \in {"pcl", "albaran"} OBVIOUS
  <2> HIDE DEF q, row, from
  <2>2. ASSUME NEW s \in {"check", "survey"},
               job' = [kind |-> q.kind, of |-> q.of, step |-> s, row |-> row, from |-> from,
                       number |-> None, erased |-> FALSE]
        PROVE  job' \in Job /\ job'.step \in {"check", "survey"}
    BY <1>3, <2>1, <2>2 DEF Job
  <2> QED BY <1>6, <2>2
<1>8. InvoicingInv'
  <2>1. job' = None \/ (job' # None /\ job'.step \in {"check", "survey", "unlink"})
    BY <1>7, Constants
  <2> QED BY <1>1, <2>1, SameDoc, LinksKeepInv DEF LinksKept
<1> QED BY <1>1, <1>4, <1>7, <1>8 DEF Types

LEMMA CheckKeeps == ASSUME IndInv, Check PROVE IndInv' /\ UNCHANGED <<inv, doc>>
<1> USE DEF IndInv
<1> DEFINE o == job.of
           located == IF job.from = "pcl" THEN InvoicesOf(o) ELSE {}
<1>1. /\ job # None /\ job \in Job /\ o \in Orders /\ job.from \in {"pcl", "albaran"}
      /\ UNCHANGED <<inv, doc, queue, request>>
  BY DEF Check, At, Types, Job
\* The invoice that is there is linked.
<1>2. CASE \E n \in located : order' = Linked(o, n, "located") /\ Ends
  <2>1. PICK n \in InvoicesOf(o) : order' = Linked(o, n, "located") BY <1>2
  <2>2. n \in Numbers BY <2>1 DEF InvoicesOf
  <2>3. job' = None BY <1>2 DEF Ends
  <2>4. /\ order' \in [Orders -> Order]
        /\ order'[o].number = n /\ order'[o].how = "located"
        /\ \A p \in Orders : p # o => order'[p] = order[p]
    BY <1>1, <2>1, <2>2, LinkedRow
  <2>5. LinkHolds'
    BY <1>1, <2>1, <2>2, <2>4 DEF LinkHolds, InvoicesOf, Whole, InvoicingInv
  <2>6. OneInvoice' BY <1>1 DEF OneInvoice, Whole, InvoicingInv
  <2> QED BY <1>1, <2>3, <2>4, <2>5, <2>6 DEF InvoicingInv, JobAgrees, Types
<1>3. CASE order' = order /\ Ends
  BY <1>1, <1>3, SameDoc, LinksKeepInv DEF LinksKept, Ends, Types
\* Only where no complete invoice was found does the job go on.
<1>4. CASE /\ order' = order /\ Goes("number")
           /\ located = {} /\ (job.from = "albaran" => Children(o) = {})
  <2>1. /\ job' \in Job /\ job' # None /\ job'.step = "number" /\ job'.of = o
    BY <1>1, <1>4, GoesTo
  <2>2. ~Completed(o)
    BY <1>1, <1>4, Constants DEF Completed, Whole, Children, InvoicesOf
  <2>3. OneInvoice' /\ LinkHolds'
    BY <1>1, <1>4 DEF OneInvoice, LinkHolds, InvoicesOf, Whole, LinesStay, InvoicingInv
  <2>4. JobAgrees' BY <1>1, <2>1, <2>2 DEF JobAgrees, Completed, InvoicesOf, Whole
  <2> QED BY <1>1, <1>4, <2>1, <2>3, <2>4 DEF InvoicingInv, Types
<1> QED BY <1>1, <1>2, <1>3, <1>4 DEF Check, HasSource

LEMMA NumberKeeps == ASSUME IndInv, PickNumber PROVE IndInv' /\ UNCHANGED <<inv, doc>>
<1> USE DEF IndInv
<1>1. /\ job # None /\ job \in Job /\ job.step = "number" /\ NextNumber \in Numbers
      /\ job' = [job EXCEPT !.step = "header", !.number = NextNumber]
      /\ UNCHANGED <<order, inv, doc, queue, request>>
  BY DEF PickNumber, At, Types
<1>2. job' \in Job /\ job'.step = "header" /\ job'.of = job.of /\ job'.number \in Numbers
  BY <1>1 DEF Job
<1>3. ~Completed(job.of) BY <1>1 DEF InvoicingInv, JobAgrees
<1>4. OneInvoice' /\ LinkHolds'
  BY <1>1 DEF OneInvoice, LinkHolds, InvoicesOf, Whole, LinesStay, InvoicingInv
<1>5. JobAgrees' BY <1>1, <1>2, <1>3 DEF JobAgrees, Completed, InvoicesOf, Whole
<1> QED BY <1>1, <1>2, <1>4, <1>5 DEF InvoicingInv, Types

\* What is written under a number that is free or the job's own.
LEMMA WriteOne ==
    ASSUME IndInv, NEW n \in Numbers, NEW i \in Invoice \cup {None},
           inv' = [inv EXCEPT ![n] = i], UNCHANGED <<order, doc>>,
           \A o \in Orders : order[o].how \in {"emitted", "located"} => order[o].number # n,
           i # None /\ i.lines = Lines => \A m \in InvoicesOf(i.of) :
                                             Whole(m) /\ inv[m].by = "worker" => m = n
    PROVE  /\ inv' \in [Numbers -> Invoice \cup {None}]
           /\ inv'[n] = i /\ \A m \in Numbers : m # n => inv'[m] = inv[m]
           /\ OneInvoice' /\ LinkHolds'
<1> USE DEF IndInv, InvoicingInv
<1>1. /\ inv' \in [Numbers -> Invoice \cup {None}] /\ inv'[n] = i
      /\ \A m \in Numbers : m # n => inv'[m] = inv[m]
  BY DEF Types
<1>2. OneInvoice'
  <2> SUFFICES ASSUME NEW k \in Numbers, NEW m \in Numbers,
                      Whole(k)', Whole(m)', inv'[k].by = "worker", inv'[m].by = "worker",
                      inv'[k].of = inv'[m].of
               PROVE  k = m
    BY DEF OneInvoice
  <2>1. CASE k # n /\ m # n BY <1>1, <2>1 DEF OneInvoice, Whole
  <2>2. CASE k = n /\ m # n
    <3>1. m \in InvoicesOf(i.of) /\ Whole(m) /\ inv[m].by = "worker"
      BY <1>1, <2>2 DEF InvoicesOf, Whole
    <3> QED BY <1>1, <2>2, <3>1 DEF Whole
  <2>3. CASE k # n /\ m = n
    <3>1. k \in InvoicesOf(i.of) /\ Whole(k) /\ inv[k].by = "worker"
      BY <1>1, <2>3 DEF InvoicesOf, Whole
    <3> QED BY <1>1, <2>3, <3>1 DEF Whole
  <2> QED BY <2>1, <2>2, <2>3
<1>3. LinkHolds' BY <1>1 DEF LinkHolds, InvoicesOf, Whole
<1> QED BY <1>1, <1>2, <1>3

\* What people wrote is not touched.
HandsKept == \A n \in Numbers : inv[n] # None /\ inv[n].by = "hand" => inv'[n] = inv[n]

LEMMA HeaderKeeps == ASSUME IndInv, WriteHeader PROVE IndInv' /\ HandsKept /\ UNCHANGED doc
<1> USE DEF IndInv, InvoicingInv
<1> DEFINE n == job.number
           i == [of |-> job.of, lines |-> 0, by |-> "worker"]
<1>1. /\ job # None /\ job \in Job /\ job.step = "header"
      /\ UNCHANGED <<order, doc, queue, request>>
  BY DEF WriteHeader, At, Types
<1>2. n \in Numbers /\ job.of \in Orders /\ ~Completed(job.of)
  BY <1>1 DEF JobAgrees, Job
<1>3. i \in Invoice /\ i # None /\ i.lines # Lines
      /\ doc[job.of].lines \in {0, Lines}
  BY <1>2, Constants DEF Invoice, Types, Source
<1>4. CASE UNCHANGED inv /\ Ends
  BY <1>1, <1>4, SameDoc, LinksKeepInv DEF LinksKept, Ends, Types, HandsKept
<1>5. CASE inv[n] = None /\ inv' = Written(n, job.of) /\ (Loops(0) \/ Ends)
  <2>1. inv' = [inv EXCEPT ![n] = i] BY <1>5 DEF Written
  <2>2. \A o \in Orders : order[o].how \in {"emitted", "located"} => order[o].number # n
    BY <1>5 DEF LinkHolds, InvoicesOf
  <2>3. /\ inv' \in [Numbers -> Invoice \cup {None}]
        /\ inv'[n] = i /\ \A m \in Numbers : m # n => inv'[m] = inv[m]
        /\ OneInvoice' /\ LinkHolds'
    <3> HIDE DEF n, i, IndInv, InvoicingInv
    <3> QED BY <1>1, <1>2, <1>3, <2>1, <2>2, WriteOne
  <2>4. HandsKept BY <1>5, <2>3 DEF HandsKept
  <2>5. CASE Ends
    <3>1. job' = None BY <2>5 DEF Ends
    <3> QED BY <1>1, <2>3, <2>4, <3>1 DEF JobAgrees, Types
  \* A source without lines leaves nothing to write.
  <2>6. CASE Loops(0)
    <3> DEFINE s == IF 0 = doc[job.of].lines THEN "mark" ELSE "lines"
    <3>1. Goes(s) /\ s \in {"mark", "lines"} BY <2>6 DEF Loops
    <3>2. /\ job' \in Job /\ job' # None /\ job'.step = s /\ job'.of = job.of
          /\ job'.number = n
      <4> HIDE DEF s
      <4> QED BY <1>1, <3>1, GoesTo
    <3>3. ~Done(inv', job.of)
      BY <1>2, <1>3, <2>3, DoneIsCompleted DEF Done
    <3>4. inv'[n].of = job.of /\ inv'[n].by = "worker" /\ inv'[n].lines = 0
      BY <2>3
    <3>5. /\ s = "mark" => 0 = doc'[job.of].lines
          /\ s = "lines" => 0 < doc'[job.of].lines
      BY <1>1, <1>3, Constants
    <3>6. JobAgrees'
      <4> HIDE DEF n, i, s, IndInv, InvoicingInv
      <4> QED BY <1>1, <1>2, <1>3, <2>2, <2>3, <3>1, <3>2, <3>3, <3>4, <3>5, Agreement
    <3> QED BY <1>1, <2>3, <2>4, <3>2, <3>6 DEF Types
  <2> QED BY <1>5, <2>5, <2>6
<1> QED BY <1>1, <1>4, <1>5 DEF WriteHeader

\* The invoice of the job with k lines.
WithLines(k) == [inv EXCEPT ![job.number] = [inv[job.number] EXCEPT !.lines = k]]

LEMMA LineKeeps ==
    ASSUME IndInv, WriteLine \/ UndoLines PROVE IndInv' /\ HandsKept /\ UNCHANGED doc
<1> USE DEF IndInv, InvoicingInv
<1> DEFINE n == job.number
<1>1. /\ job # None /\ job \in Job /\ job.step \in {"lines", "undo lines"}
      /\ UNCHANGED <<order, doc, queue, request>>
  BY DEF WriteLine, UndoLines, At, Types
<1>2. /\ n \in Numbers /\ job.of \in Orders /\ inv[n] # None /\ inv[n] \in Invoice
      /\ inv[n].of = job.of /\ inv[n].by = "worker" /\ inv[n].lines \in 0..Lines
      /\ doc[job.of].lines \in {0, Lines}
      /\ job.step = "lines" => inv[n].lines < doc[job.of].lines /\ ~Completed(job.of)
      /\ \A o \in Orders : order[o].how \in {"emitted", "located"} => order[o].number # n
  BY <1>1 DEF JobAgrees, Job, InvoicesOf, Types, Invoice, Source
<1>3. CASE UNCHANGED inv /\ Ends
  BY <1>1, <1>3, SameDoc, LinksKeepInv DEF LinksKept, Ends, Types, HandsKept
<1>4. ASSUME NEW k \in 0..Lines,
             NEW s \in {"lines", "mark", "undo lines", "undo header", "end"},
             inv' = WithLines(k),
             k = Lines => job.step = "lines" \/ inv[n].lines = Lines,
             IF s = "end" THEN Ends ELSE Goes(s),
             s = "lines" => job.step = "lines" /\ k < doc[job.of].lines,
             s = "mark" => k = doc[job.of].lines
      PROVE  IndInv' /\ HandsKept
  <2> DEFINE i == [inv[n] EXCEPT !.lines = k]
  <2>1. /\ i \in Invoice /\ i # None /\ i.lines = k /\ i.of = job.of /\ i.by = "worker"
    BY <1>2, Constants DEF Invoice
  <2>2. k = Lines => \A m \in InvoicesOf(job.of) :
                       Whole(m) /\ inv[m].by = "worker" => m = n
    BY <1>2, <1>4 DEF Completed, OneInvoice, InvoicesOf, Whole
  <2>3. /\ inv' \in [Numbers -> Invoice \cup {None}]
        /\ inv'[n] = i /\ \A m \in Numbers : m # n => inv'[m] = inv[m]
        /\ OneInvoice' /\ LinkHolds'
    <3>1. inv' = [inv EXCEPT ![n] = i] BY <1>4 DEF WithLines
    <3> HIDE DEF n, i, IndInv, InvoicingInv
    <3> QED BY <1>1, <1>2, <2>1, <2>2, <3>1, WriteOne
  <2>4. HandsKept BY <1>2, <2>3 DEF HandsKept
  <2>5. CASE s = "end"
    BY <1>1, <1>4, <2>3, <2>4, <2>5 DEF Ends, JobAgrees, Types
  <2>6. CASE s # "end"
    <3>1. /\ job' \in Job /\ job' # None /\ job'.step = s /\ job'.of = job.of
          /\ job'.number = n
      BY <1>1, <1>4, <2>6, GoesTo
    <3>2. s = "lines" => ~Done(inv', job.of)
      <4> SUFFICES ASSUME s = "lines", NEW m \in Numbers, inv'[m] # None,
                          inv'[m].of = job.of, inv'[m].lines = Lines,
                          inv'[m].by = "worker"
                   PROVE  FALSE
        BY DEF Done
      <4>1. k # Lines
        <5>1. k \in Nat /\ k < doc[job.of].lines BY <1>4, Constants
        <5>2. doc[job.of].lines \in {0, Lines} BY <1>2
        <5> QED BY <5>1, <5>2, Constants
      <4>2. m # n
        <5>1. inv'[n].lines = k BY <2>1, <2>3
        <5> QED BY <4>1, <5>1
      <4>3. inv[m] = inv'[m] BY <2>3, <4>2
      <4>4. Done(inv, job.of) BY <4>3 DEF Done
      <4> QED BY <1>2, <1>4, <4>4, DoneIsCompleted
    <3>3. /\ inv'[n] # None /\ inv'[n].of = job.of /\ inv'[n].by = "worker"
          /\ inv'[n].lines = k
      BY <2>1, <2>3
    <3>4. /\ s = "lines" => k < doc'[job.of].lines
          /\ s = "mark" => k = doc'[job.of].lines
      BY <1>1, <1>4
    <3>5. JobAgrees'
      <4>1. UNCHANGED order /\ n \in Numbers BY <1>1, <1>2
      <4>2. \A o \in Orders : order[o].how \in {"emitted", "located"} => order[o].number # n
        BY <1>2
      <4>3. s \in {"lines", "mark", "undo lines", "undo header"} BY <2>6
      <4> HIDE DEF n, i, IndInv, InvoicingInv
      <4> QED BY <4>3, <3>1, <3>2, <3>3, <3>4, <4>1, <4>2, Agreement
    <3> QED BY <1>1, <2>3, <2>4, <3>1, <3>5 DEF Types
  <2> QED BY <1>4, <2>5, <2>6
<1>5. ASSUME UNCHANGED inv, Goes("undo lines") PROVE IndInv' /\ HandsKept
  <2>1. inv' = WithLines(inv[n].lines)
    <3>1. inv[n] = [inv[n] EXCEPT !.lines = inv[n].lines] BY <1>2 DEF Invoice
    <3> QED BY <1>2, <1>5, <3>1 DEF Types, WithLines
  <2>2. inv[n].lines \in 0..Lines /\ (inv[n].lines = Lines => inv[n].lines = Lines)
    BY <1>2
  <2> HIDE DEF n, IndInv, InvoicingInv
  <2> QED BY <1>4, <1>5, <2>1, <2>2
<1>6. CASE WriteLine
  <2> DEFINE more == [inv EXCEPT ![n].lines = @ + 1]
             k == inv[n].lines + 1
  <2>1. job.step = "lines" /\ k \in 0..Lines /\ k <= doc[job.of].lines
    <3>1. job.step = "lines" BY <1>6 DEF WriteLine, At
    <3>2. inv[n].lines \in 0..Lines /\ inv[n].lines < doc[job.of].lines BY <1>2, <3>1
    <3> QED BY <1>2, <3>1, <3>2, Constants
  <2>2. more = WithLines(k) /\ more[n].lines = k
    BY <1>2 DEF Types, Invoice, WithLines
  <2>3. CASE inv' = more /\ Loops(k)
    <3> DEFINE s == IF k = doc[job.of].lines THEN "mark" ELSE "lines"
    <3>1. /\ s \in {"lines", "mark", "undo lines", "undo header"} /\ Goes(s)
          /\ s = "lines" => job.step = "lines" /\ k < doc[job.of].lines
          /\ s = "mark" => k = doc[job.of].lines
      <4>1. doc[job.of].lines \in Nat BY <1>2, Constants
      <4>2. k # doc[job.of].lines => k < doc[job.of].lines BY <2>1, <4>1
      <4> QED BY <2>1, <2>3, <4>2 DEF Loops
    <3>2. inv' = WithLines(k) BY <2>2, <2>3
    <3> HIDE DEF s, k, more, IndInv, InvoicingInv
    <3> QED BY <1>1, <1>4, <2>1, <3>1, <3>2
  <2>4. CASE Goes("undo lines") /\ inv' = more
    <3>1. inv' = WithLines(k) BY <2>2, <2>4
    <3> HIDE DEF k, more, IndInv, InvoicingInv
    <3> QED BY <1>1, <1>4, <2>1, <2>4, <3>1
  <2> QED BY <1>1, <1>5, <1>6, <2>2, <2>3, <2>4 DEF WriteLine
<1>7. CASE UndoLines
  <2>1. 0 \in 0..Lines /\ 0 # Lines BY Constants
  <2>2. [inv EXCEPT ![n].lines = 0] = WithLines(0) BY DEF WithLines
  <2>3. \/ UNCHANGED inv /\ Ends
        \/ inv' = WithLines(0)
             /\ (Ends \/ Goes("undo header"))
    BY <1>7, <2>2 DEF UndoLines
  <2> HIDE DEF n, IndInv, InvoicingInv
  <2> QED BY <1>1, <1>3, <1>4, <2>1, <2>3
<1> QED BY <1>6, <1>7

LEMMA UndoHeaderKeeps ==
    ASSUME IndInv, UndoHeader PROVE IndInv' /\ HandsKept /\ UNCHANGED doc
<1> USE DEF IndInv, InvoicingInv
<1> DEFINE n == job.number
<1>1. /\ job # None /\ job \in Job /\ job.step = "undo header" /\ job' = None
      /\ UNCHANGED <<order, doc, queue, request>>
  BY DEF UndoHeader, At, Types, Ends
<1>2. /\ n \in Numbers /\ inv[n].by = "worker"
      /\ \A o \in Orders : order[o].how \in {"emitted", "located"} => order[o].number # n
  BY <1>1 DEF JobAgrees, InvoicesOf
<1>3. CASE UNCHANGED inv
  BY <1>1, <1>3, SameDoc, LinksKeepInv DEF LinksKept, Types, HandsKept
<1>4. CASE inv' = [inv EXCEPT ![n] = None]
  <2>1. /\ inv' \in [Numbers -> Invoice \cup {None}]
        /\ inv'[n] = None /\ \A m \in Numbers : m # n => inv'[m] = inv[m]
        /\ OneInvoice' /\ LinkHolds'
    <3> HIDE DEF n, IndInv, InvoicingInv
    <3> QED BY <1>1, <1>2, <1>4, WriteOne
  <2>2. HandsKept BY <1>2, <2>1 DEF HandsKept
  <2> QED BY <1>1, <2>1, <2>2 DEF JobAgrees, Types
<1> QED BY <1>3, <1>4 DEF UndoHeader

\* No source document loses lines or header.
DocStays == LinesStay /\ \A o \in Orders : doc'[o].state = "gone" => doc[o].state = "gone"

\* A source document is marked as invoiced.
LEMMA Marked ==
    ASSUME Types, NEW o \in Orders, doc' = [doc EXCEPT ![o].state = "invoiced"]
    PROVE  doc' \in [Orders -> Source] /\ DocStays
BY DEF Types, Source, DocStays, LinesStay

LEMMA MarkKeeps ==
    ASSUME IndInv, Mark PROVE IndInv' /\ UNCHANGED inv /\ DocStays
<1> USE DEF IndInv, InvoicingInv
<1>1. /\ job # None /\ job \in Job /\ job.step = "mark" /\ Goes("commit")
      /\ UNCHANGED <<order, inv, queue, request>>
  BY DEF Mark, At, Types
<1>2. doc' \in [Orders -> Source] /\ DocStays
  <2>1. job.of \in Orders BY <1>1 DEF Job
  <2>2. CASE UNCHANGED doc BY <2>2 DEF Types, DocStays, LinesStay
  <2>3. CASE doc' = [doc EXCEPT ![job.of].state = "invoiced"]
    <3> HIDE DEF IndInv, InvoicingInv
    <3> QED BY <2>1, <2>3, Marked DEF IndInv
  <2> QED BY <2>2, <2>3 DEF Mark
<1>3. /\ job' \in Job /\ job' # None /\ job'.step = "commit" /\ job'.of = job.of
      /\ job'.number = job.number
  BY <1>1, GoesTo
<1>4. OneInvoice' /\ LinkHolds'
  BY <1>1, <1>2 DEF OneInvoice, LinkHolds, InvoicesOf, Whole, DocStays, LinesStay
<1>5. JobAgrees'
  <2>1. job.of \in Orders BY <1>1 DEF Job
  <2> QED BY <1>1, <1>2, <1>3, <2>1 DEF JobAgrees, InvoicesOf, DocStays, LinesStay
<1> QED BY <1>1, <1>2, <1>3, <1>4, <1>5 DEF Types

LEMMA CommitKeeps == ASSUME IndInv, Commit PROVE IndInv' /\ UNCHANGED <<inv, doc>>
<1> USE DEF IndInv, InvoicingInv
<1>1. /\ job # None /\ job \in Job /\ job.step = "commit" /\ job' = None
      /\ UNCHANGED <<inv, doc, queue, request>>
  BY DEF Commit, At, Types, Ends
<1>2. /\ job.of \in Orders /\ job.number \in InvoicesOf(job.of)
      /\ inv[job.number].lines = doc[job.of].lines /\ inv[job.number].by = "worker"
  BY <1>1 DEF JobAgrees, Job
<1>3. CASE UNCHANGED order
  BY <1>1, <1>3, SameDoc, LinksKeepInv DEF LinksKept, Types
<1>4. CASE order' = Linked(job.of, job.number, "emitted")
  <2>0. job.number \in Numbers BY <1>2 DEF InvoicesOf
  <2>1. /\ order' \in [Orders -> Order]
        /\ order'[job.of].number = job.number /\ order'[job.of].how = "emitted"
        /\ \A p \in Orders : p # job.of => order'[p] = order[p]
    BY <1>2, <1>4, <2>0, LinkedRow
  <2>2. LinkHolds'
    BY <1>1, <1>2, <2>1 DEF LinkHolds, InvoicesOf, Whole
  <2>3. OneInvoice' BY <1>1 DEF OneInvoice, Whole
  <2> QED BY <1>1, <2>1, <2>2, <2>3 DEF JobAgrees, Types
<1> QED BY <1>3, <1>4 DEF Commit

LEMMA SurveyKeeps == ASSUME IndInv, Survey PROVE IndInv' /\ UNCHANGED <<inv, doc>>
<1> USE DEF IndInv, InvoicingInv
<1>1. /\ job # None /\ job \in Job /\ UNCHANGED <<order, inv, doc, queue, request>>
  BY DEF Survey, At, Types
<1>2. CASE Ends
  BY <1>1, <1>2, SameDoc, LinksKeepInv DEF LinksKept, Ends, Types
<1>3. CASE Goes("unlink")
  <2>1. job' \in Job /\ job' # None /\ job'.step = "unlink" BY <1>1, <1>3, GoesTo
  <2> QED BY <1>1, <2>1, SameDoc, LinksKeepInv DEF LinksKept, Types
\* A document is only deleted where no complete invoice was found.
<1>4. CASE Goes("erase lines") /\ Deletable(job.of, job.row)
  <2>1. job' \in Job /\ job' # None /\ job'.step = "erase lines" /\ job'.of = job.of
    BY <1>1, <1>4, GoesTo
  <2>2. ~Completed(job.of)
    <3>1. InvoicesOf(job.of) = {} \/ Children(job.of) = {} BY <1>4 DEF Deletable
    <3> QED BY <3>1, Constants DEF Completed, Whole, Children
  <2>3. OneInvoice' /\ LinkHolds'
    BY <1>1 DEF OneInvoice, LinkHolds, InvoicesOf, Whole, LinesStay
  <2>4. JobAgrees' BY <1>1, <2>1, <2>2 DEF JobAgrees, Completed, InvoicesOf, Whole
  <2> QED BY <1>1, <2>1, <2>3, <2>4 DEF Types
<1> QED BY <1>2, <1>3, <1>4 DEF Survey

\* No source document that has a complete invoice of the worker loses anything.
InvoicedKept ==
    \A o \in Orders :
        \/ doc'[o].lines < doc[o].lines
        \/ doc[o].state # "gone" /\ doc'[o].state = "gone"
        => ~Completed(o)

LEMMA EraseLinesKeeps ==
    ASSUME IndInv, EraseLines PROVE IndInv' /\ UNCHANGED inv /\ InvoicedKept
<1> USE DEF IndInv, InvoicingInv
<1>1. /\ job # None /\ job \in Job /\ job.step = "erase lines"
      /\ UNCHANGED <<order, inv, queue, request>>
  BY DEF EraseLines, At, Types
<1>2. job.of \in Orders /\ ~Completed(job.of) BY <1>1 DEF JobAgrees, Job
<1>3. \A o \in Orders : doc[o] \in Source /\ doc[o].lines \in {0, Lines}
  BY DEF Types, Source
<1>4. CASE UNCHANGED doc /\ Ends
  <2>1. InvoicedKept BY <1>3, <1>4, Constants DEF InvoicedKept
  <2> QED BY <1>1, <1>4, <2>1, SameDoc, LinksKeepInv DEF LinksKept, Ends, Types
<1>5. CASE doc' = [doc EXCEPT ![job.of].lines = 0] /\ (Goes("erase header") \/ Ends)
  <2>1. /\ doc' \in [Orders -> Source]
        /\ doc'[job.of].lines = 0 /\ doc'[job.of].state = doc[job.of].state
        /\ \A o \in Orders : o # job.of => doc'[o] = doc[o]
    BY <1>2, <1>3, <1>5 DEF Types, Source
  <2>2. InvoicedKept BY <1>2, <1>3, <2>1, Constants DEF InvoicedKept
  \* What a job wrote of this source has no lines: it is not whole, and the source
  \* had none or all.
  <2>3. LinkHolds'
    <3> SUFFICES ASSUME NEW o \in Orders, order[o].how \in {"emitted", "located"}
                 PROVE  /\ order[o].number \in InvoicesOf(o)
                        /\ order[o].how = "emitted" =>
                              /\ inv[order[o].number].by = "worker"
                              /\ inv[order[o].number].lines = doc'[o].lines
      BY <1>1 DEF LinkHolds, InvoicesOf
    <3>1. /\ order[o].number \in InvoicesOf(o)
          /\ order[o].how = "emitted" =>
                /\ inv[order[o].number].by = "worker"
                /\ inv[order[o].number].lines = doc[o].lines
      BY DEF LinkHolds
    <3>2. CASE o # job.of BY <2>1, <3>1, <3>2
    <3>3. CASE o = job.of /\ order[o].how = "emitted"
      <4>1. inv[order[o].number].lines # Lines
        BY <1>2, <3>1, <3>3 DEF Completed, Whole, InvoicesOf
      <4> QED BY <1>3, <2>1, <3>1, <3>3, <4>1
    <3> QED BY <3>1, <3>2, <3>3
  <2>4. OneInvoice' BY <1>1 DEF OneInvoice, Whole
  <2>5. JobAgrees' /\ job' \in Job \cup {None}
    <3>1. CASE Ends BY <3>1 DEF Ends, JobAgrees
    <3>2. CASE Goes("erase header")
      <4>1. job' \in Job /\ job' # None /\ job'.step = "erase header" /\ job'.of = job.of
        BY <1>1, <3>2, GoesTo
      <4> QED BY <1>1, <1>2, <4>1 DEF JobAgrees, Completed, InvoicesOf, Whole
    <3> QED BY <1>5, <3>1, <3>2
  <2> QED BY <1>1, <2>1, <2>2, <2>3, <2>4, <2>5 DEF Types
<1> QED BY <1>4, <1>5 DEF EraseLines

LEMMA EraseHeaderKeeps ==
    ASSUME IndInv, EraseHeader PROVE IndInv' /\ UNCHANGED inv /\ InvoicedKept
<1> USE DEF IndInv, InvoicingInv
<1>1. /\ job # None /\ job \in Job /\ job.step = "erase header"
      /\ UNCHANGED <<order, inv, queue, request>>
  BY DEF EraseHeader, At, Types
<1>2. job.of \in Orders /\ ~Completed(job.of) BY <1>1 DEF JobAgrees, Job
<1>3. doc' \in {doc, [doc EXCEPT ![job.of].state = "gone"]} BY DEF EraseHeader
<1>4. /\ doc' \in [Orders -> Source] /\ LinesStay
      /\ \A o \in Orders : o # job.of => doc'[o] = doc[o]
  <2>1. CASE UNCHANGED doc BY <2>1 DEF Types, LinesStay
  <2>2. CASE doc' = [doc EXCEPT ![job.of].state = "gone"]
    BY <1>2, <2>2 DEF Types, Source, LinesStay
  <2> QED BY <1>3, <2>1, <2>2
<1>5. InvoicedKept
  <2>1. \A o \in Orders : doc[o].lines \in Nat BY Constants DEF Types, Source
  <2> QED BY <1>2, <1>4, <2>1 DEF InvoicedKept, LinesStay
<1>6. CASE Ends
  BY <1>1, <1>4, <1>5, <1>6, LinksKeepInv DEF LinksKept, Ends, Types
<1>7. CASE job' = [job EXCEPT !.step = "unlink", !.erased = TRUE]
  <2>1. job' \in Job /\ job'.step = "unlink" BY <1>1, <1>7 DEF Job
  <2>2. job' # None BY <2>1, Constants
  <2>3. InvoicingInv' BY <1>1, <1>4, <2>1, <2>2, LinksKeepInv DEF LinksKept
  <2> QED BY <1>1, <1>4, <1>5, <2>1, <2>3 DEF Types
<1> QED BY <1>6, <1>7 DEF EraseHeader

LEMMA ForgetKeeps == ASSUME IndInv, Forget PROVE IndInv' /\ UNCHANGED <<inv, doc>>
<1> USE DEF IndInv
<1>1. /\ job # None /\ job \in Job /\ job' = None
      /\ UNCHANGED <<inv, doc, queue, request>>
  BY DEF Forget, At, Types, Ends
<1> DEFINE o == job.of
           keep == job.erased /\ o \in Manual
           u == UnlinkAll(o, job.row, keep)
           r == IF keep THEN [u EXCEPT !.albaran = "none"] ELSE u
<1>2. o \in Orders /\ job.row \in Order /\ keep \in BOOLEAN BY <1>1 DEF Job
<1>3. /\ u \in Order
      /\ u.how \in {"emitted", "located"} => u.how = order[o].how /\ u.number = order[o].number
  BY <1>2, UnlinkedRow
<1>4. order' = [order EXCEPT ![o] = r]
  <2>1. CASE keep BY <2>1 DEF Forget
  <2>2. CASE ~keep BY <2>2 DEF Forget
  <2> QED BY <2>1, <2>2
<1>5. /\ r \in Order
      /\ r.how \in {"emitted", "located"} => r.how = order[o].how /\ r.number = order[o].number
  <2> HIDE DEF u, keep
  <2> QED BY <1>3 DEF Order
<1>6. order' \in [Orders -> Order] /\ LinksKept
  <2> HIDE DEF r, o
  <2> QED BY <1>2, <1>4, <1>5 DEF Types, LinksKept
<1>7. InvoicingInv' BY <1>1, <1>6, SameDoc, LinksKeepInv
<1> QED BY <1>1, <1>6, <1>7 DEF Types

LEMMA HandKeeps ==
    ASSUME IndInv, NEW o \in Orders, ByHand(o)
    PROVE  IndInv' /\ HandsKept /\ DocStays
<1> USE DEF IndInv, InvoicingInv
<1> DEFINE n == NextNumber
           i == [of |-> o, lines |-> doc[o].lines, by |-> "hand"]
<1>1. /\ n \in Numbers /\ inv[n] = None /\ inv' = [inv EXCEPT ![n] = i]
      /\ doc' = [doc EXCEPT ![o].state = "invoiced"]
      /\ UNCHANGED <<order, queue, job, request>>
  BY DEF ByHand
<1>2. i \in Invoice
  <2>1. doc[o].lines \in {0, Lines} BY DEF Types, Source
  <2> QED BY <2>1, Constants DEF Invoice
<1> HIDE DEF n
<1>3. /\ inv' \in [Numbers -> Invoice \cup {None}] /\ inv'[n] = i
      /\ \A m \in Numbers : m # n => inv'[m] = inv[m]
  BY <1>1, <1>2 DEF Types
<1>4. HandsKept BY <1>1, <1>3 DEF HandsKept
<1>5. OneInvoice'
  <2>1. \A m \in Numbers : inv'[m] # None /\ inv'[m].by = "worker" => inv'[m] = inv[m]
    BY <1>3
  <2> QED BY <2>1 DEF OneInvoice, Whole
<1>6. doc' \in [Orders -> Source] /\ DocStays
  <2> HIDE DEF IndInv, InvoicingInv
  <2> QED BY <1>1, Marked DEF IndInv
<1>7. LinkHolds' BY <1>1, <1>3, <1>6 DEF LinkHolds, InvoicesOf, DocStays, LinesStay
<1>8. JobAgrees'
  <2>1. \A p \in Orders : Done(inv', p) => Done(inv, p) BY <1>3 DEF Done
  <2>2. \A m \in Numbers : inv[m] # None => inv'[m] = inv[m] BY <1>1, <1>3
  <2>3. job # None => job.of \in Orders BY DEF Types, Job
  <2>4. job # None =>
          /\ job.step = "header" => job.number \in Numbers
          /\ job.step \in {"number", "header", "lines", "erase lines", "erase header"} =>
                ~Done(inv', job.of)
    BY <2>1, <2>3, DoneIsCompleted DEF JobAgrees
  <2>5. job # None /\ job.step \in {"lines", "undo lines", "undo header", "mark", "commit"} =>
          /\ job.number \in Numbers /\ inv'[job.number] # None
          /\ inv'[job.number].of = job.of /\ inv'[job.number].by = "worker"
          /\ job.step = "lines" => inv'[job.number].lines < doc'[job.of].lines
          /\ job.step \in {"mark", "commit"} =>
                inv'[job.number].lines = doc'[job.of].lines
          /\ \A p \in Orders : order[p].how \in {"emitted", "located"} =>
                order[p].number # job.number
    BY <1>6, <2>2, <2>3 DEF JobAgrees, InvoicesOf, DocStays, LinesStay
  <2>6. UNCHANGED order /\ job' = job BY <1>1
  <2> HIDE DEF IndInv, InvoicingInv
  <2> QED BY <2>4, <2>5, <2>6, Agreement
<1> QED BY <1>1, <1>3, <1>4, <1>5, <1>6, <1>7, <1>8 DEF Types

-----------------------------------------------------------------------------
(* Theorems                                                                *)

LEMMA InvoicingNext ==
    ASSUME IndInv, [Next]_vars PROVE IndInv' /\ HandsKept /\ InvoicedKept
<1> USE DEF IndInv
<1>1. ASSUME DocStays PROVE InvoicedKept
  <2>1. \A o \in Orders : doc[o].lines \in {0, Lines} BY DEF Types, Source
  <2> QED BY <1>1, <2>1, Constants DEF InvoicedKept, DocStays, LinesStay
<1>2. ASSUME UNCHANGED <<inv, doc>> PROVE HandsKept /\ InvoicedKept
  <2>1. DocStays BY <1>2 DEF DocStays, LinesStay
  <2> QED BY <1>2, <1>1, <2>1 DEF HandsKept
<1>3. CASE UNCHANGED vars
  <2>1. UNCHANGED <<order, inv, doc, queue, job, request>> BY <1>3 DEF vars
  <2>2. InvoicingInv' BY <2>1, SameDoc, LinksKeepInv DEF LinksKept
  <2> QED BY <1>2, <2>1, <2>2 DEF Types
<1>4. CASE Take \/ Check \/ PickNumber \/ Commit \/ Survey \/ Forget
  <2> HIDE DEF IndInv
  <2> QED BY <1>2, <1>4, TakeKeeps, CheckKeeps, NumberKeeps, CommitKeeps, SurveyKeeps, ForgetKeeps
<1>5. CASE WriteHeader \/ WriteLine \/ UndoLines \/ UndoHeader
  <2> HIDE DEF IndInv
  <2>1. IndInv' /\ HandsKept /\ UNCHANGED doc
    BY <1>5, HeaderKeeps, LineKeeps, UndoHeaderKeeps
  <2>2. DocStays BY <2>1 DEF DocStays, LinesStay
  <2> QED BY <1>1, <2>1, <2>2
<1>6. CASE Mark
  <2> HIDE DEF IndInv
  <2>1. IndInv' /\ UNCHANGED inv /\ DocStays
    BY <1>6, MarkKeeps
  <2> QED BY <1>1, <2>1 DEF HandsKept
<1>7. CASE EraseLines \/ EraseHeader
  <2> HIDE DEF IndInv
  <2> QED BY <1>7, EraseLinesKeeps, EraseHeaderKeeps DEF HandsKept
<1>8. CASE Killed
  <2>1. UNCHANGED <<order, inv, doc, queue, request>> /\ job' = None
    BY <1>8 DEF Killed, Ends
  <2>2. InvoicingInv' BY <2>1, SameDoc, LinksKeepInv DEF LinksKept
  <2> QED BY <1>2, <2>1, <2>2 DEF Types
<1>9. ASSUME NEW o \in Orders, ByHand(o) PROVE IndInv' /\ HandsKept /\ InvoicedKept
  <2> HIDE DEF IndInv
  <2> QED BY <1>1, <1>9, HandKeeps
<1>10. ASSUME NEW o \in Orders, AskEmit(o) \/ AskConvert(o) \/ Uncancel(o) \/ Unlink(o)
       PROVE  IndInv' /\ HandsKept /\ InvoicedKept
  <2> HIDE DEF IndInv
  <2> QED BY <1>2, <1>10, AskKeeps, RestoreKeeps
<1>11. ASSUME NEW c \in Clients, Answer(c) PROVE IndInv' /\ HandsKept /\ InvoicedKept
  <2> HIDE DEF IndInv
  <2> QED BY <1>2, <1>11, AnswerKeeps
<1>12. ASSUME NEW c \in Clients, NEW o \in Orders,
              Look(c, o) \/ Cancel(c, o) \/ Autocancel(c, o)
       PROVE  IndInv' /\ HandsKept /\ InvoicedKept
  <2> HIDE DEF IndInv
  <2> QED BY <1>2, <1>12, AskKeeps
<1> HIDE DEF IndInv
<1> QED BY <1>3, <1>4, <1>5, <1>6, <1>7, <1>8, <1>9, <1>10, <1>11, <1>12 DEF Next, Work

LEMMA InvoicingInvariant == Spec => []IndInv
<1>1. Init => IndInv BY InvoicingInit
<1>2. IndInv /\ [Next]_vars => IndInv' BY InvoicingNext
<1> QED BY <1>1, <1>2, PTL DEF Spec

Counted == counts \in [{"jobs", "looks", "faults", "hands"} -> Nat]

LEMMA CountsNext == ASSUME Counted, [Next]_vars PROVE Counted'
<1> USE DEF Counted
<1>1. ASSUME NEW what \in {"jobs", "looks", "faults", "hands"}, Spend(what) PROVE Counted'
  BY <1>1 DEF Spend
<1>2. ASSUME UNCHANGED counts PROVE Counted' BY <1>2
<1>3. CASE Work \/ Killed
  <2>1. CASE Take \/ Check \/ PickNumber \/ Commit \/ Survey \/ Forget
    <3>1. UNCHANGED counts BY <2>1 DEF Take, Check, PickNumber, Commit, Survey, Forget
    <3> QED BY <1>2, <3>1
  <2>2. CASE WriteHeader \/ WriteLine \/ UndoLines \/ UndoHeader
    <3>1. UNCHANGED counts \/ Spend("faults")
      BY <2>2 DEF WriteHeader, WriteLine, UndoLines, UndoHeader, Faulty
    <3> QED BY <1>1, <1>2, <3>1
  <2>3. CASE Mark \/ EraseLines \/ EraseHeader \/ Killed
    <3>1. UNCHANGED counts \/ Spend("faults") 
      BY <2>3 DEF Mark, EraseLines, EraseHeader, Killed, Faulty
    <3> QED BY <1>1, <1>2, <3>1
  <2> QED BY <1>3, <2>1, <2>2, <2>3 DEF Work
<1>4. ASSUME NEW o \in Orders,
             AskEmit(o) \/ AskConvert(o) \/ Uncancel(o) \/ Unlink(o) \/ ByHand(o)
      PROVE  Counted'
  <2>1. Spend("jobs") \/ Spend("looks") \/ Spend("hands")
    BY <1>4 DEF AskEmit, AskConvert, Uncancel, Unlink, ByHand, Enqueue
  <2> QED BY <1>1, <2>1
<1>5. ASSUME NEW c \in Clients, Answer(c) PROVE Counted'
  <2>1. UNCHANGED counts \/ Spend("jobs")
    <3>1. UNCHANGED counts \/ Enqueue("delete", request[c].of)
      BY <1>5 DEF Answer, EndLook, EndCancel, EndAutocancel
    <3> QED BY <3>1 DEF Enqueue
  <2> QED BY <1>1, <1>2, <2>1
<1>6. ASSUME NEW c \in Clients, NEW o \in Orders, Look(c, o) \/ Cancel(c, o) PROVE Counted'
  <2>1. Spend("looks") BY <1>6 DEF Look, Cancel, Begins
  <2> QED BY <1>1, <2>1
<1>7. ASSUME NEW c \in Clients, NEW o \in Orders, Autocancel(c, o) PROVE Counted'
  <2>1. counts' = [counts EXCEPT !["jobs"] = @ + 1, !["looks"] = @ + 1]
    BY <1>7 DEF Autocancel
  <2>2. counts["jobs"] \in Nat /\ counts["looks"] \in Nat OBVIOUS
  <2>3. counts["jobs"] + 1 \in Nat /\ counts["looks"] + 1 \in Nat BY <2>2
  <2> QED BY <2>1, <2>3
<1> QED BY <1>2, <1>3, <1>4, <1>5, <1>6, <1>7 DEF Next, vars

\* Rows, ledger, queue, job and requests keep their shape.
THEOREM InvoicingTypes == Spec => []TypeOK
<1>1. Init => Counted BY DEF Init, Counted
<1>2. Counted /\ [Next]_vars => Counted' BY CountsNext
<1>3. IndInv /\ Counted => TypeOK BY DEF IndInv, Types, Counted, TypeOK
<1> QED BY <1>1, <1>2, <1>3, InvoicingInvariant, PTL DEF Spec

\* The worker never completes two invoices of one order: the check, which is made
\* in the job, and the single worker suffice, though anybody may ask for the same
\* emission or conversion at any time, and jobs fail, hang and are killed.
THEOREM OneInvoiceEach == Spec => []OneInvoice
<1>1. IndInv => OneInvoice BY DEF IndInv, InvoicingInv
<1> QED BY <1>1, InvoicingInvariant, PTL

\* An order the worker linked has its own invoice behind the number, and one a job
\* wrote has the lines of its source for ever: no compensation takes them from the
\* invoice and no deletion, half done or whole, takes them from the source.
THEOREM LinksHold == Spec => []LinkHolds
<1>1. IndInv => LinkHolds BY DEF IndInv, InvoicingInv
<1> QED BY <1>1, InvoicingInvariant, PTL

\* Invoices people write in FACTUSOL are never changed, not by a write under a
\* number they took in between and not by the compensation.
THEOREM HandsAreOff == Spec => HandsOff
<1>1. IndInv /\ [Next]_vars =>
        [\A n \in Numbers : inv[n] # None /\ inv[n].by = "hand" => inv'[n] = inv[n]]_vars
  BY InvoicingNext DEF HandsKept
<1> QED BY <1>1, InvoicingInvariant, PTL DEF Spec, HandsOff

\* No source document of an invoice the worker completed loses its lines or header,
\* though its order is cancelled while the invoice is written.
THEOREM InvoicedStays == Spec => InvoicedIsKept
<1>1. IndInv /\ [Next]_vars =>
        [\A o \in Orders :
            \/ doc'[o].lines < doc[o].lines
            \/ doc[o].state # "gone" /\ doc'[o].state = "gone"
            => ~\E n \in InvoicesOf(o) : Whole(n) /\ inv[n].by = "worker"]_vars
  BY InvoicingNext DEF InvoicedKept, Completed
<1> QED BY <1>1, InvoicingInvariant, PTL DEF Spec, InvoicedIsKept
=============================================================================
