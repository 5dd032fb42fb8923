------------------------------ MODULE Invoicing ------------------------------
(***************************************************************************)
(* Invoicing in FACTUSOL, a ledger behind an HTTP service without          *)
(* transactions: the jobs that write an invoice (emit_invoice of           *)
(* integrations/factusol/service.py, convert_document of chain.py) or      *)
(* delete the documents of a cancelled order (erp/order_cancel.py), one    *)
(* worker that runs them, and the requests that enqueue them, look an      *)
(* invoice up, cancel an order, restore it or unlink its invoice.          *)
(*                                                                         *)
(* The source of an invoice is the order document F_PCL for a web order,   *)
(* the delivery note F_ALB for a manual one.  One series of numbers.       *)
(***************************************************************************)
EXTENDS Naturals, Sequences, FiniteSets

CONSTANTS
    Web, Manual,  \* orders, by origin
    Clients,      \* requests that are in flight at a time
    None,
    Lines,        \* lines of an order
    MaxNumber,    \* bound: numbers of the series
    MaxJobs,      \* bound: jobs enqueued
    MaxLooks,     \* bound: requests
    MaxFaults,    \* bound: calls of FACTUSOL that fail, jobs that are killed
    MaxHands      \* bound: invoices people write in FACTUSOL itself

ASSUME InvoicingAssumption ==
    /\ None \notin Nat /\ Web \cap Manual = {}
    /\ Lines \in Nat \ {0} /\ MaxNumber \in Nat \ {0}
    /\ {MaxJobs, MaxLooks, MaxFaults, MaxHands} \subseteq Nat

Orders == Web \cup Manual
Numbers == 1..MaxNumber

VARIABLES
    order,   \* rows of erp_orders
    inv,     \* F_FAC and F_LFA by number
    doc,     \* the source document of each order: header and lines
    queue,   \* factusol:writes
    job,     \* the job the worker runs, or None
    request, \* what each client has read and is about to commit, or None
    counts   \* jobs, requests, faults and hand-written invoices so far

vars == <<order, inv, doc, queue, job, request, counts>>

Order == [number    : Numbers \cup {None},   \* with it, invoice_status is set
          how       : {"none", "emitted", "located", "looked", "restored"},
          cancelled : BOOLEAN,
          albaran   : {"none", "linked", "kept"},
          saved     : SUBSET Numbers]        \* unlinked by a cancellation

Source == [state : {"open", "invoiced", "gone"}, lines : {0, Lines}]

Invoice == [of : Orders, lines : 0..Lines, by : {"worker", "hand"}]

Kinds == {"emit", "convert", "delete", "autocancel"}
Job == [kind   : Kinds,
        of     : Orders,
        step   : {"check", "number", "header", "lines", "undo lines", "undo header",
                  "mark", "commit", "survey", "erase lines", "erase header", "unlink"},
        from   : {"pcl", "albaran"},
        row    : Order,                      \* as the job read it
        number : Numbers \cup {None},
        erased : BOOLEAN]

Request == [kind : {"look", "cancel", "autocancel"},
            of   : Orders,
            row  : Order,
            number : Numbers \cup {None},    \* looked up in the ledger
            erase : BOOLEAN]                 \* delete the source document too

ASSUME NoneAssumption == None \notin Job \cup Request \cup Invoice

InvoicesOf(o) == {n \in Numbers : inv[n] # None /\ inv[n].of = o}
Children(o) == {n \in InvoicesOf(o) : inv[n].lines > 0}   \* found by their lines
Whole(n) == inv[n] # None /\ inv[n].lines = Lines

\* next_codfac, next_doc_code: the highest number of the series plus one.
NextNumber ==
    LET taken == {n \in Numbers : inv[n] # None} IN
    IF taken = {} THEN 1 ELSE 1 + CHOOSE n \in taken : \A k \in taken : k <= n

Spend(what) == counts' = [counts EXCEPT ![what] = @ + 1]
Faulty == counts.faults < MaxFaults /\ Spend("faults")

Linked(o, n, how) == [order EXCEPT ![o].number = n, ![o].how = how]

-----------------------------------------------------------------------------
(* Requests                                                                *)

Enqueue(kind, o) ==
    /\ counts.jobs < MaxJobs
    /\ Spend("jobs")
    /\ queue' = Append(queue, [kind |-> kind, of |-> o])

\* emit_factusol_invoice: refused if the order has an invoice; whether it was
\* cancelled is not asked.
AskEmit(o) ==
    /\ order[o].number = None
    /\ Enqueue("emit", o)
    /\ UNCHANGED <<order, inv, doc, job, request>>

\* convert_factusol_document, from the screen of documents: refused if the
\* delivery note is not there or has an invoice.
AskConvert(o) ==
    /\ o \in Manual
    /\ doc[o].state # "gone" /\ Children(o) = {}
    /\ Enqueue("convert", o)
    /\ UNCHANGED <<order, inv, doc, job, request>>

Begins(c, q) ==
    /\ request[c] = None
    /\ counts.looks < MaxLooks
    /\ Spend("looks")
    /\ request' = [request EXCEPT ![c] = q]

\* factusol_status: an order without a number is looked up in the ledger ...
Look(c, o) ==
    /\ o \in Web
    /\ order[o].number = None
    /\ \E n \in InvoicesOf(o) :
          Begins(c, [kind |-> "look", of |-> o, row |-> order[o], number |-> n,
                     erase |-> FALSE])
    /\ UNCHANGED <<order, inv, doc, queue, job>>

\* ... and linked to what was found.
EndLook(c) ==
    LET q == request[c] IN
    /\ q # None /\ q.kind = "look"
    /\ order' = Linked(q.of, q.number, "looked")
    /\ request' = [request EXCEPT ![c] = None]
    /\ UNCHANGED <<inv, doc, queue, job, counts>>

\* Mutant of Deletable: what the row says is enough.
Deletable_ByRow(o, row) ==
    doc[o].state = "open" /\ IF o \in Web THEN row.number = None ELSE row.albaran = "linked"

\* _web_pcl_doc, factusol_docs_for_cancel: may the source document of order o be
\* deleted, as its row and the ledger say?
Deletable(o, row) ==
    /\ doc[o].state = "open"
    /\ IF o \in Web THEN row.number = None /\ InvoicesOf(o) = {}
       ELSE row.albaran = "linked" /\ Children(o) = {}

\* cancel_order reads the order and, to delete the document, the ledger ...
Cancel(c, o) ==
    /\ ~order[o].cancelled
    /\ \E erase \in {FALSE} \cup {order[o].number = None /\ Deletable(o, order[o])} :
          Begins(c, [kind |-> "cancel", of |-> o, row |-> order[o], number |-> None,
                     erase |-> erase])
    /\ UNCHANGED <<order, inv, doc, queue, job>>

\* Mutant of UnlinkAll: the invoice is kept for the restoration though there is none.
UnlinkAll_SavesNone(o, row, keep) ==
    [order[o] EXCEPT
        !.number  = IF row.number # None THEN None ELSE @,
        !.how     = IF row.number # None THEN "none" ELSE @,
        !.saved   = @ \cup {row.number},
        !.albaran = IF row.albaran = "linked" /\ ~keep THEN "kept" ELSE @]

\* The columns unlink_for_cancel changes: those the row it read had set.
UnlinkAll(o, row, keep) ==
    [order[o] EXCEPT
        !.number  = IF row.number # None THEN None ELSE @,
        !.how     = IF row.number # None THEN "none" ELSE @,
        !.saved   = IF row.number # None THEN @ \cup {row.number} ELSE @,
        !.albaran = IF row.albaran = "linked" /\ ~keep THEN "kept" ELSE @]

\* ... commits, and enqueues the deletion.
EndCancel(c) ==
    LET q == request[c] IN
    /\ q # None /\ q.kind = "cancel"
    /\ order' = [order EXCEPT ![q.of] =
                    [UnlinkAll(q.of, q.row, q.erase) EXCEPT !.cancelled = TRUE]]
    /\ IF q.erase THEN Enqueue("delete", q.of) ELSE UNCHANGED <<queue, counts>>
    /\ request' = [request EXCEPT ![c] = None]
    /\ UNCHANGED <<inv, doc, job>>

\* autocancel_web_order, when WooCommerce reports the order cancelled: not if it
\* is invoiced; the deletion is enqueued before the caller commits.
Autocancel(c, o) ==
    /\ o \in Web
    /\ ~order[o].cancelled /\ order[o].number = None
    /\ request[c] = None
    /\ counts.jobs < MaxJobs /\ counts.looks < MaxLooks
    /\ counts' = [counts EXCEPT !.jobs = @ + 1, !.looks = @ + 1]
    /\ queue' = Append(queue, [kind |-> "autocancel", of |-> o])
    /\ request' = [request EXCEPT ![c] =
          [kind |-> "autocancel", of |-> o, row |-> order[o], number |-> None,
           erase |-> TRUE]]
    /\ UNCHANGED <<order, inv, doc, job>>

EndAutocancel(c) ==
    LET q == request[c] IN
    /\ q # None /\ q.kind = "autocancel"
    /\ order' = [order EXCEPT ![q.of].cancelled = TRUE]
    /\ request' = [request EXCEPT ![c] = None]
    /\ UNCHANGED <<inv, doc, queue, job, counts>>

\* uncancel_order with restore_after_uncancel: what the cancellation unlinked is
\* linked again, unless an order that is not cancelled holds it.
Uncancel(o) ==
    LET free == {n \in order[o].saved :
                    \A p \in Orders \ {o} : order[p].cancelled \/ order[p].number # n} IN
    /\ order[o].cancelled
    /\ counts.looks < MaxLooks /\ Spend("looks")
    /\ \E n \in IF free = {} THEN {None} ELSE free :
          order' = [order EXCEPT ![o] =
             [number    |-> IF n = None THEN @.number ELSE n,
              how       |-> IF n = None THEN @.how ELSE "restored",
              cancelled |-> FALSE,
              albaran   |-> IF @.albaran = "kept" THEN "linked" ELSE @.albaran,
              saved     |-> {}]]
    /\ UNCHANGED <<inv, doc, queue, job, request>>

\* unlink_order_document of the invoice: it stays in FACTUSOL.
Unlink(o) ==
    /\ order[o].number # None
    /\ counts.looks < MaxLooks /\ Spend("looks")
    /\ order' = Linked(o, None, "none")
    /\ UNCHANGED <<inv, doc, queue, job, request>>

-----------------------------------------------------------------------------
(* The worker                                                              *)

At(step) == job # None /\ job.step = step
Goes(step) == job' = [job EXCEPT !.step = step]
Ends == job' = None

\* Where a job starts, once it has read the order; None if it stops there.
FirstStep(kind, row) ==
    CASE kind = "emit"       -> IF row.number = None THEN "check" ELSE None
      [] kind = "convert"    -> "check"
      [] kind = "delete"     -> IF row.cancelled THEN "survey" ELSE None
      [] kind = "autocancel" -> IF row.cancelled /\ row.number = None THEN "survey" ELSE None

\* The worker takes a job, which reads its order.
Take ==
    /\ job = None
    /\ queue # <<>>
    /\ LET q == Head(queue)
           row == order[q.of]
           step == FirstStep(q.kind, row)
       IN job' = IF step = None THEN None
                 ELSE [kind |-> q.kind, of |-> q.of, step |-> step, row |-> row,
                       from |-> IF q.kind = "convert" \/ row.albaran = "linked"
                                THEN "albaran" ELSE "pcl",
                       number |-> None, erased |-> FALSE]
    /\ queue' = Tail(queue)
    /\ UNCHANGED <<order, inv, doc, request, counts>>

\* A manual order without delivery note has no F_PCL, and no invoice of its
\* reference, to be found by.
HasSource == job.from = "albaran" \/ job.of \in Web

\* Mutants of Check: no look for an invoice; the emission refuses what it finds.
Check_Blind ==
    /\ At("check")
    /\ IF doc[job.of].state = "gone" \/ ~HasSource THEN Ends ELSE Goes("number")
    /\ UNCHANGED <<order, inv, doc, queue, request, counts>>
Check_Refuses ==
    /\ At("check")
    /\ IF InvoicesOf(job.of) # {} \/ doc[job.of].state = "gone" \/ ~HasSource
       THEN Ends ELSE Goes("number")
    /\ UNCHANGED <<order, inv, doc, queue, request, counts>>

\* From F_PCL: an invoice with the order's reference, whoever wrote it and
\* whatever lines it has, is linked; without one, F_PCL must be there.  From
\* F_ALB: convert_document refuses if an invoice has lines of the delivery note.
Check ==
    LET o == job.of
        located == IF job.from = "pcl" THEN InvoicesOf(o) ELSE {}
        refused == \/ doc[o].state = "gone"
                   \/ job.from = "albaran" /\ Children(o) # {} IN
    /\ At("check")
    /\ \/ /\ HasSource
          /\ \E n \in located : order' = Linked(o, n, "located")
          /\ Ends
       \/ /\ located = {} \/ ~HasSource
          /\ IF refused \/ ~HasSource THEN Ends ELSE Goes("number")
          /\ UNCHANGED order
    /\ UNCHANGED <<inv, doc, queue, request, counts>>

\* The number is read just before the header is written.
PickNumber ==
    /\ At("number")
    /\ NextNumber \in Numbers
    /\ job' = [job EXCEPT !.step = "header", !.number = NextNumber]
    /\ UNCHANGED <<order, inv, doc, queue, request, counts>>

\* A header without lines under number n.
Written(n, o) == [inv EXCEPT ![n] = [of |-> o, lines |-> 0, by |-> "worker"]]

\* The loop over the lines read from the source, which only the worker changes: when
\* k of them are written the job goes on.  A source without lines is not refused.
Loops(k) == Goes(IF k = doc[job.of].lines THEN "mark" ELSE "lines")

\* Mutant of WriteHeader: its failure is compensated too.
WriteHeader_Compensates ==
    /\ At("header")
    /\ \/ /\ inv[job.number] = None
          /\ inv' = Written(job.number, job.of) /\ Loops(0)
          /\ UNCHANGED counts
       \/ inv[job.number] # None /\ Goes("undo lines") /\ UNCHANGED <<inv, counts>>
    /\ UNCHANGED <<order, doc, queue, request>>

\* write_record of the header, outside the try: an error ends the job, whether the
\* number was taken, the record was refused, or it was written and the answer lost.
WriteHeader ==
    /\ At("header")
    /\ \/ /\ inv[job.number] = None
          /\ inv' = Written(job.number, job.of) /\ Loops(0)
          /\ UNCHANGED counts
       \/ inv[job.number] # None /\ Ends /\ UNCHANGED <<inv, counts>>
       \/ /\ inv[job.number] = None /\ Faulty
          /\ inv' \in {inv, Written(job.number, job.of)} /\ Ends
    /\ UNCHANGED <<order, doc, queue, request>>

\* Mutant of WriteLine: a line that fails is skipped.
WriteLine_Skips ==
    LET n == job.number  more == [inv EXCEPT ![n].lines = @ + 1] IN
    /\ At("lines")
    /\ \/ inv' = more /\ Loops(more[n].lines) /\ UNCHANGED counts
       \/ Faulty /\ Goes("mark") /\ inv' = inv
    /\ UNCHANGED <<order, doc, queue, request>>

\* write_record of the next line: an error, whether or not the line was written,
\* leads to the compensation.
WriteLine ==
    LET n == job.number  more == [inv EXCEPT ![n].lines = @ + 1] IN
    /\ At("lines")
    /\ \/ inv' = more /\ Loops(more[n].lines) /\ UNCHANGED counts
       \/ Faulty /\ Goes("undo lines") /\ inv' \in {inv, more}
    /\ UNCHANGED <<order, doc, queue, request>>

\* The compensation: delete_records of the lines, then of the header.  If one
\* fails, carried out or not, the rest is left as it is.
UndoLines ==
    /\ At("undo lines")
    /\ LET bare == [inv EXCEPT ![job.number].lines = 0] IN
       \/ Goes("undo header") /\ inv' = bare /\ UNCHANGED counts
       \/ Faulty /\ Ends /\ inv' \in {inv, bare}
    /\ UNCHANGED <<order, doc, queue, request>>

UndoHeader ==
    /\ At("undo header")
    /\ LET without == [inv EXCEPT ![job.number] = None] IN
       \/ inv' = without /\ UNCHANGED counts
       \/ Faulty /\ inv' \in {inv, without}
    /\ Ends
    /\ UNCHANGED <<order, doc, queue, request>>

\* mark_origin_converted: best effort, the invoice stays if it fails.
Mark ==
    /\ At("mark")
    /\ Goes("commit")
    /\ LET marked == [doc EXCEPT ![job.of].state = "invoiced"] IN
       \/ doc' = marked /\ UNCHANGED counts
       \/ Faulty /\ doc' \in {doc, marked}
    /\ UNCHANGED <<order, inv, queue, request>>

\* The COMMIT that links the invoice: in emit_invoice always, in a conversion if
\* an order without invoice had the delivery note (on_invoice_created).
Commit ==
    /\ At("commit")
    /\ order' = IF job.kind = "emit" \/ (job.row.number = None /\ job.row.albaran = "linked")
                THEN Linked(job.of, job.number, "emitted") ELSE order
    /\ Ends
    /\ UNCHANGED <<inv, doc, queue, request, counts>>

\* delete_cancelled_order_documents asks the ledger again; a document that may not
\* be deleted is skipped.
Survey ==
    /\ At("survey")
    /\ CASE Deletable(job.of, job.row) -> Goes("erase lines")
         [] ~Deletable(job.of, job.row) /\ job.kind = "delete" -> Goes("unlink")
         [] OTHER -> Ends
    /\ UNCHANGED <<order, inv, doc, queue, request, counts>>

\* delete_factusol_document: the lines in one call, then the header in another.
\* An error, carried out or not, ends the job before its COMMIT and nothing is put
\* back: the header may stay without lines.
EraseLines ==
    /\ At("erase lines")
    /\ LET bare == [doc EXCEPT ![job.of].lines = 0] IN
       \/ doc' = bare /\ Goes("erase header") /\ UNCHANGED counts
       \/ Faulty /\ Ends /\ doc' \in {doc, bare}
    /\ UNCHANGED <<order, inv, queue, request>>

EraseHeader ==
    /\ At("erase header")
    /\ LET gone == [doc EXCEPT ![job.of].state = "gone"] IN
       \/ /\ doc' = gone /\ UNCHANGED counts
          /\ job' = [job EXCEPT !.step = "unlink", !.erased = TRUE]
       \/ Faulty /\ Ends /\ doc' \in {doc, gone}
    /\ UNCHANGED <<order, inv, queue, request>>

\* Its COMMIT: what was erased is forgotten, what is left is unlinked.
Forget ==
    /\ At("unlink")
    /\ order' = [order EXCEPT ![job.of] =
          IF job.erased /\ job.of \in Manual
          THEN [UnlinkAll(job.of, job.row, TRUE) EXCEPT !.albaran = "none"]
          ELSE UnlinkAll(job.of, job.row, FALSE)]
    /\ Ends
    /\ UNCHANGED <<inv, doc, queue, request, counts>>

Work == \/ Take \/ Check \/ PickNumber \/ WriteHeader \/ WriteLine \/ UndoLines
        \/ UndoHeader \/ Mark \/ Commit \/ Survey \/ EraseLines \/ EraseHeader
        \/ Forget

\* The worker is killed, or the job's timeout strikes: it is no FactusolError, so
\* nothing is compensated, and the job is not retried.
Killed ==
    /\ job # None
    /\ Faulty /\ Ends
    /\ UNCHANGED <<order, inv, doc, queue, request>>

\* In FACTUSOL itself somebody turns the source document into an invoice; numbers
\* are unique there.
ByHand(o) ==
    /\ counts.hands < MaxHands /\ Spend("hands")
    /\ doc[o].state = "open" /\ NextNumber \in Numbers /\ inv[NextNumber] = None
    /\ inv' = [inv EXCEPT ![NextNumber] = [of |-> o, lines |-> doc[o].lines, by |-> "hand"]]
    /\ doc' = [doc EXCEPT ![o].state = "invoiced"]
    /\ UNCHANGED <<order, queue, job, request>>

Init ==
    /\ order = [o \in Orders |-> [number |-> None, how |-> "none", cancelled |-> FALSE,
                                  albaran |-> IF o \in Manual THEN "linked" ELSE "none",
                                  saved |-> {}]]
    /\ inv = [n \in Numbers |-> None]
    /\ doc = [o \in Orders |-> [state |-> "open", lines |-> Lines]]
    /\ queue = <<>> /\ job = None
    /\ request = [c \in Clients |-> None]
    /\ counts = [jobs |-> 0, looks |-> 0, faults |-> 0, hands |-> 0]

Answer(c) == EndLook(c) \/ EndCancel(c) \/ EndAutocancel(c)

Next ==
    \/ Work \/ Killed
    \/ \E o \in Orders : AskEmit(o) \/ AskConvert(o) \/ Uncancel(o) \/ Unlink(o) \/ ByHand(o)
    \/ \E c \in Clients :
          \/ Answer(c)
          \/ \E o \in Orders : Look(c, o) \/ Cancel(c, o) \/ Autocancel(c, o)

Spec == Init /\ [][Next]_vars

\* The worker works its queue off; requests may hang.
LiveSpec == Spec /\ WF_vars(Work)

-----------------------------------------------------------------------------
(* Properties                                                              *)

\* Every variable has the shape of the tables, the ledger, the queue and the job.
TypeOK ==
    /\ order \in [Orders -> Order]
    /\ inv \in [Numbers -> Invoice \cup {None}]
    /\ doc \in [Orders -> Source]
    /\ queue \in Seq([kind : Kinds, of : Orders])
    /\ job \in Job \cup {None}
    /\ request \in [Clients -> Request \cup {None}]
    /\ counts \in [{"jobs", "looks", "faults", "hands"} -> Nat]

\* The worker never completes two invoices of one order, however many emissions
\* and conversions are asked for, fail, are killed and asked for again.
OneInvoice ==
    \A n, m \in Numbers :
        Whole(n) /\ Whole(m) /\ inv[n].by = "worker" /\ inv[m].by = "worker"
            /\ inv[n].of = inv[m].of => n = m

\* An invoice that was written by hand is never touched, though the number the
\* worker picked may be taken when it writes.
HandsOff ==
    [][\A n \in Numbers : inv[n] # None /\ inv[n].by = "hand" => inv'[n] = inv[n]]_vars

\* An order the worker linked has an invoice of its own behind the number, and the
\* one a job wrote agrees with its source line by line for ever: the compensation of
\* no other job cuts it, and no later deletion cuts the source.
LinkHolds ==
    \A o \in Orders : order[o].how \in {"emitted", "located"} =>
        /\ order[o].number \in InvoicesOf(o)
        /\ order[o].how = "emitted" =>
              /\ inv[order[o].number].by = "worker"
              /\ inv[order[o].number].lines = doc[o].lines

\* No source document that the worker made a complete invoice of loses its lines or
\* its header.
InvoicedIsKept ==
    [][\A o \in Orders :
          \/ doc'[o].lines < doc[o].lines
          \/ doc[o].state # "gone" /\ doc'[o].state = "gone"
          => ~\E n \in InvoicesOf(o) : Whole(n) /\ inv[n].by = "worker"]_vars

\* What keeps these four true: while a job writes, the invoice under its number is
\* its own and nobody's link, and until it is written its order has no whole one.
Completed(o) == \E n \in InvoicesOf(o) : Whole(n) /\ inv[n].by = "worker"
JobAgrees ==
    job # None =>
        /\ job.step = "header" => job.number \in Numbers
        /\ job.step \in {"number", "header", "lines", "erase lines", "erase header"} =>
              ~Completed(job.of)
        /\ job.step \in {"lines", "undo lines", "undo header", "mark", "commit"} =>
              /\ job.number \in InvoicesOf(job.of)
              /\ inv[job.number].by = "worker"
              /\ job.step = "lines" => inv[job.number].lines < doc[job.of].lines
              /\ job.step \in {"mark", "commit"} =>
                    inv[job.number].lines = doc[job.of].lines
              /\ \A o \in Orders : order[o].how \in {"emitted", "located"} =>
                    order[o].number # job.number
InvoicingInv == OneInvoice /\ LinkHolds /\ JobAgrees

\* Asking again heals a web order whose invoice a killed job left unlinked: when
\* nothing fails any more, the emission links what is there.
RetryLinks ==
    \A o \in Web :
        /\ counts.faults = MaxFaults
        /\ \E n \in InvoicesOf(o) : Whole(n) /\ (job = None \/ job.number # n)
        /\ \E i \in DOMAIN queue : queue[i] = [kind |-> "emit", of |-> o]
        ~> order[o].number # None

\* An order the worker linked has an invoice with all its lines.
LinkedIsWhole ==
    \A o \in Orders : order[o].how \in {"emitted", "located"} =>
        order[o].number # None /\ Whole(order[o].number)
=============================================================================
