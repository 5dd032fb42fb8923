--------------------------- MODULE ScheduledMail ----------------------------
(***************************************************************************)
(* Scheduled emails: the requests that schedule, postpone and cancel them  *)
(* (app/api/emails_scheduled.py) and the sweep that hands the due ones to  *)
(* Gmail (app/email_scheduled_sweep.py).  One worker listens on the        *)
(* sweep's queue, so there is one sweep at a time; requests run beside it. *)
(*                                                                         *)
(* A message composed afresh opens a thread of its own, whose Gmail id is  *)
(* a sentinel; here that thread is named after the message.  A reply joins *)
(* the thread of its parent: Inbox, a thread Gmail knows, or the sentinel  *)
(* thread of a message that is itself still to be sent.                    *)
(***************************************************************************)
EXTENDS Naturals, FiniteSets

CONSTANTS
    Messages,         \* the message ids a behaviour may use
    Clients,          \* request threads of the API
    Inbox,            \* a thread that Gmail knows
    None,
    ReplyToScheduled, \* may a reply join a sentinel thread?
    MaxRequests,      \* bound: requests of a behaviour
    MaxFaults         \* bound: sweeps killed or interrupted

ASSUME MailAssumption ==
    /\ None \notin Messages \cup {Inbox} /\ Inbox \notin Messages
    /\ ReplyToScheduled \in BOOLEAN
    /\ MaxRequests \in Nat /\ MaxFaults \in Nat

VARIABLES
    row,      \* committed rows of email_messages
    sweep,    \* the sweep that is running, or None
    request,  \* what each client has read and is about to commit, or None
    wire,     \* how often Gmail was given each message
    requests, \* requests so far
    faults    \* sweeps killed or interrupted so far

vars == <<row, sweep, request, wire, requests, faults>>

Statuses == {"pending", "sent", "failed", "cancelled"}
Threads == Messages \cup {Inbox}

\* "none" was never scheduled, "deleted" was: neither has a row.
Row == [status : Statuses \cup {"none", "deleted"},
        thread : Threads \cup {None},
        due    : BOOLEAN]                    \* scheduled_for <= now

Sweep == [step   : {"pick", "sent", "raised", "purge"},
          todo   : SUBSET Messages,          \* selected and still to treat
          hand   : Messages \cup {None},     \* the message being sent
          orphan : SUBSET Messages,          \* sentinel threads to be purged
          fresh  : BOOLEAN]                  \* a commit ended the first snapshot

Request == [kind   : {"reply", "cancel", "postpone"},
            msg    : Messages,
            thread : Threads \cup {None}]

ASSUME NoneAssumption == None \notin Sweep \cup Request

Kept(m) == row[m].status \in Statuses
Sentinel(m) == row[m].thread \in Messages

-----------------------------------------------------------------------------
(* Requests                                                                *)

Arrives == requests < MaxRequests /\ requests' = requests + 1

\* Mutant of Compose: a message with no date.
Compose_Undated(m) ==
    /\ Arrives
    /\ row[m].status = "none"
    /\ \A c \in Clients : request[c] # None => request[c].msg # m
    /\ row' = [row EXCEPT ![m] = [status |-> "pending", thread |-> m, due |-> None]]
    /\ UNCHANGED <<sweep, request, wire, faults>>

\* persist_scheduled_message of a new conversation: thread and message in one
\* transaction, dated in the future.
Compose(m) ==
    /\ Arrives
    /\ row[m].status = "none"
    /\ \A c \in Clients : request[c] # None => request[c].msg # m
    /\ row' = [row EXCEPT ![m] = [status |-> "pending", thread |-> m, due |-> FALSE]]
    /\ UNCHANGED <<sweep, request, wire, faults>>

\* persist_scheduled_message of a reply reads the thread of the parent ...
BeginReply(c, m) ==
    /\ Arrives
    /\ request[c] = None
    /\ row[m].status = "none"
    /\ \A d \in Clients : request[d] # None => request[d].msg # m
    /\ \E t \in {Inbox} \cup (IF ReplyToScheduled
                              THEN {row[n].thread : n \in {x \in Messages : Kept(x)}}
                              ELSE {}) :
          request' = [request EXCEPT ![c] = [kind |-> "reply", msg |-> m, thread |-> t]]
    /\ UNCHANGED <<row, sweep, wire, faults>>

\* ... and inserts into it; the foreign key refuses a thread deleted meanwhile.
EndReply(c) ==
    LET q == request[c] IN
    /\ q # None /\ q.kind = "reply"
    /\ row' = IF q.thread = Inbox \/ \E n \in Messages : Kept(n) /\ row[n].thread = q.thread
              THEN [row EXCEPT ![q.msg] = [status |-> "pending", thread |-> q.thread,
                                           due |-> FALSE]]
              ELSE row
    /\ request' = [request EXCEPT ![c] = None]
    /\ UNCHANGED <<sweep, wire, requests, faults>>

\* _ensure_pending_owned: a message is cancelled or postponed only if pending.
BeginChange(c, m, kind) ==
    /\ Arrives
    /\ request[c] = None
    /\ row[m].status = "pending"
    /\ request' = [request EXCEPT ![c] = [kind |-> kind, msg |-> m, thread |-> None]]
    /\ UNCHANGED <<row, sweep, wire, faults>>

\* Mutant of EndChange: the whole row that was read is written back.
EndChange_WholeRow(c) ==
    LET q == request[c] IN
    /\ q # None /\ q.kind \in {"cancel", "postpone"}
    /\ row' = IF ~Kept(q.msg) THEN row
              ELSE IF q.kind = "cancel" THEN [row EXCEPT ![q.msg].status = "cancelled"]
              ELSE [row EXCEPT ![q.msg].due = FALSE, ![q.msg].status = "pending"]
    /\ request' = [request EXCEPT ![c] = None]
    /\ UNCHANGED <<sweep, wire, requests, faults>>

\* The COMMIT of cancel_scheduled, of update_scheduled with a new date: the one
\* column that changed, whatever has become of the others; no row, no effect.
EndChange(c) ==
    LET q == request[c] IN
    /\ q # None /\ q.kind \in {"cancel", "postpone"}
    /\ row' = IF ~Kept(q.msg) THEN row
              ELSE IF q.kind = "cancel" THEN [row EXCEPT ![q.msg].status = "cancelled"]
              ELSE [row EXCEPT ![q.msg].due = FALSE]
    /\ request' = [request EXCEPT ![c] = None]
    /\ UNCHANGED <<sweep, wire, requests, faults>>

-----------------------------------------------------------------------------
(* The sweep                                                               *)

\* Mutant of Orphans: failed messages do not keep their thread.
Orphans_OfFailed ==
    {t \in Messages :
        /\ \E m \in Messages : Kept(m) /\ row[m].thread = t
        /\ \A m \in Messages : Kept(m) /\ row[m].thread = t => row[m].status # "pending"}

\* The sentinel threads without a pending or failed message, as a query that
\* runs now sees them.
Orphans ==
    {t \in Messages :
        /\ \E m \in Messages : Kept(m) /\ row[m].thread = t
        /\ \A m \in Messages : Kept(m) /\ row[m].thread = t =>
              row[m].status \notin {"pending", "failed"}}

\* Mutant of SweepBegins: failed messages are taken up again.
SweepBegins_Retries ==
    /\ sweep = None
    /\ sweep' = [step |-> "pick", hand |-> None, orphan |-> Orphans, fresh |-> FALSE,
                 todo |-> {m \in Messages : row[m].status \in {"pending", "failed"}
                                            /\ row[m].due}]
    /\ UNCHANGED <<row, request, wire, requests, faults>>

\* scheduled_send_sweep selects once what is pending and due.  The same snapshot
\* serves the purge when no commit comes between.
SweepBegins ==
    /\ sweep = None
    /\ sweep' = [step |-> "pick", hand |-> None, orphan |-> Orphans, fresh |-> FALSE,
                 todo |-> {m \in Messages : row[m].status = "pending" /\ row[m].due}]
    /\ UNCHANGED <<row, request, wire, requests, faults>>

Picks(m) == sweep # None /\ sweep.step = "pick" /\ m \in sweep.todo

\* _send_one calls Gmail.  The status is not looked at again, and a message that
\* was deleted with its thread is sent from the object in memory.
Sends(m) ==
    /\ Picks(m)
    /\ wire' = [wire EXCEPT ![m] = @ + 1]
    /\ sweep' = [sweep EXCEPT !.step = "sent", !.hand = m, !.todo = @ \ {m}]
    /\ UNCHANGED <<row, request, requests, faults>>

\* Gmail, or the reading of its token, raises before anything is sent.
GmailRaises(m) ==
    /\ Picks(m)
    /\ sweep' = [sweep EXCEPT !.step = "raised", !.hand = m, !.todo = @ \ {m}]
    /\ UNCHANGED <<row, wire, request, requests, faults>>

NextPick == [sweep EXCEPT !.step = "pick", !.hand = None, !.fresh = TRUE]

\* Mutant of Settles: the status stays pending.
Settles_StaysPending ==
    LET m == sweep.hand IN
    /\ sweep # None /\ sweep.step = "sent"
    /\ row' = IF ~Kept(m) \/ ~Sentinel(m) THEN row
              ELSE [n \in Messages |-> IF Kept(n) /\ row[n].thread = row[m].thread
                                       THEN [row[n] EXCEPT !.status = "deleted"] ELSE row[n]]
    /\ sweep' = NextPick
    /\ UNCHANGED <<wire, request, requests, faults>>

\* The rest of _send_one and the COMMIT.  In a thread of Gmail's the row becomes
\* sent.  A sentinel thread is deleted in favour of the new one, and the delete
\* cascades to every message in it, the one in hand included: what is then
\* assigned to that object reaches no row.
Settles ==
    LET m == sweep.hand IN
    /\ sweep # None /\ sweep.step = "sent"
    /\ row' = IF ~Kept(m) THEN row
              ELSE IF Sentinel(m)
              THEN [n \in Messages |-> IF Kept(n) /\ row[n].thread = row[m].thread
                                       THEN [row[n] EXCEPT !.status = "deleted"] ELSE row[n]]
              ELSE [row EXCEPT ![m].status = "sent"]
    /\ sweep' = NextPick
    /\ UNCHANGED <<wire, request, requests, faults>>

\* Mutant of Fails: the message is left as it is, for the next sweep.
Fails_LeavesPending ==
    /\ sweep # None /\ sweep.step = "raised"
    /\ sweep' = NextPick
    /\ UNCHANGED <<row, wire, request, requests, faults>>

\* The exception handler: ROLLBACK, the row is read again and, if it is there,
\* becomes failed, even if it was cancelled meanwhile.
Fails ==
    LET m == sweep.hand IN
    /\ sweep # None /\ sweep.step = "raised"
    /\ row' = IF Kept(m) THEN [row EXCEPT ![m].status = "failed"] ELSE row
    /\ sweep' = NextPick
    /\ UNCHANGED <<wire, request, requests, faults>>

\* _purge_orphan_pending_threads takes its snapshot: a new one after a commit.
PurgeReads ==
    /\ sweep # None /\ sweep.step = "pick" /\ sweep.todo = {}
    /\ sweep' = [sweep EXCEPT !.step = "purge",
                              !.orphan = IF sweep.fresh THEN Orphans ELSE @]
    /\ UNCHANGED <<row, wire, request, requests, faults>>

\* It deletes all messages the orphan threads hold now, commits, and is through.
Purges ==
    /\ sweep # None /\ sweep.step = "purge"
    /\ row' = [n \in Messages |-> IF Kept(n) /\ row[n].thread \in sweep.orphan
                                  THEN [row[n] EXCEPT !.status = "deleted"] ELSE row[n]]
    /\ sweep' = None
    /\ UNCHANGED <<wire, request, requests, faults>>

SweepStep ==
    \/ SweepBegins \/ Settles \/ Fails \/ PurgeReads \/ Purges
    \/ \E m \in Messages : Sends(m) \/ GmailRaises(m)

-----------------------------------------------------------------------------
(* Environment                                                             *)

\* The worker dies: the open transaction is rolled back, the next sweep starts
\* from the table.
Crash ==
    /\ sweep # None
    /\ faults < MaxFaults
    /\ sweep' = None
    /\ faults' = faults + 1
    /\ UNCHANGED <<row, wire, request, requests>>

\* The job's timeout, or an error of the database, strikes after the send and
\* before the COMMIT: the handler takes the message for a failed one.
Interrupted ==
    /\ sweep # None /\ sweep.step = "sent"
    /\ faults < MaxFaults
    /\ sweep' = [sweep EXCEPT !.step = "raised"]
    /\ faults' = faults + 1
    /\ UNCHANGED <<row, wire, request, requests>>

\* Time passes every date now ahead.
Clock ==
    /\ row' = [m \in Messages |->
                  IF Kept(m) THEN [row[m] EXCEPT !.due = TRUE] ELSE row[m]]
    /\ UNCHANGED <<sweep, wire, request, requests, faults>>

Init ==
    /\ row = [m \in Messages |-> [status |-> "none", thread |-> None, due |-> FALSE]]
    /\ sweep = None
    /\ request = [c \in Clients |-> None]
    /\ wire = [m \in Messages |-> 0]
    /\ requests = 0 /\ faults = 0

Answer(c) == EndReply(c) \/ EndChange(c)

Next ==
    \/ SweepStep \/ Crash \/ Interrupted \/ Clock
    \/ \E m \in Messages : Compose(m)
    \/ \E c \in Clients :
          \/ Answer(c)
          \/ \E m \in Messages : BeginReply(c, m)
          \/ \E m \in Messages, k \in {"cancel", "postpone"} : BeginChange(c, m, k)

\* The heartbeat re-arms the sweep whatever becomes of it, a sweep once begun is
\* worked off, time goes on, and a request that has read commits.
Fairness == WF_vars(SweepStep) /\ WF_vars(Clock) /\ \A c \in Clients : WF_vars(Answer(c))

Spec == Init /\ [][Next]_vars
LiveSpec == Spec /\ Fairness

-----------------------------------------------------------------------------
(* Properties                                                              *)

\* Every variable has the shape the tables and the sweep give it.
TypeOK ==
    /\ row \in [Messages -> Row]
    /\ sweep \in Sweep \cup {None}
    /\ request \in [Clients -> Request \cup {None}]
    /\ wire \in [Messages -> Nat]
    /\ requests \in Nat /\ faults \in Nat

InHand(m) == sweep # None /\ sweep.step = "sent" /\ sweep.hand = m
Awaits(m) == sweep # None /\ m \in sweep.todo

\* A pending message is not on the wire yet, unless the sweep has it in hand: no
\* request that overlaps the sweep brings a sent message back.  Each killed sweep
\* may leave one behind.
PendingIsUnsent ==
    \A m \in Messages : row[m].status = "pending" /\ wire[m] > 0 => InHand(m) \/ faults > 0

\* Nobody gets an email twice, except for one more copy per killed sweep: neither
\* a cancel, a postponement nor the next sweep sends a message again.
SentAtMostOnce == \A m \in Messages : wire[m] <= 1 + faults

\* A message shown as failed never reached Gmail, so the operator may send it
\* again; only an interruption between the send and the COMMIT breaks this.
FailedIsUnsent ==
    \A m \in Messages : row[m].status = "failed" /\ wire[m] > 0 => faults > 0

\* A cancel that commits before a sweep selects the message is final: no later
\* sweep sends it, and no request that read it before the cancel revives it.
CancelHolds ==
    [][\A m \in Messages : row[m].status = "cancelled" /\ ~Awaits(m)
           => row'[m].status # "pending" /\ wire'[m] = wire[m]]_vars

\* While no reply joins a sentinel thread, the sweep and its purge make no message
\* disappear that is still to be sent or whose failure is to be seen.
NoneLostUnsent ==
    [][\A m \in Messages : row[m].status \in {"pending", "failed"} /\ row'[m].status = "deleted"
           => wire[m] > 0]_vars

\* A message that is pending is sent, failed or cancelled in the end.
PendingEnds == \A m \in Messages : row[m].status = "pending" ~> row[m].status # "pending"

\* What was sent keeps its row, for the operator to see it as sent.
SentIsKept == \A m \in Messages : wire[m] > 0 => Kept(m)

\* What keeps SentAtMostOnce, PendingIsUnsent and FailedIsUnsent true: a message
\* that can still be sent has reached Gmail at most once per killed sweep, and a
\* message about to be inserted never has.
Spent(m) == wire[m] <= faults
TodoUnsent ==
    sweep # None =>
        /\ \A m \in sweep.todo : Spent(m) /\ row[m].status \notin {"none", "failed"}
        /\ sweep.step \in {"sent", "raised"} =>
              /\ sweep.hand \notin sweep.todo \cup {None}
              /\ row[sweep.hand].status # "none"
        /\ sweep.step = "raised" => Spent(sweep.hand)
RowsUnsent ==
    \A m \in Messages :
        /\ row[m].status = "none" => wire[m] = 0
        /\ row[m].status = "failed" => Spent(m)
        /\ row[m].status = "pending" /\ ~InHand(m) => Spent(m)
RepliesAreNew ==
    \A c, d \in Clients : request[c] # None /\ request[c].kind = "reply" =>
        /\ row[request[c].msg].status = "none"
        /\ c # d /\ request[d] # None => request[d].msg # request[c].msg
MailInv == SentAtMostOnce /\ TodoUnsent /\ RowsUnsent /\ RepliesAreNew
=============================================================================
