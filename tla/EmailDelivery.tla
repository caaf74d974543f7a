--------------------------- MODULE EmailDelivery ---------------------------
(***************************************************************************)
(* QR emails: EmailQueueService, EmailDeliveryWorker, EmailDispatcher and  *)
(* EmailActions, with the employee, credential and visitor operations that *)
(* create, cancel or invalidate emails.                                    *)
(*                                                                         *)
(* An email is a row of email_queue.  A sender (the background dispatcher, *)
(* an administrator's request, or an operator at the command line) reads   *)
(* the daily count, claims the row in one transaction and delivers it in a *)
(* second one, which holds the row locks of the owner and the credential   *)
(* while the mail provider answers.  Every process may crash, and every    *)
(* commit may fail or lose its acknowledgement.                            *)
(*                                                                         *)
(* Rows are numbered in the order of their creation (created_at, id).  The *)
(* encrypted payload is not modelled: it is present exactly while a row is *)
(* neither SENT nor CANCELLED.  LEGACY rows, which only a migration makes, *)
(* take every branch a BULK row takes.                                     *)
(***************************************************************************)
EXTENDS Integers, FiniteSets, Sequences

CONSTANTS
  Employees,
  Credentials,   \* names for the QR credentials that may be issued
  Addresses,     \* email addresses
  Reserved,      \* the addresses validate_email_recipient refuses
  Dispatchers,   \* background dispatcher threads
  Admins,        \* administrators' requests
  Operators,     \* people running the command line worker
  DailyLimit,    \* EMAIL_DAILY_LIMIT
  ResendLimit,   \* copies after the first that one visitor may get
  BatchSize,     \* emails in one poll or one processing request
  Day,           \* the 24 hours of the daily limit
  MaxEmails,     \* bound on the rows
  MaxClock,      \* bound on the clock
  MaxChanges,    \* bound on revocations, address changes and the like
  MaxFaults,     \* bound on crashes and failing transactions
  Expiries,      \* the expiry times that may be chosen
  None           \* the absent value

Limited == Dispatchers \cup Admins     \* senders that are given a limit
Senders == Limited \cup Operators
Emails == 1..MaxEmails
Times == 0..MaxClock
Never == MaxClock + 1                  \* expires_at IS NULL

ASSUME EmailAssumption ==
  /\ Reserved \subseteq Addresses /\ Expiries \subseteq Times \cup {Never}
  /\ Dispatchers \cap (Admins \cup Operators) = {} /\ Admins \cap Operators = {}
  /\ IsFiniteSet(Senders) /\ IsFiniteSet(Credentials)
  /\ Senders \cap {"NONE", "REVIEW", "REFUSED", "OUTAGE", "GLOBAL",
                   "UNDELIVERABLE"} = {}
  /\ None \notin Employees /\ None \notin Addresses /\ None \notin Senders
  /\ DailyLimit \in Nat \ {0} /\ BatchSize \in Nat \ {0} /\ ResendLimit \in Nat
  /\ Day \in Nat /\ MaxEmails \in Nat /\ MaxClock \in Nat
  /\ MaxChanges \in Nat /\ MaxFaults \in Nat

(* Provider errors: one recipient is refused, the provider is out, or the  *)
(* sender's own account is refused.                                        *)
Refusals == {"REFUSED", "OUTAGE", "GLOBAL"}

Waiting == {"DRAFT", "PENDING_APPROVAL", "QUEUED"}
Statuses == Waiting \cup {"SENT", "FAILED", "CANCELLED"}

(* last_error: nothing, a code, or the claim token of a sender.  A row is  *)
(* claimed at most once, so the sender names the token.                    *)
Marks == {"NONE", "REVIEW", "UNDELIVERABLE"} \cup Refusals \cup Senders

Rows == [credential : Credentials, to : Addresses, mode : {"SINGLE", "BULK"},
         status : Statuses, mark : Marks, approved : BOOLEAN, at : Times]

VARIABLES
  employee,    \* employee[p]: state and address
  credential,  \* credential[q]: state, owner, expiry; a visitor's address
               \* and whether the visitor's meals are used up
  queue,       \* email_queue
  sender,      \* sender[s]: where the sender is and what it works on
  inbox,       \* inbox[e]: what the provider accepted of email e
  clock,
  changes,     \* revocations and the like so far
  faults       \* crashes and failing transactions so far

vars == <<employee, credential, queue, sender, inbox, clock, changes, faults>>
registry == <<employee, credential>>
counters == <<clock, changes, faults>>

NoAnswer == [email |-> 0, status |-> "NONE"]

Idle == [pc |-> "idle", email |-> 0, batch |-> {}, for |-> None,
         saw |-> TRUE, fate |-> "NONE", answer |-> NoAnswer]

Unissued == [state |-> "UNISSUED", owner |-> None, expires |-> Never,
             to |-> None, usedUp |-> FALSE]

Init ==
  /\ employee = [p \in Employees |-> [state |-> "NONE", address |-> None]]
  /\ credential = [q \in Credentials |-> Unissued]
  /\ queue = <<>>
  /\ sender = [s \in Senders |-> Idle]
  /\ inbox = [e \in Emails |-> [copies |-> 0, at |-> 0, by |-> None]]
  /\ clock = 0 /\ changes = 0 /\ faults = 0

-----------------------------------------------------------------------------
(* Row locks.                                                              *)

(* lock_email locks the employee of an employee's credential first; the    *)
(* row that guards a visitor's emails is the credential itself.            *)
LockOf(q) == IF credential[q].owner = None THEN q ELSE credential[q].owner

(* The delivering transaction keeps its locks while the provider answers;  *)
(* prepare_single keeps the credential's while it counts.                  *)
Locks(s) ==
  CASE sender[s].pc \in {"provider", "record"} ->
         {LockOf(queue[sender[s].email].credential)}
    [] sender[s].pc = "preparing" -> {sender[s].for}
    [] OTHER -> {}

FreeAlways(row) == TRUE

Free(row) == \A s \in Senders : row \notin Locks(s)

-----------------------------------------------------------------------------
(* Emails.                                                                 *)

Expired(q) == credential[q].expires <= clock
LiveOf(p) == {q \in Credentials : credential[q].owner = p /\ credential[q].state = "LIVE"}
IsVisitor(q) == credential[q].state # "UNISSUED" /\ credential[q].owner = None
EmailsOf(q) == {e \in DOMAIN queue : queue[e].credential = q}
Latest(es) == CHOOSE e \in es : \A f \in es : f <= e
Oldest(es) == CHOOSE e \in es : \A f \in es : e <= f

NewRow(q, to, mode) ==
  [credential |-> q, to |-> to, mode |-> mode,
   status |-> IF mode = "BULK" THEN "PENDING_APPROVAL" ELSE "DRAFT",
   mark |-> "NONE", approved |-> FALSE, at |-> clock]

(* Any write to a row of a credential's refreshes updated_at, that of a    *)
(* row sent long ago too.                                                  *)
CancelledUnlessQueued(rows, q) ==
  [e \in DOMAIN rows |->
     IF rows[e].credential # q THEN rows[e]
     ELSE [rows[e] EXCEPT !.status = IF @ \in {"SENT", "QUEUED"} THEN @ ELSE "CANCELLED",
                          !.mark = "NONE", !.at = clock]]

Cancelled(rows, q) ==
  [e \in DOMAIN rows |->
     IF rows[e].credential # q THEN rows[e]
     ELSE [rows[e] EXCEPT !.status = IF @ = "SENT" THEN @ ELSE "CANCELLED",
                          !.mark = "NONE", !.at = clock]]

ApprovedByNobody(rows, es) ==
  [e \in DOMAIN rows |->
     IF e \notin es THEN rows[e]
     ELSE [rows[e] EXCEPT !.status = "QUEUED", !.mark = "NONE", !.at = clock]]

Approved(rows, es) ==
  [e \in DOMAIN rows |->
     IF e \notin es THEN rows[e]
     ELSE [rows[e] EXCEPT !.status = "QUEUED", !.mark = "NONE",
                          !.approved = TRUE, !.at = clock]]

SetStatus(e, status, mark) ==
  queue' = [queue EXCEPT ![e].status = status, ![e].mark = mark, ![e].at = clock]

(* validated_preview; usable is a visitor's remaining allowance as the     *)
(* transaction has read it.                                                *)
Deliverable(row, usable) ==
  LET q == row.credential
      p == credential[q].owner
  IN  /\ credential[q].state = "LIVE" /\ ~Expired(q)
      /\ IF p = None THEN usable /\ credential[q].to = row.to
         ELSE employee[p].state = "ACTIVE" /\ employee[p].address = row.to

DeliverableNow(row) == Deliverable(row, ~credential[row.credential].usedUp)

(* A claimed or uncertain row, which the API calls NEEDS_REVIEW.           *)
NeedsReview(row) == row.status = "FAILED" /\ row.mark \in Senders \cup {"REVIEW"}

(* sent_since, and the visitors' remaining_today.                          *)
Counted == Cardinality({e \in DOMAIN queue : /\ queue[e].status = "SENT"
                                             /\ queue[e].at >= clock - Day})
Remaining ==
  DailyLimit - Counted - Cardinality({e \in DOMAIN queue : queue[e].status = "QUEUED"})

-----------------------------------------------------------------------------
(* Senders.                                                                *)

Start(s, es) ==
  sender' = [sender EXCEPT ![s] =
    [Idle EXCEPT !.pc = "check", !.email = Oldest(es), !.batch = es \ {Oldest(es)}]]

(* dispatch_once gives up its batch after an uncertain result, an outage   *)
(* or the daily limit, and the dispatcher stops for good when the sender's *)
(* account is refused; an administrator's request goes on.                 *)
GivesUp(s, status, mark) ==
  s \in Dispatchers /\ (status \in {"NEEDS_REVIEW", "QUEUED"} \/ mark = "OUTAGE")

Done(s, status, mark) ==
  LET answer == [email |-> sender[s].email, status |-> status]
      rest == sender[s].batch
  IN sender' = [sender EXCEPT ![s] =
       IF s \in Dispatchers /\ mark = "GLOBAL"
         THEN [Idle EXCEPT !.pc = "halted", !.answer = answer]
       ELSE IF rest = {} \/ GivesUp(s, status, mark)
         THEN [Idle EXCEPT !.answer = answer]
       ELSE [Idle EXCEPT !.pc = "check", !.email = Oldest(rest),
                         !.batch = rest \ {Oldest(rest)}, !.answer = answer]]

(* _existing: what is answered for a row that is not QUEUED.               *)
ExistingForgetsClaims(row) ==
  CASE row.status = "SENT" -> "ALREADY_SENT"
    [] row.status \in Waiting -> "REFUSED"
    [] OTHER -> row.status

Existing(row) ==
  CASE row.status = "SENT" -> "ALREADY_SENT"
    [] row.status = "CANCELLED" -> "CANCELLED"
    [] row.status = "FAILED" -> IF NeedsReview(row) THEN "NEEDS_REVIEW" ELSE "FAILED"
    [] OTHER -> "REFUSED"     \* EMAIL_APPROVAL_REQUIRED

(* What the dispatcher may send, oldest first.                             *)
ReadyOrSent == {e \in DOMAIN queue : queue[e].mode = "BULK" /\ queue[e].approved}

Ready == {e \in DOMAIN queue : /\ queue[e].status = "QUEUED"
                               /\ queue[e].mode = "BULK" /\ queue[e].approved}

(* One poll of the dispatcher.                                             *)
Poll(d) ==
  LET first == {e \in Ready : Cardinality({f \in Ready : f < e}) < BatchSize}
  IN /\ sender[d].pc = "idle"
     /\ Ready # {}
     /\ Start(d, first)
     /\ UNCHANGED <<registry, queue, inbox, counters>>

LimitPassed(s) == s \in Limited /\ Counted > DailyLimit

LimitReached(s) == s \in Limited /\ Counted >= DailyLimit

CheckLimit(s) ==
  /\ sender[s].pc = "check"
  /\ IF LimitReached(s)
       THEN Done(s, "QUEUED", "NONE")
       ELSE sender' = [sender EXCEPT ![s].pc = "look"]
  /\ UNCHANGED <<registry, queue, inbox, counters>>

(* lock_email reads a visitor's allocation before it waits for the         *)
(* credential's lock: at the start of the claim and of the delivery.       *)
Look(s) ==
  /\ sender[s].pc \in {"look", "lookAgain"}
  /\ sender' = [sender EXCEPT
       ![s].pc = IF @ = "look" THEN "claim" ELSE "deliver",
       ![s].saw = ~credential[queue[sender[s].email].credential].usedUp]
  /\ UNCHANGED <<registry, queue, inbox, counters>>

Valid(s) ==
  LET row == queue[sender[s].email]
  IN Deliverable(row, sender[s].saw) /\ row.to \notin Reserved

Claims(s) ==
  LET e == sender[s].email
  IN IF Valid(s) THEN SetStatus(e, "FAILED", s)
     ELSE SetStatus(e, "CANCELLED", "UNDELIVERABLE")

QueuedOrFailed(row) == row.status \in {"QUEUED", "FAILED"}

Claimable(row) == row.status = "QUEUED"

Claim(s) ==
  LET row == queue[sender[s].email]
  IN /\ sender[s].pc = "claim"
     /\ Free(LockOf(row.credential))
     /\ IF ~Claimable(row)
          THEN Done(s, Existing(row), row.mark) /\ UNCHANGED queue
          ELSE /\ Claims(s)
               /\ IF Valid(s) THEN sender' = [sender EXCEPT ![s].pc = "lookAgain"]
                  ELSE Done(s, "CANCELLED", "UNDELIVERABLE")
     /\ UNCHANGED <<registry, inbox, counters>>

(* The delivering transaction finds its own claim and validates again.     *)
Deliver(s) ==
  LET e == sender[s].email
      row == queue[e]
  IN /\ sender[s].pc = "deliver"
     /\ Free(LockOf(row.credential))
     /\ IF row.status # "FAILED" \/ row.mark # s
          THEN Done(s, Existing(row), row.mark) /\ UNCHANGED queue
        ELSE IF Valid(s)
          THEN sender' = [sender EXCEPT ![s].pc = "provider"] /\ UNCHANGED queue
        ELSE SetStatus(e, "CANCELLED", "UNDELIVERABLE")
             /\ Done(s, "CANCELLED", "UNDELIVERABLE")
     /\ UNCHANGED <<registry, inbox, counters>>

(* The provider accepts and says so, accepts or not without saying, or     *)
(* refuses.                                                                *)
Accept(s) ==
  inbox' = [inbox EXCEPT ![sender[s].email] =
              [copies |-> @.copies + 1, at |-> clock, by |-> s]]

Provider(s) ==
  /\ sender[s].pc = "provider"
  /\ \E fate \in {"ACCEPTED", "REVIEW"} \cup Refusals :
       /\ \/ fate \in {"ACCEPTED", "REVIEW"} /\ Accept(s)
          \/ fate # "ACCEPTED" /\ UNCHANGED inbox
       /\ sender' = [sender EXCEPT ![s].pc = "record", ![s].fate = fate]
  /\ UNCHANGED <<registry, queue, counters>>

RecordedUnsureAsOutage(s) ==
  LET fate == sender[s].fate
  IN IF fate = "ACCEPTED" THEN SetStatus(sender[s].email, "SENT", "NONE")
     ELSE SetStatus(sender[s].email, "FAILED", IF fate = "REVIEW" THEN "OUTAGE" ELSE fate)

Recorded(s) ==
  LET fate == sender[s].fate
  IN IF fate = "ACCEPTED" THEN SetStatus(sender[s].email, "SENT", "NONE")
     ELSE SetStatus(sender[s].email, "FAILED", fate)

Record(s) ==
  LET fate == sender[s].fate
  IN /\ sender[s].pc = "record"
     /\ Recorded(s)
     /\ Done(s, CASE fate = "ACCEPTED" -> "SENT"
                  [] fate = "REVIEW" -> "NEEDS_REVIEW"
                  [] OTHER -> "FAILED", fate)
     /\ UNCHANGED <<registry, inbox, counters>>

(* A failing transaction of a sender is answered NEEDS_REVIEW.  When it is *)
(* the commit that failed, its writes may be there all the same.           *)
SendFails(s) ==
  /\ faults < MaxFaults /\ faults' = faults + 1
  /\ \/ sender[s].pc \in {"check", "look", "claim", "lookAgain", "deliver", "record"}
        /\ UNCHANGED queue
     \/ /\ sender[s].pc = "claim" /\ Claimable(queue[sender[s].email])
        /\ Free(LockOf(queue[sender[s].email].credential))
        /\ Claims(s)
     \/ sender[s].pc = "record" /\ Recorded(s)
  /\ Done(s, "NEEDS_REVIEW", "NONE")
  /\ UNCHANGED <<registry, inbox, clock, changes>>

(* The process dies, in any step, and is started again.                    *)
Crash(s) ==
  /\ faults < MaxFaults /\ faults' = faults + 1
  /\ sender[s].pc # "idle"
  /\ sender' = [sender EXCEPT ![s] = Idle]
  /\ UNCHANGED <<registry, queue, inbox, clock, changes>>

-----------------------------------------------------------------------------
(* Requests to send.                                                       *)

(* send_single: approves a deliverable draft, then sends.                  *)
SendSingle(a, e) ==
  /\ sender[a].pc = "idle"
  /\ queue[e].mode = "SINGLE" /\ ~IsVisitor(queue[e].credential)
  /\ Free(LockOf(queue[e].credential))
  /\ IF queue[e].status = "DRAFT"
       THEN DeliverableNow(queue[e]) /\ queue' = Approved(queue, {e})
       ELSE UNCHANGED queue
  /\ Start(a, {e})
  /\ UNCHANGED <<registry, inbox, counters>>

(* process_bulk: only rows that were approved once.                        *)
ProcessBulk(a, es) ==
  /\ sender[a].pc = "idle"
  /\ Cardinality(es) \in 1..BatchSize
  /\ \A e \in es : queue[e].mode = "BULK" /\ queue[e].approved
  /\ Start(a, es)
  /\ UNCHANGED <<registry, queue, inbox, counters>>

(* The command line worker is handed any row, and no daily limit.          *)
SendByHand(o, e) ==
  /\ sender[o].pc = "idle"
  /\ Start(o, {e})
  /\ UNCHANGED <<registry, queue, inbox, counters>>

(* approve_bulk: all rows or none; rows approved before are left alone.    *)
ApproveBulk(es) ==
  LET pending == {e \in es : queue[e].status = "PENDING_APPROVAL"}
  IN /\ pending # {}
     /\ \A e \in es : /\ queue[e].mode = "BULK"
                      /\ Free(LockOf(queue[e].credential))
                      /\ queue[e].status \in {"PENDING_APPROVAL", "QUEUED"}
                           => DeliverableNow(queue[e])
                      /\ queue[e].status \in Waiting \/ queue[e].approved
     /\ queue' = Approved(queue, pending)
     /\ UNCHANGED <<registry, sender, inbox, counters>>

(* approve_emails of a visitor batch: counts what is left of the day, then *)
(* locks and approves row by row; one row that changed stops them all.     *)
BatchPending == {e \in DOMAIN queue : /\ queue[e].status = "PENDING_APPROVAL"
                                      /\ IsVisitor(queue[e].credential)}

CountBatch(a) ==
  /\ sender[a].pc = "idle"
  /\ BatchPending # {}
  /\ Cardinality(BatchPending) <= Remaining
  /\ sender' = [sender EXCEPT ![a] = [Idle EXCEPT !.pc = "approving", !.batch = BatchPending]]
  /\ UNCHANGED <<registry, queue, inbox, counters>>

ApproveBatch(a) ==
  LET es == sender[a].batch
  IN /\ sender[a].pc = "approving"
     /\ \A e \in es : Free(LockOf(queue[e].credential))
     /\ queue' = IF \A e \in es : /\ queue[e].status = "PENDING_APPROVAL"
                                  /\ DeliverableNow(queue[e])
                 THEN Approved(queue, es) ELSE queue
     /\ sender' = [sender EXCEPT ![a] = Idle]
     /\ UNCHANGED <<registry, inbox, counters>>

(* prepare_single for a visitor: under the credential's lock it counts     *)
(* what is left of the day, then approves the draft or a new copy, and     *)
(* sends it.                                                               *)
(* Whether the bound on the rows leaves room for n more.                   *)
Room(n) ==
  Len(queue) + n + Cardinality({s \in Senders : sender[s].pc = "preparing"}) <= MaxEmails

VisitorDraft(q) ==
  {e \in EmailsOf(q) : /\ e = Latest(EmailsOf(q))
                       /\ queue[e].status = "DRAFT" /\ queue[e].mode = "SINGLE"}

CountVisitor(a, q) ==
  LET sent == EmailsOf(q)
  IN /\ sender[a].pc = "idle"
     /\ IsVisitor(q) /\ credential[q].to # None
     /\ Free(q)
     /\ credential[q].state = "LIVE" /\ ~credential[q].usedUp /\ ~Expired(q)
     /\ sent # {} => queue[Latest(sent)].status \notin {"QUEUED", "PENDING_APPROVAL"}
     /\ Remaining >= 1
     /\ VisitorDraft(q) = {} => Cardinality(sent) <= ResendLimit /\ Room(1)
     /\ sender' = [sender EXCEPT ![a] = [Idle EXCEPT !.pc = "preparing", !.for = q]]
     /\ UNCHANGED <<registry, queue, inbox, counters>>

SendVisitor(a) ==
  LET q == sender[a].for
      rows == IF VisitorDraft(q) # {} THEN queue
              ELSE Append(queue, NewRow(q, credential[q].to, "SINGLE"))
      e == IF VisitorDraft(q) # {} THEN Latest(EmailsOf(q)) ELSE Len(rows)
  IN /\ sender[a].pc = "preparing"
     /\ IF Expired(q)
          THEN sender' = [sender EXCEPT ![a] = Idle] /\ UNCHANGED queue
          ELSE queue' = Approved(rows, {e}) /\ Start(a, {e})
     /\ UNCHANGED <<registry, inbox, counters>>

-----------------------------------------------------------------------------
(* Registry.                                                               *)

Issued(q, p, to, expires) ==
  [state |-> "LIVE", owner |-> p, expires |-> expires, to |-> to, usedUp |-> FALSE]

CanIssue(q, expires) == credential[q].state = "UNISSUED" /\ expires > clock
Change == changes < MaxChanges /\ changes' = changes + 1

(* register, and a row of register_bulk.                                   *)
Register(p, q, to, mode, expires) ==
  /\ employee[p].state = "NONE"
  /\ CanIssue(q, expires) /\ Room(1)
  /\ employee' = [employee EXCEPT ![p] = [state |-> "ACTIVE", address |-> to]]
  /\ credential' = [credential EXCEPT ![q] = Issued(q, p, None, expires)]
  /\ queue' = Append(queue, NewRow(q, to, mode))
  /\ UNCHANGED <<sender, inbox, counters>>

Revoked(qs) == [q \in Credentials |->
                  IF q \in qs THEN [credential[q] EXCEPT !.state = "REVOKED"]
                  ELSE credential[q]]

(* At most one credential of an owner is live.                             *)
CancelAll(qs) == IF qs = {} THEN queue ELSE Cancelled(queue, CHOOSE q \in qs : TRUE)

(* replace_employee; issue_employee is the case without a live credential. *)
Replace(p, q, expires) ==
  /\ employee[p].state = "ACTIVE" /\ Free(p)
  /\ CanIssue(q, expires) /\ Room(1)
  /\ credential' = [Revoked(LiveOf(p)) EXCEPT ![q] = Issued(q, p, None, expires)]
  /\ queue' = Append(CancelAll(LiveOf(p)), NewRow(q, employee[p].address, "SINGLE"))
  /\ UNCHANGED <<employee, sender, inbox, counters>>

Revoke(q) ==
  /\ Change
  /\ credential[q].state = "LIVE" /\ Free(LockOf(q))
  /\ credential' = Revoked({q})
  /\ queue' = Cancelled(queue, q)
  /\ UNCHANGED <<employee, sender, inbox, clock, faults>>

(* update with a new address: the live credential's emails are cancelled   *)
(* and, if it is usable, a draft for the new address is made.              *)
ChangeAddress(p, to) ==
  LET live == LiveOf(p)
      usable == {q \in live : employee[p].state = "ACTIVE" /\ ~Expired(q)}
  IN /\ Change
     /\ employee[p].state \in {"ACTIVE", "INACTIVE"} /\ employee[p].address # to
     /\ Free(p)
     /\ usable # {} => Room(1)
     /\ employee' = [employee EXCEPT ![p].address = to]
     /\ queue' = IF usable = {} THEN CancelAll(live)
                 ELSE Append(CancelAll(live),
                             NewRow(CHOOSE q \in usable : TRUE, to, "SINGLE"))
     /\ UNCHANGED <<credential, sender, inbox, clock, faults>>

SetActive(p, active) ==
  /\ Change
  /\ employee[p].state \in {"ACTIVE", "INACTIVE"} /\ Free(p)
  /\ employee' = [employee EXCEPT ![p].state = IF active THEN "ACTIVE" ELSE "INACTIVE"]
  /\ queue' = IF active THEN queue ELSE CancelAll(LiveOf(p))
  /\ UNCHANGED <<credential, sender, inbox, clock, faults>>

Archive(p) ==
  /\ Change
  /\ employee[p].state \in {"ACTIVE", "INACTIVE"} /\ Free(p)
  /\ employee' = [employee EXCEPT ![p].state = "ARCHIVED"]
  /\ credential' = Revoked(LiveOf(p))
  /\ queue' = CancelAll(LiveOf(p))
  /\ UNCHANGED <<sender, inbox, clock, faults>>

(* resend_employee looks at the latest email to the current address only:  *)
(* one that needs review refuses, an unsent single one is used again.      *)
Resendable(p, q) ==
  LET same == {e \in EmailsOf(q) : queue[e].to = employee[p].address}
      last == queue[Latest(same)]
  IN same # {} => /\ ~NeedsReview(last)
                  /\ ~(last.mode = "SINGLE" /\ last.status \in {"DRAFT", "QUEUED"})

Resend(p, q) ==
  /\ employee[p].state = "ACTIVE" /\ Free(p)
  /\ q \in LiveOf(p) /\ ~Expired(q)
  /\ Resendable(p, q)
  /\ Room(1)
  /\ queue' = Append(queue, NewRow(q, employee[p].address, "SINGLE"))
  /\ UNCHANGED <<registry, sender, inbox, counters>>

(* issue_master: one visitor credential, with a draft if it has an address.*)
IssueVisitor(q, to, expires) ==
  /\ CanIssue(q, expires) /\ Room(1)
  /\ credential' = [credential EXCEPT ![q] = Issued(q, None, to, expires)]
  /\ queue' = IF to = None THEN queue ELSE Append(queue, NewRow(q, to, "SINGLE"))
  /\ UNCHANGED <<employee, sender, inbox, counters>>

(* create of a visitor batch: one credential and pending email for each    *)
(* person, at once.  There is one batch.                                   *)
IssueBatch(qs, to, expires) ==
  LET added == CHOOSE f \in [1..Cardinality(qs) -> qs] :
                 \A i, j \in DOMAIN f : f[i] = f[j] => i = j
  IN /\ \A q \in qs : CanIssue(q, expires)
     /\ Room(Cardinality(qs))
     /\ BatchPending = {}
     /\ credential' = [q \in Credentials |->
          IF q \in qs THEN Issued(q, None, to, expires) ELSE credential[q]]
     /\ queue' = queue \o [i \in DOMAIN added |-> NewRow(added[i], to, "BULK")]
     /\ UNCHANGED <<employee, sender, inbox, counters>>

(* replace_master.                                                         *)
ReplaceVisitor(old, q, to, expires) ==
  /\ IsVisitor(old) /\ credential[old].state = "LIVE" /\ Free(old)
  /\ CanIssue(q, expires) /\ Room(1)
  /\ credential' = [Revoked({old}) EXCEPT ![q] = Issued(q, None, to, expires)]
  /\ queue' = LET rows == Cancelled(queue, old)
              IN IF to = None THEN rows ELSE Append(rows, NewRow(q, to, "SINGLE"))
  /\ UNCHANGED <<employee, sender, inbox, counters>>

(* The visitor's last meal, recorded under the credential's lock.          *)
UseUp(q) ==
  /\ Change
  /\ IsVisitor(q) /\ credential[q].state = "LIVE" /\ ~credential[q].usedUp /\ Free(q)
  /\ credential' = [credential EXCEPT ![q].usedUp = TRUE]
  /\ UNCHANGED <<employee, queue, sender, inbox, clock, faults>>

Tick ==
  /\ clock < MaxClock
  /\ clock' = clock + 1
  /\ UNCHANGED <<registry, queue, sender, inbox, changes, faults>>

Registry ==
  \/ \E p \in Employees :
       \/ \E q \in Credentials, expires \in Expiries :
            \/ \E to \in Addresses, mode \in {"SINGLE", "BULK"} :
                 Register(p, q, to, mode, expires)
            \/ Replace(p, q, expires)
       \/ \E to \in Addresses : ChangeAddress(p, to)
       \/ \E active \in BOOLEAN : SetActive(p, active)
       \/ Archive(p)
       \/ \E q \in Credentials : Resend(p, q)
  \/ \E q \in Credentials : Revoke(q) \/ UseUp(q)
  \/ \E to \in Addresses \cup {None}, expires \in Expiries, q \in Credentials :
       \/ IssueVisitor(q, to, expires)
       \/ \E old \in Credentials : ReplaceVisitor(old, q, to, expires)
  \/ \E qs \in (SUBSET Credentials) \ {{}}, to \in Addresses, expires \in Expiries \ {Never} :
       IssueBatch(qs, to, expires)

Requests ==
  \/ \E a \in Admins :
       \/ \E e \in DOMAIN queue : SendSingle(a, e)
       \/ \E es \in SUBSET DOMAIN queue : ProcessBulk(a, es)
       \/ CountBatch(a)
       \/ \E q \in Credentials : CountVisitor(a, q)
  \/ \E o \in Operators, e \in DOMAIN queue : SendByHand(o, e)
  \/ \E es \in SUBSET DOMAIN queue : ApproveBulk(es)

Work(s) ==
  \/ s \in Dispatchers /\ Poll(s)
  \/ CheckLimit(s) \/ Look(s) \/ Claim(s) \/ Deliver(s) \/ Provider(s) \/ Record(s)
  \/ ApproveBatch(s) \/ SendVisitor(s)

Next ==
  \/ Registry \/ Requests \/ Tick
  \/ \E s \in Senders : Work(s) \/ SendFails(s) \/ Crash(s)

Spec == Init /\ [][Next]_vars

(* A dispatcher polls for as long as it is not stopped, and a transaction  *)
(* ends: locks are waited for, and the provider answers within its timeout.*)
FairSpec == Spec /\ \A s \in Senders : WF_vars(Work(s))

-----------------------------------------------------------------------------
(* Properties.                                                             *)

EmployeeRows == [state : {"NONE", "ACTIVE", "INACTIVE", "ARCHIVED"},
                 address : Addresses \cup {None}]

CredentialRows ==
  [state : {"UNISSUED", "LIVE", "REVOKED"}, owner : Employees \cup {None},
   expires : 0..Never, to : Addresses \cup {None}, usedUp : BOOLEAN]

SenderStates ==
  [pc : {"idle", "check", "look", "claim", "lookAgain", "deliver", "provider",
         "record", "halted", "approving", "preparing"},
   email : 0..MaxEmails, batch : SUBSET Emails, for : Credentials \cup {None},
   saw : BOOLEAN, fate : {"NONE", "ACCEPTED", "REVIEW"} \cup Refusals,
   answer : [email : 0..MaxEmails,
             status : Statuses \cup {"NONE", "ALREADY_SENT", "NEEDS_REVIEW",
                                    "REFUSED"}]]

(* The CHECK constraints of email_queue and the approval guard.            *)
RowAllowed(row) ==
  /\ row.status = "QUEUED" => row.approved
  /\ row.status = "DRAFT" => row.mode = "SINGLE" /\ ~row.approved
  /\ row.status = "PENDING_APPROVAL" => row.mode = "BULK" /\ ~row.approved

(* The type invariant: every variable has its type, and no operation       *)
(* writes a row that the schema refuses.                                   *)
TypeOK ==
  /\ employee \in [Employees -> EmployeeRows]
  /\ credential \in [Credentials -> CredentialRows]
  /\ queue \in Seq(Rows) /\ Len(queue) <= MaxEmails
  /\ sender \in [Senders -> SenderStates]
  /\ inbox \in [Emails -> [copies : Nat, at : Times, by : Senders \cup {None}]]
  /\ clock \in Times /\ changes \in 0..MaxChanges /\ faults \in 0..MaxFaults
  /\ \A e \in DOMAIN queue : RowAllowed(queue[e])

(* What a row says is true of the mailbox: a SENT email was accepted; one  *)
(* that waits, was refused by the provider or is not deliverable was not.  *)
StatusTellsMailbox ==
  \A e \in DOMAIN queue :
    LET row == queue[e]
    IN /\ row.status = "SENT" => inbox[e].copies = 1
       /\ (row.status \in Waiting \/ row.mark \in Refusals \cup {"UNDELIVERABLE"})
            => inbox[e].copies = 0

(* What a caller of the worker is told is true of the mailbox, and stays   *)
(* true: an email answered FAILED is never delivered afterwards.           *)
AnswersTellMailbox ==
  \A s \in Senders :
    LET answer == sender[s].answer
    IN /\ answer.status \in {"SENT", "ALREADY_SENT"} => inbox[answer.email].copies = 1
       /\ answer.status = "FAILED" => inbox[answer.email].copies = 0

(* A row that can still be sent belongs to a live credential and, for an   *)
(* employee, to an active one and the current address: whatever invalidates*)
(* a row cancels it in the same transaction.                               *)
WaitingIsCurrent ==
  \A e \in DOMAIN queue :
    LET q == queue[e].credential
        p == credential[q].owner
    IN queue[e].status \in Waiting =>
         /\ credential[q].state = "LIVE"
         /\ p # None => /\ employee[p].state = "ACTIVE"
                        /\ employee[p].address = queue[e].to

(* When the provider accepts a message, the email has been approved, its   *)
(* credential is not revoked, and an employee is active at that very       *)
(* address; a dispatcher sends bulk emails only.                           *)
SentWhileValid ==
  [][\A e \in Emails : inbox'[e].copies > inbox[e].copies =>
       LET q == queue[e].credential
           p == credential[q].owner
       IN /\ queue[e].approved
          /\ credential[q].state = "LIVE"
          /\ p # None => /\ employee[p].state = "ACTIVE"
                         /\ employee[p].address = queue[e].to
          /\ inbox'[e].by \in Dispatchers => queue[e].mode = "BULK"]_vars

(* The messages of the last day that are known to be accepted and that     *)
(* were sent under the limit exceed it by less than the number of senders  *)
(* that may have read the count at the same time.                          *)
OfToday(e) == inbox[e].copies > 0 /\ inbox[e].at >= clock - Day
LimitOvershoot ==
  Cardinality({e \in DOMAIN queue : /\ OfToday(e) /\ queue[e].status = "SENT"
                                    /\ inbox[e].by \in Limited})
    <= DailyLimit + Cardinality(Limited) - 1

(* An approved bulk email does not stay QUEUED for ever while a dispatcher *)
(* runs and the day's limit leaves room.                                   *)
BulkDispatched ==
  \A e \in Emails :
    []<>~(/\ e \in DOMAIN queue /\ queue[e].status = "QUEUED" /\ queue[e].mode = "BULK"
          /\ Counted < DailyLimit
          /\ \E d \in Dispatchers : sender[d].pc # "halted")

(* Each email takes the course that EmailOutbox allows.                    *)
Stage ==
  [e \in Emails |->
     IF e \notin DOMAIN queue THEN "unmade"
     ELSE CASE queue[e].status \in {"DRAFT", "PENDING_APPROVAL"} -> "held"
            [] queue[e].status = "QUEUED" -> "approved"
            [] queue[e].status = "FAILED" /\ queue[e].mark \in Senders -> "taken"
            [] queue[e].status = "SENT" -> "sent"
            [] OTHER -> "closed"]
Outbox == INSTANCE EmailOutbox WITH Ids <- Emails, stage <- Stage,
                                    copies <- [e \in Emails |-> inbox[e].copies]
ImplementsOutbox == Outbox!OutboxSpec
=============================================================================
