--------------------------- MODULE EmailInvariant ---------------------------
(***************************************************************************)
(* The inductive invariant of EmailDelivery, in named parts: what rows,    *)
(* senders and the mailbox say about each other in every reachable state.  *)
(***************************************************************************)
EXTENDS EmailDelivery

(* Owners have addresses, a credential names an owner only once it is      *)
(* issued, and an employee has at most one live credential: cancelling the *)
(* emails of one therefore cancels all that the employee has waiting.      *)
OwnersKnown ==
  /\ \A p \in Employees : employee[p].state # "NONE" => employee[p].address # None
  /\ \A q \in Credentials : credential[q].owner # None =>
       /\ credential[q].state # "UNISSUED"
       /\ employee[credential[q].owner].state # "NONE"
  /\ \A q, r \in Credentials :
       /\ credential[q].owner # None /\ credential[q].owner = credential[r].owner
       /\ credential[q].state = "LIVE" /\ credential[r].state = "LIVE"
       => q = r

(* The credential of a row is live and its owner reached at that address.  *)
Current(row) ==
  LET p == credential[row.credential].owner
  IN /\ credential[row.credential].state = "LIVE"
     /\ p # None => employee[p].state = "ACTIVE" /\ employee[p].address = row.to

(* A row and the mailbox agree, and a row that was claimed was approved.   *)
RowHonest(e) ==
  LET row == queue[e]
  IN /\ credential[row.credential].state # "UNISSUED"
     /\ row.status \in Waiting => Current(row)
     /\ row.status = "FAILED" =>
          row.approved /\ row.mark \in Senders \cup {"REVIEW"} \cup Refusals
     /\ row.status = "SENT" => inbox[e].copies = 1 /\ inbox[e].at <= row.at
     /\ row.status \in Waiting \/ row.mark \in Refusals \cup {"UNDELIVERABLE"}
          => inbox[e].copies = 0

MailboxSane ==
  \A e \in Emails :
    /\ inbox[e].copies \in {0, 1} /\ inbox[e].at <= clock
    /\ e \notin DOMAIN queue => inbox[e].copies = 0

(* Where a sender works on an email.                                       *)
PastCheck(s) ==
  sender[s].pc \in {"look", "claim", "lookAgain", "deliver", "provider", "record"}
Working(s) == sender[s].pc = "check" \/ PastCheck(s)

Claimed(s) == /\ queue[sender[s].email].status = "FAILED"
              /\ queue[sender[s].email].mark = s

(* A sender works on rows that exist, a dispatcher on bulk rows only.      *)
WorkKnown(s) ==
  /\ sender[s].batch \subseteq DOMAIN queue
  /\ Working(s) => sender[s].email \in DOMAIN queue
  /\ s \in Dispatchers => \A e \in sender[s].batch : queue[e].mode = "BULK"
  /\ s \in Dispatchers /\ Working(s) => queue[sender[s].email].mode = "BULK"

(* A sender that still has its claim has not delivered; while it delivers, *)
(* its claim stands, and the row is current until the provider answers.    *)
ClaimHeld(s) ==
  LET e == sender[s].email
      fate == sender[s].fate
  IN /\ sender[s].pc \in {"lookAgain", "deliver"} /\ Claimed(s) => inbox[e].copies = 0
     /\ sender[s].pc = "provider" =>
          Claimed(s) /\ inbox[e].copies = 0 /\ Current(queue[e])
     /\ sender[s].pc = "record" =>
          /\ Claimed(s) /\ fate \in {"ACCEPTED", "REVIEW"} \cup Refusals
          /\ fate = "ACCEPTED" => inbox[e].copies = 1 /\ inbox[e].by = s
          /\ fate \in Refusals => inbox[e].copies = 0

(* What a caller was told, and why it stays true.                          *)
AnswerHonest(s) ==
  LET e == sender[s].answer.email
      status == sender[s].answer.status
  IN /\ status \in {"SENT", "ALREADY_SENT"} => e \in Emails /\ inbox[e].copies = 1
     /\ status = "FAILED" =>
          /\ e \in DOMAIN queue /\ inbox[e].copies = 0
          /\ \/ queue[e].status = "CANCELLED"
             \/ queue[e].status = "FAILED" /\ queue[e].mark \in Refusals

(* A request that counts for a visitor holds the visitor's credential, and *)
(* there is room for the row it may make.                                  *)
VisitorHeld(s) ==
  LET q == sender[s].for
  IN /\ sender[s].pc \in {"approving", "preparing"} => s \in Admins
     /\ sender[s].pc = "preparing" =>
          /\ q \in Credentials
          /\ credential[q].state = "LIVE" /\ credential[q].owner = None
          /\ credential[q].to # None
          /\ \A t \in Senders : sender[t].pc = "preparing" /\ sender[t].for = q => t = s

RowToCome(s) == sender[s].pc = "preparing" /\ VisitorDraft(sender[s].for) = {}

RoomKept == Len(queue) + Cardinality({s \in Senders : RowToCome(s)}) <= MaxEmails

SenderHonest(s) == WorkKnown(s) /\ ClaimHeld(s) /\ AnswerHonest(s) /\ VisitorHeld(s)

DeliveryInv ==
  /\ TypeOK /\ OwnersKnown /\ MailboxSane /\ RoomKept
  /\ \A e \in DOMAIN queue : RowHonest(e)
  /\ \A s \in Senders : SenderHonest(s)

(* The emails sent today, with those that senders have passed the check    *)
(* for, exceed the limit by less than the number of limited senders.       *)
SentToday == {e \in DOMAIN queue : /\ OfToday(e) /\ queue[e].status = "SENT"
                                   /\ inbox[e].by \in Limited}
LimitKept ==
  Cardinality(SentToday) + Cardinality({s \in Limited : PastCheck(s)})
    <= DailyLimit + Cardinality(Limited) - 1
=============================================================================
