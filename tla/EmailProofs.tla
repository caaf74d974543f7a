----------------------------- MODULE EmailProofs -----------------------------
(***************************************************************************)
(* What holds of EmailDelivery for every value of its constants: rows and  *)
(* answers tell the truth about the mailbox, waiting emails are current,   *)
(* emails are sent while they are valid, the daily limit is exceeded by    *)
(* less than the number of limited senders, and every email takes the      *)
(* course that EmailOutbox allows.                                         *)
(***************************************************************************)
EXTENDS EmailInvariant, FiniteSetTheorems, FunctionTheorems, WellFoundedInduction, TLAPS

-----------------------------------------------------------------------------
(* Sets of rows, and sequences                                             *)

(* A set of numbers that is not empty has a least one: the one Oldest is.  *)
LEMMA LeastExists ==
  ASSUME NEW S \in SUBSET Nat, S # {}
  PROVE  \E x \in S : \A y \in S : x <= y
<1>1. PICK x \in S : \A y \in S : ~ (<<y, x>> \in OpToRel(<, Nat))
  BY WFMin, NatLessThanWellFounded, Zenon
<1>2. ASSUME NEW y \in S PROVE x <= y
  <2>1. ~ (<<y, x>> \in {ss \in Nat \X Nat : ss[1] < ss[2]})
    BY <1>1, Zenon DEF OpToRel
  <2>2. x \in Nat /\ y \in Nat /\ <<y, x>>[1] = y /\ <<y, x>>[2] = x
    OBVIOUS
  <2>3. ~ (y < x)
    BY <2>1, <2>2
  <2> QED  BY <2>2, <2>3
<1> QED  BY <1>2

LEMMA OldestIs ==
  ASSUME NEW S \in SUBSET Nat, S # {}
  PROVE  Oldest(S) \in S /\ \A f \in S : Oldest(S) <= f
BY LeastExists DEF Oldest

(* A bounded one has a greatest one: the one Latest is.                    *)
LEMMA LatestIs ==
  ASSUME NEW n \in Nat, NEW S \in SUBSET (1..n), S # {}
  PROVE  Latest(S) \in S /\ \A f \in S : f <= Latest(S)
<1> DEFINE D == {d \in Nat : n - d \in S}
<1>1. PICK y \in S : TRUE
  OBVIOUS
<1>2. y \in Nat /\ y <= n /\ n - y \in Nat /\ n - (n - y) = y
  OBVIOUS
<1>3. n - y \in D
  BY <1>2
<1>4. D \in SUBSET Nat /\ D # {}
  BY <1>3
<1> HIDE DEF D
<1>5. PICK d \in D : \A z \in D : d <= z
  BY <1>4, LeastExists
<1>6. d \in Nat /\ n - d \in S
  BY <1>5 DEF D
<1>7. ASSUME NEW f \in S PROVE f <= n - d
  <2>1. f \in Nat /\ n - f \in Nat /\ n - (n - f) = f
    OBVIOUS
  <2>2. n - f \in D
    BY <2>1 DEF D
  <2> QED  BY <1>5, <1>6, <2>1, <2>2
<1> QED  BY <1>6, <1>7 DEF Latest

LEMMA LatestUnique ==
  ASSUME NEW S \in SUBSET Nat, NEW x \in S, \A f \in S : f <= x
  PROVE  Latest(S) = x
<1>1. \A y \in S : (\A f \in S : f <= y) => y = x
  OBVIOUS
<1> QED  BY <1>1 DEF Latest

(* A function on the rows that makes rows of them is a queue as long.      *)
LEMMA RowsMapped ==
  ASSUME NEW rows \in Seq(Rows), NEW f,
         f = [e \in DOMAIN rows |-> f[e]], \A e \in DOMAIN rows : f[e] \in Rows
  PROVE  /\ f \in Seq(Rows) /\ Len(f) = Len(rows) /\ DOMAIN f = DOMAIN rows
<1>1. Len(rows) \in Nat /\ DOMAIN rows = 1..Len(rows)
  OBVIOUS
<1>2. f \in [1..Len(rows) -> Rows]
  BY <1>1
<1> QED  BY <1>1, <1>2

LEMMA RowsAppended ==
  ASSUME NEW rows \in Seq(Rows), NEW row \in Rows
  PROVE  LET new == Append(rows, row)
         IN /\ new \in Seq(Rows) /\ Len(new) = Len(rows) + 1
            /\ DOMAIN new = DOMAIN rows \cup {Len(rows) + 1}
            /\ \A e \in DOMAIN rows : new[e] = rows[e]
            /\ new[Len(rows) + 1] = row
            /\ Len(rows) + 1 \notin DOMAIN rows
<1>1. Len(rows) \in Nat /\ DOMAIN rows = 1..Len(rows)
  OBVIOUS
<1>2. DOMAIN Append(rows, row) = 1..(Len(rows) + 1)
  OBVIOUS
<1> QED  BY <1>1, <1>2

-----------------------------------------------------------------------------
(* What a step may do.  S is the set of the senders that move in it: one,  *)
(* or none.                                                                *)

(* How a row is written: status, last_error and updated_at.                *)
Written(e, status, mark) ==
  /\ queue'[e].credential = queue[e].credential
  /\ queue'[e].to = queue[e].to /\ queue'[e].mode = queue[e].mode
  /\ queue'[e].status = status /\ queue'[e].mark = mark /\ queue'[e].at = clock

Prepares(s, q) == sender[s].pc = "preparing" /\ sender[s].for = q

Approves(S, e) ==
  /\ queue[e].status \in {"DRAFT", "PENDING_APPROVAL"}
  /\ Written(e, "QUEUED", "NONE") /\ queue'[e].approved
  /\ \/ queue[e].mode = "BULK" \/ credential[queue[e].credential].owner # None
     \/ \E s \in S : Prepares(s, queue[e].credential)

Cancels(e) ==
  /\ Free(LockOf(queue[e].credential))
  /\ Written(e, IF queue[e].status = "SENT" THEN "SENT" ELSE "CANCELLED", "NONE")
  /\ queue'[e].approved = queue[e].approved

(* A sender writes the row it works on: its claim, or what became of it.   *)
Handles(s, e) ==
  /\ e = sender[s].email /\ queue'[e].approved = queue[e].approved
  /\ \/ /\ sender[s].pc = "claim" /\ queue[e].status = "QUEUED"
        /\ Written(e, "FAILED", s) \/ Written(e, "CANCELLED", "UNDELIVERABLE")
     \/ /\ sender[s].pc = "deliver" /\ Claimed(s)
        /\ Written(e, "CANCELLED", "UNDELIVERABLE")
     \/ /\ sender[s].pc = "record" /\ sender[s].fate = "ACCEPTED"
        /\ Written(e, "SENT", "NONE")
     \/ /\ sender[s].pc = "record" /\ sender[s].fate # "ACCEPTED"
        /\ Written(e, "FAILED", sender[s].fate)

RowMoves(S, e) ==
  \/ queue'[e] = queue[e] \/ Approves(S, e) \/ Cancels(e)
  \/ \E s \in S : Handles(s, e)

(* A row is made for a new credential, for an employee's, or by the request*)
(* that holds the visitor's.                                               *)
RowMade(S, e) ==
  LET q == queue'[e].credential
  IN /\ RowAllowed(queue'[e])
     /\ queue'[e].status \in Waiting /\ queue'[e].mark = "NONE"
     /\ \/ credential[q].state = "UNISSUED" \/ credential[q].owner # None
        \/ \E s \in S : Prepares(s, q)

Delivers(s, e) ==
  /\ sender[s].pc = "provider" /\ e = sender[s].email /\ UNCHANGED queue
  /\ inbox'[e] = [copies |-> inbox[e].copies + 1, at |-> clock, by |-> s]

(* What is issued keeps its owner, and what is locked stays as it is.      *)
CredentialStands(q) ==
  \/ credential[q].state = "UNISSUED"
  \/ /\ credential'[q].owner = credential[q].owner /\ credential'[q].to = credential[q].to
     /\ \/ credential'[q].state = credential[q].state
        \/ credential'[q].state = "REVOKED" /\ Free(LockOf(q))

EmployeeStands(p) ==
  employee'[p] = employee[p] \/ Free(p) \/ employee[p].state = "NONE"

Frame(S) ==
  /\ S \subseteq Senders /\ \A s, t \in S : s = t
  /\ \A t \in Senders \ S : sender'[t] = sender[t]
  /\ \A s \in S, t \in Senders \ S :
       sender'[s].pc = "preparing" /\ sender[t].pc = "preparing"
         => sender'[s].for # sender[t].for
  /\ DOMAIN queue \subseteq DOMAIN queue'
  /\ \A e \in DOMAIN queue : RowMoves(S, e)
  /\ \A e \in DOMAIN queue' \ DOMAIN queue : RowMade(S, e)
  /\ \A e \in DOMAIN queue' : queue'[e].status \in Waiting => Current(queue[e])'
  /\ \A e \in Emails : inbox'[e] = inbox[e] \/ \E s \in S : Delivers(s, e)
  /\ \A q \in Credentials : CredentialStands(q)
  /\ \A p \in Employees : EmployeeStands(p)
  /\ clock <= clock'

(* The types alone, without the constraints on rows.                       *)
Types ==
  /\ employee \in [Employees -> EmployeeRows]
  /\ credential \in [Credentials -> CredentialRows]
  /\ queue \in Seq(Rows) /\ Len(queue) <= MaxEmails
  /\ sender \in [Senders -> SenderStates]
  /\ inbox \in [Emails -> [copies : Nat, at : Times, by : Senders \cup {None}]]
  /\ clock \in Times /\ changes \in 0..MaxChanges /\ faults \in 0..MaxFaults

LEMMA QueueDomain ==
  ASSUME TypeOK
  PROVE  /\ Len(queue) \in Nat /\ DOMAIN queue = 1..Len(queue)
         /\ DOMAIN queue \subseteq Emails /\ DOMAIN queue \subseteq Nat
         /\ \A e \in DOMAIN queue : /\ queue[e] \in Rows
                                    /\ queue[e].credential \in Credentials
<1>1. queue \in Seq(Rows) /\ Len(queue) <= MaxEmails
  BY DEF TypeOK
<1>2. Len(queue) \in Nat /\ DOMAIN queue = 1..Len(queue)
  BY <1>1
<1>3. \A e \in DOMAIN queue : queue[e] \in Rows
  BY <1>1, <1>2
<1> QED  BY <1>1, <1>2, <1>3, EmailAssumption DEF Emails, Rows

(* The rows a step leaves are rows the schema allows.                      *)
LEMMA FrameAllowed ==
  ASSUME TypeOK, Types', NEW S, Frame(S)
  PROVE  TypeOK'
<1>1. ASSUME NEW e \in DOMAIN queue' PROVE RowAllowed(queue[e])'
  <2>1. CASE e \notin DOMAIN queue
    BY <2>1 DEF Frame, RowMade
  <2>2. CASE e \in DOMAIN queue
    <3>1. RowAllowed(queue[e])
      BY <2>2 DEF TypeOK
    <3>2. RowMoves(S, e)
      BY <2>2 DEF Frame
    <3>3. CASE queue'[e] = queue[e]
      BY <3>1, <3>3 DEF RowAllowed
    <3>4. CASE Approves(S, e)
      BY <3>4 DEF Approves, Written, RowAllowed
    <3>5. CASE Cancels(e)
      BY <3>5 DEF Cancels, Written, RowAllowed
    <3>6. CASE \E s \in S : Handles(s, e)
      BY <3>6 DEF Handles, Written, RowAllowed
    <3> QED  BY <3>2, <3>3, <3>4, <3>5, <3>6 DEF RowMoves
  <2> QED  BY <2>1, <2>2
<1> QED  BY <1>1 DEF Types, TypeOK

(* A token is neither a code nor one of the other marks.                   *)
LEMMA Tokens ==
  \A s \in Senders : s \notin Refusals \cup {"NONE", "REVIEW", "UNDELIVERABLE"}
BY EmailAssumption DEF Refusals

LEMMA RowStaysHonest ==
  ASSUME DeliveryInv, TypeOK', NEW S, Frame(S), NEW e \in DOMAIN queue
  PROVE  RowHonest(e)'
<1> DEFINE row == queue[e]
           new == queue'[e]
<1>1. /\ e \in Emails /\ e \in DOMAIN queue' /\ row \in Rows /\ RowHonest(e)
      /\ RowAllowed(row) /\ S \subseteq Senders
      /\ inbox[e].copies \in {0, 1} /\ inbox[e].at <= clock
      /\ inbox[e].at \in Times /\ row.credential \in Credentials
      /\ \A s \in Senders : SenderHonest(s)
  BY QueueDomain DEF DeliveryInv, TypeOK, MailboxSane, Frame
<1>2. new.status \in Waiting => Current(queue[e])'
  BY <1>1 DEF Frame
<1>3. new.credential = row.credential
  BY <1>1 DEF Frame, RowMoves, Approves, Cancels, Handles, Written
<1>4. credential'[new.credential].state # "UNISSUED"
  BY <1>1, <1>3 DEF Frame, CredentialStands, RowHonest
<1>5. CASE inbox'[e] = inbox[e]
  <2>1. CASE new = row
    BY <1>1, <1>2, <1>4, <1>5, <2>1 DEF RowHonest
  <2>2. CASE Approves(S, e)
    BY <1>1, <1>2, <1>4, <1>5, <2>2 DEF RowHonest, Approves, Written, Waiting, Refusals
  <2>3. CASE Cancels(e)
    BY <1>1, <1>2, <1>4, <1>5, <2>3 DEF RowHonest, Cancels, Written, Waiting, Refusals
  <2>4. ASSUME NEW s \in S, Handles(s, e) PROVE RowHonest(e)'
    <3>1. s \in Senders /\ ClaimHeld(s) /\ sender[s].email = e
      BY <1>1, <2>4 DEF SenderHonest, Handles
    <3>2. CASE sender[s].pc = "claim"
      BY <1>1, <1>2, <1>4, <1>5, <2>4, <3>1, <3>2, Tokens
         DEF RowHonest, Handles, Written, Waiting, Refusals, RowAllowed
    <3>3. CASE sender[s].pc = "deliver"
      BY <1>1, <1>2, <1>4, <1>5, <2>4, <3>1, <3>3
         DEF RowHonest, Handles, Written, Waiting, Refusals, ClaimHeld
    <3>4. CASE sender[s].pc = "record"
      BY <1>1, <1>2, <1>4, <1>5, <2>4, <3>1, <3>4
         DEF RowHonest, Handles, Written, Waiting, Refusals, ClaimHeld, Claimed
    <3> QED  BY <2>4, <3>2, <3>3, <3>4 DEF Handles
  <2>5. RowMoves(S, e)
    BY DEF Frame
  <2> QED  BY <2>1, <2>2, <2>3, <2>4, <2>5 DEF RowMoves
<1>6. ASSUME NEW s \in S, Delivers(s, e) PROVE RowHonest(e)'
  <2>1. new = row /\ ClaimHeld(s) /\ s \in Senders
    BY <1>1, <1>6 DEF Delivers, SenderHonest
  <2>2. row.status = "FAILED" /\ row.mark = s
    BY <2>1, <1>6 DEF Delivers, ClaimHeld, Claimed
  <2> QED  BY <1>1, <1>2, <1>4, <2>1, <2>2, Tokens DEF RowHonest, Waiting
<1> QED  BY <1>1, <1>5, <1>6 DEF Frame

LEMMA MailboxStaysSane ==
  ASSUME DeliveryInv, TypeOK', NEW S, Frame(S)
  PROVE  MailboxSane'
<1>1. ASSUME NEW e \in Emails
      PROVE  /\ inbox'[e].copies \in {0, 1} /\ inbox'[e].at <= clock'
             /\ e \notin DOMAIN queue' => inbox'[e].copies = 0
  <2>1. /\ inbox[e].copies \in {0, 1} /\ inbox[e].at <= clock /\ inbox[e].at \in Times
        /\ e \notin DOMAIN queue => inbox[e].copies = 0
        /\ clock \in Times /\ clock' \in Times /\ clock <= clock'
        /\ DOMAIN queue \subseteq DOMAIN queue'
    BY DEF DeliveryInv, MailboxSane, TypeOK, Frame
  <2>2. CASE inbox'[e] = inbox[e]
    BY <2>1, <2>2, EmailAssumption DEF Times
  <2>3. ASSUME NEW s \in S, Delivers(s, e)
        PROVE  /\ inbox'[e].copies = 1 /\ inbox'[e].at <= clock' /\ e \in DOMAIN queue'
    <3>1. s \in Senders /\ ClaimHeld(s) /\ WorkKnown(s)
      BY DEF Frame, DeliveryInv, SenderHonest
    <3>2. inbox[e].copies = 0 /\ e \in DOMAIN queue
      BY <2>3, <3>1 DEF Delivers, ClaimHeld, WorkKnown, Working, PastCheck
    <3> QED  BY <2>1, <2>3, <3>2 DEF Delivers
  <2> QED  BY <2>2, <2>3 DEF Frame
<1> QED  BY <1>1 DEF MailboxSane

LEMMA RowsStayHonest ==
  ASSUME DeliveryInv, TypeOK', NEW S, Frame(S)
  PROVE  \A e \in DOMAIN queue' : RowHonest(e)'
<1>1. ASSUME NEW e \in DOMAIN queue', e \notin DOMAIN queue PROVE RowHonest(e)'
  <2>1. e \in Emails
    BY <1>1, EmailAssumption DEF TypeOK, Emails
  <2>2. inbox[e].copies = 0
    BY <1>1, <2>1 DEF DeliveryInv, MailboxSane
  <2>3. \A s \in S : ~Delivers(s, e)
    <3>1. \A s \in S : sender[s].pc = "provider" => sender[s].email \in DOMAIN queue
      BY DEF Frame, DeliveryInv, SenderHonest, WorkKnown, Working, PastCheck
    <3> QED  BY <3>1, <1>1 DEF Delivers
  <2>4. inbox'[e].copies = 0
    BY <2>1, <2>2, <2>3 DEF Frame
  <2>5. RowMade(S, e) /\ Current(queue[e])'
    BY <1>1 DEF Frame, RowMade
  <2> QED  BY <2>4, <2>5 DEF RowHonest, RowMade, Current, Waiting
<1> QED  BY <1>1, RowStaysHonest

(* The row a sender delivers stays as it is: its lock keeps cancellations  *)
(* away, and its claim the other senders.                                  *)
LEMMA DeliveredRowStays ==
  ASSUME DeliveryInv, NEW S, Frame(S), NEW t \in Senders \ S,
         sender[t].pc \in {"provider", "record"}
  PROVE  LET e == sender[t].email
         IN queue'[e] = queue[e] /\ inbox'[e] = inbox[e]
<1> DEFINE e == sender[t].email
<1>1. /\ e \in DOMAIN queue /\ e \in Emails /\ Claimed(t) /\ S \subseteq Senders
      /\ \A s \in Senders : SenderHonest(s)
  BY QueueDomain DEF DeliveryInv, SenderHonest, WorkKnown, Working, PastCheck, ClaimHeld, Frame
<1>2. \A s \in S : ~ Claimed(s) \/ sender[s].email # e
  BY <1>1 DEF Claimed
<1>3. ~ Approves(S, e)
  BY <1>1 DEF Approves, Claimed
<1>4. ~ Cancels(e)
  <2>1. LockOf(queue[e].credential) \in Locks(t)
    BY DEF Locks
  <2> QED  BY <2>1 DEF Cancels, Free
<1>5. ASSUME NEW s \in S PROVE ~ Handles(s, e) /\ ~ Delivers(s, e)
  <2>1. sender[s].pc \in {"provider", "record"} => Claimed(s)
    BY <1>1 DEF SenderHonest, ClaimHeld
  <2> QED  BY <1>1, <1>2, <2>1 DEF Handles, Delivers, Claimed
<1> QED  BY <1>1, <1>3, <1>4, <1>5 DEF Frame, RowMoves

LEMMA WorkStaysKnown ==
  ASSUME DeliveryInv, NEW S, Frame(S), NEW t \in Senders,
         Working(t)' => Working(t), sender'[t].email = sender[t].email,
         sender'[t].batch = sender[t].batch
  PROVE  WorkKnown(t)'
<1>1. WorkKnown(t) /\ DOMAIN queue \subseteq DOMAIN queue'
  BY DEF DeliveryInv, SenderHonest, Frame
<1>2. \A e \in DOMAIN queue : queue'[e].mode = queue[e].mode
  BY DEF Frame, RowMoves, Approves, Cancels, Handles, Written
<1> QED  BY <1>1, <1>2 DEF WorkKnown, Working, PastCheck

LEMMA OthersClaimHeld ==
  ASSUME DeliveryInv, NEW S, Frame(S), NEW t \in Senders \ S
  PROVE  ClaimHeld(t)'
<1> DEFINE e == sender[t].email
<1>1. /\ ClaimHeld(t) /\ WorkKnown(t) /\ sender'[t] = sender[t] /\ S \subseteq Senders
      /\ \A s \in Senders : SenderHonest(s)
  BY DEF DeliveryInv, SenderHonest, Frame
<1>2. CASE sender[t].pc \in {"lookAgain", "deliver"}
  <2> SUFFICES ASSUME queue'[e].status = "FAILED", queue'[e].mark = t
               PROVE  inbox'[e].copies = 0
    BY <1>1, <1>2 DEF ClaimHeld, Claimed
  <2>1. e \in DOMAIN queue /\ e \in Emails
    BY <1>1, <1>2, QueueDomain DEF DeliveryInv, WorkKnown, Working, PastCheck
  <2>2. t \notin Refusals \cup {"NONE", "REVIEW", "UNDELIVERABLE"}
    BY Tokens
  <2>3. ASSUME NEW s \in S, Handles(s, e) PROVE FALSE
    <3>1. s # t /\ ClaimHeld(s)
      BY <1>1 DEF SenderHonest
    <3> QED  BY <2>2, <2>3, <3>1 DEF Handles, Written, ClaimHeld
  <2>4. queue'[e] = queue[e]
    BY <2>1, <2>2, <2>3 DEF Frame, RowMoves, Approves, Cancels, Written
  <2>5. ASSUME NEW s \in S, Delivers(s, e) PROVE FALSE
    <3>1. s # t /\ ClaimHeld(s)
      BY <1>1 DEF SenderHonest
    <3> QED  BY <2>4, <2>5, <3>1 DEF Delivers, ClaimHeld, Claimed
  <2> QED  BY <1>1, <1>2, <2>1, <2>4, <2>5 DEF Frame, ClaimHeld, Claimed
<1>3. CASE sender[t].pc \in {"provider", "record"}
  <2>1. queue'[e] = queue[e] /\ inbox'[e] = inbox[e]
    BY <1>3, DeliveredRowStays
  <2>2. Claimed(t) /\ Claimed(t)'
    BY <1>1, <1>3, <2>1 DEF ClaimHeld, Claimed
  <2>3. ASSUME sender[t].pc = "provider" PROVE Current(queue[e])'
    <3> DEFINE q == queue[e].credential
               p == credential[q].owner
    <3>1. e \in DOMAIN queue /\ q \in Credentials /\ Current(queue[e])
      BY <1>1, <2>3, QueueDomain DEF DeliveryInv, WorkKnown, Working, PastCheck, ClaimHeld
    <3>2. ~ Free(LockOf(q))
      <4>1. LockOf(q) \in Locks(t)
        BY <2>3 DEF Locks
      <4> QED  BY <4>1 DEF Free
    <3>3. /\ credential'[q].state = "LIVE" /\ credential'[q].owner = p
      BY <3>1, <3>2 DEF Frame, CredentialStands, Current
    <3>4. ASSUME p # None PROVE employee'[p] = employee[p]
      <4>1. p \in Employees /\ employee[p].state = "ACTIVE" /\ ~ Free(p)
        BY <3>1, <3>2, <3>4 DEF LockOf, Current, DeliveryInv, TypeOK, CredentialRows
      <4> QED  BY <4>1 DEF Frame, EmployeeStands
    <3> QED  BY <1>1, <2>1, <3>1, <3>3, <3>4 DEF Current
  <2> QED  BY <1>1, <1>3, <2>1, <2>2, <2>3 DEF ClaimHeld
<1> QED  BY <1>1, <1>2, <1>3 DEF ClaimHeld

LEMMA AnswerStaysHonest ==
  ASSUME DeliveryInv, NEW S, Frame(S), NEW t \in Senders,
         sender'[t].answer = sender[t].answer
  PROVE  AnswerHonest(t)'
<1> DEFINE e == sender[t].answer.email
<1>1. /\ AnswerHonest(t) /\ S \subseteq Senders
      /\ \A s \in Senders : SenderHonest(s) /\ ClaimHeld(s)
      /\ DOMAIN queue \subseteq DOMAIN queue' /\ DOMAIN queue \subseteq Emails
  BY QueueDomain DEF DeliveryInv, SenderHonest, Frame
<1>2. CASE sender[t].answer.status \in {"SENT", "ALREADY_SENT"}
  <2>1. e \in Emails /\ inbox[e].copies = 1
    BY <1>1, <1>2 DEF AnswerHonest
  <2>2. \A s \in S : ~ Delivers(s, e)
    BY <1>1, <2>1 DEF Delivers, ClaimHeld
  <2> QED  BY <1>1, <1>2, <2>1, <2>2 DEF Frame, AnswerHonest
<1>3. CASE sender[t].answer.status = "FAILED"
  <2>1. /\ e \in DOMAIN queue /\ e \in Emails /\ inbox[e].copies = 0
        /\ \/ queue[e].status = "CANCELLED"
           \/ queue[e].status = "FAILED" /\ queue[e].mark \in Refusals
    <3>1. AnswerHonest(t)
      BY <1>1
    <3>2. e \in DOMAIN queue
      BY <1>3, <3>1 DEF AnswerHonest
    <3> QED  BY <1>1, <1>3, <3>1, <3>2 DEF AnswerHonest
  <2>2. ASSUME NEW s \in S PROVE ~ Handles(s, e) /\ ~ Delivers(s, e)
    <3>1. ClaimHeld(s) /\ s \notin Refusals
      BY <1>1, Tokens
    <3> QED  BY <2>1, <3>1 DEF Handles, Delivers, ClaimHeld, Claimed
  <2>3. inbox'[e] = inbox[e]
    BY <2>1, <2>2 DEF Frame
  <2>4. \/ queue'[e].status = "CANCELLED"
        \/ queue'[e].status = "FAILED" /\ queue'[e].mark \in Refusals
    BY <2>1, <2>2 DEF Frame, RowMoves, Approves, Cancels, Written
  <2> QED  BY <1>1, <1>3, <2>1, <2>3, <2>4 DEF AnswerHonest
<1> QED  BY <1>1, <1>2, <1>3 DEF AnswerHonest

LEMMA OthersVisitorHeld ==
  ASSUME DeliveryInv, NEW S, Frame(S), NEW t \in Senders \ S
  PROVE  VisitorHeld(t)'
<1>1. VisitorHeld(t) /\ sender'[t] = sender[t]
  BY DEF DeliveryInv, SenderHonest, Frame
<1>2. ASSUME sender[t].pc = "preparing", NEW q, q = sender[t].for
      PROVE  /\ credential'[q].state = "LIVE" /\ credential'[q].owner = None
             /\ credential'[q].to # None
             /\ \A u \in Senders : sender'[u].pc = "preparing" /\ sender'[u].for = q => u = t
  <2>1. /\ q \in Credentials /\ credential[q].state = "LIVE" /\ credential[q].owner = None
        /\ credential[q].to # None
        /\ \A u \in Senders : sender[u].pc = "preparing" /\ sender[u].for = q => u = t
    BY <1>1, <1>2 DEF VisitorHeld
  <2>2. ~ Free(LockOf(q))
    <3>1. LockOf(q) \in Locks(t)
      BY <1>2, <2>1 DEF Locks, LockOf
    <3> QED  BY <3>1 DEF Free
  <2>3. CredentialStands(q)
    BY <2>1 DEF Frame
  <2>4. ASSUME NEW u \in Senders, sender'[u].pc = "preparing", sender'[u].for = q
        PROVE  u = t
    BY <1>2, <2>1, <2>4 DEF Frame
  <2> QED  BY <2>1, <2>2, <2>3, <2>4 DEF CredentialStands
<1> QED  BY <1>1, <1>2 DEF VisitorHeld

LEMMA OthersHonest ==
  ASSUME DeliveryInv, NEW S, Frame(S), NEW t \in Senders \ S
  PROVE  SenderHonest(t)'
<1>1. sender'[t] = sender[t]
  BY DEF Frame
<1>2. WorkKnown(t)' /\ AnswerHonest(t)'
  BY <1>1, WorkStaysKnown, AnswerStaysHonest DEF Working, PastCheck
<1> QED  BY <1>2, OthersClaimHeld, OthersVisitorHeld DEF SenderHonest

-----------------------------------------------------------------------------
(* Room for the rows that visitors' requests may still make.               *)

(* While a request holds a visitor's credential nobody else makes a row    *)
(* for it or approves its draft.                                           *)
LEMMA DraftStays ==
  ASSUME DeliveryInv, NEW S, Frame(S), NEW t \in Senders \ S, RowToCome(t)'
  PROVE  RowToCome(t)
<1>1. VisitorHeld(t) /\ sender'[t] = sender[t] /\ sender[t].pc = "preparing"
  BY DEF DeliveryInv, SenderHonest, Frame, RowToCome
<1>2. PICK q \in Credentials :
        /\ q = sender[t].for /\ credential[q].state = "LIVE" /\ credential[q].owner = None
        /\ \A u \in Senders : sender[u].pc = "preparing" /\ sender[u].for = q => u = t
  BY <1>1 DEF VisitorHeld
<1>3. VisitorDraft(q)' = {}
  BY <1>1, <1>2 DEF RowToCome
<1> SUFFICES ASSUME VisitorDraft(q) # {} PROVE FALSE
  BY <1>1, <1>2 DEF RowToCome
<1>4. \A s \in S : ~ Prepares(s, q)
  BY <1>2 DEF Prepares, Frame
<1>5. EmailsOf(q)' = EmailsOf(q)
  <2>1. \A f \in DOMAIN queue : queue'[f].credential = queue[f].credential
    BY DEF Frame, RowMoves, Approves, Cancels, Handles, Written
  <2>2. \A f \in DOMAIN queue' \ DOMAIN queue : queue'[f].credential # q
    BY <1>2, <1>4 DEF Frame, RowMade
  <2>3. DOMAIN queue \subseteq DOMAIN queue'
    BY DEF Frame
  <2> QED  BY <2>1, <2>2, <2>3 DEF EmailsOf
<1>6. PICK e \in EmailsOf(q) :
        /\ e = Latest(EmailsOf(q)) /\ queue[e].status = "DRAFT" /\ queue[e].mode = "SINGLE"
  BY DEF VisitorDraft
<1>7. e \in DOMAIN queue /\ queue[e].credential = q
  BY <1>6 DEF EmailsOf
<1>8. ~ Free(LockOf(q))
  <2>1. LockOf(q) \in Locks(t)
    BY <1>1, <1>2 DEF Locks, LockOf
  <2> QED  BY <2>1 DEF Free
<1>9. \A s \in S : ~ Handles(s, e)
  <2>1. \A s \in S : ClaimHeld(s)
    BY DEF Frame, DeliveryInv, SenderHonest
  <2> QED  BY <1>6, <2>1 DEF Handles, ClaimHeld, Claimed
<1>10. queue'[e] = queue[e]
  BY <1>2, <1>4, <1>6, <1>7, <1>8, <1>9 DEF Frame, RowMoves, Approves, Cancels
<1>11. Latest(EmailsOf(q)') = e
  <2>1. EmailsOf(q) \in SUBSET (1..Len(queue)) /\ Len(queue) \in Nat
    BY QueueDomain DEF EmailsOf, DeliveryInv
  <2>2. \A f \in EmailsOf(q) : f <= e
    BY <1>6, <2>1, LatestIs
  <2>3. EmailsOf(q) \in SUBSET Nat
    BY <2>1
  <2> QED  BY <1>5, <1>6, <2>2, <2>3, LatestUnique
<1>12. e \in VisitorDraft(q)'
  BY <1>5, <1>6, <1>10, <1>11 DEF VisitorDraft
<1> QED  BY <1>3, <1>12

LEMMA RowsToCome ==
  ASSUME DeliveryInv, NEW S, Frame(S), \A s \in S : ~ RowToCome(s)'
  PROVE  LET before == Cardinality({s \in Senders : RowToCome(s)})
             after == Cardinality({s \in Senders : RowToCome(s)'})
         IN before \in Nat /\ after \in Nat /\ after <= before
<1> DEFINE B == {s \in Senders : RowToCome(s)}
           A == {s \in Senders : RowToCome(s)'}
<1>1. \A t \in Senders \ S : RowToCome(t)' => RowToCome(t)
  BY DraftStays
<1>2. A \subseteq B /\ B \subseteq Senders
  BY <1>1
<1>3. IsFiniteSet(B)
  BY <1>2, EmailAssumption, FS_Subset
<1>4. IsFiniteSet(A) /\ Cardinality(A) <= Cardinality(B)
  BY <1>2, <1>3, FS_Subset
<1> QED  BY <1>3, <1>4, FS_CardinalityType

LEMMA RoomStays ==
  ASSUME DeliveryInv, NEW S, Frame(S), \A s \in S : ~ RowToCome(s)',
         Len(queue') = Len(queue)
  PROVE  RoomKept'
<1>1. RoomKept /\ Len(queue) \in Nat /\ MaxEmails \in Nat
  BY QueueDomain, EmailAssumption DEF DeliveryInv
<1>2. /\ Cardinality({s \in Senders : RowToCome(s)}) \in Nat
      /\ Cardinality({s \in Senders : RowToCome(s)'}) \in Nat
      /\ Cardinality({s \in Senders : RowToCome(s)'})
           <= Cardinality({s \in Senders : RowToCome(s)})
  BY RowsToCome
<1> QED  BY <1>1, <1>2 DEF RoomKept

(* A row is made by others only if there is room beside all of them.       *)
LEMMA RoomForNew ==
  ASSUME DeliveryInv, Frame({}), NEW n \in Nat, Room(n), Len(queue') \in Nat,
         Len(queue') <= Len(queue) + n
  PROVE  RoomKept' /\ Len(queue') <= MaxEmails
<1> DEFINE P == {s \in Senders : sender[s].pc = "preparing"}
           B == {s \in Senders : RowToCome(s)}
<1>1. B \subseteq P /\ P \subseteq Senders
  BY DEF RowToCome
<1>2. IsFiniteSet(P)
  BY <1>1, EmailAssumption, FS_Subset
<1>3. IsFiniteSet(B) /\ Cardinality(B) <= Cardinality(P)
  BY <1>1, <1>2, FS_Subset
<1>4. Cardinality(P) \in Nat /\ Cardinality(B) \in Nat
  BY <1>2, <1>3, FS_CardinalityType
<1>5. Len(queue) + n + Cardinality(P) <= MaxEmails /\ Len(queue) \in Nat /\ MaxEmails \in Nat
  BY QueueDomain, EmailAssumption DEF Room, DeliveryInv
<1>6. /\ Cardinality({s \in Senders : RowToCome(s)'}) \in Nat
      /\ Cardinality({s \in Senders : RowToCome(s)'}) <= Cardinality(B)
  BY RowsToCome
<1> QED  BY <1>3, <1>4, <1>5, <1>6 DEF RoomKept

-----------------------------------------------------------------------------
(* What is left to show of a step.                                         *)

Safe(S) ==
  /\ Frame(S) /\ Types' /\ OwnersKnown' /\ RoomKept'
  /\ \A s \in S : SenderHonest(s)'

LEMMA SafeStep ==
  ASSUME DeliveryInv, NEW S, Safe(S)
  PROVE  DeliveryInv'
<1>1. Frame(S) /\ Types' /\ OwnersKnown' /\ RoomKept' /\ TypeOK
  BY DEF Safe, DeliveryInv
<1>2. TypeOK'
  BY <1>1, FrameAllowed
<1>3. MailboxSane' /\ \A e \in DOMAIN queue' : RowHonest(e)'
  BY <1>1, <1>2, MailboxStaysSane, RowsStayHonest
<1>4. \A s \in Senders : SenderHonest(s)'
  BY <1>1, OthersHonest DEF Safe
<1> QED  BY <1>1, <1>2, <1>3, <1>4 DEF DeliveryInv

(* The tables of owners and credentials as they were.                      *)
LEMMA OwnersStay ==
  ASSUME DeliveryInv, UNCHANGED registry
  PROVE  /\ OwnersKnown' /\ \A q \in Credentials : CredentialStands(q)
         /\ \A p \in Employees : EmployeeStands(p)
         /\ \A row \in Rows : Current(row)' = Current(row)
BY DEF DeliveryInv, registry, OwnersKnown, CredentialStands, EmployeeStands, Current

(* A step of one sender that writes rows it may write and makes none.      *)
LEMMA SenderFrame ==
  ASSUME DeliveryInv, NEW s \in Senders, UNCHANGED <<registry, clock, changes>>,
         faults' \in 0..MaxFaults,
         sender' \in [Senders -> SenderStates],
         \A t \in Senders \ {s} : sender'[t] = sender[t],
         sender'[s].pc # "preparing",
         queue' \in Seq(Rows), Len(queue') = Len(queue),
         \A e \in DOMAIN queue : RowMoves({s}, e),
         inbox' \in [Emails -> [copies : Nat, at : Times, by : Senders \cup {None}]],
         \A e \in Emails : inbox'[e] = inbox[e] \/ Delivers(s, e)
  PROVE  Frame({s}) /\ (SenderHonest(s)' => Safe({s}))
<1>1. /\ OwnersKnown' /\ \A q \in Credentials : CredentialStands(q)
      /\ \A p \in Employees : EmployeeStands(p)
      /\ \A row \in Rows : Current(row)' = Current(row)
  BY OwnersStay
<1>2. /\ DOMAIN queue' = DOMAIN queue /\ clock \in Int /\ \A e \in DOMAIN queue : queue[e] \in Rows
  BY QueueDomain, EmailAssumption DEF DeliveryInv, TypeOK, Times
<1>3. Types'
  BY DEF Types, DeliveryInv, TypeOK, registry
<1>4. ASSUME NEW e \in DOMAIN queue, queue'[e].status \in Waiting
      PROVE  Current(queue[e])'
  <2>1. queue[e].status \in Waiting
    BY <1>4 DEF RowMoves, Approves, Cancels, Handles, Written, Waiting
  <2>2. Current(queue[e])
    BY <2>1 DEF DeliveryInv, RowHonest
  <2>3. queue'[e].credential = queue[e].credential /\ queue'[e].to = queue[e].to
    BY DEF RowMoves, Approves, Cancels, Handles, Written
  <2> QED  BY <2>2, <2>3 DEF Current, registry
<1>5. Frame({s})
  <2>1. clock <= clock' /\ \A t \in Senders \ {s} : sender'[t] = sender[t]
    BY <1>2
  <2>2. \A u \in {s}, t \in Senders \ {s} :
          sender'[u].pc = "preparing" /\ sender[t].pc = "preparing"
            => sender'[u].for # sender[t].for
    OBVIOUS
  <2>3. \A e \in Emails : inbox'[e] = inbox[e] \/ \E u \in {s} : Delivers(u, e)
    OBVIOUS
  <2>4. \A e \in DOMAIN queue' : queue'[e].status \in Waiting => Current(queue[e])'
    BY <1>2, <1>4
  <2> QED  BY <1>1, <1>2, <2>1, <2>2, <2>3, <2>4 DEF Frame
<1>6. ~ RowToCome(s)'
  BY DEF RowToCome
<1>7. RoomKept'
  BY <1>5, <1>6, RoomStays
<1> QED  BY <1>1, <1>3, <1>5, <1>7 DEF Safe

(* What a sender is put into.                                              *)
LEMMA IdleState ==
  /\ Idle \in SenderStates
  /\ Idle.pc = "idle" /\ Idle.email = 0 /\ Idle.batch = {} /\ Idle.for = None
  /\ Idle.saw = TRUE /\ Idle.fate = "NONE" /\ Idle.answer = NoAnswer
BY EmailAssumption DEF Idle, SenderStates, NoAnswer

Answers == [email : 0..MaxEmails,
            status : Statuses \cup {"NONE", "ALREADY_SENT", "NEEDS_REVIEW", "REFUSED"}]

(* A sender begins to work on some rows.                                   *)
LEMMA StartHonest ==
  ASSUME TypeOK, NEW s \in Senders, NEW es, es \subseteq DOMAIN queue', es # {},
         queue' \in Seq(Rows), Len(queue') <= MaxEmails, Start(s, es),
         s \in Dispatchers => \A e \in es : queue'[e].mode = "BULK"
  PROVE  /\ sender' \in [Senders -> SenderStates]
         /\ \A t \in Senders \ {s} : sender'[t] = sender[t]
         /\ sender'[s].pc = "check" /\ SenderHonest(s)'
<1>1. es \in SUBSET Emails /\ es \in SUBSET Nat
  BY EmailAssumption DEF Emails
<1>2. Oldest(es) \in es /\ Oldest(es) \in 0..MaxEmails /\ es \ {Oldest(es)} \in SUBSET Emails
  BY <1>1, OldestIs, EmailAssumption DEF Emails
<1> DEFINE new == [Idle EXCEPT !.pc = "check", !.email = Oldest(es),
                               !.batch = es \ {Oldest(es)}]
<1>3. sender' = [sender EXCEPT ![s] = new]
  BY Zenon DEF Start
<1>4. /\ new \in SenderStates /\ new.pc = "check" /\ new.email = Oldest(es)
      /\ new.batch = es \ {Oldest(es)} /\ new.answer = NoAnswer
  BY <1>2, IdleState DEF SenderStates
<1> HIDE DEF new
<1>5. /\ sender' \in [Senders -> SenderStates] /\ sender'[s] = new
      /\ \A t \in Senders \ {s} : sender'[t] = sender[t]
  BY <1>3, <1>4 DEF TypeOK
<1>6. WorkKnown(s)'
  BY <1>2, <1>4, <1>5 DEF WorkKnown, Working
<1>7. ClaimHeld(s)' /\ AnswerHonest(s)' /\ VisitorHeld(s)'
  BY <1>4, <1>5 DEF ClaimHeld, AnswerHonest, VisitorHeld, NoAnswer
<1> QED  BY <1>4, <1>5, <1>6, <1>7 DEF SenderHonest

(* A sender is done with an email, and goes on to the next or stops.       *)
LEMMA DoneHonest ==
  ASSUME DeliveryInv, NEW s \in Senders, Working(s), NEW status, NEW mark,
         Done(s, status, mark),
         status \in Statuses \cup {"NONE", "ALREADY_SENT", "NEEDS_REVIEW", "REFUSED"},
         DOMAIN queue \subseteq DOMAIN queue',
         \A e \in DOMAIN queue : queue'[e].mode = queue[e].mode,
         status \in {"SENT", "ALREADY_SENT"} => inbox'[sender[s].email].copies = 1,
         status = "FAILED" =>
           /\ inbox'[sender[s].email].copies = 0
           /\ queue'[sender[s].email].status = "FAILED"
           /\ queue'[sender[s].email].mark \in Refusals
  PROVE  /\ sender' \in [Senders -> SenderStates]
         /\ \A t \in Senders \ {s} : sender'[t] = sender[t]
         /\ sender'[s].pc \in {"idle", "halted", "check"} /\ SenderHonest(s)'
<1> DEFINE rest == sender[s].batch
           answer == [email |-> sender[s].email, status |-> status]
<1>1. /\ WorkKnown(s) /\ TypeOK /\ DOMAIN queue \subseteq Emails
      /\ sender \in [Senders -> SenderStates] /\ sender[s] \in SenderStates
  BY QueueDomain DEF DeliveryInv, SenderHonest, TypeOK
<1>2. rest \subseteq DOMAIN queue /\ sender[s].email \in DOMAIN queue /\ rest \in SUBSET Nat
  BY <1>1, EmailAssumption DEF WorkKnown, Emails
<1>3. answer \in Answers
  BY <1>1 DEF SenderStates, Answers
<1>4. rest # {} => /\ Oldest(rest) \in rest /\ Oldest(rest) \in 0..MaxEmails
                   /\ rest \ {Oldest(rest)} \in SUBSET Emails
  BY <1>1, <1>2, OldestIs, EmailAssumption DEF Emails
<1> DEFINE halted == [Idle EXCEPT !.pc = "halted", !.answer = answer]
           idle == [Idle EXCEPT !.answer = answer]
           next == [Idle EXCEPT !.pc = "check", !.email = Oldest(rest),
                                !.batch = rest \ {Oldest(rest)}, !.answer = answer]
<1>5. PICK new : /\ sender' = [sender EXCEPT ![s] = new]
                 /\ new = halted \/ new = idle \/ (rest # {} /\ new = next)
  <2>1. CASE s \in Dispatchers /\ mark = "GLOBAL"
    BY <2>1, Zenon DEF Done
  <2>2. CASE ~ (s \in Dispatchers /\ mark = "GLOBAL") /\ (rest = {} \/ GivesUp(s, status, mark))
    BY <2>2, Zenon DEF Done
  <2>3. CASE ~ (s \in Dispatchers /\ mark = "GLOBAL") /\ ~ (rest = {} \/ GivesUp(s, status, mark))
    BY <2>3, Zenon DEF Done
  <2> QED  BY <2>1, <2>2, <2>3
<1> HIDE DEF answer
<1>a. /\ halted \in SenderStates /\ halted.pc = "halted" /\ halted.batch = {}
      /\ halted.answer = answer
  BY <1>3, IdleState DEF SenderStates, Answers
<1>b. idle \in SenderStates /\ idle.pc = "idle" /\ idle.batch = {} /\ idle.answer = answer
  BY <1>3, IdleState DEF SenderStates, Answers
<1>c. rest # {} => /\ next \in SenderStates /\ next.pc = "check" /\ next.email = Oldest(rest)
                   /\ next.batch = rest \ {Oldest(rest)} /\ next.answer = answer
  BY <1>3, <1>4, IdleState DEF SenderStates, Answers
<1> HIDE DEF halted, idle, next
<1>6. /\ new \in SenderStates /\ new.answer = answer /\ new.pc \in {"idle", "halted", "check"}
      /\ \/ new.pc \in {"idle", "halted"} /\ new.batch = {}
         \/ /\ rest # {} /\ new.pc = "check" /\ new.email = Oldest(rest)
            /\ new.batch = rest \ {Oldest(rest)}
  BY <1>5, <1>a, <1>b, <1>c
<1>7. /\ sender' \in [Senders -> SenderStates] /\ sender'[s] = new
      /\ \A t \in Senders \ {s} : sender'[t] = sender[t]
  BY <1>1, <1>5, <1>6
<1>8. WorkKnown(s)'
  BY <1>1, <1>2, <1>4, <1>6, <1>7 DEF WorkKnown, Working, PastCheck
<1>9. ClaimHeld(s)' /\ VisitorHeld(s)'
  BY <1>6, <1>7 DEF ClaimHeld, VisitorHeld
<1>10. AnswerHonest(s)'
  BY <1>1, <1>2, <1>6, <1>7 DEF AnswerHonest, answer
<1> QED  BY <1>6, <1>7, <1>8, <1>9, <1>10 DEF SenderHonest

(* A sender goes on with the email it works on.                            *)
LEMMA GoesOnHonest ==
  ASSUME DeliveryInv, NEW s \in Senders, Frame({s}), Working(s), PastCheck(s)',
         sender'[s].email = sender[s].email, sender'[s].batch = sender[s].batch,
         sender'[s].answer = sender[s].answer, ClaimHeld(s)'
  PROVE  SenderHonest(s)'
<1>1. WorkKnown(s)' /\ AnswerHonest(s)'
  BY WorkStaysKnown, AnswerStaysHonest
<1>2. VisitorHeld(s)'
  BY DEF VisitorHeld, PastCheck
<1> QED  BY <1>1, <1>2 DEF SenderHonest

LEMMA SetStatusRow ==
  ASSUME TypeOK, NEW e \in DOMAIN queue, NEW status \in Statuses, NEW mark \in Marks,
         SetStatus(e, status, mark)
  PROVE  /\ queue' \in Seq(Rows) /\ Len(queue') = Len(queue) /\ DOMAIN queue' = DOMAIN queue
         /\ Written(e, status, mark) /\ queue'[e].approved = queue[e].approved
         /\ \A f \in DOMAIN queue : f # e => queue'[f] = queue[f]
         /\ \A f \in DOMAIN queue : queue'[f].mode = queue[f].mode
<1>1. queue[e] \in Rows /\ queue \in Seq(Rows) /\ clock \in Times
  BY QueueDomain DEF TypeOK
<1> DEFINE new == [queue[e] EXCEPT !.status = status, !.mark = mark, !.at = clock]
<1>2. new \in Rows /\ new.credential = queue[e].credential /\ new.to = queue[e].to
      /\ new.mode = queue[e].mode /\ new.approved = queue[e].approved
      /\ new.status = status /\ new.mark = mark /\ new.at = clock
  BY <1>1 DEF Rows
<1>3. queue' = [queue EXCEPT ![e] = new]
  BY <1>1 DEF SetStatus
<1> HIDE DEF new
<1>4. queue' \in Seq(Rows) /\ Len(queue') = Len(queue) /\ DOMAIN queue' = DOMAIN queue
  BY <1>1, <1>2, <1>3
<1>5. queue'[e] = new /\ \A f \in DOMAIN queue : f # e => queue'[f] = queue[f]
  BY <1>1, <1>3
<1> QED  BY <1>2, <1>4, <1>5 DEF Written

-----------------------------------------------------------------------------
(* The steps of a sender                                                   *)

(* What is so of a sender at its work.                                     *)
LEMMA AtWork ==
  ASSUME DeliveryInv, NEW s \in Senders, Working(s)
  PROVE  LET e == sender[s].email
         IN /\ e \in DOMAIN queue /\ e \in Emails /\ queue[e] \in Rows
            /\ queue[e].credential \in Credentials
            /\ RowHonest(e) /\ RowAllowed(queue[e]) /\ ClaimHeld(s)
            /\ sender[s] \in SenderStates /\ TypeOK
BY QueueDomain DEF DeliveryInv, SenderHonest, WorkKnown, TypeOK

(* A step that only moves the sender, and keeps its email.                 *)
LEMMA OnlyMoves ==
  ASSUME DeliveryInv, NEW s \in Senders, Working(s),
         UNCHANGED <<registry, queue, inbox, counters>>, NEW new \in SenderStates,
         sender' = [sender EXCEPT ![s] = new],
         new.email = sender[s].email, new.batch = sender[s].batch,
         new.answer = sender[s].answer,
         new.pc \in {"look", "claim", "lookAgain", "deliver", "provider", "record"},
         new.pc \in {"lookAgain", "deliver"} =>
           sender[s].pc \in {"lookAgain", "deliver"},
         new.pc # "record",
         new.pc = "provider" => /\ Claimed(s) /\ sender[s].pc = "deliver"
                                /\ Current(queue[sender[s].email])
  PROVE  Safe({s})
<1> DEFINE e == sender[s].email
<1>1. /\ TypeOK /\ sender' \in [Senders -> SenderStates] /\ sender'[s] = new
      /\ \A t \in Senders \ {s} : sender'[t] = sender[t]
  BY DEF DeliveryInv, TypeOK
<1>2. Frame({s}) /\ (SenderHonest(s)' => Safe({s}))
  BY <1>1, SenderFrame DEF TypeOK, counters, RowMoves
<1>3. ClaimHeld(s)
  BY DEF DeliveryInv, SenderHonest
<1>4. sender'[s].email = e /\ queue' = queue /\ inbox' = inbox
  BY <1>1
<1>5. Claimed(s)' = Claimed(s)
  BY <1>4 DEF Claimed
<1>6. new.pc = "provider" => Current(queue[e])' = Current(queue[e])
  BY <1>4 DEF Current, registry
<1>7. ClaimHeld(s)'
  <2>1. CASE new.pc \in {"lookAgain", "deliver"}
    BY <1>1, <1>3, <1>4, <1>5, <2>1 DEF ClaimHeld
  <2>2. CASE new.pc = "provider"
    BY <1>1, <1>3, <1>4, <1>5, <1>6, <2>2 DEF ClaimHeld
  <2>3. CASE new.pc \in {"look", "claim"}
    BY <1>1, <2>3 DEF ClaimHeld
  <2> QED  BY <2>1, <2>2, <2>3
<1>8. PastCheck(s)'
  BY <1>1 DEF PastCheck
<1>9. SenderHonest(s)'
  BY <1>1, <1>2, <1>7, <1>8, GoesOnHonest
<1> QED  BY <1>2, <1>9

(* A step that only starts or ends an email.                               *)
LEMMA OnlyStarts ==
  ASSUME DeliveryInv, NEW s \in Senders, NEW es, es \subseteq DOMAIN queue, es # {},
         Start(s, es), UNCHANGED <<registry, queue, inbox, counters>>,
         s \in Dispatchers => \A e \in es : queue[e].mode = "BULK"
  PROVE  Safe({s})
<1>1. TypeOK
  BY DEF DeliveryInv
<1>2. /\ sender' \in [Senders -> SenderStates] /\ sender'[s].pc = "check"
      /\ \A t \in Senders \ {s} : sender'[t] = sender[t]
      /\ SenderHonest(s)'
  BY <1>1, StartHonest DEF TypeOK
<1> QED  BY <1>1, <1>2, SenderFrame DEF TypeOK, counters, RowMoves

LEMMA OnlyEnds ==
  ASSUME DeliveryInv, NEW s \in Senders, Working(s), NEW status, NEW mark,
         status \in Statuses \cup {"NONE", "ALREADY_SENT", "NEEDS_REVIEW", "REFUSED"},
         Done(s, status, mark), UNCHANGED <<registry, queue, inbox, clock, changes>>,
         faults' \in 0..MaxFaults,
         status \in {"SENT", "ALREADY_SENT"} => queue[sender[s].email].status = "SENT",
         status = "FAILED" => /\ queue[sender[s].email].status = "FAILED"
                              /\ queue[sender[s].email].mark \in Refusals
  PROVE  Safe({s})
<1>1. TypeOK /\ RowHonest(sender[s].email)
  BY AtWork DEF DeliveryInv
<1>2. /\ sender' \in [Senders -> SenderStates]
      /\ \A t \in Senders \ {s} : sender'[t] = sender[t]
      /\ sender'[s].pc \in {"idle", "halted", "check"} /\ SenderHonest(s)'
  <2>1. status \in {"SENT", "ALREADY_SENT"} => inbox'[sender[s].email].copies = 1
    BY <1>1 DEF RowHonest
  <2>2. status = "FAILED" => /\ inbox'[sender[s].email].copies = 0
                             /\ queue'[sender[s].email].status = "FAILED"
                             /\ queue'[sender[s].email].mark \in Refusals
    BY <1>1 DEF RowHonest
  <2> QED  BY <2>1, <2>2, DoneHonest
<1> QED  BY <1>1, <1>2, SenderFrame DEF TypeOK, RowMoves

LEMMA PollSafe ==
  ASSUME DeliveryInv, NEW d \in Dispatchers, Poll(d)
  PROVE  Safe({d})
<1> DEFINE first == {e \in Ready : Cardinality({f \in Ready : f < e}) < BatchSize}
<1>1. Ready \in SUBSET Nat /\ Ready # {} /\ Ready \subseteq DOMAIN queue
  BY QueueDomain DEF Poll, Ready, DeliveryInv
<1>2. Oldest(Ready) \in Ready /\ {f \in Ready : f < Oldest(Ready)} = {}
  <2>1. Oldest(Ready) \in Ready /\ \A f \in Ready : Oldest(Ready) <= f
    BY <1>1, OldestIs
  <2>2. ASSUME NEW f \in Ready PROVE ~ (f < Oldest(Ready))
    <3>1. f \in Nat /\ Oldest(Ready) \in Nat /\ Oldest(Ready) <= f
      BY <1>1, <2>1
    <3> QED  BY <3>1
  <2> QED  BY <2>1, <2>2
<1>3. Oldest(Ready) \in first
  BY <1>2, FS_EmptySet, EmailAssumption
<1>4. first \subseteq DOMAIN queue /\ \A e \in first : queue[e].mode = "BULK"
  BY <1>1 DEF Ready
<1>5. d \in Senders
  BY DEF Senders, Limited
<1>6. Start(d, first) /\ UNCHANGED <<registry, queue, inbox, counters>>
  BY DEF Poll
<1> QED  BY <1>3, <1>4, <1>5, <1>6, OnlyStarts

LEMMA CheckLimitSafe ==
  ASSUME DeliveryInv, NEW s \in Senders, CheckLimit(s)
  PROVE  Safe({s})
<1>1. Working(s) /\ sender[s] \in SenderStates /\ UNCHANGED <<registry, queue, inbox, counters>>
  BY DEF CheckLimit, Working, DeliveryInv, TypeOK
<1>2. CASE LimitReached(s)
  BY <1>1, <1>2, OnlyEnds DEF CheckLimit, counters, Statuses, Waiting, DeliveryInv, TypeOK
<1>3. CASE ~ LimitReached(s)
  <2> DEFINE new == [sender[s] EXCEPT !.pc = "look"]
  <2>1. sender' = [sender EXCEPT ![s] = new]
    BY <1>1, <1>3 DEF CheckLimit
  <2>2. /\ new \in SenderStates /\ new.pc = "look" /\ new.email = sender[s].email
        /\ new.batch = sender[s].batch /\ new.answer = sender[s].answer
    BY <1>1 DEF SenderStates
  <2> HIDE DEF new
  <2> QED  BY <1>1, <2>1, <2>2, OnlyMoves
<1> QED  BY <1>2, <1>3

LEMMA LookSafe ==
  ASSUME DeliveryInv, NEW s \in Senders, Look(s)
  PROVE  Safe({s})
<1>1. /\ Working(s) /\ sender[s] \in SenderStates /\ UNCHANGED <<registry, queue, inbox, counters>>
      /\ sender[s].pc \in {"look", "lookAgain"}
  BY DEF Look, Working, PastCheck, DeliveryInv, TypeOK
<1> DEFINE pc == IF sender[s].pc = "look" THEN "claim" ELSE "deliver"
           saw == ~ credential[queue[sender[s].email].credential].usedUp
           new == [sender[s] EXCEPT !.pc = pc, !.saw = saw]
<1>2. sender' = [sender EXCEPT ![s] = new]
  BY <1>1 DEF Look
<1>3. pc \in {"claim", "deliver"} /\ saw \in BOOLEAN /\ (pc = "deliver" => sender[s].pc = "lookAgain")
  BY <1>1
<1> HIDE DEF pc, saw
<1>4. /\ new \in SenderStates /\ new.pc = pc /\ new.email = sender[s].email
      /\ new.batch = sender[s].batch /\ new.answer = sender[s].answer
  BY <1>1, <1>3 DEF SenderStates
<1> HIDE DEF new
<1> QED  BY <1>1, <1>2, <1>3, <1>4, OnlyMoves

(* What _existing answers is what the row says.                            *)
LEMMA ExistingAnswers ==
  ASSUME NEW row \in Rows
  PROVE  /\ Existing(row) \in Statuses \cup {"NONE", "ALREADY_SENT", "NEEDS_REVIEW", "REFUSED"}
         /\ Existing(row) # "SENT"
         /\ Existing(row) = "ALREADY_SENT" => row.status = "SENT"
         /\ Existing(row) = "FAILED" =>
              row.status = "FAILED" /\ row.mark \notin Senders \cup {"REVIEW"}
<1>1. CASE row.status = "SENT"
  BY <1>1 DEF Existing, NeedsReview, Statuses, Waiting
<1>2. CASE row.status = "CANCELLED"
  BY <1>2 DEF Existing, NeedsReview, Statuses, Waiting
<1>3. CASE row.status = "FAILED" /\ NeedsReview(row)
  BY <1>3 DEF Existing, Statuses, Waiting
<1>4. CASE row.status = "FAILED" /\ ~ NeedsReview(row)
  <2>1. Existing(row) = "FAILED"
    BY <1>4 DEF Existing
  <2> QED  BY <1>4, <2>1 DEF NeedsReview, Statuses, Waiting
<1>5. CASE row.status \notin {"SENT", "CANCELLED", "FAILED"}
  <2>1. ~ NeedsReview(row)
    BY <1>5 DEF NeedsReview
  <2>2. Existing(row) = "REFUSED"
    BY <1>5, <2>1 DEF Existing
  <2> QED  BY <2>2 DEF Statuses, Waiting
<1> QED  BY <1>1, <1>2, <1>3, <1>4, <1>5

(* A row that is not what the sender hoped for is answered and left.       *)
LEMMA ExistingSafe ==
  ASSUME DeliveryInv, NEW s \in Senders, Working(s), NEW row, row = queue[sender[s].email],
         NEW mark, Done(s, Existing(row), mark), UNCHANGED <<registry, queue, inbox, counters>>
  PROVE  Safe({s})
<1>1. row \in Rows /\ RowHonest(sender[s].email) /\ TypeOK
  BY AtWork
<1>2. /\ Existing(row) \in Statuses \cup {"NONE", "ALREADY_SENT", "NEEDS_REVIEW", "REFUSED"}
      /\ Existing(row) \in {"SENT", "ALREADY_SENT"} => row.status = "SENT"
      /\ Existing(row) = "FAILED" => row.status = "FAILED" /\ row.mark \in Refusals
  BY <1>1, ExistingAnswers DEF RowHonest
<1>3. faults' \in 0..MaxFaults /\ UNCHANGED <<registry, queue, inbox, clock, changes>>
  BY <1>1 DEF counters, TypeOK
<1> QED  BY <1>2, <1>3, OnlyEnds

(* A step that writes the status of the sender's row and ends the email.   *)
LEMMA WritesAndEnds ==
  ASSUME DeliveryInv, NEW s \in Senders, Working(s),
         NEW status \in Statuses, NEW mark \in Marks, SetStatus(sender[s].email, status, mark),
         Written(sender[s].email, status, mark)
           /\ queue'[sender[s].email].approved = queue[sender[s].email].approved
           => Handles(s, sender[s].email),
         NEW answer, NEW why, Done(s, answer, why),
         answer \in Statuses \cup {"NONE", "ALREADY_SENT", "NEEDS_REVIEW", "REFUSED"},
         answer # "ALREADY_SENT",
         answer = "SENT" => inbox[sender[s].email].copies = 1,
         answer = "FAILED" => /\ inbox[sender[s].email].copies = 0
                              /\ status = "FAILED" /\ mark \in Refusals,
         UNCHANGED <<registry, inbox, clock, changes>>, faults' \in 0..MaxFaults
  PROVE  Safe({s})
<1> DEFINE e == sender[s].email
<1>1. e \in DOMAIN queue /\ TypeOK
  BY AtWork
<1>2. /\ queue' \in Seq(Rows) /\ Len(queue') = Len(queue) /\ DOMAIN queue' = DOMAIN queue
      /\ Written(e, status, mark) /\ queue'[e].approved = queue[e].approved
      /\ \A f \in DOMAIN queue : f # e => queue'[f] = queue[f]
      /\ \A f \in DOMAIN queue : queue'[f].mode = queue[f].mode
  BY <1>1, SetStatusRow
<1>3. \A f \in DOMAIN queue : RowMoves({s}, f)
  BY <1>2 DEF RowMoves
<1>4. answer = "FAILED" => /\ inbox'[e].copies = 0 /\ queue'[e].status = "FAILED"
                           /\ queue'[e].mark \in Refusals
  BY <1>2 DEF Written
<1>5. answer \in {"SENT", "ALREADY_SENT"} => inbox'[e].copies = 1
  OBVIOUS
<1>6. /\ sender' \in [Senders -> SenderStates]
      /\ \A t \in Senders \ {s} : sender'[t] = sender[t]
      /\ sender'[s].pc \in {"idle", "halted", "check"} /\ SenderHonest(s)'
  BY <1>2, <1>4, <1>5, DoneHonest
<1> QED  BY <1>1, <1>2, <1>3, <1>6, SenderFrame DEF TypeOK

LEMMA MarksKnown ==
  /\ Senders \subseteq Marks /\ Refusals \subseteq Marks
  /\ {"NONE", "REVIEW", "UNDELIVERABLE"} \subseteq Marks
  /\ {"SENT", "FAILED", "CANCELLED", "QUEUED"} \subseteq Statuses
BY DEF Marks, Statuses, Waiting

(* The claim: the row is there for this sender alone from now on.          *)
LEMMA ClaimsSafe ==
  ASSUME DeliveryInv, NEW s \in Senders, sender[s].pc = "claim",
         Claimable(queue[sender[s].email]), Valid(s), Claims(s),
         UNCHANGED <<registry, inbox, clock, changes>>, faults' \in 0..MaxFaults,
         sender' \in [Senders -> SenderStates],
         \A t \in Senders \ {s} : sender'[t] = sender[t],
         sender'[s].pc # "preparing"
  PROVE  /\ Frame({s}) /\ (SenderHonest(s)' => Safe({s}))
         /\ DOMAIN queue' = DOMAIN queue
         /\ \A f \in DOMAIN queue : queue'[f].mode = queue[f].mode
<1> DEFINE e == sender[s].email
<1>0. Working(s)
  BY DEF Working, PastCheck
<1>1. e \in DOMAIN queue /\ TypeOK /\ RowHonest(e)
  BY <1>0, AtWork
<1>2. SetStatus(e, "FAILED", s) /\ "FAILED" \in Statuses /\ s \in Marks
  BY MarksKnown DEF Claims
<1>3. /\ queue' \in Seq(Rows) /\ Len(queue') = Len(queue) /\ DOMAIN queue' = DOMAIN queue
      /\ Written(e, "FAILED", s) /\ queue'[e].approved = queue[e].approved
      /\ \A f \in DOMAIN queue : f # e => queue'[f] = queue[f]
      /\ \A f \in DOMAIN queue : queue'[f].mode = queue[f].mode
  BY <1>1, <1>2, SetStatusRow
<1>4. Handles(s, e)
  BY <1>3 DEF Handles, Claimable
<1>5. \A f \in DOMAIN queue : RowMoves({s}, f)
  BY <1>3, <1>4 DEF RowMoves
<1>6. inbox[e].copies = 0
  BY <1>1 DEF RowHonest, Claimable, Waiting
<1> QED  BY <1>1, <1>3, <1>5, <1>6, SenderFrame DEF TypeOK

LEMMA ClaimSafe ==
  ASSUME DeliveryInv, NEW s \in Senders, Claim(s)
  PROVE  Safe({s})
<1> DEFINE e == sender[s].email
           row == queue[e]
<1>1. /\ Working(s) /\ sender[s].pc = "claim" /\ sender[s] \in SenderStates
      /\ e \in DOMAIN queue /\ TypeOK /\ RowHonest(e)
      /\ UNCHANGED <<registry, inbox, clock, changes>> /\ faults' \in 0..MaxFaults
  <2>1. Working(s) /\ sender[s].pc = "claim" /\ UNCHANGED <<registry, inbox, counters>>
    BY DEF Claim, Working, PastCheck
  <2> QED  BY <2>1, AtWork DEF counters, TypeOK
<1>2. CASE ~ Claimable(row)
  BY <1>1, <1>2, ExistingSafe DEF Claim
<1>3. CASE Claimable(row) /\ Valid(s)
  <2> DEFINE new == [sender[s] EXCEPT !.pc = "lookAgain"]
  <2>1. Claims(s) /\ sender' = [sender EXCEPT ![s] = new]
    BY <1>1, <1>3 DEF Claim
  <2>2. /\ new \in SenderStates /\ new.pc = "lookAgain" /\ new.email = e
        /\ new.batch = sender[s].batch /\ new.answer = sender[s].answer
    BY <1>1 DEF SenderStates
  <2> HIDE DEF new
  <2>3. /\ sender' \in [Senders -> SenderStates] /\ sender'[s] = new
        /\ \A t \in Senders \ {s} : sender'[t] = sender[t]
    BY <1>1, <2>1, <2>2 DEF TypeOK
  <2>4. Frame({s}) /\ (SenderHonest(s)' => Safe({s}))
    BY <1>1, <1>3, <2>1, <2>2, <2>3, ClaimsSafe
  <2>5. inbox[e].copies = 0
    BY <1>1, <1>3 DEF RowHonest, Claimable, Waiting
  <2>6. ClaimHeld(s)'
    BY <1>1, <2>2, <2>3, <2>5 DEF ClaimHeld
  <2>7. PastCheck(s)'
    BY <2>2, <2>3 DEF PastCheck
  <2> QED  BY <1>1, <2>2, <2>3, <2>4, <2>6, <2>7, GoesOnHonest
<1>4. CASE Claimable(row) /\ ~ Valid(s)
  <2>1. SetStatus(e, "CANCELLED", "UNDELIVERABLE") /\ Done(s, "CANCELLED", "UNDELIVERABLE")
    BY <1>4 DEF Claim, Claims
  <2>2. Written(e, "CANCELLED", "UNDELIVERABLE") /\ queue'[e].approved = queue[e].approved
          => Handles(s, e)
    BY <1>1, <1>4 DEF Handles, Claimable
  <2> QED  BY <1>1, <2>1, <2>2, MarksKnown, WritesAndEnds
<1> QED  BY <1>2, <1>3, <1>4

LEMMA DeliverSafe ==
  ASSUME DeliveryInv, NEW s \in Senders, Deliver(s)
  PROVE  Safe({s})
<1> DEFINE e == sender[s].email
           row == queue[e]
<1>1. /\ Working(s) /\ sender[s].pc = "deliver" /\ sender[s] \in SenderStates
      /\ e \in DOMAIN queue /\ TypeOK /\ RowHonest(e)
      /\ UNCHANGED <<registry, inbox, counters>>
      /\ UNCHANGED <<clock, changes>> /\ faults' \in 0..MaxFaults
  <2>1. Working(s) /\ sender[s].pc = "deliver" /\ UNCHANGED <<registry, inbox, counters>>
    BY DEF Deliver, Working, PastCheck
  <2> QED  BY <2>1, AtWork DEF counters, TypeOK
<1>2. CASE ~ Claimed(s)
  BY <1>1, <1>2, ExistingSafe DEF Deliver, Claimed
<1>3. CASE Claimed(s) /\ Valid(s)
  <2> DEFINE new == [sender[s] EXCEPT !.pc = "provider"]
  <2>1. sender' = [sender EXCEPT ![s] = new] /\ UNCHANGED queue
    BY <1>1, <1>3 DEF Deliver, Claimed
  <2>2. /\ new \in SenderStates /\ new.pc = "provider" /\ new.email = e
        /\ new.batch = sender[s].batch /\ new.answer = sender[s].answer
    BY <1>1 DEF SenderStates
  <2> HIDE DEF new
  <2>3. Current(row)
    BY <1>3 DEF Valid, Deliverable, Current
  <2> QED  BY <1>1, <1>3, <2>1, <2>2, <2>3, OnlyMoves
<1>4. CASE Claimed(s) /\ ~ Valid(s)
  <2>1. SetStatus(e, "CANCELLED", "UNDELIVERABLE") /\ Done(s, "CANCELLED", "UNDELIVERABLE")
    BY <1>4 DEF Deliver, Claimed
  <2>2. Written(e, "CANCELLED", "UNDELIVERABLE") /\ queue'[e].approved = queue[e].approved
          => Handles(s, e)
    BY <1>1, <1>4 DEF Handles
  <2> QED  BY <1>1, <2>1, <2>2, MarksKnown, WritesAndEnds
<1> QED  BY <1>2, <1>3, <1>4

LEMMA ProviderSafe ==
  ASSUME DeliveryInv, NEW s \in Senders, Provider(s)
  PROVE  Safe({s})
<1> DEFINE e == sender[s].email
<1>1. /\ Working(s) /\ sender[s].pc = "provider" /\ sender[s] \in SenderStates
      /\ e \in DOMAIN queue /\ e \in Emails /\ TypeOK /\ ClaimHeld(s)
      /\ UNCHANGED <<registry, queue, counters>>
      /\ UNCHANGED <<clock, changes>> /\ faults' \in 0..MaxFaults
  <2>1. Working(s) /\ sender[s].pc = "provider" /\ UNCHANGED <<registry, queue, counters>>
    BY DEF Provider, Working, PastCheck
  <2> QED  BY <2>1, AtWork DEF counters, TypeOK
<1>2. PICK fate \in {"ACCEPTED", "REVIEW"} \cup Refusals :
        /\ \/ fate \in {"ACCEPTED", "REVIEW"} /\ Accept(s)
           \/ fate # "ACCEPTED" /\ UNCHANGED inbox
        /\ sender' = [sender EXCEPT ![s].pc = "record", ![s].fate = fate]
  BY DEF Provider
<1> DEFINE new == [sender[s] EXCEPT !.pc = "record", !.fate = fate]
<1>3. sender' = [sender EXCEPT ![s] = new]
  BY <1>1, <1>2 DEF TypeOK
<1>4. /\ new \in SenderStates /\ new.pc = "record" /\ new.email = e /\ new.fate = fate
      /\ new.batch = sender[s].batch /\ new.answer = sender[s].answer
  BY <1>1, <1>2 DEF SenderStates
<1> HIDE DEF new
<1>5. /\ sender' \in [Senders -> SenderStates] /\ sender'[s] = new
      /\ \A t \in Senders \ {s} : sender'[t] = sender[t]
  BY <1>1, <1>3, <1>4 DEF TypeOK
<1>6. Claimed(s) /\ inbox[e].copies = 0
  BY <1>1 DEF ClaimHeld
<1> DEFINE letter == [inbox[e] EXCEPT !.copies = @ + 1, !.at = clock, !.by = s]
<1>7. Accept(s) => inbox' = [inbox EXCEPT ![e] = [copies |-> inbox[e].copies + 1,
                                                    at |-> clock, by |-> s]]
  BY <1>1 DEF Accept, TypeOK
<1>8. inbox \in [Emails -> [copies : Nat, at : Times, by : Senders \cup {None}]] /\ clock \in Times
  BY <1>1 DEF TypeOK
<1>9. /\ inbox' \in [Emails -> [copies : Nat, at : Times, by : Senders \cup {None}]]
      /\ \A f \in Emails : inbox'[f] = inbox[f] \/ Delivers(s, f)
      /\ Accept(s) => inbox'[e].copies = 1 /\ inbox'[e].by = s
  <2>1. CASE Accept(s)
    <3> DEFINE taken == [copies |-> inbox[e].copies + 1, at |-> clock, by |-> s]
    <3>1. /\ taken \in [copies : Nat, at : Times, by : Senders \cup {None}]
          /\ taken.copies = 1 /\ taken.by = s
      BY <1>6, <1>8
    <3>2. inbox' = [inbox EXCEPT ![e] = taken]
      BY <1>7, <2>1
    <3>3. inbox'[e] = taken /\ \A f \in Emails : f # e => inbox'[f] = inbox[f]
      BY <1>1, <1>8, <3>2
    <3>4. inbox' \in [Emails -> [copies : Nat, at : Times, by : Senders \cup {None}]]
      BY <1>8, <3>1, <3>2
    <3>5. Delivers(s, e)
      BY <1>1, <3>3 DEF Delivers
    <3> QED  BY <3>1, <3>3, <3>4, <3>5
  <2>2. CASE ~ Accept(s)
    BY <1>2, <1>8, <2>2
  <2> QED  BY <2>1, <2>2
<1>10. Frame({s}) /\ (SenderHonest(s)' => Safe({s}))
  BY <1>1, <1>4, <1>5, <1>9, SenderFrame DEF TypeOK, RowMoves
<1>11. Claimed(s)'
  BY <1>1, <1>4, <1>5, <1>6 DEF Claimed
<1>12. /\ fate = "ACCEPTED" => Accept(s)
       /\ fate \in Refusals => inbox'[e].copies = 0
  BY <1>2, <1>6 DEF Refusals
<1>13. ClaimHeld(s)'
  BY <1>2, <1>4, <1>5, <1>9, <1>11, <1>12 DEF ClaimHeld
<1>14. PastCheck(s)'
  BY <1>4, <1>5 DEF PastCheck
<1> QED  BY <1>1, <1>4, <1>5, <1>10, <1>13, <1>14, GoesOnHonest

(* What Record and a failing commit of it write.                           *)
LEMMA RecordedSafe ==
  ASSUME DeliveryInv, NEW s \in Senders, sender[s].pc = "record", Recorded(s),
         NEW answer, NEW why, Done(s, answer, why),
         \/ answer = "NEEDS_REVIEW"
         \/ sender[s].fate = "ACCEPTED" /\ answer = "SENT"
         \/ sender[s].fate \in Refusals /\ answer = "FAILED",
         UNCHANGED <<registry, inbox, clock, changes>>, faults' \in 0..MaxFaults
  PROVE  Safe({s})
<1> DEFINE e == sender[s].email
           fate == sender[s].fate
<1>1. Working(s)
  BY DEF Working, PastCheck
<1>2. ClaimHeld(s) /\ e \in DOMAIN queue
  BY <1>1, AtWork
<1>3. /\ fate \in {"ACCEPTED", "REVIEW"} \cup Refusals
      /\ fate = "ACCEPTED" => inbox[e].copies = 1
      /\ fate \in Refusals => inbox[e].copies = 0
  BY <1>2 DEF ClaimHeld
<1>4. answer \in Statuses \cup {"NONE", "ALREADY_SENT", "NEEDS_REVIEW", "REFUSED"}
  BY MarksKnown
<1>5. CASE fate = "ACCEPTED"
  <2>1. SetStatus(e, "SENT", "NONE")
    BY <1>5 DEF Recorded
  <2>2. Written(e, "SENT", "NONE") /\ queue'[e].approved = queue[e].approved => Handles(s, e)
    BY <1>5 DEF Handles
  <2> QED  BY <1>1, <1>3, <1>4, <1>5, <2>1, <2>2, MarksKnown, WritesAndEnds DEF Refusals
<1>6. CASE fate # "ACCEPTED"
  <2>1. SetStatus(e, "FAILED", fate) /\ fate \in Marks
    BY <1>3, <1>6, MarksKnown DEF Recorded
  <2>2. Written(e, "FAILED", fate) /\ queue'[e].approved = queue[e].approved => Handles(s, e)
    BY <1>6 DEF Handles
  <2> QED  BY <1>1, <1>3, <1>4, <1>6, <2>1, <2>2, MarksKnown, WritesAndEnds
<1> QED  BY <1>5, <1>6

LEMMA RecordSafe ==
  ASSUME DeliveryInv, NEW s \in Senders, Record(s)
  PROVE  Safe({s})
<1> DEFINE fate == sender[s].fate
           answer == CASE fate = "ACCEPTED" -> "SENT"
                       [] fate = "REVIEW" -> "NEEDS_REVIEW"
                       [] OTHER -> "FAILED"
<1>1. /\ sender[s].pc = "record" /\ Recorded(s) /\ Done(s, answer, fate)
      /\ UNCHANGED <<registry, inbox, clock, changes>> /\ faults' \in 0..MaxFaults
  BY DEF Record, counters, DeliveryInv, TypeOK
<1>2. fate \in {"ACCEPTED", "REVIEW"} \cup Refusals
  BY <1>1 DEF DeliveryInv, SenderHonest, ClaimHeld
<1>3. \/ answer = "NEEDS_REVIEW"
      \/ fate = "ACCEPTED" /\ answer = "SENT"
      \/ fate \in Refusals /\ answer = "FAILED"
  BY <1>2 DEF Refusals
<1> HIDE DEF answer
<1> QED  BY <1>1, <1>3, RecordedSafe

LEMMA SendFailsSafe ==
  ASSUME DeliveryInv, NEW s \in Senders, SendFails(s)
  PROVE  Safe({s})
<1>1. /\ faults' \in 0..MaxFaults /\ Done(s, "NEEDS_REVIEW", "NONE")
      /\ UNCHANGED <<registry, inbox, clock, changes>>
      /\ sender[s].pc \in {"check", "look", "claim", "lookAgain", "deliver", "record"}
      /\ Working(s)
  BY EmailAssumption DEF SendFails, DeliveryInv, TypeOK, Working, PastCheck
<1>2. CASE UNCHANGED queue
  BY <1>1, <1>2, OnlyEnds
<1>3. CASE /\ sender[s].pc = "claim" /\ Claimable(queue[sender[s].email])
           /\ Claims(s)
  <2>1. CASE Valid(s)
    <3>1. /\ sender' \in [Senders -> SenderStates]
          /\ \A t \in Senders \ {s} : sender'[t] = sender[t]
          /\ sender'[s].pc \in {"idle", "halted", "check"}
      <4>1. \A e \in DOMAIN queue : e \in DOMAIN queue' /\ queue'[e].mode = queue[e].mode
        <5>1. SetStatus(sender[s].email, "FAILED", s) /\ sender[s].email \in DOMAIN queue /\ TypeOK
          BY <1>1, <1>3, <2>1, AtWork DEF Claims
        <5> QED  BY <5>1, MarksKnown, SetStatusRow
      <4> QED  BY <1>1, <4>1, DoneHonest
    <3>2. /\ Frame({s}) /\ (SenderHonest(s)' => Safe({s})) /\ DOMAIN queue' = DOMAIN queue
          /\ \A f \in DOMAIN queue : queue'[f].mode = queue[f].mode
      BY <1>1, <1>3, <2>1, <3>1, ClaimsSafe
    <3>3. SenderHonest(s)'
      BY <1>1, <3>2, DoneHonest
    <3> QED  BY <3>2, <3>3
  <2>2. CASE ~ Valid(s)
    <3>1. SetStatus(sender[s].email, "CANCELLED", "UNDELIVERABLE")
      BY <1>3, <2>2 DEF Claims
    <3>2. Written(sender[s].email, "CANCELLED", "UNDELIVERABLE")
            /\ queue'[sender[s].email].approved = queue[sender[s].email].approved
            => Handles(s, sender[s].email)
      BY <1>3 DEF Handles, Claimable
    <3> QED  BY <1>1, <3>1, <3>2, MarksKnown, WritesAndEnds
  <2> QED  BY <2>1, <2>2
<1>4. CASE sender[s].pc = "record" /\ Recorded(s)
  BY <1>1, <1>4, RecordedSafe
<1> QED  BY <1>2, <1>3, <1>4 DEF SendFails

LEMMA CrashSafe ==
  ASSUME DeliveryInv, NEW s \in Senders, Crash(s)
  PROVE  Safe({s})
<1>1. /\ TypeOK /\ faults' \in 0..MaxFaults /\ UNCHANGED <<registry, queue, inbox, clock, changes>>
      /\ sender' = [sender EXCEPT ![s] = Idle]
  BY EmailAssumption DEF Crash, DeliveryInv, TypeOK
<1>2. /\ sender' \in [Senders -> SenderStates] /\ sender'[s] = Idle
      /\ \A t \in Senders \ {s} : sender'[t] = sender[t]
  BY <1>1, IdleState DEF TypeOK
<1>3. SenderHonest(s)'
  BY <1>2, IdleState
     DEF SenderHonest, WorkKnown, ClaimHeld, AnswerHonest, VisitorHeld, Working, PastCheck, NoAnswer
<1> QED  BY <1>1, <1>2, <1>3, IdleState, SenderFrame DEF TypeOK, RowMoves

-----------------------------------------------------------------------------
(* Requests                                                                *)

LEMMA ApprovedRows ==
  ASSUME NEW rows \in Seq(Rows), NEW es, clock \in Times, NEW new, new = Approved(rows, es)
  PROVE  /\ new \in Seq(Rows) /\ Len(new) = Len(rows) /\ DOMAIN new = DOMAIN rows
         /\ \A e \in DOMAIN rows \ es : new[e] = rows[e]
         /\ \A e \in DOMAIN rows \cap es :
              /\ new[e].credential = rows[e].credential /\ new[e].to = rows[e].to
              /\ new[e].mode = rows[e].mode /\ new[e].status = "QUEUED"
              /\ new[e].mark = "NONE" /\ new[e].at = clock /\ new[e].approved
<1>1. Len(rows) \in Nat /\ DOMAIN rows = 1..Len(rows) /\ \A e \in DOMAIN rows : rows[e] \in Rows
  OBVIOUS
<1>2. /\ DOMAIN new = DOMAIN rows /\ new = [e \in DOMAIN rows |-> new[e]]
      /\ \A e \in DOMAIN rows : new[e] = IF e \notin es THEN rows[e]
           ELSE [rows[e] EXCEPT !.status = "QUEUED", !.mark = "NONE",
                                !.approved = TRUE, !.at = clock]
  BY DEF Approved
<1>3. \A e \in DOMAIN rows \ es : new[e] = rows[e]
  BY <1>2
<1>4. ASSUME NEW e \in DOMAIN rows \cap es
      PROVE  /\ new[e] \in Rows
             /\ new[e].credential = rows[e].credential /\ new[e].to = rows[e].to
             /\ new[e].mode = rows[e].mode /\ new[e].status = "QUEUED"
             /\ new[e].mark = "NONE" /\ new[e].at = clock /\ new[e].approved
  <2>1. new[e] = [rows[e] EXCEPT !.status = "QUEUED", !.mark = "NONE",
                                 !.approved = TRUE, !.at = clock]
    BY <1>2
  <2>2. rows[e] \in Rows /\ "QUEUED" \in Statuses /\ "NONE" \in Marks
    BY <1>1, MarksKnown
  <2> QED  BY <2>1, <2>2 DEF Rows
<1>5. \A e \in DOMAIN rows : new[e] \in Rows
  BY <1>1, <1>3, <1>4
<1> QED  BY <1>2, <1>3, <1>4, <1>5, RowsMapped

LEMMA NewRowIs ==
  ASSUME NEW q \in Credentials, NEW to \in Addresses, NEW mode \in {"SINGLE", "BULK"},
         clock \in Times, NEW row, row = NewRow(q, to, mode)
  PROVE  /\ row \in Rows /\ RowAllowed(row) /\ row.credential = q /\ row.to = to
         /\ row.mode = mode /\ row.mark = "NONE" /\ row.status \in Waiting
         /\ row.status = IF mode = "BULK" THEN "PENDING_APPROVAL" ELSE "DRAFT"
<1>1. "PENDING_APPROVAL" \in Statuses /\ "DRAFT" \in Statuses /\ "NONE" \in Marks
  BY DEF Statuses, Waiting, Marks
<1> QED  BY <1>1 DEF NewRow, Rows, RowAllowed, Waiting

(* A step in which a sender approves rows that wait for it.                *)
LEMMA ApprovesSafe ==
  ASSUME DeliveryInv, NEW s \in Senders, NEW es, queue' = Approved(queue, es),
         \A e \in DOMAIN queue \cap es :
           /\ queue[e].status \in {"DRAFT", "PENDING_APPROVAL"}
           /\ \/ queue[e].mode = "BULK" \/ credential[queue[e].credential].owner # None
              \/ Prepares(s, queue[e].credential),
         UNCHANGED <<registry, inbox, counters>>,
         sender' \in [Senders -> SenderStates],
         \A t \in Senders \ {s} : sender'[t] = sender[t], sender'[s].pc # "preparing"
  PROVE  SenderHonest(s)' => Safe({s})
<1>1. TypeOK /\ queue \in Seq(Rows) /\ clock \in Times
  BY DEF DeliveryInv, TypeOK
<1>2. /\ queue' \in Seq(Rows) /\ Len(queue') = Len(queue) /\ DOMAIN queue' = DOMAIN queue
      /\ \A e \in DOMAIN queue \ es : queue'[e] = queue[e]
      /\ \A e \in DOMAIN queue \cap es :
           /\ queue'[e].credential = queue[e].credential /\ queue'[e].to = queue[e].to
           /\ queue'[e].mode = queue[e].mode /\ queue'[e].status = "QUEUED"
           /\ queue'[e].mark = "NONE" /\ queue'[e].at = clock /\ queue'[e].approved
  BY <1>1, ApprovedRows
<1>3. \A e \in DOMAIN queue : RowMoves({s}, e)
  BY <1>2 DEF RowMoves, Approves, Written
<1>4. /\ UNCHANGED <<registry, clock, changes>> /\ faults' \in 0..MaxFaults
      /\ inbox' \in [Emails -> [copies : Nat, at : Times, by : Senders \cup {None}]]
      /\ \A e \in Emails : inbox'[e] = inbox[e]
  BY <1>1 DEF counters, TypeOK
<1> QED  BY <1>2, <1>3, <1>4, SenderFrame

LEMMA AdminsSend ==
  \A a \in Admins : a \in Senders /\ a \notin Dispatchers
BY EmailAssumption DEF Senders, Limited

LEMMA SendSingleSafe ==
  ASSUME DeliveryInv, NEW a \in Admins, NEW e \in DOMAIN queue, SendSingle(a, e)
  PROVE  Safe({a})
<1>1. /\ a \in Senders /\ a \notin Dispatchers /\ TypeOK /\ Start(a, {e})
      /\ UNCHANGED <<registry, inbox, counters>>
  BY AdminsSend DEF DeliveryInv, SendSingle
<1>2. CASE queue[e].status # "DRAFT"
  BY <1>1, <1>2, OnlyStarts DEF SendSingle
<1>3. CASE queue[e].status = "DRAFT"
  <2>1. queue' = Approved(queue, {e})
    BY <1>3 DEF SendSingle
  <2>2. credential[queue[e].credential].owner # None
    BY DEF SendSingle, IsVisitor, DeliveryInv, RowHonest
  <2>3. queue' \in Seq(Rows) /\ Len(queue') = Len(queue) /\ DOMAIN queue' = DOMAIN queue
    BY <1>1, <2>1, ApprovedRows DEF TypeOK
  <2>4. /\ sender' \in [Senders -> SenderStates] /\ sender'[a].pc = "check"
        /\ \A t \in Senders \ {a} : sender'[t] = sender[t]
        /\ SenderHonest(a)'
    BY <1>1, <2>3, StartHonest DEF TypeOK
  <2> QED  BY <1>1, <1>3, <2>1, <2>2, <2>4, ApprovesSafe
<1> QED  BY <1>2, <1>3

LEMMA ProcessBulkSafe ==
  ASSUME DeliveryInv, NEW a \in Admins, NEW es \in SUBSET DOMAIN queue, ProcessBulk(a, es)
  PROVE  Safe({a})
<1>1. es # {}
  BY FS_EmptySet DEF ProcessBulk
<1> QED  BY <1>1, AdminsSend, OnlyStarts DEF ProcessBulk

LEMMA SendByHandSafe ==
  ASSUME DeliveryInv, NEW o \in Operators, NEW e \in DOMAIN queue, SendByHand(o, e)
  PROVE  Safe({o})
<1>1. o \in Senders /\ o \notin Dispatchers
  BY EmailAssumption DEF Senders
<1> QED  BY <1>1, OnlyStarts DEF SendByHand

LEMMA CountBatchSafe ==
  ASSUME DeliveryInv, NEW a \in Admins, CountBatch(a)
  PROVE  Safe({a})
<1>1. a \in Senders /\ a \notin Dispatchers /\ TypeOK
  BY AdminsSend DEF DeliveryInv
<1>2. BatchPending \subseteq DOMAIN queue /\ BatchPending \in SUBSET Emails
  BY <1>1, QueueDomain DEF BatchPending
<1> DEFINE new == [Idle EXCEPT !.pc = "approving", !.batch = BatchPending]
<1>3. sender' = [sender EXCEPT ![a] = new] /\ UNCHANGED <<registry, queue, inbox, counters>>
  BY Zenon DEF CountBatch
<1>4. /\ new \in SenderStates /\ new.pc = "approving" /\ new.batch = BatchPending
      /\ new.answer = NoAnswer
  BY <1>2, IdleState DEF SenderStates
<1> HIDE DEF new
<1>5. /\ sender' \in [Senders -> SenderStates] /\ sender'[a] = new
      /\ \A t \in Senders \ {a} : sender'[t] = sender[t]
  BY <1>1, <1>3, <1>4 DEF TypeOK
<1>6. WorkKnown(a)'
  BY <1>1, <1>2, <1>3, <1>4, <1>5 DEF WorkKnown, Working, PastCheck
<1>7. ClaimHeld(a)' /\ AnswerHonest(a)' /\ VisitorHeld(a)'
  BY <1>4, <1>5 DEF ClaimHeld, AnswerHonest, VisitorHeld, NoAnswer
<1>8. SenderHonest(a)'
  BY <1>6, <1>7 DEF SenderHonest
<1> QED  BY <1>1, <1>3, <1>4, <1>5, <1>8, SenderFrame DEF TypeOK, counters, RowMoves

LEMMA IdleHonest ==
  ASSUME NEW s \in Senders, sender'[s] = Idle
  PROVE  SenderHonest(s)'
BY IdleState
   DEF SenderHonest, WorkKnown, ClaimHeld, AnswerHonest, VisitorHeld, Working, PastCheck, NoAnswer

LEMMA ApproveBatchSafe ==
  ASSUME DeliveryInv, NEW a \in Senders, ApproveBatch(a)
  PROVE  Safe({a})
<1> DEFINE es == sender[a].batch
<1>1. TypeOK /\ es \subseteq DOMAIN queue /\ UNCHANGED <<registry, inbox, counters>>
  BY DEF DeliveryInv, SenderHonest, WorkKnown, ApproveBatch
<1>2. /\ sender' \in [Senders -> SenderStates] /\ sender'[a] = Idle
      /\ \A t \in Senders \ {a} : sender'[t] = sender[t]
  BY <1>1, IdleState DEF TypeOK, ApproveBatch
<1>3. SenderHonest(a)' /\ sender'[a].pc # "preparing"
  BY <1>2, IdleHonest, IdleState
<1>4. CASE queue' = Approved(queue, es) /\ \A e \in es : queue[e].status = "PENDING_APPROVAL"
  <2>1. \A e \in DOMAIN queue \cap es :
          queue[e].status = "PENDING_APPROVAL" /\ queue[e].mode = "BULK"
    BY <1>1, <1>4 DEF TypeOK, RowAllowed
  <2> QED  BY <1>1, <1>2, <1>3, <1>4, <2>1, ApprovesSafe
<1>5. CASE queue' = queue
  BY <1>1, <1>2, <1>3, <1>5, SenderFrame DEF TypeOK, counters, RowMoves
<1> QED  BY <1>4, <1>5 DEF ApproveBatch

(* A request that counts for a visitor takes the credential's lock; nobody *)
(* else holds it, and there is room for the row it may make.               *)
LEMMA CountVisitorSafe ==
  ASSUME DeliveryInv, NEW a \in Admins, NEW q \in Credentials, CountVisitor(a, q)
  PROVE  Safe({a})
<1>1. /\ a \in Senders /\ a \notin Dispatchers /\ TypeOK
      /\ UNCHANGED <<registry, queue, inbox, counters>>
      /\ credential[q].state = "LIVE" /\ credential[q].owner = None
      /\ credential[q].to # None /\ Free(q) /\ sender[a].pc = "idle"
      /\ VisitorDraft(q) = {} => Room(1)
  BY AdminsSend DEF DeliveryInv, CountVisitor, IsVisitor
<1> DEFINE new == [Idle EXCEPT !.pc = "preparing", !.for = q]
<1>2. sender' = [sender EXCEPT ![a] = new]
  BY Zenon DEF CountVisitor
<1>3. /\ new \in SenderStates /\ new.pc = "preparing" /\ new.for = q
      /\ new.batch = {} /\ new.answer = NoAnswer
  BY IdleState DEF SenderStates
<1> HIDE DEF new
<1>4. /\ sender' \in [Senders -> SenderStates] /\ sender'[a] = new
      /\ \A t \in Senders \ {a} : sender'[t] = sender[t]
  BY <1>1, <1>2, <1>3 DEF TypeOK
<1>5. /\ OwnersKnown' /\ \A r \in Credentials : CredentialStands(r)
      /\ \A p \in Employees : EmployeeStands(p)
      /\ \A row \in Rows : Current(row)' = Current(row)
  BY <1>1, OwnersStay
<1>6. ASSUME NEW t \in Senders \ {a}, sender[t].pc = "preparing" PROVE sender[t].for # q
  BY <1>1, <1>6 DEF Free, Locks
<1>7. Frame({a})
  <2>1. \A e \in DOMAIN queue : RowMoves({a}, e)
    BY <1>1 DEF RowMoves
  <2>2. \A e \in DOMAIN queue' : queue'[e].status \in Waiting => Current(queue[e])'
    BY <1>1, <1>5, QueueDomain DEF DeliveryInv, RowHonest
  <2>3. \A u \in {a}, t \in Senders \ {a} :
          sender'[u].pc = "preparing" /\ sender[t].pc = "preparing"
            => sender'[u].for # sender[t].for
    BY <1>3, <1>4, <1>6
  <2>4. clock' = clock /\ clock \in Int
    BY <1>1, EmailAssumption DEF counters, TypeOK, Times
  <2> QED  BY <1>1, <1>4, <1>5, <2>1, <2>2, <2>3, <2>4 DEF Frame
<1>8. Types'
  BY <1>1, <1>4 DEF Types, TypeOK, registry, counters
<1>9. SenderHonest(a)'
  <2>1. WorkKnown(a)' /\ ClaimHeld(a)' /\ AnswerHonest(a)'
    BY <1>1, <1>3, <1>4 DEF WorkKnown, ClaimHeld, AnswerHonest, Working, PastCheck, NoAnswer
  <2>2. \A t \in Senders : sender'[t].pc = "preparing" /\ sender'[t].for = q => t = a
    BY <1>4, <1>6
  <2>3. VisitorHeld(a)'
    BY <1>1, <1>3, <1>4, <2>2 DEF VisitorHeld, registry
  <2> QED  BY <2>1, <2>3 DEF SenderHonest
<1>10. RoomKept'
  <2>1. CASE VisitorDraft(q) # {}
    <3>1. VisitorDraft(q)' # {}
      BY <1>1, <2>1 DEF VisitorDraft, EmailsOf
    <3>2. ~ RowToCome(a)'
      BY <1>3, <1>4, <3>1 DEF RowToCome
    <3> QED  BY <1>1, <1>7, <3>2, RoomStays
  <2>2. CASE VisitorDraft(q) = {}
    <3> DEFINE P == {s \in Senders : sender[s].pc = "preparing"}
               A == {s \in Senders : RowToCome(s)'}
    <3>1. A \subseteq P \cup {a}
      BY <1>4 DEF RowToCome
    <3>2. IsFiniteSet(P) /\ a \notin P
      <4>1. P \subseteq Senders
        OBVIOUS
      <4> QED  BY <1>1, <4>1, EmailAssumption, FS_Subset
    <3>3. IsFiniteSet(P \cup {a}) /\ Cardinality(P \cup {a}) = Cardinality(P) + 1
      BY <3>2, FS_AddElement
    <3>4. IsFiniteSet(A) /\ Cardinality(A) <= Cardinality(P \cup {a})
      BY <3>1, <3>3, FS_Subset
    <3>5. Cardinality(P) \in Nat /\ Cardinality(A) \in Nat
      BY <3>2, <3>4, FS_CardinalityType
    <3>6. Len(queue) + 1 + Cardinality(P) <= MaxEmails /\ Len(queue) \in Nat /\ MaxEmails \in Nat
      BY <1>1, <2>2, QueueDomain, EmailAssumption DEF Room
    <3>7. Len(queue') + Cardinality(A) <= MaxEmails
      BY <1>1, <3>3, <3>4, <3>5, <3>6
    <3> QED  BY <3>7 DEF RoomKept
  <2> QED  BY <2>1, <2>2
<1> QED  BY <1>5, <1>7, <1>8, <1>9, <1>10 DEF Safe

(* A visitor's draft or a new copy is approved by the request that holds   *)
(* the credential; a new copy takes the room that was kept for it.         *)
LEMMA SendVisitorSafe ==
  ASSUME DeliveryInv, NEW a \in Senders, SendVisitor(a)
  PROVE  Safe({a})
<1> DEFINE q == sender[a].for
<1>1. /\ a \in Admins /\ a \notin Dispatchers /\ TypeOK /\ sender[a].pc = "preparing"
      /\ UNCHANGED <<registry, inbox, counters>> /\ q \in Credentials
      /\ credential[q].state = "LIVE" /\ credential[q].owner = None
      /\ credential[q].to \in Addresses /\ Prepares(a, q)
      /\ credential \in [Credentials -> CredentialRows] /\ RoomKept
      /\ clock \in Times /\ queue \in Seq(Rows) /\ Len(queue) <= MaxEmails
      /\ \A t \in Senders : sender[t].pc = "preparing" /\ sender[t].for = q => t = a
  <2>1. VisitorHeld(a) /\ TypeOK /\ sender[a].pc = "preparing"
    BY DEF DeliveryInv, SenderHonest, SendVisitor
  <2>2. /\ q \in Credentials /\ a \in Admins
        /\ credential[q].state = "LIVE" /\ credential[q].owner = None /\ credential[q].to # None
        /\ \A t \in Senders : sender[t].pc = "preparing" /\ sender[t].for = q => t = a
    BY <2>1 DEF VisitorHeld
  <2>3. credential \in [Credentials -> CredentialRows]
    BY <2>1 DEF TypeOK
  <2>4. credential[q].to \in Addresses
    BY <2>2, <2>3 DEF CredentialRows
  <2> QED  BY <2>1, <2>2, <2>3, <2>4, AdminsSend DEF SendVisitor, Prepares, DeliveryInv, TypeOK
<1>2. CASE Expired(q)
  <2>1. sender' = [sender EXCEPT ![a] = Idle] /\ UNCHANGED queue
    BY <1>2 DEF SendVisitor
  <2>2. /\ sender' \in [Senders -> SenderStates] /\ sender'[a] = Idle
        /\ \A t \in Senders \ {a} : sender'[t] = sender[t]
    BY <1>1, <2>1, IdleState DEF TypeOK
  <2>3. SenderHonest(a)' /\ sender'[a].pc # "preparing"
    BY <2>2, IdleHonest, IdleState
  <2> QED  BY <1>1, <2>1, <2>2, <2>3, SenderFrame DEF TypeOK, counters, RowMoves
<1>3. CASE ~ Expired(q) /\ VisitorDraft(q) # {}
  <2> DEFINE e == Latest(EmailsOf(q))
  <2>1. queue' = Approved(queue, {e}) /\ Start(a, {e})
    BY <1>3 DEF SendVisitor
  <2>2. e \in DOMAIN queue /\ queue[e].status = "DRAFT" /\ queue[e].credential = q
    BY <1>3 DEF VisitorDraft, EmailsOf
  <2> HIDE DEF e
  <2>3. queue' \in Seq(Rows) /\ Len(queue') = Len(queue) /\ DOMAIN queue' = DOMAIN queue
    BY <1>1, <2>1, ApprovedRows
  <2>4. /\ sender' \in [Senders -> SenderStates] /\ sender'[a].pc = "check"
        /\ \A t \in Senders \ {a} : sender'[t] = sender[t]
        /\ SenderHonest(a)'
    BY <1>1, <2>1, <2>2, <2>3, StartHonest
  <2> QED  BY <1>1, <2>1, <2>2, <2>4, ApprovesSafe
<1>4. CASE ~ Expired(q) /\ VisitorDraft(q) = {}
  <2> DEFINE row == NewRow(q, credential[q].to, "SINGLE")
             rows == Append(queue, row)
             B == {s \in Senders : RowToCome(s)}
             A == {s \in Senders : RowToCome(s)'}
  <2>0. PICK n : n = Len(queue) + 1
    OBVIOUS
  <2>1. queue' = Approved(rows, {Len(rows)}) /\ Start(a, {Len(rows)})
    BY <1>4 DEF SendVisitor
  <2>2. /\ row \in Rows /\ row.credential = q /\ row.to = credential[q].to
        /\ row.mode = "SINGLE" /\ row.mark = "NONE"
    BY <1>1, NewRowIs
  <2> HIDE DEF row
  <2>3. /\ rows \in Seq(Rows) /\ Len(rows) = n /\ DOMAIN rows = DOMAIN queue \cup {n}
        /\ \A f \in DOMAIN queue : rows[f] = queue[f]
        /\ rows[n] = row /\ n \notin DOMAIN queue
    BY <1>1, <2>0, <2>2, RowsAppended
  <2> HIDE DEF rows
  <2>4. /\ queue' \in Seq(Rows) /\ Len(queue') = n /\ DOMAIN queue' = DOMAIN rows
        /\ \A f \in DOMAIN rows \ {n} : queue'[f] = rows[f]
        /\ \A f \in DOMAIN rows \cap {n} :
             /\ queue'[f].credential = rows[f].credential /\ queue'[f].to = rows[f].to
             /\ queue'[f].mode = rows[f].mode /\ queue'[f].status = "QUEUED"
             /\ queue'[f].mark = "NONE" /\ queue'[f].at = clock /\ queue'[f].approved
    BY <1>1, <2>1, <2>3, ApprovedRows
  <2>5. /\ \A f \in DOMAIN queue : queue'[f] = queue[f]
        /\ queue'[n].credential = q /\ queue'[n].to = credential[q].to
        /\ queue'[n].mode = "SINGLE" /\ queue'[n].status = "QUEUED"
        /\ queue'[n].mark = "NONE" /\ queue'[n].approved
    BY <2>2, <2>3, <2>4
  <2>6. RowToCome(a) /\ B \subseteq Senders /\ a \in B
    BY <1>1, <1>4 DEF RowToCome
  <2>7. IsFiniteSet(B)
    BY <2>6, EmailAssumption, FS_Subset
  <2>8. IsFiniteSet(B \ {a}) /\ Cardinality(B \ {a}) = Cardinality(B) - 1 /\ Cardinality(B) \in Nat
    BY <2>6, <2>7, FS_RemoveElement, FS_CardinalityType
  <2>9. Len(queue) + Cardinality(B) <= MaxEmails /\ Len(queue) \in Nat /\ MaxEmails \in Nat
        /\ Cardinality(B \ {a}) \in Nat
    BY <1>1, <2>8, QueueDomain, FS_CardinalityType, EmailAssumption DEF RoomKept
  <2>10. n <= MaxEmails
    BY <2>0, <2>8, <2>9
  <2>11. /\ sender' \in [Senders -> SenderStates] /\ sender'[a].pc = "check"
         /\ \A t \in Senders \ {a} : sender'[t] = sender[t]
         /\ SenderHonest(a)'
    BY <1>1, <2>1, <2>3, <2>4, <2>10, StartHonest
  <2>12. /\ OwnersKnown' /\ \A r \in Credentials : CredentialStands(r)
         /\ \A p \in Employees : EmployeeStands(p)
         /\ \A r \in Rows : Current(r)' = Current(r)
    BY <1>1, OwnersStay
  <2>13. Frame({a})
    <3>1. \A f \in DOMAIN queue : RowMoves({a}, f)
      BY <2>5 DEF RowMoves
    <3>2. RowMade({a}, n)
      BY <1>1, <2>5 DEF RowMade, RowAllowed, Waiting
    <3>3. \A f \in DOMAIN queue' : queue'[f].status \in Waiting => Current(queue[f])'
      <4>1. Current(queue[n])'
        BY <1>1, <2>5 DEF Current, registry
      <4>2. \A f \in DOMAIN queue : queue'[f].status \in Waiting => Current(queue[f])'
        BY <1>1, <2>5, <2>12, QueueDomain DEF DeliveryInv, RowHonest
      <4> QED  BY <2>3, <2>4, <4>1, <4>2
    <3>4. \A u \in {a}, t \in Senders \ {a} :
            sender'[u].pc = "preparing" /\ sender[t].pc = "preparing"
              => sender'[u].for # sender[t].for
      BY <2>11
    <3>5. clock' = clock /\ clock \in Int /\ inbox' = inbox
      BY <1>1, EmailAssumption DEF counters, TypeOK, Times
    <3>6. DOMAIN queue \subseteq DOMAIN queue' /\ \A f \in DOMAIN queue' \ DOMAIN queue : RowMade({a}, f)
      BY <2>3, <2>4, <3>2
    <3>7. {a} \subseteq Senders /\ (\A t \in Senders \ {a} : sender'[t] = sender[t])
          /\ \A u, t \in {a} : u = t
      BY <1>1, <2>11
    <3>8. clock <= clock' /\ \A f \in Emails : inbox'[f] = inbox[f]
      BY <3>5
    <3> QED  BY <2>12, <3>1, <3>3, <3>4, <3>6, <3>7, <3>8, Zenon DEF Frame
  <2>14. Types'
    BY <1>1, <2>4, <2>10, <2>11 DEF Types, TypeOK, registry, counters
  <2>15. RoomKept'
    <3>1. A \subseteq B \ {a}
      <4>1. ~ RowToCome(a)'
        BY <2>11 DEF RowToCome
      <4>2. \A t \in Senders \ {a} : RowToCome(t)' => RowToCome(t)
        BY <2>13, DraftStays
      <4> QED  BY <4>1, <4>2
    <3>2. IsFiniteSet(A) /\ Cardinality(A) <= Cardinality(B \ {a})
      BY <2>8, <3>1, FS_Subset
    <3>3. Cardinality(A) \in Nat
      BY <3>2, FS_CardinalityType
    <3> HIDE DEF A
    <3>4. Len(queue') + Cardinality(A) <= MaxEmails
      BY <2>0, <2>4, <2>8, <2>9, <3>2, <3>3
    <3> QED  BY <3>4 DEF RoomKept, A
  <2> QED  BY <2>11, <2>12, <2>13, <2>14, <2>15 DEF Safe
<1> QED  BY <1>2, <1>3, <1>4

-----------------------------------------------------------------------------
(* The registry                                                            *)

(* What is left of a row that is cancelled.                                *)
Withdrawn(row, old) ==
  /\ row.credential = old.credential /\ row.to = old.to /\ row.mode = old.mode
  /\ row.status = (IF old.status = "SENT" THEN "SENT" ELSE "CANCELLED")
  /\ row.mark = "NONE" /\ row.at = clock /\ row.approved = old.approved

(* The emails of some credentials, whose locks are free, are cancelled.    *)
Withdraws(rows, qs) ==
  /\ \A q \in qs : Free(LockOf(q))
  /\ rows \in Seq(Rows) /\ Len(rows) = Len(queue) /\ DOMAIN rows = DOMAIN queue
  /\ \A e \in DOMAIN queue : IF queue[e].credential \in qs THEN Withdrawn(rows[e], queue[e])
                             ELSE rows[e] = queue[e]

LEMMA NoneWithdrawn ==
  ASSUME TypeOK
  PROVE  Withdraws(queue, {})
BY DEF Withdraws, TypeOK

LEMMA OneWithdrawn ==
  ASSUME TypeOK, NEW q \in Credentials, Free(LockOf(q)), NEW rows, rows = Cancelled(queue, q)
  PROVE  Withdraws(rows, {q})
<1>1. /\ queue \in Seq(Rows) /\ clock \in Times
      /\ \A e \in DOMAIN queue : queue[e] \in Rows
  BY QueueDomain DEF TypeOK
<1>2. /\ DOMAIN rows = DOMAIN queue /\ rows = [e \in DOMAIN queue |-> rows[e]]
      /\ \A e \in DOMAIN queue : rows[e] = IF queue[e].credential # q THEN queue[e]
           ELSE [queue[e] EXCEPT !.status = IF @ = "SENT" THEN @ ELSE "CANCELLED",
                                 !.mark = "NONE", !.at = clock]
  BY DEF Cancelled
<1>3. ASSUME NEW e \in DOMAIN queue
      PROVE  /\ rows[e] \in Rows
             /\ IF queue[e].credential \in {q} THEN Withdrawn(rows[e], queue[e])
                ELSE rows[e] = queue[e]
  <2>1. CASE queue[e].credential # q
    BY <1>1, <1>2, <2>1
  <2>2. CASE queue[e].credential = q
    <3>1. rows[e] = [queue[e] EXCEPT !.status = IF @ = "SENT" THEN @ ELSE "CANCELLED",
                                     !.mark = "NONE", !.at = clock]
      BY <1>2, <2>2
    <3>2. queue[e] \in Rows /\ "CANCELLED" \in Statuses /\ "NONE" \in Marks
      BY <1>1, MarksKnown
    <3> QED  BY <1>1, <2>2, <3>1, <3>2 DEF Rows, Withdrawn
  <2> QED  BY <2>1, <2>2
<1>4. rows \in Seq(Rows) /\ Len(rows) = Len(queue)
  BY <1>1, <1>2, <1>3, RowsMapped
<1> QED  BY <1>2, <1>3, <1>4 DEF Withdraws

(* An employee has one live credential at most: CancelAll cancels all that *)
(* the employee has waiting.                                               *)
LEMMA AllWithdrawn ==
  ASSUME DeliveryInv, NEW p \in Employees, Free(p), NEW rows, rows = CancelAll(LiveOf(p))
  PROVE  Withdraws(rows, LiveOf(p))
<1>1. TypeOK /\ OwnersKnown
  BY DEF DeliveryInv
<1>2. CASE LiveOf(p) = {}
  BY <1>1, <1>2, NoneWithdrawn DEF CancelAll
<1>3. CASE LiveOf(p) # {}
  <2> DEFINE q == CHOOSE r \in LiveOf(p) : TRUE
  <2>1. q \in LiveOf(p)
    BY <1>3
  <2>2. rows = Cancelled(queue, q)
    BY <1>3 DEF CancelAll
  <2> HIDE DEF q
  <2>3. q \in Credentials /\ credential[q].owner = p /\ p # None
    BY <2>1, EmailAssumption DEF LiveOf
  <2>4. \A r \in LiveOf(p) : r = q
    BY <1>1, <2>1, <2>3 DEF LiveOf, OwnersKnown
  <2>5. LiveOf(p) = {q}
    BY <2>1, <2>4
  <2>6. Free(LockOf(q))
    BY <2>3 DEF LockOf
  <2> QED  BY <1>1, <2>2, <2>3, <2>5, <2>6, OneWithdrawn
<1> QED  BY <1>2, <1>3

(* A row that the step makes is for a credential that is new or an         *)
(* employee's, and current.                                                *)
Added(row) ==
  /\ RowAllowed(row) /\ row.status \in Waiting /\ row.mark = "NONE"
  /\ \/ credential[row.credential].state = "UNISSUED"
     \/ credential[row.credential].owner # None

(* A step of the registry: cancels emails of some credentials, keeps those *)
(* that are still current, and makes new ones.                             *)
LEMMA RegistrySafe ==
  ASSUME DeliveryInv, UNCHANGED <<sender, inbox, clock, faults>>, changes' \in 0..MaxChanges,
         employee' \in [Employees -> EmployeeRows],
         credential' \in [Credentials -> CredentialRows], OwnersKnown',
         \A q \in Credentials : CredentialStands(q), \A p \in Employees : EmployeeStands(p),
         NEW qs, NEW rows, Withdraws(rows, qs),
         \A row \in Rows : row.credential \notin qs /\ Current(row) => Current(row)',
         queue' \in Seq(Rows), DOMAIN queue \subseteq DOMAIN queue',
         \A e \in DOMAIN queue : queue'[e] = rows[e],
         \A e \in DOMAIN queue' \ DOMAIN queue : Added(queue'[e]) /\ Current(queue[e])',
         NEW n \in Nat, Len(queue') <= Len(queue) + n,
         Room(n) \/ Len(queue') = Len(queue)
  PROVE  Safe({})
<1>1. /\ TypeOK /\ Len(queue') \in Nat /\ Len(queue) \in Nat
      /\ \A e \in DOMAIN queue : queue[e] \in Rows /\ RowHonest(e)
      /\ clock \in Int
  BY QueueDomain, EmailAssumption DEF DeliveryInv, TypeOK, Times
<1>2. \A e \in DOMAIN queue : RowMoves({}, e)
  BY DEF RowMoves, Cancels, Written, Withdraws, Withdrawn
<1>3. ASSUME NEW e \in DOMAIN queue, queue'[e].status \in Waiting
      PROVE  Current(queue[e])'
  <2>1. queue[e].credential \notin qs /\ queue'[e] = queue[e]
    BY <1>3 DEF Withdraws, Withdrawn, Waiting
  <2>2. Current(queue[e]) /\ queue[e] \in Rows
    BY <1>1, <1>3, <2>1 DEF RowHonest
  <2>3. PICK row \in Rows : row = queue[e]
    BY <2>2
  <2>4. Current(row)' /\ row = queue'[e]
    BY <2>1, <2>2, <2>3
  <2> QED  BY <2>4 DEF Current
<1>4. \A e \in DOMAIN queue' \ DOMAIN queue : RowMade({}, e)
  BY DEF Added, RowMade
<1>5. Frame({})
  <2>1. \A e \in DOMAIN queue' : queue'[e].status \in Waiting => Current(queue[e])'
    BY <1>3
  <2>2. clock <= clock' /\ sender' = sender /\ inbox' = inbox
    BY <1>1
  <2> QED  BY <1>2, <1>4, <2>1, <2>2, Zenon DEF Frame
<1>6. RoomKept' /\ Len(queue') <= MaxEmails
  <2>1. CASE Room(n)
    BY <1>1, <1>5, <2>1, RoomForNew
  <2>2. CASE Len(queue') = Len(queue)
    BY <1>1, <1>5, <2>2, RoomStays DEF TypeOK
  <2> QED  BY <2>1, <2>2
<1>7. Types'
  BY <1>1, <1>6 DEF Types, TypeOK
<1> QED  BY <1>5, <1>6, <1>7 DEF Safe

(* With at most one new row.                                               *)
LEMMA RegistryKeeps ==
  ASSUME DeliveryInv, UNCHANGED <<sender, inbox, clock, faults>>, changes' \in 0..MaxChanges,
         employee' \in [Employees -> EmployeeRows],
         credential' \in [Credentials -> CredentialRows], OwnersKnown',
         \A q \in Credentials : CredentialStands(q), \A p \in Employees : EmployeeStands(p),
         NEW qs, Withdraws(queue', qs),
         \A row \in Rows : row.credential \notin qs /\ Current(row) => Current(row)'
  PROVE  Safe({})
<1>1. queue' \in Seq(Rows) /\ DOMAIN queue' = DOMAIN queue /\ Len(queue') = Len(queue)
  BY DEF Withdraws
<1>2. Len(queue') <= Len(queue) + 0 /\ 0 \in Nat
  BY <1>1, QueueDomain DEF DeliveryInv
<1> QED  BY <1>1, <1>2, RegistrySafe

LEMMA RegistryAdds ==
  ASSUME DeliveryInv, UNCHANGED <<sender, inbox, clock, faults>>, changes' \in 0..MaxChanges,
         employee' \in [Employees -> EmployeeRows],
         credential' \in [Credentials -> CredentialRows], OwnersKnown',
         \A r \in Credentials : CredentialStands(r), \A p \in Employees : EmployeeStands(p),
         NEW qs, NEW rows, Withdraws(rows, qs),
         \A row \in Rows : row.credential \notin qs /\ Current(row) => Current(row)',
         NEW q \in Credentials, NEW to \in Addresses, NEW mode \in {"SINGLE", "BULK"},
         queue' = Append(rows, NewRow(q, to, mode)), Room(1),
         credential[q].state = "UNISSUED" \/ credential[q].owner # None,
         credential'[q].state = "LIVE",
         NEW p, p = credential'[q].owner,
         p # None => employee'[p].state = "ACTIVE" /\ employee'[p].address = to
  PROVE  Safe({})
<1>1. PICK row : row = NewRow(q, to, mode)
  OBVIOUS
<1>2. TypeOK /\ clock \in Times
  BY DEF DeliveryInv, TypeOK
<1>3. /\ row \in Rows /\ RowAllowed(row) /\ row.credential = q /\ row.to = to
      /\ row.mark = "NONE" /\ row.status \in Waiting
  BY <1>1, <1>2, NewRowIs
<1>4. /\ rows \in Seq(Rows) /\ Len(rows) = Len(queue) /\ DOMAIN rows = DOMAIN queue
  BY DEF Withdraws
<1>5. PICK n : n = Len(queue) + 1
  OBVIOUS
<1>6. /\ queue' \in Seq(Rows) /\ Len(queue') = n /\ DOMAIN queue' = DOMAIN queue \cup {n}
      /\ \A f \in DOMAIN queue : queue'[f] = rows[f]
      /\ queue'[n] = row
  BY <1>1, <1>3, <1>4, <1>5, RowsAppended
<1>7. Added(queue'[n])
  BY <1>3, <1>6 DEF Added
<1>8. Current(queue[n])'
  BY <1>3, <1>6 DEF Current
<1>9. \A e \in DOMAIN queue' \ DOMAIN queue : Added(queue'[e]) /\ Current(queue[e])'
  BY <1>6, <1>7, <1>8
<1>10. Len(queue') <= Len(queue) + 1 /\ 1 \in Nat
  BY <1>2, <1>5, <1>6, QueueDomain
<1>11. DOMAIN queue \subseteq DOMAIN queue'
  BY <1>6
<1> QED  BY <1>6, <1>9, <1>10, <1>11, RegistrySafe

LEMMA RevokedRows ==
  ASSUME TypeOK, NEW qs, NEW rows, rows = Revoked(qs)
  PROVE  /\ rows \in [Credentials -> CredentialRows]
         /\ \A q \in Credentials :
              /\ rows[q].owner = credential[q].owner /\ rows[q].to = credential[q].to
              /\ rows[q].state = IF q \in qs THEN "REVOKED" ELSE credential[q].state
<1>1. credential \in [Credentials -> CredentialRows]
  BY DEF TypeOK
<1>2. /\ rows = [q \in Credentials |-> rows[q]]
      /\ \A q \in Credentials : rows[q] = IF q \in qs THEN [credential[q] EXCEPT !.state = "REVOKED"]
                                          ELSE credential[q]
  BY DEF Revoked
<1>3. ASSUME NEW q \in Credentials
      PROVE  /\ rows[q] \in CredentialRows
             /\ rows[q].owner = credential[q].owner /\ rows[q].to = credential[q].to
             /\ rows[q].state = IF q \in qs THEN "REVOKED" ELSE credential[q].state
  <2>1. credential[q] \in CredentialRows
    BY <1>1
  <2>2. CASE q \in qs
    <3>1. rows[q] = [credential[q] EXCEPT !.state = "REVOKED"]
      BY <1>2, <2>2
    <3> QED  BY <2>1, <2>2, <3>1 DEF CredentialRows
  <2>3. CASE q \notin qs
    BY <1>2, <2>1, <2>3
  <2> QED  BY <2>2, <2>3
<1> QED  BY <1>2, <1>3

LEMMA IssuedIs ==
  ASSUME NEW q, NEW p \in Employees \cup {None}, NEW to \in Addresses \cup {None},
         NEW expires \in Expiries, NEW row, row = Issued(q, p, to, expires)
  PROVE  /\ row \in CredentialRows /\ row.state = "LIVE" /\ row.owner = p /\ row.to = to
<1>1. expires \in 0..Never
  BY EmailAssumption DEF Times, Never
<1> QED  BY <1>1 DEF Issued, CredentialRows

(* A credential is issued, and others are revoked.                         *)
LEMMA CredentialIssued ==
  ASSUME TypeOK, NEW qs, NEW q \in Credentials,
         NEW old, old = Revoked(qs), NEW row \in CredentialRows, row.state = "LIVE",
         credential' = [old EXCEPT ![q] = row]
  PROVE  /\ credential' \in [Credentials -> CredentialRows]
         /\ credential'[q].state = "LIVE" /\ credential'[q].owner = row.owner
         /\ credential'[q].to = row.to
         /\ \A r \in Credentials \ {q} :
              /\ credential'[r].owner = credential[r].owner /\ credential'[r].to = credential[r].to
              /\ credential'[r].state = IF r \in qs THEN "REVOKED" ELSE credential[r].state
<1>1. /\ old \in [Credentials -> CredentialRows]
      /\ \A r \in Credentials :
              /\ old[r].owner = credential[r].owner /\ old[r].to = credential[r].to
              /\ old[r].state = IF r \in qs THEN "REVOKED" ELSE credential[r].state
  BY RevokedRows
<1>2. credential'[q] = row /\ \A r \in Credentials \ {q} : credential'[r] = old[r]
  BY <1>1
<1>3. credential' \in [Credentials -> CredentialRows]
  BY <1>1
<1> QED  BY <1>1, <1>2, <1>3

LEMMA NoneRevoked ==
  ASSUME TypeOK
  PROVE  Revoked({}) = credential
BY DEF Revoked, TypeOK

(* The tables as the invariant has them.                                   *)
LEMMA Tables ==
  ASSUME DeliveryInv
  PROVE  /\ TypeOK /\ OwnersKnown /\ employee \in [Employees -> EmployeeRows]
         /\ credential \in [Credentials -> CredentialRows] /\ changes \in 0..MaxChanges
         /\ \A p \in Employees : /\ employee[p] \in EmployeeRows /\ p # None
                                 /\ LiveOf(p) \in SUBSET Credentials
         /\ \A q \in Credentials :
              credential[q] \in CredentialRows /\ credential[q].owner \in Employees \cup {None}
BY EmailAssumption DEF DeliveryInv, TypeOK, CredentialRows, LiveOf

(* Owners stay known when only employees and nobody get credentials.       *)
LEMMA OwnersKept ==
  ASSUME DeliveryInv,
         \A p \in Employees :
           /\ employee'[p].state # "NONE" => employee'[p].address # None
           /\ employee[p].state # "NONE" => employee'[p].state # "NONE",
         \A q \in Credentials :
           \/ credential'[q].owner = None
           \/ /\ credential'[q].owner = credential[q].owner
              /\ credential[q].state # "UNISSUED" => credential'[q].state # "UNISSUED"
              /\ credential'[q].state = "LIVE" => credential[q].state = "LIVE"
  PROVE  OwnersKnown'
<1> USE Tables
<1>1. \A q \in Credentials : credential'[q].owner # None =>
        /\ credential'[q].state # "UNISSUED"
        /\ employee'[credential'[q].owner].state # "NONE"
  BY DEF OwnersKnown
<1>2. ASSUME NEW q \in Credentials, NEW r \in Credentials,
             credential'[q].owner # None, credential'[q].owner = credential'[r].owner,
             credential'[q].state = "LIVE", credential'[r].state = "LIVE"
      PROVE  q = r
  <2>1. /\ credential[q].owner # None /\ credential[q].owner = credential[r].owner
        /\ credential[q].state = "LIVE" /\ credential[r].state = "LIVE"
    BY <1>2
  <2> QED  BY <2>1 DEF OwnersKnown
<1> QED  BY <1>1, <1>2 DEF OwnersKnown

LEMMA RegisterSafe ==
  ASSUME DeliveryInv, NEW p \in Employees, NEW q \in Credentials, NEW to \in Addresses,
         NEW mode \in {"SINGLE", "BULK"}, NEW expires \in Expiries,
         Register(p, q, to, mode, expires)
  PROVE  Safe({})
<1> USE Tables
<1>1. /\ employee[p].state = "NONE" /\ credential[q].state = "UNISSUED" /\ Room(1)
      /\ employee' = [employee EXCEPT ![p] = [state |-> "ACTIVE", address |-> to]]
      /\ credential' = [credential EXCEPT ![q] = Issued(q, p, None, expires)]
      /\ queue' = Append(queue, NewRow(q, to, mode))
      /\ UNCHANGED <<sender, inbox, clock, faults>> /\ changes' \in 0..MaxChanges
  BY DEF Register, CanIssue, counters
<1>2. /\ credential' \in [Credentials -> CredentialRows]
      /\ credential'[q].state = "LIVE" /\ credential'[q].owner = p
      /\ \A r \in Credentials \ {q} :
           /\ credential'[r].owner = credential[r].owner /\ credential'[r].to = credential[r].to
           /\ credential'[r].state = credential[r].state
  <2>1. PICK row : row = Issued(q, p, None, expires)
    OBVIOUS
  <2>2. row \in CredentialRows /\ row.state = "LIVE" /\ row.owner = p
    BY <2>1, IssuedIs
  <2>3. credential' = [credential EXCEPT ![q] = row] /\ credential = Revoked({})
    BY <1>1, <2>1, NoneRevoked
  <2> QED  BY <2>2, <2>3, CredentialIssued
<1>3. /\ employee' \in [Employees -> EmployeeRows]
      /\ employee'[p].state = "ACTIVE" /\ employee'[p].address = to
      /\ \A o \in Employees \ {p} : employee'[o] = employee[o]
  BY <1>1 DEF EmployeeRows
<1>4. \A r \in Credentials : credential[r].owner # p
  BY <1>1 DEF OwnersKnown
<1>5. OwnersKnown'
  BY <1>1, <1>2, <1>3, <1>4, EmailAssumption DEF OwnersKnown
<1>6. \A r \in Credentials : CredentialStands(r)
  BY <1>1, <1>2 DEF CredentialStands
<1>7. \A o \in Employees : EmployeeStands(o)
  BY <1>1, <1>3 DEF EmployeeStands
<1>8. \A row \in Rows : row.credential \notin {} /\ Current(row) => Current(row)'
  BY <1>1, <1>2, <1>3, <1>4 DEF Current, Rows
<1> QED  BY <1>1, <1>2, <1>3, <1>5, <1>6, <1>7, <1>8, NoneWithdrawn, RegistryAdds

LEMMA ReplaceSafe ==
  ASSUME DeliveryInv, NEW p \in Employees, NEW q \in Credentials, NEW expires \in Expiries,
         Replace(p, q, expires)
  PROVE  Safe({})
<1>0. TypeOK
  BY Tables
<1>1. /\ employee[p].state = "ACTIVE" /\ credential[q].state = "UNISSUED" /\ Room(1) /\ Free(p)
      /\ credential' = [Revoked(LiveOf(p)) EXCEPT ![q] = Issued(q, p, None, expires)]
      /\ queue' = Append(CancelAll(LiveOf(p)), NewRow(q, employee[p].address, "SINGLE"))
      /\ UNCHANGED <<sender, inbox, clock, faults>> /\ changes' \in 0..MaxChanges
      /\ UNCHANGED employee
  BY Tables DEF Replace, CanIssue, counters
<1>2. /\ credential' \in [Credentials -> CredentialRows]
      /\ credential'[q].state = "LIVE" /\ credential'[q].owner = p
      /\ \A r \in Credentials \ {q} :
           /\ credential'[r].owner = credential[r].owner /\ credential'[r].to = credential[r].to
           /\ credential'[r].state = IF r \in LiveOf(p) THEN "REVOKED" ELSE credential[r].state
  <2>2. PICK qs : qs = LiveOf(p)
    OBVIOUS
  <2>3. PICK old, row : old = Revoked(qs) /\ row = Issued(q, p, None, expires)
    OBVIOUS
  <2>4. row \in CredentialRows /\ row.state = "LIVE" /\ row.owner = p
    BY <2>3, IssuedIs
  <2>5. credential' = [old EXCEPT ![q] = row]
    BY <1>1, <2>2, <2>3
  <2>6. credential' \in [Credentials -> CredentialRows]
    BY <1>0, <2>3, <2>4, <2>5, CredentialIssued
  <2>7. credential'[q].state = "LIVE" /\ credential'[q].owner = row.owner
    BY <1>0, <2>3, <2>4, <2>5, CredentialIssued
  <2>8. \A r \in Credentials \ {q} :
          /\ credential'[r].owner = credential[r].owner /\ credential'[r].to = credential[r].to
          /\ credential'[r].state = IF r \in qs THEN "REVOKED" ELSE credential[r].state
    BY <1>0, <2>3, <2>4, <2>5, CredentialIssued
  <2> QED  BY <2>2, <2>4, <2>6, <2>7, <2>8
<1>3. employee[p].address \in Addresses
  BY <1>1, Tables DEF OwnersKnown, EmployeeRows
<1>4. OwnersKnown'
  <2>1. \A o \in Employees : employee'[o].state # "NONE" => employee'[o].address # None
    BY <1>1, Tables DEF OwnersKnown
  <2>2. \A r \in Credentials : credential'[r].owner # None =>
          /\ credential'[r].state # "UNISSUED"
          /\ employee'[credential'[r].owner].state # "NONE"
    BY <1>1, <1>2, Tables DEF OwnersKnown
  <2>3. \A r \in Credentials \ {q} :
          ~ (credential'[r].owner = p /\ credential'[r].state = "LIVE")
    BY <1>2 DEF LiveOf
  <2>4. ASSUME NEW r \in Credentials \ {q}, NEW u \in Credentials \ {q},
               credential'[r].owner # None, credential'[r].owner = credential'[u].owner,
               credential'[r].state = "LIVE", credential'[u].state = "LIVE"
        PROVE  r = u
    <3>1. /\ credential[r].owner # None /\ credential[r].owner = credential[u].owner
          /\ credential[r].state = "LIVE" /\ credential[u].state = "LIVE"
      BY <1>2, <2>4
    <3> QED  BY <3>1, Tables DEF OwnersKnown
  <2>5. credential'[q].owner = p
    BY <1>2
  <2> QED  BY <2>1, <2>2, <2>3, <2>4, <2>5, Tables DEF OwnersKnown
<1>5. \A r \in LiveOf(p) : Free(LockOf(r))
  BY <1>1, Tables DEF LiveOf, LockOf
<1>6. \A r \in Credentials : CredentialStands(r)
  BY <1>1, <1>2, <1>5 DEF CredentialStands
<1>7. \A o \in Employees : EmployeeStands(o)
  BY <1>1 DEF EmployeeStands
<1>8. \A row \in Rows : row.credential \notin LiveOf(p) /\ Current(row) => Current(row)'
  BY <1>1, <1>2, Tables DEF Current, Rows
<1>9. Withdraws(CancelAll(LiveOf(p)), LiveOf(p))
  BY <1>1, AllWithdrawn
<1>10. employee' \in [Employees -> EmployeeRows] /\ employee'[p].state = "ACTIVE"
       /\ employee'[p].address = employee[p].address
  BY <1>1, Tables
<1> QED  BY <1>1, <1>2, <1>3, <1>4, <1>6, <1>7, <1>8, <1>9, <1>10, RegistryAdds

LEMMA RevokeSafe ==
  ASSUME DeliveryInv, NEW q \in Credentials, Revoke(q)
  PROVE  Safe({})
<1> USE Tables
<1>1. /\ credential[q].state = "LIVE" /\ Free(LockOf(q))
      /\ credential' = Revoked({q}) /\ queue' = Cancelled(queue, q)
      /\ UNCHANGED <<employee, sender, inbox, clock, faults>> /\ changes' \in 0..MaxChanges
  BY EmailAssumption DEF Revoke, Change
<1>2. /\ credential' \in [Credentials -> CredentialRows]
      /\ \A r \in Credentials :
           /\ credential'[r].owner = credential[r].owner /\ credential'[r].to = credential[r].to
           /\ credential'[r].state = IF r \in {q} THEN "REVOKED" ELSE credential[r].state
  BY <1>1, RevokedRows
<1>3. OwnersKnown'
  BY <1>1, <1>2, OwnersKept DEF OwnersKnown
<1>4. \A r \in Credentials : CredentialStands(r)
  BY <1>1, <1>2 DEF CredentialStands
<1>5. \A o \in Employees : EmployeeStands(o)
  BY <1>1 DEF EmployeeStands
<1>6. \A row \in Rows : row.credential \notin {q} /\ Current(row) => Current(row)'
  BY <1>1, <1>2 DEF Current, Rows
<1>7. Withdraws(queue', {q})
  BY <1>1, OneWithdrawn
<1> QED  BY <1>1, <1>2, <1>3, <1>4, <1>5, <1>6, <1>7, RegistryKeeps

LEMMA ChangeAddressSafe ==
  ASSUME DeliveryInv, NEW p \in Employees, NEW to \in Addresses, ChangeAddress(p, to)
  PROVE  Safe({})
<1> DEFINE live == LiveOf(p)
           usable == {q \in live : employee[p].state = "ACTIVE" /\ ~Expired(q)}
<1>1. /\ employee[p].state \in {"ACTIVE", "INACTIVE"} /\ Free(p)
      /\ usable # {} => Room(1)
      /\ employee' = [employee EXCEPT ![p].address = to]
      /\ queue' = IF usable = {} THEN CancelAll(live)
                  ELSE Append(CancelAll(live), NewRow(CHOOSE q \in usable : TRUE, to, "SINGLE"))
      /\ UNCHANGED <<credential, sender, inbox, clock, faults>> /\ changes' \in 0..MaxChanges
  BY EmailAssumption, Tables DEF ChangeAddress, Change
<1>2. /\ employee' \in [Employees -> EmployeeRows]
      /\ employee'[p].state = employee[p].state /\ employee'[p].address = to
      /\ \A o \in Employees \ {p} : employee'[o] = employee[o]
  BY <1>1, Tables DEF EmployeeRows
<1>3. OwnersKnown'
  <2>1. \A o \in Employees :
           /\ employee'[o].state # "NONE" => employee'[o].address # None
           /\ employee[o].state # "NONE" => employee'[o].state # "NONE"
    BY <1>2, Tables, EmailAssumption DEF OwnersKnown
  <2> QED  BY <1>1, <2>1, OwnersKept
<1>4. \A r \in Credentials : CredentialStands(r)
  BY <1>1 DEF CredentialStands
<1>5. \A o \in Employees : EmployeeStands(o)
  BY <1>1, <1>2 DEF EmployeeStands
<1>6. \A row \in Rows : row.credential \notin live /\ Current(row) => Current(row)'
  BY <1>1, <1>2, Tables DEF Current, Rows, LiveOf
<1>7. PICK rows : rows = CancelAll(live)
  OBVIOUS
<1>8. Withdraws(rows, live)
  BY <1>1, <1>7, AllWithdrawn
<1>9. credential' \in [Credentials -> CredentialRows]
  BY <1>1, Tables
<1>10. CASE usable = {}
  <2>1. Withdraws(queue', live)
    BY <1>1, <1>7, <1>8, <1>10
  <2> QED  BY <1>1, <1>2, <1>3, <1>4, <1>5, <1>6, <1>9, <2>1, RegistryKeeps
<1>11. CASE usable # {}
  <2>1. PICK q : q = CHOOSE r \in usable : TRUE
    OBVIOUS
  <2>2. q \in usable
    BY <1>11, <2>1
  <2>3. /\ q \in Credentials /\ credential[q].owner = p /\ credential[q].state = "LIVE"
        /\ employee[p].state = "ACTIVE"
    BY <2>2 DEF LiveOf
  <2>4. queue' = Append(rows, NewRow(q, to, "SINGLE")) /\ Room(1)
    BY <1>1, <1>7, <1>11, <2>1
  <2>5. /\ credential[q].owner # None /\ credential'[q].state = "LIVE" /\ credential'[q].owner = p
        /\ employee'[p].state = "ACTIVE" /\ employee'[p].address = to
    BY <1>1, <1>2, <2>3, EmailAssumption
  <2>6. UNCHANGED <<sender, inbox, clock, faults>> /\ changes' \in 0..MaxChanges
    BY <1>1
  <2>7. PICK qs : qs = live
    OBVIOUS
  <2>8. /\ Withdraws(rows, qs)
        /\ \A row \in Rows : row.credential \notin qs /\ Current(row) => Current(row)'
    BY <1>6, <1>8, <2>7
  <2> HIDE DEF usable, live
  <2> QED  BY <1>2, <1>3, <1>4, <1>5, <1>9, <2>3, <2>4, <2>5, <2>6, <2>8, RegistryAdds
<1> QED  BY <1>10, <1>11

LEMMA SetActiveSafe ==
  ASSUME DeliveryInv, NEW p \in Employees, NEW active \in BOOLEAN, SetActive(p, active)
  PROVE  Safe({})
<1>1. /\ employee[p].state \in {"ACTIVE", "INACTIVE"} /\ Free(p)
      /\ employee' = [employee EXCEPT ![p].state = IF active THEN "ACTIVE" ELSE "INACTIVE"]
      /\ queue' = IF active THEN queue ELSE CancelAll(LiveOf(p))
      /\ UNCHANGED <<credential, sender, inbox, clock, faults>> /\ changes' \in 0..MaxChanges
  BY EmailAssumption, Tables DEF SetActive, Change
<1>2. /\ employee' \in [Employees -> EmployeeRows]
      /\ employee'[p].state = IF active THEN "ACTIVE" ELSE "INACTIVE"
      /\ employee'[p].address = employee[p].address
      /\ \A o \in Employees \ {p} : employee'[o] = employee[o]
  BY <1>1, Tables DEF EmployeeRows
<1>3. OwnersKnown'
  <2>1. \A o \in Employees :
           /\ employee'[o].state # "NONE" => employee'[o].address # None
           /\ employee[o].state # "NONE" => employee'[o].state # "NONE"
    BY <1>1, <1>2, Tables DEF OwnersKnown
  <2> QED  BY <1>1, <2>1, OwnersKept
<1>4. \A r \in Credentials : CredentialStands(r)
  BY <1>1 DEF CredentialStands
<1>5. \A o \in Employees : EmployeeStands(o)
  BY <1>1, <1>2 DEF EmployeeStands
<1>6. credential' \in [Credentials -> CredentialRows]
  BY <1>1, Tables
<1>7. CASE active
  <2>1. \A row \in Rows : row.credential \notin {} /\ Current(row) => Current(row)'
    BY <1>1, <1>2, <1>7, Tables DEF Current, Rows
  <2>2. Withdraws(queue', {})
    BY <1>1, <1>7, Tables, NoneWithdrawn
  <2> QED  BY <1>1, <1>2, <1>3, <1>4, <1>5, <1>6, <2>1, <2>2, RegistryKeeps
<1>8. CASE ~ active
  <2>1. \A row \in Rows : row.credential \notin LiveOf(p) /\ Current(row) => Current(row)'
    BY <1>1, <1>2, Tables DEF Current, Rows, LiveOf
  <2>2. Withdraws(queue', LiveOf(p))
    BY <1>1, <1>8, AllWithdrawn
  <2> QED  BY <1>1, <1>2, <1>3, <1>4, <1>5, <1>6, <2>1, <2>2, RegistryKeeps
<1> QED  BY <1>7, <1>8

LEMMA ArchiveSafe ==
  ASSUME DeliveryInv, NEW p \in Employees, Archive(p)
  PROVE  Safe({})
<1>1. /\ employee[p].state \in {"ACTIVE", "INACTIVE"} /\ Free(p) /\ TypeOK
      /\ employee' = [employee EXCEPT ![p].state = "ARCHIVED"]
      /\ credential' = Revoked(LiveOf(p)) /\ queue' = CancelAll(LiveOf(p))
      /\ UNCHANGED <<sender, inbox, clock, faults>> /\ changes' \in 0..MaxChanges
  BY EmailAssumption, Tables DEF Archive, Change
<1>2. /\ employee' \in [Employees -> EmployeeRows]
      /\ employee'[p].state = "ARCHIVED" /\ employee'[p].address = employee[p].address
      /\ \A o \in Employees \ {p} : employee'[o] = employee[o]
  BY <1>1, Tables DEF EmployeeRows
<1>3. /\ credential' \in [Credentials -> CredentialRows]
      /\ \A r \in Credentials :
           /\ credential'[r].owner = credential[r].owner /\ credential'[r].to = credential[r].to
           /\ credential'[r].state = IF r \in LiveOf(p) THEN "REVOKED" ELSE credential[r].state
  BY <1>1, RevokedRows
<1>4. OwnersKnown'
  <2>1. \A o \in Employees :
           /\ employee'[o].state # "NONE" => employee'[o].address # None
           /\ employee[o].state # "NONE" => employee'[o].state # "NONE"
    BY <1>1, <1>2, Tables DEF OwnersKnown
  <2> QED  BY <1>3, <2>1, OwnersKept
<1>5. \A r \in Credentials : CredentialStands(r)
  BY <1>1, <1>3, Tables DEF CredentialStands, LiveOf, LockOf
<1>6. \A o \in Employees : EmployeeStands(o)
  BY <1>1, <1>2 DEF EmployeeStands
<1>7. \A row \in Rows : row.credential \notin LiveOf(p) /\ Current(row) => Current(row)'
  BY <1>2, <1>3, Tables DEF Current, Rows, LiveOf
<1>8. Withdraws(queue', LiveOf(p))
  BY <1>1, AllWithdrawn
<1> QED  BY <1>1, <1>2, <1>3, <1>4, <1>5, <1>6, <1>7, <1>8, RegistryKeeps

LEMMA ResendSafe ==
  ASSUME DeliveryInv, NEW p \in Employees, NEW q \in Credentials, Resend(p, q)
  PROVE  Safe({})
<1>1. /\ employee[p].state = "ACTIVE" /\ credential[q].owner = p /\ credential[q].state = "LIVE"
      /\ queue' = Append(queue, NewRow(q, employee[p].address, "SINGLE")) /\ Room(1)
      /\ UNCHANGED <<employee, credential, sender, inbox, clock, faults>>
      /\ changes' \in 0..MaxChanges
  BY Tables DEF Resend, registry, counters, LiveOf
<1>2. OwnersKnown' /\ (\A r \in Credentials : CredentialStands(r))
      /\ \A o \in Employees : EmployeeStands(o)
  BY <1>1, OwnersStay DEF registry
<1>3. \A row \in Rows : row.credential \notin {} /\ Current(row) => Current(row)'
  BY <1>1, OwnersStay DEF registry
<1>4. Withdraws(queue, {}) /\ p # None /\ employee[p].address \in Addresses
  BY <1>1, Tables, NoneWithdrawn DEF OwnersKnown, EmployeeRows
<1>5. /\ employee' \in [Employees -> EmployeeRows]
      /\ credential' \in [Credentials -> CredentialRows]
      /\ employee'[p].state = "ACTIVE" /\ employee'[p].address = employee[p].address
      /\ credential[q].owner # None /\ credential'[q].state = "LIVE" /\ credential'[q].owner = p
  BY <1>1, <1>4, Tables
<1> QED  BY <1>1, <1>2, <1>3, <1>4, <1>5, RegistryAdds

(* One credential of a visitor is issued, another one perhaps revoked.     *)
LEMMA VisitorIssued ==
  ASSUME DeliveryInv, NEW qs, NEW q \in Credentials, NEW to \in Addresses \cup {None},
         NEW expires \in Expiries, NEW old, old = Revoked(qs),
         NEW row, row = Issued(q, None, to, expires), credential' = [old EXCEPT ![q] = row],
         UNCHANGED employee, credential[q].state = "UNISSUED",
         \A r \in qs : Free(LockOf(r))
  PROVE  /\ credential' \in [Credentials -> CredentialRows]
         /\ credential'[q].state = "LIVE" /\ credential'[q].owner = None
         /\ OwnersKnown' /\ \A r \in Credentials : CredentialStands(r)
         /\ \A p \in Employees : EmployeeStands(p)
         /\ \A r \in Rows : r.credential \notin qs /\ Current(r) => Current(r)'
<1>1. row \in CredentialRows /\ row.state = "LIVE" /\ row.owner = None /\ row.to = to
  BY IssuedIs
<1>2. TypeOK
  BY Tables
<1>3. /\ credential' \in [Credentials -> CredentialRows]
      /\ credential'[q].state = "LIVE" /\ credential'[q].owner = None /\ credential'[q].to = to
      /\ \A r \in Credentials \ {q} :
           /\ credential'[r].owner = credential[r].owner /\ credential'[r].to = credential[r].to
           /\ credential'[r].state = IF r \in qs THEN "REVOKED" ELSE credential[r].state
  BY <1>1, <1>2, CredentialIssued
<1>4. OwnersKnown'
  <2>1. \A p \in Employees :
          /\ employee'[p].state # "NONE" => employee'[p].address # None
          /\ employee[p].state # "NONE" => employee'[p].state # "NONE"
    BY Tables DEF OwnersKnown
  <2> QED  BY <1>3, <2>1, OwnersKept
<1>5. \A r \in Credentials : CredentialStands(r)
  BY <1>3 DEF CredentialStands
<1>6. \A p \in Employees : EmployeeStands(p)
  BY DEF EmployeeStands
<1>7. \A r \in Rows : r.credential \notin qs /\ Current(r) => Current(r)'
  BY <1>3 DEF Current, Rows
<1> QED  BY <1>3, <1>4, <1>5, <1>6, <1>7

LEMMA IssueVisitorSafe ==
  ASSUME DeliveryInv, NEW q \in Credentials, NEW to \in Addresses \cup {None},
         NEW expires \in Expiries, IssueVisitor(q, to, expires)
  PROVE  Safe({})
<1>1. /\ credential[q].state = "UNISSUED" /\ Room(1)
      /\ queue' = IF to = None THEN queue ELSE Append(queue, NewRow(q, to, "SINGLE"))
      /\ UNCHANGED <<employee, sender, inbox, clock, faults>>
      /\ changes' \in 0..MaxChanges /\ employee' \in [Employees -> EmployeeRows] /\ TypeOK
  BY Tables DEF IssueVisitor, CanIssue, counters
<1>0. PICK qs : qs = {}
  OBVIOUS
<1>2. PICK old, row : old = Revoked(qs) /\ row = Issued(q, None, to, expires)
  OBVIOUS
<1>3. credential' = [old EXCEPT ![q] = row] /\ \A r \in qs : Free(LockOf(r))
  BY <1>0, <1>1, <1>2, NoneRevoked DEF IssueVisitor
<1>4. /\ credential' \in [Credentials -> CredentialRows]
      /\ credential'[q].state = "LIVE" /\ credential'[q].owner = None
      /\ OwnersKnown' /\ \A r \in Credentials : CredentialStands(r)
      /\ \A p \in Employees : EmployeeStands(p)
      /\ \A r \in Rows : r.credential \notin qs /\ Current(r) => Current(r)'
  BY <1>1, <1>2, <1>3, VisitorIssued
<1>5. Withdraws(queue, qs)
  BY <1>0, <1>1, NoneWithdrawn
<1>6. CASE to = None
  <2>1. Withdraws(queue', qs)
    BY <1>1, <1>5, <1>6
  <2> QED  BY <1>1, <1>4, <2>1, RegistryKeeps
<1>7. CASE to # None
  <2>1. queue' = Append(queue, NewRow(q, to, "SINGLE")) /\ to \in Addresses
    BY <1>1, <1>7
  <2> QED  BY <1>1, <1>4, <1>5, <2>1, RegistryAdds
<1> QED  BY <1>6, <1>7

LEMMA ReplaceVisitorSafe ==
  ASSUME DeliveryInv, NEW former \in Credentials, NEW q \in Credentials,
         NEW to \in Addresses \cup {None}, NEW expires \in Expiries,
         ReplaceVisitor(former, q, to, expires)
  PROVE  Safe({})
<1>1. /\ credential[q].state = "UNISSUED" /\ Room(1) /\ Free(LockOf(former))
      /\ credential[former].state = "LIVE"
      /\ queue' = IF to = None THEN Cancelled(queue, former)
                  ELSE Append(Cancelled(queue, former), NewRow(q, to, "SINGLE"))
      /\ UNCHANGED <<employee, sender, inbox, clock, faults>>
      /\ changes' \in 0..MaxChanges /\ employee' \in [Employees -> EmployeeRows] /\ TypeOK
  BY Tables DEF ReplaceVisitor, CanIssue, counters, IsVisitor, LockOf
<1>2. PICK old, row : old = Revoked({former}) /\ row = Issued(q, None, to, expires)
  OBVIOUS
<1>3. credential' = [old EXCEPT ![q] = row]
  BY <1>2 DEF ReplaceVisitor
<1>4. /\ credential' \in [Credentials -> CredentialRows]
      /\ credential'[q].state = "LIVE" /\ credential'[q].owner = None
      /\ OwnersKnown' /\ \A r \in Credentials : CredentialStands(r)
      /\ \A p \in Employees : EmployeeStands(p)
      /\ \A r \in Rows : r.credential \notin {former} /\ Current(r) => Current(r)'
  BY <1>1, <1>2, <1>3, VisitorIssued
<1>5. PICK rows : rows = Cancelled(queue, former)
  OBVIOUS
<1>6. Withdraws(rows, {former})
  BY <1>1, <1>5, OneWithdrawn
<1>7. CASE to = None
  <2>1. Withdraws(queue', {former})
    BY <1>1, <1>5, <1>6, <1>7
  <2> QED  BY <1>1, <1>4, <2>1, RegistryKeeps
<1>8. CASE to # None
  <2>1. queue' = Append(rows, NewRow(q, to, "SINGLE")) /\ to \in Addresses
    BY <1>1, <1>5, <1>8
  <2> QED  BY <1>1, <1>4, <1>6, <2>1, RegistryAdds
<1> QED  BY <1>7, <1>8

LEMMA UseUpSafe ==
  ASSUME DeliveryInv, NEW q \in Credentials, UseUp(q)
  PROVE  Safe({})
<1>1. /\ UNCHANGED <<employee, queue, sender, inbox, clock, faults>> /\ TypeOK
      /\ changes' \in 0..MaxChanges /\ employee' \in [Employees -> EmployeeRows]
      /\ credential' = [credential EXCEPT ![q].usedUp = TRUE]
  BY Tables, EmailAssumption DEF UseUp, Change
<1>2. /\ credential' \in [Credentials -> CredentialRows]
      /\ \A r \in Credentials :
           /\ credential'[r].owner = credential[r].owner /\ credential'[r].to = credential[r].to
           /\ credential'[r].state = credential[r].state
  BY <1>1, Tables DEF CredentialRows
<1>3. OwnersKnown'
  <2>1. \A p \in Employees :
          /\ employee'[p].state # "NONE" => employee'[p].address # None
          /\ employee[p].state # "NONE" => employee'[p].state # "NONE"
    BY <1>1, Tables DEF OwnersKnown
  <2> QED  BY <1>2, <2>1, OwnersKept
<1>4. \A r \in Credentials : CredentialStands(r)
  BY <1>2 DEF CredentialStands
<1>5. \A p \in Employees : EmployeeStands(p)
  BY <1>1 DEF EmployeeStands
<1>6. \A row \in Rows : row.credential \notin {} /\ Current(row) => Current(row)'
  BY <1>1, <1>2 DEF Current, Rows
<1>7. Withdraws(queue', {})
  BY <1>1, NoneWithdrawn
<1> QED  BY <1>1, <1>2, <1>3, <1>4, <1>5, <1>6, <1>7, RegistryKeeps

(* Rows joined to the queue.                                               *)
LEMMA RowsJoined ==
  ASSUME NEW rows \in Seq(Rows), NEW n \in Nat, NEW more \in [1..n -> Rows]
  PROVE  LET new == rows \o more
         IN /\ new \in Seq(Rows) /\ Len(new) = Len(rows) + n
            /\ DOMAIN rows \subseteq DOMAIN new
            /\ \A e \in DOMAIN rows : new[e] = rows[e]
            /\ \A e \in DOMAIN new \ DOMAIN rows : \E i \in 1..n : new[e] = more[i]
<1>1. more \in Seq(Rows) /\ Len(more) = n /\ Len(rows) \in Nat /\ DOMAIN rows = 1..Len(rows)
  OBVIOUS
<1> DEFINE new == rows \o more
<1>2. new \in Seq(Rows) /\ Len(new) = Len(rows) + n
  BY <1>1
<1>3. /\ DOMAIN new = 1..(Len(rows) + n)
      /\ \A e \in 1..(Len(rows) + n) :
           new[e] = IF e <= Len(rows) THEN rows[e] ELSE more[e - Len(rows)]
  BY <1>1
<1> HIDE DEF new
<1>4. \A e \in DOMAIN rows : e \in DOMAIN new /\ new[e] = rows[e]
  BY <1>1, <1>3
<1>5. ASSUME NEW e \in DOMAIN new \ DOMAIN rows PROVE \E i \in 1..n : new[e] = more[i]
  <2>1. e \in 1..(Len(rows) + n) /\ ~ (e <= Len(rows)) /\ e - Len(rows) \in 1..n
    BY <1>1, <1>3
  <2> QED  BY <1>3, <2>1
<1> QED  BY <1>2, <1>4, <1>5 DEF new

(* A finite set can be listed without repetition.                          *)
LEMMA Listed ==
  ASSUME NEW qs, IsFiniteSet(qs)
  PROVE  /\ Cardinality(qs) \in Nat
         /\ \E f \in [1..Cardinality(qs) -> qs] : \A i, j \in DOMAIN f : f[i] = f[j] => i = j
<1>1. Cardinality(qs) \in Nat /\ ExistsBijection(1..Cardinality(qs), qs)
  BY FS_CardinalityType
<1>2. PICK f : f \in Bijection(1..Cardinality(qs), qs)
  BY <1>1, Fun_ExistsBij
<1>3. /\ f \in [1..Cardinality(qs) -> qs]
      /\ \A i, j \in 1..Cardinality(qs) : f[i] = f[j] => i = j
  BY <1>2, Fun_BijectionProperties
<1> QED  BY <1>1, <1>3

LEMMA IssueBatchSafe ==
  ASSUME DeliveryInv, NEW qs \in SUBSET Credentials, NEW to \in Addresses,
         NEW expires \in Expiries, IssueBatch(qs, to, expires)
  PROVE  Safe({})
<1> DEFINE added == CHOOSE f \in [1..Cardinality(qs) -> qs] :
                      \A i, j \in DOMAIN f : f[i] = f[j] => i = j
<1>1. /\ \A q \in qs : credential[q].state = "UNISSUED"
      /\ Room(Cardinality(qs)) /\ TypeOK /\ clock \in Times /\ queue \in Seq(Rows)
      /\ credential' = [q \in Credentials |->
           IF q \in qs THEN Issued(q, None, to, expires) ELSE credential[q]]
      /\ queue' = queue \o [i \in DOMAIN added |-> NewRow(added[i], to, "BULK")]
      /\ UNCHANGED <<employee, sender, inbox, clock, faults>>
      /\ changes' \in 0..MaxChanges /\ employee' \in [Employees -> EmployeeRows]
  BY Tables DEF IssueBatch, CanIssue, counters, TypeOK
<1>2. PICK n \in Nat : n = Cardinality(qs)
  BY EmailAssumption, FS_Subset, Listed
<1>3. added \in [1..n -> qs]
  BY <1>2, EmailAssumption, FS_Subset, Listed
<1> HIDE DEF added
<1> DEFINE more == [i \in DOMAIN added |-> NewRow(added[i], to, "BULK")]
<1>4. \A i \in 1..n : /\ more[i] \in Rows /\ RowAllowed(more[i]) /\ more[i].credential \in qs
                      /\ more[i].mark = "NONE" /\ more[i].status \in Waiting
  <2> SUFFICES ASSUME NEW i \in 1..n
               PROVE  /\ more[i] \in Rows /\ RowAllowed(more[i]) /\ more[i].credential \in qs
                      /\ more[i].mark = "NONE" /\ more[i].status \in Waiting
    OBVIOUS
  <2>1. more[i] = NewRow(added[i], to, "BULK") /\ added[i] \in qs /\ added[i] \in Credentials
    BY <1>3
  <2> QED  BY <1>1, <2>1, NewRowIs
<1>5. more \in [1..n -> Rows] /\ queue' = queue \o more
  BY <1>1, <1>3, <1>4
<1> HIDE DEF more
<1>a. PICK rows, list : rows = queue /\ list = more
  OBVIOUS
<1>b. rows \in Seq(Rows) /\ list \in [1..n -> Rows]
  BY <1>1, <1>5, <1>a
<1>c. queue' = rows \o list
  BY <1>5, <1>a
<1>d. rows \o list \in Seq(Rows) /\ Len(rows \o list) = Len(rows) + n
  BY <1>2, <1>b, RowsJoined
<1>e. /\ DOMAIN rows \subseteq DOMAIN (rows \o list)
      /\ \A e \in DOMAIN rows : (rows \o list)[e] = rows[e]
  BY <1>2, <1>b, RowsJoined
<1>f. \A e \in DOMAIN (rows \o list) \ DOMAIN rows :
        \E i \in 1..n : (rows \o list)[e] = list[i]
  BY <1>2, <1>b, RowsJoined
<1>6. /\ queue' \in Seq(Rows) /\ Len(queue') = Len(queue) + n
      /\ DOMAIN queue \subseteq DOMAIN queue'
      /\ \A e \in DOMAIN queue : queue'[e] = queue[e]
      /\ \A e \in DOMAIN queue' \ DOMAIN queue : \E i \in 1..n : queue'[e] = more[i]
  BY <1>a, <1>c, <1>d, <1>e, <1>f
<1>7. \A q \in Credentials :
        /\ q \in qs => /\ credential'[q] \in CredentialRows /\ credential'[q].state = "LIVE"
                       /\ credential'[q].owner = None
        /\ q \notin qs => credential'[q] = credential[q]
  <2> SUFFICES ASSUME NEW q \in Credentials
               PROVE  /\ q \in qs => /\ credential'[q] \in CredentialRows
                                     /\ credential'[q].state = "LIVE"
                                     /\ credential'[q].owner = None
                      /\ q \notin qs => credential'[q] = credential[q]
    OBVIOUS
  <2>1. q \in qs => credential'[q] = Issued(q, None, to, expires)
    BY <1>1
  <2>2. q \notin qs => credential'[q] = credential[q]
    BY <1>1
  <2> QED  BY <2>1, <2>2, IssuedIs
<1>8. credential' \in [Credentials -> CredentialRows]
  <2>1. credential' = [q \in Credentials |-> credential'[q]]
    BY <1>1
  <2> QED  BY <1>7, <2>1, Tables
<1>9. OwnersKnown'
  <2>1. \A p \in Employees :
          /\ employee'[p].state # "NONE" => employee'[p].address # None
          /\ employee[p].state # "NONE" => employee'[p].state # "NONE"
    BY <1>1, Tables DEF OwnersKnown
  <2> QED  BY <1>7, <2>1, OwnersKept
<1>10. \A r \in Credentials : CredentialStands(r)
  BY <1>1, <1>7 DEF CredentialStands
<1>11. \A p \in Employees : EmployeeStands(p)
  BY <1>1 DEF EmployeeStands
<1>12. \A row \in Rows : row.credential \notin {} /\ Current(row) => Current(row)'
  BY <1>1, <1>7 DEF Current, Rows
<1>13. ASSUME NEW e \in DOMAIN queue' \ DOMAIN queue
       PROVE  Added(queue'[e]) /\ Current(queue[e])'
  <2>1. PICK i \in 1..n : queue'[e] = more[i]
    BY <1>6
  <2>2. PICK q \in qs : more[i].credential = q
    BY <1>4
  <2>3. Added(queue'[e])
    BY <1>1, <1>4, <2>1 DEF Added
  <2>4. Current(queue[e])'
    BY <1>7, <2>1, <2>2 DEF Current
  <2> QED  BY <2>3, <2>4
<1>14. Withdraws(queue, {}) /\ Room(n) /\ Len(queue') <= Len(queue) + n
  <2>1. Len(queue') = Len(queue) + n /\ Len(queue) \in Nat
    BY <1>1, <1>6, QueueDomain
  <2> QED  BY <1>1, <1>2, <2>1, NoneWithdrawn
<1> QED  BY <1>1, <1>6, <1>8, <1>9, <1>10, <1>11, <1>12, <1>13, <1>14, RegistrySafe

LEMMA TickSafe ==
  ASSUME DeliveryInv, Tick
  PROVE  Safe({})
<1>1. /\ clock \in Int /\ clock' = clock + 1 /\ clock' \in Times /\ TypeOK
      /\ UNCHANGED <<registry, queue, sender, inbox, changes, faults>>
  BY EmailAssumption DEF Tick, DeliveryInv, TypeOK, Times
<1>2. /\ OwnersKnown' /\ \A q \in Credentials : CredentialStands(q)
      /\ \A p \in Employees : EmployeeStands(p)
      /\ \A row \in Rows : Current(row)' = Current(row)
  BY <1>1, OwnersStay
<1>3. \A e \in DOMAIN queue' : queue'[e].status \in Waiting => Current(queue[e])'
  BY <1>1, <1>2, QueueDomain DEF DeliveryInv, RowHonest
<1>4. \A e \in DOMAIN queue : RowMoves({}, e)
  BY <1>1 DEF RowMoves
<1>5. Frame({})
  <2>1. clock <= clock' /\ queue' = queue /\ sender' = sender /\ inbox' = inbox
    BY <1>1
  <2> QED  BY <1>2, <1>3, <1>4, <2>1, Zenon DEF Frame
<1>6. Types'
  BY <1>1 DEF Types, TypeOK, registry
<1>7. RoomKept'
  BY <1>1, <1>5, RoomStays
<1> QED  BY <1>2, <1>5, <1>6, <1>7 DEF Safe

LEMMA ApproveBulkSafe ==
  ASSUME DeliveryInv, NEW es \in SUBSET DOMAIN queue, ApproveBulk(es)
  PROVE  Safe({})
<1> DEFINE pending == {e \in es : queue[e].status = "PENDING_APPROVAL"}
<1>1. /\ TypeOK /\ queue \in Seq(Rows) /\ clock \in Times /\ clock \in Int
      /\ queue' = Approved(queue, pending)
      /\ UNCHANGED <<registry, sender, inbox, counters>>
      /\ \A e \in es : queue[e].mode = "BULK"
  BY EmailAssumption DEF ApproveBulk, DeliveryInv, TypeOK, Times
<1>2. PICK approved : approved = pending
  OBVIOUS
<1>3. /\ queue' \in Seq(Rows) /\ Len(queue') = Len(queue) /\ DOMAIN queue' = DOMAIN queue
      /\ \A e \in DOMAIN queue \ approved : queue'[e] = queue[e]
      /\ \A e \in DOMAIN queue \cap approved :
           /\ queue'[e].credential = queue[e].credential /\ queue'[e].to = queue[e].to
           /\ queue'[e].mode = queue[e].mode /\ queue'[e].status = "QUEUED"
           /\ queue'[e].mark = "NONE" /\ queue'[e].at = clock /\ queue'[e].approved
  BY <1>1, <1>2, ApprovedRows
<1>4. \A e \in DOMAIN queue \cap approved :
        queue[e].mode = "BULK" /\ queue[e].status = "PENDING_APPROVAL"
  BY <1>1, <1>2
<1>5. \A e \in DOMAIN queue : RowMoves({}, e)
  BY <1>3, <1>4 DEF RowMoves, Approves, Written
<1>6. /\ OwnersKnown' /\ \A q \in Credentials : CredentialStands(q)
      /\ \A p \in Employees : EmployeeStands(p)
      /\ \A row \in Rows : Current(row)' = Current(row)
  BY <1>1, OwnersStay
<1>7. ASSUME NEW e \in DOMAIN queue, queue'[e].status \in Waiting
      PROVE  Current(queue[e])'
  <2>1. queue[e].status \in Waiting
    BY <1>3, <1>4, <1>7 DEF Waiting
  <2>2. Current(queue[e])
    BY <2>1 DEF DeliveryInv, RowHonest
  <2>3. queue'[e].credential = queue[e].credential /\ queue'[e].to = queue[e].to
    BY <1>3
  <2> QED  BY <1>1, <2>2, <2>3 DEF Current, registry
<1>8. Frame({})
  <2>1. clock <= clock' /\ sender' = sender /\ inbox' = inbox
    BY <1>1 DEF counters
  <2>2. \A e \in DOMAIN queue' : queue'[e].status \in Waiting => Current(queue[e])'
    BY <1>3, <1>7
  <2> QED  BY <1>3, <1>5, <1>6, <2>1, <2>2, Zenon DEF Frame
<1>9. Types'
  BY <1>1, <1>3 DEF Types, TypeOK, registry, counters
<1>10. RoomKept'
  BY <1>3, <1>8, RoomStays
<1> QED  BY <1>6, <1>8, <1>9, <1>10 DEF Safe

-----------------------------------------------------------------------------
(* The steps together                                                      *)

LEMMA RegistryStep ==
  ASSUME DeliveryInv, Registry
  PROVE  Safe({})
<1>1. ASSUME NEW p \in Employees, NEW q \in Credentials, NEW expires \in Expiries,
             NEW to \in Addresses, NEW mode \in {"SINGLE", "BULK"},
             Register(p, q, to, mode, expires)
      PROVE  Safe({})
  BY <1>1, RegisterSafe
<1>2. ASSUME NEW p \in Employees, NEW q \in Credentials, NEW expires \in Expiries,
             Replace(p, q, expires)
      PROVE  Safe({})
  BY <1>2, ReplaceSafe
<1>3. ASSUME NEW p \in Employees, NEW to \in Addresses, ChangeAddress(p, to)
      PROVE  Safe({})
  BY <1>3, ChangeAddressSafe
<1>4. ASSUME NEW p \in Employees, NEW active \in BOOLEAN, SetActive(p, active)
      PROVE  Safe({})
  BY <1>4, SetActiveSafe
<1>5. ASSUME NEW p \in Employees, Archive(p) PROVE Safe({})
  BY <1>5, ArchiveSafe
<1>6. ASSUME NEW p \in Employees, NEW q \in Credentials, Resend(p, q) PROVE Safe({})
  BY <1>6, ResendSafe
<1>7. ASSUME NEW q \in Credentials, Revoke(q) \/ UseUp(q) PROVE Safe({})
  BY <1>7, RevokeSafe, UseUpSafe
<1>8. ASSUME NEW to \in Addresses \cup {None}, NEW expires \in Expiries, NEW q \in Credentials,
             IssueVisitor(q, to, expires)
      PROVE  Safe({})
  BY <1>8, IssueVisitorSafe
<1>9. ASSUME NEW to \in Addresses \cup {None}, NEW expires \in Expiries, NEW q \in Credentials,
             NEW former \in Credentials, ReplaceVisitor(former, q, to, expires)
      PROVE  Safe({})
  BY <1>9, ReplaceVisitorSafe
<1>10. ASSUME NEW qs \in (SUBSET Credentials) \ {{}}, NEW to \in Addresses,
              NEW expires \in Expiries \ {Never}, IssueBatch(qs, to, expires)
       PROVE  Safe({})
  BY <1>10, IssueBatchSafe
<1> QED  BY <1>1, <1>2, <1>3, <1>4, <1>5, <1>6, <1>7, <1>8, <1>9, <1>10 DEF Registry

LEMMA RequestStep ==
  ASSUME DeliveryInv, Requests
  PROVE  \E S : Safe(S)
<1>1. ASSUME NEW a \in Admins, NEW e \in DOMAIN queue, SendSingle(a, e) PROVE Safe({a})
  BY <1>1, SendSingleSafe
<1>2. ASSUME NEW a \in Admins, NEW es \in SUBSET DOMAIN queue, ProcessBulk(a, es)
      PROVE  Safe({a})
  BY <1>2, ProcessBulkSafe
<1>3. ASSUME NEW a \in Admins, CountBatch(a) PROVE Safe({a})
  BY <1>3, CountBatchSafe
<1>4. ASSUME NEW a \in Admins, NEW q \in Credentials, CountVisitor(a, q) PROVE Safe({a})
  BY <1>4, CountVisitorSafe
<1>5. ASSUME NEW o \in Operators, NEW e \in DOMAIN queue, SendByHand(o, e) PROVE Safe({o})
  BY <1>5, SendByHandSafe
<1>6. ASSUME NEW es \in SUBSET DOMAIN queue, ApproveBulk(es) PROVE Safe({})
  BY <1>6, ApproveBulkSafe
<1> QED  BY <1>1, <1>2, <1>3, <1>4, <1>5, <1>6 DEF Requests

LEMMA WorkStep ==
  ASSUME DeliveryInv, NEW s \in Senders, Work(s) \/ SendFails(s) \/ Crash(s)
  PROVE  Safe({s})
<1>1. CASE s \in Dispatchers /\ Poll(s)
  BY <1>1, PollSafe
<1>2. CASE CheckLimit(s)
  BY <1>2, CheckLimitSafe
<1>3. CASE Look(s)
  BY <1>3, LookSafe
<1>4. CASE Claim(s)
  BY <1>4, ClaimSafe
<1>5. CASE Deliver(s)
  BY <1>5, DeliverSafe
<1>6. CASE Provider(s)
  BY <1>6, ProviderSafe
<1>7. CASE Record(s)
  BY <1>7, RecordSafe
<1>8. CASE ApproveBatch(s)
  BY <1>8, ApproveBatchSafe
<1>9. CASE SendVisitor(s)
  BY <1>9, SendVisitorSafe
<1>10. CASE SendFails(s)
  BY <1>10, SendFailsSafe
<1>11. CASE Crash(s)
  BY <1>11, CrashSafe
<1> QED  BY <1>1, <1>2, <1>3, <1>4, <1>5, <1>6, <1>7, <1>8, <1>9, <1>10, <1>11 DEF Work

LEMMA NothingHappens ==
  ASSUME DeliveryInv, UNCHANGED vars
  PROVE  Safe({})
<1>1. /\ TypeOK /\ employee' = employee /\ credential' = credential /\ queue' = queue
      /\ sender' = sender /\ inbox' = inbox /\ clock' = clock /\ changes' = changes
      /\ faults' = faults
  BY DEF DeliveryInv, vars
<1>2. /\ OwnersKnown' /\ \A q \in Credentials : CredentialStands(q)
      /\ \A p \in Employees : EmployeeStands(p)
      /\ \A row \in Rows : Current(row)' = Current(row)
  BY <1>1, OwnersStay DEF registry
<1>3. \A e \in DOMAIN queue' : queue'[e].status \in Waiting => Current(queue[e])'
  BY <1>1, <1>2, QueueDomain DEF DeliveryInv, RowHonest
<1>4. \A e \in DOMAIN queue : RowMoves({}, e)
  BY <1>1 DEF RowMoves
<1>5. clock <= clock'
  BY <1>1, EmailAssumption DEF TypeOK, Times
<1>6. Frame({})
  BY <1>1, <1>2, <1>3, <1>4, <1>5, Zenon DEF Frame
<1>7. Types'
  BY <1>1 DEF Types, TypeOK
<1>8. RoomKept'
  BY <1>1, <1>6, RoomStays
<1> QED  BY <1>2, <1>6, <1>7, <1>8 DEF Safe

(* Every step is one the frame allows.                                     *)
LEMMA StepSafe ==
  ASSUME DeliveryInv, [Next]_vars
  PROVE  \E S : Safe(S)
<1>1. CASE \E s \in Senders : Work(s) \/ SendFails(s) \/ Crash(s)
  BY <1>1, WorkStep
<1> QED  BY <1>1, RegistryStep, RequestStep, TickSafe, NothingHappens DEF Next

LEMMA DeliveryStarts ==
  ASSUME Init
  PROVE  DeliveryInv
<1>1. /\ employee = [p \in Employees |-> [state |-> "NONE", address |-> None]]
      /\ credential = [q \in Credentials |-> Unissued]
      /\ queue = <<>>
      /\ sender = [s \in Senders |-> Idle]
      /\ inbox = [e \in Emails |-> [copies |-> 0, at |-> 0, by |-> None]]
      /\ clock = 0 /\ changes = 0 /\ faults = 0
  BY DEF Init
<1>2. /\ Unissued \in CredentialRows /\ Unissued.owner = None
  BY EmailAssumption DEF Unissued, CredentialRows, Never
<1>3. queue \in Seq(Rows) /\ Len(queue) = 0 /\ DOMAIN queue = {}
  BY <1>1
<1>4. TypeOK
  <2>1. employee \in [Employees -> EmployeeRows]
    BY <1>1 DEF EmployeeRows
  <2>2. credential \in [Credentials -> CredentialRows]
    BY <1>1, <1>2
  <2>3. sender \in [Senders -> SenderStates]
    BY <1>1, IdleState
  <2>4. /\ 0 \in Times /\ 0 \in 0..MaxChanges /\ 0 \in 0..MaxFaults /\ 0 <= MaxEmails
    BY EmailAssumption DEF Times
  <2>5. inbox \in [Emails -> [copies : Nat, at : Times, by : Senders \cup {None}]]
    BY <1>1, <2>4
  <2> QED  BY <1>1, <1>3, <2>1, <2>2, <2>3, <2>4, <2>5 DEF TypeOK
<1>5. OwnersKnown
  BY <1>1, <1>2 DEF OwnersKnown
<1>6. MailboxSane
  BY <1>1, <1>3 DEF MailboxSane
<1>7. \A s \in Senders : SenderHonest(s) /\ ~ RowToCome(s)
  <2> SUFFICES ASSUME NEW s \in Senders PROVE SenderHonest(s) /\ ~ RowToCome(s)
    OBVIOUS
  <2>1. sender[s] = Idle
    BY <1>1
  <2> QED  BY <2>1, IdleState
           DEF SenderHonest, WorkKnown, ClaimHeld, AnswerHonest, VisitorHeld, Working, PastCheck,
               NoAnswer, RowToCome
<1>8. RoomKept
  <2> DEFINE B == {s \in Senders : RowToCome(s)}
  <2>1. B = {}
    BY <1>7
  <2> HIDE DEF B
  <2>2. Cardinality(B) = 0
    BY <2>1, FS_EmptySet
  <2>3. Len(queue) + Cardinality(B) <= MaxEmails
    BY <1>3, <2>2, EmailAssumption
  <2> QED  BY <2>3 DEF RoomKept, B
<1> QED  BY <1>3, <1>4, <1>5, <1>6, <1>7, <1>8 DEF DeliveryInv

-----------------------------------------------------------------------------
(* The invariant, and what it implies                                      *)

(* The inductive invariant holds in every state that can be reached.       *)
THEOREM DeliveryInductive == Spec => []DeliveryInv
<1>1. DeliveryInv /\ [Next]_vars => DeliveryInv'
  BY StepSafe, SafeStep
<1> QED  BY DeliveryStarts, <1>1, PTL DEF Spec

(* Every variable keeps its type, and no operation writes a row that the   *)
(* constraints of email_queue would refuse.                                *)
THEOREM EmailsTyped == Spec => []TypeOK
<1>1. DeliveryInv => TypeOK
  BY DEF DeliveryInv
<1> QED  BY DeliveryInductive, <1>1, PTL

(* A row says SENT only of an email that was accepted, once, and says      *)
(* that it waits, was refused or cannot be delivered only of one that was  *)
(* not.                                                                    *)
THEOREM RowsTellMailbox == Spec => []StatusTellsMailbox
<1>1. DeliveryInv => StatusTellsMailbox
  BY DEF DeliveryInv, RowHonest, StatusTellsMailbox
<1> QED  BY DeliveryInductive, <1>1, PTL

(* What a caller is told of an email is true, and stays true.              *)
THEOREM AnswersTrue == Spec => []AnswersTellMailbox
<1>1. DeliveryInv => AnswersTellMailbox
  BY DEF DeliveryInv, SenderHonest, AnswerHonest, AnswersTellMailbox
<1> QED  BY DeliveryInductive, <1>1, PTL

(* Whatever makes a waiting email stale cancels it in the same transaction.*)
THEOREM WaitingCurrent == Spec => []WaitingIsCurrent
<1>1. DeliveryInv => WaitingIsCurrent
  BY DEF DeliveryInv, RowHonest, Current, WaitingIsCurrent
<1> QED  BY DeliveryInductive, <1>1, PTL

(* What SentWhileValid says of one message that the provider accepts.      *)
SentValid(e) ==
  LET q == queue[e].credential
      p == credential[q].owner
  IN /\ queue[e].approved
     /\ credential[q].state = "LIVE"
     /\ p # None => /\ employee[p].state = "ACTIVE"
                    /\ employee[p].address = queue[e].to
     /\ inbox'[e].by \in Dispatchers => queue[e].mode = "BULK"

LEMMA SentValidStep ==
  ASSUME DeliveryInv, [Next]_vars, NEW e \in Emails, inbox'[e].copies > inbox[e].copies
  PROVE  SentValid(e)
<1>1. PICK S : Safe(S)
  BY StepSafe
<1>2. inbox[e].copies \in Nat
  BY DEF DeliveryInv, TypeOK
<1>3. PICK s \in S : Delivers(s, e)
  BY <1>1, <1>2 DEF Safe, Frame
<1>4. s \in Senders /\ ClaimHeld(s) /\ WorkKnown(s) /\ e = sender[s].email
      /\ sender[s].pc = "provider" /\ inbox'[e].by = s
  BY <1>1, <1>3 DEF Safe, Frame, DeliveryInv, SenderHonest, Delivers
<1>5. e \in DOMAIN queue /\ Claimed(s) /\ Current(queue[e])
      /\ (s \in Dispatchers => queue[e].mode = "BULK")
  BY <1>4 DEF WorkKnown, ClaimHeld, Working, PastCheck
<1>6. queue[e].approved
  BY <1>4, <1>5 DEF DeliveryInv, RowHonest, Claimed
<1> QED  BY <1>4, <1>5, <1>6 DEF SentValid, Current

(* When the provider accepts a message the email has been approved, its    *)
(* credential is live and an employee is active at that address: what the  *)
(* delivering transaction checked under its locks is still so then.        *)
THEOREM EmailsSentWhileValid == Spec => SentWhileValid
<1>1. DeliveryInv /\ [Next]_vars
        => [\A e \in Emails : inbox'[e].copies > inbox[e].copies => SentValid(e)]_vars
  BY SentValidStep
<1> QED  BY DeliveryInductive, <1>1, PTL DEF Spec, SentWhileValid, SentValid

-----------------------------------------------------------------------------
(* Every email takes the course that EmailOutbox allows                    *)

RowStage(row) ==
  CASE row.status \in {"DRAFT", "PENDING_APPROVAL"} -> "held"
    [] row.status = "QUEUED" -> "approved"
    [] row.status = "FAILED" /\ row.mark \in Senders -> "taken"
    [] row.status = "SENT" -> "sent"
    [] OTHER -> "closed"

Stages == {"unmade", "held", "approved", "taken", "sent", "closed"}

LEMMA RowStages ==
  ASSUME NEW row \in Rows
  PROVE  /\ row.status \in {"DRAFT", "PENDING_APPROVAL"} => RowStage(row) = "held"
         /\ row.status = "QUEUED" => RowStage(row) = "approved"
         /\ row.status = "FAILED" /\ row.mark \in Senders => RowStage(row) = "taken"
         /\ row.status = "FAILED" /\ row.mark \notin Senders => RowStage(row) = "closed"
         /\ row.status = "SENT" => RowStage(row) = "sent"
         /\ row.status = "CANCELLED" => RowStage(row) = "closed"
         /\ RowStage(row) \in Stages
<1>1. CASE row.status \in {"DRAFT", "PENDING_APPROVAL"}
  BY <1>1 DEF RowStage, Stages
<1>2. CASE row.status = "QUEUED"
  BY <1>2 DEF RowStage, Stages
<1>3. CASE row.status = "FAILED" /\ row.mark \in Senders
  BY <1>3 DEF RowStage, Stages
<1>4. CASE row.status = "FAILED" /\ row.mark \notin Senders
  BY <1>4 DEF RowStage, Stages
<1>5. CASE row.status = "SENT"
  BY <1>5 DEF RowStage, Stages
<1>6. CASE row.status = "CANCELLED"
  BY <1>6 DEF RowStage, Stages
<1> QED  BY <1>1, <1>2, <1>3, <1>4, <1>5, <1>6 DEF Rows, Statuses, Waiting

LEMMA StageMoves ==
  ASSUME DeliveryInv, TypeOK', NEW S, Frame(S), NEW e \in DOMAIN queue,
         NEW was, was = RowStage(queue[e]), NEW is, is = RowStage(queue'[e])
  PROVE  /\ is = was \/ <<was, is>> \in Outbox!Moves
         /\ was = "taken" /\ is = "sent" => inbox[e].copies = 1
         /\ \/ inbox'[e].copies = inbox[e].copies
            \/ was = "taken" /\ inbox[e].copies = 0 /\ inbox'[e].copies = 1
<1>1. /\ queue[e] \in Rows /\ queue'[e] \in Rows /\ e \in Emails /\ S \subseteq Senders
      /\ \A s \in Senders : ClaimHeld(s)
  <2>1. e \in DOMAIN queue' /\ S \subseteq Senders
    BY DEF Frame
  <2>2. queue' \in Seq(Rows)
    BY DEF TypeOK
  <2> QED  BY <2>1, <2>2, QueueDomain DEF DeliveryInv, SenderHonest
<1>2. CASE queue'[e] = queue[e]
  <2>1. is = was
    BY <1>2
  <2>2. was # "taken" \/ is # "sent"
    BY <2>1
  <2>3. ASSUME NEW s \in S, Delivers(s, e)
        PROVE  was = "taken" /\ inbox[e].copies = 0 /\ inbox'[e].copies = 1
    <3>1. Claimed(s) /\ inbox[e].copies = 0 /\ e = sender[s].email /\ s \in Senders
      BY <1>1, <2>3 DEF Delivers, ClaimHeld
    <3> QED  BY <1>1, <2>3, <3>1, RowStages DEF Claimed, Delivers
  <2> QED  BY <1>1, <2>1, <2>2, <2>3 DEF Frame
<1>3. CASE queue'[e] # queue[e]
  <2>1. inbox'[e] = inbox[e]
    BY <1>1, <1>3 DEF Frame, Delivers
  <2>2. CASE Approves(S, e)
    <3>1. was = "held" /\ is = "approved"
      BY <1>1, <2>2, RowStages DEF Approves, Written
    <3> QED  BY <2>1, <3>1 DEF Outbox!Moves
  <2>3. CASE Cancels(e)
    <3>1. CASE queue[e].status = "SENT"
      <4>1. was = "sent" /\ is = "sent"
        BY <1>1, <2>3, <3>1, RowStages DEF Cancels, Written
      <4> QED  BY <2>1, <4>1
    <3>2. CASE queue[e].status # "SENT"
      <4>1. was \in {"held", "approved", "taken", "closed"} /\ is = "closed"
        BY <1>1, <2>3, <3>2, RowStages DEF Cancels, Written, Rows, Statuses, Waiting
      <4> QED  BY <2>1, <4>1 DEF Outbox!Moves
    <3> QED  BY <3>1, <3>2
  <2>4. ASSUME NEW s \in S, Handles(s, e)
        PROVE  /\ <<was, is>> \in Outbox!Moves
               /\ is = "sent" => inbox[e].copies = 1
    <3>1. s \in Senders /\ ClaimHeld(s) /\ e = sender[s].email
      BY <1>1, <2>4 DEF Handles
    <3>2. CASE sender[s].pc = "claim"
      <4>1. was = "approved" /\ is \in {"taken", "closed"}
        BY <1>1, <2>4, <3>1, <3>2, RowStages DEF Handles, Written
      <4> QED  BY <4>1 DEF Outbox!Moves
    <3>3. CASE sender[s].pc = "deliver"
      <4>1. was = "taken" /\ is = "closed"
        BY <1>1, <2>4, <3>1, <3>3, RowStages DEF Handles, Written, Claimed
      <4> QED  BY <4>1 DEF Outbox!Moves
    <3>4. CASE sender[s].pc = "record" /\ sender[s].fate = "ACCEPTED"
      <4>1. was = "taken" /\ is = "sent"
        BY <1>1, <2>4, <3>1, <3>4, RowStages DEF Handles, Written, Claimed, ClaimHeld
      <4>2. inbox[e].copies = 1
        BY <3>1, <3>4 DEF ClaimHeld
      <4> QED  BY <4>1, <4>2 DEF Outbox!Moves
    <3>5. CASE sender[s].pc = "record" /\ sender[s].fate # "ACCEPTED"
      <4>1. sender[s].fate \notin Senders
        BY <3>1, <3>5, Tokens DEF ClaimHeld
      <4>2. was = "taken" /\ is = "closed"
        BY <1>1, <2>4, <3>1, <3>5, <4>1, RowStages DEF Handles, Written, Claimed, ClaimHeld
      <4> QED  BY <4>2 DEF Outbox!Moves
    <3> QED  BY <2>4, <3>2, <3>3, <3>4, <3>5 DEF Handles
  <2> QED  BY <1>3, <2>1, <2>2, <2>3, <2>4 DEF Frame, RowMoves
<1> QED  BY <1>2, <1>3

LEMMA OutboxStep ==
  ASSUME DeliveryInv, [Next]_vars
  PROVE  Outbox!OutboxNext
<1>1. PICK S : Safe(S)
  BY StepSafe
<1>2. DeliveryInv' /\ TypeOK' /\ Frame(S) /\ TypeOK
  BY <1>1, SafeStep DEF DeliveryInv, Safe
<1>3. \A e \in Emails : /\ Stage[e] = IF e \notin DOMAIN queue THEN "unmade" ELSE RowStage(queue[e])
                        /\ Stage'[e] = IF e \notin DOMAIN queue' THEN "unmade"
                                       ELSE RowStage(queue'[e])
  BY DEF Stage, RowStage
<1>4. /\ \A e \in DOMAIN queue : queue[e] \in Rows
      /\ \A e \in DOMAIN queue' : queue'[e] \in Rows
  BY <1>2 DEF TypeOK
<1>5. Stage' \in [Emails -> Stages]
  <2>1. \A e \in Emails : Stage'[e] \in Stages
    BY <1>3, <1>4, RowStages DEF Stages
  <2>2. Stage' = [e \in Emails |-> Stage'[e]]
    BY DEF Stage
  <2> QED  BY <2>1, <2>2
<1>6. \A e \in Emails : inbox'[e].copies \in {0, 1}
  BY <1>2 DEF DeliveryInv, MailboxSane
<1>7. ASSUME NEW e \in Emails
      PROVE  /\ Stage'[e] = Stage[e] \/ <<Stage[e], Stage'[e]>> \in Outbox!Moves
             /\ Stage[e] = "taken" /\ Stage'[e] = "sent" => inbox[e].copies = 1
             /\ \/ inbox'[e].copies = inbox[e].copies
                \/ Stage[e] = "taken" /\ inbox[e].copies = 0 /\ inbox'[e].copies = 1
  <2>1. CASE e \in DOMAIN queue
    <3>1. Stage[e] = RowStage(queue[e]) /\ Stage'[e] = RowStage(queue'[e])
      BY <1>2, <1>3, <2>1 DEF Frame
    <3> QED  BY <1>2, <2>1, <3>1, StageMoves
  <2>2. CASE e \notin DOMAIN queue
    <3>1. \A s \in S : ~ Delivers(s, e)
      BY <1>2, <2>2 DEF Delivers, Frame, DeliveryInv, SenderHonest, WorkKnown, Working, PastCheck
    <3>2. inbox'[e] = inbox[e]
      BY <1>2, <3>1 DEF Frame
    <3>3. CASE e \notin DOMAIN queue'
      BY <1>3, <2>2, <3>2, <3>3
    <3>4. CASE e \in DOMAIN queue'
      <4>1. queue'[e].status \in Waiting
        BY <1>2, <2>2, <3>4 DEF Frame, RowMade
      <4>2. Stage[e] = "unmade" /\ Stage'[e] \in {"held", "approved"}
        BY <1>3, <1>4, <2>2, <3>4, <4>1, RowStages DEF Waiting
      <4> QED  BY <3>2, <4>2 DEF Outbox!Moves
    <3> QED  BY <3>3, <3>4
  <2> QED  BY <2>1, <2>2
<1> QED  BY <1>5, <1>6, <1>7 DEF Outbox!OutboxNext, Outbox!Moved, Outbox!Reaches, Stages

LEMMA OutboxStarts == Init => Outbox!OutboxInit
BY DEF Init, Outbox!OutboxInit, Stage

(* Whatever the processes do, an email is sent only after an approval, is  *)
(* taken once and is accepted at most once, while it is taken.             *)
THEOREM OutboxImplemented == Spec => ImplementsOutbox
<1>1. DeliveryInv /\ [Next]_vars
        => [Outbox!OutboxNext]_<<Stage, [e \in Emails |-> inbox[e].copies]>>
  BY OutboxStep
<1> QED  BY OutboxStarts, DeliveryInductive, <1>1, PTL
         DEF Spec, ImplementsOutbox, Outbox!OutboxSpec

-----------------------------------------------------------------------------
(* The daily limit                                                         *)

(* A sender that passes the check for the limit does so by checking it; all*)
(* other steps leave it where it is, move it on, or end its email.         *)
Before == {"idle", "halted", "check", "approving", "preparing"}

OnItsWay(s) ==
  \/ sender'[s] = sender[s] \/ sender'[s].pc \in Before
  \/ PastCheck(s) /\ sender[s].pc # "record"

Passes(s) == CheckLimit(s) /\ ~ LimitReached(s)

LEMMA PutInto ==
  ASSUME TypeOK, NEW s \in Senders, NEW new, sender' = [sender EXCEPT ![s] = new],
         new.pc \in Before \/ (PastCheck(s) /\ sender[s].pc # "record")
  PROVE  \A t \in Senders : OnItsWay(t)
<1>1. sender'[s] = new /\ \A t \in Senders \ {s} : sender'[t] = sender[t]
  BY DEF TypeOK
<1> QED  BY <1>1 DEF OnItsWay

LEMMA StartPut ==
  ASSUME TypeOK, NEW s \in Senders, NEW es, Start(s, es)
  PROVE  \A t \in Senders : OnItsWay(t)
<1> DEFINE new == [Idle EXCEPT !.pc = "check", !.email = Oldest(es),
                               !.batch = es \ {Oldest(es)}]
<1>1. sender' = [sender EXCEPT ![s] = new]
  BY Zenon DEF Start
<1>2. new.pc = "check"
  BY IdleState DEF SenderStates
<1> HIDE DEF new
<1> QED  BY <1>1, <1>2, PutInto DEF Before

LEMMA DonePut ==
  ASSUME TypeOK, NEW s \in Senders, NEW status, NEW mark, Done(s, status, mark)
  PROVE  \A t \in Senders : OnItsWay(t)
<1> DEFINE rest == sender[s].batch
           answer == [email |-> sender[s].email, status |-> status]
           halted == [Idle EXCEPT !.pc = "halted", !.answer = answer]
           idle == [Idle EXCEPT !.answer = answer]
           next == [Idle EXCEPT !.pc = "check", !.email = Oldest(rest),
                                !.batch = rest \ {Oldest(rest)}, !.answer = answer]
<1>1. PICK new : /\ sender' = [sender EXCEPT ![s] = new]
                 /\ new = halted \/ new = idle \/ new = next
  <2>1. CASE s \in Dispatchers /\ mark = "GLOBAL"
    BY <2>1, Zenon DEF Done
  <2>2. CASE ~ (s \in Dispatchers /\ mark = "GLOBAL") /\ (rest = {} \/ GivesUp(s, status, mark))
    BY <2>2, Zenon DEF Done
  <2>3. CASE ~ (s \in Dispatchers /\ mark = "GLOBAL") /\ ~ (rest = {} \/ GivesUp(s, status, mark))
    BY <2>3, Zenon DEF Done
  <2> QED  BY <2>1, <2>2, <2>3
<1>2. halted.pc = "halted" /\ idle.pc = "idle" /\ next.pc = "check"
  BY IdleState DEF SenderStates
<1> HIDE DEF halted, idle, next
<1>3. new.pc \in Before
  BY <1>1, <1>2 DEF Before
<1> QED  BY <1>1, <1>3, PutInto

LEMMA StaysPut ==
  ASSUME sender' = sender
  PROVE  \A t \in Senders : OnItsWay(t)
BY DEF OnItsWay

LEMMA WorkPaced ==
  ASSUME TypeOK, NEW s \in Senders, Work(s) \/ SendFails(s) \/ Crash(s)
  PROVE  Passes(s) \/ \A t \in Senders : OnItsWay(t)
<1>1. CASE s \in Dispatchers /\ Poll(s)
  BY <1>1, StartPut DEF Poll
<1>2. CASE CheckLimit(s)
  BY <1>2, DonePut DEF CheckLimit, Passes
<1>3. CASE Look(s)
  <2>1. PICK new : sender' = [sender EXCEPT ![s] = new]
    BY <1>3, Zenon DEF Look
  <2>2. PastCheck(s) /\ sender[s].pc # "record"
    BY <1>3 DEF Look, PastCheck
  <2> QED  BY <2>1, <2>2, PutInto
<1>4. CASE Claim(s)
  <2>1. PastCheck(s) /\ sender[s].pc # "record"
    BY <1>4 DEF Claim, PastCheck
  <2>2. CASE sender' = [sender EXCEPT ![s].pc = "lookAgain"]
    BY <2>1, <2>2, PutInto
  <2>3. ASSUME NEW status, NEW mark, Done(s, status, mark)
        PROVE  \A t \in Senders : OnItsWay(t)
    BY <2>3, DonePut
  <2> QED  BY <1>4, <2>2, <2>3 DEF Claim
<1>5. CASE Deliver(s)
  <2>1. PastCheck(s) /\ sender[s].pc # "record"
    BY <1>5 DEF Deliver, PastCheck
  <2>2. CASE sender' = [sender EXCEPT ![s].pc = "provider"]
    BY <2>1, <2>2, PutInto
  <2>3. ASSUME NEW status, NEW mark, Done(s, status, mark)
        PROVE  \A t \in Senders : OnItsWay(t)
    BY <2>3, DonePut
  <2> QED  BY <1>5, <2>2, <2>3 DEF Deliver
<1>6. CASE Provider(s)
  <2>1. PastCheck(s) /\ sender[s].pc # "record"
    BY <1>6 DEF Provider, PastCheck
  <2>2. PICK fate : sender' = [sender EXCEPT ![s].pc = "record", ![s].fate = fate]
    BY <1>6, Zenon DEF Provider
  <2>3. PICK new : sender' = [sender EXCEPT ![s] = new]
    BY <2>2, Zenon
  <2> QED  BY <2>1, <2>3, PutInto
<1>7. CASE Record(s)
  BY <1>7, DonePut DEF Record
<1>8. CASE ApproveBatch(s)
  BY <1>8, PutInto, IdleState DEF ApproveBatch, Before
<1>9. CASE SendVisitor(s)
  BY <1>9, StartPut, PutInto, IdleState DEF SendVisitor, Before
<1>10. CASE SendFails(s)
  BY <1>10, DonePut DEF SendFails
<1>11. CASE Crash(s)
  BY <1>11, PutInto, IdleState DEF Crash, Before
<1> QED  BY <1>1, <1>2, <1>3, <1>4, <1>5, <1>6, <1>7, <1>8, <1>9, <1>10, <1>11 DEF Work

LEMMA RequestPaced ==
  ASSUME TypeOK, Requests
  PROVE  \A t \in Senders : OnItsWay(t)
<1>0. \A a \in Admins \cup Operators : a \in Senders
  BY DEF Senders, Limited
<1>1. ASSUME NEW a \in Admins, NEW e \in DOMAIN queue, SendSingle(a, e)
      PROVE  \A t \in Senders : OnItsWay(t)
  BY <1>0, <1>1, StartPut DEF SendSingle
<1>2. ASSUME NEW a \in Admins, NEW es \in SUBSET DOMAIN queue, ProcessBulk(a, es)
      PROVE  \A t \in Senders : OnItsWay(t)
  BY <1>0, <1>2, StartPut DEF ProcessBulk
<1>3. ASSUME NEW a \in Admins, CountBatch(a)
      PROVE  \A t \in Senders : OnItsWay(t)
  <2> DEFINE new == [Idle EXCEPT !.pc = "approving", !.batch = BatchPending]
  <2>1. sender' = [sender EXCEPT ![a] = new]
    BY <1>3, Zenon DEF CountBatch
  <2>2. new.pc = "approving"
    BY IdleState DEF SenderStates
  <2> HIDE DEF new
  <2> QED  BY <1>0, <2>1, <2>2, PutInto DEF Before
<1>4. ASSUME NEW a \in Admins, NEW q \in Credentials, CountVisitor(a, q)
      PROVE  \A t \in Senders : OnItsWay(t)
  <2> DEFINE new == [Idle EXCEPT !.pc = "preparing", !.for = q]
  <2>1. sender' = [sender EXCEPT ![a] = new]
    BY <1>4, Zenon DEF CountVisitor
  <2>2. new.pc = "preparing"
    BY IdleState DEF SenderStates
  <2> HIDE DEF new
  <2> QED  BY <1>0, <2>1, <2>2, PutInto DEF Before
<1>5. ASSUME NEW o \in Operators, NEW e \in DOMAIN queue, SendByHand(o, e)
      PROVE  \A t \in Senders : OnItsWay(t)
  BY <1>0, <1>5, StartPut DEF SendByHand
<1>6. ASSUME NEW es \in SUBSET DOMAIN queue, ApproveBulk(es)
      PROVE  \A t \in Senders : OnItsWay(t)
  BY <1>6, StaysPut DEF ApproveBulk
<1> QED  BY <1>1, <1>2, <1>3, <1>4, <1>5, <1>6 DEF Requests

LEMMA StepPaced ==
  ASSUME TypeOK, [Next]_vars
  PROVE  \/ \E s \in Senders : Passes(s)
         \/ \A t \in Senders : OnItsWay(t)
<1>1. CASE \E s \in Senders : Work(s) \/ SendFails(s) \/ Crash(s)
  BY <1>1, WorkPaced
<1>2. CASE Requests
  BY <1>2, RequestPaced
<1>3. CASE Registry
  <2>1. ASSUME NEW p \in Employees, NEW q \in Credentials, NEW expires \in Expiries
        PROVE  /\ \A to \in Addresses, mode \in {"SINGLE", "BULK"} :
                    Register(p, q, to, mode, expires) => sender' = sender
               /\ Replace(p, q, expires) => sender' = sender
    BY DEF Register, Replace
  <2>2. ASSUME NEW p \in Employees
        PROVE  /\ \A to \in Addresses : ChangeAddress(p, to) => sender' = sender
               /\ \A active \in BOOLEAN : SetActive(p, active) => sender' = sender
               /\ Archive(p) => sender' = sender
               /\ \A q \in Credentials : Resend(p, q) => sender' = sender
    BY DEF ChangeAddress, SetActive, Archive, Resend
  <2>3. ASSUME NEW q \in Credentials
        PROVE  Revoke(q) \/ UseUp(q) => sender' = sender
    BY DEF Revoke, UseUp
  <2>4. ASSUME NEW q \in Credentials, NEW to, NEW expires
        PROVE  /\ IssueVisitor(q, to, expires) => sender' = sender
               /\ \A former \in Credentials :
                    ReplaceVisitor(former, q, to, expires) => sender' = sender
    BY DEF IssueVisitor, ReplaceVisitor
  <2>5. ASSUME NEW qs, NEW to, NEW expires
        PROVE  IssueBatch(qs, to, expires) => sender' = sender
    BY DEF IssueBatch
  <2>6. sender' = sender
    BY <1>3, <2>1, <2>2, <2>3, <2>4, <2>5, Zenon DEF Registry
  <2> QED  BY <2>6, StaysPut
<1>4. CASE Tick \/ UNCHANGED vars
  BY <1>4, StaysPut DEF Tick, vars
<1> QED  BY <1>1, <1>2, <1>3, <1>4 DEF Next

Checked == {s \in Limited : PastCheck(s)}

LEMMA SizesOf ==
  ASSUME NEW n \in Nat, NEW T \in SUBSET (1..n), NEW P \in SUBSET Limited
  PROVE  /\ IsFiniteSet(T) /\ Cardinality(T) \in Nat
         /\ IsFiniteSet(P) /\ Cardinality(P) \in Nat
         /\ IsFiniteSet(Limited) /\ Cardinality(Limited) \in Nat
         /\ Cardinality(P) <= Cardinality(Limited)
<1>1. IsFiniteSet(Limited)
  BY FS_Subset, EmailAssumption DEF Senders
<1>2. IsFiniteSet(1..n)
  BY FS_Interval
<1> QED  BY <1>1, <1>2, FS_Subset, FS_CardinalityType

LEMMA SizesKnown ==
  ASSUME TypeOK
  PROVE  /\ IsFiniteSet(SentToday) /\ Cardinality(SentToday) \in Nat
         /\ IsFiniteSet(Checked) /\ Cardinality(Checked) \in Nat
         /\ IsFiniteSet(Limited) /\ Cardinality(Limited) \in Nat
         /\ Cardinality(Checked) <= Cardinality(Limited)
<1>1. PICK n \in Nat : DOMAIN queue = 1..n
  BY DEF TypeOK
<1>2. SentToday \in SUBSET (1..n) /\ Checked \in SUBSET Limited
  BY <1>1 DEF SentToday, Checked
<1> QED  BY <1>2, SizesOf

(* Who passes the check has counted all that were sent today, and they are *)
(* fewer than the limit.                                                   *)
LEMMA FewWhenPassed ==
  ASSUME DeliveryInv, NEW s \in Limited, Passes(s)
  PROVE  Cardinality(SentToday) <= DailyLimit - 1
<1> DEFINE C == {e \in DOMAIN queue : /\ queue[e].status = "SENT"
                                      /\ queue[e].at >= clock - Day}
<1>1. TypeOK /\ DailyLimit \in Nat
  BY EmailAssumption DEF DeliveryInv
<1>2. IsFiniteSet(C)
  <2>1. Len(queue) \in Nat /\ DOMAIN queue = 1..Len(queue)
    BY <1>1 DEF TypeOK
  <2>2. C \subseteq 1..Len(queue)
    BY <2>1
  <2> HIDE DEF C
  <2>3. IsFiniteSet(1..Len(queue))
    BY <2>1, FS_Interval
  <2> QED  BY <2>2, <2>3, FS_Subset
<1>3. SentToday \subseteq C
  <2> SUFFICES ASSUME NEW e \in SentToday PROVE e \in C
    OBVIOUS
  <2>1. /\ e \in DOMAIN queue /\ queue[e].status = "SENT" /\ inbox[e].at >= clock - Day
        /\ RowHonest(e)
    BY DEF SentToday, OfToday, DeliveryInv
  <2>2. queue[e] \in Rows /\ e \in Emails
    BY <1>1, <2>1, QueueDomain
  <2>3. inbox[e].at \in Nat /\ queue[e].at \in Nat /\ clock \in Nat /\ Day \in Nat
    BY <1>1, <2>2, EmailAssumption DEF TypeOK, Rows, Times
  <2>4. inbox[e].at <= queue[e].at
    BY <2>1 DEF RowHonest
  <2> QED  BY <2>1, <2>3, <2>4
<1>4. Cardinality(SentToday) <= Cardinality(C) /\ Cardinality(C) \in Nat
      /\ Cardinality(SentToday) \in Nat
  BY <1>1, <1>2, <1>3, FS_Subset, FS_CardinalityType, SizesKnown
<1>5. Cardinality(C) < DailyLimit
  <2>1. ~ (Counted >= DailyLimit)
    BY DEF Passes, LimitReached
  <2>2. Counted = Cardinality(C)
    BY DEF Counted
  <2> QED  BY <1>1, <1>4, <2>1, <2>2
<1> QED  BY <1>1, <1>4, <1>5

(* An email that becomes one of today's was recorded by a sender that had  *)
(* passed the check, and that is done with it.                             *)
LEMMA NewlySent ==
  ASSUME DeliveryInv, DeliveryInv', NEW S, Frame(S), \A t \in Senders : OnItsWay(t),
         NEW e, e \in SentToday', e \notin SentToday
  PROVE  \E s \in S : e = sender[s].email /\ s \in Checked /\ s \notin Checked'
<1>1. /\ e \in DOMAIN queue' /\ queue'[e].status = "SENT" /\ inbox'[e].copies > 0
      /\ inbox'[e].at >= clock' - Day /\ inbox'[e].by \in Limited
  BY DEF SentToday, OfToday
<1>2. TypeOK /\ TypeOK' /\ clock <= clock' /\ S \subseteq Senders
  BY DEF DeliveryInv, Frame
<1>3. e \in DOMAIN queue
  BY <1>1 DEF Frame, RowMade, Waiting
<1>4. e \in Emails /\ RowMoves(S, e)
  BY <1>2, <1>3, QueueDomain DEF Frame
<1>5. ASSUME NEW s \in S, Delivers(s, e)
      PROVE  FALSE
  <2>1. ClaimHeld(s) /\ s \in Senders
    BY <1>2, <1>5 DEF DeliveryInv, SenderHonest
  <2>2. queue[e].status = "FAILED" /\ queue' = queue
    BY <1>5, <2>1 DEF Delivers, ClaimHeld, Claimed
  <2> QED  BY <1>1, <2>2
<1>6. inbox'[e] = inbox[e]
  BY <1>4, <1>5 DEF Frame
<1>7. queue[e].status # "SENT"
  <2>1. inbox[e].at \in Nat /\ clock \in Nat /\ clock' \in Nat /\ Day \in Nat
    BY <1>2, <1>4, EmailAssumption DEF TypeOK, Times
  <2> QED  BY <1>1, <1>2, <1>3, <1>6, <2>1 DEF SentToday, OfToday
<1>8. PICK s \in S : Handles(s, e)
  BY <1>1, <1>4, <1>7 DEF RowMoves, Approves, Cancels, Written
<1>9. /\ s \in Senders /\ e = sender[s].email /\ sender[s].pc = "record"
      /\ sender[s].fate = "ACCEPTED"
  <2>1. "SENT" \notin {"FAILED", "CANCELLED"}
    OBVIOUS
  <2> QED  BY <1>1, <1>2, <1>8, <2>1 DEF Handles, Written
<1>10. s \in Checked
  <2>1. inbox[e].by = s
    BY <1>9 DEF DeliveryInv, SenderHonest, ClaimHeld
  <2> QED  BY <1>1, <1>6, <1>9, <2>1 DEF Checked, PastCheck
<1>11. s \notin Checked'
  <2>1. CASE sender'[s] = sender[s]
    <3>1. ClaimHeld(s)'
      BY <1>9 DEF DeliveryInv, SenderHonest
    <3>2. queue'[e].status = "FAILED"
      BY <1>9, <2>1, <3>1 DEF ClaimHeld, Claimed
    <3> QED  BY <1>1, <3>2
  <2>2. CASE sender'[s].pc \in Before
    BY <2>2 DEF Before, Checked, PastCheck
  <2> QED  BY <1>9, <2>1, <2>2 DEF OnItsWay
<1> QED  BY <1>8, <1>9, <1>10, <1>11

LEMMA LimitStep ==
  ASSUME DeliveryInv, LimitKept, [Next]_vars
  PROVE  LimitKept'
<1>1. PICK S : Safe(S)
  BY StepSafe
<1>2. DeliveryInv' /\ TypeOK' /\ Frame(S) /\ TypeOK
  BY <1>1, SafeStep DEF DeliveryInv, Safe
<1>3. PICK T, Tn, P, Pn : T = SentToday /\ Tn = SentToday' /\ P = Checked /\ Pn = Checked'
  OBVIOUS
<1>4. /\ IsFiniteSet(T) /\ IsFiniteSet(P) /\ IsFiniteSet(Pn)
      /\ Cardinality(T) \in Nat /\ Cardinality(Tn) \in Nat
      /\ Cardinality(P) \in Nat /\ Cardinality(Pn) \in Nat
      /\ Cardinality(Limited) \in Nat /\ DailyLimit \in Nat
      /\ Cardinality(Pn) <= Cardinality(Limited)
  <2>1. /\ IsFiniteSet(T) /\ Cardinality(T) \in Nat
        /\ IsFiniteSet(P) /\ Cardinality(P) \in Nat /\ Cardinality(Limited) \in Nat
    BY <1>2, <1>3, SizesKnown
  <2>2. PICK n \in Nat : DOMAIN queue' = 1..n
    BY <1>2 DEF TypeOK
  <2>4. Tn \in SUBSET (1..n) /\ Pn \in SUBSET Limited
    BY <1>3, <2>2 DEF SentToday, Checked
  <2>3. /\ Cardinality(Tn) \in Nat /\ IsFiniteSet(Pn)
        /\ Cardinality(Pn) \in Nat /\ Cardinality(Pn) <= Cardinality(Limited)
    BY <2>4, SizesOf
  <2> QED  BY <2>1, <2>3, EmailAssumption
<1>5. /\ Cardinality(T) + Cardinality(P) <= DailyLimit + Cardinality(Limited) - 1
      /\ Cardinality(Tn) + Cardinality(Pn) <= DailyLimit + Cardinality(Limited) - 1
           => LimitKept'
  BY <1>3 DEF LimitKept, Checked
<1>6. ASSUME NEW s \in Senders, Passes(s)
      PROVE  LimitKept'
  <2>1. Tn = T
    BY <1>3, <1>6 DEF Passes, CheckLimit, counters, SentToday, OfToday
  <2>2. CASE s \in Limited
    <3>1. Cardinality(T) <= DailyLimit - 1
      BY <1>3, <1>6, <2>2, FewWhenPassed
    <3> QED  BY <1>4, <1>5, <2>1, <3>1
  <2>3. CASE s \notin Limited
    <3>1. sender' = [sender EXCEPT ![s].pc = "look"]
      BY <1>6 DEF Passes, CheckLimit
    <3>2. \A t \in Limited : sender'[t] = sender[t]
      BY <1>2, <2>3, <3>1 DEF TypeOK, Senders
    <3>3. Pn = P
      BY <1>3, <3>2 DEF Checked, PastCheck
    <3> QED  BY <1>5, <2>1, <3>3
  <2> QED  BY <2>2, <2>3
<1>7. ASSUME \A t \in Senders : OnItsWay(t)
      PROVE  LimitKept'
  <2>1. Pn \subseteq P
    BY <1>3, <1>7 DEF Checked, PastCheck, OnItsWay, Before, Senders
  <2>2. Cardinality(Pn) <= Cardinality(P)
    BY <1>4, <2>1, FS_Subset
  <2>3. CASE Tn \subseteq T
    <3>1. Cardinality(Tn) <= Cardinality(T)
      BY <1>4, <2>3, FS_Subset
    <3> QED  BY <1>4, <1>5, <2>2, <3>1
  <2>4. CASE ~ (Tn \subseteq T)
    <3>1. PICK s \in S : s \in P /\ s \notin Pn
      BY <1>2, <1>3, <1>7, <2>4, NewlySent
    <3>2. Tn \subseteq T \cup {sender[s].email}
      BY <1>2, <1>3, <1>7, NewlySent DEF Frame
    <3>3. Cardinality(Tn) <= Cardinality(T) + 1
      <4>1. PICK e : e = sender[s].email
        OBVIOUS
      <4>2. IsFiniteSet(T \cup {e}) /\ Cardinality(T \cup {e}) <= Cardinality(T) + 1
        <5>1. IsFiniteSet(T) /\ Cardinality(T) \in Nat
          BY <1>4
        <5> QED  BY <5>1, FS_AddElement
      <4>3. Cardinality(Tn) <= Cardinality(T \cup {e}) /\ Cardinality(T \cup {e}) \in Nat
        BY <3>2, <4>1, <4>2, FS_Subset, FS_CardinalityType
      <4> QED  BY <1>4, <4>2, <4>3
    <3>4. Cardinality(Pn) <= Cardinality(P) - 1
      <4>1. IsFiniteSet(P \ {s}) /\ Cardinality(P \ {s}) = Cardinality(P) - 1
        BY <1>4, <3>1, FS_RemoveElement
      <4>2. Pn \subseteq P \ {s}
        BY <2>1, <3>1
      <4> QED  BY <4>1, <4>2, FS_Subset
    <3> QED  BY <1>4, <1>5, <3>3, <3>4
  <2> QED  BY <2>3, <2>4
<1> QED  BY <1>2, <1>6, <1>7, StepPaced

LEMMA LimitStarts ==
  ASSUME Init, DeliveryInv
  PROVE  LimitKept
<1>1. SentToday = {} /\ Checked = {}
  <2>1. DOMAIN queue = {} /\ \A s \in Senders : sender[s] = Idle
    BY DEF Init
  <2> QED  BY <2>1, IdleState DEF SentToday, Checked, PastCheck, Senders
<1>2. Cardinality(Limited) \in Nat /\ DailyLimit \in Nat \ {0}
  BY SizesKnown, EmailAssumption DEF DeliveryInv
<1>3. Cardinality({}) = 0
  BY FS_EmptySet
<1>4. Cardinality(SentToday) + Cardinality(Checked) <= DailyLimit + Cardinality(Limited) - 1
  BY <1>1, <1>2, <1>3
<1> QED  BY <1>4 DEF LimitKept, Checked

LEMMA LimitHeld ==
  ASSUME DeliveryInv, LimitKept
  PROVE  LimitOvershoot
<1>1. Cardinality(SentToday) + Cardinality(Checked) <= DailyLimit + Cardinality(Limited) - 1
  BY DEF LimitKept, Checked
<1>2. /\ Cardinality(SentToday) \in Nat /\ Cardinality(Checked) \in Nat
      /\ Cardinality(Limited) \in Nat /\ DailyLimit \in Nat
  BY SizesKnown, EmailAssumption DEF DeliveryInv
<1>3. Cardinality(SentToday) <= DailyLimit + Cardinality(Limited) - 1
  BY <1>1, <1>2
<1> QED  BY <1>3 DEF LimitOvershoot, SentToday

(* The emails of the last day that limited senders are known to have sent  *)
(* exceed the limit by less than the number of these senders, however many *)
(* read the count at once and however they crash.                          *)
THEOREM LimitsHold == Spec => []LimitOvershoot
<1>1. DeliveryInv /\ LimitKept /\ [Next]_vars => LimitKept'
  BY LimitStep
<1>2. Spec => []LimitKept
  BY <1>1, LimitStarts, DeliveryStarts, DeliveryInductive, PTL DEF Spec
<1> QED  BY <1>2, LimitHeld, DeliveryInductive, PTL
=============================================================================
