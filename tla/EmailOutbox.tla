---------------------------- MODULE EmailOutbox ----------------------------
(***************************************************************************)
(* What email delivery promises of every email, whatever the processes do: *)
(* it is sent only after an approval, by whoever takes it; it is taken     *)
(* once, reaches the mailbox at most once and only while it is taken, and  *)
(* is reported sent only if it did.  Nothing that is sent or closed is     *)
(* ever taken again.  Any number of emails may move in a step.             *)
(***************************************************************************)
EXTENDS Naturals

CONSTANT Ids                 \* the emails

VARIABLES stage, copies      \* of each email: how far it is; copies delivered

Moves ==
  {<<"unmade", "held">>,     <<"unmade", "approved">>,  <<"held", "approved">>,
   <<"held", "closed">>,     <<"approved", "taken">>,   <<"approved", "closed">>,
   <<"taken", "sent">>,      <<"taken", "closed">>}

OutboxInit ==
  /\ stage = [e \in Ids |-> "unmade"]
  /\ copies = [e \in Ids |-> 0]

(* The provider takes a message of an email that someone has taken.        *)
Reaches(e) == stage[e] = "taken" /\ copies[e] = 0 /\ copies'[e] = 1

Moved(e) ==
  /\ stage'[e] = stage[e] \/ <<stage[e], stage'[e]>> \in Moves
  /\ stage[e] = "taken" /\ stage'[e] = "sent" => copies[e] = 1
  /\ copies'[e] = copies[e] \/ Reaches(e)

OutboxNext ==
  /\ stage' \in [Ids -> {"unmade", "held", "approved", "taken", "sent", "closed"}]
  /\ copies' \in [Ids -> {0, 1}]
  /\ \A e \in Ids : Moved(e)

OutboxSpec == OutboxInit /\ [][OutboxNext]_<<stage, copies>>
=============================================================================
