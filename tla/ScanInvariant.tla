--------------------------- MODULE ScanInvariant ----------------------------
(***************************************************************************)
(* The inductive invariant of ScanClient, in named parts: what the pages,  *)
(* the reads under way and the server's tables say about each other in     *)
(* every reachable state.                                                  *)
(***************************************************************************)
EXTENDS ScanClient

Created == 1..issued       \* the request ids created so far

CallStates ==
  [state : {"IDLE", "SENT", "MAPPED", "RECEIVED", "ANSWERED"}, request : 0..MaxRequests,
   token : QRs \cup {None}, cookie : 0..MaxScopes, scope : 0..MaxScopes,
   answer : Answers \cup {None}]
LedgerRows == [status : {"NONE", "PENDING", "SUCCEEDED", "REJECTED"},
               token : Tokens \cup {None}]
Births == [tab : Tabs, scope : 0..MaxScopes]

ServerTypes ==
  /\ owner \in [Requests -> 0..MaxScopes]
  /\ stamp \in [Requests -> 0..(MaxRequests + 1)]
  /\ ledger \in [Requests -> LedgerRows]
  /\ call \in [Calls -> CallStates]
  /\ phones \subseteq Scopes /\ cookie \in 0..MaxScopes /\ scopes \in Scopes

PageTypes ==
  /\ page \in [Tabs -> {"STARTUP", "ACTIVATION", "CONNECTED", "SCANNER"}]
  /\ serving \in [Tabs -> 0..MaxScopes]
  /\ held \in [Tabs -> 0..MaxRequests] /\ token \in [Tabs -> QRs \cup {None}]
  /\ result \in [Tabs -> {"NONE", "ACCEPTED", "REJECTED"}]
  /\ started \in [Tabs -> BOOLEAN] /\ read \in [Tabs -> Reads \cup {None}]
  /\ checking \in [Tabs -> BOOLEAN] /\ chosen \in [Tabs -> BOOLEAN]
  /\ marker \in [Tabs -> Markers \cup {None}]

HistoryTypes ==
  /\ issued \in 0..MaxRequests
  /\ born \in [Requests -> Births \cup {None}] /\ \A r \in Created : born[r] \in Births
  /\ handed \in [Requests -> {0, 1}]
  /\ refused \subseteq Created /\ excused \subseteq Created
  /\ faults \in 0..MaxFaults /\ reloads \in 0..MaxReloads

TypeOK == ServerTypes /\ PageTypes /\ HistoryTypes

(* Only the page that selected a meal type while it had no unresolved      *)
(* serving reads, and what it reads is the last request of its own making. *)
Reading(t) == held[t] # 0 /\ chosen[t] /\ result[t] = "NONE"

Untouched(t) ==
  /\ token[t] = None /\ result[t] = "NONE" /\ ~started[t] /\ read[t] = None
  /\ ~checking[t]

PageSane(t) ==
  /\ held[t] = 0 => Untouched(t)
  /\ held[t] # 0 => held[t] \in Created /\ started[t]
  /\ page[t] # "SCANNER" => held[t] = 0 /\ ~chosen[t]
  /\ page[t] = "SCANNER" => marker[t] = None \/ marker[t].request = held[t]
  /\ token[t] # None => chosen[t]
  /\ ~(checking[t] /\ read[t] # None)
  /\ marker[t] # None => marker[t].request \in Created

ReadsItsOwn(t) ==
  LET r == held[t]
  IN Reading(t) => /\ born[r].tab = t /\ born[r].scope = serving[t]
                   /\ \A x \in Created : born[x].tab = t => x <= r

(* A page waits for a read of its request that nobody else waits for; when *)
(* it is the first, it is the only one, and has made no row if malformed.  *)
WaitsForOne(t) ==
  LET c == read[t].call
      r == held[t]
  IN read[t] # None =>
       /\ Reading(t)
       /\ call[c].state # "IDLE" /\ call[c].request = r
       /\ \A u \in Tabs : read[u] # None /\ read[u].call = c => u = t
       /\ ~read[t].again =>
            /\ \A d \in Calls : call[d].request = r => d = c
            /\ call[c].token = Garbled => ledger[r] = NoRow

ResultTrue(t) ==
  /\ result[t] = "ACCEPTED" => ledger[held[t]].status = "SUCCEEDED"
  /\ result[t] = "REJECTED" => held[t] \in refused

PageInv(t) == PageSane(t) /\ ReadsItsOwn(t) /\ WaitsForOne(t) /\ ResultTrue(t)

(* A read carries the identity its request was created under, and its      *)
(* answer is true.                                                         *)
CallHonest(c) ==
  LET r == call[c].request
      a == call[c].answer
  IN /\ call[c].state = "IDLE" => call[c] = Idle
     /\ call[c].state # "IDLE" =>
          r \in Created /\ call[c].scope = born[r].scope /\ call[c].token \in QRs
     /\ call[c].state = "RECEIVED" => call[c].token # Garbled /\ ledger[r] # NoRow
     /\ a # None => call[c].state = "ANSWERED"
     /\ a \in {"APPROVED", "DUPLICATE"} => ledger[r].status = "SUCCEEDED"
     /\ a = "REJECTED" => ledger[r].status = "REJECTED"
     /\ a = "INVALID_QR" => call[c].token = Garbled
     /\ a = "APPROVED" =>
          /\ handed[r] = 0
          /\ \A d \in Calls : call[d].request = r /\ call[d].answer = "APPROVED" => d = c

RowHonest(r) ==
  /\ owner[r] # 0 => r \in Created /\ owner[r] = born[r].scope
  /\ ledger[r].status = "NONE" <=> ledger[r] = NoRow
  /\ ledger[r] # NoRow => r \in Created
  /\ handed[r] = 1 => ledger[r].status = "SUCCEEDED"

(* A request without a row that no read can give one any more.             *)
Dead(r) ==
  /\ ledger[r] = NoRow
  /\ \A c \in Calls : call[c].request = r =>
       call[c].state = "ANSWERED" \/ call[c].token = Garbled
  /\ \A t \in Tabs : Reading(t) => held[t] # r

Over(r) == Decided(r) \/ Dead(r)

RefusedStay == \A r \in refused : ledger[r].status = "REJECTED" \/ Dead(r)

Marked(r) == LET t == born[r].tab IN marker[t] # None /\ marker[t].request = r

KeptOrOver == \A r \in Created \ excused : Over(r) \/ Marked(r)

OverBeforeNext ==
  \A r \in Created \ excused, x \in Created :
    r < x /\ born[r].tab = born[x].tab => Over(r)

ScanInv ==
  /\ TypeOK /\ RefusedStay /\ KeptOrOver /\ OverBeforeNext
  /\ \A t \in Tabs : PageInv(t)
  /\ \A c \in Calls : CallHonest(c)
  /\ \A r \in Requests : RowHonest(r)
=============================================================================
