----------------------------- MODULE ScanProofs -----------------------------
(***************************************************************************)
(* Theorems about ScanClient: ScanInv is an invariant; the properties and  *)
(* the implementation of ScanPromise follow from it.                       *)
(*                                                                         *)
(* A step disturbs few parts of the invariant.  For each part, a lemma     *)
(* says which changes leave it alone; the lemma of an action deals with    *)
(* the parts that it does change.                                          *)
(***************************************************************************)
EXTENDS ScanInvariant, FiniteSetTheorems, WellFoundedInduction, TLAPS

-----------------------------------------------------------------------------
(* What a step of a page may do.                                           *)

SamePage(u) ==
  /\ page'[u] = page[u] /\ serving'[u] = serving[u] /\ held'[u] = held[u]
  /\ token'[u] = token[u] /\ result'[u] = result[u] /\ started'[u] = started[u]
  /\ read'[u] = read[u] /\ checking'[u] = checking[u] /\ chosen'[u] = chosen[u]
  /\ marker'[u] = marker[u]

(* The page takes the answer it waits for, or posts a read of its request. *)
Takes(t, d) ==
  /\ read[t] # None /\ d = read[t].call /\ read'[t] = None
  /\ call'[d] = Idle

Posts(t, d) ==
  /\ call[d] = Idle /\ Reading(t)'
  /\ call'[d].state = "SENT" /\ call'[d].answer = None
  /\ call'[d].request = held'[t] /\ call'[d].scope = serving'[t]
  /\ call'[d].token \in QRs

CallFrame(t) ==
  \A d \in Calls : call'[d] = call[d] \/ Takes(t, d) \/ Posts(t, d)

(* A request is handed out on the answer of the read that made its meal,   *)
(* and refused when it has none for ever.                                  *)
HandsOut(t, r) ==
  /\ handed'[r] = 1 /\ r = held[t]
  /\ read[t] # None /\ call[read[t].call].answer = "APPROVED" /\ Takes(t, read[t].call)

Told(t) ==
  /\ \A r \in Requests : handed'[r] = handed[r] \/ HandsOut(t, r)
  /\ refused \subseteq refused'
  /\ \A r \in refused' \ refused : ledger[r].status = "REJECTED" \/ Dead(r)'

(* A new request is the page's, is marked or excused, and comes after all  *)
(* earlier ones are over; what a page reads is new, or was read before.    *)
Fresh == Created' \ Created

HistoryFrame(t) ==
  /\ issued' \in {issued, issued + 1} /\ excused \subseteq excused'
  /\ \A x \in Created : born'[x] = born[x]
  /\ \A x \in Fresh : /\ born'[x].tab = t
                      /\ x \in excused' \/ Marked(x)'
                      /\ \A r \in Created \ excused' : born[r].tab = t => Over(r)'
  /\ \A r \in Created \ excused' : Marked(r) /\ born[r].tab = t => Over(r)' \/ Marked(r)'

ReadFrame(t) ==
  Reading(t)' => held'[t] \notin Created \/ (Reading(t) /\ held'[t] = held[t])

PageFrame(t) ==
  /\ UNCHANGED server /\ \A u \in Tabs \ {t} : SamePage(u)
  /\ CallFrame(t) /\ Told(t) /\ HistoryFrame(t) /\ ReadFrame(t)

Safe(t) == TypeOK' /\ PageFrame(t) /\ PageInv(t)'

LEMMA CallsTyped ==
  ASSUME ScanInv, NEW c \in Calls
  PROVE  /\ call[c] \in CallStates /\ CallHonest(c)
         /\ call[c].request \in 0..MaxRequests
         /\ call[c].state # "IDLE" =>
              call[c].request \in Created /\ call[c].request \in Requests
BY ScanClientAssumption
DEF ScanInv, TypeOK, ServerTypes, CallStates, CallHonest, Created, Requests, HistoryTypes

LEMMA IdleCall ==
  Idle.state = "IDLE" /\ Idle.request = 0 /\ Idle.answer = None
BY DEF Idle

(* Nobody reads a request but the page that made it.                       *)
LEMMA OneReader ==
  ASSUME ScanInv, NEW t \in Tabs, NEW u \in Tabs, Reading(t), Reading(u), held[t] = held[u]
  PROVE  t = u
BY DEF ScanInv, PageInv, ReadsItsOwn

LEMMA CreatedGrows ==
  ASSUME ScanInv, NEW t \in Tabs, PageFrame(t)
  PROVE  /\ Created \subseteq Created' /\ Fresh = Created' \ Created
         /\ \A r \in Fresh, x \in Created' : x <= r
         /\ \A r \in Created' : r \in Nat /\ r # 0
         /\ \A r \in Created : r \in Requests
<1>1. issued \in 0..MaxRequests /\ MaxRequests \in Nat
  BY ScanClientAssumption DEF ScanInv, TypeOK, HistoryTypes
<1>2. issued' \in {issued, issued + 1}
  BY DEF PageFrame, HistoryFrame
<1> QED  BY <1>1, <1>2 DEF Created, Fresh, Requests

LEMMA DeadStays ==
  ASSUME ScanInv, NEW t \in Tabs, PageFrame(t), NEW r \in Created, Dead(r)
  PROVE  Dead(r)'
<1>1. ledger' = ledger /\ ledger'[r] = NoRow
  BY DEF PageFrame, server, Dead
<1>2. ASSUME NEW u \in Tabs, Reading(u)'
      PROVE  held'[u] # r
  <2>1. CASE u = t
    BY <1>2, <2>1 DEF PageFrame, ReadFrame, Dead
  <2>2. CASE u # t
    <3>1. held'[u] = held[u] /\ (Reading(u)' => Reading(u))
      BY <2>2 DEF PageFrame, SamePage, Reading
    <3> QED  BY <1>2, <3>1 DEF Dead
  <2> QED  BY <2>1, <2>2
<1>3. ASSUME NEW d \in Calls, call'[d].request = r
      PROVE  call'[d].state = "ANSWERED" \/ call'[d].token = Garbled
  <2>1. r # 0
    BY CreatedGrows
  <2>2. ~ Takes(t, d)
    BY <1>3, <2>1, IdleCall DEF Takes
  <2>3. ~ Posts(t, d)
    BY <1>2, <1>3 DEF Posts
  <2> QED  BY <1>3, <2>2, <2>3 DEF PageFrame, CallFrame, Dead
<1> QED  BY <1>1, <1>2, <1>3 DEF Dead

LEMMA OverStays ==
  ASSUME ScanInv, NEW t \in Tabs, PageFrame(t), NEW r \in Created, Over(r)
  PROVE  Over(r)'
<1>1. CASE Decided(r)
  BY <1>1 DEF Over, Decided, PageFrame, server
<1>2. CASE Dead(r)
  BY <1>2, DeadStays DEF Over
<1> QED  BY <1>1, <1>2 DEF Over

LEMMA RefusedKept ==
  ASSUME ScanInv, NEW t \in Tabs, PageFrame(t)
  PROVE  RefusedStay'
<1>1. refused \subseteq Created /\ ledger' = ledger
  BY DEF ScanInv, TypeOK, HistoryTypes, PageFrame, server
<1>2. ASSUME NEW r \in refused'
      PROVE  ledger'[r].status = "REJECTED" \/ Dead(r)'
  <2>1. CASE r \in refused
    BY <1>1, <2>1, DeadStays DEF ScanInv, RefusedStay
  <2>2. CASE r \notin refused
    BY <1>1, <1>2, <2>2 DEF PageFrame, Told
  <2> QED  BY <2>1, <2>2
<1> QED  BY <1>2 DEF RefusedStay

LEMMA HistoryKept ==
  ASSUME ScanInv, NEW t \in Tabs, PageFrame(t)
  PROVE  KeptOrOver' /\ OverBeforeNext'
<1>1. /\ Created \subseteq Created' /\ Fresh = Created' \ Created
      /\ \A r \in Fresh, x \in Created' : x <= r
      /\ \A r \in Created' : r \in Nat
      /\ \A x \in Created : born'[x] = born[x] /\ excused \subseteq excused'
  BY CreatedGrows DEF PageFrame, HistoryFrame
<1>0. HistoryFrame(t)
  BY DEF PageFrame
<1>2. ASSUME NEW r \in Created' \ excused'
      PROVE  Over(r)' \/ Marked(r)'
  <2>1. CASE r \in Created
    <3>1. Over(r) \/ Marked(r)
      BY <1>1, <1>2, <2>1 DEF ScanInv, KeptOrOver
    <3>2. CASE Over(r)
      BY <2>1, <3>2, OverStays
    <3>3. CASE Marked(r) /\ born[r].tab = t
      BY <1>0, <1>2, <2>1, <3>3 DEF HistoryFrame
    <3>4. CASE Marked(r) /\ born[r].tab # t
      <4>1. born[r].tab \in Tabs
        BY <2>1 DEF ScanInv, TypeOK, HistoryTypes, Births
      <4> QED  BY <1>1, <2>1, <3>4, <4>1 DEF Marked, PageFrame, SamePage
    <3> QED  BY <3>1, <3>2, <3>3, <3>4
  <2>2. CASE r \notin Created
    BY <1>0, <1>1, <1>2, <2>2 DEF HistoryFrame
  <2> QED  BY <2>1, <2>2
<1>3. ASSUME NEW r \in Created' \ excused', NEW x \in Created', r < x,
             born'[r].tab = born'[x].tab
      PROVE  Over(r)'
  <2>1. r \in Created
    BY <1>1, <1>3
  <2>2. CASE x \in Created
    <3>1. Over(r)
      BY <1>1, <1>3, <2>1, <2>2 DEF ScanInv, OverBeforeNext
    <3> QED  BY <2>1, <3>1, OverStays
  <2>3. CASE x \notin Created
    <3>1. x \in Fresh /\ born'[r] = born[r] /\ r \in Created \ excused'
      BY <1>1, <1>3, <2>1, <2>3
    <3>2. born'[x].tab = t
      BY <1>0, <3>1 DEF HistoryFrame
    <3>3. \A f \in Created \ excused' : born[f].tab = t => Over(f)'
      BY <1>0, <3>1, Zenon DEF HistoryFrame
    <3>4. born[r].tab = t
      BY <1>3, <3>1, <3>2
    <3> QED  BY <3>1, <3>3, <3>4
  <2> QED  BY <2>2, <2>3
<1> QED  BY <1>2, <1>3 DEF KeptOrOver, OverBeforeNext

LEMMA OthersPageInv ==
  ASSUME ScanInv, NEW t \in Tabs, Safe(t), NEW u \in Tabs \ {t}
  PROVE  PageInv(u)'
<1>1. /\ PageInv(u) /\ PageInv(t) /\ SamePage(u) /\ Created \subseteq Created'
      /\ \A x \in Created : born'[x] = born[x]
      /\ \A x \in Fresh : born'[x].tab = t
      /\ Fresh = Created' \ Created /\ refused \subseteq refused' /\ ledger' = ledger
      /\ CallFrame(t) /\ ReadFrame(t)
  BY CreatedGrows DEF ScanInv, Safe, PageFrame, HistoryFrame, Told, server
<1>2. Reading(u)' = Reading(u) /\ PageSane(u)
  BY <1>1 DEF Reading, SamePage, PageInv
<1>3. PageSane(u)'
  BY <1>1, <1>2 DEF PageSane, Untouched, SamePage
<1>4. Reading(u) => held[u] \in Created
  BY <1>2 DEF PageSane, Reading
<1>5. ReadsItsOwn(u)'
  <2> SUFFICES ASSUME Reading(u)'
               PROVE  /\ born'[held'[u]].tab = u /\ born'[held'[u]].scope = serving'[u]
                      /\ \A x \in Created' : born'[x].tab = u => x <= held'[u]
    BY DEF ReadsItsOwn
  <2>1. held'[u] = held[u] /\ serving'[u] = serving[u] /\ Reading(u) /\ held[u] \in Created
    BY <1>1, <1>2, <1>4 DEF SamePage
  <2>2. /\ born[held[u]].tab = u /\ born[held[u]].scope = serving[u]
        /\ \A x \in Created : born[x].tab = u => x <= held[u]
    BY <1>1, <2>1 DEF PageInv, ReadsItsOwn
  <2> QED  BY <1>1, <2>1, <2>2
<1>6. WaitsForOne(u)'
  <2> SUFFICES ASSUME read'[u] # None PROVE WaitsForOne(u)'
    BY DEF WaitsForOne
  <2> DEFINE c == read[u].call
             r == held[u]
  <2>1. read'[u] = read[u] /\ read[u] # None /\ held'[u] = r /\ read[u] \in Reads /\ c \in Calls
    <3>1. read[u] \in Reads \cup {None}
      BY DEF ScanInv, TypeOK, PageTypes
    <3> QED  BY <1>1, <3>1 DEF SamePage, Reads
  <2>2. /\ Reading(u) /\ r \in Created /\ call[c].state # "IDLE" /\ call[c].request = r
        /\ \A v \in Tabs : read[v] # None /\ read[v].call = c => v = u
        /\ ~read[u].again =>
             /\ \A d \in Calls : call[d].request = r => d = c
             /\ call[c].token = Garbled => ledger[r] = NoRow
    BY <1>1, <1>4, <2>1 DEF PageInv, WaitsForOne
  <2>3. call'[c] = call[c]
    BY <1>1, <2>1, <2>2, IdleCall DEF CallFrame, Takes, Posts
  <2>4. ASSUME NEW d \in Calls, Posts(t, d) PROVE call'[d].request # r /\ d # c
    <3>1. Reading(t)' /\ call'[d].request = held'[t] /\ call[d] = Idle
      BY <2>4 DEF Posts
    <3>2. held'[t] # r
      BY <1>1, <2>2, <3>1, OneReader DEF ReadFrame
    <3> QED  BY <2>2, <3>1, <3>2, IdleCall
  <2>5. \A d \in Calls : call'[d].request = r => call[d].request = r
    <3>1. r # 0
      BY <2>2 DEF Reading
    <3> QED  BY <1>1, <2>4, <3>1, IdleCall DEF CallFrame, Takes
  <2>6. ASSUME NEW v \in Tabs, read'[v] # None, read'[v].call = c PROVE v = u
    <3>1. CASE v # t
      BY <2>2, <2>6, <3>1 DEF Safe, PageFrame, SamePage
    <3>2. CASE v = t
      <4>1. PageInv(t)' /\ call'[c].request = held'[t] /\ Reading(t)'
        BY <2>6, <3>2 DEF Safe, PageInv, WaitsForOne
      <4>2. held'[t] = r
        BY <2>2, <2>3, <4>1
      <4> QED  BY <1>1, <2>2, <3>2, <4>1, <4>2, OneReader DEF ReadFrame
    <3> QED  BY <3>1, <3>2
  <2>7. Reading(u)'
    BY <1>2, <2>2
  <2> QED  BY <1>1, <2>1, <2>2, <2>3, <2>5, <2>6, <2>7 DEF WaitsForOne
<1>7. ResultTrue(u)'
  BY <1>1 DEF PageInv, ResultTrue, SamePage
<1> QED  BY <1>3, <1>5, <1>6, <1>7 DEF PageInv

LEMMA HandedRows ==
  ASSUME ScanInv, NEW t \in Tabs, PageFrame(t), NEW r \in Requests, handed'[r] # handed[r]
  PROVE  LET c == read[t].call
         IN /\ handed'[r] = 1 /\ c \in Calls /\ call[c].answer = "APPROVED" /\ call[c].request = r
            /\ call'[c] = Idle /\ ledger[r].status = "SUCCEEDED" /\ handed[r] = 0
<1> DEFINE c == read[t].call
<1>1. HandsOut(t, r) /\ PageInv(t)
  BY DEF PageFrame, Told, ScanInv
<1>2. read[t] # None /\ call[c].answer = "APPROVED" /\ call'[c] = Idle /\ r = held[t]
      /\ handed'[r] = 1
  BY <1>1 DEF HandsOut, Takes
<1>3. c \in Calls
  <2>1. read[t] \in Reads \cup {None}
    BY DEF ScanInv, TypeOK, PageTypes
  <2> QED  BY <1>2, <2>1 DEF Reads
<1>4. call[c].request = r
  BY <1>1, <1>2 DEF PageInv, WaitsForOne
<1> QED  BY <1>2, <1>3, <1>4, CallsTyped DEF CallHonest

LEMMA RowsKept ==
  ASSUME ScanInv, NEW t \in Tabs, PageFrame(t), NEW r \in Requests
  PROVE  RowHonest(r)'
<1>1. /\ RowHonest(r) /\ owner' = owner /\ ledger' = ledger
      /\ Created \subseteq Created' /\ \A x \in Created : born'[x] = born[x]
  BY CreatedGrows DEF ScanInv, PageFrame, server, HistoryFrame
<1>2. handed'[r] = 1 => ledger[r].status = "SUCCEEDED"
  BY <1>1, HandedRows DEF RowHonest
<1> QED  BY <1>1, <1>2 DEF RowHonest

LEMMA NoAnswer ==
  /\ None \notin {"APPROVED", "DUPLICATE", "REJECTED", "INVALID_QR"}
  /\ \A a \in {"APPROVED", "DUPLICATE", "REJECTED", "INVALID_QR"} : None # a
BY ScanClientAssumption DEF Answers

LEMMA CallsKept ==
  ASSUME ScanInv, NEW t \in Tabs, PageFrame(t), TypeOK', PageInv(t)', NEW c \in Calls
  PROVE  CallHonest(c)'
<1>1. /\ CallHonest(c) /\ owner' = owner /\ ledger' = ledger
      /\ Created \subseteq Created' /\ \A x \in Created : born'[x] = born[x]
      /\ CallFrame(t)
  BY CreatedGrows DEF ScanInv, PageFrame, server, HistoryFrame
<1>2. CASE call'[c] = Idle
  BY <1>2, IdleCall, NoAnswer DEF CallHonest
<1>3. CASE Posts(t, c)
  <2>1. held'[t] \in Created' /\ born'[held'[t]].scope = serving'[t]
    BY <1>3 DEF Posts, PageInv, PageSane, ReadsItsOwn, Reading
  <2>2. /\ call'[c].state = "SENT" /\ call'[c].answer = None /\ call'[c].request = held'[t]
        /\ call'[c].scope = serving'[t] /\ call'[c].token \in QRs
    BY <1>3 DEF Posts
  <2> QED  BY <2>1, <2>2, NoAnswer DEF CallHonest
<1>4. CASE call'[c] = call[c] /\ call[c].state # "IDLE"
  <2> DEFINE r == call[c].request
  <2>1. r \in Created /\ r \in Requests
    BY <1>4, CallsTyped
  <2>2. ASSUME call[c].answer = "APPROVED", NEW d \in Calls,
               call'[d].request = r, call'[d].answer = "APPROVED"
        PROVE  d = c
    <3>1. call'[d] = call[d]
      BY <1>1, <2>2, IdleCall, NoAnswer DEF CallFrame, Takes, Posts
    <3> QED  BY <1>1, <2>2, <3>1 DEF CallHonest
  <2>3. call[c].answer = "APPROVED" => handed'[r] = 0
    BY <1>1, <1>4, <2>1, HandedRows, IdleCall DEF CallHonest
  <2> QED  BY <1>1, <1>4, <2>1, <2>2, <2>3 DEF CallHonest
<1> QED  BY <1>1, <1>2, <1>3, <1>4, IdleCall DEF CallFrame, Takes, CallHonest

LEMMA SafePage ==
  ASSUME ScanInv, NEW t \in Tabs, Safe(t)
  PROVE  ScanInv'
<1>1. PageFrame(t) /\ TypeOK' /\ PageInv(t)'
  BY DEF Safe
<1>2. RefusedStay' /\ KeptOrOver' /\ OverBeforeNext'
  BY <1>1, RefusedKept, HistoryKept
<1>3. \A u \in Tabs : PageInv(u)'
  BY <1>1, OthersPageInv
<1>4. (\A c \in Calls : CallHonest(c)') /\ \A r \in Requests : RowHonest(r)'
  BY <1>1, CallsKept, RowsKept
<1> QED  BY <1>1, <1>2, <1>3, <1>4 DEF ScanInv

-----------------------------------------------------------------------------
(* What a step of the server may do: it moves one read on, or loses one    *)
(* that nobody waits for, and writes at most the row of that read's        *)
(* request.                                                                *)
pages == <<page, serving, flow, read, checking, chosen, marker>>

Lost(c) == call'[c] = Idle /\ ~ Awaited(c) /\ UNCHANGED <<owner, ledger>>

RowMoves(c, r) ==
  /\ r = call[c].request /\ call[c].token # Garbled
  /\ ~ Decided(r) /\ ledger'[r] # NoRow

MovesOn(c) ==
  LET r == call[c].request
  IN /\ call[c].state # "ANSWERED" /\ call'[c].state # "IDLE"
     /\ call'[c].request = r /\ call'[c].token = call[c].token
     /\ CallHonest(c)' /\ RowHonest(r)'
     /\ \A x \in Requests : ledger'[x] = ledger[x] \/ RowMoves(c, x)
     /\ \A x \in Requests : owner'[x] = owner[x] \/ x = r

ServerFrame(c) ==
  /\ UNCHANGED <<pages, told, history>>
  /\ call[c].state # "IDLE" /\ \A d \in Calls \ {c} : call'[d] = call[d]
  /\ Lost(c) \/ MovesOn(c)

SafeAt(c) == TypeOK' /\ ServerFrame(c)

LEMMA PagesSame ==
  ASSUME UNCHANGED <<pages, told, history>>
  PROVE  /\ page' = page /\ serving' = serving /\ held' = held /\ token' = token
         /\ result' = result /\ started' = started /\ read' = read
         /\ checking' = checking /\ chosen' = chosen /\ marker' = marker
         /\ handed' = handed /\ refused' = refused /\ born' = born
         /\ issued' = issued /\ excused' = excused
BY DEF pages, told, history, flow

LEMMA CreatedIn ==
  ASSUME TypeOK
  PROVE  \A r \in Created : r \in Requests /\ r # 0 /\ r \in Nat
BY ScanClientAssumption DEF TypeOK, HistoryTypes, Created, Requests

LEMMA LedgerMoves ==
  ASSUME ScanInv, NEW c \in Calls, SafeAt(c), NEW r \in Requests
  PROVE  /\ ledger'[r] = ledger[r] \/ RowMoves(c, r)
         /\ ledger[r] # NoRow => ledger'[r] # NoRow
         /\ Decided(r) => ledger'[r] = ledger[r]
BY DEF SafeAt, ServerFrame, Lost, MovesOn, RowMoves

(* The other reads, and what they read.                                    *)
LEMMA OtherCalls ==
  ASSUME ScanInv, NEW c \in Calls, SafeAt(c), NEW d \in Calls \ {c}
  PROVE  CallHonest(d)'
<1>1. CallHonest(d) /\ call'[d] = call[d]
  BY DEF ScanInv, SafeAt, ServerFrame
<1>2. issued' = issued /\ born' = born /\ handed' = handed /\ Created' = Created
  BY PagesSame DEF SafeAt, ServerFrame, Created
<1>3. CASE call[d].state = "IDLE"
  BY <1>1, <1>3, IdleCall, NoAnswer DEF CallHonest
<1>4. CASE call[d].state # "IDLE"
  <2> DEFINE r == call[d].request
  <2>1. r \in Requests
    BY <1>4, CallsTyped
  <2>2. /\ ledger[r] # NoRow => ledger'[r] # NoRow
        /\ ledger[r].status \in {"SUCCEEDED", "REJECTED"} => ledger'[r] = ledger[r]
    BY <2>1, LedgerMoves DEF Decided
  <2>3. ASSUME NEW e \in Calls, call[d].answer = "APPROVED",
               call'[e].request = r, call'[e].answer = "APPROVED"
        PROVE  e = d
    <3>1. CASE e # c
      BY <1>1, <2>3, <3>1 DEF SafeAt, ServerFrame, CallHonest
    <3>2. CASE e = c
      <4>1. CallHonest(c)' /\ call'[d].request = r /\ call'[d].answer = "APPROVED"
        BY <1>1, <2>3, <3>2, IdleCall, NoAnswer DEF SafeAt, ServerFrame, Lost, MovesOn
      <4> QED  BY <2>3, <3>2, <4>1 DEF CallHonest
    <3> QED  BY <3>1, <3>2
  <2> QED  BY <1>1, <1>2, <1>4, <2>2, <2>3 DEF CallHonest
<1> QED  BY <1>3, <1>4

LEMMA PagesKept ==
  ASSUME ScanInv, NEW c \in Calls, SafeAt(c), NEW t \in Tabs
  PROVE  PageInv(t)'
<1>1. PageInv(t) /\ UNCHANGED <<pages, told, history>> /\ Created' = Created
  BY PagesSame DEF ScanInv, SafeAt, ServerFrame, Created
<1>2. PageSane(t)' /\ ReadsItsOwn(t)' /\ Reading(t)' = Reading(t)
  BY <1>1, PagesSame DEF PageInv, PageSane, Untouched, ReadsItsOwn, Reading
<1>3. held[t] # 0 => held[t] \in Requests
  BY DEF ScanInv, TypeOK, PageTypes, Requests
<1>4. ResultTrue(t)'
  <2>1. result[t] = "ACCEPTED" => held[t] # 0
    BY <1>1 DEF PageInv, PageSane, Untouched
  <2>2. result[t] = "ACCEPTED" => ledger'[held[t]].status = "SUCCEEDED"
    BY <1>1, <1>3, <2>1, LedgerMoves DEF PageInv, ResultTrue, Decided
  <2> QED  BY <1>1, <2>2, PagesSame DEF PageInv, ResultTrue
<1>5. WaitsForOne(t)'
  <2> SUFFICES ASSUME read'[t] # None PROVE WaitsForOne(t)'
    BY DEF WaitsForOne
  <2> DEFINE b == read[t].call
             r == held[t]
  <2>1. read' = read /\ held' = held /\ read[t] # None /\ b \in Calls
    <3>1. read[t] \in Reads \cup {None}
      BY DEF ScanInv, TypeOK, PageTypes
    <3> QED  BY <1>1, <3>1, PagesSame DEF Reads
  <2>2. /\ Reading(t) /\ call[b].state # "IDLE" /\ call[b].request = r
        /\ \A u \in Tabs : read[u] # None /\ read[u].call = b => u = t
        /\ ~read[t].again =>
             /\ \A d \in Calls : call[d].request = r => d = b
             /\ call[b].token = Garbled => ledger[r] = NoRow
    BY <1>1, <2>1 DEF PageInv, WaitsForOne
  <2>3. \A d \in Calls : \/ call'[d].request = call[d].request /\ call'[d].token = call[d].token
                         \/ call'[d] = Idle /\ ~ Awaited(d) /\ d = c
    BY DEF SafeAt, ServerFrame, Lost, MovesOn
  <2>4. Awaited(b) /\ call'[b].state # "IDLE"
    <3>1. Awaited(b)
      BY <2>1, <2>2 DEF Awaited
    <3> QED  BY <2>1, <2>2, <3>1 DEF SafeAt, ServerFrame, Lost, MovesOn
  <2>5. call'[b].request = r /\ call'[b].token = call[b].token
    BY <2>1, <2>2, <2>3, <2>4
  <2>6. r # 0 /\ \A d \in Calls : call'[d].request = r => call[d].request = r
    BY <2>2, <2>3, IdleCall DEF Reading
  <2>7. ~read[t].again /\ call[b].token = Garbled => ledger'[r] = NoRow
    <3>1. r \in Requests
      BY <1>3, <2>6
    <3> QED  BY <2>2, <3>1, LedgerMoves DEF RowMoves
  <2> QED  BY <1>2, <2>1, <2>2, <2>4, <2>5, <2>6, <2>7 DEF WaitsForOne
<1> QED  BY <1>2, <1>4, <1>5 DEF PageInv

LEMMA EndStays ==
  ASSUME ScanInv, NEW c \in Calls, SafeAt(c), NEW r \in Created
  PROVE  /\ Dead(r) => Dead(r)' 
         /\ Over(r) => Over(r)'
<1>1. UNCHANGED <<pages, told, history>> /\ r \in Requests /\ r # 0
  BY CreatedIn DEF SafeAt, ServerFrame, ScanInv
<1>2. ASSUME Dead(r) PROVE Dead(r)'
  <2>1. ledger'[r] = NoRow
    BY <1>1, <1>2, LedgerMoves DEF Dead, RowMoves, SafeAt, ServerFrame, Lost, MovesOn
  <2>2. \A d \in Calls : call'[d].request = r =>
          call'[d].state = "ANSWERED" \/ call'[d].token = Garbled
    BY <1>1, <1>2, IdleCall DEF Dead, SafeAt, ServerFrame, Lost, MovesOn
  <2>3. \A t \in Tabs : Reading(t)' => held'[t] # r
    BY <1>1, <1>2, PagesSame DEF Dead, Reading
  <2> QED  BY <2>1, <2>2, <2>3 DEF Dead
<1>3. Decided(r) => Decided(r)'
  BY <1>1, LedgerMoves DEF Decided
<1> QED  BY <1>2, <1>3 DEF Over

LEMMA SafeServer ==
  ASSUME ScanInv, NEW c \in Calls, SafeAt(c)
  PROVE  ScanInv'
<1>1. /\ TypeOK' /\ UNCHANGED <<pages, told, history>> /\ Created' = Created
      /\ refused \subseteq Created /\ refused' = refused /\ excused' = excused
      /\ born' = born
  BY PagesSame DEF SafeAt, ServerFrame, Created, ScanInv, TypeOK, HistoryTypes
<1>2. \A r \in Requests : ledger[r].status = "REJECTED" => ledger'[r] = ledger[r]
  BY LedgerMoves DEF Decided
<1>3. RefusedStay'
  <2>1. \A r \in refused : r \in Requests
    BY <1>1, CreatedIn DEF ScanInv
  <2> QED  BY <1>1, <1>2, <2>1, EndStays DEF RefusedStay, ScanInv
<1>4. KeptOrOver' /\ OverBeforeNext'
  <2>1. \A r \in Created : Marked(r)' = Marked(r)
    BY <1>1, PagesSame DEF Marked
  <2> QED  BY <1>1, <2>1, EndStays DEF KeptOrOver, OverBeforeNext, ScanInv
<1>5. \A d \in Calls : CallHonest(d)'
  <2>1. CASE Lost(c)
    <3>1. CallHonest(c)'
      BY <2>1, IdleCall, NoAnswer DEF Lost, CallHonest
    <3> QED  BY <3>1, OtherCalls
  <2>2. CASE MovesOn(c)
    BY <2>2, OtherCalls DEF MovesOn
  <2> QED  BY <2>1, <2>2 DEF SafeAt, ServerFrame
<1>6. ASSUME NEW r \in Requests PROVE RowHonest(r)'
  <2>1. CASE owner'[r] = owner[r] /\ ledger'[r] = ledger[r]
    BY <1>1, <2>1, PagesSame DEF RowHonest, ScanInv
  <2>2. CASE ~ (owner'[r] = owner[r] /\ ledger'[r] = ledger[r])
    BY <2>2 DEF SafeAt, ServerFrame, Lost, MovesOn, RowMoves
  <2> QED  BY <2>1, <2>2
<1> QED  BY <1>1, <1>3, <1>4, <1>5, <1>6, PagesKept DEF ScanInv

-----------------------------------------------------------------------------
(* The steps of the server                                                 *)

LEMMA CallAdvanced ==
  ASSUME ScanInv, NEW c \in Calls, NEW s \in {"MAPPED", "RECEIVED"},
         call' = [call EXCEPT ![c].state = s]
  PROVE  /\ call' \in [Calls -> CallStates]
         /\ \A d \in Calls \ {c} : call'[d] = call[d]
         /\ call'[c].state = s /\ call'[c].request = call[c].request
         /\ call'[c].token = call[c].token /\ call'[c].scope = call[c].scope
         /\ call'[c].answer = call[c].answer
<1>1. call \in [Calls -> CallStates]
  BY DEF ScanInv, TypeOK, ServerTypes
<1> DEFINE new == [call[c] EXCEPT !.state = s]
<1>2. new \in CallStates /\ new.state = s /\ new.request = call[c].request
      /\ new.token = call[c].token /\ new.scope = call[c].scope /\ new.answer = call[c].answer
  BY <1>1 DEF CallStates
<1>3. call' = [call EXCEPT ![c] = new]
  BY <1>1
<1> HIDE DEF new
<1> QED  BY <1>1, <1>2, <1>3

LEMMA CallReplied ==
  ASSUME ScanInv, NEW c \in Calls, NEW a \in Answers, Reply(c, a)
  PROVE  /\ call' \in [Calls -> CallStates]
         /\ \A d \in Calls \ {c} : call'[d] = call[d]
         /\ call'[c].state = "ANSWERED" /\ call'[c].request = call[c].request
         /\ call'[c].token = call[c].token /\ call'[c].scope = call[c].scope
         /\ call'[c].answer = a
<1>1. call \in [Calls -> CallStates]
  BY DEF ScanInv, TypeOK, ServerTypes
<1> DEFINE new == [call[c] EXCEPT !.state = "ANSWERED", !.answer = a]
<1>2. new \in CallStates /\ new.state = "ANSWERED" /\ new.request = call[c].request
      /\ new.token = call[c].token /\ new.scope = call[c].scope /\ new.answer = a
  BY <1>1 DEF CallStates
<1>3. call' = [call EXCEPT ![c] = new]
  BY <1>1 DEF Reply
<1> HIDE DEF new
<1> QED  BY <1>1, <1>2, <1>3

(* A read that is still on its way has no answer yet.                      *)
LEMMA AtWork ==
  ASSUME ScanInv, NEW c \in Calls, call[c].state \in {"SENT", "MAPPED", "RECEIVED"}
  PROVE  /\ call[c].answer = None /\ call[c].request \in Created
         /\ call[c].request \in Requests
         /\ call[c].scope = born[call[c].request].scope /\ call[c].token \in QRs
BY CallsTyped DEF CallHonest

(* An answer that says nothing of the ledger, or of a row that is as it    *)
(* was, may be given at any time.                                          *)
LEMMA RepliesSafe ==
  ASSUME ScanInv, NEW c \in Calls, NEW a \in Answers, Reply(c, a),
         call[c].state \in {"SENT", "MAPPED", "RECEIVED"},
         UNCHANGED <<server, pages, told, history>>,
         TypeOK /\ call' \in [Calls -> CallStates] => TypeOK',
         a # "APPROVED",
         a = "DUPLICATE" => ledger[call[c].request].status = "SUCCEEDED",
         a = "REJECTED" => ledger[call[c].request].status = "REJECTED",
         a = "INVALID_QR" => call[c].token = Garbled
  PROVE  SafeAt(c)
<1>1. /\ owner' = owner /\ ledger' = ledger /\ born' = born /\ Created' = Created
      /\ handed' = handed /\ UNCHANGED <<pages, told, history>>
  BY PagesSame DEF server, Created
<1>2. CallHonest(c)'
  BY <1>1, CallReplied, AtWork, NoAnswer DEF CallHonest
<1>3. RowHonest(call[c].request)'
  BY <1>1, AtWork, CallReplied DEF RowHonest, ScanInv
<1>4. TypeOK'
  BY CallReplied DEF ScanInv
<1>5. MovesOn(c)
  BY <1>1, <1>2, <1>3, CallReplied DEF MovesOn
<1> QED  BY <1>1, <1>4, <1>5, CallReplied DEF SafeAt, ServerFrame

LEMMA ReserveSafe ==
  ASSUME ScanInv, NEW c \in Calls, Reserve(c)
  PROVE  SafeAt(c)
<1> DEFINE r == call[c].request
<1>1. /\ call[c].state = "SENT" /\ ledger' = ledger /\ phones' = phones /\ cookie' = cookie
      /\ UNCHANGED <<pages, told, history>> /\ scopes' = scopes
      /\ faults' = faults /\ reloads' = reloads
  BY DEF Reserve, pages, bounds
<1>2. Created' = Created /\ born' = born /\ handed' = handed /\ r \in Requests /\ r \in Created
  BY <1>1, PagesSame, AtWork DEF Created
<1>3. ASSUME NEW a \in {"CSRF_REJECTED", "SCANNER_ACTIVATION_REQUIRED", "REQUEST_MISMATCH"},
             Reply(c, a), UNCHANGED <<owner, stamp>>
      PROVE  SafeAt(c)
  <2>1. TypeOK /\ call' \in [Calls -> CallStates] => TypeOK'
    BY <1>1, <1>2, <1>3, PagesSame DEF TypeOK, ServerTypes, PageTypes, HistoryTypes
  <2>2. a \in Answers
    BY <1>3 DEF Answers
  <2> QED  BY <1>1, <1>3, <2>1, <2>2, RepliesSafe DEF server
<1>4. ASSUME Admitted(c), call' = [call EXCEPT ![c].state = "MAPPED"],
             \/ UNCHANGED <<owner, stamp>>
             \/ /\ owner[r] = 0 /\ owner' = [owner EXCEPT ![r] = call[c].cookie]
                /\ stamp' = [stamp EXCEPT ![r] =
                               1 + Cardinality({x \in Requests : stamp[x] # 0})]
      PROVE  SafeAt(c)
  <2>1. /\ call' \in [Calls -> CallStates] /\ \A d \in Calls \ {c} : call'[d] = call[d]
        /\ call'[c].state = "MAPPED" /\ call'[c].request = r
        /\ call'[c].token = call[c].token /\ call'[c].scope = call[c].scope
        /\ call'[c].answer = call[c].answer
    BY <1>4, CallAdvanced
  <2>2. call[c].cookie = call[c].scope /\ call[c].scope = born[r].scope
        /\ call[c].scope \in 0..MaxScopes
    BY <1>1, <1>4, AtWork, CallsTyped DEF Admitted, CallStates
  <2>3. /\ owner' \in [Requests -> 0..MaxScopes]
        /\ \A x \in Requests : owner'[x] = owner[x] \/ (x = r /\ owner'[x] = born[r].scope)
    BY <1>2, <1>4, <2>2 DEF ScanInv, TypeOK, ServerTypes
  <2>4. stamp' \in [Requests -> 0..(MaxRequests + 1)]
    <3>1. Cardinality({x \in Requests : stamp[x] # 0}) \in 0..MaxRequests
      <4>1. IsFiniteSet(Requests) /\ Cardinality(Requests) = MaxRequests
        BY FS_Interval, ScanClientAssumption DEF Requests
      <4>2. {x \in Requests : stamp[x] # 0} \subseteq Requests
        OBVIOUS
      <4> QED  BY <4>1, <4>2, FS_Subset, FS_CardinalityType, ScanClientAssumption
    <3>2. stamp \in [Requests -> 0..(MaxRequests + 1)] /\ MaxRequests \in Nat
      BY ScanClientAssumption DEF ScanInv, TypeOK, ServerTypes
    <3>3. 1 + Cardinality({x \in Requests : stamp[x] # 0}) \in 0..(MaxRequests + 1)
      BY <3>1, <3>2
    <3> QED  BY <1>4, <3>2, <3>3
  <2>5. TypeOK'
    BY <1>1, <1>2, <2>1, <2>3, <2>4, PagesSame
    DEF ScanInv, TypeOK, ServerTypes, PageTypes, HistoryTypes
  <2>6. CallHonest(c)'
    BY <1>1, <1>2, <2>1, AtWork, NoAnswer DEF CallHonest
  <2>7. RowHonest(r)'
    BY <1>1, <1>2, <2>1, <2>3 DEF RowHonest, ScanInv
  <2>8. MovesOn(c)
    BY <1>1, <2>1, <2>3, <2>6, <2>7 DEF MovesOn
  <2> QED  BY <1>1, <2>1, <2>5, <2>8 DEF SafeAt, ServerFrame
<1> QED  BY <1>3, <1>4 DEF Reserve

LEMMA ReceiveSafe ==
  ASSUME ScanInv, NEW c \in Calls, Receive(c)
  PROVE  SafeAt(c)
<1> DEFINE r == call[c].request
<1>1. /\ call[c].state = "MAPPED" /\ owner' = owner /\ stamp' = stamp /\ phones' = phones
      /\ cookie' = cookie /\ UNCHANGED <<pages, told, history>> /\ scopes' = scopes
      /\ faults' = faults /\ reloads' = reloads
  BY DEF Receive, pages, bounds
<1>2. Created' = Created /\ born' = born /\ handed' = handed /\ r \in Requests /\ r \in Created
      /\ call[c].token \in QRs /\ RowHonest(r)
  BY <1>1, PagesSame, AtWork DEF Created, ScanInv
<1>3. CASE call[c].token = Garbled
  <2>1. PICK a \in {"INVALID_QR", "REQUEST_MISMATCH"} : Reply(c, a) /\ ledger' = ledger
    BY <1>3 DEF Receive
  <2>2. TypeOK /\ call' \in [Calls -> CallStates] => TypeOK'
    BY <1>1, <1>2, <2>1, PagesSame DEF TypeOK, ServerTypes, PageTypes, HistoryTypes
  <2>3. a \in Answers
    BY <2>1 DEF Answers
  <2> QED  BY <1>1, <1>3, <2>1, <2>2, <2>3, RepliesSafe DEF server
<1>4. CASE call[c].token # Garbled
  <2>1. /\ call' \in [Calls -> CallStates] /\ \A d \in Calls \ {c} : call'[d] = call[d]
        /\ call'[c].state = "RECEIVED" /\ call'[c].request = r
        /\ call'[c].token = call[c].token /\ call'[c].scope = call[c].scope
        /\ call'[c].answer = call[c].answer
    BY <1>4, CallAdvanced DEF Receive
  <2> DEFINE new == [status |-> "PENDING", token |-> call[c].token]
  <2>2. new \in LedgerRows /\ new # NoRow /\ new.status = "PENDING"
    BY <1>2, <1>4 DEF LedgerRows, NoRow, QRs
  <2>3. \/ ledger' = ledger /\ ledger[r] # NoRow
        \/ ledger' = [ledger EXCEPT ![r] = new] /\ ledger[r] = NoRow
    BY <1>4, Zenon DEF Receive
  <2> HIDE DEF new
  <2>4. /\ ledger' \in [Requests -> LedgerRows] /\ ledger'[r] # NoRow
        /\ \A x \in Requests : x # r => ledger'[x] = ledger[x]
        /\ ledger'[r] = ledger[r] \/ (ledger[r] = NoRow /\ ledger'[r].status = "PENDING")
    BY <1>2, <2>2, <2>3 DEF ScanInv, TypeOK, ServerTypes
  <2>5. TypeOK'
    BY <1>1, <1>2, <2>1, <2>4, PagesSame
    DEF ScanInv, TypeOK, ServerTypes, PageTypes, HistoryTypes
  <2>6. CallHonest(c)'
    BY <1>1, <1>2, <1>4, <2>1, <2>4, AtWork, NoAnswer DEF CallHonest
  <2>7. RowHonest(r)'
    BY <1>1, <1>2, <2>1, <2>4 DEF RowHonest, NoRow
  <2>8. \A x \in Requests : ledger'[x] = ledger[x] \/ RowMoves(c, x)
    BY <1>4, <2>4 DEF RowMoves, Decided, NoRow
  <2>9. MovesOn(c)
    BY <1>1, <2>1, <2>6, <2>7, <2>8 DEF MovesOn
  <2> QED  BY <1>1, <2>1, <2>5, <2>9 DEF SafeAt, ServerFrame
<1> QED  BY <1>3, <1>4

LEMMA DecideSafe ==
  ASSUME ScanInv, NEW c \in Calls, Decide(c)
  PROVE  SafeAt(c)
<1> DEFINE r == call[c].request
<1>1. /\ call[c].state = "RECEIVED" /\ owner' = owner /\ stamp' = stamp /\ phones' = phones
      /\ cookie' = cookie /\ UNCHANGED <<pages, told, history>> /\ scopes' = scopes
      /\ reloads' = reloads
  BY DEF Decide, pages
<1>2. Created' = Created /\ born' = born /\ handed' = handed /\ r \in Requests /\ r \in Created
      /\ RowHonest(r) /\ call[c].token # Garbled /\ ledger[r] # NoRow /\ ledger[r] \in LedgerRows
  BY <1>1, PagesSame, AtWork DEF Created, ScanInv, CallHonest, TypeOK, ServerTypes
<1>3. ASSUME NEW a \in {"IDEMPOTENCY_KEY_REUSED", "DUPLICATE", "REJECTED"}, Reply(c, a),
             UNCHANGED <<ledger, faults>>,
             a = "DUPLICATE" => ledger[r].status = "SUCCEEDED",
             a = "REJECTED" => ledger[r].status = "REJECTED"
      PROVE  SafeAt(c)
  <2>1. TypeOK /\ call' \in [Calls -> CallStates] => TypeOK'
    BY <1>1, <1>2, <1>3, PagesSame DEF TypeOK, ServerTypes, PageTypes, HistoryTypes
  <2>2. a \in Answers
    BY <1>3 DEF Answers
  <2> QED  BY <1>1, <1>3, <2>1, <2>2, RepliesSafe DEF server
<1>4. ASSUME NEW s \in {"SUCCEEDED", "REJECTED"}, ledger[r].status = "PENDING",
             ledger' = [ledger EXCEPT ![r].status = s],
             NEW a \in Answers, Reply(c, a), faults' \in 0..MaxFaults,
             a \in {"APPROVED", "REJECTED", "UNCONFIRMED"},
             a = "APPROVED" => s = "SUCCEEDED", a = "REJECTED" => s = "REJECTED"
      PROVE  SafeAt(c)
  <2> DEFINE new == [ledger[r] EXCEPT !.status = s]
  <2>1. new \in LedgerRows /\ new.status = s
    BY <1>2, <1>4 DEF LedgerRows
  <2>2. ledger' = [ledger EXCEPT ![r] = new]
    BY <1>2, <1>4 DEF ScanInv, TypeOK, ServerTypes
  <2> HIDE DEF new
  <2>3. /\ ledger' \in [Requests -> LedgerRows] /\ ledger'[r].status = s
        /\ \A x \in Requests : x # r => ledger'[x] = ledger[x]
    BY <1>2, <2>1, <2>2 DEF ScanInv, TypeOK, ServerTypes
  <2>4. TypeOK'
    BY <1>1, <1>2, <1>4, <2>3, CallReplied, PagesSame
    DEF ScanInv, TypeOK, ServerTypes, PageTypes, HistoryTypes
  <2>5. ASSUME NEW d \in Calls, d # c, call[d].request = r, call[d].answer = "APPROVED"
        PROVE  FALSE
    BY <1>4, <2>5 DEF ScanInv, CallHonest
  <2>6. handed[r] = 0
    <3>1. handed[r] \in {0, 1}
      BY <1>2 DEF ScanInv, TypeOK, HistoryTypes
    <3> QED  BY <1>2, <1>4, <3>1 DEF RowHonest
  <2>7. CallHonest(c)'
    BY <1>1, <1>2, <1>4, <2>3, <2>5, <2>6, CallReplied, AtWork, NoAnswer DEF CallHonest
  <2>8. RowHonest(r)'
    BY <1>1, <1>2, <1>4, <2>3, <2>6, CallReplied DEF RowHonest, NoRow
  <2>9. \A x \in Requests : ledger'[x] = ledger[x] \/ RowMoves(c, x)
    BY <1>2, <1>4, <2>3 DEF RowMoves, Decided, NoRow
  <2>10. MovesOn(c)
    BY <1>1, <1>4, <2>7, <2>8, <2>9, CallReplied DEF MovesOn
  <2> QED  BY <1>1, <1>4, <2>4, <2>10, CallReplied DEF SafeAt, ServerFrame
<1>5. CASE ledger[r].status = "PENDING" /\ ledger[r].token = call[c].token
           /\ \E s \in {"SUCCEEDED", "REJECTED"} :
                /\ ledger' = [ledger EXCEPT ![r].status = s]
                /\ \/ /\ Reply(c, IF s = "SUCCEEDED" THEN "APPROVED" ELSE "REJECTED")
                      /\ UNCHANGED faults
                   \/ Reply(c, "UNCONFIRMED") /\ Fault
  <2>1. {"APPROVED", "REJECTED", "UNCONFIRMED"} \subseteq Answers
    BY DEF Answers
  <2>2. /\ faults' = faults => faults' \in 0..MaxFaults
        /\ Fault => faults' \in 0..MaxFaults
    BY ScanClientAssumption DEF Fault, ScanInv, TypeOK, HistoryTypes
  <2> QED  BY <1>4, <1>5, <2>1, <2>2
<1> QED  BY <1>3, <1>5 DEF Decide, Decided

LEMMA HandlerFailsSafe ==
  ASSUME ScanInv, NEW c \in Calls, HandlerFails(c)
  PROVE  SafeAt(c)
<1>1. /\ call[c].state \in {"SENT", "MAPPED", "RECEIVED"} /\ Reply(c, "UNCONFIRMED")
      /\ UNCHANGED <<server, pages, told, history>> /\ phones' = phones /\ cookie' = cookie
      /\ scopes' = scopes /\ reloads' = reloads /\ Fault
  BY DEF HandlerFails, pages
<1>2. TypeOK => faults' \in 0..MaxFaults
  BY <1>1, ScanClientAssumption DEF Fault, TypeOK, HistoryTypes
<1>3. Created' = Created
  BY <1>1, PagesSame DEF Created
<1>4. TypeOK /\ call' \in [Calls -> CallStates] => TypeOK'
  BY <1>1, <1>2, <1>3, PagesSame DEF TypeOK, ServerTypes, PageTypes, HistoryTypes, server
<1>5. "UNCONFIRMED" \in Answers
  BY DEF Answers
<1> QED  BY <1>1, <1>4, <1>5, RepliesSafe

LEMMA VanishSafe ==
  ASSUME ScanInv, NEW c \in Calls, Vanish(c)
  PROVE  SafeAt(c)
<1>1. /\ call[c] # Idle /\ ~ Awaited(c) /\ call' = [call EXCEPT ![c] = Idle]
      /\ UNCHANGED <<server, pages, told, history>> /\ phones' = phones /\ cookie' = cookie
      /\ scopes' = scopes /\ reloads' = reloads /\ faults' = faults
  BY DEF Vanish, pages, bounds
<1>2. Idle \in CallStates
  BY ScanClientAssumption DEF Idle, CallStates
<1>3. /\ call' \in [Calls -> CallStates] /\ call'[c] = Idle
      /\ \A d \in Calls \ {c} : call'[d] = call[d]
  BY <1>1, <1>2 DEF ScanInv, TypeOK, ServerTypes
<1>4. TypeOK'
  <2>1. Created' = Created
    BY <1>1, PagesSame DEF Created
  <2> QED  BY <1>1, <1>3, <2>1, PagesSame
           DEF ScanInv, TypeOK, ServerTypes, PageTypes, HistoryTypes, server
<1>5. call[c].state # "IDLE"
  BY <1>1 DEF ScanInv, CallHonest
<1> QED  BY <1>1, <1>3, <1>4, <1>5 DEF SafeAt, ServerFrame, Lost, server

-----------------------------------------------------------------------------
(* The steps of a page                                                     *)

(* A page that neither posts nor takes an answer, and reads nothing that   *)
(* it did not read before.                                                 *)
Stays(t) ==
  /\ read'[t] # None => read'[t] = read[t] /\ Reading(t)'
  /\ Reading(t)' => Reading(t) /\ held'[t] = held[t] /\ serving'[t] = serving[t]
  /\ \A r \in Created \ excused' :
       Marked(r) /\ born[r].tab = t => Over(r) \/ Marked(r)'

LEMMA QuietSafe ==
  ASSUME ScanInv, NEW t \in Tabs, TypeOK', UNCHANGED <<server, call, handed, born, issued>>,
         excused \subseteq excused', \A u \in Tabs \ {t} : SamePage(u),
         refused \subseteq refused',
         \A r \in refused' \ refused : ledger[r].status = "REJECTED",
         Stays(t), PageSane(t)', ResultTrue(t)'
  PROVE  Safe(t)
<1>1. /\ ledger' = ledger /\ call' = call /\ born' = born /\ issued' = issued
      /\ Created' = Created /\ PageInv(t) /\ handed' = handed
  BY DEF server, Created, ScanInv
<1>2. ASSUME NEW r \in Created, Over(r) PROVE Over(r)'
  <2>1. ASSUME NEW u \in Tabs, Reading(u)' PROVE Reading(u) /\ held'[u] = held[u]
    <3>1. CASE u = t
      BY <2>1, <3>1 DEF Stays
    <3>2. CASE u # t
      BY <2>1, <3>2 DEF SamePage, Reading
    <3> QED  BY <3>1, <3>2
  <2> QED  BY <1>1, <1>2, <2>1 DEF Over, Decided, Dead
<1>3. Fresh = {}
  BY <1>1 DEF Fresh
<1>4. HistoryFrame(t)
  <2>1. \A r \in Created \ excused' :
          Marked(r) /\ born[r].tab = t => Over(r)' \/ Marked(r)'
    BY <1>2 DEF Stays
  <2> QED  BY <1>1, <1>3, <2>1, Zenon DEF HistoryFrame
<1>5. PageFrame(t)
  BY <1>1, <1>4 DEF PageFrame, Told, CallFrame, ReadFrame, Stays
<1>6. ReadsItsOwn(t)'
  <2> SUFFICES ASSUME Reading(t)'
               PROVE  /\ born'[held'[t]].tab = t /\ born'[held'[t]].scope = serving'[t]
                      /\ \A x \in Created' : born'[x].tab = t => x <= held'[t]
    BY DEF ReadsItsOwn
  <2> QED  BY <1>1 DEF Stays, PageInv, ReadsItsOwn
<1>7. WaitsForOne(t)'
  <2> SUFFICES ASSUME read'[t] # None PROVE WaitsForOne(t)'
    BY DEF WaitsForOne
  <2>1. read'[t] = read[t] /\ Reading(t)' /\ held'[t] = held[t]
    BY DEF Stays
  <2>2. \A u \in Tabs : u # t => read'[u] = read[u]
    BY DEF SamePage
  <2> QED  BY <1>1, <2>1, <2>2 DEF PageInv, WaitsForOne
<1> QED  BY <1>5, <1>6, <1>7 DEF Safe, PageInv

LEMMA PageTyped ==
  ASSUME ScanInv, NEW t \in Tabs
  PROVE  /\ TypeOK /\ PageSane(t) /\ ReadsItsOwn(t) /\ WaitsForOne(t) /\ ResultTrue(t)
         /\ serving[t] \in 0..MaxScopes /\ held[t] \in 0..MaxRequests
         /\ read[t] \in Reads \cup {None} /\ marker[t] \in Markers \cup {None}
         /\ result[t] \in {"NONE", "ACCEPTED", "REJECTED"}
         /\ token[t] \in QRs \cup {None} /\ checking[t] \in BOOLEAN /\ chosen[t] \in BOOLEAN
         /\ started[t] \in BOOLEAN
BY DEF ScanInv, PageInv, TypeOK, PageTypes

(* The rest of a step that leaves a marker as it is.                       *)
LEMMA MarksStay ==
  ASSUME NEW t, UNCHANGED <<marker, born, issued>>
  PROVE  \A r \in Created \ excused' :
           Marked(r) /\ born[r].tab = t => Over(r) \/ Marked(r)'
BY DEF Marked

LEMMA ConnectSafe ==
  ASSUME ScanInv, NEW t \in Tabs, Connect(t)
  PROVE  Safe(t)
<1>1. /\ page[t] = "STARTUP" /\ UNCHANGED <<server, call, told, history, flow>>
      /\ phones' = phones /\ scopes' = scopes /\ faults' = faults /\ reloads' = reloads
      /\ UNCHANGED <<read, checking, chosen, marker>> /\ cookie' \in {0, cookie}
  BY DEF Connect, bounds, CheckedCookie
<1>2. /\ UNCHANGED <<owner, stamp, ledger, held, token, result, started, handed, refused,
                     born, issued, excused>>
  BY <1>1 DEF server, told, history, flow
<1>3. PICK p \in {"ACTIVATION", "CONNECTED"}, sv \in {serving[t], cookie} :
        page' = [page EXCEPT ![t] = p] /\ serving' = [serving EXCEPT ![t] = sv]
  BY PageTyped DEF Connect, TypeOK, PageTypes
<1>4. /\ page'[t] = p /\ \A u \in Tabs \ {t} : page'[u] = page[u] /\ serving'[u] = serving[u]
  BY <1>3, PageTyped DEF TypeOK, PageTypes
<1>5. TypeOK'
  <2>1. cookie \in 0..MaxScopes /\ 0 \in 0..MaxScopes
    BY PageTyped, ScanClientAssumption DEF TypeOK, ServerTypes
  <2>2. cookie' \in 0..MaxScopes
    BY <1>1, <2>1
  <2>3. ServerTypes'
    BY <1>1, <1>2, <2>2, PageTyped DEF TypeOK, ServerTypes
  <2>4. sv \in 0..MaxScopes
    BY <1>3, <2>1, PageTyped
  <2>5. page' \in [Tabs -> {"STARTUP", "ACTIVATION", "CONNECTED", "SCANNER"}]
    BY <1>3, PageTyped DEF TypeOK, PageTypes
  <2>6. serving' \in [Tabs -> 0..MaxScopes]
    BY <1>3, <2>4, PageTyped DEF TypeOK, PageTypes
  <2>7. PageTypes'
    BY <1>1, <1>2, <2>5, <2>6, PageTyped DEF TypeOK, PageTypes
  <2>8. HistoryTypes'
    BY <1>1, <1>2, PageTyped DEF TypeOK, HistoryTypes, Created
  <2> QED  BY <2>3, <2>7, <2>8 DEF TypeOK
<1>6. ~ Reading(t) /\ ~ Reading(t)' /\ read[t] = None
  BY <1>1, <1>2, PageTyped DEF PageSane, Reading, Untouched
<1>7. Stays(t)
  BY <1>1, <1>2, <1>6, MarksStay DEF Stays
<1>8. PageSane(t)' /\ ResultTrue(t)'
  BY <1>1, <1>2, <1>3, <1>4, PageTyped DEF PageSane, Untouched, ResultTrue, Created
<1> QED  BY <1>1, <1>2, <1>4, <1>5, <1>7, <1>8, QuietSafe DEF SamePage

LEMMA ActivateSafe ==
  ASSUME ScanInv, NEW t \in Tabs, Activate(t)
  PROVE  Safe(t)
<1>1. /\ page[t] = "ACTIVATION" /\ UNCHANGED <<server, call, told, history, flow, serving>>
      /\ scopes < MaxScopes /\ scopes' = scopes + 1 /\ phones' = phones \cup {scopes + 1}
      /\ cookie' = scopes + 1 /\ page' = [page EXCEPT ![t] = "STARTUP"]
      /\ UNCHANGED <<read, checking, chosen, marker>>
      /\ faults' = faults /\ reloads' = reloads
  BY DEF Activate
<1>2. /\ UNCHANGED <<owner, stamp, ledger, held, token, result, started, handed, refused,
                     born, issued, excused>>
  BY <1>1 DEF server, told, history, flow
<1>3. /\ page'[t] = "STARTUP" /\ \A u \in Tabs \ {t} : page'[u] = page[u]
  BY <1>1, PageTyped DEF TypeOK, PageTypes
<1>4. scopes' \in Scopes /\ phones' \subseteq Scopes /\ cookie' \in 0..MaxScopes
  BY <1>1, PageTyped, ScanClientAssumption DEF TypeOK, ServerTypes, Scopes
<1>5. TypeOK'
  BY <1>1, <1>2, <1>4, PageTyped
  DEF TypeOK, ServerTypes, PageTypes, HistoryTypes, Created
<1>6. ~ Reading(t) /\ ~ Reading(t)' /\ read[t] = None
  BY <1>1, <1>2, PageTyped DEF PageSane, Reading, Untouched
<1>7. Stays(t)
  BY <1>1, <1>2, <1>6, MarksStay DEF Stays
<1>8. PageSane(t)' /\ ResultTrue(t)'
  BY <1>1, <1>2, <1>3, PageTyped DEF PageSane, Untouched, ResultTrue, Created
<1> QED  BY <1>1, <1>2, <1>3, <1>5, <1>7, <1>8, QuietSafe DEF SamePage

LEMMA ChooseSafe ==
  ASSUME ScanInv, NEW t \in Tabs, Choose(t)
  PROVE  Safe(t)
<1>1. /\ page[t] = "SCANNER" /\ ~ Busy(t) /\ ~ Unresolved(t) /\ ~ chosen[t]
      /\ UNCHANGED <<server, call, told, history, flow, serving, page>>
      /\ scopes' = scopes /\ phones' = phones /\ cookie' = cookie
      /\ UNCHANGED <<read, checking, marker>>
      /\ faults' = faults /\ reloads' = reloads /\ chosen' = [chosen EXCEPT ![t] = TRUE]
  BY DEF Choose, SelectEnabled, bounds
<1>2. /\ UNCHANGED <<owner, stamp, ledger, held, token, result, started, handed, refused,
                     born, issued, excused>>
  BY <1>1 DEF server, told, history, flow
<1>3. /\ chosen'[t] = TRUE /\ \A u \in Tabs \ {t} : chosen'[u] = chosen[u]
  BY <1>1, PageTyped DEF TypeOK, PageTypes
<1>5. TypeOK'
  BY <1>1, <1>2, PageTyped
  DEF TypeOK, ServerTypes, PageTypes, HistoryTypes, Created
<1>6. ~ Reading(t)' /\ read[t] = None
  BY <1>1, <1>2, PageTyped DEF Busy, Unresolved, Reading
<1>7. Stays(t)
  BY <1>1, <1>2, <1>6, MarksStay DEF Stays
<1>8. PageSane(t)' /\ ResultTrue(t)'
  BY <1>1, <1>2, <1>3, PageTyped DEF PageSane, Untouched, ResultTrue, Created
<1> QED  BY <1>1, <1>2, <1>3, <1>5, <1>7, <1>8, QuietSafe DEF SamePage

LEMMA CheckSafe ==
  ASSUME ScanInv, NEW t \in Tabs, Check(t)
  PROVE  Safe(t)
<1>1. /\ page[t] = "SCANNER" /\ ~ Busy(t) /\ Unresolved(t)
      /\ UNCHANGED <<server, call, told, history, flow, serving, page>>
      /\ scopes' = scopes /\ phones' = phones /\ cookie' = cookie
      /\ UNCHANGED <<read, chosen, marker>>
      /\ faults' = faults /\ reloads' = reloads /\ checking' = [checking EXCEPT ![t] = TRUE]
  BY DEF Check, bounds
<1>2. /\ UNCHANGED <<owner, stamp, ledger, held, token, result, started, handed, refused,
                     born, issued, excused>>
  BY <1>1 DEF server, told, history, flow
<1>3. /\ checking'[t] = TRUE /\ \A u \in Tabs \ {t} : checking'[u] = checking[u]
  BY <1>1, PageTyped DEF TypeOK, PageTypes
<1>5. TypeOK'
  BY <1>1, <1>2, PageTyped
  DEF TypeOK, ServerTypes, PageTypes, HistoryTypes, Created
<1>6. Reading(t)' = Reading(t) /\ read[t] = None /\ held[t] # 0
  BY <1>1, <1>2, PageTyped DEF Busy, Reading, Unresolved
<1>7. Stays(t)
  BY <1>1, <1>2, <1>6, MarksStay DEF Stays
<1>8. PageSane(t)' /\ ResultTrue(t)'
  BY <1>1, <1>2, <1>3, <1>6, PageTyped DEF PageSane, Untouched, ResultTrue, Created
<1> QED  BY <1>1, <1>2, <1>3, <1>5, <1>7, <1>8, QuietSafe DEF SamePage

LEMMA DisconnectSafe ==
  ASSUME ScanInv, NEW t \in Tabs, Disconnect(t)
  PROVE  Safe(t)
<1>1. /\ read[t] # None
      /\ UNCHANGED <<server, call, told, history, flow, serving, page>>
      /\ scopes' = scopes /\ phones' = phones /\ cookie' = cookie
      /\ UNCHANGED <<checking, chosen, marker>> /\ Fault
      /\ reloads' = reloads /\ read' = [read EXCEPT ![t] = None]
  BY DEF Disconnect
<1>2. /\ UNCHANGED <<owner, stamp, ledger, held, token, result, started, handed, refused,
                     born, issued, excused>>
  BY <1>1 DEF server, told, history, flow
<1>3. /\ read'[t] = None /\ \A u \in Tabs \ {t} : read'[u] = read[u]
  BY <1>1, PageTyped DEF TypeOK, PageTypes
<1>4. faults' \in 0..MaxFaults
  BY <1>1, PageTyped, ScanClientAssumption DEF Fault, TypeOK, HistoryTypes
<1>5. TypeOK'
  BY <1>1, <1>2, <1>4, PageTyped
  DEF TypeOK, ServerTypes, PageTypes, HistoryTypes, Created
<1>6. Reading(t)' = Reading(t)
  BY <1>1, <1>2 DEF Reading
<1>7. Stays(t)
  BY <1>1, <1>2, <1>3, <1>6, MarksStay DEF Stays
<1>8. PageSane(t)' /\ ResultTrue(t)'
  BY <1>1, <1>2, <1>3, PageTyped DEF PageSane, Untouched, ResultTrue, Created
<1> QED  BY <1>1, <1>2, <1>3, <1>5, <1>7, <1>8, QuietSafe DEF SamePage

(* A set that is not empty has a member that a bounded measure puts last.  *)
LEMMA GreatestExists ==
  ASSUME NEW S, S # {}, NEW n \in Nat, NEW f, \A x \in S : f[x] \in 0..n
  PROVE  \E r \in S : \A x \in S : f[x] <= f[r]
<1> DEFINE D == {n - f[x] : x \in S}
<1>1. D \in SUBSET Nat /\ D # {}
  OBVIOUS
<1>2. PICK d \in D : \A y \in D : ~ (<<y, d>> \in OpToRel(<, Nat))
  BY <1>1, WFMin, NatLessThanWellFounded, Zenon
<1>3. PICK r \in S : d = n - f[r]
  BY <1>2
<1>4. ASSUME NEW x \in S PROVE f[x] <= f[r]
  <2>1. n - f[x] \in D /\ n - f[x] \in Nat /\ d \in Nat /\ f[x] \in 0..n /\ f[r] \in 0..n
    BY <1>1, <1>2, <1>3
  <2> HIDE DEF D
  <2>2. ~ (<<n - f[x], d>> \in {ss \in Nat \X Nat : ss[1] < ss[2]})
    BY <1>2, <2>1, Zenon DEF OpToRel
  <2>3. ~ (n - f[x] < d)
    BY <2>1, <2>2
  <2> QED  BY <1>3, <2>1, <2>3
<1> QED  BY <1>4

(* The latest request of a browser is one that it was bound to.            *)
LEMMA LatestIs ==
  ASSUME ScanInv, NEW s \in Nat
  PROVE  s # 0 => Latest(s) = 0 \/ Latest(s) \in Created
<1> SUFFICES ASSUME s # 0, Owned(s) # {} PROVE Latest(s) \in Created
  BY DEF Latest
<1>1. \A x \in Owned(s) : stamp[x] \in 0..(MaxRequests + 1)
  BY DEF ScanInv, TypeOK, ServerTypes, Owned
<1>2. \E r \in Owned(s) : \A x \in Owned(s) : stamp[x] <= stamp[r]
  BY <1>1, GreatestExists, ScanClientAssumption
<1>3. Latest(s) \in Owned(s)
  BY <1>2 DEF Latest
<1> QED  BY <1>3 DEF Owned, ScanInv, RowHonest

LEMMA LoadSafe ==
  ASSUME ScanInv, NEW t \in Tabs, Load(t)
  PROVE  Safe(t)
<1>1. /\ page[t] = "CONNECTED" /\ UNCHANGED <<server, call, told, history, serving>>
      /\ phones' = phones /\ scopes' = scopes /\ faults' = faults /\ reloads' = reloads
      /\ UNCHANGED <<token, result, read, chosen>> /\ cookie' \in {0, cookie}
  BY DEF Load, bounds
<1>2. /\ UNCHANGED <<owner, stamp, ledger, handed, refused, born, issued, excused>>
      /\ Created' = Created
  BY <1>1 DEF server, told, history, Created
<1>3. held[t] = 0 /\ ~ chosen[t] /\ Untouched(t)
  BY <1>1, PageTyped DEF PageSane
<1>4. PICK p \in {"ACTIVATION", "SCANNER"}, r \in Created \cup {0}, m \in Markers \cup {None} :
        /\ page' = [page EXCEPT ![t] = p] /\ held' = [held EXCEPT ![t] = r]
        /\ started' = [started EXCEPT ![t] = r # 0]
        /\ checking' = [checking EXCEPT ![t] = r # 0]
        /\ marker' = [marker EXCEPT ![t] = m]
        /\ m # None => m.request \in Created
        /\ p = "ACTIVATION" => r = 0
        /\ p = "SCANNER" => m = None \/ m.request = r
        /\ m # marker[t] => marker[t] = None
  <2>1. cookie \in Scopes => Latest(cookie) \in Created \cup {0}
    BY LatestIs, ScanClientAssumption DEF Scopes
  <2>2. Authorized(cookie) => Latest(cookie) \in Created \cup {0}
    BY <2>1, PageTyped DEF Authorized, TypeOK, ServerTypes
  <2>3. marker[t] # None => marker[t] \in Markers /\ marker[t].request \in Created
    BY PageTyped DEF PageSane
  <2>4. \A r \in Created : r \in Requests /\ r # 0
    BY PageTyped, ScanClientAssumption DEF TypeOK, HistoryTypes, Created, Requests
  <2>5. marker = [marker EXCEPT ![t] = marker[t]] /\ held = [held EXCEPT ![t] = 0]
        /\ started = [started EXCEPT ![t] = FALSE] /\ checking = [checking EXCEPT ![t] = FALSE]
    BY <1>3, PageTyped DEF TypeOK, PageTypes, Untouched
  <2>6. CASE marker[t] # None /\ Authorized(cookie) /\ Restore(t, marker[t].request)
             /\ marker' = marker
    <3> SUFFICES ASSUME TRUE
                 PROVE  LET r == marker[t].request
                        IN  /\ r \in Created
                            /\ page' = [page EXCEPT ![t] = "SCANNER"]
                            /\ held' = [held EXCEPT ![t] = r]
                            /\ started' = [started EXCEPT ![t] = r # 0]
                            /\ checking' = [checking EXCEPT ![t] = r # 0]
                            /\ marker' = [marker EXCEPT ![t] = marker[t]]
                            /\ marker[t] \in Markers
      BY <2>3
    <3> QED  BY <2>3, <2>5, <2>6 DEF Restore
  <2>7. CASE marker[t] = None /\ Authorized(cookie) /\ Restore(t, Latest(cookie))
             /\ marker' = marker
    <3>1. Latest(cookie) \in Created \cup {0} /\ None \in Markers \cup {None}
      BY <2>2, <2>7
    <3>2. /\ page' = [page EXCEPT ![t] = "SCANNER"]
          /\ held' = [held EXCEPT ![t] = Latest(cookie)]
          /\ started' = [started EXCEPT ![t] = Latest(cookie) # 0]
          /\ checking' = [checking EXCEPT ![t] = Latest(cookie) # 0]
          /\ marker' = [marker EXCEPT ![t] = None]
      BY <2>5, <2>7 DEF Restore
    <3> QED  BY <2>7, <3>1, <3>2
  <2>8. CASE marker[t] = None /\ Authorized(cookie) /\ Restore(t, Latest(cookie))
             /\ Latest(cookie) # 0
             /\ marker' = [marker EXCEPT ![t] = [scope |-> serving[t],
                                                 request |-> Latest(cookie)]]
    <3> DEFINE k == [scope |-> serving[t], request |-> Latest(cookie)]
    <3>1. Latest(cookie) \in Created /\ Latest(cookie) \in Requests
      BY <2>2, <2>4, <2>8
    <3>2. k \in Markers /\ k.request = Latest(cookie)
      BY <3>1, PageTyped DEF Markers
    <3>3. /\ page' = [page EXCEPT ![t] = "SCANNER"]
          /\ held' = [held EXCEPT ![t] = Latest(cookie)]
          /\ started' = [started EXCEPT ![t] = Latest(cookie) # 0]
          /\ checking' = [checking EXCEPT ![t] = Latest(cookie) # 0]
          /\ marker' = [marker EXCEPT ![t] = k]
      BY <2>8 DEF Restore
    <3> HIDE DEF k
    <3> QED  BY <2>8, <3>1, <3>2, <3>3
  <2>9. CASE page' = [page EXCEPT ![t] = "ACTIVATION"]
             /\ UNCHANGED <<held, started, checking, marker>>
    <3> SUFFICES ASSUME TRUE
                 PROVE  /\ page' = [page EXCEPT ![t] = "ACTIVATION"]
                        /\ held' = [held EXCEPT ![t] = 0]
                        /\ started' = [started EXCEPT ![t] = FALSE]
                        /\ checking' = [checking EXCEPT ![t] = FALSE]
                        /\ marker' = [marker EXCEPT ![t] = marker[t]]
                        /\ marker[t] \in Markers \cup {None}
      BY <2>3
    <3> QED  BY <2>5, <2>9, PageTyped
  <2> QED  BY <2>6, <2>7, <2>8, <2>9 DEF Load
<1>5. /\ page'[t] = p /\ held'[t] = r /\ started'[t] = (r # 0) /\ checking'[t] = (r # 0)
      /\ marker'[t] = m
      /\ \A u \in Tabs \ {t} :
           /\ page'[u] = page[u] /\ held'[u] = held[u] /\ started'[u] = started[u]
           /\ checking'[u] = checking[u] /\ marker'[u] = marker[u]
  BY <1>4, PageTyped DEF TypeOK, PageTypes
<1>6. TypeOK'
  <2>1. cookie' \in 0..MaxScopes
    BY <1>1, PageTyped, ScanClientAssumption DEF TypeOK, ServerTypes
  <2>2. ServerTypes'
    BY <1>1, <1>2, <2>1, PageTyped DEF TypeOK, ServerTypes
  <2>3. r \in 0..MaxRequests
    BY <1>4, PageTyped, ScanClientAssumption DEF TypeOK, HistoryTypes, Created
  <2>4. PageTypes'
    BY <1>1, <1>4, <2>3, PageTyped DEF TypeOK, PageTypes
  <2>5. HistoryTypes'
    BY <1>1, <1>2, PageTyped DEF TypeOK, HistoryTypes
  <2> QED  BY <2>2, <2>4, <2>5 DEF TypeOK
<1>7. Stays(t)
  <2>1. ASSUME NEW x \in Created \ excused', Marked(x), born[x].tab = t
        PROVE  Marked(x)'
    BY <1>2, <1>4, <1>5, <2>1 DEF Marked
  <2> QED  BY <1>1, <1>3, <2>1 DEF Stays, Reading, Untouched
<1>8. PageSane(t)' /\ ResultTrue(t)'
  <2>1. r # 0 => r \in Created
    BY <1>4
  <2>2. /\ token'[t] = None /\ result'[t] = "NONE" /\ read'[t] = None /\ chosen'[t] = FALSE
        /\ page'[t] = p /\ held'[t] = r /\ marker'[t] = m
        /\ started'[t] = (r # 0) /\ checking'[t] = (r # 0)
    BY <1>1, <1>3, <1>5, PageTyped DEF Untouched
  <2>3. PageSane(t)'
    <3>1. held'[t] = 0 => Untouched(t)'
      BY <2>2 DEF Untouched
    <3>2. held'[t] # 0 => held'[t] \in Created' /\ started'[t]
      BY <1>2, <2>1, <2>2
    <3>3. page'[t] # "SCANNER" => held'[t] = 0 /\ ~ chosen'[t]
      BY <1>4, <2>2
    <3>4. /\ page'[t] = "SCANNER" => marker'[t] = None \/ marker'[t].request = held'[t]
          /\ marker'[t] # None => marker'[t].request \in Created'
      BY <1>2, <1>4, <2>2
    <3> QED  BY <2>2, <3>1, <3>2, <3>3, <3>4 DEF PageSane
  <2>4. ResultTrue(t)'
    BY <2>2 DEF ResultTrue
  <2> QED  BY <2>3, <2>4
<1> QED  BY <1>1, <1>2, <1>5, <1>6, <1>7, <1>8, QuietSafe DEF SamePage

LEMMA RecoverSafe ==
  ASSUME ScanInv, NEW t \in Tabs, Recover(t)
  PROVE  Safe(t)
<1>1. /\ checking[t] /\ UNCHANGED <<server, call, history, serving, page, held, token>>
      /\ UNCHANGED <<phones, scopes, reloads, started, read, chosen, marker>>
      /\ cookie' \in {0, cookie} /\ faults' \in {faults, faults + 1} /\ (faults' = faults \/ Fault)
      /\ checking' = [checking EXCEPT ![t] = FALSE]
  BY DEF Recover, CheckedCookie, Fault
<1>2. /\ UNCHANGED <<owner, stamp, ledger, born, issued, excused>> /\ Created' = Created
  BY <1>1 DEF server, history, Created
<1>3. held[t] # 0 /\ held[t] \in Created /\ started[t] /\ read[t] = None
  BY <1>1, PageTyped DEF PageSane, Untouched
<1>4. \/ /\ Decided(held[t]) /\ handed' = handed
         /\ \E s \in {"ACCEPTED", "REJECTED"} :
              /\ result' = [result EXCEPT ![t] = s]
              /\ s = "ACCEPTED" => ledger[held[t]].status = "SUCCEEDED" /\ refused' = refused
              /\ s = "REJECTED" => /\ ledger[held[t]].status = "REJECTED"
                                   /\ refused' = refused \cup {held[t]}
      \/ UNCHANGED <<result, handed, refused>>
  <2>1. CASE Decided(held[t]) /\ Show(t, ledger[held[t]].status = "SUCCEEDED", TRUE)
    <3>1. CASE ledger[held[t]].status = "SUCCEEDED"
      BY <2>1, <3>1 DEF Show
    <3>2. CASE ledger[held[t]].status # "SUCCEEDED"
      BY <2>1, <3>2 DEF Show, Decided
    <3> QED  BY <3>1, <3>2
  <2>2. CASE UNCHANGED <<result, told>>
    BY <2>2 DEF told
  <2> QED  BY <2>1, <2>2 DEF Recover
<1>5. PICK s \in {"NONE", "ACCEPTED", "REJECTED"}, new \in SUBSET {held[t]} :
        /\ result' = [result EXCEPT ![t] = s] /\ handed' = handed
        /\ refused' = refused \cup new
        /\ new # {} => ledger[held[t]].status = "REJECTED" /\ s = "REJECTED"
        /\ s # result[t] => \/ s = "ACCEPTED" /\ ledger[held[t]].status = "SUCCEEDED"
                            \/ s = "REJECTED" /\ held[t] \in new
  <2>1. CASE UNCHANGED <<result, handed, refused>>
    <3>1. result = [result EXCEPT ![t] = result[t]] /\ refused = refused \cup {}
      BY PageTyped DEF TypeOK, PageTypes
    <3> SUFFICES ASSUME TRUE
                 PROVE  /\ result' = [result EXCEPT ![t] = result[t]] /\ handed' = handed
                        /\ refused' = refused \cup {}
      BY PageTyped
    <3> QED  BY <2>1, <3>1
  <2>2. ASSUME Decided(held[t]), handed' = handed, NEW z \in {"ACCEPTED", "REJECTED"},
               result' = [result EXCEPT ![t] = z],
               z = "ACCEPTED" => ledger[held[t]].status = "SUCCEEDED" /\ refused' = refused,
               z = "REJECTED" => /\ ledger[held[t]].status = "REJECTED"
                                 /\ refused' = refused \cup {held[t]}
        PROVE  \E s \in {"NONE", "ACCEPTED", "REJECTED"}, new \in SUBSET {held[t]} :
                 /\ result' = [result EXCEPT ![t] = s] /\ handed' = handed
                 /\ refused' = refused \cup new
                 /\ new # {} => ledger[held[t]].status = "REJECTED" /\ s = "REJECTED"
                 /\ s # result[t] => \/ s = "ACCEPTED" /\ ledger[held[t]].status = "SUCCEEDED"
                                     \/ s = "REJECTED" /\ held[t] \in new
    <3>1. CASE z = "ACCEPTED"
      <4>1. refused' = refused \cup {} /\ {} \in SUBSET {held[t]}
        BY <2>2, <3>1
      <4> WITNESS z \in {"NONE", "ACCEPTED", "REJECTED"}, {} \in SUBSET {held[t]}
      <4> QED  BY <2>2, <3>1, <4>1
    <3>2. CASE z = "REJECTED"
      <4>1. {held[t]} \in SUBSET {held[t]}
        OBVIOUS
      <4> WITNESS z \in {"NONE", "ACCEPTED", "REJECTED"}, {held[t]} \in SUBSET {held[t]}
      <4> QED  BY <2>2, <3>2
    <3> QED  BY <2>2, <3>1, <3>2
  <2> QED  BY <1>4, <2>1, <2>2
<1>6. /\ result'[t] = s /\ checking'[t] = FALSE
      /\ \A u \in Tabs \ {t} : result'[u] = result[u] /\ checking'[u] = checking[u]
  BY <1>1, <1>5, PageTyped DEF TypeOK, PageTypes
<1>7. TypeOK'
  <2>1. cookie' \in 0..MaxScopes
    BY <1>1, PageTyped, ScanClientAssumption DEF TypeOK, ServerTypes
  <2>2. ServerTypes'
    BY <1>1, <1>2, <2>1, PageTyped DEF TypeOK, ServerTypes
  <2>4. PageTypes'
    BY <1>1, <1>5, PageTyped DEF TypeOK, PageTypes
  <2>5. faults' \in 0..MaxFaults
    BY <1>1, PageTyped, ScanClientAssumption DEF Fault, TypeOK, HistoryTypes
  <2>6. refused' \subseteq Created
    BY <1>3, <1>5, PageTyped DEF TypeOK, HistoryTypes
  <2>7. HistoryTypes'
    BY <1>1, <1>2, <1>5, <2>5, <2>6, PageTyped DEF TypeOK, HistoryTypes
  <2> QED  BY <2>2, <2>4, <2>7 DEF TypeOK
<1>8. Stays(t)
  <2>1. Reading(t)' => Reading(t)
    BY <1>1, <1>5, <1>6 DEF Reading
  <2> QED  BY <1>1, <1>2, <1>3, <2>1, MarksStay DEF Stays
<1>9. PageSane(t)'
  BY <1>1, <1>2, <1>3, <1>6, PageTyped DEF PageSane
<1>10. ResultTrue(t)'
  BY <1>1, <1>2, <1>5, <1>6, PageTyped DEF ResultTrue
<1>11. refused \subseteq refused' /\ \A r \in refused' \ refused : ledger[r].status = "REJECTED"
  BY <1>5
<1> QED  BY <1>1, <1>2, <1>5, <1>6, <1>7, <1>8, <1>9, <1>10, <1>11, QuietSafe DEF SamePage

LEMMA ResetSafe ==
  ASSUME ScanInv, NEW t \in Tabs, Reset(t)
  PROVE  Safe(t)
<1>1. /\ page[t] = "SCANNER" /\ result[t] # "NONE" /\ ~ Busy(t)
      /\ UNCHANGED <<server, call, told, history, serving, page, read, checking, chosen>>
      /\ UNCHANGED <<phones, cookie, scopes, faults, reloads>>
      /\ marker' = [marker EXCEPT ![t] = None] /\ held' = [held EXCEPT ![t] = 0]
      /\ token' = [token EXCEPT ![t] = None] /\ result' = [result EXCEPT ![t] = "NONE"]
      /\ started' = [started EXCEPT ![t] = FALSE]
  BY DEF Reset, bounds
<1>2. /\ UNCHANGED <<owner, stamp, ledger, handed, refused, born, issued, excused>>
      /\ Created' = Created
  BY <1>1 DEF server, told, history, Created
<1>3. /\ marker'[t] = None /\ held'[t] = 0 /\ token'[t] = None /\ result'[t] = "NONE"
      /\ started'[t] = FALSE
      /\ \A u \in Tabs \ {t} :
           /\ marker'[u] = marker[u] /\ held'[u] = held[u] /\ token'[u] = token[u]
           /\ result'[u] = result[u] /\ started'[u] = started[u]
  BY <1>1, PageTyped DEF TypeOK, PageTypes
<1>4. TypeOK'
  <2>1. ServerTypes'
    BY <1>1, <1>2, PageTyped DEF TypeOK, ServerTypes
  <2>2. PageTypes'
    BY <1>1, PageTyped, ScanClientAssumption DEF TypeOK, PageTypes
  <2>3. HistoryTypes'
    BY <1>1, <1>2, PageTyped DEF TypeOK, HistoryTypes
  <2> QED  BY <2>1, <2>2, <2>3 DEF TypeOK
<1>5. ASSUME NEW r \in Created \ excused', Marked(r), born[r].tab = t
      PROVE  Over(r)
  <2>1. r = held[t]
    BY <1>1, <1>5, PageTyped DEF Marked, PageSane
  <2>2. CASE result[t] = "ACCEPTED"
    BY <2>1, <2>2, PageTyped DEF ResultTrue, Over, Decided
  <2>3. CASE result[t] = "REJECTED"
    BY <2>1, <2>3, PageTyped DEF ResultTrue, Over, Decided, ScanInv, RefusedStay
  <2> QED  BY <1>1, <2>2, <2>3, PageTyped
<1>6. Stays(t)
  BY <1>1, <1>3, <1>5 DEF Stays, Reading, Busy
<1>7. PageSane(t)' /\ ResultTrue(t)'
  BY <1>1, <1>3 DEF PageSane, Untouched, ResultTrue, Busy
<1> QED  BY <1>1, <1>2, <1>3, <1>4, <1>6, <1>7, QuietSafe DEF SamePage

(* A page that is loaded anew forgets all but the marker; without it, the  *)
(* request the marker named is excused.                                    *)
LEMMA ForgetSafe ==
  ASSUME ScanInv, NEW t \in Tabs, Forget(t), NEW m \in {marker[t], None},
         marker' = [marker EXCEPT ![t] = m], excused \subseteq excused', excused' \subseteq Created,
         m # marker[t] => marker[t].request \in excused'
  PROVE  Safe(t)
<1>1. /\ reloads < MaxReloads /\ reloads' = reloads + 1
      /\ UNCHANGED <<server, call, told, born, issued, serving>>
      /\ UNCHANGED <<phones, cookie, scopes, faults>>
      /\ page' = [page EXCEPT ![t] = "STARTUP"] /\ held' = [held EXCEPT ![t] = 0]
      /\ token' = [token EXCEPT ![t] = None] /\ result' = [result EXCEPT ![t] = "NONE"]
      /\ started' = [started EXCEPT ![t] = FALSE] /\ read' = [read EXCEPT ![t] = None]
      /\ checking' = [checking EXCEPT ![t] = FALSE] /\ chosen' = [chosen EXCEPT ![t] = FALSE]
  BY DEF Forget
<1>2. /\ UNCHANGED <<owner, stamp, ledger, handed, refused>> /\ Created' = Created
  BY <1>1 DEF server, told, Created
<1>3. /\ marker'[t] = m /\ held'[t] = 0 /\ token'[t] = None /\ result'[t] = "NONE"
      /\ started'[t] = FALSE /\ page'[t] = "STARTUP" /\ read'[t] = None
      /\ checking'[t] = FALSE /\ chosen'[t] = FALSE
      /\ \A u \in Tabs \ {t} :
           /\ marker'[u] = marker[u] /\ held'[u] = held[u] /\ token'[u] = token[u]
           /\ result'[u] = result[u] /\ started'[u] = started[u] /\ page'[u] = page[u]
           /\ read'[u] = read[u] /\ checking'[u] = checking[u] /\ chosen'[u] = chosen[u]
  BY <1>1, PageTyped DEF TypeOK, PageTypes
<1>4. TypeOK'
  <2>1. ServerTypes'
    BY <1>1, <1>2, PageTyped DEF TypeOK, ServerTypes
  <2>2. PageTypes'
    BY <1>1, PageTyped, ScanClientAssumption DEF TypeOK, PageTypes
  <2>3. reloads' \in 0..MaxReloads
    BY <1>1, PageTyped, ScanClientAssumption DEF TypeOK, HistoryTypes
  <2>4. HistoryTypes'
    BY <1>1, <1>2, <2>3, PageTyped DEF TypeOK, HistoryTypes
  <2> QED  BY <2>1, <2>2, <2>4 DEF TypeOK
<1>5. ASSUME NEW r \in Created \ excused', Marked(r), born[r].tab = t
      PROVE  Marked(r)'
  <2>1. marker[t] # None /\ marker[t].request = r
    BY <1>5 DEF Marked
  <2>2. m = marker[t]
    BY <1>5, <2>1
  <2> QED  BY <1>1, <1>3, <1>5, <2>1, <2>2 DEF Marked
<1>6. Stays(t)
  BY <1>3, <1>5 DEF Stays, Reading
<1>7. PageSane(t)' /\ ResultTrue(t)'
  BY <1>1, <1>2, <1>3, PageTyped DEF PageSane, Untouched, ResultTrue
<1> QED  BY <1>1, <1>2, <1>3, <1>4, <1>6, <1>7, QuietSafe DEF SamePage

LEMMA ReloadSafe ==
  ASSUME ScanInv, NEW t \in Tabs, Reload(t)
  PROVE  Safe(t)
<1>1. marker' = [marker EXCEPT ![t] = marker[t]] /\ excused' = excused /\ Forget(t)
  BY PageTyped DEF Reload, TypeOK, PageTypes
<1>2. excused \subseteq Created
  BY PageTyped DEF TypeOK, HistoryTypes
<1> QED  BY <1>1, <1>2, ForgetSafe

LEMMA ReopenSafe ==
  ASSUME ScanInv, NEW t \in Tabs, Reopen(t)
  PROVE  Safe(t)
<1>1. /\ marker[t] # None /\ Forget(t) /\ marker' = [marker EXCEPT ![t] = None]
      /\ excused' = excused \cup {marker[t].request}
  BY DEF Reopen
<1>2. excused \subseteq Created /\ marker[t].request \in Created
  BY <1>1, PageTyped DEF TypeOK, HistoryTypes, PageSane
<1> QED  BY <1>1, <1>2, ForgetSafe

(* What Post does: a free call gets the read, and the page waits for it.   *)
Sent(t, r, q) ==
  [state |-> "SENT", request |-> r, token |-> q, cookie |-> cookie,
   scope |-> serving[t], answer |-> None]

Put(t, c, r, q) ==
  /\ call[c] = Idle
  /\ call' = [call EXCEPT ![c] = Sent(t, r, q)]

Posted(t, c, r, q, z) ==
  /\ Put(t, c, r, q)
  /\ read' = [read EXCEPT ![t] = [call |-> c, restored |-> z, again |-> started[t]]]
  /\ started' = [started EXCEPT ![t] = TRUE]

CallsBut(c) == \A d \in Calls \ {c} : call'[d] = call[d]
ReadsBut(t) == \A u \in Tabs \ {t} : read'[u] = read[u] /\ started'[u] = started[u]

LEMMA SentIs ==
  ASSUME NEW t, NEW r, NEW q
  PROVE  /\ Sent(t, r, q).state = "SENT" /\ Sent(t, r, q).request = r
         /\ Sent(t, r, q).token = q /\ Sent(t, r, q).scope = serving[t]
         /\ Sent(t, r, q).answer = None
BY DEF Sent

LEMMA PostIs ==
  ASSUME NEW t, NEW r, NEW q, NEW z, Post(t, r, q, z)
  PROVE  \E c \in Calls : Posted(t, c, r, q, z)
<1> DEFINE c == CHOOSE x \in FreeCalls : TRUE
<1>1. c \in FreeCalls
  BY DEF Post
<1>2. /\ call' = [call EXCEPT ![c] = Sent(t, r, q)]
      /\ read' = [read EXCEPT ![t] = [call |-> c, restored |-> z, again |-> started[t]]]
      /\ started' = [started EXCEPT ![t] = TRUE]
  BY DEF Post, Sent
<1> HIDE DEF c
<1> QED  BY <1>1, <1>2 DEF FreeCalls, Posted, Put

LEMMA PostedCall ==
  ASSUME ScanInv, NEW t \in Tabs, NEW c \in Calls, NEW r \in Requests, NEW q \in QRs,
         Put(t, c, r, q)
  PROVE  /\ call[c] = Idle /\ call' \in [Calls -> CallStates]
         /\ call'[c].state = "SENT" /\ call'[c].request = r /\ call'[c].token = q
         /\ call'[c].scope = serving[t] /\ call'[c].answer = None
         /\ CallsBut(c)
<1>1. call \in [Calls -> CallStates] /\ cookie \in 0..MaxScopes
  BY PageTyped DEF TypeOK, ServerTypes
<1>2. Sent(t, r, q) \in CallStates
  BY <1>1, PageTyped, ScanClientAssumption DEF Sent, CallStates, Requests
<1>3. call' = [call EXCEPT ![c] = Sent(t, r, q)] /\ call[c] = Idle
  BY DEF Put
<1>4. call' \in [Calls -> CallStates] /\ call'[c] = Sent(t, r, q) /\ CallsBut(c)
  BY <1>1, <1>2, <1>3 DEF CallsBut
<1> QED  BY <1>3, <1>4, SentIs

LEMMA PostedRead ==
  ASSUME ScanInv, NEW t \in Tabs, NEW c \in Calls, NEW r, NEW q, NEW z, z \in BOOLEAN,
         Posted(t, c, r, q, z)
  PROVE  /\ read' \in [Tabs -> Reads \cup {None}] /\ started' \in [Tabs -> BOOLEAN]
         /\ read'[t] # None /\ read'[t].call = c /\ read'[t].again = started[t]
         /\ started'[t] = TRUE /\ ReadsBut(t)
<1>1. read \in [Tabs -> Reads \cup {None}] /\ started \in [Tabs -> BOOLEAN]
  BY PageTyped DEF TypeOK, PageTypes
<1> DEFINE new == [call |-> c, restored |-> z, again |-> started[t]]
<1>2. new \in Reads /\ new.call = c /\ new.again = started[t]
  BY <1>1 DEF Reads
<1>3. read' = [read EXCEPT ![t] = new] /\ started' = [started EXCEPT ![t] = TRUE]
  BY DEF Posted
<1> HIDE DEF new
<1>4. new # None
  BY <1>2, ScanClientAssumption
<1> QED  BY <1>1, <1>2, <1>3, <1>4 DEF ReadsBut

(* A post is safe when it is not the request's first, or the request is    *)
(* new to the reads and to the server.                                     *)
LEMMA PostSafe ==
  ASSUME ScanInv, NEW t \in Tabs, NEW c \in Calls, NEW r \in Requests, NEW q \in QRs,
         NEW z, z \in BOOLEAN, Posted(t, c, r, q, z), TypeOK',
         UNCHANGED <<server, told, serving>>, \A u \in Tabs \ {t} : SamePage(u),
         held'[t] = r, Reading(t)', HistoryFrame(t), ReadFrame(t),
         PageSane(t)', ReadsItsOwn(t)',
         started[t] \/ (ledger[r] = NoRow /\ \A d \in Calls : call[d].request # r)
  PROVE  Safe(t)
<1>0. /\ call[c] = Idle
      /\ call'[c].state = "SENT" /\ call'[c].request = r /\ call'[c].token = q
      /\ call'[c].scope = serving[t] /\ call'[c].answer = None
      /\ CallsBut(c)
      /\ read'[t] # None /\ read'[t].call = c /\ read'[t].again = started[t]
      /\ ReadsBut(t)
  <2>1. /\ call[c] = Idle /\ CallsBut(c)
        /\ call'[c].state = "SENT" /\ call'[c].request = r /\ call'[c].token = q
        /\ call'[c].scope = serving[t] /\ call'[c].answer = None
    BY PostedCall DEF Posted
  <2>2. read'[t] # None /\ read'[t].call = c /\ read'[t].again = started[t] /\ ReadsBut(t)
    BY PostedRead
  <2> QED  BY <2>1, <2>2
<1>1. Posts(t, c)
  BY <1>0 DEF Posts
<1>2. CallFrame(t)
  BY <1>0, <1>1 DEF CallFrame, CallsBut
<1>3. Told(t)
  BY DEF Told, told
<1>4. ResultTrue(t)'
  BY DEF ResultTrue, Reading
<1>5. WaitsForOne(t)'
  <2>1. /\ call'[c].state = "SENT" /\ call'[c].request = r /\ read'[t].call = c
        /\ read'[t].again = started[t]
    BY <1>0
  <2>2. ASSUME NEW u \in Tabs, read'[u] # None, read'[u].call = c PROVE u = t
    <3>1. SUFFICES ASSUME u # t PROVE FALSE
      OBVIOUS
    <3>2. read[u] # None /\ read[u].call = c
      BY <1>0, <2>2, <3>1 DEF ReadsBut
    <3>3. call[c].state # "IDLE"
      BY <3>2, PageTyped DEF WaitsForOne
    <3> QED  BY <1>0, <3>3, IdleCall
  <2>3. ASSUME ~ started[t], NEW d \in Calls, call'[d].request = r PROVE d = c
    BY <1>0, <2>3 DEF CallsBut
  <2>4. ~ started[t] => ledger'[r] = NoRow
    BY DEF server
  <2> QED  BY <2>1, <2>2, <2>3, <2>4 DEF WaitsForOne
<1>6. PageInv(t)'
  BY <1>4, <1>5 DEF PageInv
<1> QED  BY <1>2, <1>3, <1>6 DEF Safe, PageFrame

LEMMA RetrySafe ==
  ASSUME ScanInv, NEW t \in Tabs, Retry(t)
  PROVE  Safe(t)
<1>1. /\ page[t] = "SCANNER" /\ held[t] # 0 /\ result[t] = "NONE" /\ token[t] # None /\ ~ Busy(t)
      /\ Post(t, held[t], token[t], FALSE)
      /\ UNCHANGED <<server, told, history, phones, cookie, page, serving>>
      /\ UNCHANGED <<held, token, result, checking, chosen, marker, scopes, faults, reloads>>
  BY DEF Retry, Unresolved, bounds
<1>2. /\ UNCHANGED <<owner, stamp, ledger, handed, refused, born, issued, excused>>
      /\ Created' = Created
  BY <1>1 DEF server, told, history, Created
<1>3. PICK c \in Calls : Posted(t, c, held[t], token[t], FALSE)
  BY <1>1, PostIs
<1>4. /\ held[t] \in Created /\ started[t] /\ chosen[t] /\ Reading(t) /\ Reading(t)'
      /\ held[t] \in Requests /\ token[t] \in QRs
  BY <1>1, PageTyped, ScanClientAssumption
  DEF PageSane, Reading, TypeOK, HistoryTypes, Created, Requests
<1>5. /\ call' \in [Calls -> CallStates] /\ read' \in [Tabs -> Reads \cup {None}]
      /\ started' \in [Tabs -> BOOLEAN] /\ started'[t] = TRUE
      /\ ReadsBut(t)
  BY <1>3, <1>4, PostedCall, PostedRead DEF Posted
<1>6. TypeOK'
  BY <1>1, <1>2, <1>5, PageTyped DEF TypeOK, ServerTypes, PageTypes, HistoryTypes
<1>7. HistoryFrame(t)
  <2>1. Fresh = {}
    BY <1>2 DEF Fresh
  <2>2. \A r \in Created \ excused' : Marked(r) => Marked(r)'
    BY <1>1, <1>2 DEF Marked
  <2> QED  BY <1>2, <2>1, <2>2 DEF HistoryFrame
<1>8. ReadFrame(t)
  BY <1>1, <1>4 DEF ReadFrame
<1>9. PageSane(t)'
  BY <1>1, <1>2, <1>4, <1>5, PageTyped DEF PageSane, Busy
<1>10. ReadsItsOwn(t)'
  BY <1>1, <1>2, <1>4, PageTyped DEF ReadsItsOwn
<1>11. \A u \in Tabs \ {t} : SamePage(u)
  BY <1>1, <1>5 DEF SamePage, ReadsBut
<1> QED  BY <1>1, <1>3, <1>4, <1>6, <1>7, <1>8, <1>9, <1>10, <1>11, PostSafe

(* The QR of a request that is pending already is read again.              *)
LEMMA RescanSafe ==
  ASSUME ScanInv, NEW t \in Tabs, NEW q \in QRs, Scan(t, q), held[t] # 0
  PROVE  Safe(t)
<1> DEFINE r == held[t]
<1>1. /\ CanAcquire(t) /\ Persist(t, r) /\ Post(t, r, q, TRUE) /\ r \in Requests
      /\ held' = [held EXCEPT ![t] = r] /\ token' = [token EXCEPT ![t] = q]
      /\ UNCHANGED <<server, told, issued, born, phones, cookie, page, serving>>
      /\ UNCHANGED <<result, checking, chosen, scopes, faults, reloads>>
  BY DEF Scan, Bind, bounds
<1>2. /\ UNCHANGED <<owner, stamp, ledger, handed, refused, born, issued>>
      /\ Created' = Created
  BY <1>1 DEF server, told, Created
<1>3. PICK c \in Calls : Posted(t, c, r, q, TRUE)
  BY <1>1, PostIs
<1>4. /\ r \in Created /\ started[t] /\ Reading(t) /\ page[t] = "SCANNER" /\ ~ Busy(t)
  BY <1>1, PageTyped DEF PageSane, Reading, CanAcquire
<1>5. /\ call' \in [Calls -> CallStates] /\ read' \in [Tabs -> Reads \cup {None}]
      /\ started' \in [Tabs -> BOOLEAN] /\ started'[t] = TRUE
      /\ ReadsBut(t)
  BY <1>1, <1>3, PostedCall, PostedRead DEF Posted
<1>6. /\ held' = held /\ token' \in [Tabs -> QRs \cup {None}] /\ token'[t] = q
      /\ \A u \in Tabs \ {t} : token'[u] = token[u]
  BY <1>1, PageTyped DEF TypeOK, PageTypes
<1>7. /\ marker' \in [Tabs -> Markers \cup {None}] /\ excused' \subseteq Created
      /\ excused \subseteq excused' /\ \A u \in Tabs \ {t} : marker'[u] = marker[u]
      /\ marker'[t] # None => marker'[t].request = r
      /\ marker[t] # None => marker'[t] # None
  <2>1. excused \subseteq Created /\ marker \in [Tabs -> Markers \cup {None}]
    BY PageTyped DEF TypeOK, PageTypes, HistoryTypes
  <2> DEFINE m == [scope |-> serving[t], request |-> r]
  <2>2. m \in Markers /\ m.request = r /\ m # None
    BY <1>1, PageTyped, ScanClientAssumption DEF Markers
  <2>3. \/ marker' = [marker EXCEPT ![t] = m] /\ excused' = excused
        \/ marker[t] = None /\ excused' = excused \cup {r} /\ marker' = marker
    BY <1>1 DEF Persist
  <2> HIDE DEF m
  <2> QED  BY <1>4, <2>1, <2>2, <2>3
<1>8. TypeOK'
  <2>1. ServerTypes'
    BY <1>1, <1>2, <1>5, PageTyped DEF TypeOK, ServerTypes
  <2>2. PageTypes'
    BY <1>1, <1>5, <1>6, <1>7, PageTyped DEF TypeOK, PageTypes
  <2>3. HistoryTypes'
    BY <1>1, <1>2, <1>7, PageTyped DEF TypeOK, HistoryTypes
  <2> QED  BY <2>1, <2>2, <2>3 DEF TypeOK
<1>9. HistoryFrame(t)
  <2>1. Fresh = {}
    BY <1>2 DEF Fresh
  <2>2. \A x \in Created \ excused' : Marked(x) /\ born[x].tab = t => Marked(x)'
    BY <1>2, <1>4, <1>7, PageTyped DEF Marked, PageSane
  <2> QED  BY <1>2, <1>7, <2>1, <2>2 DEF HistoryFrame
<1>10. Reading(t)' /\ ReadFrame(t)
  BY <1>1, <1>4, <1>6 DEF Reading, ReadFrame
<1>11. PageSane(t)'
  BY <1>1, <1>2, <1>4, <1>5, <1>6, <1>7, PageTyped DEF PageSane, Busy, Reading
<1>12. ReadsItsOwn(t)'
  BY <1>1, <1>2, <1>4, <1>6, PageTyped DEF ReadsItsOwn
<1>13. \A u \in Tabs \ {t} : SamePage(u)
  BY <1>1, <1>5, <1>6, <1>7 DEF SamePage, ReadsBut
<1>14. held'[t] = r /\ UNCHANGED <<server, told, serving>>
  BY <1>1, <1>6
<1> QED  BY <1>1, <1>3, <1>4, <1>8, <1>9, <1>10, <1>11, <1>12, <1>13, <1>14, PostSafe

(* A new serving: its request id is new to everybody, and all earlier ones *)
(* of the tab are over.                                                    *)
LEMMA NewId ==
  ASSUME ScanInv, NEW t \in Tabs, held[t] = 0, page[t] = "SCANNER", issued + 1 \in Requests
  PROVE  LET r == issued + 1
         IN  /\ r \notin Created /\ r # 0 /\ ledger[r] = NoRow
             /\ \A d \in Calls : call[d].request # r
             /\ \A x \in Created : x <= r
             /\ \A x \in Created \ excused : born[x].tab = t => Over(x)
<1> DEFINE r == issued + 1
<1>1. issued \in Nat /\ r \notin Created /\ r # 0 /\ \A x \in Created : x <= r
  BY PageTyped, ScanClientAssumption DEF TypeOK, HistoryTypes, Created
<1>2. ledger[r] = NoRow
  BY <1>1 DEF ScanInv, RowHonest
<1>3. ASSUME NEW d \in Calls PROVE call[d].request # r
  BY <1>1, CallsTyped, IdleCall DEF CallHonest
<1>4. ASSUME NEW x \in Created \ excused, born[x].tab = t PROVE Over(x)
  <2>1. x # 0
    BY PageTyped, ScanClientAssumption DEF TypeOK, HistoryTypes, Created
  <2>2. ~ Marked(x)
    BY <1>4, <2>1, PageTyped DEF Marked, PageSane
  <2> QED  BY <2>2 DEF ScanInv, KeptOrOver
<1> QED  BY <1>1, <1>2, <1>3, <1>4

LEMMA FirstScanSafe ==
  ASSUME ScanInv, NEW t \in Tabs, NEW q \in QRs, Scan(t, q), held[t] = 0
  PROVE  Safe(t)
<1>0. PICK r \in Requests : r = issued + 1
  BY DEF Scan, Bind
<1>1. /\ CanAcquire(t) /\ Persist(t, r) /\ Post(t, r, q, FALSE) /\ r \in Requests
      /\ held' = [held EXCEPT ![t] = r] /\ token' = [token EXCEPT ![t] = q] /\ issued' = r
      /\ born' = [born EXCEPT ![r] = [tab |-> t, scope |-> serving[t]]]
      /\ UNCHANGED <<server, told, phones, cookie, page, serving>>
      /\ UNCHANGED <<result, checking, chosen, scopes, faults, reloads>>
  BY <1>0 DEF Scan, Bind, bounds
<1>2. /\ UNCHANGED <<owner, stamp, ledger, handed, refused>> /\ Created' = Created \cup {r}
      /\ issued \in Nat /\ issued' \in 0..MaxRequests
  BY <1>0, <1>1, PageTyped, ScanClientAssumption
  DEF server, told, Created, TypeOK, HistoryTypes, Requests
<1>3. PICK c \in Calls : Posted(t, c, r, q, FALSE)
  BY <1>1, PostIs
<1>4. /\ page[t] = "SCANNER" /\ ~ Busy(t) /\ chosen[t] /\ result[t] = "NONE"
  BY <1>1 DEF CanAcquire
<1>5. /\ r \notin Created /\ r # 0 /\ ledger[r] = NoRow
      /\ \A d \in Calls : call[d].request # r
      /\ \A x \in Created : x <= r
      /\ \A x \in Created \ excused : born[x].tab = t => Over(x)
  BY <1>0, <1>1, <1>4, NewId
<1>6. /\ call' \in [Calls -> CallStates] /\ read' \in [Tabs -> Reads \cup {None}]
      /\ call'[c].request = r /\ CallsBut(c)
      /\ started' \in [Tabs -> BOOLEAN] /\ started'[t] = TRUE
      /\ ReadsBut(t)
  <2>1. /\ call' \in [Calls -> CallStates] /\ call'[c].request = r
        /\ CallsBut(c)
    <3>1. r \in Requests /\ Put(t, c, r, q)
      BY <1>0, <1>3 DEF Posted
    <3> QED  BY <3>1, PostedCall
  <2>2. /\ read' \in [Tabs -> Reads \cup {None}] /\ started' \in [Tabs -> BOOLEAN]
        /\ started'[t] = TRUE /\ ReadsBut(t)
    BY <1>3, PostedRead
  <2> QED  BY <2>1, <2>2 DEF CallsBut, ReadsBut
<1>7. /\ held' \in [Tabs -> 0..MaxRequests] /\ held'[t] = r
      /\ token' \in [Tabs -> QRs \cup {None}] /\ token'[t] = q
      /\ \A u \in Tabs \ {t} : token'[u] = token[u] /\ held'[u] = held[u]
  BY <1>1, <1>2, PageTyped DEF TypeOK, PageTypes
<1>8. /\ born'[r] = [tab |-> t, scope |-> serving[t]] /\ \A x \in Created : born'[x] = born[x]
      /\ born' \in [Requests -> Births \cup {None}] /\ \A x \in Created' : born'[x] \in Births
  <2> DEFINE b == [tab |-> t, scope |-> serving[t]]
  <2>1. b \in Births
    BY PageTyped DEF Births
  <2>2. Created \subseteq Requests /\ born \in [Requests -> Births \cup {None}]
        /\ \A x \in Created : born[x] \in Births
    BY PageTyped, ScanClientAssumption DEF TypeOK, HistoryTypes, Created, Requests
  <2>3. born' = [born EXCEPT ![r] = b]
    BY <1>1
  <2> HIDE DEF b
  <2>4. born'[r] = b /\ \A x \in Created : born'[x] = born[x]
    BY <1>1, <1>5, <2>2, <2>3
  <2>5. born' \in [Requests -> Births \cup {None}]
    BY <2>1, <2>2, <2>3
  <2>6. \A x \in Created' : born'[x] \in Births
    BY <1>2, <2>1, <2>2, <2>4
  <2> QED  BY <2>4, <2>5, <2>6 DEF b
<1>9. /\ marker' \in [Tabs -> Markers \cup {None}] /\ excused' \subseteq Created'
      /\ excused \subseteq excused' /\ \A u \in Tabs \ {t} : marker'[u] = marker[u]
      /\ r \in excused' \/ (marker'[t] # None /\ marker'[t].request = r)
      /\ marker'[t] = None \/ marker'[t].request = r
  <2>1. excused \subseteq Created /\ marker \in [Tabs -> Markers \cup {None}]
    BY PageTyped DEF TypeOK, PageTypes, HistoryTypes
  <2> DEFINE m == [scope |-> serving[t], request |-> r]
  <2>2. m \in Markers /\ m.request = r /\ m # None
    BY <1>1, PageTyped, ScanClientAssumption DEF Markers
  <2>3. \/ marker' = [marker EXCEPT ![t] = m] /\ excused' = excused
        \/ marker[t] = None /\ excused' = excused \cup {r} /\ marker' = marker
    BY <1>1 DEF Persist
  <2> HIDE DEF m
  <2> QED  BY <1>2, <2>1, <2>2, <2>3
<1>10. TypeOK'
  <2>1. ServerTypes'
    BY <1>1, <1>2, <1>6, PageTyped DEF TypeOK, ServerTypes
  <2>2. PageTypes'
    BY <1>1, <1>6, <1>7, <1>9, PageTyped DEF TypeOK, PageTypes
  <2>3. HistoryTypes'
    BY <1>1, <1>2, <1>8, <1>9, PageTyped DEF TypeOK, HistoryTypes
  <2> QED  BY <2>1, <2>2, <2>3 DEF TypeOK
<1>11. HistoryFrame(t)
  <2>1. Fresh = {r}
    BY <1>2, <1>5 DEF Fresh
  <2>2. born'[r].tab = t
    BY <1>8
  <2>3. r \in excused' \/ Marked(r)'
    BY <1>9, <2>2 DEF Marked
  <2>4. ASSUME NEW x \in Created, Over(x) PROVE Over(x)'
    <3>1. CASE Decided(x)
      BY <1>2, <3>1 DEF Over, Decided
    <3>2. CASE Dead(x)
      <4>1. \A d \in Calls : call'[d].request = x =>
               call'[d].state = "ANSWERED" \/ call'[d].token = Garbled
        BY <1>5, <1>6, <3>2 DEF Dead, CallsBut
      <4>2. \A u \in Tabs : Reading(u)' => held'[u] # x
        <5> TAKE u \in Tabs
        <5>1. CASE u = t
          BY <1>5, <1>7, <5>1
        <5>2. CASE u # t
          BY <1>1, <1>7, <3>2, <5>2 DEF Dead, Reading
        <5> QED  BY <5>1, <5>2
      <4> QED  BY <1>2, <3>2, <4>1, <4>2 DEF Dead, Over
    <3> QED  BY <2>4, <3>1, <3>2 DEF Over
  <2>5. \A x \in Created \ excused' : born[x].tab = t => Over(x)'
    BY <1>5, <1>9, <2>4
  <2>6. \A x \in Created \ excused' : Marked(x) /\ born[x].tab = t => Over(x)' \/ Marked(x)'
    BY <2>5
  <2>7. issued' \in {issued, issued + 1}
    BY <1>0, <1>1
  <2> QED  BY <1>8, <1>9, <2>1, <2>2, <2>3, <2>5, <2>6, <2>7, Zenon DEF HistoryFrame
<1>12. Reading(t)' /\ ReadFrame(t)
  BY <1>1, <1>4, <1>5, <1>7 DEF Reading, ReadFrame
<1>13. PageSane(t)'
  <2>1. r \in Created'
    BY <1>2
  <2> QED  BY <1>1, <1>4, <1>5, <1>6, <1>7, <1>9, <2>1 DEF PageSane, Busy
<1>14. ReadsItsOwn(t)'
  <2>1. born'[r].tab = t /\ born'[r].scope = serving'[t]
    BY <1>1, <1>8
  <2>2. \A x \in Created' : x <= r
    BY <1>0, <1>2, <1>5
  <2> QED  BY <1>7, <2>1, <2>2 DEF ReadsItsOwn
<1>15. \A u \in Tabs \ {t} : SamePage(u)
  BY <1>1, <1>6, <1>7, <1>9 DEF SamePage, ReadsBut
<1>16. held'[t] = r /\ UNCHANGED <<server, told, serving>>
  BY <1>1, <1>7
<1> QED  BY <1>1, <1>3, <1>5, <1>10, <1>11, <1>12, <1>13, <1>14, <1>15, <1>16, PostSafe

(* The page takes its answer: what is final is shown, and is true; what is *)
(* not leaves the serving unconfirmed.                                     *)
LEMMA AnswerTaken ==
  ASSUME ScanInv, NEW t \in Tabs, Receives(t)
  PROVE  LET c == read[t].call
             r == held[t]
         IN  /\ c \in Calls /\ call[c].request = r /\ Reading(t) /\ r \in Created /\ r \in Requests
             /\ CallHonest(c)
             /\ call' \in [Calls -> CallStates] /\ call'[c] = Idle
             /\ \A d \in Calls \ {c} : call'[d] = call[d]
             /\ read' \in [Tabs -> Reads \cup {None}] /\ read'[t] = None
             /\ \A u \in Tabs \ {t} : read'[u] = read[u]
<1> DEFINE c == read[t].call
<1>1. read[t] # None /\ read[t] \in Reads /\ c \in Calls
  BY PageTyped DEF Receives, Reads
<1>2. Reading(t) /\ call[c].request = held[t] /\ call[c].state # "IDLE"
  BY <1>1, PageTyped DEF WaitsForOne
<1>3. held[t] \in Created /\ held[t] \in Requests /\ CallHonest(c)
  BY <1>1, <1>2, CallsTyped
<1>4. call' = [call EXCEPT ![c] = Idle] /\ read' = [read EXCEPT ![t] = None]
  BY DEF Receives
<1>5. Idle \in CallStates
  BY ScanClientAssumption DEF Idle, CallStates
<1>6. call' \in [Calls -> CallStates] /\ call'[c] = Idle
      /\ \A d \in Calls \ {c} : call'[d] = call[d]
  BY <1>1, <1>4, <1>5, PageTyped DEF TypeOK, ServerTypes
<1>7. read' \in [Tabs -> Reads \cup {None}] /\ read'[t] = None
      /\ \A u \in Tabs \ {t} : read'[u] = read[u]
  BY <1>4, PageTyped DEF TypeOK, PageTypes
<1> QED  BY <1>1, <1>2, <1>3, <1>6, <1>7 DEF CallHonest

Shows(t) ==
  LET r == held[t]
  IN  /\ result' \in [Tabs -> {"NONE", "ACCEPTED", "REJECTED"}]
      /\ \A u \in Tabs \ {t} : result'[u] = result[u]
      /\ refused \subseteq refused' /\ refused' \subseteq Created
      /\ \A x \in refused' \ refused : ledger[x].status = "REJECTED" \/ Dead(x)'
      /\ handed' \in [Requests -> {0, 1}]
      /\ \A x \in Requests :
           \/ handed'[x] = handed[x]
           \/ x = r /\ handed'[x] = 1 /\ handed[x] = 0 /\ ledger[r].status = "SUCCEEDED"
              /\ call[read[t].call].answer = "APPROVED"
      /\ result'[t] = "ACCEPTED" => ledger[r].status = "SUCCEEDED"
      /\ result'[t] = "REJECTED" => r \in refused'

LEMMA FirstMalformedDead ==
  ASSUME ScanInv, NEW t \in Tabs, Receives(t), call[read[t].call].answer = "INVALID_QR",
         ~ read[t].again, result'[t] = "REJECTED", \A u \in Tabs \ {t} : result'[u] = result[u]
  PROVE  Dead(held[t])'
<1> DEFINE c == read[t].call
<1>1. PICK r \in Created : r = held[t] /\ r # 0 /\ r \in Requests
  BY AnswerTaken, PageTyped, ScanClientAssumption DEF Created, TypeOK, HistoryTypes, Requests
<1>2. ledger[r] = NoRow /\ \A d \in Calls : call[d].request = r => d = c
  <2>1. CallHonest(c) /\ c \in Calls
    BY AnswerTaken
  <2>2. call[c].token = Garbled
    BY <2>1 DEF CallHonest
  <2>3. read[t] # None /\ WaitsForOne(t)
    BY PageTyped DEF Receives
  <2> QED  BY <1>1, <2>2, <2>3 DEF WaitsForOne
<1>3. ledger' = ledger /\ held' = held /\ chosen' = chosen
  BY DEF Receives, server
<1>4. \A d \in Calls : call'[d].request # r
  BY <1>1, <1>2, AnswerTaken, IdleCall
<1>5. ASSUME NEW u \in Tabs, Reading(u)' PROVE held'[u] # r
  <2>1. u # t
    BY <1>5 DEF Reading
  <2>2. Reading(u)
    BY <1>3, <1>5, <2>1 DEF Reading
  <2>3. Reading(t)
    BY AnswerTaken
  <2> QED  BY <1>1, <1>3, <2>1, <2>2, <2>3, OneReader
<1>6. Dead(r)'
  BY <1>2, <1>3, <1>4, <1>5 DEF Dead
<1>7. held'[t] = r
  BY <1>1, <1>3
<1> QED  BY <1>2, <1>3, <1>4, <1>5, <1>7 DEF Dead

LEMMA AnswerShown ==
  ASSUME ScanInv, NEW t \in Tabs, Receives(t)
  PROVE  Shows(t)
<1> DEFINE c == read[t].call
           a == call[c].answer
           r == held[t]
<1>1. /\ c \in Calls /\ call[c].request = r /\ Reading(t) /\ r \in Created /\ r \in Requests
      /\ CallHonest(c)
  BY AnswerTaken
<1>2. /\ refused \subseteq Created /\ handed \in [Requests -> {0, 1}] /\ result[t] = "NONE"
      /\ result \in [Tabs -> {"NONE", "ACCEPTED", "REJECTED"}]
  BY <1>1, PageTyped DEF TypeOK, PageTypes, HistoryTypes, Reading
<1>3. CASE UNCHANGED <<result, told>>
  BY <1>2, <1>3 DEF Shows, told
<1>4. CASE a \in {"APPROVED", "DUPLICATE"} /\ Show(t, TRUE, a = "DUPLICATE" \/ read[t].restored)
  <2>1. ledger[r].status = "SUCCEEDED" /\ (a = "APPROVED" => handed[r] = 0)
    BY <1>1, <1>4 DEF CallHonest
  <2>2. result' = [result EXCEPT ![t] = "ACCEPTED"] /\ refused' = refused
        /\ (handed' = handed \/ (a = "APPROVED" /\ handed' = [handed EXCEPT ![r] = @ + 1]))
    BY <1>4 DEF Show
  <2>3. /\ result' \in [Tabs -> {"NONE", "ACCEPTED", "REJECTED"}] /\ result'[t] = "ACCEPTED"
        /\ \A u \in Tabs \ {t} : result'[u] = result[u]
    BY <1>2, <2>2
  <2>4. /\ handed' \in [Requests -> {0, 1}]
        /\ \A x \in Requests :
             \/ handed'[x] = handed[x]
             \/ x = r /\ handed'[x] = 1 /\ handed[x] = 0 /\ a = "APPROVED"
    <3>1. CASE handed' = handed
      BY <1>2, <3>1
    <3>2. CASE a = "APPROVED" /\ handed' = [handed EXCEPT ![r] = @ + 1]
      <4>1. handed[r] = 0
        BY <2>1, <3>2
      <4>2. handed' = [handed EXCEPT ![r] = handed[r] + 1]
        BY <3>2
      <4>3. handed' = [handed EXCEPT ![r] = 1]
        BY <4>1, <4>2
      <4> QED  BY <1>1, <1>2, <3>2, <4>1, <4>3
    <3> QED  BY <2>2, <3>1, <3>2
  <2> QED  BY <1>2, <2>1, <2>2, <2>3, <2>4 DEF Shows
<1>5. CASE a \notin {"APPROVED", "DUPLICATE"} /\ Final(a, read[t].again)
           /\ Show(t, FALSE, a = "DUPLICATE" \/ read[t].restored)
  <2>1. result' = [result EXCEPT ![t] = "REJECTED"] /\ refused' = refused \cup {r}
        /\ handed' = handed
    BY <1>5 DEF Show
  <2>2. /\ result' \in [Tabs -> {"NONE", "ACCEPTED", "REJECTED"}] /\ result'[t] = "REJECTED"
        /\ \A u \in Tabs \ {t} : result'[u] = result[u]
    BY <1>2, <2>1
  <2>3. ledger[r].status = "REJECTED" \/ Dead(r)'
    <3>1. CASE a = "REJECTED"
      BY <1>1, <3>1 DEF CallHonest
    <3>2. CASE a = "INVALID_QR" /\ ~ read[t].again
      <4>1. Dead(held[t])' /\ held' = held
        BY <2>2, <3>2, FirstMalformedDead DEF Receives
      <4> QED  BY <4>1
    <3> QED  BY <1>5, <3>1, <3>2 DEF Final
  <2>4. \A x \in refused' \ refused : x = r
    BY <2>1
  <2>5. \A x \in refused' \ refused : ledger[x].status = "REJECTED" \/ Dead(x)'
    <3> TAKE x \in refused' \ refused
    <3>1. x = held[t] /\ held' = held
      BY <2>4 DEF Receives
    <3>2. CASE ledger[r].status = "REJECTED"
      BY <3>1, <3>2
    <3>3. CASE Dead(r)'
      BY <3>1, <3>3 DEF Dead
    <3> QED  BY <2>3, <3>2, <3>3
  <2> QED  BY <1>1, <1>2, <2>1, <2>2, <2>5 DEF Shows
<1> QED
  <2>1. \/ Final(a, read[t].again) /\ Show(t, a \in {"APPROVED", "DUPLICATE"},
                                           a = "DUPLICATE" \/ read[t].restored)
        \/ UNCHANGED <<result, told>>
    BY DEF Receives
  <2>2. CASE a \in {"APPROVED", "DUPLICATE"}
    <3>1. (a \in {"APPROVED", "DUPLICATE"}) = TRUE
      BY <2>2
    <3> QED  BY <1>3, <1>4, <2>1, <2>2, <3>1
  <2>3. CASE a \notin {"APPROVED", "DUPLICATE"}
    <3>1. (a \in {"APPROVED", "DUPLICATE"}) = FALSE
      BY <2>3
    <3> QED  BY <1>3, <1>5, <2>1, <2>3, <3>1
  <2> QED  BY <2>2, <2>3

LEMMA ReceivesSafe ==
  ASSUME ScanInv, NEW t \in Tabs, Receives(t)
  PROVE  Safe(t)
<1> DEFINE c == read[t].call
           a == call[c].answer
<1>1. /\ read[t] # None /\ UNCHANGED <<server, history, phones, page, serving, held>>
      /\ UNCHANGED <<started, chosen, marker, scopes, faults, reloads>>
      /\ cookie' \in {0, cookie}
  BY DEF Receives, bounds, CheckedCookie
<1>2. /\ UNCHANGED <<owner, stamp, ledger, born, issued, excused>> /\ Created' = Created
  BY <1>1 DEF server, history, Created
<1>3. /\ Reading(t) /\ held[t] \in Created
      /\ call' \in [Calls -> CallStates] /\ call'[c] = Idle
      /\ \A d \in Calls \ {c} : call'[d] = call[d]
      /\ read' \in [Tabs -> Reads \cup {None}] /\ read'[t] = None
      /\ \A u \in Tabs \ {t} : read'[u] = read[u]
  BY AnswerTaken
<1>4. /\ token' \in [Tabs -> QRs \cup {None}] /\ token'[t] \in {token[t], None}
      /\ checking' \in [Tabs -> BOOLEAN]
      /\ \A u \in Tabs \ {t} : token'[u] = token[u] /\ checking'[u] = checking[u]
  <2>1. /\ token \in [Tabs -> QRs \cup {None}] /\ checking \in [Tabs -> BOOLEAN]
        /\ \A x : Mismatch(x) \in BOOLEAN
    BY PageTyped DEF TypeOK, PageTypes, Mismatch
  <2>2. CASE UNCHANGED <<token, checking>>
    BY <2>1, <2>2
  <2>3. CASE /\ token' = IF Mismatch(a) THEN [token EXCEPT ![t] = None] ELSE token
             /\ checking' = [checking EXCEPT ![t] = Mismatch(a)]
    BY <2>1, <2>3
  <2> QED  BY <2>2, <2>3 DEF Receives
<1>5. Shows(t)
  BY AnswerShown
<1>6. TypeOK'
  <2>1. cookie' \in 0..MaxScopes
    BY <1>1, PageTyped, ScanClientAssumption DEF TypeOK, ServerTypes
  <2>2. ServerTypes'
    BY <1>1, <1>2, <1>3, <2>1, PageTyped DEF TypeOK, ServerTypes
  <2>3. PageTypes'
    BY <1>1, <1>3, <1>4, <1>5, PageTyped DEF TypeOK, PageTypes, Shows
  <2>4. HistoryTypes'
    BY <1>1, <1>2, <1>5, PageTyped DEF TypeOK, HistoryTypes, Shows
  <2> QED  BY <2>2, <2>3, <2>4 DEF TypeOK
<1>7. CallFrame(t)
  BY <1>1, <1>3 DEF CallFrame, Takes
<1>8. Told(t)
  BY <1>1, <1>3, <1>5 DEF Told, Shows, HandsOut, Takes
<1>9. HistoryFrame(t)
  <2>1. Fresh = {}
    BY <1>2 DEF Fresh
  <2>2. \A r \in Created \ excused' : Marked(r) => Marked(r)'
    BY <1>1, <1>2 DEF Marked
  <2> QED  BY <1>2, <2>1, <2>2 DEF HistoryFrame
<1>10. ReadFrame(t)
  BY <1>1, <1>3 DEF ReadFrame
<1>11. PageSane(t)'
  BY <1>1, <1>2, <1>3, <1>4, PageTyped DEF PageSane, Reading
<1>12. ReadsItsOwn(t)'
  BY <1>1, <1>2, <1>3, PageTyped DEF ReadsItsOwn
<1>13. WaitsForOne(t)'
  BY <1>3 DEF WaitsForOne
<1>14. ResultTrue(t)'
  BY <1>1, <1>2, <1>5 DEF ResultTrue, Shows
<1>15. \A u \in Tabs \ {t} : SamePage(u)
  BY <1>1, <1>3, <1>4, <1>5 DEF SamePage, Shows
<1> QED
  BY <1>1, <1>6, <1>7, <1>8, <1>9, <1>10, <1>11, <1>12, <1>13, <1>14, <1>15
  DEF Safe, PageFrame, PageInv

-----------------------------------------------------------------------------
(* Every step                                                              *)

LEMMA PageStepSafe ==
  ASSUME ScanInv, NEW t \in Tabs, PageStep(t)
  PROVE  Safe(t)
<1>1. ASSUME NEW q \in QRs, Scan(t, q) PROVE Safe(t)
  BY <1>1, FirstScanSafe, RescanSafe
<1> QED
  BY <1>1, ConnectSafe, ActivateSafe, LoadSafe, ChooseSafe, RetrySafe, ReceivesSafe,
     DisconnectSafe, CheckSafe, RecoverSafe, ResetSafe, ReloadSafe, ReopenSafe
  DEF PageStep

(* A step that leaves all but the phones as it was.                        *)
LEMMA NothingElse ==
  ASSUME ScanInv, phones' \subseteq Scopes, UNCHANGED <<server, call, cookie, page, serving, flow>>,
         UNCHANGED <<read, checking, chosen, marker, told, history, bounds>>
  PROVE  ScanInv'
<1>1. /\ UNCHANGED <<owner, stamp, ledger, call, cookie, page, serving, held, token, result>>
      /\ UNCHANGED <<started, read, checking, chosen, marker, handed, refused, born, issued>>
      /\ UNCHANGED <<excused, scopes, faults, reloads>> /\ Created' = Created
  BY DEF server, flow, told, history, bounds, Created
<1>2. TypeOK'
  BY <1>1 DEF ScanInv, TypeOK, ServerTypes, PageTypes, HistoryTypes
<1>3. \A t \in Tabs : PageInv(t)'
  BY <1>1
  DEF ScanInv, PageInv, PageSane, Untouched, ReadsItsOwn, Reading, WaitsForOne, ResultTrue
<1>4. \A c \in Calls : CallHonest(c)'
  BY <1>1 DEF ScanInv, CallHonest
<1>5. \A r \in Requests : RowHonest(r)'
  BY <1>1 DEF ScanInv, RowHonest
<1>6. \A r : /\ Dead(r)' = Dead(r) /\ Over(r)' = Over(r) /\ Marked(r)' = Marked(r)
  BY <1>1 DEF Dead, Over, Decided, Reading, Marked
<1>7. RefusedStay' /\ KeptOrOver' /\ OverBeforeNext'
  BY <1>1, <1>6 DEF ScanInv, RefusedStay, KeptOrOver, OverBeforeNext
<1> QED  BY <1>2, <1>3, <1>4, <1>5, <1>7 DEF ScanInv

LEMMA StepSafe ==
  ASSUME ScanInv, [Next]_vars
  PROVE  ScanInv'
<1>1. phones \subseteq Scopes
  BY DEF ScanInv, TypeOK, ServerTypes
<1>2. ASSUME NEW t \in Tabs, PageStep(t) PROVE ScanInv'
  BY <1>2, PageStepSafe, SafePage
<1>3. ASSUME NEW c \in Calls, ServerStep(c) \/ HandlerFails(c) \/ Vanish(c) PROVE ScanInv'
  BY <1>3, ReserveSafe, ReceiveSafe, DecideSafe, HandlerFailsSafe, VanishSafe, SafeServer
  DEF ServerStep
<1>4. ASSUME NEW s \in Scopes, Revoke(s) PROVE ScanInv'
  BY <1>1, <1>4, NothingElse DEF Revoke
<1>5. CASE UNCHANGED vars
  BY <1>1, <1>5, NothingElse DEF vars
<1> QED  BY <1>2, <1>3, <1>4, <1>5 DEF Next

LEMMA StartSafe ==
  ASSUME Init
  PROVE  ScanInv
<1>1. issued = 0 /\ Created = {}
  BY DEF Init, Created
<1>2. ServerTypes
  BY ScanClientAssumption
  DEF Init, ServerTypes, LedgerRows, NoRow, CallStates, Idle, Scopes
<1>3. PageTypes
  BY ScanClientAssumption DEF Init, PageTypes
<1>4. HistoryTypes
  BY <1>1, ScanClientAssumption DEF Init, HistoryTypes
<1>5. \A t \in Tabs : PageInv(t)
  BY <1>1
  DEF Init, PageInv, PageSane, Untouched, ReadsItsOwn, Reading, WaitsForOne, ResultTrue
<1>6. \A c \in Calls : CallHonest(c)
  BY IdleCall, NoAnswer DEF Init, CallHonest
<1>7. \A r \in Requests : RowHonest(r)
  BY DEF Init, RowHonest, NoRow
<1>8. RefusedStay /\ KeptOrOver /\ OverBeforeNext
  BY <1>1 DEF Init, RefusedStay, KeptOrOver, OverBeforeNext
<1> QED  BY <1>2, <1>3, <1>4, <1>5, <1>6, <1>7, <1>8 DEF ScanInv, TypeOK

-----------------------------------------------------------------------------
(* The properties                                                          *)

THEOREM ScanInductive == Spec => []ScanInv
BY StartSafe, StepSafe, PTL DEF Spec

(* A serving that a page shows as accepted has its meal, and one that the  *)
(* waiter saw rejected never gets one, in every state.                     *)
THEOREM ShownTrue == Spec => []ShownIsTrue
<1>1. ScanInv => ShownIsTrue
  <2> SUFFICES ASSUME ScanInv PROVE ShownIsTrue
    OBVIOUS
  <2>1. \A t \in Tabs : result[t] = "ACCEPTED" => ledger[held[t]].status = "SUCCEEDED"
    BY PageTyped DEF ResultTrue
  <2>2. \A r \in refused : ledger[r].status # "SUCCEEDED"
    BY DEF ScanInv, RefusedStay, Dead, NoRow
  <2> QED  BY <2>1, <2>2 DEF ShownIsTrue
<1> QED  BY ScanInductive, <1>1, PTL

(* A tab makes a new request id only when no read can turn an earlier one  *)
(* of it into a meal any more, unless its marker could not be kept.        *)
THEOREM EarlierSettled == Spec => []SettledBeforeNext
<1>1. ScanInv => SettledBeforeNext
  <2> SUFFICES ASSUME ScanInv, NEW r \in 1..issued, NEW x \in 1..issued,
                      r < x, born[r].tab = born[x].tab, r \notin excused
               PROVE  Settled(r)
    BY DEF SettledBeforeNext
  <2>1. Over(r)
    BY DEF ScanInv, OverBeforeNext, Created
  <2> QED  BY <2>1 DEF Over, Dead, Settled
<1> QED  BY ScanInductive, <1>1, PTL

(* The server binds a request id to no browser identity but the one of the *)
(* page that created it.                                                   *)
THEOREM BoundByBirth == Spec => []BoundToItsBrowser
<1>1. ScanInv => BoundToItsBrowser
  BY DEF ScanInv, RowHonest, BoundToItsBrowser
<1> QED  BY ScanInductive, <1>1, PTL

(* The promise made to the waiter.                                         *)
promise == <<Fate, handed>>

LEMMA SameFates ==
  ASSUME \A r \in Requests : FateOf(r)' = FateOf(r)
  PROVE  Fate' = Fate
BY DEF Fate

(* The page that takes an answer hands out a meal on record, or refuses a  *)
(* request without a row, or leaves the promise as it is.                  *)
LEMMA AnswerKeepsPromise ==
  ASSUME ScanInv, NEW t \in Tabs, Receives(t)
  PROVE  [Promise!PromiseNext]_promise
<1>1. PICK r \in Requests : r = held[t]
  BY AnswerTaken
<1>2. ledger' = ledger
  BY DEF Receives, server
<1>3. Shows(t) /\ handed \in [Requests -> {0, 1}]
  BY AnswerShown, PageTyped DEF TypeOK, HistoryTypes
<1>4. \/ refused' = refused
      \/ refused' = refused \cup {r} /\ handed' = handed
  BY <1>1 DEF Receives, Show, told
<1>5. CASE refused' = refused
  <2>1. Fate' = Fate
    BY <1>2, <1>5, SameFates DEF FateOf
  <2>2. CASE handed' = handed
    BY <2>1, <2>2 DEF promise
  <2>3. CASE handed' # handed
    <3>1. \A x \in Requests : x # r => handed'[x] = handed[x]
      BY <1>1, <1>3 DEF Shows
    <3>2. handed'[r] # handed[r]
      BY <1>3, <2>3, <3>1 DEF Shows
    <3>3. handed'[r] = 1 /\ handed[r] = 0 /\ ledger[r].status = "SUCCEEDED"
      BY <1>1, <1>3, <3>2 DEF Shows
    <3>4. handed' = [handed EXCEPT ![r] = 1]
      BY <1>3, <3>1, <3>3 DEF Shows
    <3>5. Fate[r] = "served"
      BY <3>3 DEF Fate, FateOf
    <3>6. Promise!HandOut(r)
      BY <2>1, <3>3, <3>4, <3>5 DEF Promise!HandOut
    <3> QED  BY <3>6 DEF Promise!PromiseNext
  <2> QED  BY <2>2, <2>3
<1>6. CASE refused' = refused \cup {r} /\ handed' = handed /\ r \notin refused
  <2>1. ledger[r].status = "REJECTED" \/ ledger[r] = NoRow
    BY <1>2, <1>3, <1>6 DEF Shows, Dead
  <2>2. \A x \in Requests : x # r => FateOf(x)' = FateOf(x)
    BY <1>2, <1>6 DEF FateOf
  <2>3. CASE ledger[r].status = "REJECTED"
    <3>1. FateOf(r)' = FateOf(r)
      BY <1>2, <1>6, <2>3 DEF FateOf
    <3>2. Fate' = Fate
      BY <2>2, <3>1, SameFates
    <3> QED  BY <1>6, <3>2 DEF promise
  <2>4. CASE ledger[r] = NoRow
    <3>1. Fate[r] = "open" /\ Fate'[r] = "refused"
      BY <1>2, <1>6, <2>4 DEF Fate, FateOf, NoRow
    <3>2. Fate' = [Fate EXCEPT ![r] = "refused"]
      BY <2>2, <3>1 DEF Fate
    <3>3. Promise!Settle(r, "refused")
      BY <1>6, <3>1, <3>2 DEF Promise!Settle
    <3> QED  BY <3>3 DEF Promise!PromiseNext
  <2> QED  BY <2>1, <2>3, <2>4
<1> QED
  <2>1. r \in refused /\ refused' = refused \cup {r} => refused' = refused
    OBVIOUS
  <2> QED  BY <1>4, <1>5, <1>6, <2>1

LEMMA PageKeepsPromise ==
  ASSUME ScanInv, NEW t \in Tabs, PageStep(t)
  PROVE  [Promise!PromiseNext]_promise
<1>1. CASE UNCHANGED <<server, told>>
  <2>1. ledger' = ledger /\ refused' = refused /\ handed' = handed
    BY <1>1 DEF server, told
  <2>2. Fate' = Fate
    BY <2>1, SameFates DEF FateOf
  <2> QED  BY <2>1, <2>2 DEF promise
<1>2. CASE Recover(t)
  <2>1. ledger' = ledger
    BY <1>2 DEF Recover, server
  <2>2. \/ refused' = refused
        \/ refused' = refused \cup {held[t]} /\ ledger[held[t]].status = "REJECTED"
    BY <1>2 DEF Recover, Show, told, Decided
  <2>3. handed' = handed
    BY <1>2 DEF Recover, Show, told
  <2>4. Fate' = Fate
    BY <2>1, <2>2, SameFates DEF FateOf
  <2> QED  BY <2>3, <2>4 DEF promise
<1>3. CASE Receives(t)
  BY <1>3, AnswerKeepsPromise
<1>4. ASSUME NEW q \in QRs, Scan(t, q) PROVE UNCHANGED <<server, told>>
  BY <1>4 DEF Scan
<1>5. \/ UNCHANGED <<server, told>> \/ Recover(t) \/ Receives(t)
  BY <1>4
  DEF PageStep, Connect, Activate, Load, Choose, Retry, Disconnect, Check, Reset, Reload, Reopen,
      Forget
<1> QED  BY <1>1, <1>2, <1>3, <1>5

LEMMA ServerKeepsPromise ==
  ASSUME ScanInv, NEW c \in Calls, ServerStep(c) \/ HandlerFails(c) \/ Vanish(c)
  PROVE  [Promise!PromiseNext]_promise
<1>1. refused' = refused /\ handed' = handed /\ ledger \in [Requests -> LedgerRows]
  BY DEF ServerStep, Reserve, Receive, Decide, HandlerFails, Vanish, told, ScanInv, TypeOK,
         ServerTypes
<1>2. CASE ledger' = ledger
  <2>1. Fate' = Fate
    BY <1>1, <1>2, SameFates DEF FateOf
  <2> QED  BY <1>1, <2>1 DEF promise
<1>3. CASE Receive(c) /\ ledger' # ledger
  <2>1. PICK r : /\ ledger' = [ledger EXCEPT ![r] = [status |-> "PENDING", token |-> call[c].token]]
                 /\ ledger[r] = NoRow
    BY <1>3 DEF Receive
  <2>2. \A x \in Requests : FateOf(x)' = FateOf(x)
    BY <1>1, <2>1 DEF FateOf, NoRow
  <2> QED  BY <1>1, <2>2, SameFates DEF promise
<1>4. CASE Decide(c) /\ ledger' # ledger
  <2>0. /\ call[c].state = "RECEIVED" /\ ledger[call[c].request].status = "PENDING"
        /\ \E s \in {"SUCCEEDED", "REJECTED"} :
             ledger' = [ledger EXCEPT ![call[c].request].status = s]
    BY <1>4 DEF Decide
  <2>r. PICK r : r = call[c].request
    OBVIOUS
  <2>s. PICK s \in {"SUCCEEDED", "REJECTED"} :
          ledger' = [ledger EXCEPT ![call[c].request].status = s]
    BY <2>0
  <2>1. /\ r = call[c].request /\ call[c].state = "RECEIVED" /\ s \in {"SUCCEEDED", "REJECTED"}
        /\ ledger[r].status = "PENDING" /\ ledger' = [ledger EXCEPT ![r].status = s]
    BY <2>0, <2>r, <2>s
  <2>2. r \in Requests
    BY <2>1, CallsTyped
  <2>3. r \notin refused
    BY <2>1 DEF ScanInv, RefusedStay, Dead, NoRow
  <2>4. ledger'[r].status = s /\ \A x \in Requests : x # r => ledger'[x] = ledger[x]
    BY <1>1, <2>1, <2>2 DEF LedgerRows
  <2>5. PICK f \in {"served", "refused"} : Fate'[r] = f
    BY <1>1, <2>2, <2>4 DEF Fate, FateOf
  <2>6. Fate[r] = "open"
    BY <2>1, <2>2, <2>3 DEF Fate, FateOf
  <2>7. \A x \in Requests : x # r => FateOf(x)' = FateOf(x)
    BY <1>1, <2>4 DEF FateOf
  <2>8. Fate' = [Fate EXCEPT ![r] = f]
    BY <2>2, <2>5, <2>7 DEF Fate
  <2>9. Promise!Settle(r, f)
    BY <1>1, <2>6, <2>8 DEF Promise!Settle
  <2> QED  BY <2>2, <2>9 DEF Promise!PromiseNext
<1>5. ledger' = ledger \/ Receive(c) \/ Decide(c)
  BY DEF ServerStep, Reserve, HandlerFails, Vanish, server
<1> QED  BY <1>2, <1>3, <1>4, <1>5

LEMMA StepKeepsPromise ==
  ASSUME ScanInv, [Next]_vars
  PROVE  [Promise!PromiseNext]_promise
<1>1. CASE UNCHANGED <<server, told>>
  <2>1. ledger' = ledger /\ refused' = refused /\ handed' = handed
    BY <1>1 DEF server, told
  <2>2. Fate' = Fate
    BY <2>1, SameFates DEF FateOf
  <2> QED  BY <2>1, <2>2 DEF promise
<1>2. ASSUME NEW s \in Scopes, Revoke(s) PROVE UNCHANGED <<server, told>>
  BY <1>2 DEF Revoke
<1>3. CASE UNCHANGED vars
  BY <1>1, <1>3 DEF vars
<1> QED  BY <1>1, <1>2, <1>3, PageKeepsPromise, ServerKeepsPromise DEF Next

LEMMA PromiseStarts == Init => Promise!PromiseInit
BY DEF Init, Promise!PromiseInit, Fate, FateOf, NoRow

(* Whatever the network, the browser and the pages do, a request is        *)
(* decided once, its meal is handed out at most once and only after it is  *)
(* recorded, and one that was shown as rejected is never served.           *)
THEOREM PromiseKept == Spec => ImplementsPromise
<1>1. ScanInv /\ [Next]_vars => [Promise!PromiseNext]_<<Fate, handed>>
  BY StepKeepsPromise DEF promise
<1> QED  BY PromiseStarts, ScanInductive, <1>1, PTL
         DEF Spec, ImplementsPromise, Promise!PromiseSpec
=============================================================================
