----------------------------- MODULE ScanClient -----------------------------
(***************************************************************************)
(* The public scan app: the page of scan_app.js with its pending operation *)
(* and its marker in session storage, the transport over a lossy network,  *)
(* and the server side of scan_app.py, which binds every request id to the *)
(* browser that used it first.                                             *)
(*                                                                         *)
(* One browser has several tabs.  They share the scanner cookie; each has  *)
(* a page and a session storage of its own.  A read is a POST that may     *)
(* never arrive, arrive late, be answered late or not at all; the page     *)
(* waits for one read at a time but a page that gave up leaves its read    *)
(* behind.  Result look-ups and start-up calls only read, and are one step *)
(* each.  The scan core behind the mapping is the one of Serving, reduced  *)
(* to what the client can tell: a request is PENDING from the receipt of   *)
(* its first read to its decision, and is decided once.                    *)
(*                                                                         *)
(* Request ids and browser identities are numbered in the order they are   *)
(* created.  A page's markerSaved says whether its marker is in storage,   *)
(* and is not tracked apart.  A selected meal type is kept as a flag: the  *)
(* type itself travels with the server's mapping.                          *)
(***************************************************************************)
EXTENDS Naturals, FiniteSets

CONSTANTS
  Tabs,
  Calls,          \* reads that may be under way at the same time
  Tokens,         \* well formed QR tokens, issued or not
  MaxRequests,    \* bound on the request ids created
  MaxScopes,      \* bound on the browser identities issued
  MaxFaults,      \* bound on lost connections and failing handlers
  MaxReloads,     \* bound on page loads after the first
  None            \* the absent value

Garbled == "garbled"         \* a QR value that token_digest refuses

Requests == 1..MaxRequests
Scopes == 1..MaxScopes
QRs == Tokens \cup {Garbled}

(* What a read may be answered.                                            *)
Answers == {"APPROVED", "DUPLICATE", "REJECTED", "UNCONFIRMED", "INVALID_QR",
            "CSRF_REJECTED", "SCANNER_ACTIVATION_REQUIRED", "REQUEST_MISMATCH",
            "IDEMPOTENCY_KEY_REUSED"}

(* What a page knows of the read it waits for, and what a marker says.     *)
Reads == [call : Calls, restored : BOOLEAN, again : BOOLEAN]
Markers == [scope : 0..MaxScopes, request : Requests]

ASSUME ScanClientAssumption ==
  /\ IsFiniteSet(Calls)
  /\ {MaxRequests, MaxScopes, MaxFaults, MaxReloads} \subseteq Nat
  /\ MaxScopes >= 1
  /\ Garbled \notin Tokens /\ None \notin Tokens \cup {Garbled} \cup Calls
  /\ None \notin Reads \cup Markers \cup Answers

VARIABLES
  owner,       \* scan_app_requests: the browser each request is bound to
  stamp,       \* scan_app_requests.created_at, 0 without a row
  ledger,      \* serving_requests: status and the token it was read with
  phones,      \* identities with an active scanner_phones row
  call,        \* the reads under way
  cookie,      \* the browser's scanner cookie
  page,        \* what each tab is doing
  serving,     \* servingScope of each page
  held,        \* flow.request, 0 without one
  token,       \* flow.request.token
  result,      \* flow.result
  started,     \* flow.readStarted
  read,        \* the read a page waits for, and why it was made
  checking,    \* the page waits for a result look-up
  chosen,      \* a meal type is selected
  marker,      \* the recovery marker in session storage
  issued,      \* request ids created so far
  born,        \* of each id: the tab and the scope it was created in
  handed,      \* of each id: times the waiter was told to hand out its meal
  refused,     \* ids the waiter saw rejected
  excused,     \* ids whose marker could not be kept, or was cleared
  scopes,      \* identities issued so far
  faults, reloads

server == <<owner, stamp, ledger>>
flow == <<held, token, result, started>>
told == <<handed, refused>>
history == <<born, issued, excused>>
bounds == <<scopes, faults, reloads>>
vars == <<server, phones, call, cookie, page, serving, flow, read, checking,
          chosen, marker, told, history, bounds>>

-----------------------------------------------------------------------------
NoRow == [status |-> "NONE", token |-> None]
Idle == [state |-> "IDLE", request |-> 0, token |-> None, cookie |-> 0,
         scope |-> 0, answer |-> None]

Init ==
  /\ owner = [r \in Requests |-> 0] /\ stamp = [r \in Requests |-> 0]
  /\ ledger = [r \in Requests |-> NoRow]
  /\ phones = {1} /\ scopes = 1 /\ cookie = 1
  /\ call = [c \in Calls |-> Idle]
  /\ page = [t \in Tabs |-> "STARTUP"]
  /\ serving = [t \in Tabs |-> 0]
  /\ held = [t \in Tabs |-> 0] /\ token = [t \in Tabs |-> None]
  /\ result = [t \in Tabs |-> "NONE"] /\ started = [t \in Tabs |-> FALSE]
  /\ read = [t \in Tabs |-> None] /\ checking = [t \in Tabs |-> FALSE]
  /\ chosen = [t \in Tabs |-> FALSE]
  /\ marker = [t \in Tabs |-> None]
  /\ issued = 0
  /\ born = [r \in Requests |-> None]
  /\ handed = [r \in Requests |-> 0] /\ refused = {} /\ excused = {}
  /\ faults = 0 /\ reloads = 0

Fault == faults < MaxFaults /\ faults' = faults + 1
(* Mutant: a row is taken for a decision.                                  *)
Known(r) == ledger[r].status # "NONE"

Decided(r) == ledger[r].status \in {"SUCCEEDED", "REJECTED"}
Authorized(s) == s \in phones

-----------------------------------------------------------------------------
(* The server's handler of a read                                          *)

Awaited(c) == \E t \in Tabs : read[t] # None /\ read[t].call = c
(* Mutant: the CSRF token is not compared.                                 *)
AdmittedByCookie(c) == Authorized(call[c].cookie)

Admitted(c) == call[c].cookie = call[c].scope /\ Authorized(call[c].cookie)
Reply(c, a) ==
  call' = [call EXCEPT ![c].state = "ANSWERED", ![c].answer = a]

(* The cookie must be the one whose CSRF token the page holds, and belong  *)
(* to an active phone; then _reserve binds a new id to its browser.        *)
Reserve(c) ==
  LET r == call[c].request IN
  /\ call[c].state = "SENT"
  /\ \/ /\ call[c].cookie # call[c].scope
        /\ Reply(c, "CSRF_REJECTED")
        /\ UNCHANGED <<owner, stamp>>
     \/ /\ call[c].cookie = call[c].scope /\ ~Authorized(call[c].cookie)
        /\ Reply(c, "SCANNER_ACTIVATION_REQUIRED")
        /\ UNCHANGED <<owner, stamp>>
     \/ /\ Admitted(c) /\ owner[r] \notin {0, call[c].cookie}
        /\ Reply(c, "REQUEST_MISMATCH")
        /\ UNCHANGED <<owner, stamp>>
     \/ /\ Admitted(c) /\ owner[r] = call[c].cookie
        /\ call' = [call EXCEPT ![c].state = "MAPPED"]
        /\ UNCHANGED <<owner, stamp>>
     \/ /\ Admitted(c) /\ owner[r] = 0
        /\ call' = [call EXCEPT ![c].state = "MAPPED"]
        /\ owner' = [owner EXCEPT ![r] = call[c].cookie]
        /\ stamp' = [stamp EXCEPT ![r] =
                       1 + Cardinality({x \in Requests : stamp[x] # 0})]
  /\ UNCHANGED <<ledger, phones, cookie, page, serving, flow, read, checking,
                 chosen, marker, told, history, bounds>>

(* The receipt: a malformed token is an error of its own for a new id, and *)
(* a mismatch for one that was received before.                            *)
Receive(c) ==
  LET r == call[c].request IN
  /\ call[c].state = "MAPPED"
  /\ IF call[c].token = Garbled
     THEN /\ Reply(c, IF ledger[r] = NoRow THEN "INVALID_QR"
                      ELSE "REQUEST_MISMATCH")
          /\ UNCHANGED ledger
     ELSE /\ call' = [call EXCEPT ![c].state = "RECEIVED"]
          /\ ledger' = IF ledger[r] # NoRow THEN ledger
                       ELSE [ledger EXCEPT ![r] = [status |-> "PENDING",
                                                   token |-> call[c].token]]
  /\ UNCHANGED <<owner, stamp, phones, cookie, page, serving, flow, read,
                 checking, chosen, marker, told, history, bounds>>

(* The decision, or the replay of an earlier one.  A commit whose          *)
(* acknowledgement is lost is answered as unconfirmed.                     *)
Decide(c) ==
  LET r == call[c].request
      row == ledger[r] IN
  /\ call[c].state = "RECEIVED"
  /\ \/ /\ row.token # call[c].token
        /\ Reply(c, "IDEMPOTENCY_KEY_REUSED")
        /\ UNCHANGED <<ledger, faults>>
     \/ /\ row.token = call[c].token /\ Decided(r)
        /\ Reply(c, IF row.status = "SUCCEEDED" THEN "DUPLICATE" ELSE "REJECTED")
        /\ UNCHANGED <<ledger, faults>>
     \/ /\ row.token = call[c].token /\ row.status = "PENDING"
        /\ \E s \in {"SUCCEEDED", "REJECTED"} :
             /\ ledger' = [ledger EXCEPT ![r].status = s]
             /\ \/ /\ Reply(c, IF s = "SUCCEEDED" THEN "APPROVED" ELSE "REJECTED")
                   /\ UNCHANGED faults
                \/ Reply(c, "UNCONFIRMED") /\ Fault
  /\ UNCHANGED <<owner, stamp, phones, cookie, page, serving, flow, read,
                 checking, chosen, marker, told, history, scopes, reloads>>

(* A rate limit, a failing transaction or an interruption: a 429 or 503.   *)
HandlerFails(c) ==
  /\ call[c].state \in {"SENT", "MAPPED", "RECEIVED"}
  /\ Fault
  /\ Reply(c, "UNCONFIRMED")
  /\ UNCHANGED <<server, phones, cookie, page, serving, flow, read, checking,
                 chosen, marker, told, history, scopes, reloads>>

(* A read that nobody waits for is lost on its way, dies with its worker,  *)
(* or has its answer thrown away.                                          *)
Vanish(c) ==
  /\ call[c] # Idle /\ ~Awaited(c)
  /\ call' = [call EXCEPT ![c] = Idle]
  /\ UNCHANGED <<server, phones, cookie, page, serving, flow, read, checking,
                 chosen, marker, told, history, bounds>>

(* An administrator revokes a phone, or its last day ends.                 *)
Revoke(s) ==
  /\ s \in phones
  /\ phones' = phones \ {s}
  /\ UNCHANGED <<server, call, cookie, page, serving, flow, read, checking,
                 chosen, marker, told, history, bounds>>

-----------------------------------------------------------------------------
(* The page                                                                *)

(* authorize refuses a cookie and the browser deletes it.                  *)
CheckedCookie == IF Authorized(cookie) THEN cookie ELSE 0

(* latest_request: the request of a browser that was bound last.           *)
Owned(s) == {r \in Requests : owner[r] = s}
Latest(s) == IF Owned(s) = {} THEN 0
             ELSE CHOOSE r \in Owned(s) : \A x \in Owned(s) : stamp[x] <= stamp[r]

(* openScanner, first half: a session, and the guard against a marker that *)
(* belongs to another one.                                                 *)
Connect(t) ==
  /\ page[t] = "STARTUP"
  /\ cookie' = CheckedCookie
  /\ IF ~Authorized(cookie)
     THEN /\ page' = [page EXCEPT ![t] = "ACTIVATION"]
          /\ UNCHANGED serving
     ELSE /\ marker[t] # None => marker[t].scope = cookie
          /\ page' = [page EXCEPT ![t] = "CONNECTED"]
          /\ serving' = [serving EXCEPT ![t] = cookie]
  /\ UNCHANGED <<server, phones, call, flow, read, checking, chosen, marker,
                 told, history, bounds>>

(* A code of the administrator's activates a new browser identity.         *)
Activate(t) ==
  /\ page[t] = "ACTIVATION"
  /\ scopes < MaxScopes
  /\ scopes' = scopes + 1
  /\ phones' = phones \cup {scopes + 1}
  /\ cookie' = scopes + 1
  /\ page' = [page EXCEPT ![t] = "STARTUP"]
  /\ UNCHANGED <<server, call, serving, flow, read, checking, chosen, marker,
                 told, history, faults, reloads>>

(* openScanner, second half: the marker, or else the server's latest       *)
(* request of this browser, becomes the pending operation, and its result  *)
(* is looked up at once.                                                   *)
Restore(t, r) ==
  /\ page' = [page EXCEPT ![t] = "SCANNER"]
  /\ held' = [held EXCEPT ![t] = r]
  /\ started' = [started EXCEPT ![t] = r # 0]
  /\ checking' = [checking EXCEPT ![t] = r # 0]

Load(t) ==
  /\ page[t] = "CONNECTED"
  /\ \/ /\ marker[t] # None /\ Authorized(cookie)
        /\ Restore(t, marker[t].request)
        /\ UNCHANGED <<cookie, marker>>
     \/ /\ marker[t] = None /\ Authorized(cookie)
        /\ Restore(t, Latest(cookie))
        /\ \/ UNCHANGED marker
           \/ /\ Latest(cookie) # 0
              /\ marker' = [marker EXCEPT ![t] = [scope |-> serving[t],
                                                  request |-> Latest(cookie)]]
        /\ UNCHANGED cookie
     \/ /\ ~Authorized(cookie)
        /\ page' = [page EXCEPT ![t] = "ACTIVATION"]
        /\ cookie' = 0
        /\ UNCHANGED <<held, started, checking, marker>>
  /\ UNCHANGED <<server, phones, call, serving, token, result, read, chosen,
                 told, history, bounds>>

Busy(t) == read[t] # None \/ checking[t]
Unresolved(t) == held[t] # 0 /\ result[t] = "NONE"
SelectEnabled(t) == page[t] = "SCANNER" /\ ~Busy(t) /\ ~Unresolved(t)
CanAcquire(t) ==
  /\ page[t] = "SCANNER" /\ chosen[t] /\ ~Busy(t)
  /\ result[t] = "NONE" /\ token[t] = None

(* The waiter selects a meal type.                                         *)
Choose(t) ==
  /\ SelectEnabled(t) /\ ~chosen[t]
  /\ chosen' = [chosen EXCEPT ![t] = TRUE]
  /\ UNCHANGED <<server, phones, call, cookie, page, serving, flow, read,
                 checking, marker, told, history, bounds>>

FreeCalls == {c \in Calls : call[c] = Idle}

(* The transport posts a read with the cookie of the moment.               *)
Post(t, r, q, restored) ==
  LET c == CHOOSE x \in FreeCalls : TRUE IN
  /\ FreeCalls # {}
  /\ call' = [call EXCEPT ![c] = [state |-> "SENT", request |-> r, token |-> q,
                                  cookie |-> cookie, scope |-> serving[t],
                                  answer |-> None]]
  /\ read' = [read EXCEPT ![t] = [call |-> c, restored |-> restored,
                                  again |-> started[t]]]
  /\ started' = [started EXCEPT ![t] = TRUE]

(* bind: a new id without a pending operation, the pending one's otherwise.*)
Bind(t, q, r) ==
  /\ r = IF held[t] = 0 THEN issued + 1 ELSE held[t]
  /\ r \in Requests
  /\ held' = [held EXCEPT ![t] = r]
  /\ token' = [token EXCEPT ![t] = q]
  /\ issued' = IF held[t] = 0 THEN r ELSE issued
  /\ born' = IF held[t] # 0 THEN born
             ELSE [born EXCEPT ![r] = [tab |-> t, scope |-> serving[t]]]

(* persist: the browser keeps the marker, or the waiter is told to keep    *)
(* the page open.                                                          *)
Persist(t, r) ==
  \/ /\ marker' = [marker EXCEPT ![t] = [scope |-> serving[t], request |-> r]]
     /\ UNCHANGED excused
  \/ /\ marker[t] = None
     /\ excused' = excused \cup {r}
     /\ UNCHANGED marker

(* read: a decoded image starts a serving, or repeats the pending one.     *)
Scan(t, q) ==
  /\ CanAcquire(t)
  /\ \E r \in Requests :
       /\ Bind(t, q, r)
       /\ Persist(t, r)
       /\ Post(t, r, q, held[t] # 0)
  /\ UNCHANGED <<server, phones, cookie, page, serving, result, checking,
                 chosen, told, bounds>>

(* The button "Retry same serving".                                        *)
Retry(t) ==
  /\ page[t] = "SCANNER" /\ Unresolved(t) /\ token[t] # None /\ ~Busy(t)
  /\ Post(t, held[t], token[t], FALSE)
  /\ UNCHANGED <<server, phones, cookie, page, serving, held, token, result,
                 checking, chosen, marker, told, history, bounds>>

(* finished: what the waiter is shown.  An acceptance that is not known to *)
(* be the first asks not to serve again.                                   *)
Show(t, approved, recovered) ==
  /\ result' = [result EXCEPT ![t] = IF approved THEN "ACCEPTED" ELSE "REJECTED"]
  /\ handed' = IF approved /\ ~recovered
               THEN [handed EXCEPT ![held[t]] = @ + 1] ELSE handed
  /\ refused' = IF approved THEN refused ELSE refused \cup {held[t]}

(* Mutants: PROCESSING_UNCONFIRMED counts as final; a malformed retry is   *)
(* neither final nor a mismatch.                                           *)
FinalUnconfirmed(answer, again) ==
  \/ answer \in {"APPROVED", "DUPLICATE", "REJECTED", "UNCONFIRMED"}
  \/ answer = "INVALID_QR" /\ ~again
MismatchByServer(answer) ==
  answer \in {"REQUEST_MISMATCH", "IDEMPOTENCY_KEY_REUSED"}

(* isFinalScanResult; a malformed QR is final for a first read only.       *)
Final(answer, again) ==
  \/ answer \in {"APPROVED", "DUPLICATE", "REJECTED"}
  \/ answer = "INVALID_QR" /\ ~again
Mismatch(answer) ==
  answer \in {"INVALID_QR", "REQUEST_MISMATCH", "IDEMPOTENCY_KEY_REUSED"}

(* receive and failedRequest                                               *)
Receives(t) ==
  /\ read[t] # None
  /\ call[read[t].call].state = "ANSWERED"
  /\ LET a == call[read[t].call].answer IN
     /\ \/ /\ Final(a, read[t].again)
           /\ Show(t, a \in {"APPROVED", "DUPLICATE"},
                   a = "DUPLICATE" \/ read[t].restored)
           /\ UNCHANGED <<token, checking>>
        \/ /\ ~Final(a, read[t].again)
           /\ token' = IF Mismatch(a) THEN [token EXCEPT ![t] = None] ELSE token
           /\ checking' = [checking EXCEPT ![t] = Mismatch(a)]
           /\ UNCHANGED <<result, told>>
     /\ cookie' = IF a = "SCANNER_ACTIVATION_REQUIRED" THEN 0
                  ELSE IF a = "CSRF_REJECTED" THEN CheckedCookie ELSE cookie
  /\ call' = [call EXCEPT ![read[t].call] = Idle]
  /\ read' = [read EXCEPT ![t] = None]
  /\ UNCHANGED <<server, phones, page, serving, held, started, chosen, marker,
                 history, bounds>>

(* The connection breaks; the read stays wherever it is.                   *)
Disconnect(t) ==
  /\ read[t] # None
  /\ Fault
  /\ read' = [read EXCEPT ![t] = None]
  /\ UNCHANGED <<server, phones, call, cookie, page, serving, flow, checking,
                 chosen, marker, told, history, scopes, reloads>>

(* The button "Check previous result", offered without a credential.       *)
Check(t) ==
  /\ page[t] = "SCANNER" /\ Unresolved(t) /\ token[t] = None /\ ~Busy(t)
  /\ checking' = [checking EXCEPT ![t] = TRUE]
  /\ UNCHANGED <<server, phones, call, cookie, page, serving, flow, read,
                 chosen, marker, told, history, bounds>>

(* recover: result answers with the decision to the browser the id is      *)
(* bound to; anything else leaves the serving unconfirmed.                 *)
Recover(t) ==
  /\ checking[t]
  /\ checking' = [checking EXCEPT ![t] = FALSE]
  /\ \/ /\ Authorized(cookie) /\ owner[held[t]] = cookie /\ Decided(held[t])
        /\ Show(t, ledger[held[t]].status = "SUCCEEDED", TRUE)
        /\ UNCHANGED <<cookie, faults>>
     \/ /\ ~(Authorized(cookie) /\ owner[held[t]] = cookie /\ Decided(held[t]))
        /\ cookie' = CheckedCookie
        /\ UNCHANGED <<result, told, faults>>
     \/ Fault /\ UNCHANGED <<cookie, result, told>>
  /\ UNCHANGED <<server, phones, call, page, serving, held, token, started,
                 read, chosen, marker, history, scopes, reloads>>

(* Mutant: the operation is reset without a result.                        *)
ResetAnyTime(t) ==
  /\ page[t] = "SCANNER" /\ held[t] # 0 /\ ~Busy(t)
  /\ marker' = [marker EXCEPT ![t] = None]
  /\ held' = [held EXCEPT ![t] = 0] /\ token' = [token EXCEPT ![t] = None]
  /\ result' = [result EXCEPT ![t] = "NONE"]
  /\ started' = [started EXCEPT ![t] = FALSE]
  /\ UNCHANGED <<server, phones, call, cookie, page, serving, read, checking,
                 chosen, told, history, bounds>>

(* Two seconds after a final result, once the marker is cleared.           *)
Reset(t) ==
  /\ page[t] = "SCANNER" /\ result[t] # "NONE" /\ ~Busy(t)
  /\ marker' = [marker EXCEPT ![t] = None]
  /\ held' = [held EXCEPT ![t] = 0] /\ token' = [token EXCEPT ![t] = None]
  /\ result' = [result EXCEPT ![t] = "NONE"]
  /\ started' = [started EXCEPT ![t] = FALSE]
  /\ UNCHANGED <<server, phones, call, cookie, page, serving, read, checking,
                 chosen, told, history, bounds>>

(* A new page in the same tab forgets everything but the marker.           *)
Forget(t) ==
  /\ reloads < MaxReloads /\ reloads' = reloads + 1
  /\ page' = [page EXCEPT ![t] = "STARTUP"]
  /\ held' = [held EXCEPT ![t] = 0] /\ token' = [token EXCEPT ![t] = None]
  /\ result' = [result EXCEPT ![t] = "NONE"]
  /\ started' = [started EXCEPT ![t] = FALSE]
  /\ read' = [read EXCEPT ![t] = None]
  /\ checking' = [checking EXCEPT ![t] = FALSE]
  /\ chosen' = [chosen EXCEPT ![t] = FALSE]
  /\ UNCHANGED <<server, phones, call, cookie, serving, told, born, issued,
                 scopes, faults>>

Reload(t) ==
  /\ page[t] = "SCANNER"
  /\ Forget(t)
  /\ UNCHANGED <<marker, excused>>

(* The tab is closed, or its storage cleared, and opened again.            *)
Reopen(t) ==
  /\ marker[t] # None
  /\ Forget(t)
  /\ marker' = [marker EXCEPT ![t] = None]
  /\ excused' = excused \cup {marker[t].request}

-----------------------------------------------------------------------------
ServerStep(c) == Reserve(c) \/ Receive(c) \/ Decide(c)

PageStep(t) ==
  \/ Connect(t) \/ Activate(t) \/ Load(t) \/ Choose(t) \/ Retry(t)
  \/ Receives(t) \/ Disconnect(t) \/ Check(t) \/ Recover(t) \/ Reset(t)
  \/ Reload(t) \/ Reopen(t) \/ \E q \in QRs : Scan(t, q)

Next ==
  \/ \E t \in Tabs : PageStep(t)
  \/ \E c \in Calls : ServerStep(c) \/ HandlerFails(c) \/ Vanish(c)
  \/ \E s \in Scopes : Revoke(s)

Spec == Init /\ [][Next]_vars

(* Reads under way are worked off or lost, answers are received, and the   *)
(* waiter keeps pressing the retry button that the page offers.            *)
Fairness ==
  /\ \A c \in Calls : WF_vars(ServerStep(c) \/ Vanish(c))
  /\ \A t \in Tabs : WF_vars(Receives(t) \/ Recover(t) \/ Retry(t))

FairSpec == Spec /\ Fairness

-----------------------------------------------------------------------------
(* Properties                                                              *)

(* What the waiter sees agrees with the meal record, also later: an        *)
(* accepted request has a meal, and one that was shown as rejected never   *)
(* gets one, although reads of it may still be under way (receive and      *)
(* isFinalScanResult against a late first read).                           *)
ShownIsTrue ==
  /\ \A t \in Tabs : result[t] = "ACCEPTED" => ledger[held[t]].status = "SUCCEEDED"
  /\ \A r \in refused : ledger[r].status # "SUCCEEDED"

(* No read under way can still turn into a meal.                           *)
Settled(r) ==
  \/ Decided(r)
  \/ /\ ledger[r] = NoRow
     /\ \A c \in Calls : call[c].request = r =>
          call[c].state = "ANSWERED" \/ call[c].token = Garbled

(* A tab creates a new request id only when its previous one can no longer *)
(* be served behind the waiter's back; the exceptions are ids whose marker *)
(* the browser could not keep, which the page says, or was made to clear.  *)
SettledBeforeNext ==
  \A r \in 1..issued, x \in 1..issued :
    r < x /\ born[r].tab = born[x].tab /\ r \notin excused => Settled(r)

(* An id is only ever bound to the browser identity whose page created it, *)
(* although the cookie may be replaced, revoked or deleted by another tab  *)
(* while a page or a read still uses the old one.                          *)
BoundToItsBrowser ==
  \A r \in Requests : owner[r] # 0 => owner[r] = born[r].scope

(* The client, the network and the mapping together keep the promise made  *)
(* to the waiter.                                                          *)
FateOf(r) ==
  IF ledger[r].status = "SUCCEEDED" THEN "served"
  ELSE IF ledger[r].status = "REJECTED" \/ r \in refused THEN "refused"
  ELSE "open"
Fate == [r \in Requests |-> FateOf(r)]

Promise == INSTANCE ScanPromise WITH
  Ids <- Requests, fate <- Fate, meals <- handed
ImplementsPromise == Promise!PromiseSpec

(* A page that still has the credential of an unconfirmed serving gets its *)
(* result, gives the credential up to look for the result, or is left;     *)
(* unless its phone was revoked or its cookie replaced.                    *)
Confirmed(t) ==
  \/ result[t] # "NONE" \/ token[t] = None
  \/ cookie # serving[t] \/ ~Authorized(cookie)
HeldServingConfirmed == \A t \in Tabs : token[t] # None ~> Confirmed(t)

(* "or requires the original QR to be read again with the same             *)
(* identifier" (README.md): a page without the credential of its           *)
(* unconfirmed serving lets the waiter read the QR, after selecting a meal *)
(* type if need be.                                                        *)
RescanPossible ==
  \A t \in Tabs :
    page[t] = "SCANNER" /\ Unresolved(t) /\ token[t] = None /\ ~Busy(t)
      => CanAcquire(t) \/ SelectEnabled(t)
=============================================================================
