--------------------------- MODULE TestDataReset ---------------------------
(***************************************************************************)
(* The test data reset of test_data_reset.py: an operator's command that   *)
(* empties the application's tables one by one, restores their next ids,   *)
(* and may delete the photos.  TRUNCATE commits on its own, so a run that  *)
(* stops part way leaves the database half wiped; a file in the output     *)
(* folder carries the original next ids and the photo keys to the rerun.   *)
(*                                                                         *)
(* The run order the command prints is kept: the applications are down     *)
(* while it runs.  They may be up again before a stopped run is repeated.  *)
(* One run at a time, one host, one database, one output folder.  The      *)
(* schema and the tables that are kept do not change during a run, so the  *)
(* comparison of guards and checksums is left out.                         *)
(***************************************************************************)
EXTENDS Naturals, Sequences

CONSTANTS
  Tables,          \* the tables that are emptied
  WipeTables,      \* and the order they are emptied in
  AuditEvents,     \* the one whose ids start again
  Keys, KeyTable,  \* photo keys, and the table whose rows record them
  OddKeys,         \* those that do not look like one of the application's
  Phones,
  MaxInserts, MaxStops,
  None             \* the absent value

PhoneStates == {"none", "code", "active", "revoked"}
Steps == {"idle", "file", "phones", "truncate", "alter", "audit", "verify",
          "objects", "complete"}

ASSUME ResetAssumption ==
  /\ AuditEvents \in Tables
  /\ WipeTables \in Seq(Tables)
  /\ \A t \in Tables : \E i \in 1..Len(WipeTables) : WipeTables[i] = t
  /\ KeyTable \in [Keys -> Tables] /\ OddKeys \subseteq Keys
  /\ MaxInserts \in Nat /\ MaxStops \in Nat
  /\ None \notin [Tables -> Nat]

VARIABLES
  up,         \* the applications run
  admin,      \* the operator's account is an active administrator
  phone,      \* scanner_phones
  rows,       \* how many rows each table has
  next,       \* its AUTO_INCREMENT
  recorded,   \* the keys its rows record
  event,      \* rows_removed of the TEST_DATA_RESET event, None without one
  object,     \* the photos in the object store
  file,       \* reset-state.json
  step, at,   \* where the run is, and the table it is at
  mem,        \* what the run has read and was asked for
  issued,     \* the greatest id a table ever gave a row
  halfway,    \* something was truncated since the last completed reset
  lost,       \* the keys the rows truncated since then recorded
  inserts, stops

database == <<admin, phone, rows, next, recorded, event>>
runner == <<step, at, mem>>
history == <<issued, halfway, lost>>
bounds == <<inserts, stops>>
vars == <<up, database, object, file, runner, history, bounds>>

Zero == [t \in Tables |-> 0]
Ones == [t \in Tables |-> 1]
NoFile == [whole |-> TRUE, completed |-> TRUE, counters |-> Ones, keys |-> {}]
TornFile == [NoFile EXCEPT !.whole = FALSE]
NoMem == [counts |-> Zero, counters |-> Ones, keys |-> {}, s3 |-> FALSE,
          keep |-> {}]

Init ==
  /\ up = TRUE /\ admin = TRUE
  /\ phone = [p \in Phones |-> "none"]
  /\ rows = Zero /\ next = Ones /\ recorded = {} /\ event = None
  /\ object = [k \in Keys |-> "new"]
  /\ file = NoFile
  /\ step = "idle" /\ at = 1 /\ mem = NoMem
  /\ issued = Zero /\ halfway = FALSE /\ lost = {}
  /\ inserts = 0 /\ stops = 0

-----------------------------------------------------------------------------
(* The applications                                                        *)

Larger(a, b) == IF a > b THEN a ELSE b

(* A row is inserted; a photo is stored before its row records the key.    *)
Insert(t) ==
  /\ up /\ inserts < MaxInserts
  /\ inserts' = inserts + 1
  /\ rows' = [rows EXCEPT ![t] = @ + 1]
  /\ next' = [next EXCEPT ![t] = @ + 1]
  /\ issued' = [issued EXCEPT ![t] = Larger(@, next[t])]
  /\ \/ UNCHANGED <<recorded, object>>
     \/ \E k \in Keys :
          /\ KeyTable[k] = t /\ object[k] = "new"
          /\ recorded' = recorded \cup {k}
          /\ object' = [object EXCEPT ![k] = "stored"]
  /\ UNCHANGED <<up, admin, phone, event, file, runner, halfway,
                 lost, stops>>

(* Codes are made, phones activated and revoked.                           *)
ChangePhone(p) ==
  /\ up
  /\ \/ phone[p] = "none" /\ phone' = [phone EXCEPT ![p] = "code"]
     \/ phone[p] = "code" /\ phone' = [phone EXCEPT ![p] = "active"]
     \/ phone[p] \in {"code", "active"}
        /\ phone' = [phone EXCEPT ![p] = "revoked"]
  /\ UNCHANGED <<up, admin, rows, next, recorded, event, object, file, runner,
                 history, bounds>>

ChangeOperator ==
  /\ up
  /\ admin' = ~admin
  /\ UNCHANGED <<up, phone, rows, next, recorded, event, object, file, runner,
                 history, bounds>>

(* docker compose stop, and up -d.                                         *)
SwitchApplications ==
  /\ step = "idle"
  /\ up' = ~up
  /\ UNCHANGED <<database, object, file, runner, history, bounds>>

-----------------------------------------------------------------------------
(* The run                                                                 *)

(* The file of a run that has not completed.                               *)
Saved == file.whole /\ ~file.completed

(* Mutant: a rerun that goes by the file alone.                            *)
MergedBySaved == [t \in Tables |-> IF Saved THEN file.counters[t] ELSE next[t]]
Merged ==
  [t \in Tables |-> IF Saved THEN Larger(next[t], file.counters[t])
                    ELSE next[t]]

KeysRecorded == recorded \ OddKeys
KeysToDelete ==
  (recorded \ OddKeys) \cup (IF Saved THEN file.keys ELSE {})

Preflight(keep) ==
  /\ admin
  /\ \A p \in keep : phone[p] = "active"

(* Mutant: an unused code is not a phone.                                  *)
RevokedActive ==
  [p \in Phones |-> IF phone[p] = "active" /\ p \notin mem.keep
                    THEN "revoked" ELSE phone[p]]
Revoked ==
  [p \in Phones |-> IF phone[p] \in {"code", "active"} /\ p \notin mem.keep
                    THEN "revoked" ELSE phone[p]]

(* Mutant: the photos go first.                                            *)
BeginWithObjects(s3, keep) ==
  /\ step = "idle" /\ ~up /\ Preflight(keep) /\ file.whole
  /\ step' = "file"
  /\ mem' = [counts |-> rows, counters |-> Merged, keys |-> KeysToDelete,
             s3 |-> s3, keep |-> keep]
  /\ object' = [k \in Keys |-> IF s3 /\ k \in KeysToDelete THEN "deleted"
                               ELSE object[k]]
  /\ UNCHANGED <<up, database, file, at, history, bounds>>

(* The operator has typed the confirmation.  A torn file cannot be parsed  *)
(* and ends the run here, as a refusal of _preflight does.                 *)
Begin(s3, keep) ==
  /\ step = "idle" /\ ~up
  /\ Preflight(keep) /\ file.whole
  /\ step' = "file"
  /\ mem' = [counts |-> rows, counters |-> Merged,
             keys |-> KeysToDelete,
             s3 |-> s3, keep |-> keep]
  /\ UNCHANGED <<up, database, object, file, at, history, bounds>>

(* write_text empties the file before it writes it.                        *)
OpenFile ==
  /\ step \in {"file", "complete"} /\ file.whole
  /\ file' = TornFile
  /\ UNCHANGED <<up, database, object, runner, history, bounds>>

WriteFile ==
  /\ step = "file" /\ ~file.whole
  /\ file' = [whole |-> TRUE, completed |-> FALSE, counters |-> mem.counters,
              keys |-> mem.keys]
  /\ step' = "phones"
  /\ UNCHANGED <<up, database, object, at, mem, history, bounds>>

RevokePhones ==
  /\ step = "phones"
  /\ phone' = Revoked
  /\ step' = "truncate" /\ at' = 1
  /\ UNCHANGED <<up, admin, rows, next, recorded, event, object, file, mem,
                 history, bounds>>

(* The step after the table at hand: the next table, or the next loop.     *)
Advance(done) ==
  IF at < Len(WipeTables) THEN at' = at + 1 /\ UNCHANGED step
  ELSE at' = 1 /\ step' = done

Truncate ==
  /\ step = "truncate"
  /\ LET t == WipeTables[at]
         gone == {k \in recorded : KeyTable[k] = t} IN
       /\ rows' = [rows EXCEPT ![t] = 0]
       /\ next' = [next EXCEPT ![t] = 1]
       /\ recorded' = recorded \ gone
       /\ event' = IF t = AuditEvents THEN None ELSE event
       /\ lost' = lost \cup gone
  /\ halfway' = TRUE
  /\ Advance("alter")
  /\ UNCHANGED <<up, admin, phone, object, file, mem, issued, bounds>>

Restores(t) == t # AuditEvents /\ mem.counters[t] > 1

RestoreCounter ==
  /\ step = "alter"
  /\ LET t == WipeTables[at] IN
       next' = IF Restores(t)
               THEN [next EXCEPT ![t] = Larger(@, mem.counters[t])] ELSE next
  /\ Advance("audit")
  /\ UNCHANGED <<up, admin, phone, rows, recorded, event, object, file, mem,
                 history, bounds>>

Audit ==
  /\ step = "audit"
  /\ rows' = [rows EXCEPT ![AuditEvents] = @ + 1]
  /\ next' = [next EXCEPT ![AuditEvents] = @ + 1]
  /\ event' = mem.counts
  /\ step' = "verify"
  /\ UNCHANGED <<up, admin, phone, recorded, object, file, at, mem, history,
                 bounds>>

(* A verification that fails ends the run.                                 *)
Verified ==
  /\ \A t \in Tables : rows[t] = IF t = AuditEvents THEN 1 ELSE 0
  /\ next[AuditEvents] = 2
  /\ admin

Verify ==
  /\ step = "verify"
  /\ \/ /\ Verified
        /\ step' = IF mem.s3 THEN "objects" ELSE "complete"
        /\ UNCHANGED mem
     \/ ~Verified /\ step' = "idle" /\ mem' = NoMem
  /\ UNCHANGED <<up, database, object, file, at, history, bounds>>

DeleteObject(k) ==
  /\ step = "objects" /\ k \in mem.keys \ OddKeys /\ object[k] = "stored"
  /\ object' = [object EXCEPT ![k] = "deleted"]
  /\ UNCHANGED <<up, database, file, runner, history, bounds>>

ObjectsDeleted ==
  /\ step = "objects"
  /\ \A k \in mem.keys \ OddKeys : object[k] # "stored"
  /\ step' = "complete"
  /\ UNCHANGED <<up, database, object, file, at, mem, history, bounds>>

(* The file's own content, marked completed.                               *)
Complete ==
  /\ step = "complete" /\ ~file.whole
  /\ file' = [whole |-> TRUE, completed |-> TRUE, counters |-> mem.counters,
              keys |-> mem.keys]
  /\ step' = "idle" /\ mem' = NoMem
  /\ halfway' = FALSE /\ lost' = {}
  /\ UNCHANGED <<up, database, object, at, issued, bounds>>

(* The process dies, the connection breaks, a statement or a call fails:   *)
(* a transaction that is open is rolled back, what was done stays done.    *)
Stop ==
  /\ step # "idle" /\ stops < MaxStops
  /\ stops' = stops + 1
  /\ step' = "idle" /\ mem' = NoMem
  /\ UNCHANGED <<up, database, object, file, at, history, inserts>>

Next ==
  \/ \E t \in Tables : Insert(t)
  \/ \E p \in Phones : ChangePhone(p)
  \/ ChangeOperator \/ SwitchApplications
  \/ \E s3 \in BOOLEAN, keep \in SUBSET Phones : Begin(s3, keep)
  \/ OpenFile \/ WriteFile \/ RevokePhones \/ Truncate \/ RestoreCounter
  \/ Audit \/ Verify \/ ObjectsDeleted \/ Complete \/ Stop
  \/ \E k \in Keys : DeleteObject(k)

Spec == Init /\ [][Next]_vars

-----------------------------------------------------------------------------
(* What a reset promises                                                   *)

(* Every variable keeps its type.                                          *)
TypeOK ==
  /\ up \in BOOLEAN /\ admin \in BOOLEAN
  /\ phone \in [Phones -> PhoneStates]
  /\ rows \in [Tables -> Nat] /\ next \in [Tables -> Nat \ {0}]
  /\ recorded \subseteq Keys /\ event \in [Tables -> Nat] \cup {None}
  /\ object \in [Keys -> {"new", "stored", "deleted"}]
  /\ file \in [whole : BOOLEAN, completed : BOOLEAN,
               counters : [Tables -> Nat], keys : SUBSET Keys]
  /\ step \in Steps /\ at \in Nat
  /\ mem \in [counts : [Tables -> Nat], counters : [Tables -> Nat],
              keys : SUBSET Keys, s3 : BOOLEAN, keep : SUBSET Phones]
  /\ issued \in [Tables -> Nat] /\ halfway \in BOOLEAN
  /\ lost \subseteq Keys
  /\ inserts \in 0..MaxInserts /\ stops \in 0..MaxStops

(* A photo that a row records is in the object store at every moment, also *)
(* while photos are deleted by a rerun that took its keys from the file of *)
(* an earlier run (_load_saved, _delete_s3).                               *)
RecordedIsStored == \A k \in recorded : object[k] = "stored"

(* However often a reset stopped part way and was run again, and whatever  *)
(* the applications recorded in between: once it has completed, a table    *)
(* gives no id it gave before.  Only the audit log starts again.           *)
IdsNeverReused ==
  ~halfway => \A t \in Tables \ {AuditEvents} : next[t] > issued[t]

(* From the first truncation to the end of the reset, the file has every   *)
(* photo key the truncated rows recorded, unless the process died while it *)
(* was writing the file, which leaves one that ends every rerun.           *)
KeysKept ==
  halfway /\ file.whole =>
    /\ ~file.completed
    /\ \A k \in lost \ OddKeys : object[k] = "stored" => k \in file.keys

(* A reset that completes has emptied every table, left no phone or code   *)
(* that works except those it was told to keep, and, if it was asked to    *)
(* delete the photos, deleted every one whose row it or one of the runs    *)
(* before it truncated.                                                    *)
ResetIsComplete ==
  [][halfway /\ ~halfway' =>
       /\ \A t \in Tables \ {AuditEvents} : rows[t] = 0
       /\ rows[AuditEvents] = 1 /\ event # None
       /\ \A p \in Phones : phone[p] \in {"code", "active"} => p \in mem.keep
       /\ mem.s3 => \A k \in lost \ OddKeys : object[k] = "deleted"]_vars

-----------------------------------------------------------------------------
(* Why it holds                                                            *)

Prepared == {"truncate", "alter", "audit", "verify", "objects", "complete"}
Emptied == {"alter", "audit", "verify", "objects", "complete"}
Restored == {"audit", "verify", "objects", "complete"}
Checked == {"objects", "complete"}
Photos == {k \in (recorded \cup lost) \ OddKeys : object[k] = "stored"}

(* The applications are down during a run, and it is at one of the tables. *)
RunAlone ==
  /\ step # "idle" => ~up
  /\ at >= 1 /\ (Len(WipeTables) > 0 => at <= Len(WipeTables))
  /\ step \in {"file", "phones"} \cup Prepared => \A k \in Photos : k \in mem.keys

(* What the file, or the run, carries from before the truncations.         *)
CountersCarried ==
  \A t \in Tables \ {AuditEvents} :
    /\ step # "idle" => mem.counters[t] > issued[t]
    /\ halfway /\ file.whole =>
         next[t] > issued[t] \/ file.counters[t] > issued[t]
    /\ step \in Restored => next[t] > issued[t]
    /\ step = "alter" =>
         \A i \in 1..at - 1 : WipeTables[i] = t => next[t] > issued[t]

FileTellsRun ==
  /\ step \in {"phones"} \cup Prepared =>
       IF file.whole
       THEN ~file.completed /\ file.counters = mem.counters
            /\ file.keys = mem.keys
       ELSE step = "complete"
  /\ ~halfway => lost = {}
  /\ \A k \in lost : object[k] # "new"
  /\ halfway /\ file.whole => ~file.completed

TablesEmptied ==
  /\ step = "truncate" =>
       \A i \in 1..at - 1 :
         /\ rows[WipeTables[i]] = 0
         /\ \A k \in recorded : KeyTable[k] # WipeTables[i]
  /\ step \in Emptied =>
       halfway /\ recorded = {}
         /\ \A t \in Tables : t # AuditEvents => rows[t] = 0
  /\ step \in {"alter", "audit"} => rows[AuditEvents] = 0
  /\ step \in {"verify"} \cup Checked => rows[AuditEvents] = 1 /\ event # None

PhonesRevoked ==
  step \in Prepared =>
    \A p \in Phones : phone[p] \in {"code", "active"} => p \in mem.keep

ObjectsGone ==
  step = "complete" /\ mem.s3 =>
    \A k \in lost \ OddKeys : object[k] = "deleted"

(* The inductive invariant.                                                *)
ResetInv ==
  /\ TypeOK /\ RecordedIsStored /\ IdsNeverReused /\ KeysKept
  /\ RunAlone /\ CountersCarried /\ FileTellsRun /\ TablesEmptied
  /\ PhonesRevoked /\ ObjectsGone

=============================================================================
