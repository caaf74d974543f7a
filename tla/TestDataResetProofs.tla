------------------------ MODULE TestDataResetProofs ------------------------
(***************************************************************************)
(* Proofs about TestDataReset.  ResetInv is inductive: every action keeps  *)
(* it, one lemma per action.                                               *)
(***************************************************************************)
EXTENDS TestDataReset, TLAPS

LEMMA LargerFact ==
  ASSUME NEW a \in Nat, NEW b \in Nat
  PROVE Larger(a, b) \in Nat /\ Larger(a, b) >= a /\ Larger(a, b) >= b
BY DEF Larger

LEMMA InitInv == Init => ResetInv
<1> SUFFICES ASSUME Init PROVE ResetInv OBVIOUS
<1> USE DEF Zero, Ones, NoFile, NoMem
<1>0. MaxInserts \in Nat /\ MaxStops \in Nat BY ResetAssumption
<1>1. TypeOK
  <2>1. file \in [whole : BOOLEAN, completed : BOOLEAN,
                  counters : [Tables -> Nat], keys : SUBSET Keys]
    BY DEF Init
  <2>2. mem \in [counts : [Tables -> Nat], counters : [Tables -> Nat],
                 keys : SUBSET Keys, s3 : BOOLEAN, keep : SUBSET Phones]
    BY DEF Init
  <2>3. rows \in [Tables -> Nat] /\ next \in [Tables -> Nat \ {0}]
        /\ issued \in [Tables -> Nat]
    BY DEF Init
  <2>4. step \in Steps /\ at \in Nat /\ phone \in [Phones -> PhoneStates]
    BY DEF Init, Steps, PhoneStates
  <2>5. inserts \in 0..MaxInserts /\ stops \in 0..MaxStops BY <1>0 DEF Init
  <2>6. /\ up \in BOOLEAN /\ admin \in BOOLEAN /\ halfway \in BOOLEAN
        /\ recorded \subseteq Keys /\ lost \subseteq Keys
        /\ event \in [Tables -> Nat] \cup {None}
        /\ object \in [Keys -> {"new", "stored", "deleted"}]
    BY DEF Init
  <2> QED BY <2>1, <2>2, <2>3, <2>4, <2>5, <2>6 DEF TypeOK
<1>2. RecordedIsStored BY DEF Init, RecordedIsStored
<1>3. IdsNeverReused
  <2>1. ASSUME NEW t \in Tables PROVE next[t] > issued[t]
    <3>1. next[t] = 1 /\ issued[t] = 0 BY DEF Init
    <3> QED BY <3>1, 1 > 0
  <2> QED BY <2>1 DEF IdsNeverReused
<1>4. KeysKept BY DEF Init, KeysKept
<1>5. RunAlone
  <2>1. Len(WipeTables) \in Nat BY ResetAssumption
  <2> QED BY <2>1 DEF Init, RunAlone, Photos, Prepared
<1>6. CountersCarried BY DEF Init, CountersCarried, Restored
<1>7. FileTellsRun BY DEF Init, FileTellsRun, Prepared
<1>8. TablesEmptied BY DEF Init, TablesEmptied, Emptied, Checked
<1>9. PhonesRevoked BY DEF Init, PhonesRevoked, Prepared
<1>10. ObjectsGone BY DEF Init, ObjectsGone
<1> QED BY <1>1, <1>2, <1>3, <1>4, <1>5, <1>6, <1>7, <1>8, <1>9, <1>10 DEF ResetInv

LEMMA InsertInv ==
  ASSUME ResetInv, NEW t \in Tables, Insert(t) PROVE ResetInv'
<1> USE DEF ResetInv
<1>0. /\ up /\ step = "idle" /\ inserts < MaxInserts /\ inserts' = inserts + 1
      /\ rows' = [rows EXCEPT ![t] = @ + 1]
      /\ next' = [next EXCEPT ![t] = @ + 1]
      /\ issued' = [issued EXCEPT ![t] = Larger(@, next[t])]
      /\ UNCHANGED <<up, admin, phone, event, file, halfway, lost, stops>>
      /\ UNCHANGED <<step, at, mem>>
  BY DEF Insert, runner, RunAlone
<1>1. \/ recorded' = recorded /\ object' = object
      \/ \E k \in Keys : /\ KeyTable[k] = t /\ object[k] = "new"
                         /\ recorded' = recorded \cup {k}
                         /\ object' = [object EXCEPT ![k] = "stored"]
  BY DEF Insert
<1>2. TypeOK'
  <2>1. Larger(issued[t], next[t]) \in Nat BY LargerFact DEF TypeOK
  <2>2. rows' \in [Tables -> Nat] /\ next' \in [Tables -> Nat \ {0}] /\ issued' \in [Tables -> Nat]
    BY <1>0, <2>1 DEF TypeOK
  <2>3. recorded' \subseteq Keys /\ object' \in [Keys -> {"new", "stored", "deleted"}]
    BY <1>1 DEF TypeOK
  <2>4. inserts' \in 0..MaxInserts BY <1>0, ResetAssumption DEF TypeOK
  <2> QED BY <1>0, <2>2, <2>3, <2>4 DEF TypeOK
<1>3. RecordedIsStored' BY <1>1 DEF RecordedIsStored, TypeOK
<1>4. \A u \in Tables : next[u] > issued[u] => next'[u] > issued'[u]
  BY <1>0 DEF Larger, TypeOK
<1>5. IdsNeverReused' BY <1>0, <1>4 DEF IdsNeverReused
<1>6. \A k \in lost \ OddKeys : object'[k] = "stored" => object[k] = "stored" \/ k \in recorded'
  BY <1>1 DEF TypeOK
<1>7. KeysKept' BY <1>0, <1>1 DEF KeysKept, FileTellsRun, TypeOK
<1>8. RunAlone' BY <1>0 DEF RunAlone, Prepared
<1>9. CountersCarried' BY <1>0, <1>4 DEF CountersCarried, Restored, TypeOK, Larger
<1>10. FileTellsRun' BY <1>0, <1>1 DEF FileTellsRun, TypeOK, Prepared
<1>11. TablesEmptied' BY <1>0 DEF TablesEmptied, Emptied, Checked
<1>12. PhonesRevoked' BY <1>0 DEF PhonesRevoked, Prepared
<1>13. ObjectsGone' BY <1>0 DEF ObjectsGone
<1> QED BY <1>2, <1>3, <1>5, <1>7, <1>8, <1>9, <1>10, <1>11, <1>12, <1>13

LEMMA ChangePhoneInv ==
  ASSUME ResetInv, NEW p \in Phones, ChangePhone(p) PROVE ResetInv'
<1> USE DEF ResetInv
<1>0. /\ step = "idle" /\ phone' \in [Phones -> PhoneStates]
      /\ UNCHANGED <<up, admin, rows, next, recorded, event, object, file, step,
                     at, mem, issued, halfway, lost, inserts, stops>>
  BY DEF ChangePhone, RunAlone, TypeOK, PhoneStates, runner, history, bounds
<1>1. TypeOK' BY <1>0 DEF TypeOK
<1>2. RecordedIsStored' BY <1>0 DEF RecordedIsStored
<1>3. IdsNeverReused' BY <1>0 DEF IdsNeverReused
<1>4. KeysKept' BY <1>0 DEF KeysKept
<1>5. RunAlone' BY <1>0 DEF RunAlone, Photos, Prepared
<1>6. CountersCarried' BY <1>0 DEF CountersCarried, Restored
<1>7. FileTellsRun' BY <1>0 DEF FileTellsRun, Prepared
<1>8. TablesEmptied' BY <1>0 DEF TablesEmptied, Emptied, Checked
<1>9. PhonesRevoked' BY <1>0 DEF PhonesRevoked, Prepared
<1>10. ObjectsGone' BY <1>0 DEF ObjectsGone
<1> QED BY <1>1, <1>2, <1>3, <1>4, <1>5, <1>6, <1>7, <1>8, <1>9, <1>10

LEMMA ChangeOperatorInv ==
  ASSUME ResetInv, ChangeOperator PROVE ResetInv'
<1> USE DEF ResetInv
<1>0. /\ admin' \in BOOLEAN
      /\ UNCHANGED <<up, phone, rows, next, recorded, event, object, file, step,
                     at, mem, issued, halfway, lost, inserts, stops>>
  BY DEF ChangeOperator, TypeOK, runner, history, bounds
<1>1. TypeOK' BY <1>0 DEF TypeOK
<1>2. RecordedIsStored' BY <1>0 DEF RecordedIsStored
<1>3. IdsNeverReused' BY <1>0 DEF IdsNeverReused
<1>4. KeysKept' BY <1>0 DEF KeysKept
<1>5. RunAlone' BY <1>0 DEF RunAlone, Photos, Prepared
<1>6. CountersCarried' BY <1>0 DEF CountersCarried, Restored
<1>7. FileTellsRun' BY <1>0 DEF FileTellsRun, Prepared
<1>8. TablesEmptied' BY <1>0 DEF TablesEmptied, Emptied, Checked
<1>9. PhonesRevoked' BY <1>0 DEF PhonesRevoked, Prepared
<1>10. ObjectsGone' BY <1>0 DEF ObjectsGone
<1> QED BY <1>1, <1>2, <1>3, <1>4, <1>5, <1>6, <1>7, <1>8, <1>9, <1>10

LEMMA SwitchApplicationsInv ==
  ASSUME ResetInv, SwitchApplications PROVE ResetInv'
<1> USE DEF ResetInv
<1>0. /\ step = "idle" /\ up' \in BOOLEAN
      /\ UNCHANGED <<admin, phone, rows, next, recorded, event, object, file, step,
                     at, mem, issued, halfway, lost, inserts, stops>>
  BY DEF SwitchApplications, TypeOK, database, runner, history, bounds
<1>1. TypeOK' BY <1>0 DEF TypeOK
<1>2. RecordedIsStored' BY <1>0 DEF RecordedIsStored
<1>3. IdsNeverReused' BY <1>0 DEF IdsNeverReused
<1>4. KeysKept' BY <1>0 DEF KeysKept
<1>5. RunAlone' BY <1>0 DEF RunAlone, Photos, Prepared
<1>6. CountersCarried' BY <1>0 DEF CountersCarried, Restored
<1>7. FileTellsRun' BY <1>0 DEF FileTellsRun, Prepared
<1>8. TablesEmptied' BY <1>0 DEF TablesEmptied, Emptied, Checked
<1>9. PhonesRevoked' BY <1>0 DEF PhonesRevoked, Prepared
<1>10. ObjectsGone' BY <1>0 DEF ObjectsGone
<1> QED BY <1>1, <1>2, <1>3, <1>4, <1>5, <1>6, <1>7, <1>8, <1>9, <1>10

LEMMA BeginInv ==
  ASSUME ResetInv, NEW s3 \in BOOLEAN, NEW keep \in SUBSET Phones,
         Begin(s3, keep) PROVE ResetInv'
<1> USE DEF ResetInv
<1>0. /\ step = "idle" /\ ~up /\ file.whole /\ step' = "file"
      /\ mem' = [counts |-> rows, counters |-> Merged, keys |-> KeysToDelete,
                 s3 |-> s3, keep |-> keep]
      /\ UNCHANGED <<up, admin, phone, rows, next, recorded, event, object, file,
                     at, issued, halfway, lost, inserts, stops>>
  BY DEF Begin, database, history, bounds
<1>1. TypeOK'
  <2>1. Merged \in [Tables -> Nat] BY LargerFact DEF Merged, TypeOK
  <2>2. KeysToDelete \subseteq Keys BY DEF KeysToDelete, TypeOK
  <2>3. mem' \in [counts : [Tables -> Nat], counters : [Tables -> Nat],
                  keys : SUBSET Keys, s3 : BOOLEAN, keep : SUBSET Phones]
    BY <1>0, <2>1, <2>2 DEF TypeOK
  <2> QED BY <1>0, <2>3 DEF TypeOK, Steps
<1>2. RecordedIsStored' BY <1>0 DEF RecordedIsStored
<1>3. IdsNeverReused' BY <1>0 DEF IdsNeverReused
<1>4. KeysKept' BY <1>0 DEF KeysKept
<1>5. RunAlone'
  <2>1. Photos \subseteq KeysToDelete
    BY <1>0 DEF Photos, KeysToDelete, KeysKept, FileTellsRun, Saved, TypeOK
  <2> QED BY <1>0, <2>1 DEF RunAlone, Photos
<1>6. CountersCarried'
  <2>1. ASSUME NEW t \in Tables \ {AuditEvents} PROVE Merged[t] > issued[t]
    <3>1. next[t] > issued[t] \/ (halfway /\ file.counters[t] > issued[t])
      BY <1>0 DEF CountersCarried, IdsNeverReused
    <3>2. next[t] \in Nat /\ issued[t] \in Nat /\ file.counters[t] \in Nat
      BY DEF TypeOK
    <3>3. halfway => Saved BY <1>0 DEF Saved, FileTellsRun
    <3>4. Merged[t] = IF Saved THEN Larger(next[t], file.counters[t]) ELSE next[t]
      BY DEF Merged
    <3> QED BY <3>1, <3>2, <3>3, <3>4 DEF Larger
  <2> QED BY <1>0, <2>1 DEF CountersCarried, Restored
<1>7. FileTellsRun' BY <1>0 DEF FileTellsRun, Prepared
<1>8. TablesEmptied' BY <1>0 DEF TablesEmptied, Emptied, Checked
<1>9. PhonesRevoked' BY <1>0 DEF PhonesRevoked, Prepared
<1>10. ObjectsGone' BY <1>0 DEF ObjectsGone
<1> QED BY <1>1, <1>2, <1>3, <1>4, <1>5, <1>6, <1>7, <1>8, <1>9, <1>10

LEMMA OpenFileInv ==
  ASSUME ResetInv, OpenFile PROVE ResetInv'
<1> USE DEF ResetInv
<1>0. /\ step \in {"file", "complete"} /\ file.whole /\ file' = TornFile /\ ~file'.whole
      /\ UNCHANGED <<up, admin, phone, rows, next, recorded, event, object, step,
                     at, mem, issued, halfway, lost, inserts, stops>>
  BY DEF OpenFile, TornFile, NoFile, database, runner, history, bounds
<1>1. TypeOK'
  <2>1. file' \in [whole : BOOLEAN, completed : BOOLEAN,
                   counters : [Tables -> Nat], keys : SUBSET Keys]
    BY <1>0 DEF TornFile, NoFile, Ones
  <2> QED BY <1>0, <2>1 DEF TypeOK
<1>2. RecordedIsStored' BY <1>0 DEF RecordedIsStored
<1>3. IdsNeverReused' BY <1>0 DEF IdsNeverReused
<1>4. KeysKept' BY <1>0 DEF KeysKept
<1>5. RunAlone' BY <1>0 DEF RunAlone, Photos, Prepared
<1>6. CountersCarried' BY <1>0 DEF CountersCarried, Restored
<1>7. FileTellsRun' BY <1>0 DEF FileTellsRun, Prepared
<1>8. TablesEmptied' BY <1>0 DEF TablesEmptied, Emptied, Checked
<1>9. PhonesRevoked' BY <1>0 DEF PhonesRevoked, Prepared
<1>10. ObjectsGone' BY <1>0 DEF ObjectsGone
<1> QED BY <1>1, <1>2, <1>3, <1>4, <1>5, <1>6, <1>7, <1>8, <1>9, <1>10

LEMMA WriteFileInv ==
  ASSUME ResetInv, WriteFile PROVE ResetInv'
<1> USE DEF ResetInv
<1>0. /\ step = "file" /\ step' = "phones"
      /\ file' = [whole |-> TRUE, completed |-> FALSE, counters |-> mem.counters,
                  keys |-> mem.keys]
      /\ UNCHANGED <<up, admin, phone, rows, next, recorded, event, object,
                     at, mem, issued, halfway, lost, inserts, stops>>
  BY DEF WriteFile, database, history, bounds
<1>1. TypeOK' BY <1>0 DEF TypeOK, Steps
<1>2. RecordedIsStored' BY <1>0 DEF RecordedIsStored
<1>3. IdsNeverReused' BY <1>0 DEF IdsNeverReused
<1>4. KeysKept' BY <1>0 DEF KeysKept, RunAlone, Photos, FileTellsRun, TypeOK
<1>5. RunAlone' BY <1>0 DEF RunAlone, Photos, Prepared
<1>6. CountersCarried' BY <1>0 DEF CountersCarried, Restored
<1>7. FileTellsRun' BY <1>0 DEF FileTellsRun, Prepared
<1>8. TablesEmptied' BY <1>0 DEF TablesEmptied, Emptied, Checked
<1>9. PhonesRevoked' BY <1>0 DEF PhonesRevoked, Prepared
<1>10. ObjectsGone' BY <1>0 DEF ObjectsGone
<1> QED BY <1>1, <1>2, <1>3, <1>4, <1>5, <1>6, <1>7, <1>8, <1>9, <1>10

LEMMA RevokePhonesInv ==
  ASSUME ResetInv, RevokePhones PROVE ResetInv'
<1> USE DEF ResetInv
<1>0. /\ step = "phones" /\ step' = "truncate" /\ at' = 1 /\ phone' = Revoked
      /\ UNCHANGED <<up, admin, rows, next, recorded, event, object, file,
                     mem, issued, halfway, lost, inserts, stops>>
  BY DEF RevokePhones, history, bounds
<1>1. TypeOK' BY <1>0 DEF TypeOK, Steps, Revoked, PhoneStates
<1>2. RecordedIsStored' BY <1>0 DEF RecordedIsStored
<1>3. IdsNeverReused' BY <1>0 DEF IdsNeverReused
<1>4. KeysKept' BY <1>0 DEF KeysKept
<1>5. RunAlone'
  <2>1. Len(WipeTables) \in Nat BY ResetAssumption
  <2> QED BY <1>0, <2>1 DEF RunAlone, Photos, Prepared
<1>6. CountersCarried' BY <1>0 DEF CountersCarried, Restored
<1>7. FileTellsRun' BY <1>0 DEF FileTellsRun, Prepared
<1>8. TablesEmptied' BY <1>0 DEF TablesEmptied, Emptied, Checked
<1>9. PhonesRevoked' BY <1>0 DEF PhonesRevoked, Revoked, TypeOK
<1>10. ObjectsGone' BY <1>0 DEF ObjectsGone
<1> QED BY <1>1, <1>2, <1>3, <1>4, <1>5, <1>6, <1>7, <1>8, <1>9, <1>10

LEMMA TruncateInv ==
  ASSUME ResetInv, Truncate PROVE ResetInv'
<1> USE DEF ResetInv
<1>0. /\ step = "truncate" /\ halfway' = TRUE /\ Advance("alter")
      /\ rows' = [rows EXCEPT ![WipeTables[at]] = 0]
      /\ next' = [next EXCEPT ![WipeTables[at]] = 1]
      /\ recorded' = recorded \ {k \in recorded : KeyTable[k] = WipeTables[at]}
      /\ event' = IF WipeTables[at] = AuditEvents THEN None ELSE event
      /\ lost' = lost \cup {k \in recorded : KeyTable[k] = WipeTables[at]}
      /\ UNCHANGED <<up, admin, phone, object, file,
                     mem, issued, inserts, stops>>
  BY DEF Truncate, bounds
<1>a. at \in 1..Len(WipeTables) /\ WipeTables[at] \in Tables
  <2>1. \E i \in 1..Len(WipeTables) : WipeTables[i] = AuditEvents
    BY ResetAssumption
  <2>2. Len(WipeTables) \in Nat BY ResetAssumption
  <2>3. at \in 1..Len(WipeTables) BY <2>1, <2>2 DEF RunAlone, TypeOK
  <2> QED BY <2>3, ResetAssumption
<1>b. at' \in Nat /\ step' \in Steps
      /\ at' \in 1..Len(WipeTables)
      /\ (step' = step => at' = at + 1)
      /\ (step' # step => at = Len(WipeTables) /\ step' = "alter" /\ at' = 1)
  <2>1. Len(WipeTables) \in Nat BY ResetAssumption
  <2>2. CASE at < Len(WipeTables)
    <3>1. at' = at + 1 /\ step' = step BY <1>0, <2>2 DEF Advance
    <3> QED BY <1>0, <1>a, <2>1, <2>2, <3>1 DEF Steps
  <2>3. CASE ~(at < Len(WipeTables))
    <3>1. at' = 1 /\ step' = "alter" BY <1>0, <2>3 DEF Advance
    <3>2. at = Len(WipeTables) BY <1>a, <2>1, <2>3
    <3> QED BY <1>0, <1>a, <2>1, <3>1, <3>2 DEF Steps
  <2> QED BY <2>2, <2>3
<1>1. TypeOK'
  <2>a. rows' \in [Tables -> Nat] BY <1>0, <1>a DEF TypeOK
  <2>b. next' \in [Tables -> Nat \ {0}] BY <1>0, <1>a, 1 \in Nat \ {0} DEF TypeOK
  <2>2. event' \in [Tables -> Nat] \cup {None} BY <1>0 DEF TypeOK
  <2>3. recorded' \subseteq Keys /\ lost' \subseteq Keys BY <1>0 DEF TypeOK
  <2> QED BY <1>0, <1>b, <2>a, <2>b, <2>2, <2>3 DEF TypeOK
<1>2. RecordedIsStored' BY <1>0, <1>a, <1>b DEF RecordedIsStored
<1>3. IdsNeverReused' BY <1>0, <1>a, <1>b DEF IdsNeverReused
<1>4. KeysKept' BY <1>0 DEF KeysKept, RunAlone, Photos, FileTellsRun, Prepared, TypeOK
<1>5. RunAlone'
  <2>1. Len(WipeTables) \in Nat BY ResetAssumption
  <2>2. Photos' = Photos BY <1>0 DEF Photos
  <2> QED BY <1>0, <1>a, <1>b, <2>1, <2>2 DEF RunAlone, Prepared, TypeOK
<1>6. CountersCarried'
  <2>1. file'.whole => file'.counters = mem.counters BY <1>0 DEF FileTellsRun, Prepared
  <2>2. step' \notin Restored \cup {"idle"} /\ step # "idle" /\ at' >= 1
    BY <1>0, <1>a, <1>b DEF Restored
  <2>3. step' = "alter" => at' = 1 BY <1>0, <1>b
  <2> QED BY <1>0, <2>1, <2>2, <2>3 DEF CountersCarried, FileTellsRun, Prepared
<1>7. FileTellsRun'
  <2>1. \A k \in lost' : object[k] # "new" BY <1>0 DEF FileTellsRun, RecordedIsStored
  <2> QED BY <1>0, <1>b, <2>1 DEF FileTellsRun, Prepared
<1>8. TablesEmptied'
  <2>1. ASSUME NEW i \in 1..at
        PROVE /\ rows'[WipeTables[i]] = 0
              /\ \A k \in recorded' : KeyTable[k] # WipeTables[i]
    <3>1. CASE i = at BY <1>0, <1>a, <3>1 DEF TypeOK
    <3>2. CASE i # at
      <4>1. i \in 1..at - 1 BY <3>2, <1>a
      <4>2. i \in 1..Len(WipeTables) BY <1>a, ResetAssumption
      <4>3. WipeTables[i] \in Tables BY <4>2, ResetAssumption
      <4> QED BY <1>0, <1>a, <4>1, <4>3 DEF TypeOK, TablesEmptied
    <3> QED BY <3>1, <3>2
  <2>2. CASE step' = "truncate"
    <3>1. at' - 1 = at BY <1>0, <1>a, <1>b, <2>2
    <3> QED BY <2>1, <2>2, <3>1 DEF TablesEmptied, Emptied, Checked
  <2>3. CASE step' # "truncate"
    <3>1. step' = "alter" /\ at = Len(WipeTables) BY <1>0, <1>b, <2>3
    <3>2. \A t \in Tables : rows'[t] = 0 /\ \A k \in recorded' : KeyTable[k] # t
      BY <2>1, <3>1, ResetAssumption
    <3>3. recorded' = {} BY <3>2, <1>0, ResetAssumption DEF TypeOK
    <3>4. AuditEvents \in Tables BY ResetAssumption
    <3> QED BY <1>0, <3>1, <3>2, <3>3, <3>4 DEF TablesEmptied, Emptied, Checked
  <2> QED BY <2>2, <2>3
<1>9. PhonesRevoked' BY <1>0, <1>a, <1>b DEF PhonesRevoked, Prepared
<1>10. ObjectsGone' BY <1>0, <1>a, <1>b DEF ObjectsGone
<1> QED BY <1>1, <1>2, <1>3, <1>4, <1>5, <1>6, <1>7, <1>8, <1>9, <1>10

LEMMA RestoreCounterInv ==
  ASSUME ResetInv, RestoreCounter PROVE ResetInv'
<1> USE DEF ResetInv
<1>0. /\ step = "alter" /\ Advance("audit")
      /\ next' = IF Restores(WipeTables[at])
                 THEN [next EXCEPT ![WipeTables[at]] =
                                     Larger(@, mem.counters[WipeTables[at]])]
                 ELSE next
      /\ UNCHANGED <<up, admin, phone, rows, recorded, event, object, file,
                     mem, issued, halfway, lost, inserts, stops>>
  BY DEF RestoreCounter, history, bounds
<1>a. at \in 1..Len(WipeTables) /\ WipeTables[at] \in Tables
  <2>1. \E i \in 1..Len(WipeTables) : WipeTables[i] = AuditEvents
    BY ResetAssumption
  <2>2. Len(WipeTables) \in Nat BY ResetAssumption
  <2>3. at \in 1..Len(WipeTables) BY <2>1, <2>2 DEF RunAlone, TypeOK
  <2> QED BY <2>3, ResetAssumption
<1>b. at' \in Nat /\ step' \in Steps
      /\ at' \in 1..Len(WipeTables)
      /\ (step' = step => at' = at + 1)
      /\ (step' # step => at = Len(WipeTables) /\ step' = "audit" /\ at' = 1)
  <2>1. Len(WipeTables) \in Nat BY ResetAssumption
  <2>2. CASE at < Len(WipeTables)
    <3>1. at' = at + 1 /\ step' = step BY <1>0, <2>2 DEF Advance
    <3> QED BY <1>0, <1>a, <2>1, <2>2, <3>1 DEF Steps
  <2>3. CASE ~(at < Len(WipeTables))
    <3>1. at' = 1 /\ step' = "audit" BY <1>0, <2>3 DEF Advance
    <3>2. at = Len(WipeTables) BY <1>a, <2>1, <2>3
    <3> QED BY <1>0, <1>a, <2>1, <3>1, <3>2 DEF Steps
  <2> QED BY <2>2, <2>3
<1>c. /\ next' \in [Tables -> Nat \ {0}]
      /\ \A t \in Tables : next'[t] >= next[t]
      /\ Restores(WipeTables[at]) =>
           next'[WipeTables[at]] >= mem.counters[WipeTables[at]]
  <2>1. Larger(next[WipeTables[at]], mem.counters[WipeTables[at]]) \in Nat \ {0}
    BY <1>a DEF TypeOK, Larger
  <2>2. Larger(next[WipeTables[at]], mem.counters[WipeTables[at]]) >= next[WipeTables[at]]
        /\ Larger(next[WipeTables[at]], mem.counters[WipeTables[at]])
             >= mem.counters[WipeTables[at]]
    BY <1>a, LargerFact DEF TypeOK
  <2>3. CASE Restores(WipeTables[at])
    <3>1. next' = [next EXCEPT ![WipeTables[at]] =
                     Larger(next[WipeTables[at]], mem.counters[WipeTables[at]])]
      BY <1>0, <2>3
    <3>2. next' \in [Tables -> Nat \ {0}] BY <1>a, <2>1, <3>1 DEF TypeOK
    <3>3. \A t \in Tables : next[t] \in Nat BY DEF TypeOK
    <3>4. \A t \in Tables : t # WipeTables[at] => next'[t] = next[t]
      BY <3>1 DEF TypeOK
    <3>5. next'[WipeTables[at]] =
            Larger(next[WipeTables[at]], mem.counters[WipeTables[at]])
      BY <1>a, <3>1 DEF TypeOK
    <3> QED BY <2>2, <3>2, <3>3, <3>4, <3>5
  <2>4. CASE ~Restores(WipeTables[at])
    <3>1. next' = next BY <1>0, <2>4
    <3>2. \A t \in Tables : next[t] >= next[t] BY DEF TypeOK
    <3> QED BY <2>4, <3>1, <3>2 DEF TypeOK
  <2> QED BY <2>3, <2>4
<1>1. TypeOK' BY <1>0, <1>b, <1>c DEF TypeOK
<1>2. RecordedIsStored' BY <1>0, <1>a, <1>b DEF RecordedIsStored
<1>3. IdsNeverReused' BY <1>0, <1>c DEF IdsNeverReused, TypeOK
<1>4. KeysKept' BY <1>0, <1>a, <1>b DEF KeysKept
<1>5. RunAlone'
  <2>1. Len(WipeTables) \in Nat BY ResetAssumption
  <2>2. Photos' = Photos BY <1>0 DEF Photos
  <2> QED BY <1>0, <1>a, <1>b, <2>1, <2>2 DEF RunAlone, Prepared, TypeOK
<1>6. CountersCarried'
  <2> SUFFICES ASSUME NEW t \in Tables \ {AuditEvents}
      PROVE /\ mem.counters[t] > issued[t]
            /\ halfway /\ file.whole =>
                 next'[t] > issued[t] \/ file.counters[t] > issued[t]
            /\ step' = "audit" => next'[t] > issued[t]
            /\ step' = "alter" =>
                 \A i \in 1..at' - 1 : WipeTables[i] = t => next'[t] > issued[t]
    BY <1>0, <1>b DEF CountersCarried, Restored
  <2>1. /\ next[t] \in Nat /\ next'[t] \in Nat /\ next'[t] >= next[t]
        /\ issued[t] \in Nat /\ mem.counters[t] \in Nat
    BY <1>c DEF TypeOK
  <2>2. /\ mem.counters[t] > issued[t]
        /\ halfway /\ file.whole =>
             next[t] > issued[t] \/ file.counters[t] > issued[t]
        /\ \A i \in 1..at - 1 : WipeTables[i] = t => next[t] > issued[t]
    BY <1>0 DEF CountersCarried
  <2>3. ASSUME NEW i \in 1..at, WipeTables[i] = t PROVE next'[t] > issued[t]
    <3>1. CASE i = at
      <4>1. CASE Restores(t) BY <1>c, <2>1, <2>2, <2>3, <3>1, <4>1
      <4>2. CASE ~Restores(t)
        <5>1. issued[t] = 0 BY <2>1, <2>2, <4>2 DEF Restores
        <5>2. next'[t] > 0 BY <1>c
        <5> QED BY <5>1, <5>2
      <4> QED BY <4>1, <4>2
    <3>2. CASE i # at
      <4>1. i \in 1..at - 1 BY <3>2, <1>a
      <4> QED BY <2>1, <2>2, <2>3, <4>1
    <3> QED BY <3>1, <3>2
  <2>4. step' = "audit" => next'[t] > issued[t]
    <3> SUFFICES ASSUME step' = "audit" PROVE next'[t] > issued[t] OBVIOUS
    <3>1. at = Len(WipeTables) BY <1>0, <1>b
    <3>2. PICK i \in 1..at : WipeTables[i] = t BY <3>1, ResetAssumption
    <3> QED BY <2>3, <3>2
  <2>5. step' = "alter" => at' - 1 = at BY <1>0, <1>a, <1>b
  <2> QED BY <2>1, <2>2, <2>3, <2>4, <2>5
<1>7. FileTellsRun' BY <1>0, <1>a, <1>b DEF FileTellsRun, Prepared
<1>8. TablesEmptied' BY <1>0, <1>b DEF TablesEmptied, Emptied, Checked
<1>9. PhonesRevoked' BY <1>0, <1>a, <1>b DEF PhonesRevoked, Prepared
<1>10. ObjectsGone' BY <1>0, <1>a, <1>b DEF ObjectsGone
<1> QED BY <1>1, <1>2, <1>3, <1>4, <1>5, <1>6, <1>7, <1>8, <1>9, <1>10

LEMMA AuditInv ==
  ASSUME ResetInv, Audit PROVE ResetInv'
<1> USE DEF ResetInv
<1>0. /\ step = "audit" /\ step' = "verify" /\ event' = mem.counts
      /\ rows' = [rows EXCEPT ![AuditEvents] = @ + 1]
      /\ next' = [next EXCEPT ![AuditEvents] = @ + 1]
      /\ AuditEvents \in Tables
      /\ UNCHANGED <<up, admin, phone, recorded, object, file, at, mem,
                     issued, halfway, lost, inserts, stops>>
  BY ResetAssumption DEF Audit, history, bounds
<1>1. TypeOK'
  <2>1. rows' \in [Tables -> Nat] /\ next' \in [Tables -> Nat \ {0}]
    BY <1>0 DEF TypeOK
  <2> QED BY <1>0, <2>1 DEF TypeOK, Steps
<1>2. RecordedIsStored' BY <1>0 DEF RecordedIsStored
<1>3. IdsNeverReused' BY <1>0 DEF IdsNeverReused, TypeOK
<1>4. KeysKept' BY <1>0 DEF KeysKept
<1>5. RunAlone' BY <1>0 DEF RunAlone, Photos, Prepared
<1>6. CountersCarried' BY <1>0 DEF CountersCarried, Restored, TypeOK
<1>7. FileTellsRun' BY <1>0 DEF FileTellsRun, Prepared
<1>8. TablesEmptied'
  <2>1. event' # None BY <1>0, ResetAssumption DEF TypeOK
  <2>2. rows[AuditEvents] = 0 BY <1>0 DEF TablesEmptied
  <2> QED BY <1>0, <2>1, <2>2 DEF TablesEmptied, Emptied, Checked, TypeOK
<1>9. PhonesRevoked' BY <1>0 DEF PhonesRevoked, Prepared
<1>10. ObjectsGone' BY <1>0 DEF ObjectsGone
<1> QED BY <1>1, <1>2, <1>3, <1>4, <1>5, <1>6, <1>7, <1>8, <1>9, <1>10

LEMMA VerifyInv ==
  ASSUME ResetInv, Verify PROVE ResetInv'
<1> USE DEF ResetInv
<1>0. /\ step = "verify"
      /\ \/ step' \in {"objects", "complete"} /\ mem' = mem
            /\ (step' = "complete" => ~mem.s3)
         \/ step' = "idle" /\ mem' = NoMem
      /\ UNCHANGED <<up, admin, phone, rows, next, recorded, event, object, file,
                     at, issued, halfway, lost, inserts, stops>>
  BY DEF Verify, database, history, bounds
<1>1. TypeOK'
  <2>1. NoMem \in [counts : [Tables -> Nat], counters : [Tables -> Nat],
                   keys : SUBSET Keys, s3 : BOOLEAN, keep : SUBSET Phones]
    BY DEF NoMem, Zero, Ones
  <2> QED BY <1>0, <2>1 DEF TypeOK, Steps
<1>2. RecordedIsStored' BY <1>0 DEF RecordedIsStored
<1>3. IdsNeverReused' BY <1>0 DEF IdsNeverReused
<1>4. KeysKept' BY <1>0 DEF KeysKept
<1>5. RunAlone' BY <1>0 DEF RunAlone, Photos, Prepared
<1>6. CountersCarried' BY <1>0 DEF CountersCarried, Restored
<1>7. FileTellsRun' BY <1>0 DEF FileTellsRun, Prepared
<1>8. TablesEmptied' BY <1>0 DEF TablesEmptied, Emptied, Checked
<1>9. PhonesRevoked' BY <1>0 DEF PhonesRevoked, Prepared
<1>10. ObjectsGone' BY <1>0 DEF ObjectsGone
<1> QED BY <1>1, <1>2, <1>3, <1>4, <1>5, <1>6, <1>7, <1>8, <1>9, <1>10

LEMMA DeleteObjectInv ==
  ASSUME ResetInv, NEW k \in Keys, DeleteObject(k) PROVE ResetInv'
<1> USE DEF ResetInv
<1>0. /\ step = "objects" /\ object' = [object EXCEPT ![k] = "deleted"]
      /\ UNCHANGED <<up, admin, phone, rows, next, recorded, event, file, step,
                     at, mem, issued, halfway, lost, inserts, stops>>
  BY DEF DeleteObject, database, runner, history, bounds
<1>1. TypeOK' BY <1>0 DEF TypeOK
<1>2. RecordedIsStored' BY <1>0 DEF RecordedIsStored, TablesEmptied, Emptied
<1>3. IdsNeverReused' BY <1>0 DEF IdsNeverReused
<1>4. KeysKept' BY <1>0 DEF KeysKept, TypeOK
<1>5. RunAlone' BY <1>0 DEF RunAlone, Photos, Prepared, TypeOK
<1>6. CountersCarried' BY <1>0 DEF CountersCarried, Restored
<1>7. FileTellsRun' BY <1>0 DEF FileTellsRun, Prepared, TypeOK
<1>8. TablesEmptied' BY <1>0 DEF TablesEmptied, Emptied, Checked
<1>9. PhonesRevoked' BY <1>0 DEF PhonesRevoked, Prepared
<1>10. ObjectsGone' BY <1>0 DEF ObjectsGone
<1> QED BY <1>1, <1>2, <1>3, <1>4, <1>5, <1>6, <1>7, <1>8, <1>9, <1>10

LEMMA ObjectsDeletedInv ==
  ASSUME ResetInv, ObjectsDeleted PROVE ResetInv'
<1> USE DEF ResetInv
<1>0. /\ step = "objects" /\ step' = "complete"
      /\ \A k \in mem.keys \ OddKeys : object[k] # "stored"
      /\ UNCHANGED <<up, admin, phone, rows, next, recorded, event, object, file,
                     at, mem, issued, halfway, lost, inserts, stops>>
  BY DEF ObjectsDeleted, database, history, bounds
<1>1. TypeOK' BY <1>0 DEF TypeOK, Steps
<1>2. RecordedIsStored' BY <1>0 DEF RecordedIsStored
<1>3. IdsNeverReused' BY <1>0 DEF IdsNeverReused
<1>4. KeysKept' BY <1>0 DEF KeysKept
<1>5. RunAlone' BY <1>0 DEF RunAlone, Photos, Prepared
<1>6. CountersCarried' BY <1>0 DEF CountersCarried, Restored
<1>7. FileTellsRun' BY <1>0 DEF FileTellsRun, Prepared
<1>8. TablesEmptied' BY <1>0 DEF TablesEmptied, Emptied, Checked
<1>9. PhonesRevoked' BY <1>0 DEF PhonesRevoked, Prepared
<1>10. ObjectsGone' BY <1>0 DEF ObjectsGone, RunAlone, Photos, Prepared, FileTellsRun, TypeOK
<1> QED BY <1>1, <1>2, <1>3, <1>4, <1>5, <1>6, <1>7, <1>8, <1>9, <1>10

LEMMA CompleteInv ==
  ASSUME ResetInv, Complete PROVE ResetInv'
<1> USE DEF ResetInv
<1>0. /\ step = "complete" /\ step' = "idle" /\ mem' = NoMem
      /\ file' = [whole |-> TRUE, completed |-> TRUE, counters |-> mem.counters,
                  keys |-> mem.keys]
      /\ halfway' = FALSE /\ lost' = {}
      /\ UNCHANGED <<up, admin, phone, rows, next, recorded, event,
                     object, at, issued, inserts, stops>>
  BY DEF Complete, database, bounds
<1>1. TypeOK'
  <2>1. NoMem \in [counts : [Tables -> Nat], counters : [Tables -> Nat],
                   keys : SUBSET Keys, s3 : BOOLEAN, keep : SUBSET Phones]
    BY DEF NoMem, Zero, Ones
  <2>2. file' \in [whole : BOOLEAN, completed : BOOLEAN,
                   counters : [Tables -> Nat], keys : SUBSET Keys]
    BY <1>0 DEF TypeOK
  <2> QED BY <1>0, <2>1, <2>2 DEF TypeOK, Steps, Zero
<1>2. RecordedIsStored' BY <1>0 DEF RecordedIsStored
<1>3. IdsNeverReused' BY <1>0 DEF IdsNeverReused, CountersCarried, Restored
<1>4. KeysKept' BY <1>0 DEF KeysKept
<1>5. RunAlone' BY <1>0 DEF RunAlone, Photos, Prepared
<1>6. CountersCarried' BY <1>0 DEF CountersCarried, Restored
<1>7. FileTellsRun' BY <1>0 DEF FileTellsRun, Prepared
<1>8. TablesEmptied' BY <1>0 DEF TablesEmptied, Emptied, Checked
<1>9. PhonesRevoked' BY <1>0 DEF PhonesRevoked, Prepared
<1>10. ObjectsGone' BY <1>0 DEF ObjectsGone
<1> QED BY <1>1, <1>2, <1>3, <1>4, <1>5, <1>6, <1>7, <1>8, <1>9, <1>10

LEMMA StopInv ==
  ASSUME ResetInv, Stop PROVE ResetInv'
<1> USE DEF ResetInv
<1>0. /\ step' = "idle" /\ mem' = NoMem /\ stops < MaxStops /\ stops' = stops + 1
      /\ UNCHANGED <<up, admin, phone, rows, next, recorded, event, object,
                     file, at, issued, halfway, lost, inserts>>
  BY DEF Stop, database, history
<1>1. TypeOK'
  <2>1. NoMem \in [counts : [Tables -> Nat], counters : [Tables -> Nat],
                   keys : SUBSET Keys, s3 : BOOLEAN, keep : SUBSET Phones]
    BY DEF NoMem, Zero, Ones
  <2>2. stops' \in 0..MaxStops BY <1>0, ResetAssumption DEF TypeOK
  <2> QED BY <1>0, <2>1, <2>2 DEF TypeOK, Steps
<1>2. RecordedIsStored' BY <1>0 DEF RecordedIsStored
<1>3. IdsNeverReused' BY <1>0 DEF IdsNeverReused
<1>4. KeysKept' BY <1>0 DEF KeysKept
<1>5. RunAlone' BY <1>0 DEF RunAlone, Photos, Prepared
<1>6. CountersCarried' BY <1>0 DEF CountersCarried, Restored
<1>7. FileTellsRun' BY <1>0 DEF FileTellsRun, Prepared
<1>8. TablesEmptied' BY <1>0 DEF TablesEmptied, Emptied, Checked
<1>9. PhonesRevoked' BY <1>0 DEF PhonesRevoked, Prepared
<1>10. ObjectsGone' BY <1>0 DEF ObjectsGone
<1> QED BY <1>1, <1>2, <1>3, <1>4, <1>5, <1>6, <1>7, <1>8, <1>9, <1>10

LEMMA StutterInv == ASSUME ResetInv, UNCHANGED vars PROVE ResetInv'
<1> USE DEF ResetInv, vars, database, runner, history, bounds
<1>1. TypeOK' BY DEF TypeOK
<1>2. RecordedIsStored' BY DEF RecordedIsStored
<1>3. IdsNeverReused' BY DEF IdsNeverReused
<1>4. KeysKept' BY DEF KeysKept
<1>5. RunAlone' BY DEF RunAlone, Photos, Prepared
<1>6. CountersCarried' BY DEF CountersCarried, Restored
<1>7. FileTellsRun' BY DEF FileTellsRun, Prepared
<1>8. TablesEmptied' BY DEF TablesEmptied, Emptied, Checked
<1>9. PhonesRevoked' BY DEF PhonesRevoked, Prepared
<1>10. ObjectsGone' BY DEF ObjectsGone
<1> QED BY <1>1, <1>2, <1>3, <1>4, <1>5, <1>6, <1>7, <1>8, <1>9, <1>10

-----------------------------------------------------------------------------
LEMMA NextInv == ResetInv /\ [Next]_vars => ResetInv'
BY InsertInv, ChangePhoneInv, ChangeOperatorInv, SwitchApplicationsInv,
  BeginInv, OpenFileInv, WriteFileInv, RevokePhonesInv, TruncateInv,
  RestoreCounterInv, AuditInv, VerifyInv, DeleteObjectInv, ObjectsDeletedInv,
  CompleteInv, StopInv, StutterInv DEF Next

(* The inductive invariant holds in every reachable state.                 *)
THEOREM Inductive == Spec => []ResetInv
BY InitInv, NextInv, PTL DEF Spec

(* However often a reset stops and is run again, once it has completed no  *)
(* table but the audit log gives an id it gave before (run, lines 343-384).*)
THEOREM IdsStayUnique == Spec => []IdsNeverReused
<1>1. ResetInv => IdsNeverReused BY DEF ResetInv
<1> QED BY Inductive, <1>1, PTL

(* While a reset is half done, a whole state file has the key of every     *)
(* photo whose row was truncated (run, _load_saved).                       *)
THEOREM KeysSurvive == Spec => []KeysKept
<1>1. ResetInv => KeysKept BY DEF ResetInv
<1> QED BY Inductive, <1>1, PTL

(* A reset ends only with every table emptied, every other phone revoked   *)
(* and, if asked for, every photo of a truncated row deleted.              *)
THEOREM ResetEndsComplete == Spec => ResetIsComplete
<1>1. ResetInv /\ [Next]_vars =>
        [halfway /\ ~halfway' =>
           /\ \A t \in Tables \ {AuditEvents} : rows[t] = 0
           /\ rows[AuditEvents] = 1 /\ event # None
           /\ \A p \in Phones : phone[p] \in {"code", "active"} => p \in mem.keep
           /\ mem.s3 => \A k \in lost \ OddKeys : object[k] = "deleted"]_vars
  <2> SUFFICES ASSUME ResetInv, Next, halfway, ~halfway'
               PROVE /\ \A t \in Tables \ {AuditEvents} : rows[t] = 0
                     /\ rows[AuditEvents] = 1 /\ event # None
                     /\ \A p \in Phones : phone[p] \in {"code", "active"} =>
                          p \in mem.keep
                     /\ mem.s3 => \A k \in lost \ OddKeys : object[k] = "deleted"
    BY DEF vars, history
  <2>1. step = "complete"
    BY DEF Next, Insert, ChangePhone, ChangeOperator, SwitchApplications, Begin,
      OpenFile, WriteFile, RevokePhones, Truncate, RestoreCounter, Audit, Verify,
      DeleteObject, ObjectsDeleted, Complete, Stop, history
  <2>2. TablesEmptied /\ PhonesRevoked /\ ObjectsGone BY DEF ResetInv
  <2> QED BY <2>1, <2>2 DEF TablesEmptied, Emptied, Checked, PhonesRevoked,
    Prepared, ObjectsGone
<1> QED BY Inductive, <1>1, PTL DEF Spec, ResetIsComplete
=============================================================================
