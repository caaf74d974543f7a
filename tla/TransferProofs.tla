-------------------------- MODULE TransferProofs --------------------------
(***************************************************************************)
(* Proofs about DatabaseTransfer: what a backup marked COMPLETE holds, what *)
(* restores and runs of the migrations leave of a destination, and what a  *)
(* restore that reports success has made.                                  *)
(***************************************************************************)
EXTENDS TransferInvariant, WellFoundedInduction, TLAPS

-----------------------------------------------------------------------------
(* The source and its backup                                               *)

(* One state of the source that precedes another precedes what the source  *)
(* becomes.                                                                *)
LEMMA PrecedesTransitive ==
  ASSUME NEW a \in Sources, NEW b \in Sources, NEW c \in Sources,
         Precedes(a, b), Precedes(b, c)
  PROVE  Precedes(a, c)
<1>1. a.version \in Nat /\ b.version \in Nat /\ c.version \in Nat
  BY DEF Sources
<1> QED  BY <1>1 DEF Precedes

LEMMA PrecedesItself ==
  ASSUME NEW a \in Sources
  PROVE  Precedes(a, a)
<1>1. a.version \in Nat
  BY DEF Sources
<1> QED  BY <1>1 DEF Precedes

(* Whoever writes, the source gets newer or stays what it is.              *)
LEMMA ChangeKeeps ==
  ASSUME BackupPart, NEW newSource \in Sources, NEW newFiles \in SUBSET Keys, NEW newEnv \in Nat,
         Precedes(source, newSource), Change(newSource, newFiles, newEnv)
  PROVE  BackupPart'
<1>1. /\ source' = newSource /\ files' = newFiles /\ env' = newEnv
      /\ moments' = moments \cup {[source |-> newSource, env |-> newEnv]}
      /\ bstep' = bstep /\ seen' = seen /\ dir' = dir
  BY DEF Change, backup
<1>2. SourceTypes /\ BackupHonest /\ BackupIsConsistent
  BY DEF BackupPart
<1>3. SourceTypes'
  BY <1>1, <1>2 DEF SourceTypes, Moment
<1>4. ASSUME NEW a \in Sources, Precedes(a, source) PROVE Precedes(a, newSource)
  <2>1. source \in Sources
    BY <1>2 DEF SourceTypes
  <2> QED  BY <1>4, <2>1, PrecedesTransitive
<1>5. BackupHonest'
  <2>1. bstep # "idle" => seen.source \in Sources /\ Precedes(seen.source, newSource)
    BY <1>2, <1>4 DEF BackupHonest
  <2>2. bstep \in Dumped => dir.original \in Sources /\ Precedes(dir.original, newSource)
    BY <1>2, <1>4 DEF BackupHonest
  <2>3. bstep \in DumpedTwice => dir.portable \in Sources /\ Precedes(dir.portable, newSource)
    BY <1>2, <1>4 DEF BackupHonest
  <2>4. moments \subseteq moments'
    BY <1>1
  <2> QED  BY <1>1, <1>2, <2>1, <2>2, <2>3, <2>4 DEF BackupHonest, Precedes
<1>6. BackupIsConsistent'
  BY <1>1, <1>2 DEF BackupIsConsistent
<1> QED  BY <1>3, <1>5, <1>6 DEF BackupPart

LEMMA WritersKeep ==
  ASSUME BackupPart,
         \/ \E k \in Keys : StorePhoto(k) \/ DropPhoto(k) \/ ReferPhoto(k)
         \/ Write \/ EditEnvironment
  PROVE  BackupPart' /\ UNCHANGED <<migrationVars, restore, dir>>
<1>1. /\ source \in Sources /\ files \in SUBSET Keys /\ env \in Nat /\ env + 1 \in Nat
      /\ Precedes(source, source)
  BY PrecedesItself DEF BackupPart, SourceTypes
<1>2. ASSUME NEW newSource \in Sources, NEW newFiles \in SUBSET Keys, NEW newEnv \in Nat,
             Precedes(source, newSource), Change(newSource, newFiles, newEnv)
      PROVE  BackupPart' /\ UNCHANGED <<migrationVars, restore, dir>>
  <2>1. UNCHANGED <<migrationVars, restore, dir>>
    BY <1>2 DEF Change, backup
  <2> QED  BY <1>2, <2>1, ChangeKeeps
<1>3. ASSUME NEW k \in Keys, StorePhoto(k) PROVE BackupPart' /\ UNCHANGED <<migrationVars, restore, dir>>
  <2>1. files \cup {k} \in SUBSET Keys /\ Change(source, files \cup {k}, env)
    BY <1>1, <1>3 DEF StorePhoto
  <2> QED  BY <1>1, <1>2, <2>1
<1>4. ASSUME NEW k \in Keys, DropPhoto(k) PROVE BackupPart' /\ UNCHANGED <<migrationVars, restore, dir>>
  <2>1. files \ {k} \in SUBSET Keys /\ Change(source, files \ {k}, env)
    BY <1>1, <1>4 DEF DropPhoto
  <2> QED  BY <1>1, <1>2, <2>1
<1>5. ASSUME NEW refs \in SUBSET Keys,
             Change([source EXCEPT !.version = @ + 1, !.refs = refs], files, env)
      PROVE  BackupPart' /\ UNCHANGED <<migrationVars, restore, dir>>
  <2> DEFINE new == [source EXCEPT !.version = @ + 1, !.refs = refs]
  <2>0. /\ source = [version |-> source.version, refs |-> source.refs,
                      migrations |-> source.migrations]
        /\ source.version \in Nat /\ source.refs \in SUBSET Keys /\ source.migrations \in 1..Versions
    BY <1>1 DEF Sources
  <2>1. new \in Sources /\ new.version = source.version + 1 /\ source.version \in Nat
    <3>1. PICK v \in Nat, r \in SUBSET Keys, m \in 1..Versions :
            source = [version |-> v, refs |-> r, migrations |-> m]
      BY <2>0
    <3> DEFINE aged == [source EXCEPT !.version = @ + 1]
    <3>3. aged = [version |-> v + 1, refs |-> r, migrations |-> m]
      BY <3>1
    <3>4. new = [aged EXCEPT !.refs = refs]
      BY <3>1
    <3> HIDE DEF aged
    <3>2. [aged EXCEPT !.refs = refs] = [version |-> v + 1, refs |-> refs, migrations |-> m]
      BY <3>3
    <3> QED  BY <2>0, <3>1, <3>2, <3>4 DEF Sources
  <2>2. Precedes(source, new)
    BY <2>1 DEF Precedes
  <2> QED  BY <1>1, <1>2, <1>5, <2>1, <2>2
<1>6. ASSUME NEW k \in Keys, ReferPhoto(k) PROVE BackupPart' /\ UNCHANGED <<migrationVars, restore, dir>>
  BY <1>5, <1>6 DEF ReferPhoto
<1>7. ASSUME Write PROVE BackupPart' /\ UNCHANGED <<migrationVars, restore, dir>>
  <2>1. source.refs \in SUBSET Keys
    BY <1>1 DEF Sources
  <2>2. source = [version |-> source.version, refs |-> source.refs, migrations |-> source.migrations]
    BY <1>1 DEF Sources
  <2> DEFINE one == [source EXCEPT !.version = @ + 1]
             two == [source EXCEPT !.version = @ + 1, !.refs = source.refs]
  <2>3. one = two
    BY <2>2
  <2>4. Change(one, files, env)
    BY <1>7 DEF Write
  <2> HIDE DEF one
  <2>5. Change(two, files, env)
    BY <2>3, <2>4
  <2> QED  BY <1>5, <2>1, <2>5
<1>8. ASSUME EditEnvironment PROVE BackupPart' /\ UNCHANGED <<migrationVars, restore, dir>>
  BY <1>1, <1>2, <1>8 DEF EditEnvironment
<1> QED  BY <1>3, <1>4, <1>6, <1>7, <1>8

BackupStep ==
  \/ StartBackup \/ ReadFiles \/ DumpOriginal \/ DumpPortable
  \/ CopyEnvironment \/ CopyPhotos \/ Recheck \/ WriteManifest \/ MarkComplete
  \/ AbandonBackup

(* A backup writes into a directory that is not complete, and nothing else *)
(* of the state.                                                           *)
LEMMA BackupFrame ==
  ASSUME BackupPart, BackupStep
  PROVE  UNCHANGED <<migrationVars, local, restore>> /\ (dir' = dir \/ ~dir.complete)
<1>1. bstep # "idle" => ~dir.complete
  BY DEF BackupPart, BackupHonest
<1>2. UNCHANGED <<migrationVars, local, restore>>
  BY DEF BackupStep, StartBackup, ReadFiles, DumpOriginal, DumpPortable, CopyEnvironment, CopyPhotos,
         Recheck, WriteManifest, MarkComplete, AbandonBackup, BackupGoes
<1>3. dir' = dir \/ ~dir.complete
  BY <1>1 DEF BackupStep, StartBackup, ReadFiles, DumpOriginal, DumpPortable, CopyEnvironment,
         CopyPhotos, Recheck, WriteManifest, MarkComplete, AbandonBackup
<1> QED  BY <1>2, <1>3

LEMMA BackupTypes ==
  ASSUME BackupPart, BackupStep
  PROVE  SourceTypes'
<1>1. /\ SourceTypes /\ source' = source /\ files' = files /\ env' = env /\ moments' = moments
      /\ source \in Sources /\ files \subseteq Keys /\ env \in Nat
  BY BackupFrame DEF BackupPart, SourceTypes, local
<1>2. bstep' \in BackupSteps
  BY DEF BackupSteps, BackupStep, StartBackup, ReadFiles, DumpOriginal, DumpPortable, CopyEnvironment,
         CopyPhotos, Recheck, WriteManifest, MarkComplete, AbandonBackup, BackupGoes
<1>3. seen' \in Sightings
  <2>1. CASE StartBackup
    BY <1>1, <2>1 DEF StartBackup, NothingSeen, Sightings, SourceTypes
  <2>2. CASE ReadFiles
    BY <1>1, <2>2 DEF ReadFiles, Sightings, SourceTypes
  <2>3. CASE ~StartBackup /\ ~ReadFiles
    BY <1>1, <2>3 DEF SourceTypes, BackupStep, DumpOriginal, DumpPortable, CopyEnvironment,
       CopyPhotos, Recheck, WriteManifest, MarkComplete, AbandonBackup
  <2> QED  BY <2>1, <2>2, <2>3
<1>4. dir' \in Directories
  <2>0. dir \in Directories /\ seen \in Sightings
    BY <1>1 DEF SourceTypes
  <2>1. CASE StartBackup
    BY <2>1 DEF StartBackup, NoDirectory, Directories
  <2>2. CASE DumpOriginal \/ DumpPortable
    BY <1>1, <2>0, <2>2 DEF DumpOriginal, DumpPortable, Directories
  <2>3. CASE CopyEnvironment \/ CopyPhotos
    BY <1>1, <2>0, <2>3 DEF CopyEnvironment, CopyPhotos, Directories, Sightings
  <2>4. CASE WriteManifest \/ MarkComplete
    BY <1>1, <2>0, <2>4 DEF WriteManifest, MarkComplete, Directories, Sightings
  <2>5. CASE ReadFiles \/ Recheck \/ AbandonBackup
    BY <2>0, <2>5 DEF ReadFiles, Recheck, AbandonBackup
  <2> QED  BY <2>1, <2>2, <2>3, <2>4, <2>5 DEF BackupStep
<1> QED  BY <1>1, <1>2, <1>3, <1>4 DEF SourceTypes, Moment

(* Every stage of a backup adds to what is known of the directory.         *)
LEMMA BackupKeeps ==
  ASSUME BackupPart, BackupStep
  PROVE  BackupPart'
<1>1. /\ SourceTypes /\ BackupHonest /\ BackupIsConsistent
      /\ source' = source /\ files' = files /\ env' = env /\ moments' = moments
      /\ source \in Sources /\ dir \in Directories /\ seen \in Sightings /\ Moment \in moments
      /\ Precedes(source, source)
  BY BackupFrame, PrecedesItself DEF BackupPart, SourceTypes, local
<1>2. SourceTypes'
  BY BackupTypes
<1> SUFFICES BackupHonest' /\ BackupIsConsistent'
  BY <1>2 DEF BackupPart
<1>3. CASE StartBackup
  <2>1. bstep' = "files" /\ ~dir'.complete /\ seen'.source = source
    BY <1>3 DEF StartBackup, BackupGoes, NoDirectory, NothingSeen
  <2> QED  BY <1>1, <2>1 DEF BackupHonest, BackupIsConsistent, Dumped, DumpedTwice, Rechecked, Precedes
<1>4. CASE ReadFiles
  <2>1. /\ bstep' = "original" /\ dir' = dir /\ bstep = "files"
        /\ seen'.source = seen.source /\ seen'.photos = files /\ seen.source.refs \subseteq files
    BY <1>1, <1>4 DEF ReadFiles, BackupGoes, Sightings
  <2> QED  BY <1>1, <2>1 DEF BackupHonest, BackupIsConsistent, Dumped, DumpedTwice, Rechecked, Precedes
<1>5. CASE DumpOriginal
  <2>1. /\ bstep' = "portable" /\ bstep = "original" /\ seen' = seen
        /\ dir'.original = source /\ dir'.complete = dir.complete
    BY <1>1, <1>5 DEF DumpOriginal, BackupGoes, Directories
  <2> QED  BY <1>1, <2>1 DEF BackupHonest, BackupIsConsistent, Dumped, DumpedTwice, Rechecked, Precedes
<1>6. CASE DumpPortable
  <2>1. /\ bstep' = "environment" /\ bstep = "portable" /\ seen' = seen
        /\ dir'.portable = source /\ dir'.complete = dir.complete /\ dir'.original = dir.original
    BY <1>1, <1>6 DEF DumpPortable, BackupGoes, Directories
  <2> QED  BY <1>1, <2>1 DEF BackupHonest, BackupIsConsistent, Dumped, DumpedTwice, Rechecked, Precedes
<1>7. CASE CopyEnvironment
  <2>1. /\ bstep' = "photos" /\ bstep = "environment" /\ seen' = seen
        /\ dir'.portable = dir.portable /\ dir'.complete = dir.complete /\ dir'.original = dir.original
    BY <1>1, <1>7 DEF CopyEnvironment, BackupGoes, Directories
  <2> QED  BY <1>1, <2>1 DEF BackupHonest, BackupIsConsistent, Dumped, DumpedTwice, Rechecked, Precedes
<1>8. CASE CopyPhotos
  <2>1. /\ bstep' = "recheck" /\ bstep = "photos" /\ seen' = seen /\ dir'.photos = seen.photos
        /\ dir'.portable = dir.portable /\ dir'.complete = dir.complete /\ dir'.original = dir.original
    BY <1>1, <1>8 DEF CopyPhotos, BackupGoes, Directories
  <2> QED  BY <1>1, <2>1 DEF BackupHonest, BackupIsConsistent, Dumped, DumpedTwice, Rechecked, Precedes
<1>9. CASE Recheck
  <2>1. /\ bstep' = "checksums" /\ bstep = "recheck" /\ seen' = seen /\ dir' = dir
        /\ source = seen.source /\ env = seen.env
    BY <1>9 DEF Recheck, BackupGoes, Unchanged
  <2>2. dir.original = seen.source /\ dir.portable = seen.source
    <3>1. /\ dir.original \in Sources /\ Precedes(seen.source, dir.original)
          /\ Precedes(dir.original, source)
          /\ dir.portable \in Sources /\ Precedes(seen.source, dir.portable)
          /\ Precedes(dir.portable, source)
      BY <1>1, <2>1 DEF BackupHonest, Dumped, DumpedTwice
    <3>2. source.version \in Nat /\ dir.original.version \in Nat /\ dir.portable.version \in Nat
      BY <1>1, <3>1 DEF Sources
    <3> QED  BY <2>1, <3>1, <3>2 DEF Precedes
  <2>3. [source |-> seen.source, env |-> seen.env] \in moments
    BY <1>1, <2>1 DEF Moment
  <2> QED  BY <1>1, <2>1, <2>2, <2>3
           DEF BackupHonest, BackupIsConsistent, Dumped, DumpedTwice, Rechecked, Precedes
<1>10. CASE WriteManifest
  <2>1. /\ bstep' = "complete" /\ bstep = "checksums" /\ seen' = seen
        /\ dir'.manifest = seen.source /\ dir'.env = dir.env /\ dir.env = seen.env
        /\ dir'.photos = dir.photos
        /\ dir'.portable = dir.portable /\ dir'.complete = dir.complete /\ dir'.original = dir.original
    BY <1>1, <1>10 DEF WriteManifest, BackupGoes, Directories
  <2> QED  BY <1>1, <2>1 DEF BackupHonest, BackupIsConsistent, Dumped, DumpedTwice, Rechecked, Precedes
<1>11. CASE MarkComplete
  <2>1. /\ bstep' = "idle" /\ bstep = "complete" /\ seen' = seen
        /\ dir'.manifest = dir.manifest /\ dir'.env = dir.env /\ dir'.photos = dir.photos
        /\ dir'.portable = dir.portable /\ dir'.original = dir.original
    BY <1>1, <1>11 DEF MarkComplete, BackupGoes, Directories
  <2>2. /\ dir.original = seen.source /\ dir.portable = seen.source /\ dir.manifest = seen.source
        /\ [source |-> seen.source, env |-> seen.env] \in moments
        /\ dir.env = seen.env /\ dir.photos = seen.photos
        /\ seen.source.refs \subseteq seen.photos /\ seen.source \in Sources
    BY <1>1, <2>1 DEF BackupHonest, Rechecked
  <2>3. BackupIsConsistent'
    BY <1>1, <2>1, <2>2 DEF BackupIsConsistent
  <2>4. BackupHonest'
    BY <2>1, <2>2 DEF BackupHonest, Dumped, DumpedTwice, Rechecked
  <2> QED  BY <2>3, <2>4
<1>12. CASE AbandonBackup
  <2>1. bstep' = "idle" /\ seen' = seen /\ dir' = dir /\ ~dir.complete
    BY <1>1, <1>12 DEF AbandonBackup, BackupGoes, BackupHonest
  <2> QED  BY <1>1, <2>1 DEF BackupHonest, BackupIsConsistent, Dumped, DumpedTwice, Rechecked
<1> QED  BY <1>3, <1>4, <1>5, <1>6, <1>7, <1>8, <1>9, <1>10, <1>11, <1>12 DEF BackupStep

(* Restores and runs of the migrations do not touch the source.            *)
LEMMA BackupUntouched ==
  ASSUME BackupPart, UNCHANGED <<local, backup>>
  PROVE  BackupPart'
<1>1. /\ source' = source /\ files' = files /\ env' = env /\ moments' = moments
      /\ bstep' = bstep /\ seen' = seen /\ dir' = dir
  BY DEF local, backup
<1>2. SourceTypes'
  BY <1>1 DEF BackupPart, SourceTypes, Moment
<1>3. BackupHonest'
  BY <1>1 DEF BackupPart, BackupHonest, Precedes
<1>4. BackupIsConsistent'
  BY <1>1 DEF BackupPart, BackupIsConsistent
<1> QED  BY <1>2, <1>3, <1>4 DEF BackupPart

-----------------------------------------------------------------------------
(* What the proofs need of the model's operators                           *)

(* The parts of a dump are the ledger and the tables, in an order.         *)
LEMMA PartsAre ==
  /\ Tables \in Nat \ {0} /\ Versions \in Nat \ {0} /\ LedgerPart \in Parts
  /\ \A s \in 1..Tables :
       PartOf(s) \in Parts /\ PartOf(s) # LedgerPart /\ TableOf(PartOf(s)) = s
  /\ \A i \in Parts : i # LedgerPart => TableOf(i) \in 1..Tables /\ PartOf(TableOf(i)) = i
<1>1. Tables \in Nat \ {0} /\ Versions \in Nat \ {0} /\ LedgerPart \in 1..Tables + 1
  BY MigrationsAssumption, TransferAssumption
<1> QED  BY <1>1 DEF Parts, PartOf, TableOf

(* The first of some migrations is one of them.                            *)
LEMMA FirstIs ==
  ASSUME NEW S \in SUBSET (1..Versions), S # {}
  PROVE  First(S) \in S /\ \A w \in S : First(S) <= w
<1>1. Versions \in Nat /\ S \in SUBSET Nat
  BY MigrationsAssumption
<1>2. PICK v \in S : \A w \in S : ~ (<<w, v>> \in OpToRel(<, Nat))
  BY <1>1, WFMin, NatLessThanWellFounded, Zenon
<1>3. ASSUME NEW w \in S PROVE v <= w
  <2>1. w \in Nat /\ v \in Nat
    BY <1>1, <1>2
  <2>2. ~ (<<w, v>> \in {ss \in Nat \X Nat : ss[1] < ss[2]})
    BY <1>2, <2>1, Zenon DEF OpToRel
  <2> QED  BY <2>1, <2>2
<1> QED  BY <1>2, <1>3 DEF First

(* The parts of the destination's invariant, each under its name.          *)
LEMMA Known ==
  ASSUME DestinationPart
  PROVE  /\ MigrationsTypeOK /\ RestoreTypes /\ LockHeld /\ ImportsKnown /\ NoLedgerYet
         /\ LedgerTrue /\ LedgerCopied
         /\ \A x \in Restorers : RestoreHonest(x)
         /\ \A r \in Runners : RunTrue(r)
BY DEF DestinationPart

(* A runner that is not at work relies on nothing.                         *)
LEMMA IdleIsTrue ==
  ASSUME NEW r, pc'[r] = "idle"
  PROVE  RunTrue(r)'
BY DEF RunTrue, Baselining, Planned, BetweenMigrations, InMigration

-----------------------------------------------------------------------------
(* Runs of the migrations                                                  *)

(* Who runs has the lock, and everyone else waits for it.                  *)
LEMMA RunFrame ==
  ASSUME DestinationPart, NEW r \in Runners, RunStep(r)
  PROVE  /\ pc[r] # "idle" /\ holder = r
         /\ \A q \in Runners \ {r} : pc[q] = "idle" /\ pc'[q] = "idle"
         /\ dialect' = dialect /\ foreign' = foreign /\ (tracked => tracked')
         /\ \/ Leave(r)
            \/ holder' = holder /\ kind' = kind /\ through' = through
<1>1. MigrationsTypeOK /\ LockHeld
  BY Known
<1>2. pc[r] # "idle"
  BY DEF RunStep, Check, CreateLedger, Baseline, Validate, BeginMigration, Statement, EndMigration,
         EndRun, StopRun
<1>3. holder = r /\ \A q \in Runners \ {r} : pc[q] = "idle"
  BY <1>1, <1>2 DEF LockHeld
<1>4. \E t : pc' = [pc EXCEPT ![r] = t] \/ pc' = pc
  BY DEF RunStep, Check, CreateLedger, Baseline, Validate, BeginMigration, Statement, EndMigration,
         EndRun, StopRun, Leave, Go
<1>5. \A q \in Runners \ {r} : pc'[q] = pc[q]
  BY <1>1, <1>4 DEF MigrationsTypeOK
<1>6. dialect' = dialect /\ foreign' = foreign /\ (tracked => tracked')
  BY DEF RunStep, Check, CreateLedger, Baseline, Validate, BeginMigration, Statement, EndMigration,
         EndRun, StopRun, schema
<1>7. Leave(r) \/ (holder' = holder /\ kind' = kind /\ through' = through)
  BY DEF RunStep, Check, CreateLedger, Baseline, Validate, BeginMigration, Statement, EndMigration,
         EndRun, StopRun
<1> QED  BY <1>2, <1>3, <1>5, <1>6, <1>7

LEMMA LeaveMeans ==
  ASSUME DestinationPart, NEW r \in Runners, Leave(r)
  PROVE  /\ pc' \in [Runners -> {"idle", "check", "ledger", "insert", "validate", "migration",
                                 "statement"}]
         /\ pc'[r] = "idle" /\ \A q \in Runners \ {r} : pc'[q] = pc[q]
         /\ holder' \in {holder, None} /\ (holder = r => holder' = None)
         /\ kind' = kind /\ through' = through /\ pending' = pending /\ at' = at
         /\ applied' = applied
<1>1. MigrationsTypeOK
  BY Known
<1> QED  BY <1>1 DEF Leave, Release, MigrationsTypeOK

LEMMA GoMeans ==
  ASSUME DestinationPart, NEW r \in Runners,
         NEW t \in {"check", "ledger", "insert", "validate", "migration", "statement"}, Go(r, t)
  PROVE  /\ pc' \in [Runners -> {"idle", "check", "ledger", "insert", "validate", "migration",
                                 "statement"}]
         /\ pc'[r] = t /\ \A q \in Runners \ {r} : pc'[q] = pc[q]
<1>1. MigrationsTypeOK
  BY Known
<1> QED  BY <1>1 DEF Go, MigrationsTypeOK

(* A step that changes no table and no ledger leaves what is known of      *)
(* them.                                                                   *)
LEMMA SchemaStays ==
  ASSUME DestinationPart, UNCHANGED <<schema, owner>>,
         dir' = dir \/ Nobody, (import' = import /\ dir' = dir) \/ ImportsKnown',
         tracked \/ \A r \in Runners : pc'[r] \in {"idle", "check", "ledger"}
  PROVE  ImportsKnown' /\ NoLedgerYet' /\ LedgerTrue' /\ LedgerCopied' /\ (Regular' <=> Regular)
<1>1. /\ dialect' = dialect /\ tracked' = tracked /\ ledger' = ledger /\ done' = done
      /\ owner' = owner /\ ImportsKnown /\ NoLedgerYet /\ LedgerTrue /\ LedgerCopied
  BY Known DEF schema
<1>2. Regular' <=> Regular
  BY <1>1 DEF Regular, Nobody
<1>3. ImportsKnown'
  <2>1. CASE import' = import /\ dir' = dir
    <3>1. \A i \in Parts : owner'[i] # None => Exists(i)' /\ dir'.complete /\ dialect' = "mysql"
      BY <1>1, <2>1 DEF ImportsKnown, Exists, TableExists
    <3> QED  BY <1>1, <2>1, <3>1 DEF ImportsKnown, Nobody, Has, Copied
  <2> QED  BY <2>1
<1>4. NoLedgerYet'
  BY <1>1 DEF NoLedgerYet
<1>5. LedgerTrue'
  BY <1>1, <1>2 DEF LedgerTrue, TrueOf, Kept, Nobody, Has
<1>6. LedgerCopied'
  <2>1. CASE dir' = dir
    BY <1>1, <2>1 DEF LedgerCopied, Has, Copied
  <2>2. CASE Nobody
    BY <1>1, <2>2, PartsAre DEF LedgerCopied, Nobody
  <2> QED  BY <2>1, <2>2
<1> QED  BY <1>2, <1>3, <1>4, <1>5, <1>6

(* Once there is a ledger, whatever was imported stays.                    *)
LEMMA GrowthIsKnown ==
  ASSUME DestinationPart, tracked', UNCHANGED <<owner, dir, dialect>>,
         \A s \in 1..Tables : TableExists(s) => TableExists(s)'
  PROVE  ImportsKnown' /\ NoLedgerYet' /\ (Regular' <=> Regular)
         /\ (Nobody' <=> Nobody) /\ (\A s : Has(s)' <=> Has(s))
<1>1. ImportsKnown
  BY Known
<1>2. \A i \in Parts : Exists(i) => Exists(i)'
  BY PartsAre DEF Exists
<1> QED  BY <1>1, <1>2 DEF ImportsKnown, NoLedgerYet, Regular, Nobody, Has

(* A run keeps the types.                                                  *)
LEMMA RunTypes ==
  ASSUME DestinationPart, NEW r \in Runners, RunStep(r)
  PROVE  MigrationsTypeOK'
<1> DEFINE Places == {"idle", "check", "ledger", "insert", "validate", "migration", "statement"}
           Rows == {"none", "APPLYING", "APPLIED"}
<1>1. /\ dialect \in {"mysql", "postgres"} /\ foreign \in BOOLEAN /\ tracked \in BOOLEAN
      /\ ledger \in [1..Versions -> Rows] /\ done \in [1..Versions -> [1..Tables -> Nat]]
      /\ holder \in Runners \cup {None} /\ pc \in [Runners -> Places]
      /\ kind \in [Runners -> Kinds] /\ through \in [Runners -> 0..Versions]
      /\ pending \in [Runners -> SUBSET (1..Versions)]
      /\ at \in [Runners -> 1..Tables + 1] /\ applied \in [Runners -> SUBSET (1..Versions)]
      /\ runs \in 0..MaxRuns /\ stops \in 0..MaxStops
  BY Known DEF MigrationsTypeOK
<1>2. Tables \in Nat /\ Versions \in Nat /\ MaxRuns \in Nat /\ MaxStops \in Nat
  BY MigrationsAssumption
<1>3. dialect' = dialect /\ foreign' = foreign
  BY RunFrame
<1>4. tracked' \in BOOLEAN
  BY <1>1 DEF RunStep, Check, CreateLedger, Baseline, Validate, BeginMigration, Statement,
     EndMigration, EndRun, StopRun, schema
<1>5. ledger' \in [1..Versions -> Rows]
  <2>1. \/ ledger' = ledger \/ ledger' = [ledger EXCEPT ![1] = "APPLIED"]
        \/ ledger' = [ledger EXCEPT ![Current(r)] = "APPLYING"]
        \/ ledger' = [ledger EXCEPT ![Current(r)] = "APPLIED"]
    BY DEF RunStep, Check, CreateLedger, Baseline, Validate, BeginMigration, Statement, EndMigration,
       EndRun, StopRun, schema
  <2> QED  BY <1>1, <2>1
<1>6. Current(r) \in 1..Versions \/ pending[r] = {}
  BY <1>1, FirstIs DEF Current
<1>7. pc[r] = "statement" => Current(r) \in 1..Versions
  BY <1>1, <1>6, Known DEF RunTrue
<1>8. done' \in [1..Versions -> [1..Tables -> Nat]]
  <2>1. CASE done' = done
    BY <1>1, <2>1
  <2>2. CASE Statement(r) /\ done' # done
    <3>1. done' = [done EXCEPT ![Current(r)][at[r]] = @ + 1] /\ at[r] <= Tables
          /\ Current(r) \in 1..Versions
      BY <1>7, <2>2 DEF Statement
    <3>2. PICK c \in 1..Versions, k \in 1..Tables : c = Current(r) /\ k = at[r]
      BY <1>1, <1>2, <3>1
    <3>3. done[c] \in [1..Tables -> Nat]
      BY <1>1
    <3>6. done[c][k] \in Nat
      BY <3>3
    <3>7. done[c][k] + 1 \in Nat
      BY <3>6
    <3>4. [done[c] EXCEPT ![k] = @ + 1] \in [1..Tables -> Nat]
      BY <3>3, <3>7
    <3>5. done' = [done EXCEPT ![c] = [done[c] EXCEPT ![k] = @ + 1]]
      BY <3>1, <3>2
    <3> QED  BY <1>1, <3>4, <3>5
  <2>3. CASE EndMigration(r) /\ done' # done
    <3>1. done' = [done EXCEPT ![Current(r)] = [s \in 1..Tables |-> @[s] + 1]]
          /\ Current(r) \in 1..Versions
      BY <1>7, <2>3 DEF EndMigration
    <3>2. PICK c \in 1..Versions : c = Current(r)
      BY <3>1
    <3>3. done[c] \in [1..Tables -> Nat]
      BY <1>1
    <3>6. \A s \in 1..Tables : done[c][s] \in Nat
      BY <3>3
    <3>7. \A s \in 1..Tables : done[c][s] + 1 \in Nat
      BY <3>6
    <3>4. [s \in 1..Tables |-> done[c][s] + 1] \in [1..Tables -> Nat]
      BY <3>7
    <3>5. done' = [done EXCEPT ![c] = [s \in 1..Tables |-> done[c][s] + 1]]
      BY <1>1, <3>1, <3>2
    <3> QED  BY <1>1, <3>4, <3>5
  <2> QED  BY <2>1, <2>2, <2>3
           DEF RunStep, Check, CreateLedger, Baseline, Validate, BeginMigration, EndRun, StopRun, schema
<1>9. CASE Leave(r)
  <2>1. runs' = runs /\ stops' \in 0..MaxStops
    BY <1>1, <1>2, <1>9 DEF RunStep, Check, CreateLedger, Baseline, Validate, BeginMigration, Statement,
       EndMigration, EndRun, StopRun, limits
  <2> QED  BY <1>1, <1>3, <1>4, <1>5, <1>8, <1>9, <2>1, LeaveMeans DEF MigrationsTypeOK
<1>10. CASE ~Leave(r)
  <2>1. pc' \in [Runners -> Places]
    <3>1. \E t \in Places : pc' = [pc EXCEPT ![r] = t] \/ pc' = pc
      BY <1>10 DEF RunStep, Check, CreateLedger, Baseline, Validate, BeginMigration, Statement,
         EndMigration, EndRun, StopRun, Go
    <3> QED  BY <1>1, <3>1
  <2>2. runs' = runs /\ stops' = stops /\ kind' = kind /\ through' = through /\ holder' = holder
    BY <1>10 DEF RunStep, Check, CreateLedger, Baseline, Validate, BeginMigration, Statement,
       EndMigration, EndRun, StopRun, limits
  <2>3. pending' \in [Runners -> SUBSET (1..Versions)]
    <3>1. \/ pending' = pending \/ pending' = [pending EXCEPT ![r] = Unapplied(through[r])]
          \/ pending' = [pending EXCEPT ![r] = @ \ {Current(r)}]
      BY <1>10 DEF RunStep, Check, CreateLedger, Baseline, Validate, BeginMigration, Statement,
         EndMigration, EndRun, StopRun
    <3>2. Unapplied(through[r]) \in SUBSET (1..Versions)
      <4>1. through[r] \in 0..Versions
        BY <1>1
      <4>2. \A v \in 1..through[r] : v \in 1..Versions
        BY <1>2, <4>1
      <4> QED  BY <4>2 DEF Unapplied
    <3>3. pending[r] \ {Current(r)} \in SUBSET (1..Versions)
      BY <1>1
    <3>4. CASE pending' = pending
      BY <1>1, <3>4
    <3>5. CASE pending' = [pending EXCEPT ![r] = Unapplied(through[r])]
      BY <1>1, <3>2, <3>5
    <3>6. CASE pending' = [pending EXCEPT ![r] = @ \ {Current(r)}]
      BY <1>1, <3>3, <3>6
    <3> QED  BY <3>1, <3>4, <3>5, <3>6
  <2>4. at' \in [Runners -> 1..Tables + 1]
    <3>1. \/ at' = at \/ at' = [at EXCEPT ![r] = 1]
          \/ at[r] <= Tables /\ at' = [at EXCEPT ![r] = @ + 1]
      BY <1>10 DEF RunStep, Check, CreateLedger, Baseline, Validate, BeginMigration, Statement,
         EndMigration, EndRun, StopRun
    <3>2. 1 \in 1..Tables + 1 /\ (at[r] <= Tables => at[r] + 1 \in 1..Tables + 1)
      BY <1>1, <1>2
    <3> QED  BY <1>1, <3>1, <3>2
  <2>5. applied' \in [Runners -> SUBSET (1..Versions)]
    <3>1. \/ applied' = applied
          \/ pc[r] = "statement" /\ applied' = [applied EXCEPT ![r] = @ \cup {Current(r)}]
      BY <1>10 DEF RunStep, Check, CreateLedger, Baseline, Validate, BeginMigration, Statement,
         EndMigration, EndRun, StopRun
    <3>2. CASE applied' = applied
      BY <1>1, <3>2
    <3>3. CASE pc[r] = "statement" /\ applied' = [applied EXCEPT ![r] = @ \cup {Current(r)}]
      <4>1. applied[r] \cup {Current(r)} \in SUBSET (1..Versions)
        BY <1>1, <1>7, <3>3
      <4> QED  BY <1>1, <3>3, <4>1
    <3> QED  BY <3>1, <3>2, <3>3
  <2> QED  BY <1>1, <1>3, <1>4, <1>5, <1>8, <2>1, <2>2, <2>3, <2>4, <2>5 DEF MigrationsTypeOK
<1> QED  BY <1>9, <1>10

Upheld(r) ==
  ImportsKnown' /\ NoLedgerYet' /\ LedgerTrue' /\ LedgerCopied' /\ RunTrue(r)'

(* A run that gives up or is done, or only reads.                          *)
LEMMA LeavingKeeps ==
  ASSUME DestinationPart, NEW r \in Runners, pc[r] # "idle", Leave(r),
         UNCHANGED <<schema, owner, import, dir>>
  PROVE  Upheld(r)
<1>1. LockHeld /\ NoLedgerYet /\ pc'[r] = "idle" /\ \A q \in Runners \ {r} : pc'[q] = pc[q]
  BY Known, LeaveMeans
<1>2. tracked \/ \A q \in Runners : pc'[q] \in {"idle", "check", "ledger"}
  BY <1>1 DEF NoLedgerYet
<1> QED  BY <1>1, <1>2, SchemaStays, IdleIsTrue DEF Upheld

LEMMA CheckKeeps ==
  ASSUME DestinationPart, NEW r \in Runners, Check(r), UNCHANGED <<owner, import, dir>>
  PROVE  Upheld(r)
<1>1. pc[r] = "check" /\ schema' = schema /\ LockHeld /\ NoLedgerYet /\ RunTrue(r)
  BY Known DEF Check
<1>2. CASE Leave(r)
  BY <1>1, <1>2, LeavingKeeps
<1>3. CASE ~Leave(r)
  <2>1. /\ Go(r, "ledger") /\ kind' = kind
        /\ kind[r] = "baseline" => MatchesFirst
    BY <1>3 DEF Check
  <2>2. pc'[r] = "ledger" /\ \A q \in Runners \ {r} : pc'[q] = pc[q]
    BY <2>1, GoMeans
  <2>3. tracked \/ \A q \in Runners : pc'[q] \in {"idle", "check", "ledger"}
    BY <1>1, <2>2 DEF NoLedgerYet
  <2>4. ImportsKnown' /\ NoLedgerYet' /\ LedgerTrue' /\ LedgerCopied'
    BY <1>1, <2>3, SchemaStays
  <2>5. Baselining(r)'
    BY <1>1, <2>1, <2>2 DEF RunTrue, Baselining, MatchesFirst, TableExists, schema
  <2>6. RunTrue(r)'
    BY <2>2, <2>5 DEF RunTrue, Planned, BetweenMigrations, InMigration
  <2> QED  BY <2>4, <2>6 DEF Upheld
<1> QED  BY <1>2, <1>3

LEMMA CreateLedgerKeeps ==
  ASSUME DestinationPart, NEW r \in Runners, CreateLedger(r), UNCHANGED <<owner, import, dir>>
  PROVE  Upheld(r)
<1>1. /\ pc[r] = "ledger" /\ tracked' /\ dialect' = dialect /\ ledger' = ledger /\ done' = done
      /\ kind' = kind
      /\ Go(r, IF kind[r] = "baseline" THEN "insert" ELSE "validate")
      /\ LedgerTrue /\ LedgerCopied /\ RunTrue(r)
  BY Known DEF CreateLedger
<1>2. pc'[r] = IF kind[r] = "baseline" THEN "insert" ELSE "validate"
  BY <1>1, GoMeans
<1>3. ImportsKnown' /\ NoLedgerYet' /\ (Regular' <=> Regular)
      /\ (Nobody' <=> Nobody) /\ (\A s : Has(s)' <=> Has(s))
  BY <1>1, GrowthIsKnown DEF TableExists
<1>4. LedgerTrue'
  BY <1>1, <1>3 DEF LedgerTrue, TrueOf, Kept
<1>5. LedgerCopied'
  BY <1>1, <1>3 DEF LedgerCopied, Copied
<1>6. Baselining(r)'
  BY <1>1, <1>2 DEF RunTrue, Baselining, TableExists
<1>7. RunTrue(r)'
  BY <1>2, <1>6 DEF RunTrue, Planned, BetweenMigrations, InMigration
<1> QED  BY <1>3, <1>4, <1>5, <1>7 DEF Upheld

(* The row of a baseline is written when every table of the first          *)
(* migration exists.                                                       *)
LEMMA BaselineKeeps ==
  ASSUME DestinationPart, NEW r \in Runners, Baseline(r), UNCHANGED <<owner, import, dir>>
  PROVE  Upheld(r)
<1>1. /\ pc[r] = "insert" /\ tracked' = tracked /\ dialect' = dialect /\ done' = done
      /\ ledger' = [ledger EXCEPT ![1] = "APPLIED"] /\ Leave(r)
      /\ MigrationsTypeOK /\ NoLedgerYet /\ LedgerTrue /\ LedgerCopied /\ RunTrue(r)
  BY Known DEF Baseline
<1>2. tracked /\ dialect = "mysql" /\ \A s \in 1..Tables : TableExists(s)
  BY <1>1 DEF NoLedgerYet, RunTrue, Baselining
<1>3. pc'[r] = "idle"
  BY <1>1, LeaveMeans
<1>4. ImportsKnown' /\ NoLedgerYet' /\ (Regular' <=> Regular)
      /\ (Nobody' <=> Nobody) /\ (\A s : Has(s)' <=> Has(s))
  BY <1>1, <1>2, GrowthIsKnown DEF TableExists
<1>5. /\ 1 \in 1..Versions /\ ledger'[1] = "APPLIED" /\ \A v \in 1..Versions : v # 1 => ledger'[v] = ledger[v]
      /\ done \in [1..Versions -> [1..Tables -> Nat]]
  BY <1>1, PartsAre DEF MigrationsTypeOK
<1>6. LedgerTrue'
  <2> SUFFICES ASSUME Regular, NEW v \in 1..Versions PROVE TrueOf(v)'
    BY <1>4 DEF LedgerTrue
  <2>1. TrueOf(v)
    BY <1>1 DEF LedgerTrue
  <2>2. CASE v = 1
    <3>1. ASSUME NEW s \in 1..Tables PROVE done[1][s] = 1
      <4>1. done[1][s] > 0 /\ done[1][s] \in Nat
        BY <1>2, <1>5 DEF TableExists
      <4>2. done[1][s] <= 1
        BY <2>1, <2>2 DEF TrueOf
      <4> QED  BY <4>1, <4>2
    <3>2. 1..(v - 1) = {}
      BY <2>2
    <3> QED  BY <1>1, <1>2, <1>5, <2>1, <2>2, <3>1, <3>2 DEF TrueOf
  <2>3. CASE v # 1
    <3>1. ledger'[v] = ledger[v]
      BY <1>5, <2>3
    <3>2. \A w \in 1..(v - 1) : w \in 1..Versions /\ (ledger[w] = "APPLIED" => ledger'[w] = "APPLIED")
      BY <1>5, PartsAre
    <3> QED  BY <1>1, <1>4, <2>1, <3>1, <3>2 DEF TrueOf, Kept
  <2> QED  BY <2>2, <2>3
<1>7. LedgerCopied'
  <2> SUFFICES ASSUME owner[LedgerPart] # None PROVE LedgerCopied'
    BY DEF LedgerCopied
  <2>1. ImportsKnown /\ dir.complete
    BY Known, PartsAre DEF ImportsKnown
  <2>2. \A s \in 1..Tables : Has(s)
    <3>1. \A s \in 1..Tables : ~Has(s) => done[1][s] = 0
      BY <1>1, <1>5 DEF LedgerCopied
    <3> QED  BY <1>2, <3>1 DEF TableExists
  <2> QED  BY <1>1, <1>4, <1>5, <2>2 DEF LedgerCopied, Copied
<1> QED  BY <1>3, <1>4, <1>6, <1>7, IdleIsTrue DEF Upheld

(* A run that finds the ledger valid knows all of it.                      *)
LEMMA ValidateKeeps ==
  ASSUME DestinationPart, NEW r \in Runners, Validate(r), UNCHANGED <<owner, import, dir>>
  PROVE  Upheld(r)
<1>1. pc[r] = "validate" /\ UNCHANGED schema /\ MigrationsTypeOK /\ NoLedgerYet
  BY Known DEF Validate
<1>2. CASE Leave(r)
  BY <1>1, <1>2, LeavingKeeps
<1>3. CASE ~Leave(r)
  <2>1. /\ ValidLedger(through[r]) /\ Go(r, "migration") /\ through' = through /\ ledger' = ledger
        /\ pending' = [pending EXCEPT ![r] = Unapplied(through[r])]
    BY <1>1, <1>3 DEF Validate, schema
  <2>2. pc'[r] = "migration" /\ tracked
    BY <1>1, <2>1, GoMeans DEF NoLedgerYet
  <2>3. ImportsKnown' /\ NoLedgerYet' /\ LedgerTrue' /\ LedgerCopied'
    BY <1>1, <2>2, SchemaStays
  <2>4. pending'[r] = Unapplied(through[r])
    BY <1>1, <2>1 DEF MigrationsTypeOK
  <2>5. /\ \A v \in 1..Versions : ledger[v] # "APPLYING"
        /\ \A v \in 1..Versions : v > through[r] => ledger[v] = "none"
    <3>1. \A v \in 1..Versions : ledger[v] \in {"none", "APPLYING", "APPLIED"}
      BY <1>1 DEF MigrationsTypeOK
    <3>2. through[r] \in 0..Versions /\ Versions \in Nat
      BY <1>1, PartsAre DEF MigrationsTypeOK
    <3> QED  BY <2>1, <3>1, <3>2 DEF ValidLedger
  <2>6. Planned(r)' /\ BetweenMigrations(r)'
    BY <2>1, <2>4, <2>5 DEF Planned, BetweenMigrations, Unapplied
  <2>7. RunTrue(r)'
    <3>1. kind' = kind /\ dialect' = dialect /\ RunTrue(r)
      BY <1>1, <1>3, Known DEF Validate, schema
    <3> QED  BY <1>1, <2>2, <2>6, <3>1 DEF RunTrue, Baselining, InMigration
  <2> QED  BY <2>3, <2>7 DEF Upheld
<1> QED  BY <1>2, <1>3

(* The first migration that is not applied is not named by the ledger, and *)
(* all before it are complete.                                             *)
LEMMA BeginKeeps ==
  ASSUME DestinationPart, NEW r \in Runners, BeginMigration(r), UNCHANGED <<owner, import, dir>>
  PROVE  Upheld(r)
<1>1. /\ pc[r] = "migration" /\ pending[r] # {}
      /\ UNCHANGED <<dialect, foreign, tracked, done>>
      /\ MigrationsTypeOK /\ NoLedgerYet /\ LedgerTrue /\ LedgerCopied /\ RunTrue(r)
  BY Known DEF BeginMigration
<1>2. CASE Leave(r) /\ ledger' = ledger
  BY <1>1, <1>2, LeavingKeeps DEF schema
<1>3. CASE ~(Leave(r) /\ ledger' = ledger)
  <2>1. PICK c : c = Current(r)
    OBVIOUS
  <2>2. /\ dialect = "mysql" => ledger[c] = "none"
        /\ ledger' = IF dialect = "mysql" THEN [ledger EXCEPT ![c] = "APPLYING"] ELSE ledger
        /\ at' = [at EXCEPT ![r] = 1] /\ Go(r, "statement")
        /\ kind' = kind /\ through' = through /\ pending' = pending
    BY <1>1, <1>3, <2>1 DEF BeginMigration
  <2>3. /\ pc'[r] = "statement" /\ at'[r] = 1 /\ tracked
        /\ pending[r] \in SUBSET (1..Versions) /\ through[r] \in 0..Versions
        /\ dialect \in {"mysql", "postgres"}
        /\ \A v \in 1..Versions : ledger[v] \in {"none", "APPLYING", "APPLIED"}
    BY <1>1, <2>2, GoMeans DEF MigrationsTypeOK, NoLedgerYet
  <2>4. c \in pending[r] /\ c \in 1..Versions /\ \A w \in pending[r] : c <= w
    BY <1>1, <2>1, <2>3, FirstIs DEF Current
  <2>5. /\ \A v \in 1..Versions : v # c => ledger'[v] = ledger[v]
        /\ ledger'[c] = IF dialect = "mysql" THEN "APPLYING" ELSE ledger[c]
    BY <1>1, <2>2, <2>4 DEF MigrationsTypeOK
  <2>6. ImportsKnown' /\ NoLedgerYet' /\ (Regular' <=> Regular)
        /\ (Nobody' <=> Nobody) /\ (\A s : Has(s)' <=> Has(s))
    BY <1>1, <2>3, GrowthIsKnown DEF TableExists
  <2>7. ASSUME Regular
        PROVE  /\ pending[r] = Unapplied(through[r])
               /\ \A v \in 1..Versions : v > through[r] => ledger[v] = "none"
               /\ \A v \in pending[r] : ledger[v] = "none"
               /\ \A w \in 1..(c - 1) : ledger[w] = "APPLIED"
    <3>1. Planned(r) /\ BetweenMigrations(r)
      BY <1>1, <2>7 DEF RunTrue
    <3>2. \A v \in pending[r] : ledger[v] = "none"
      BY <1>1, <2>3, <3>1 DEF Planned, BetweenMigrations, Unapplied
    <3>3. \A w \in 1..(c - 1) : w \in 1..through[r] /\ w \notin pending[r]
      BY <1>1, <2>3, <2>4, <3>1, PartsAre DEF Planned, Unapplied
    <3> QED  BY <1>1, <3>1, <3>2, <3>3 DEF Planned, Unapplied
  <2>8. LedgerTrue'
    <3> SUFFICES ASSUME Regular, NEW v \in 1..Versions PROVE TrueOf(v)'
      BY <2>6 DEF LedgerTrue
    <3>1. TrueOf(v) /\ TrueOf(c)
      BY <1>1, <2>4 DEF LedgerTrue
    <3>2. \A w \in 1..(v - 1) : w \in 1..Versions /\ (ledger[w] = "APPLIED" => ledger'[w] = "APPLIED")
      BY <2>4, <2>5, <2>2, PartsAre
    <3>3. CASE v = c /\ dialect = "mysql"
      <4>1. \A w \in 1..(v - 1) : ledger'[w] = "APPLIED"
        BY <2>7, <3>2, <3>3
      <4> QED  BY <1>1, <2>5, <3>1, <3>3, <4>1 DEF TrueOf
    <3>4. CASE ~(v = c /\ dialect = "mysql")
      <4>1. ledger'[v] = ledger[v]
        BY <2>5, <3>4
      <4> QED  BY <1>1, <2>6, <3>1, <3>2, <4>1 DEF TrueOf, Kept
    <3> QED  BY <3>3, <3>4
  <2>9. LedgerCopied'
    <3>1. \A v \in 1..Versions : ledger[v] = "APPLIED" => ledger'[v] = "APPLIED"
      BY <2>2, <2>5
    <3>2. \A v \in 1..Versions : ledger'[v] = "APPLIED" => ledger[v] = "APPLIED"
      BY <2>3, <2>5
    <3> QED  BY <1>1, <2>6, <3>1, <3>2 DEF LedgerCopied, Copied
  <2>10. Current(r)' = c
    BY <2>1, <2>2 DEF Current
  <2>11. ASSUME Regular PROVE Planned(r)' /\ BetweenMigrations(r)' /\ InMigration(r)'
    <3>1. BetweenMigrations(r)'
      BY <2>3 DEF BetweenMigrations
    <3>2. Planned(r)'
      <4>1. ledger[c] # "APPLIED" /\ c <= through[r]
        BY <2>4, <2>7, <2>11, <2>3 DEF Unapplied
      <4>2. ledger'[c] # "APPLIED"
        BY <2>5, <4>1
      <4>3. Unapplied(through[r])' = Unapplied(through[r])
        <5>1. \A v \in 1..through[r] : v \in 1..Versions
          BY <2>3, PartsAre
        <5> QED  BY <2>2, <2>5, <4>1, <4>2, <5>1 DEF Unapplied
      <4>4. \A v \in 1..Versions : v > through'[r] => ledger'[v] = "none"
        BY <2>2, <2>3, <2>4, <2>5, <2>7, <2>11, <4>1
      <4> QED  BY <2>2, <2>7, <2>11, <4>3, <4>4 DEF Planned
    <3>3. \A v \in pending'[r] : v # c => ledger'[v] = "none"
      BY <2>2, <2>3, <2>5, <2>7, <2>11
    <3>4. \A s \in 1..Tables : ~ (s < at'[r])
      BY <2>3
    <3>5. c > 1 /\ dialect = "mysql" => \A s \in 1..Tables : done[c][s] = 0
      BY <1>1, <2>2, <2>4, <2>11 DEF LedgerTrue, TrueOf
    <3>6. dialect = "postgres" => ledger'[c] = "none"
      BY <2>4, <2>5, <2>7, <2>11
    <3>7. InMigration(r)'
      BY <1>1, <2>5, <2>10, <3>3, <3>4, <3>5, <3>6 DEF InMigration
    <3> QED  BY <3>1, <3>2, <3>7
  <2>12. Baselining(r)'
    BY <1>1, <2>2, <2>3 DEF RunTrue, Baselining
  <2> QED  BY <1>1, <2>2, <2>6, <2>8, <2>9, <2>11, <2>12 DEF Upheld, RunTrue
<1> QED  BY <1>2, <1>3

(* A statement of MySQL takes effect on a table where it never did, and    *)
(* cannot take effect on a table that an import has not brought yet.       *)
LEMMA StatementKeeps ==
  ASSUME DestinationPart, NEW r \in Runners, Statement(r), UNCHANGED <<owner, import, dir>>
  PROVE  Upheld(r)
<1>1. /\ pc[r] = "statement" /\ at[r] <= Tables /\ pending[r] # {}
      /\ UNCHANGED <<dialect, foreign, tracked, ledger>>
      /\ MigrationsTypeOK /\ NoLedgerYet /\ LedgerTrue /\ LedgerCopied /\ RunTrue(r)
  BY Known DEF Statement, RunTrue
<1>2. CASE Leave(r) /\ done' = done
  BY <1>1, <1>2, LeavingKeeps DEF schema
<1>3. CASE ~(Leave(r) /\ done' = done)
  <2>1. /\ at[r] \in 1..Tables /\ pending[r] \in SUBSET (1..Versions) /\ through[r] \in 0..Versions
        /\ dialect \in {"mysql", "postgres"} /\ tracked
        /\ done \in [1..Versions -> [1..Tables -> Nat]]
    <3>1. at[r] \in 1..Tables + 1 /\ Tables \in Nat
      BY <1>1, PartsAre DEF MigrationsTypeOK
    <3>2. at[r] \in 1..Tables
      BY <1>1, <3>1
    <3>3. tracked
      BY <1>1 DEF NoLedgerYet
    <3> QED  BY <1>1, <3>2, <3>3 DEF MigrationsTypeOK
  <2>2. Current(r) \in pending[r]
    BY <1>1, <2>1, FirstIs DEF Current
  <2>3. PICK c \in 1..Versions, k \in 1..Tables : c = Current(r) /\ k = at[r]
    BY <2>1, <2>2
  <2>4. /\ Possible(c, k) /\ pc' = pc /\ kind' = kind /\ through' = through /\ pending' = pending
        /\ done' = IF dialect = "mysql" THEN [done EXCEPT ![c][k] = @ + 1] ELSE done
        /\ at' = [at EXCEPT ![r] = @ + 1]
    BY <1>1, <1>3, <2>3 DEF Statement
  <2>5. /\ at'[r] = k + 1 /\ Current(r)' = c
        /\ dialect = "mysql" => done'[c][k] = done[c][k] + 1
        /\ \A v \in 1..Versions, s \in 1..Tables :
             v # c \/ s # k \/ dialect = "postgres" => done'[v][s] = done[v][s]
        /\ \A v \in 1..Versions, s \in 1..Tables : done[v][s] \in Nat /\ done'[v][s] \in Nat
    <3>1. at'[r] = k + 1
      BY <1>1, <2>3, <2>4 DEF MigrationsTypeOK
    <3>2. Current(r)' = c
      BY <2>3, <2>4 DEF Current
    <3>3. dialect = "mysql" =>
            /\ done'[c] = [done[c] EXCEPT ![k] = @ + 1]
            /\ \A v \in 1..Versions : v # c => done'[v] = done[v]
      BY <2>1, <2>4
    <3>4. \A v \in 1..Versions : done[v] \in [1..Tables -> Nat]
      BY <2>1
    <3>5. dialect = "mysql" => done'[c][k] = done[c][k] + 1
                               /\ \A s \in 1..Tables : s # k => done'[c][s] = done[c][s]
      BY <3>3, <3>4
    <3>6. \A v \in 1..Versions, s \in 1..Tables :
             v # c \/ s # k \/ dialect = "postgres" => done'[v][s] = done[v][s]
      BY <2>4, <3>3, <3>5, <2>1
    <3>7. \A v \in 1..Versions, s \in 1..Tables : done[v][s] \in Nat
      BY <3>4
    <3>8. \A v \in 1..Versions, s \in 1..Tables : done'[v][s] \in Nat
      BY <2>1, <3>5, <3>6, <3>7
    <3> QED  BY <3>1, <3>2, <3>5, <3>6, <3>7, <3>8
  <2>6. \A s \in 1..Tables : TableExists(s) => TableExists(s)'
    <3>1. 1 \in 1..Versions
      BY PartsAre
    <3>2. \A s \in 1..Tables : done[1][s] > 0 => done'[1][s] > 0
      BY <2>1, <2>5, <3>1
    <3> QED  BY <3>2 DEF TableExists
  <2>7. ImportsKnown' /\ NoLedgerYet' /\ (Regular' <=> Regular)
        /\ (Nobody' <=> Nobody) /\ (\A s : Has(s)' <=> Has(s))
    BY <1>1, <2>1, <2>6, GrowthIsKnown
  <2>8. ASSUME Regular
        PROVE  /\ Planned(r) /\ InMigration(r)
               /\ dialect = "mysql" => done[c][k] = 0 /\ ledger[c] = "APPLYING"
    <3>1. Planned(r) /\ InMigration(r)
      BY <1>1, <2>8 DEF RunTrue
    <3>2. CASE dialect = "mysql" /\ c > 1
      BY <1>1, <2>3, <2>1, <3>1, <3>2 DEF InMigration
    <3>3. CASE dialect = "mysql" /\ c = 1
      <4>1. ~(done[1][k] > 0)
        BY <2>4, <3>3 DEF Possible, TableExists
      <4> QED  BY <1>1, <2>3, <2>5, <3>1, <3>3, <4>1 DEF InMigration
    <3> QED  BY <2>1, <2>3, <3>1, <3>2, <3>3
  <2>9. LedgerTrue'
    <3> SUFFICES ASSUME Regular, NEW v \in 1..Versions PROVE TrueOf(v)'
      BY <2>7 DEF LedgerTrue
    <3>1. TrueOf(v)
      BY <1>1 DEF LedgerTrue
    <3>2. CASE v = c /\ dialect = "mysql"
      <4>1. ledger[c] = "APPLYING" /\ done[c][k] = 0
        BY <2>8, <3>2
      <4>2. \A s \in 1..Tables : done'[c][s] <= 1
        BY <2>5, <3>1, <3>2, <4>1 DEF TrueOf
      <4> QED  BY <1>1, <3>1, <3>2, <4>1, <4>2 DEF TrueOf
    <3>3. CASE ~(v = c /\ dialect = "mysql")
      <4>1. \A s \in 1..Tables : done'[v][s] = done[v][s]
        BY <2>1, <2>5, <3>3
      <4> QED  BY <1>1, <2>7, <3>1, <4>1 DEF TrueOf, Kept
    <3> QED  BY <3>2, <3>3
  <2>10. LedgerCopied'
    <3> SUFFICES ASSUME owner[LedgerPart] # None, dialect = "mysql" PROVE LedgerCopied'
      <4>1. ~(owner[LedgerPart] # None /\ dialect = "mysql") => LedgerCopied'
        BY Known, PartsAre DEF ImportsKnown, LedgerCopied
      <4> QED  BY <4>1
    <3>1. Has(k)
      <4> SUFFICES ASSUME ~Has(k) PROVE FALSE
        OBVIOUS
      <4>1. Copied \in 1..Versions /\ 1 \in 1..Versions /\ ledger[1] = "APPLIED"
        BY <1>1, PartsAre DEF LedgerCopied
      <4>2. done[1][k] = 0
        BY <1>1, PartsAre DEF LedgerCopied
      <4>3. c = 1
        BY <2>4, <4>2, <2>3, PartsAre DEF Possible, TableExists
      <4>4. Planned(r) /\ ledger[c] = "APPLYING"
        BY <2>8 DEF Regular
      <4> QED  BY <4>1, <4>3, <4>4
    <3>2. \A s \in 1..Tables : ~Has(s) => \A v \in 1..Versions : done'[v][s] = done[v][s]
      BY <2>5, <3>1
    <3> QED  BY <1>1, <2>7, <3>2 DEF LedgerCopied, Copied
  <2>11. ASSUME Regular PROVE Planned(r)' /\ BetweenMigrations(r)' /\ InMigration(r)'
    <3>1. BetweenMigrations(r)'
      BY <1>1, <2>4 DEF BetweenMigrations
    <3>2. Planned(r)'
      BY <1>1, <2>4, <2>8, <2>11 DEF Planned, Unapplied
    <3>3. dialect = "mysql" => \A s \in 1..Tables : s < k + 1 => done'[c][s] = 1
      <4>1. dialect = "mysql" => \A s \in 1..Tables : s < k => done[c][s] = 1
        BY <1>1, <2>3, <2>8, <2>11 DEF InMigration
      <4>2. dialect = "mysql" => done'[c][k] = 1
        BY <2>5, <2>8, <2>11
      <4> QED  BY <2>1, <2>5, <4>1, <4>2
    <3>4. dialect = "mysql" /\ c > 1 => \A s \in 1..Tables : s >= k + 1 => done'[c][s] = 0
      <4>1. dialect = "mysql" /\ c > 1 => \A s \in 1..Tables : s >= k => done[c][s] = 0
        BY <1>1, <2>3, <2>8, <2>11 DEF InMigration
      <4> QED  BY <2>1, <2>5, <4>1
    <3>5. InMigration(r)'
      BY <1>1, <2>3, <2>4, <2>5, <2>8, <2>11, <3>3, <3>4 DEF InMigration
    <3> QED  BY <3>1, <3>2, <3>5
  <2>12. Baselining(r)'
    BY <1>1, <2>4 DEF RunTrue, Baselining
  <2> QED  BY <1>1, <2>4, <2>7, <2>9, <2>10, <2>11, <2>12 DEF Upheld, RunTrue
<1> QED  BY <1>2, <1>3

(* A migration is recorded when all of its statements took effect, which   *)
(* they did on every table or, in PostgreSQL, do now.                      *)
LEMMA EndKeeps ==
  ASSUME DestinationPart, NEW r \in Runners, EndMigration(r), UNCHANGED <<owner, import, dir>>
  PROVE  Upheld(r)
<1>1. /\ pc[r] = "statement" /\ at[r] > Tables /\ pending[r] # {}
      /\ UNCHANGED <<dialect, foreign, tracked>> /\ kind' = kind /\ through' = through
      /\ MigrationsTypeOK /\ NoLedgerYet /\ LedgerTrue /\ LedgerCopied /\ RunTrue(r)
  BY Known DEF EndMigration, RunTrue
<1>2. /\ pending[r] \in SUBSET (1..Versions) /\ through[r] \in 0..Versions
      /\ dialect \in {"mysql", "postgres"}
      /\ done \in [1..Versions -> [1..Tables -> Nat]]
      /\ \A v \in 1..Versions : ledger[v] \in {"none", "APPLYING", "APPLIED"}
  BY <1>1 DEF MigrationsTypeOK
<1>3. tracked
  BY <1>1 DEF NoLedgerYet
<1>4. Current(r) \in pending[r] /\ \A w \in pending[r] : Current(r) <= w
  BY <1>1, <1>2, FirstIs DEF Current
<1>5. PICK c \in 1..Versions : c = Current(r)
  BY <1>2, <1>4
<1>6. /\ ledger' = [ledger EXCEPT ![c] = "APPLIED"]
      /\ done' = IF dialect = "mysql" THEN done
                 ELSE [done EXCEPT ![c] = [s \in 1..Tables |-> done[c][s] + 1]]
      /\ pending' = [pending EXCEPT ![r] = @ \ {c}]
      /\ Go(r, "migration")
  BY <1>2, <1>5 DEF EndMigration
<1>7. /\ pc'[r] = "migration" /\ pending'[r] = pending[r] \ {c}
      /\ ledger'[c] = "APPLIED" /\ \A v \in 1..Versions : v # c => ledger'[v] = ledger[v]
  BY <1>1, <1>6, GoMeans DEF MigrationsTypeOK
<1>8. /\ \A v \in 1..Versions, s \in 1..Tables : done[v][s] \in Nat
      /\ \A v \in 1..Versions, s \in 1..Tables :
           done'[v][s] = IF dialect = "postgres" /\ v = c THEN done[v][s] + 1 ELSE done[v][s]
  <2>1. \A v \in 1..Versions : done[v] \in [1..Tables -> Nat]
    BY <1>2
  <2>2. \A v \in 1..Versions, s \in 1..Tables : done[v][s] \in Nat
    BY <2>1
  <2>3. CASE dialect = "mysql"
    BY <1>6, <2>2, <2>3
  <2>4. CASE dialect = "postgres"
    <3>1. done' = [done EXCEPT ![c] = [s \in 1..Tables |-> done[c][s] + 1]]
      BY <1>6, <2>4
    <3>2. \A v \in 1..Versions :
            done'[v] = IF v = c THEN [s \in 1..Tables |-> done[c][s] + 1] ELSE done[v]
      BY <1>2, <3>1
    <3> QED  BY <2>2, <2>4, <3>2
  <2> QED  BY <1>2, <2>2, <2>3, <2>4
<1>9. ImportsKnown' /\ NoLedgerYet' /\ (Regular' <=> Regular)
      /\ (Nobody' <=> Nobody) /\ (\A s : Has(s)' <=> Has(s))
  <2>1. 1 \in 1..Versions
    BY PartsAre
  <2>2. \A s \in 1..Tables : done[1][s] > 0 => done'[1][s] > 0
    BY <1>8, <2>1
  <2>3. \A s \in 1..Tables : TableExists(s) => TableExists(s)'
    BY <2>2 DEF TableExists
  <2> QED  BY <1>1, <1>3, <2>3, GrowthIsKnown
<1>10. ASSUME Regular
       PROVE  /\ pending[r] = Unapplied(through[r])
              /\ \A v \in 1..Versions : v > through[r] => ledger[v] = "none"
              /\ \A v \in pending[r] : v # c => ledger[v] = "none"
              /\ \A s \in 1..Tables : done'[c][s] = 1
              /\ \A w \in 1..(c - 1) : ledger[w] = "APPLIED"
              /\ ledger[c] # "APPLIED" /\ c <= through[r]
  <2>1. Planned(r) /\ InMigration(r)
    BY <1>1, <1>10 DEF RunTrue
  <2>2. \A v \in 1..Versions : v > through[r] => ledger[v] = "none"
    BY <1>1, <2>1 DEF Planned
  <2>3. pending[r] = Unapplied(through[r])
    BY <1>1, <2>1 DEF Planned
  <2>4. \A v \in pending[r] : v # c => ledger[v] = "none"
    BY <1>1, <1>5, <2>1 DEF InMigration
  <2>5. ledger[c] # "APPLIED" /\ c <= through[r]
    BY <1>2, <1>4, <1>5, <2>3 DEF Unapplied
  <2>6. \A w \in 1..(c - 1) : w \in 1..through[r] /\ w \notin pending[r]
    <3> TAKE w \in 1..(c - 1)
    <3>1. c \in Nat /\ through[r] \in Nat /\ w \in Nat /\ w < c /\ 1 <= w
      BY <1>2, PartsAre
    <3>2. w \in pending[r] => c <= w
      BY <1>4, <1>5
    <3> QED  BY <2>5, <3>1, <3>2
  <2>7. \A w \in 1..(c - 1) : ledger[w] = "APPLIED"
    BY <2>3, <2>6 DEF Unapplied
  <2>8. CASE dialect = "mysql"
    <3>1. \A s \in 1..Tables : s < at[r]
      <4>1. at[r] \in 1..Tables + 1 /\ Tables \in Nat
        BY <1>1, PartsAre DEF MigrationsTypeOK
      <4> QED  BY <1>1, <4>1
    <3>2. \A s \in 1..Tables : done[c][s] = 1
      BY <1>1, <1>5, <2>1, <2>8, <3>1 DEF InMigration
    <3>3. \A s \in 1..Tables : done'[c][s] = 1
      BY <1>8, <2>8, <3>2
    <3> QED  BY <2>2, <2>3, <2>4, <2>5, <2>7, <3>3
  <2>9. CASE dialect = "postgres"
    <3>1. \A s \in 1..Tables : done[c][s] = 0
      BY <1>1, <1>10, <2>5, <2>9 DEF LedgerTrue, TrueOf
    <3>2. \A s \in 1..Tables : done'[c][s] = 1
      BY <1>8, <2>9, <3>1
    <3> QED  BY <2>2, <2>3, <2>4, <2>5, <2>7, <3>2
  <2> QED  BY <1>2, <2>8, <2>9
<1>11. LedgerTrue'
  <2> SUFFICES ASSUME Regular, NEW v \in 1..Versions PROVE TrueOf(v)'
    BY <1>9 DEF LedgerTrue
  <2>1. TrueOf(v)
    BY <1>1 DEF LedgerTrue
  <2>2. \A w \in 1..(v - 1) : w \in 1..Versions /\ (ledger[w] = "APPLIED" => ledger'[w] = "APPLIED")
    BY <1>7, PartsAre
  <2>3. CASE v = c
    <3>1. \A w \in 1..(v - 1) : ledger'[w] = "APPLIED"
      BY <1>10, <2>2, <2>3
    <3> QED  BY <1>7, <1>10, <2>3, <3>1 DEF TrueOf
  <2>4. CASE v # c
    <3>1. ledger'[v] = ledger[v] /\ \A s \in 1..Tables : done'[v][s] = done[v][s]
      BY <1>7, <1>8, <2>4
    <3> QED  BY <1>1, <1>9, <2>1, <2>2, <3>1 DEF TrueOf, Kept
  <2> QED  BY <2>3, <2>4
<1>12. LedgerCopied'
  <2> SUFFICES ASSUME owner[LedgerPart] # None PROVE LedgerCopied'
    BY DEF LedgerCopied
  <2>1. dialect = "mysql" /\ Regular
    BY Known, PartsAre DEF ImportsKnown, Regular
  <2>2. \A v \in 1..Versions, s \in 1..Tables : done'[v][s] = done[v][s]
    BY <1>8, <2>1
  <2>3. \A s \in 1..Tables : Has(s)
    <3>1. \A s \in 1..Tables : done[c][s] = 1
      BY <1>10, <2>1, <2>2
    <3> QED  BY <1>1, <3>1 DEF LedgerCopied
  <2>4. \A v \in 1..Versions : v <= Copied => ledger'[v] = "APPLIED"
    BY <1>1, <1>7 DEF LedgerCopied
  <2> QED  BY <1>1, <1>9, <2>3, <2>4 DEF LedgerCopied, Copied
<1>13. ASSUME Regular PROVE Planned(r)' /\ BetweenMigrations(r)' /\ InMigration(r)'
  <2>1. Unapplied(through[r])' = Unapplied(through[r]) \ {c}
    <3>1. \A v \in 1..through[r] : v \in 1..Versions
      BY <1>2, PartsAre
    <3> QED  BY <1>1, <1>7, <3>1 DEF Unapplied
  <2>2. \A v \in 1..Versions : v > through'[r] => ledger'[v] = "none"
    BY <1>1, <1>2, <1>7, <1>10, <1>13
  <2>3. Planned(r)'
    BY <1>7, <1>10, <1>13, <2>1, <2>2 DEF Planned
  <2>4. \A v \in 1..Versions : ledger'[v] # "APPLYING"
    <3>1. \A v \in 1..Versions : v \in pending[r] \/ v > through[r] \/ ledger[v] = "APPLIED"
      BY <1>2, <1>10, <1>13 DEF Unapplied
    <3> QED  BY <1>7, <1>10, <1>13, <3>1
  <2> QED  BY <1>7, <2>3, <2>4 DEF BetweenMigrations, InMigration
<1>14. Baselining(r)'
  BY <1>1, <1>7 DEF RunTrue, Baselining
<1> QED  BY <1>7, <1>9, <1>11, <1>12, <1>13, <1>14 DEF Upheld, RunTrue

(* Whatever a run does next, what is known of the destination stays true.  *)
LEMMA RunUpholds ==
  ASSUME DestinationPart, NEW r \in Runners, RunStep(r), UNCHANGED <<owner, import, dir>>
  PROVE  Upheld(r)
<1>1. CASE EndRun(r) \/ StopRun(r)
  BY <1>1, RunFrame, LeavingKeeps DEF EndRun, StopRun
<1> QED  BY <1>1, CheckKeeps, CreateLedgerKeeps, BaselineKeeps, ValidateKeeps, BeginKeeps,
         StatementKeeps, EndKeeps DEF RunStep

(* Connecting takes the lock, and changes nothing in the database.         *)
LEMMA ConnectKeeps ==
  ASSUME DestinationPart, NEW r \in Runners, NEW k \in Kinds, NEW last \in 0..Versions,
         Connect(r, k, last), UNCHANGED <<owner, import, dir>>
  PROVE  /\ MigrationsTypeOK' /\ Upheld(r) /\ LockHeld' /\ dialect' = dialect
         /\ \A q \in Runners \ {r} : pc[q] = "idle" /\ pc'[q] = "idle"
<1>1. /\ pc[r] = "idle" /\ holder = None /\ holder' = r /\ Go(r, "check")
      /\ k = "baseline" => dialect = "mysql"
      /\ kind' = [kind EXCEPT ![r] = k] /\ through' = [through EXCEPT ![r] = last]
      /\ pending' = [pending EXCEPT ![r] = {}] /\ applied' = [applied EXCEPT ![r] = {}]
      /\ runs < MaxRuns /\ runs' = runs + 1 /\ at' = at /\ stops' = stops
      /\ UNCHANGED schema
      /\ MigrationsTypeOK /\ LockHeld /\ NoLedgerYet
  BY Known DEF Connect, Take
<1>2. pc'[r] = "check" /\ \A q \in Runners \ {r} : pc'[q] = pc[q]
  BY <1>1, GoMeans
<1>3. \A q \in Runners : pc[q] = "idle"
  BY <1>1, MigrationsAssumption DEF LockHeld
<1>4. MigrationsTypeOK'
  <2>1. pc' \in [Runners -> {"idle", "check", "ledger", "insert", "validate", "migration",
                             "statement"}]
    BY <1>1, GoMeans
  <2>2. runs' \in 0..MaxRuns
    BY <1>1, MigrationsAssumption DEF MigrationsTypeOK
  <2> QED  BY <1>1, <2>1, <2>2 DEF MigrationsTypeOK, schema
<1>5. ImportsKnown' /\ NoLedgerYet' /\ LedgerTrue' /\ LedgerCopied'
  BY <1>1, <1>2, <1>3, SchemaStays
<1>6. kind'[r] = k /\ dialect' = dialect
  BY <1>1 DEF MigrationsTypeOK, schema
<1>7. RunTrue(r)'
  BY <1>1, <1>2, <1>6 DEF RunTrue, Baselining, Planned, BetweenMigrations, InMigration
<1>8. LockHeld'
  BY <1>1, <1>2, <1>3 DEF LockHeld
<1> QED  BY <1>2, <1>3, <1>4, <1>5, <1>6, <1>7, <1>8 DEF Upheld

(* The restores see nothing of a run but its steps.                        *)
LEMMA OthersRun ==
  ASSUME DestinationPart, NEW r \in Runners, RunnerStep(r)
  PROVE  DestinationPart'
<1>0. /\ RunStep(r) \/ (r \notin Restorers /\ \E k \in Kinds : Connect(r, k, Versions))
      /\ UNCHANGED <<restore, dir>>
  BY DEF RunnerStep, backup
<1>1. /\ step' = step /\ connected' = connected /\ import' = import /\ owner' = owner
      /\ triggers' = triggers /\ transferring' = transferring /\ dir' = dir
      /\ RestoreTypes /\ \A x \in Restorers : RestoreHonest(x)
  BY <1>0, Known DEF restore
<1>2. /\ MigrationsTypeOK' /\ Upheld(r) /\ LockHeld' /\ dialect' = dialect
      /\ \A q \in Runners \ {r} : pc'[q] = "idle"
      /\ r \in Restorers => pc[r] # "idle"
  <2>1. CASE RunStep(r)
    <3>1. /\ pc[r] # "idle" /\ holder = r /\ dialect' = dialect
          /\ \A q \in Runners \ {r} : pc'[q] = "idle"
          /\ Leave(r) \/ holder' = holder
      BY <2>1, RunFrame
    <3>2. LockHeld'
      BY <3>1, LeaveMeans DEF LockHeld
    <3> QED  BY <1>1, <2>1, <3>1, <3>2, RunTypes, RunUpholds
  <2>2. CASE r \notin Restorers /\ \E k \in Kinds : Connect(r, k, Versions)
    <3>1. Versions \in 0..Versions
      BY PartsAre
    <3> QED  BY <1>1, <2>2, <3>1, ConnectKeeps
  <2> QED  BY <1>0, <2>1, <2>2
<1>3. RestoreTypes'
  BY <1>1 DEF RestoreTypes
<1>4. ASSUME NEW x \in Restorers PROVE RestoreHonest(x)'
  <2>1. pc'[x] # "idle" => pc[x] # "idle"
    BY <1>2, TransferAssumption
  <2> QED  BY <1>1, <1>2, <2>1 DEF RestoreHonest
<1>5. \A q \in Runners : RunTrue(q)'
  BY <1>2, IdleIsTrue DEF Upheld
<1> QED  BY <1>2, <1>3, <1>4, <1>5 DEF DestinationPart, Upheld

-----------------------------------------------------------------------------
(* The restores                                                            *)

(* What such a step may do to the database and to the runners: nothing,    *)
(* but for the migration lock.                                             *)
Aside(x) ==
  /\ UNCHANGED <<schema, owner, dir, runner>>
  /\ runs' \in 0..MaxRuns /\ stops' \in 0..MaxStops
  /\ holder' = holder \/ (holder = None /\ holder' = x) \/ Release(x)

(* A step of a restore that leaves the database alone is right when it     *)
(* leaves every restore honest.                                            *)
LEMMA QuietRestore ==
  ASSUME DestinationPart, NEW x \in Restorers, pc[x] = "idle", Aside(x),
         import' = import \/ ImportsKnown',
         RestoreTypes', \A y \in Restorers : RestoreHonest(y)'
  PROVE  DestinationPart'
<1>0. /\ UNCHANGED <<schema, owner, dir, runner>>
      /\ runs' \in 0..MaxRuns /\ stops' \in 0..MaxStops
      /\ holder' = holder \/ (holder = None /\ holder' = x) \/ Release(x)
  BY DEF Aside
<1>1. /\ dialect' = dialect /\ foreign' = foreign /\ tracked' = tracked /\ ledger' = ledger
      /\ done' = done /\ owner' = owner /\ dir' = dir
      /\ pc' = pc /\ kind' = kind /\ through' = through /\ pending' = pending /\ at' = at
      /\ applied' = applied
      /\ MigrationsTypeOK /\ LockHeld /\ NoLedgerYet /\ \A r \in Runners : RunTrue(r)
      /\ x \in Runners
  BY <1>0, Known, TransferAssumption DEF schema, runner
<1>2. MigrationsTypeOK'
  <2>1. holder' \in Runners \cup {None}
    BY <1>0, <1>1 DEF Release, MigrationsTypeOK
  <2> QED  BY <1>0, <1>1, <2>1 DEF MigrationsTypeOK
<1>3. LockHeld'
  BY <1>0, <1>1, MigrationsAssumption DEF LockHeld, Release
<1>4. ImportsKnown' /\ NoLedgerYet' /\ LedgerTrue' /\ LedgerCopied' /\ (Regular' <=> Regular)
  <2>1. tracked \/ \A r \in Runners : pc'[r] \in {"idle", "check", "ledger"}
    BY <1>1 DEF NoLedgerYet
  <2> QED  BY <1>0, <1>1, <2>1, SchemaStays
<1>5. ASSUME NEW r \in Runners PROVE RunTrue(r)'
  <2>1. RunTrue(r) /\ (Current(r)' = Current(r)) /\ (Unapplied(through[r])' = Unapplied(through[r]))
        /\ \A s \in 1..Tables : TableExists(s)' <=> TableExists(s)
    BY <1>1 DEF Current, Unapplied, TableExists
  <2>2. Baselining(r)'
    BY <1>1, <2>1 DEF RunTrue, Baselining
  <2>3. Regular => Planned(r)' /\ BetweenMigrations(r)' /\ InMigration(r)'
    BY <1>1, <2>1 DEF RunTrue, Planned, BetweenMigrations, InMigration
  <2> QED  BY <1>1, <1>4, <2>1, <2>2, <2>3 DEF RunTrue
<1> QED  BY <1>2, <1>3, <1>4, <1>5 DEF DestinationPart

(* One restore takes a step: the others know what they knew, and it knows  *)
(* what its new step relies on.                                            *)
LEMMA QuietStep ==
  ASSUME DestinationPart, NEW x \in Restorers, NEW t \in RestoreSteps,
         step' = [step EXCEPT ![x] = t], pc[x] = "idle", dir.complete, dialect = "mysql",
         Aside(x), transferring' \in {transferring, None, x},
         connected' \in [Restorers -> BOOLEAN],
         triggers' = triggers \/ (triggers = None /\ triggers' = x),
         \/ import' = import /\ (import[x] # 0 => t \notin BeforeImport)
         \/ import' = [import EXCEPT ![x] = 1] /\ t = "import" /\ ImportsKnown',
         t \in AfterImport => import[x] = Tables + 2 /\ triggers' = x
  PROVE  DestinationPart'
<1>1. /\ RestoreTypes /\ \A y \in Restorers : RestoreHonest(y)
      /\ dialect' = dialect /\ owner' = owner /\ dir' = dir /\ pc' = pc
      /\ Tables \in Nat /\ x # None
  BY Known, PartsAre, TransferAssumption, MigrationsAssumption DEF Aside, schema, runner
<1>2. /\ step'[x] = t /\ \A y \in Restorers \ {x} : step'[y] = step[y]
      /\ \A y \in Restorers \ {x} : import'[y] = import[y]
      /\ \/ import'[x] = import[x] /\ (import[x] # 0 => t \notin BeforeImport)
         \/ import'[x] = 1 /\ t = "import"
  BY <1>1 DEF RestoreTypes
<1>3. RestoreTypes'
  <2>1. 1 \in 0..Tables + 2
    BY <1>1
  <2> QED  BY <1>1, <2>1 DEF RestoreTypes
<1>4. ASSUME NEW y \in Restorers \ {x} PROVE RestoreHonest(y)'
  <2>1. y # None /\ RestoreHonest(y) /\ step'[y] = step[y] /\ import'[y] = import[y]
    BY <1>1, <1>2, TransferAssumption, MigrationsAssumption
  <2> QED  BY <1>1, <2>1 DEF RestoreHonest, AfterImport
<1>5. RestoreHonest(x)'
  <2>1. RestoreHonest(x)
    BY <1>1
  <2>2. \A j \in Parts : j < import'[x] => owner'[j] = x
    <3>1. \A j \in Parts : ~ (j < 1)
      BY <1>1 DEF Parts
    <3> QED  BY <1>1, <1>2, <2>1, <3>1 DEF RestoreHonest
  <2>3. t \in AfterImport => import'[x] = Tables + 2 /\ triggers' = x
    BY <1>2 DEF AfterImport
  <2>4. import'[x] # 0 => t \notin BeforeImport
    BY <1>2 DEF BeforeImport
  <2> QED  BY <1>1, <1>2, <2>2, <2>3, <2>4 DEF RestoreHonest
<1>6. \A y \in Restorers : RestoreHonest(y)'
  BY <1>4, <1>5
<1>7. import' = import \/ ImportsKnown'
  OBVIOUS
<1> QED  BY <1>3, <1>6, <1>7, QuietRestore

(* A restore that fails lets go of what it holds.                          *)
LEMMA GiveKeeps ==
  ASSUME DestinationPart, NEW x \in Restorers, pc[x] = "idle", step[x] # "idle", Give(x),
         UNCHANGED <<schema, dir, runner>>,
         runs' \in 0..MaxRuns, stops' \in 0..MaxStops
  PROVE  DestinationPart'
<1>1. RestoreTypes /\ RestoreHonest(x)
  BY Known
<1>2. /\ step' = [step EXCEPT ![x] = "failed"] /\ import' = import /\ triggers' = triggers
      /\ owner' = owner /\ Release(x)
      /\ transferring' \in {transferring, None, x}
      /\ connected' = [connected EXCEPT ![x] = FALSE]
  BY DEF Give, Goes, Unlock
<1>3. connected' \in [Restorers -> BOOLEAN]
  BY <1>1, <1>2 DEF RestoreTypes
<1>4. "failed" \in RestoreSteps /\ "failed" \notin BeforeImport /\ "failed" \notin AfterImport
  BY DEF RestoreSteps, BeforeImport, AfterImport
<1>5. dir.complete /\ dialect = "mysql"
  BY <1>1 DEF RestoreHonest
<1>6. Aside(x)
  BY <1>2 DEF Aside
<1> QED  BY <1>2, <1>3, <1>4, <1>5, <1>6, QuietStep

(* A restore starts with a backup that is complete.                        *)
LEMMA StartKeeps ==
  ASSUME DestinationPart, NEW x \in Restorers, StartRestore(x)
  PROVE  DestinationPart'
<1>1. /\ RestoreTypes /\ RestoreHonest(x) /\ MigrationsTypeOK
  BY Known
<1>2. /\ step[x] = "idle" /\ pc[x] = "idle" /\ dir.complete /\ dialect = "mysql"
      /\ step' = [step EXCEPT ![x] = "transfer lock"]
      /\ connected' = [connected EXCEPT ![x] = TRUE]
      /\ UNCHANGED <<schema, holder, import, owner, triggers, transferring, runner, runs, stops, dir>>
  BY DEF StartRestore, Goes, Elsewhere, limits, backup
<1>3. import[x] = 0 /\ "transfer lock" \in RestoreSteps /\ "transfer lock" \notin AfterImport
  BY <1>1, <1>2 DEF RestoreHonest, RestoreSteps, BeforeImport, AfterImport
<1>4. Aside(x)
  BY <1>1, <1>2 DEF Aside, MigrationsTypeOK
<1>5. connected' \in [Restorers -> BOOLEAN]
  BY <1>1, <1>2 DEF RestoreTypes
<1> QED  BY <1>2, <1>3, <1>4, <1>5, QuietStep

(* An error, wherever it is met.                                           *)
LEMMA GivingKeeps ==
  ASSUME DestinationPart, NEW x \in Restorers, step[x] \notin {"idle", "migrating"}, Give(x),
         UNCHANGED schema, Elsewhere
  PROVE  DestinationPart'
<1>1. MigrationsTypeOK /\ RestoreHonest(x)
  BY Known
<1>2. pc[x] = "idle" /\ UNCHANGED <<schema, dir, runner, runs, stops>>
  BY <1>1 DEF RestoreHonest, Elsewhere, limits, backup
<1>3. runs' \in 0..MaxRuns /\ stops' \in 0..MaxStops
  BY <1>1, <1>2 DEF MigrationsTypeOK
<1> QED  BY <1>2, <1>3, GiveKeeps

(* What a step that goes on needs, given where it goes.                    *)
LEMMA GoingKeeps ==
  ASSUME DestinationPart, NEW x \in Restorers, step[x] \notin {"idle", "migrating"},
         NEW t \in RestoreSteps, Goes(x, t), UNCHANGED <<schema, connected, owner>>, Elsewhere,
         holder' = holder \/ (holder = None /\ holder' = x) \/ Release(x),
         transferring' \in {transferring, None, x},
         triggers' = triggers \/ (triggers = None /\ triggers' = x),
         \/ import' = import /\ (import[x] # 0 => t \notin BeforeImport)
         \/ import' = [import EXCEPT ![x] = 1] /\ t = "import" /\ ImportsKnown',
         t \in AfterImport => import[x] = Tables + 2 /\ triggers' = x
  PROVE  DestinationPart'
<1>1. MigrationsTypeOK /\ RestoreHonest(x) /\ RestoreTypes
  BY Known
<1>2. pc[x] = "idle" /\ dir.complete /\ dialect = "mysql"
      /\ UNCHANGED <<schema, owner, dir, runner, runs, stops>>
      /\ step' = [step EXCEPT ![x] = t]
  BY <1>1 DEF RestoreHonest, Elsewhere, limits, backup, Goes
<1>3. Aside(x)
  BY <1>1, <1>2 DEF Aside, MigrationsTypeOK
<1>4. connected' \in [Restorers -> BOOLEAN]
  BY <1>1 DEF RestoreTypes
<1> QED  BY <1>2, <1>3, <1>4, QuietStep

LEMMA LocksKeep ==
  ASSUME DestinationPart, NEW x \in Restorers, TakeTransferLock(x) \/ TakeMigrationLock(x)
  PROVE  DestinationPart'
<1>1. RestoreHonest(x)
  BY Known
<1>2. step[x] \in {"transfer lock", "migration lock"} /\ UNCHANGED schema /\ Elsewhere
  BY DEF TakeTransferLock, TakeMigrationLock
<1>3. step[x] \notin {"idle", "migrating"} /\ import[x] = 0
  BY <1>1, <1>2 DEF RestoreHonest, BeforeImport
<1>4. CASE Give(x)
  BY <1>2, <1>3, <1>4, GivingKeeps
<1>5. CASE TakeTransferLock(x) /\ ~Give(x)
  <2>1. /\ transferring' = x /\ Goes(x, "migration lock")
        /\ UNCHANGED <<holder, connected, import, owner, triggers>>
    BY <1>5 DEF TakeTransferLock
  <2>2. "migration lock" \in RestoreSteps /\ "migration lock" \notin AfterImport
    BY DEF RestoreSteps, AfterImport
  <2> QED  BY <1>2, <1>3, <2>1, <2>2, GoingKeeps
<1>6. CASE TakeMigrationLock(x) /\ ~Give(x)
  <2>1. /\ holder = None /\ holder' = x /\ Goes(x, "empty")
        /\ UNCHANGED <<connected, import, owner, triggers, transferring>>
    BY <1>6 DEF TakeMigrationLock, Take
  <2>2. "empty" \in RestoreSteps /\ "empty" \notin AfterImport
    BY DEF RestoreSteps, AfterImport
  <2> QED  BY <1>2, <1>3, <2>1, <2>2, GoingKeeps
<1> QED  BY <1>4, <1>5, <1>6

(* An empty destination has nothing of anyone, and no statement of any     *)
(* migration ever took effect on it.                                       *)
LEMMA EmptyKeeps ==
  ASSUME DestinationPart, NEW x \in Restorers, RequireEmpty(x)
  PROVE  DestinationPart'
<1>1. RestoreHonest(x) /\ ImportsKnown /\ NoLedgerYet /\ LedgerTrue /\ MigrationsTypeOK
  BY Known
<1>2. step[x] = "empty" /\ UNCHANGED schema /\ Elsewhere
  BY DEF RequireEmpty
<1>3. step[x] \notin {"idle", "migrating"} /\ dir.complete /\ dialect = "mysql"
  BY <1>1, <1>2 DEF RestoreHonest
<1>4. CASE Give(x)
  BY <1>2, <1>3, <1>4, GivingKeeps
<1>5. CASE ~Give(x)
  <2>1. /\ ~HasObjects /\ Goes(x, "import") /\ import' = [import EXCEPT ![x] = 1]
        /\ UNCHANGED <<holder, connected, owner, triggers, transferring>>
    BY <1>5 DEF RequireEmpty
  <2>2. ~tracked /\ \A s \in 1..Tables : ~TableExists(s)
    BY <2>1 DEF HasObjects
  <2>3. Nobody
    <3>1. \A i \in Parts : ~Exists(i)
      BY <2>2, PartsAre DEF Exists
    <3> QED  BY <1>1, <3>1 DEF ImportsKnown, Nobody
  <2>4. \A v \in 1..Versions, s \in 1..Tables : done[v][s] = 0
    <3> TAKE v \in 1..Versions, s \in 1..Tables
    <3>1. done[v] \in [1..Tables -> Nat]
      BY <1>1 DEF MigrationsTypeOK
    <3>2. done[v][s] \in Nat
      BY <3>1
    <3>3. v = 1 => ~ (done[v][s] > 0)
      BY <2>2 DEF TableExists
    <3>4. v > 1 => done[v][s] = 0
      BY <1>1, <2>2, <2>3 DEF LedgerTrue, TrueOf, Regular, NoLedgerYet
    <3> QED  BY <3>2, <3>3, <3>4, PartsAre
  <2>5. \A s \in 1..Tables : ~Has(s)
    BY <2>3, PartsAre DEF Has, Nobody
  <2>6. owner' = owner /\ done' = done /\ tracked' = tracked /\ dir' = dir /\ dialect' = dialect
    BY <1>2, <2>1 DEF schema, Elsewhere, backup
  <2>7. ImportsKnown'
    BY <1>1, <2>3, <2>4, <2>5, <2>6 DEF ImportsKnown, Nobody, Has
  <2>8. "import" \in RestoreSteps /\ "import" \notin AfterImport
    BY DEF RestoreSteps, AfterImport
  <2> QED  BY <1>2, <1>3, <2>1, <2>7, <2>8, GoingKeeps
<1> QED  BY <1>4, <1>5

(* Only a client that imported every part lets its restore go on.          *)
LEMMA TriggersKeep ==
  ASSUME DestinationPart, NEW x \in Restorers, RestoreTriggers(x)
  PROVE  DestinationPart'
<1>1. RestoreHonest(x) /\ RestoreTypes
  BY Known
<1>2. step[x] = "import" /\ import[x] \notin Parts /\ UNCHANGED schema /\ Elsewhere
  BY DEF RestoreTriggers
<1>3. step[x] \notin {"idle", "migrating"}
  BY <1>2
<1>4. CASE Give(x)
  BY <1>2, <1>3, <1>4, GivingKeeps
<1>5. CASE ~Give(x)
  <2>1. /\ import[x] # 0 /\ triggers = None /\ triggers' = x /\ Goes(x, "compare")
        /\ UNCHANGED <<holder, connected, import, owner, transferring>>
    BY <1>5 DEF RestoreTriggers
  <2>2. import[x] = Tables + 2
    <3>1. import[x] \in 0..Tables + 2
      BY <1>1 DEF RestoreTypes
    <3> QED  BY <1>2, <2>1, <3>1, PartsAre DEF Parts
  <2>3. "compare" \in RestoreSteps /\ "compare" \notin BeforeImport
    BY DEF RestoreSteps, BeforeImport
  <2> QED  BY <1>2, <1>3, <2>1, <2>2, <2>3, GoingKeeps
<1> QED  BY <1>4, <1>5

LEMMA CompareKeeps ==
  ASSUME DestinationPart, NEW x \in Restorers, Compare(x)
  PROVE  DestinationPart'
<1>1. RestoreHonest(x)
  BY Known
<1>2. step[x] = "compare" /\ UNCHANGED schema /\ Elsewhere
  BY DEF Compare
<1>3. step[x] \notin {"idle", "migrating"} /\ import[x] = Tables + 2 /\ triggers = x
  BY <1>1, <1>2 DEF RestoreHonest, AfterImport
<1>4. CASE Give(x)
  BY <1>2, <1>3, <1>4, GivingKeeps
<1>5. CASE ~Give(x)
  <2>1. /\ \/ Goes(x, "verified") /\ holder' = holder
           \/ Goes(x, "migrate") /\ Release(x)
        /\ UNCHANGED <<connected, import, owner, triggers, transferring>>
    BY <1>5 DEF Compare
  <2>2. /\ "verified" \in RestoreSteps /\ "verified" \notin BeforeImport
        /\ "migrate" \in RestoreSteps /\ "migrate" \notin BeforeImport
    BY DEF RestoreSteps, BeforeImport
  <2> QED  BY <1>2, <1>3, <2>1, <2>2, GoingKeeps
<1> QED  BY <1>4, <1>5

(* The restore becomes a runner, and its run has the lock.                 *)
LEMMA MigrateKeeps ==
  ASSUME DestinationPart, NEW x \in Restorers, Migrate(x)
  PROVE  DestinationPart'
<1>1. RestoreTypes /\ MigrationsTypeOK /\ \A y \in Restorers : RestoreHonest(y)
  BY Known
<1>2. step[x] = "migrate" /\ dir' = dir /\ x \in Runners
  BY TransferAssumption DEF Migrate, backup
<1>3. /\ pc[x] = "idle" /\ dir.complete /\ dialect = "mysql"
      /\ import[x] = Tables + 2 /\ triggers = x
      /\ \A j \in Parts : j < import[x] => owner[j] = x
  BY <1>1, <1>2 DEF RestoreHonest, AfterImport
<1>4. CASE Give(x)
  <2>1. UNCHANGED <<schema, dir, runner, limits>>
    <3>2. step' = [step EXCEPT ![x] = "failed"]
      BY <1>4 DEF Give, Goes
    <3>3. step'[x] = "failed"
      BY <1>1, <3>2 DEF RestoreTypes
    <3>4. ~Goes(x, "migrating")
      BY <1>1, <3>3 DEF Goes, RestoreTypes
    <3> QED  BY <1>2, <3>4 DEF Migrate
  <2>2. runs' \in 0..MaxRuns /\ stops' \in 0..MaxStops
    BY <1>1, <2>1 DEF MigrationsTypeOK, limits
  <2> QED  BY <1>2, <1>3, <1>4, <2>1, <2>2, GiveKeeps
<1>5. CASE ~Give(x)
  <2>1. /\ Connect(x, "apply", Through) /\ step' = [step EXCEPT ![x] = "migrating"]
        /\ UNCHANGED <<connected, import, owner, triggers, transferring>>
    BY <1>5 DEF Migrate, Goes
  <2>2. "apply" \in Kinds /\ Through \in 0..Versions
    BY TransferAssumption, PartsAre DEF Kinds
  <2>3. /\ MigrationsTypeOK' /\ Upheld(x) /\ LockHeld' /\ dialect' = dialect
        /\ \A q \in Runners \ {x} : pc[q] = "idle" /\ pc'[q] = "idle"
    BY <1>2, <2>1, <2>2, ConnectKeeps
  <2>4. step'[x] = "migrating" /\ \A y \in Restorers \ {x} : step'[y] = step[y]
    BY <1>1, <2>1 DEF RestoreTypes
  <2>5. RestoreTypes'
    BY <1>1, <2>1 DEF RestoreTypes, RestoreSteps
  <2>6. RestoreHonest(x)'
    BY <1>2, <1>3, <2>1, <2>3, <2>4, PartsAre DEF RestoreHonest, BeforeImport
  <2>7. ASSUME NEW y \in Restorers \ {x} PROVE RestoreHonest(y)'
    <3>1. pc'[y] = "idle" /\ step'[y] = step[y] /\ RestoreHonest(y)
      BY <1>1, <2>3, <2>4, TransferAssumption
    <3> QED  BY <1>2, <2>1, <2>3, <3>1 DEF RestoreHonest
  <2>8. \A y \in Restorers : RestoreHonest(y)'
    BY <2>6, <2>7
  <2>9. \A q \in Runners : RunTrue(q)'
    BY <2>3, IdleIsTrue DEF Upheld
  <2> QED  BY <2>3, <2>5, <2>8, <2>9 DEF DestinationPart, Upheld
<1> QED  BY <1>4, <1>5

(* The last steps, and the ends that can come at any time.                 *)
LEMMA EndingsKeep ==
  ASSUME DestinationPart, NEW x \in Restorers,
         VerifyMigration(x) \/ Report(x) \/ Disconnect(x) \/ Die(x)
  PROVE  DestinationPart'
<1>1. RestoreTypes /\ MigrationsTypeOK /\ RestoreHonest(x)
  BY Known
<1>2. /\ step[x] # "idle" /\ pc[x] = "idle"
      /\ UNCHANGED <<schema, owner, import, triggers, dir, runner>>
      /\ runs' = runs
      /\ stops' = stops \/ (stops < MaxStops /\ stops' = stops + 1)
  <2>1. Report(x) => pc[x] = "idle"
    BY <1>1 DEF Report, RestoreHonest
  <2> QED  BY <2>1 DEF VerifyMigration, Report, Disconnect, Die, Give, Elsewhere, limits, backup
<1>3. runs' \in 0..MaxRuns /\ stops' \in 0..MaxStops
  BY <1>1, <1>2, MigrationsAssumption DEF MigrationsTypeOK
<1>4. CASE Give(x)
  BY <1>2, <1>3, <1>4, GiveKeeps
<1>5. CASE ~Give(x)
  <2>1. PICK t \in RestoreSteps :
          /\ step' = [step EXCEPT ![x] = t]
          /\ t = step[x] \/ (step[x] \in AfterImport /\ t \in {"verified", "reported"})
    <3>1. CASE VerifyMigration(x)
      BY <1>5, <3>1 DEF VerifyMigration, Goes, AfterImport, RestoreSteps
    <3>2. CASE Report(x)
      BY <3>2 DEF Report, Goes, AfterImport, RestoreSteps
    <3>3. CASE Disconnect(x)
      <4>1. step' = step /\ step[x] \in RestoreSteps /\ step = [step EXCEPT ![x] = step[x]]
        BY <1>1, <3>3 DEF Disconnect, RestoreTypes
      <4> QED  BY <4>1
    <3>4. CASE Die(x)
      BY <1>5, <3>4 DEF Die
    <3> QED  BY <3>1, <3>2, <3>3, <3>4
  <2>2. /\ holder' = holder \/ Release(x)
        /\ transferring' \in {transferring, None, x}
        /\ connected' = connected \/ connected' = [connected EXCEPT ![x] = FALSE]
    BY <1>5 DEF VerifyMigration, Report, Disconnect, Die, Unlock
  <2>3. /\ import[x] # 0 => t \notin BeforeImport
        /\ t \in AfterImport => import[x] = Tables + 2 /\ triggers = x
        /\ dir.complete /\ dialect = "mysql"
    BY <1>1, <1>2, <2>1 DEF RestoreHonest, BeforeImport, AfterImport
  <2>4. Aside(x)
    BY <1>2, <1>3, <2>2 DEF Aside
  <2>5. connected' \in [Restorers -> BOOLEAN]
    BY <1>1, <2>2 DEF RestoreTypes
  <2> QED  BY <1>2, <2>1, <2>2, <2>3, <2>4, <2>5, QuietStep
<1> QED  BY <1>4, <1>5

(* A client that meets something that is there stops.                      *)
LEMMA ClientStops ==
  ASSUME DestinationPart, NEW x \in Restorers, ImportPart(x), import' = [import EXCEPT ![x] = 0],
         UNCHANGED <<owner, tracked, ledger, done>>
  PROVE  DestinationPart'
<1>1. RestoreTypes /\ MigrationsTypeOK /\ ImportsKnown /\ \A y \in Restorers : RestoreHonest(y)
  BY Known
<1>2. /\ UNCHANGED <<dialect, foreign, holder, step, connected, triggers, transferring, dir, runner,
                     runs, stops>>
      /\ import[x] \in Parts
  BY DEF ImportPart, Elsewhere, limits, backup
<1>3. import[x] # 0 /\ import[x] # Tables + 2
  BY <1>2, PartsAre DEF Parts
<1>4. import'[x] = 0 /\ \A y \in Restorers \ {x} : import'[y] = import[y]
  BY <1>1 DEF RestoreTypes
<1>5. RestoreTypes'
  <2>1. 0 \in 0..Tables + 2
    BY PartsAre
  <2> QED  BY <1>1, <1>2, <2>1 DEF RestoreTypes
<1>6. pc' = pc
  BY <1>2 DEF runner
<1>7. ASSUME NEW y \in Restorers PROVE RestoreHonest(y)'
  <2>1. RestoreHonest(y)
    BY <1>1
  <2>2. CASE y # x
    BY <1>2, <1>4, <1>6, <2>1, <2>2 DEF RestoreHonest
  <2>3. CASE y = x
    <3>1. \A j \in Parts : ~ (j < 0)
      BY DEF Parts
    <3> QED  BY <1>2, <1>3, <1>4, <1>6, <2>1, <2>3, <3>1 DEF RestoreHonest
  <2> QED  BY <2>2, <2>3
<1>8. ImportsKnown'
  <2>1. (\E y \in Restorers : import'[y] # 0) => \E y \in Restorers : import[y] # 0
    BY <1>3
  <2>2. \A i \in Parts : owner'[i] # None => Exists(i)' /\ dir'.complete /\ dialect' = "mysql"
    BY <1>1, <1>2 DEF ImportsKnown, Exists, TableExists
  <2> QED  BY <1>1, <1>2, <2>1, <2>2 DEF ImportsKnown, Nobody, Has, Copied
<1>9. Aside(x)
  BY <1>1, <1>2 DEF Aside, schema, MigrationsTypeOK
<1>10. pc[x] = "idle"
  BY <1>1, <1>3 DEF RestoreHonest, AfterImport
<1> QED  BY <1>5, <1>7, <1>8, <1>9, <1>10, QuietRestore

(* What the client of a restore knows while it imports.                    *)
LEMMA ClientKnows ==
  ASSUME BackupPart, DestinationPart, NEW x \in Restorers, import[x] \in Parts
  PROVE  /\ dir.complete /\ dialect = "mysql" /\ Copied \in 1..Versions /\ x # None
         /\ pc[x] = "idle"
         /\ ~tracked => \A v \in 1..Versions, s \in 1..Tables :
                          done[v][s] = IF Has(s) /\ v <= Copied THEN 1 ELSE 0
<1>1. RestoreHonest(x) /\ ImportsKnown /\ import[x] # 0 /\ import[x] # Tables + 2
  BY Known, PartsAre DEF Parts
<1>2. dir.complete /\ dialect = "mysql" /\ pc[x] = "idle"
  BY <1>1 DEF RestoreHonest, BeforeImport, AfterImport
<1>3. Copied \in 1..Versions
  BY <1>2 DEF BackupPart, BackupHonest, Copied, Sources
<1> QED  BY <1>1, <1>2, <1>3, TransferAssumption, MigrationsAssumption DEF ImportsKnown

(* The ledger comes with a backup whose tables that are here are complete. *)
LEMMA LedgerArrives ==
  ASSUME BackupPart, DestinationPart, NEW x \in Restorers, ImportPart(x),
         import[x] = LedgerPart, ~tracked, Imported(x, LedgerPart)
  PROVE  /\ ImportsKnown' /\ NoLedgerYet' /\ LedgerTrue' /\ LedgerCopied'
         /\ \A r \in Runners : RunTrue(r)'
         /\ MigrationsTypeOK'
<1>1. /\ RestoreTypes /\ MigrationsTypeOK /\ ImportsKnown /\ NoLedgerYet
      /\ \A r \in Runners : RunTrue(r)
  BY Known
<1>2. /\ UNCHANGED <<dialect, foreign, holder, dir, runner, runs, stops>>
      /\ import[x] \in Parts
  BY DEF ImportPart, Elsewhere, limits, backup
<1>3. /\ dir.complete /\ dialect = "mysql" /\ Copied \in 1..Versions /\ x # None
      /\ \A v \in 1..Versions, s \in 1..Tables :
           done[v][s] = IF Has(s) /\ v <= Copied THEN 1 ELSE 0
  BY <1>2, ClientKnows
<1>4. /\ owner' = [owner EXCEPT ![LedgerPart] = x] /\ tracked' = TRUE /\ done' = done
      /\ ledger' = [v \in 1..Versions |-> IF v <= Copied THEN "APPLIED" ELSE "none"]
  BY DEF Imported, Copied
<1>5. /\ owner'[LedgerPart] = x /\ \A i \in Parts : i # LedgerPart => owner'[i] = owner[i]
      /\ \A v \in 1..Versions : ledger'[v] = IF v <= Copied THEN "APPLIED" ELSE "none"
  BY <1>1, <1>4, PartsAre DEF RestoreTypes
<1>6. ~Nobody' /\ Regular' /\ \A s \in 1..Tables : (Has(s)' <=> Has(s)) /\ (Kept(s)' <=> Has(s))
  <2>1. ~Nobody' /\ Regular'
    BY <1>3, <1>5, PartsAre DEF Nobody, Regular
  <2>2. \A s \in 1..Tables : Has(s)' <=> Has(s)
    BY <1>5, PartsAre DEF Has
  <2> QED  BY <2>1, <2>2 DEF Kept
<1>7. ImportsKnown'
  <2>1. \A i \in Parts : owner'[i] # None => Exists(i)'
    <3> SUFFICES ASSUME NEW i \in Parts, owner'[i] # None PROVE Exists(i)'
      OBVIOUS
    <3>1. CASE i = LedgerPart
      BY <1>4, <3>1 DEF Exists
    <3>2. CASE i # LedgerPart
      BY <1>1, <1>4, <1>5, <3>2 DEF ImportsKnown, Exists, TableExists
    <3> QED  BY <3>1, <3>2
  <2> QED  BY <1>2, <1>3, <1>4, <2>1 DEF ImportsKnown
<1>8. NoLedgerYet'
  BY <1>4 DEF NoLedgerYet
<1>9. LedgerTrue'
  <2> SUFFICES ASSUME NEW v \in 1..Versions PROVE TrueOf(v)'
    BY DEF LedgerTrue
  <2>1. \A s \in 1..Tables : done'[v][s] = IF Has(s) /\ v <= Copied THEN 1 ELSE 0
    BY <1>3, <1>4
  <2>2. dialect' = "mysql" /\ ledger'[v] = IF v <= Copied THEN "APPLIED" ELSE "none"
    BY <1>2, <1>3, <1>5
  <2>3. v <= Copied => \A w \in 1..(v - 1) : ledger'[w] = "APPLIED"
    <3>1. v <= Copied => \A w \in 1..(v - 1) : w \in 1..Versions /\ w <= Copied
      BY <1>3, PartsAre
    <3> QED  BY <1>5, <3>1
  <2>4. \A s \in 1..Tables : done'[v][s] <= 1
    BY <2>1
  <2>5. ledger'[v] = "APPLIED" => v <= Copied
    BY <2>2
  <2>6. ledger'[v] = "APPLIED" => \A s \in 1..Tables : Kept(s)' => done'[v][s] = 1
    BY <1>6, <2>1, <2>5
  <2>7. ledger'[v] = "none" => ~ (v <= Copied)
    BY <2>2
  <2>8. ledger'[v] = "none" => \A s \in 1..Tables : done'[v][s] = 0
    BY <2>1, <2>7
  <2>9. ledger'[v] # "none" => \A w \in 1..(v - 1) : ledger'[w] = "APPLIED"
    BY <2>2, <2>3
  <2> QED  BY <2>2, <2>4, <2>6, <2>8, <2>9 DEF TrueOf
<1>10. LedgerCopied'
  <2>1. Copied' = Copied
    BY <1>2 DEF Copied
  <2>2. \A s \in 1..Tables : ~Has(s)' => \A v \in 1..Versions : done'[v][s] = 0
    BY <1>3, <1>4, <1>6
  <2>3. /\ \A v \in 1..Versions : v <= Copied => ledger'[v] = "APPLIED"
        /\ \A v \in 1..Versions : v > Copied => ledger'[v] # "APPLIED"
    BY <1>3, <1>5, PartsAre
  <2> QED  BY <1>3, <2>1, <2>2, <2>3 DEF LedgerCopied
<1>11. ASSUME NEW r \in Runners PROVE RunTrue(r)'
  <2>1. pc'[r] \in {"idle", "check", "ledger"} /\ pc' = pc /\ kind' = kind
    BY <1>1, <1>2 DEF NoLedgerYet, runner
  <2>2. Baselining(r)'
    BY <1>1, <1>2, <1>4, <2>1 DEF RunTrue, Baselining, TableExists
  <2> QED  BY <2>1, <2>2 DEF RunTrue, Planned, BetweenMigrations, InMigration
<1>12. MigrationsTypeOK'
  <2>1. ledger' \in [1..Versions -> {"none", "APPLYING", "APPLIED"}]
    BY <1>4
  <2> QED  BY <1>1, <1>2, <1>4, <2>1 DEF MigrationsTypeOK, runner
<1> QED  BY <1>7, <1>8, <1>9, <1>10, <1>11, <1>12

(* A table comes with what the backup's migrations did to it, and where    *)
(* the ledger is the backup's, it says so already.                         *)
LEMMA TableArrives ==
  ASSUME BackupPart, DestinationPart, NEW x \in Restorers, ImportPart(x),
         NEW k \in 1..Tables, import[x] = PartOf(k), ~TableExists(k), Imported(x, PartOf(k))
  PROVE  /\ ImportsKnown' /\ NoLedgerYet' /\ LedgerTrue' /\ LedgerCopied'
         /\ \A r \in Runners : RunTrue(r)'
         /\ MigrationsTypeOK'
<1>1. /\ RestoreTypes /\ MigrationsTypeOK /\ ImportsKnown /\ NoLedgerYet /\ LedgerTrue /\ LedgerCopied
      /\ \A r \in Runners : RunTrue(r)
  BY Known
<1>2. /\ UNCHANGED <<dialect, foreign, holder, dir, runner, runs, stops>>
      /\ import[x] \in Parts /\ PartOf(k) \in Parts /\ PartOf(k) # LedgerPart /\ TableOf(PartOf(k)) = k
  BY PartsAre DEF ImportPart, Elsewhere, limits, backup
<1>3. /\ dir.complete /\ dialect = "mysql" /\ Copied \in 1..Versions /\ x # None
      /\ ~tracked => \A v \in 1..Versions, s \in 1..Tables :
                       done[v][s] = IF Has(s) /\ v <= Copied THEN 1 ELSE 0
  BY <1>2, ClientKnows
<1>4. /\ owner' = [owner EXCEPT ![PartOf(k)] = x] /\ tracked' = tracked /\ ledger' = ledger
      /\ done' = [v \in 1..Versions |->
                    IF v <= Copied THEN [done[v] EXCEPT ![k] = @ + 1] ELSE done[v]]
  BY <1>2 DEF Imported, Copied
<1>5. /\ owner'[PartOf(k)] = x /\ \A i \in Parts : i # PartOf(k) => owner'[i] = owner[i]
      /\ \A v \in 1..Versions : done[v] \in [1..Tables -> Nat]
  BY <1>1, <1>2, <1>4 DEF RestoreTypes, MigrationsTypeOK
<1>6. \A v \in 1..Versions, s \in 1..Tables :
        /\ done[v][s] \in Nat
        /\ done'[v][s] = IF s = k /\ v <= Copied THEN done[v][s] + 1 ELSE done[v][s]
  <2> TAKE v \in 1..Versions, s \in 1..Tables
  <2>1. done'[v] = IF v <= Copied THEN [done[v] EXCEPT ![k] = @ + 1] ELSE done[v]
    BY <1>4
  <2>2. done[v] \in [1..Tables -> Nat]
    BY <1>5
  <2>3. done[v][s] \in Nat
    BY <2>2
  <2>4. v <= Copied => done'[v][s] = IF s = k THEN done[v][s] + 1 ELSE done[v][s]
    BY <2>1, <2>2
  <2> QED  BY <2>1, <2>3, <2>4
<1>7. /\ ~Has(k) /\ Has(k)' /\ ~Nobody'
      /\ \A s \in 1..Tables : s # k => (Has(s)' <=> Has(s))
  <2>1. ~Has(k)
    BY <1>1, <1>2 DEF Has, ImportsKnown, Exists
  <2>2. Has(k)' /\ ~Nobody'
    BY <1>2, <1>3, <1>5 DEF Has, Nobody
  <2>3. \A s \in 1..Tables : s # k => PartOf(s) # PartOf(k)
    BY PartsAre
  <2> QED  BY <1>5, <2>1, <2>2, <2>3, PartsAre DEF Has
<1>8. owner'[LedgerPart] = owner[LedgerPart] /\ (Regular' <=> owner[LedgerPart] # None)
  BY <1>2, <1>5, <1>7, PartsAre DEF Regular
<1>9. /\ \A s \in 1..Tables : TableExists(s) => TableExists(s)'
      /\ TableExists(k)'
  <2>1. 1 \in 1..Versions /\ 1 <= Copied
    BY <1>3, PartsAre
  <2>2. \A s \in 1..Tables : done[1][s] \in Nat /\ done'[1][s] = IF s = k THEN done[1][s] + 1 ELSE done[1][s]
    BY <1>6, <2>1
  <2>3. (\A s \in 1..Tables : done[1][s] > 0 => done'[1][s] > 0) /\ done'[1][k] > 0
    BY <2>2
  <2> QED  BY <2>3 DEF TableExists
<1>10. ImportsKnown'
  <2>1. ASSUME NEW i \in Parts, owner'[i] # None PROVE Exists(i)'
    <3>1. CASE i = PartOf(k)
      BY <1>2, <1>9, <3>1 DEF Exists
    <3>2. CASE i # PartOf(k)
      <4>1. Exists(i)
        BY <1>1, <1>5, <2>1, <3>2 DEF ImportsKnown
      <4> QED  BY <1>4, <1>9, <4>1, PartsAre DEF Exists
    <3> QED  BY <3>1, <3>2
  <2>2. ASSUME ~tracked PROVE \A v \in 1..Versions, s \in 1..Tables :
                                done'[v][s] = IF Has(s)' /\ v <= Copied THEN 1 ELSE 0
    <3> TAKE v \in 1..Versions, s \in 1..Tables
    <3>1. done[v][s] = IF Has(s) /\ v <= Copied THEN 1 ELSE 0
      BY <1>3, <2>2
    <3> QED  BY <1>6, <1>7, <3>1
  <2>3. Copied' = Copied
    BY <1>2 DEF Copied
  <2> QED  BY <1>2, <1>3, <1>4, <2>1, <2>2, <2>3 DEF ImportsKnown
<1>11. NoLedgerYet'
  BY <1>1, <1>2, <1>4 DEF NoLedgerYet, runner
<1>12. ASSUME owner[LedgerPart] # None
       PROVE  /\ Regular
              /\ \A v \in 1..Versions : v <= Copied => ledger[v] = "APPLIED"
              /\ \A v \in 1..Versions : v > Copied => ledger[v] # "APPLIED"
              /\ \A v \in 1..Versions : done[v][k] = 0
  BY <1>1, <1>7, <1>12 DEF LedgerCopied, Regular
<1>13. LedgerTrue'
  <2> SUFFICES ASSUME owner[LedgerPart] # None, NEW v \in 1..Versions PROVE TrueOf(v)'
    BY <1>8 DEF LedgerTrue
  <2>1. TrueOf(v) /\ done[v][k] = 0 /\ ledger'[v] = ledger[v] /\ dialect' = "mysql"
    BY <1>1, <1>2, <1>3, <1>4, <1>12 DEF LedgerTrue
  <2>2. \A s \in 1..Tables : done'[v][s] = IF s = k /\ v <= Copied THEN 1 ELSE done[v][s]
    BY <1>6, <2>1
  <2>3. \A s \in 1..Tables : done'[v][s] <= 1
    BY <2>1, <2>2 DEF TrueOf
  <2>4. ASSUME ledger[v] = "APPLIED" PROVE \A s \in 1..Tables : Kept(s)' => done'[v][s] = 1
    <3>1. v <= Copied
      BY <1>3, <1>12, <2>4, PartsAre
    <3>2. ASSUME NEW s \in 1..Tables, s # k, Kept(s)' PROVE Kept(s)
      BY <1>7, <3>2 DEF Kept
    <3>3. \A s \in 1..Tables : Kept(s) => done[v][s] = 1
      BY <2>1, <2>4 DEF TrueOf
    <3> QED  BY <2>2, <3>1, <3>2, <3>3
  <2>5. ASSUME ledger[v] = "none", v > 1 PROVE \A s \in 1..Tables : done'[v][s] = 0
    <3>1. ~ (v <= Copied)
      BY <1>12, <2>5
    <3> QED  BY <2>1, <2>2, <2>5, <3>1 DEF TrueOf
  <2>6. ledger'[v] # "none" => \A w \in 1..(v - 1) : ledger'[w] = "APPLIED"
    BY <1>4, <2>1 DEF TrueOf
  <2> QED  BY <2>1, <2>3, <2>4, <2>5, <2>6 DEF TrueOf
<1>14. LedgerCopied'
  <2> SUFFICES ASSUME owner[LedgerPart] # None PROVE LedgerCopied'
    BY <1>8 DEF LedgerCopied
  <2>1. Copied' = Copied /\ ledger' = ledger
    BY <1>2, <1>4 DEF Copied
  <2>2. \A s \in 1..Tables : ~Has(s)' => s # k /\ ~Has(s)
    BY <1>7
  <2>3. \A s \in 1..Tables : ~Has(s)' => \A v \in 1..Versions : done'[v][s] = 0
    <3>1. \A s \in 1..Tables : ~Has(s) => \A v \in 1..Versions : done[v][s] = 0
      BY <1>1 DEF LedgerCopied
    <3> QED  BY <1>6, <2>2, <3>1
  <2> QED  BY <1>3, <1>12, <2>1, <2>3 DEF LedgerCopied
<1>15. ASSUME NEW r \in Runners PROVE RunTrue(r)'
  <2>1. /\ RunTrue(r) /\ pc' = pc /\ kind' = kind /\ through' = through /\ pending' = pending /\ at' = at
        /\ Current(r)' = Current(r) /\ Unapplied(through[r])' = Unapplied(through[r])
        /\ pending[r] \in SUBSET (1..Versions)
    BY <1>1, <1>2, <1>4 DEF runner, Current, Unapplied, MigrationsTypeOK
  <2>2. Baselining(r)'
    BY <1>2, <1>9, <2>1 DEF RunTrue, Baselining
  <2>3. ASSUME owner[LedgerPart] # None PROVE Planned(r)' /\ BetweenMigrations(r)' /\ InMigration(r)'
    <3>1. Planned(r) /\ BetweenMigrations(r) /\ InMigration(r)
      BY <1>12, <2>1, <2>3 DEF RunTrue
    <3>2. Planned(r)' /\ BetweenMigrations(r)'
      BY <1>4, <2>1, <3>1 DEF Planned, BetweenMigrations
    <3>3. CASE pc[r] # "statement"
      BY <2>1, <3>2, <3>3 DEF InMigration
    <3>4. CASE pc[r] = "statement"
      <4>1. pending[r] # {}
        BY <2>1, <3>4 DEF RunTrue
      <4>2. Current(r) \in pending[r]
        BY <2>1, <4>1, FirstIs DEF Current
      <4>3. PICK c \in 1..Versions : c = Current(r)
        BY <2>1, <4>2
      <4>4. ledger[c] = "APPLYING"
        BY <1>3, <3>1, <3>4, <4>3 DEF InMigration
      <4>5. ~ (c <= Copied)
        BY <1>12, <2>3, <4>4
      <4>6. \A s \in 1..Tables : done'[c][s] = done[c][s]
        BY <1>6, <4>5
      <4>7. InMigration(r)'
        BY <1>2, <1>4, <2>1, <3>1, <3>4, <4>3, <4>6 DEF InMigration
      <4> QED  BY <3>2, <4>7
    <3> QED  BY <3>3, <3>4
  <2>4. pc'[r] = "statement" => pending'[r] # {}
    BY <2>1 DEF RunTrue
  <2> QED  BY <1>8, <2>2, <2>3, <2>4 DEF RunTrue
<1>16. MigrationsTypeOK'
  <2>1. done' \in [1..Versions -> [1..Tables -> Nat]]
    <3> SUFFICES ASSUME NEW v \in 1..Versions
                 PROVE  (IF v <= Copied THEN [done[v] EXCEPT ![k] = @ + 1] ELSE done[v])
                          \in [1..Tables -> Nat]
      BY <1>4
    <3>1. done[v] \in [1..Tables -> Nat]
      BY <1>5
    <3>2. done[v][k] + 1 \in Nat
      BY <1>6
    <3> QED  BY <3>1, <3>2
  <2> QED  BY <1>1, <1>2, <1>4, <2>1 DEF MigrationsTypeOK, runner
<1> QED  BY <1>10, <1>11, <1>13, <1>14, <1>15, <1>16

LEMMA ImportKeeps ==
  ASSUME BackupPart, DestinationPart, NEW x \in Restorers, ImportPart(x)
  PROVE  DestinationPart'
<1>1. /\ RestoreTypes /\ MigrationsTypeOK /\ LockHeld /\ ImportsKnown
      /\ \A y \in Restorers : RestoreHonest(y)
  BY Known
<1>2. /\ UNCHANGED <<dialect, foreign, holder, step, connected, triggers, transferring, dir, runner,
                     runs, stops>>
      /\ import[x] \in Parts
  BY DEF ImportPart, Elsewhere, limits, backup
<1>3. PICK i \in Parts : i = import[x]
  BY <1>2
<1>4. CASE Exists(i)
  BY <1>3, <1>4, ClientStops DEF ImportPart, ImportStops
<1>5. CASE ~Exists(i)
  <2>1. Imported(x, i) /\ import' = [import EXCEPT ![x] = i + 1]
    BY <1>3, <1>5 DEF ImportPart, ImportStops
  <2>2. /\ ImportsKnown' /\ NoLedgerYet' /\ LedgerTrue' /\ LedgerCopied'
        /\ \A r \in Runners : RunTrue(r)'
        /\ MigrationsTypeOK'
    <3>1. CASE i = LedgerPart
      BY <1>3, <1>5, <2>1, <3>1, LedgerArrives DEF Exists
    <3>2. CASE i # LedgerPart
      <4>1. TableOf(i) \in 1..Tables /\ PartOf(TableOf(i)) = i /\ ~TableExists(TableOf(i))
        BY <1>5, <3>2, PartsAre DEF Exists
      <4> QED  BY <1>3, <2>1, <4>1, TableArrives
    <3> QED  BY <3>1, <3>2
  <2>3. /\ owner' = [owner EXCEPT ![i] = x] /\ owner'[i] = x
        /\ \A j \in Parts : j # i => owner'[j] = owner[j]
        /\ import'[x] = i + 1 /\ \A y \in Restorers \ {x} : import'[y] = import[y]
    BY <1>1, <1>3, <2>1 DEF Imported, RestoreTypes
  <2>4. i \in 1..Tables + 1 /\ Tables \in Nat /\ i + 1 \in 0..Tables + 2
    BY PartsAre DEF Parts
  <2>5. RestoreTypes'
    BY <1>1, <1>2, <2>1, <2>3, <2>4 DEF RestoreTypes
  <2>6. pc' = pc
    BY <1>2 DEF runner
  <2>7. ASSUME NEW y \in Restorers PROVE RestoreHonest(y)'
    <3>1. RestoreHonest(y)
      BY <1>1
    <3>2. owner[i] = None /\ y # None
      BY <1>1, <1>5, TransferAssumption, MigrationsAssumption DEF ImportsKnown
    <3>3. CASE y # x
      <4>1. \A j \in Parts : j < import'[y] => owner'[j] = y
        BY <2>3, <3>1, <3>2, <3>3 DEF RestoreHonest
      <4> QED  BY <1>2, <2>3, <2>6, <3>1, <3>3, <4>1 DEF RestoreHonest
    <3>4. CASE y = x
      <4>1. \A j \in Parts : j < i + 1 => j = i \/ j < i
        BY <2>4 DEF Parts
      <4>2. \A j \in Parts : j < import'[x] => owner'[j] = x
        BY <1>3, <2>3, <3>1, <3>4, <4>1 DEF RestoreHonest
      <4>3. import[x] # 0 /\ import[x] # Tables + 2
        BY <1>3, <2>4
      <4> QED  BY <1>2, <2>6, <3>1, <3>4, <4>2, <4>3 DEF RestoreHonest
    <3> QED  BY <3>3, <3>4
  <2>8. LockHeld'
    BY <1>1, <1>2, <2>6 DEF LockHeld
  <2> QED  BY <2>2, <2>5, <2>7, <2>8 DEF DestinationPart
<1> QED  BY <1>4, <1>5

-----------------------------------------------------------------------------
(* The invariant                                                           *)

(* A backup is not complete before anyone restores it, so that nobody      *)
(* relies on what it writes.                                               *)
LEMMA BackupAside ==
  ASSUME DestinationPart, BackupPart', UNCHANGED <<migrationVars, restore>>, dir' = dir \/ ~dir.complete
  PROVE  DestinationPart'
<1>1. /\ UNCHANGED <<dialect, foreign, tracked, ledger, done, holder, runs, stops>>
      /\ UNCHANGED <<pc, kind, through, pending, at, applied>>
      /\ UNCHANGED <<step, connected, import, owner, triggers, transferring>>
  BY DEF migrationVars, schema, runner, limits, restore
<1>2. /\ MigrationsTypeOK /\ RestoreTypes /\ LockHeld /\ ImportsKnown /\ NoLedgerYet
      /\ \A x \in Restorers : RestoreHonest(x)
      /\ \A r \in Runners : RunTrue(r)
  BY Known
<1>3. CASE dir' = dir
  <2>1. MigrationsTypeOK' /\ RestoreTypes' /\ LockHeld'
    BY <1>1, <1>2 DEF MigrationsTypeOK, RestoreTypes, LockHeld
  <2>2. ImportsKnown' /\ NoLedgerYet' /\ LedgerTrue' /\ LedgerCopied' /\ (Regular' <=> Regular)
    <3>1. tracked \/ \A r \in Runners : pc'[r] \in {"idle", "check", "ledger"}
      BY <1>1, <1>2 DEF NoLedgerYet
    <3> QED  BY <1>1, <1>3, <3>1, SchemaStays DEF schema
  <2>3. \A x \in Restorers : RestoreHonest(x)'
    BY <1>1, <1>2, <1>3 DEF RestoreHonest
  <2>4. \A r \in Runners : RunTrue(r)'
    BY <1>1, <1>2, <2>2
       DEF RunTrue, Baselining, Planned, BetweenMigrations, InMigration, Current, Unapplied, TableExists
  <2> QED  BY <2>1, <2>2, <2>3, <2>4 DEF DestinationPart
<1>4. CASE ~dir.complete
  <2>1. Nobody /\ \A x \in Restorers : import[x] = 0 /\ step[x] = "idle"
    BY <1>2, <1>4 DEF ImportsKnown, Nobody, RestoreHonest, BeforeImport
  <2>2. MigrationsTypeOK' /\ RestoreTypes' /\ LockHeld'
    BY <1>1, <1>2 DEF MigrationsTypeOK, RestoreTypes, LockHeld
  <2>3. ImportsKnown'
    BY <1>1, <2>1 DEF ImportsKnown, Nobody
  <2>4. NoLedgerYet' /\ LedgerTrue' /\ LedgerCopied' /\ (Regular' <=> Regular)
    <3>1. tracked \/ \A r \in Runners : pc'[r] \in {"idle", "check", "ledger"}
      BY <1>1, <1>2 DEF NoLedgerYet
    <3> QED  BY <1>1, <2>1, <2>3, <3>1, SchemaStays DEF schema
  <2>5. \A x \in Restorers : RestoreHonest(x)'
    BY <1>1, <1>2, <2>1 DEF RestoreHonest, AfterImport
  <2>6. \A r \in Runners : RunTrue(r)'
    BY <1>1, <1>2, <2>4
       DEF RunTrue, Baselining, Planned, BetweenMigrations, InMigration, Current, Unapplied, TableExists
  <2> QED  BY <2>2, <2>3, <2>4, <2>5, <2>6 DEF DestinationPart
<1> QED  BY <1>3, <1>4

LEMMA InitBackup ==
  ASSUME Init
  PROVE  BackupPart
<1>1. /\ source \in [version : {0}, refs : {{}}, migrations : {Through - 1, Through}]
      /\ files = {} /\ env = 0 /\ moments = {Moment}
      /\ bstep = "idle" /\ seen = NothingSeen /\ dir = NoDirectory
  BY DEF Init
<1>2. Through - 1 \in 1..Versions /\ Through \in 1..Versions
  BY TransferAssumption, PartsAre
<1>3. source \in Sources
  BY <1>1, <1>2 DEF Sources
<1>4. dir \in Directories /\ seen \in Sightings /\ ~dir.complete
  BY <1>1 DEF Directories, Sightings, NoDirectory, NothingSeen
<1>5. SourceTypes
  BY <1>1, <1>3, <1>4 DEF SourceTypes, BackupSteps
<1> QED  BY <1>1, <1>4, <1>5
         DEF BackupPart, BackupHonest, BackupIsConsistent, Dumped, DumpedTwice, Rechecked

LEMMA InitDestination ==
  ASSUME Init
  PROVE  DestinationPart
<1>1. /\ MigrationsInit
      /\ step = [x \in Restorers |-> "idle"] /\ connected = [x \in Restorers |-> FALSE]
      /\ import = [x \in Restorers |-> 0] /\ owner = [i \in Parts |-> None] /\ triggers = None
      /\ transferring = None
  BY DEF Init
<1>2. /\ dialect \in {"mysql", "postgres"} /\ foreign \in BOOLEAN /\ tracked = FALSE
      /\ ledger = [v \in 1..Versions |-> "none"] /\ holder = None
      /\ pc = [r \in Runners |-> "idle"] /\ kind = [r \in Runners |-> "inspect"]
      /\ through = [r \in Runners |-> 0] /\ pending = [r \in Runners |-> {}]
      /\ at = [r \in Runners |-> 1] /\ applied = [r \in Runners |-> {}] /\ runs = 0 /\ stops = 0
  BY <1>1 DEF MigrationsInit
<1>3. done = Untouched \/ (dialect = "mysql" /\ done = [Untouched EXCEPT ![1] = [s \in 1..Tables |-> 1]])
  BY <1>1 DEF MigrationsInit
<1>13. \A v \in 1..Versions :
         \/ done[v] = [s \in 1..Tables |-> 0]
         \/ done[v] = [s \in 1..Tables |-> 1] /\ v = 1 /\ dialect = "mysql"
  BY <1>3 DEF Untouched
<1>14. done \in [1..Versions -> [1..Tables -> Nat]]
  <2>1. Untouched \in [1..Versions -> [1..Tables -> Nat]]
    BY DEF Untouched
  <2>2. [s \in 1..Tables |-> 1] \in [1..Tables -> Nat]
    OBVIOUS
  <2> QED  BY <1>3, <2>1, <2>2
<1>15. \A v \in 1..Versions, s \in 1..Tables :
         /\ done[v][s] = 0 \/ done[v][s] = 1
         /\ v > 1 \/ dialect = "postgres" => done[v][s] = 0
  <2> TAKE v \in 1..Versions, s \in 1..Tables
  <2>1. CASE done[v] = [t \in 1..Tables |-> 0]
    <3>1. done[v][s] = 0
      BY <2>1
    <3> QED  BY <3>1
  <2>2. CASE done[v] = [t \in 1..Tables |-> 1] /\ v = 1 /\ dialect = "mysql"
    <3>1. done[v][s] = 1
      BY <2>2
    <3> QED  BY <2>2, <3>1
  <2> QED  BY <1>13, <2>1, <2>2
<1>4. MigrationsTypeOK
  <2>1. /\ 0 \in 0..Versions /\ 1 \in 1..Tables + 1 /\ 0 \in 0..MaxRuns /\ 0 \in 0..MaxStops
    BY MigrationsAssumption
  <2> QED  BY <1>2, <1>14, <2>1 DEF MigrationsTypeOK, Kinds
<1>5. RestoreTypes
  <2>1. 0 \in 0..Tables + 2
    BY PartsAre
  <2> QED  BY <1>1, <2>1 DEF RestoreTypes, RestoreSteps
<1>6. LockHeld /\ NoLedgerYet
  BY <1>2 DEF LockHeld, NoLedgerYet
<1>7. Nobody
  BY <1>1 DEF Nobody
<1>8. ImportsKnown
  BY <1>1, <1>7 DEF ImportsKnown, Nobody
<1>9. LedgerTrue
  BY <1>2, <1>15 DEF LedgerTrue, TrueOf
<1>10. LedgerCopied
  BY <1>1, PartsAre DEF LedgerCopied
<1>11. \A x \in Restorers : RestoreHonest(x)
  <2>1. \A j \in Parts : ~ (j < 0)
    BY DEF Parts
  <2> QED  BY <1>1, <1>2, <2>1, TransferAssumption DEF RestoreHonest, AfterImport
<1>12. \A r \in Runners : RunTrue(r)
  BY <1>2 DEF RunTrue, Baselining, Planned, BetweenMigrations, InMigration
<1> QED  BY <1>4, <1>5, <1>6, <1>8, <1>9, <1>10, <1>11, <1>12 DEF DestinationPart

LEMMA RestoreKeeps ==
  ASSUME TransferInv, NEW x \in Restorers, RestoreStep(x)
  PROVE  TransferInv'
<1>1. BackupPart /\ DestinationPart
  BY DEF TransferInv
<1>2. UNCHANGED <<local, backup>>
  BY DEF RestoreStep, StartRestore, TakeTransferLock, TakeMigrationLock, RequireEmpty, ImportPart,
         RestoreTriggers, Compare, Migrate, VerifyMigration, Report, Disconnect, Die, Elsewhere
<1>3. DestinationPart'
  BY <1>1, StartKeeps, LocksKeep, EmptyKeeps, ImportKeeps, TriggersKeep, CompareKeeps, MigrateKeeps,
     EndingsKeep DEF RestoreStep
<1> QED  BY <1>1, <1>2, <1>3, BackupUntouched DEF TransferInv

LEMMA NextKeeps ==
  ASSUME TransferInv, [Next]_vars
  PROVE  TransferInv'
<1>1. BackupPart /\ DestinationPart
  BY DEF TransferInv
<1>2. CASE \/ \E k \in Keys : StorePhoto(k) \/ DropPhoto(k) \/ ReferPhoto(k)
           \/ Write \/ EditEnvironment
  <2>1. BackupPart' /\ UNCHANGED <<migrationVars, restore, dir>>
    BY <1>1, <1>2, WritersKeep
  <2> QED  BY <1>1, <2>1, BackupAside DEF TransferInv
<1>3. CASE BackupStep
  <2>1. BackupPart' /\ UNCHANGED <<migrationVars, local, restore>> /\ (dir' = dir \/ ~dir.complete)
    BY <1>1, <1>3, BackupKeeps, BackupFrame
  <2> QED  BY <1>1, <2>1, BackupAside DEF TransferInv
<1>4. CASE \E x \in Restorers : RestoreStep(x)
  BY <1>4, RestoreKeeps
<1>5. ASSUME NEW r \in Runners, RunnerStep(r) PROVE TransferInv'
  <2>1. UNCHANGED <<local, backup>>
    BY <1>5 DEF RunnerStep
  <2>2. DestinationPart'
    BY <1>1, <1>5, OthersRun
  <2>3. BackupPart'
    BY <1>1, <2>1, BackupUntouched
  <2> QED  BY <2>2, <2>3 DEF TransferInv
<1>6. CASE UNCHANGED vars
  <2>1. UNCHANGED <<migrationVars, local, backup, restore, dir>>
    BY <1>6 DEF vars, backup
  <2> QED  BY <1>1, <2>1, BackupUntouched, BackupAside DEF TransferInv
<1> QED  BY <1>2, <1>3, <1>4, <1>5, <1>6 DEF Next, BackupStep

(* The invariant is inductive: it says of a destination what the ledger    *)
(* and the tables of it may be, whoever made them.                         *)
THEOREM TransferInductive == Spec => []TransferInv
<1>1. Init => TransferInv
  BY InitBackup, InitDestination DEF TransferInv
<1>2. TransferInv /\ [Next]_vars => TransferInv'
  BY NextKeeps
<1> QED  BY <1>1, <1>2, PTL DEF Spec

-----------------------------------------------------------------------------
(* What follows from it                                                    *)

(* A directory that is marked COMPLETE holds two dumps of one state of the *)
(* source, the environment file it had then, and every photo a row of it   *)
(* refers to, although writers were not paused (create_local_backup).      *)
THEOREM BackupConsistent == Spec => []BackupIsConsistent
<1>1. TransferInv => BackupIsConsistent
  BY DEF TransferInv, BackupPart
<1> QED  BY <1>1, TransferInductive, PTL

LEMMA SoundInside ==
  ASSUME TransferInv
  PROVE  DestinationSound
<1>1. /\ MigrationsTypeOK /\ RestoreTypes /\ LedgerTrue /\ SourceTypes
  BY Known DEF TransferInv, BackupPart
<1>2. ASSUME ~HalfImported PROVE LedgerTruthful
  <2>1. Nobody \/ \A i \in Parts : owner[i] # None
    BY <1>2 DEF HalfImported, Nobody
  <2>2. Regular /\ \A s \in 1..Tables : Kept(s)
    BY <2>1, PartsAre DEF Regular, Kept, Has
  <2> SUFFICES ASSUME NEW v \in 1..Versions
               PROVE  /\ \A s \in 1..Tables : done[v][s] <= 1
                      /\ ledger[v] = "APPLIED" => \A s \in 1..Tables : done[v][s] = 1
                      /\ ledger[v] = "none" /\ v > 1 => done[v] = Untouched[v]
                      /\ dialect = "postgres" /\ ledger[v] # "APPLIED" => done[v] = Untouched[v]
                      /\ ledger[v] # "none" => \A w \in 1..v - 1 : ledger[w] = "APPLIED"
    BY DEF LedgerTruthful
  <2>3. TrueOf(v)
    BY <1>1, <2>2 DEF LedgerTrue
  <2>4. (\A s \in 1..Tables : done[v][s] = 0) => done[v] = Untouched[v]
    <3>1. done[v] \in [1..Tables -> Nat] /\ Untouched[v] = [s \in 1..Tables |-> 0]
      BY <1>1 DEF MigrationsTypeOK, Untouched
    <3> QED  BY <3>1
  <2> QED  BY <2>2, <2>3, <2>4 DEF TrueOf
<1> QED  BY <1>1, <1>2 DEF DestinationSound, SourceTypes, RestoreTypes, Sources

(* Every variable keeps its type, and the ledger of a destination whose    *)
(* import is not half done tells the truth, whatever restores and runs of  *)
(* the migrations did to it at the same time.                              *)
THEOREM DestinationIsSound == Spec => []DestinationSound
BY TransferInductive, SoundInside, PTL

(* Who was compared with the backup and found equal is the backup.         *)
LEMMA EqualIsBackup ==
  ASSUME TransferInv, NEW x \in Restorers, step[x] \in {"compare", "migrating"},
         Snapshot(Through)
  PROVE  /\ \A i \in Parts : owner[i] = x
         /\ triggers = x /\ dir.portable = dir.manifest
         /\ \A v \in 1..Versions, s \in 1..Tables :
              done[v][s] = IF v <= Through THEN 1 ELSE 0
<1>1. /\ RestoreHonest(x) /\ LedgerTrue /\ BackupIsConsistent
  BY Known DEF TransferInv, BackupPart
<1>2. /\ import[x] = Tables + 2 /\ triggers = x /\ dir.complete
      /\ \A i \in Parts : i < import[x] => owner[i] = x
  BY <1>1 DEF RestoreHonest, AfterImport
<1>3. \A i \in Parts : owner[i] = x
  <2>1. \A i \in Parts : i < Tables + 2
    BY PartsAre DEF Parts
  <2> QED  BY <1>2, <2>1
<1>4. x # None
  BY TransferAssumption, MigrationsAssumption
<1>5. Regular /\ \A s \in 1..Tables : Kept(s)
  BY <1>3, <1>4, PartsAre DEF Regular, Kept, Has
<1>6. ASSUME NEW v \in 1..Versions, NEW s \in 1..Tables
      PROVE  done[v][s] = IF v <= Through THEN 1 ELSE 0
  <2>1. TrueOf(v) /\ ledger[v] = IF v <= Through THEN "APPLIED" ELSE "none"
    BY <1>1, <1>5 DEF LedgerTrue, Snapshot
  <2>2. v <= Through \/ v > 1
    BY TransferAssumption, PartsAre
  <2> QED  BY <1>5, <2>1, <2>2 DEF TrueOf
<1> QED  BY <1>1, <1>2, <1>3, <1>6 DEF BackupIsConsistent

(* Only a comparison that finds the destination equal verifies it.         *)
LEMMA VerifiedWhen ==
  ASSUME TransferInv, Next, NEW x \in Restorers, step[x] # "verified", step'[x] = "verified"
  PROVE  /\ step[x] \in {"compare", "migrating"} /\ Snapshot(Through)
         /\ UNCHANGED <<schema, owner, triggers, dir>>
<1>1. RestoreTypes /\ \A y \in Restorers : RestoreHonest(y)
  BY Known DEF TransferInv
<1>2. step' # step
  OBVIOUS
<1>3. PICK y \in Restorers : RestoreStep(y)
  <2>1. BackupStep => step' = step
    BY BackupFrame DEF TransferInv, restore
  <2>2. \A r \in Runners : RunnerStep(r) => step' = step
    BY DEF RunnerStep, restore
  <2>3. (\/ \E k \in Keys : StorePhoto(k) \/ DropPhoto(k) \/ ReferPhoto(k)
         \/ Write \/ EditEnvironment) => step' = step
    BY WritersKeep DEF TransferInv, restore
  <2> QED  BY <1>2, <2>1, <2>2, <2>3 DEF Next, BackupStep
<1>4. \E t : step' = [step EXCEPT ![y] = t] \/ step' = step
  BY <1>3 DEF RestoreStep, StartRestore, TakeTransferLock, TakeMigrationLock, RequireEmpty, ImportPart,
     RestoreTriggers, Compare, Migrate, VerifyMigration, Report, Disconnect, Die, Give, Goes
<1>5. y = x
  BY <1>1, <1>4 DEF RestoreTypes
<1>6. \A t : step' = [step EXCEPT ![x] = t] => t = "verified"
  BY <1>1 DEF RestoreTypes
<1>7. ~Goes(x, "failed") /\ ~Goes(x, "transfer lock") /\ ~Goes(x, "migration lock") /\ ~Goes(x, "empty")
      /\ ~Goes(x, "import") /\ ~Goes(x, "compare") /\ ~Goes(x, "migrate") /\ ~Goes(x, "migrating")
      /\ ~Goes(x, "reported")
  BY <1>6 DEF Goes
<1>8. ~Give(x)
  BY <1>7 DEF Give
<1>9. Compare(x) \/ VerifyMigration(x)
  BY <1>2, <1>3, <1>5, <1>7, <1>8
     DEF RestoreStep, StartRestore, TakeTransferLock, TakeMigrationLock, RequireEmpty, ImportPart,
         RestoreTriggers, Migrate, Report, Disconnect, Die
<1>10. CASE Compare(x)
  <2>1. Snapshot(Through) /\ UNCHANGED <<owner, triggers>>
    BY <1>7, <1>8, <1>10 DEF Compare
  <2> QED  BY <1>10, <2>1 DEF Compare, Elsewhere, backup
<1>11. CASE VerifyMigration(x)
  BY <1>8, <1>11 DEF VerifyMigration, Elsewhere, backup
<1> QED  BY <1>9, <1>10, <1>11

LEMMA VerifiedStep ==
  ASSUME TransferInv, Next
  PROVE  \A x \in Restorers :
           step[x] # "verified" /\ step'[x] = "verified" =>
             /\ \A i \in Parts : owner[i] = x
             /\ triggers = x /\ dir.portable = dir.manifest
             /\ \A v \in 1..Versions, s \in 1..Tables :
                  done[v][s] = IF v <= Through THEN 1 ELSE 0
BY VerifiedWhen, EqualIsBackup

(* A restore reports success only of a destination whose every table it    *)
(* imported itself from the backup, and on which each migration up to      *)
(* Through took effect once and no later one: not after another restore,   *)
(* a client that outlived its restore, or a run of the migrations mixed    *)
(* their work with its own (restore_aiven_backup, lines 383-405).          *)
THEOREM VerifiedIsTheBackup == Spec => VerifiedIsBackup
<1>1. TransferInv /\ [Next]_vars =>
        [\A x \in Restorers :
           step[x] # "verified" /\ step'[x] = "verified" =>
             /\ \A i \in Parts : owner[i] = x
             /\ triggers = x /\ dir.portable = dir.manifest
             /\ \A v \in 1..Versions, s \in 1..Tables :
                  done[v][s] = IF v <= Through THEN 1 ELSE 0]_vars
  BY VerifiedStep
<1> QED  BY <1>1, TransferInductive, PTL DEF Spec, VerifiedIsBackup
=============================================================================
