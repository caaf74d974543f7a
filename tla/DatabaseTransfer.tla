-------------------------- MODULE DatabaseTransfer --------------------------
(***************************************************************************)
(* A backup of the local database (backup.py) and its restore into another *)
(* server (transfer.py), whose migrations may be run by others at the same *)
(* time: the database of Migrations is the destination.                    *)
(*                                                                         *)
(* The backup reads the source in several steps while its writers, who are *)
(* asked to pause, may still write; it copies photos and the environment   *)
(* file, and marks the directory COMPLETE last.  The restore checks that   *)
(* the destination is empty, has a separate client process import the      *)
(* portable dump, creates the triggers, compares, and applies migrations   *)
(* up to Through under the runner's own lock.                              *)
(*                                                                         *)
(* The contents of the source are a version number: every change appends   *)
(* to the audit log, so no two states are alike.  A restore has the source *)
(* of one backup directory.  File permissions, checksums of files nobody   *)
(* else writes, TLS and the decryption of QRs are left out.                *)
(***************************************************************************)
EXTENDS Migrations, FiniteSets

CONSTANTS
  Restorers,     \* runs of the restore command, each also a runner
  Keys,          \* photos
  Through,       \* the last migration a restore may apply
  LedgerPart,    \* where schema_migrations comes in the dump
  MaxChanges, MaxBackups

ASSUME TransferAssumption ==
  /\ Restorers \subseteq Runners
  /\ Through \in 2..Versions /\ LedgerPart \in 1..Tables + 1
  /\ MaxChanges \in Nat /\ MaxBackups \in Nat

VARIABLES
  source,     \* the local database: version, referenced photos, migrations
  files,      \* photos in the photo directory
  env,        \* the version of the environment file
  moments,    \* every state the source and the environment file were in
  bstep, seen,    \* the backup: its step and what it has read
  dir,        \* the files of its directory
  step,       \* of each restore
  connected,  \* its connection, which holds its locks
  import,     \* the next part its client process imports, 0 without one
  owner,      \* who created each part of the destination
  triggers,   \* and the triggers
  transferring,   \* the holder of the transfer lock
  changes, backups

local == <<source, files, env, moments>>
backup == <<bstep, seen, dir>>
restore == <<step, connected, import, owner, triggers, transferring>>
counters == <<changes, backups>>
vars == <<migrationVars, local, backup, restore, counters>>

Parts == 1..Tables + 1
TableOf(i) == IF i < LedgerPart THEN i ELSE i - 1
Moment == [source |-> source, env |-> env]
NoDirectory ==
  [original |-> None, portable |-> None, photos |-> {}, env |-> 0,
   manifest |-> None, complete |-> FALSE]
NothingSeen == [source |-> None, photos |-> {}, env |-> 0]

Init ==
  /\ MigrationsInit
  /\ source \in [version : {0}, refs : {{}}, migrations : {Through - 1, Through}]
  /\ files = {} /\ env = 0
  /\ moments = {Moment}
  /\ bstep = "idle" /\ seen = NothingSeen /\ dir = NoDirectory
  /\ step = [x \in Restorers |-> "idle"]
  /\ connected = [x \in Restorers |-> FALSE]
  /\ import = [x \in Restorers |-> 0]
  /\ owner = [i \in Parts |-> None] /\ triggers = None
  /\ transferring = None
  /\ changes = 0 /\ backups = 0

-----------------------------------------------------------------------------
(* The writers of the source                                               *)

Change(newSource, newFiles, newEnv) ==
  /\ changes < MaxChanges /\ changes' = changes + 1
  /\ source' = newSource /\ files' = newFiles /\ env' = newEnv
  /\ moments' = moments \cup {[source |-> newSource, env |-> newEnv]}
  /\ UNCHANGED <<migrationVars, backup, restore, backups>>

(* A photo is stored before a row refers to it, and removed again when the *)
(* row cannot be written.                                                  *)
StorePhoto(k) == k \notin files /\ Change(source, files \cup {k}, env)
DropPhoto(k) ==
  k \in files \ source.refs /\ Change(source, files \ {k}, env)
ReferPhoto(k) ==
  /\ k \in files \ source.refs
  /\ Change([source EXCEPT !.version = @ + 1, !.refs = {k}], files, env)
Write == Change([source EXCEPT !.version = @ + 1], files, env)
EditEnvironment == Change(source, files, env + 1)

-----------------------------------------------------------------------------
(* The backup                                                              *)

BackupGoes(next) ==
  /\ bstep' = next
  /\ UNCHANGED <<migrationVars, local, restore, changes>>

(* A new directory for every attempt: the one of an earlier stays behind.  *)
StartBackup ==
  /\ bstep = "idle" /\ ~dir.complete /\ backups < MaxBackups
  /\ backups' = backups + 1
  /\ dir' = NoDirectory
  /\ seen' = [NothingSeen EXCEPT !.source = source]
  /\ BackupGoes("files")

ReadFiles ==
  /\ bstep = "files"
  /\ seen.source.refs \subseteq files
  /\ seen' = [seen EXCEPT !.photos = files, !.env = env]
  /\ BackupGoes("original") /\ UNCHANGED <<dir, backups>>

DumpOriginal ==
  /\ bstep = "original"
  /\ dir' = [dir EXCEPT !.original = source]
  /\ BackupGoes("portable") /\ UNCHANGED <<seen, backups>>

DumpPortable ==
  /\ bstep = "portable"
  /\ dir' = [dir EXCEPT !.portable = source]
  /\ BackupGoes("environment") /\ UNCHANGED <<seen, backups>>

CopyEnvironment ==
  /\ bstep = "environment"
  /\ dir' = [dir EXCEPT !.env = env]
  /\ BackupGoes("photos") /\ UNCHANGED <<seen, backups>>

CopyPhotos ==
  /\ bstep = "photos" /\ seen.photos \subseteq files
  /\ dir' = [dir EXCEPT !.photos = seen.photos]
  /\ BackupGoes("recheck") /\ UNCHANGED <<seen, backups>>

FilesUnchanged == files = seen.photos /\ env = seen.env
Unchanged == source = seen.source /\ files = seen.photos /\ env = seen.env

Recheck ==
  /\ bstep = "recheck" /\ Unchanged
  /\ BackupGoes("checksums") /\ UNCHANGED <<seen, dir, backups>>

WriteManifest ==
  /\ bstep = "checksums"
  /\ dir.env = seen.env
  /\ dir' = [dir EXCEPT !.manifest = seen.source]
  /\ BackupGoes("complete") /\ UNCHANGED <<seen, backups>>

MarkComplete ==
  /\ bstep = "complete"
  /\ dir' = [dir EXCEPT !.complete = TRUE]
  /\ BackupGoes("idle") /\ UNCHANGED <<seen, backups>>

(* A check or a copy fails, or the process dies; there is no marker yet.   *)
AbandonBackup ==
  /\ bstep # "idle"
  /\ BackupGoes("idle") /\ UNCHANGED <<seen, dir, backups>>

-----------------------------------------------------------------------------
(* The restore                                                             *)

Goes(x, next) == step' = [step EXCEPT ![x] = next]
Unlock(x) ==
  /\ connected' = [connected EXCEPT ![x] = FALSE]
  /\ transferring' = IF transferring = x THEN None ELSE transferring
  /\ Release(x)

(* An error: the locks go with the connection.                             *)
Give(x) ==
  /\ Goes(x, "failed") /\ Unlock(x)
  /\ UNCHANGED <<owner, triggers, import>>

Elsewhere == UNCHANGED <<local, backup, counters, runner, limits>>

(* load_verified_backup and _backup_plan.                                  *)
StartRestore(x) ==
  /\ step[x] = "idle" /\ pc[x] = "idle" /\ dir.complete /\ dialect = "mysql"
  /\ Goes(x, "transfer lock")
  /\ connected' = [connected EXCEPT ![x] = TRUE]
  /\ UNCHANGED <<schema, holder, import, owner, triggers, transferring>>
  /\ Elsewhere

TakeTransferLock(x) ==
  /\ step[x] = "transfer lock"
  /\ \/ transferring = None /\ transferring' = x /\ Goes(x, "migration lock")
        /\ UNCHANGED <<holder, connected, import, owner, triggers>>
     \/ transferring # None /\ Give(x)
  /\ UNCHANGED schema /\ Elsewhere

TakeMigrationLock(x) ==
  /\ step[x] = "migration lock"
  /\ \/ Take(x) /\ Goes(x, "empty")
        /\ UNCHANGED <<connected, import, owner, triggers, transferring>>
     \/ holder # None /\ Give(x)
  /\ UNCHANGED schema /\ Elsewhere

RequireEmpty(x) ==
  /\ step[x] = "empty"
  /\ \/ ~HasObjects /\ Goes(x, "import")
        /\ import' = [import EXCEPT ![x] = 1]
        /\ UNCHANGED <<holder, connected, owner, triggers, transferring>>
     \/ HasObjects /\ Give(x)
  /\ UNCHANGED schema /\ Elsewhere

(* The client process creates one table after the other and stops at the   *)
(* first error.  The tables come with what the backup's migrations did.    *)
Imported(x, i) ==
  /\ owner' = [owner EXCEPT ![i] = x]
  /\ IF i = LedgerPart
     THEN /\ tracked' = TRUE
          /\ ledger' = [v \in 1..Versions |->
                          IF v <= dir.portable.migrations THEN "APPLIED"
                          ELSE "none"]
          /\ UNCHANGED done
     ELSE /\ done' = [v \in 1..Versions |->
                        IF v <= dir.portable.migrations
                        THEN [done[v] EXCEPT ![TableOf(i)] = @ + 1]
                        ELSE done[v]]
          /\ UNCHANGED <<tracked, ledger>>

Exists(i) == IF i = LedgerPart THEN tracked ELSE TableExists(TableOf(i))

(* Mutant: --force.                                                        *)
ImportGoesOn(x, i) == FALSE
ImportStops(x, i) == Exists(i)

ImportPart(x) ==
  /\ import[x] \in Parts
  /\ LET i == import[x] IN
       \/ ~ImportStops(x, i) /\ Imported(x, i)
          /\ import' = [import EXCEPT ![x] = @ + 1]
       \/ ImportStops(x, i) /\ import' = [import EXCEPT ![x] = 0]
          /\ UNCHANGED <<owner, tracked, ledger, done>>
  /\ UNCHANGED <<dialect, foreign, holder, step, connected, triggers,
                 transferring>>
  /\ Elsewhere

(* The restore waits for its client, and then needs its connection again.  *)
RestoreTriggers(x) ==
  /\ step[x] = "import" /\ import[x] \notin Parts
  /\ \/ /\ import[x] # 0 /\ connected[x] /\ triggers = None
        /\ triggers' = x /\ Goes(x, "compare")
        /\ UNCHANGED <<holder, connected, import, owner, transferring>>
     \/ /\ ~(import[x] # 0 /\ connected[x] /\ triggers = None)
        /\ Give(x)
  /\ UNCHANGED schema /\ Elsewhere

(* The snapshot that is compared: every table, the ledger, the triggers.   *)
Snapshot(last) ==
  /\ ~foreign /\ tracked /\ triggers # None
  /\ \A s \in 1..Tables : TableExists(s)
  /\ \A v \in 1..Versions :
       ledger[v] = IF v <= last THEN "APPLIED" ELSE "none"

(* The migration lock is released before the runner takes it itself.       *)
Compare(x) ==
  /\ step[x] = "compare"
  /\ LET last == dir.manifest.migrations IN
       \/ /\ Snapshot(last) /\ dir.portable = dir.manifest
          /\ \/ last = Through /\ Goes(x, "verified") /\ UNCHANGED holder
             \/ last < Through /\ connected[x] /\ Goes(x, "migrate") /\ Release(x)
          /\ UNCHANGED <<connected, import, owner, triggers, transferring>>
       \/ /\ \/ ~Snapshot(last) \/ dir.portable # dir.manifest
             \/ last < Through /\ ~connected[x]
          /\ Give(x)
  /\ UNCHANGED schema /\ Elsewhere

Migrate(x) ==
  /\ step[x] = "migrate"
  /\ \/ Connect(x, "apply", Through) /\ Goes(x, "migrating")
        /\ UNCHANGED <<connected, import, owner, triggers, transferring>>
     \/ /\ holder # None /\ Give(x)
        /\ UNCHANGED <<schema, runner, limits>>
  /\ UNCHANGED <<local, backup, counters>>

AppliedOnly(x) == applied[x] = {Through}

VerifyMigration(x) ==
  /\ step[x] = "migrating" /\ pc[x] = "idle"
  /\ \/ /\ AppliedOnly(x) /\ Snapshot(Through)
        /\ Goes(x, "verified")
        /\ UNCHANGED <<holder, connected, import, owner, triggers, transferring>>
     \/ ~(AppliedOnly(x) /\ Snapshot(Through)) /\ Give(x)
  /\ UNCHANGED schema /\ Elsewhere

(* The report is written and the locks are released.                       *)
Report(x) ==
  /\ step[x] = "verified"
  /\ Goes(x, "reported") /\ Unlock(x)
  /\ UNCHANGED <<schema, import, owner, triggers>>
  /\ Elsewhere

(* The connection breaks, which the restore learns when it uses it next,   *)
(* or the process dies, while its client may go on importing.              *)
Disconnect(x) ==
  /\ step[x] \in {"import", "compare", "migrate", "migrating", "verified"}
  /\ connected[x] /\ pc[x] = "idle" /\ stops < MaxStops
  /\ stops' = stops + 1
  /\ Unlock(x)
  /\ UNCHANGED <<schema, runner, runs, step, import, owner, triggers, local,
                 backup, counters>>

Die(x) ==
  /\ step[x] \notin {"idle", "failed", "reported"} /\ pc[x] = "idle"
  /\ stops < MaxStops
  /\ stops' = stops + 1
  /\ Give(x)
  /\ UNCHANGED <<schema, runner, runs, local, backup, counters>>

RestoreStep(x) ==
  \/ StartRestore(x) \/ TakeTransferLock(x) \/ TakeMigrationLock(x)
  \/ RequireEmpty(x) \/ ImportPart(x) \/ RestoreTriggers(x) \/ Compare(x)
  \/ Migrate(x) \/ VerifyMigration(x) \/ Report(x) \/ Disconnect(x) \/ Die(x)

RunnerStep(r) ==
  /\ \/ RunStep(r)
     \/ r \notin Restorers /\ \E k \in Kinds : Connect(r, k, Versions)
  /\ UNCHANGED <<local, backup, restore, counters>>

Next ==
  \/ \E k \in Keys : StorePhoto(k) \/ DropPhoto(k) \/ ReferPhoto(k)
  \/ Write \/ EditEnvironment
  \/ StartBackup \/ ReadFiles \/ DumpOriginal \/ DumpPortable
  \/ CopyEnvironment \/ CopyPhotos \/ Recheck \/ WriteManifest \/ MarkComplete
  \/ AbandonBackup
  \/ \E x \in Restorers : RestoreStep(x)
  \/ \E r \in Runners : RunnerStep(r)

Spec == Init /\ [][Next]_vars

-----------------------------------------------------------------------------
(* What they promise                                                       *)

HalfImported ==
  /\ \E i \in Parts : owner[i] # None
  /\ \E i \in Parts : owner[i] = None

(* Every variable keeps its type, and the ledger of a destination whose    *)
(* import is not half done tells the truth, whatever restores and runs of  *)
(* the migrations did to it at the same time.                              *)
DestinationSound ==
  /\ MigrationsTypeOK
  /\ source \in [version : Nat, refs : SUBSET Keys, migrations : 1..Versions]
  /\ files \subseteq Keys /\ env \in Nat /\ Moment \in moments
  /\ import \in [Restorers -> 0..Tables + 2]
  /\ owner \in [Parts -> Restorers \cup {None}]
  /\ transferring \in Restorers \cup {None}
  /\ ~HalfImported => LedgerTruthful

(* A directory that is marked COMPLETE holds two dumps of one state of the *)
(* source, the environment file it had then, and every photo a row of it   *)
(* refers to, although writers were not paused (create_local_backup).      *)
BackupIsConsistent ==
  dir.complete =>
    /\ dir.original = dir.manifest /\ dir.portable = dir.manifest
    /\ dir.manifest.refs \subseteq dir.photos
    /\ [source |-> dir.manifest, env |-> dir.env] \in moments

(* A restore reports success only of a destination whose every table it    *)
(* imported itself from the backup, and on which each migration up to      *)
(* Through took effect once and no later one: not after another restore,   *)
(* a client that outlived its restore, or a run of the migrations mixed    *)
(* their work with its own (restore_aiven_backup, lines 383-405).          *)
VerifiedIsBackup ==
  [][\A x \in Restorers :
       step[x] # "verified" /\ step'[x] = "verified" =>
         /\ \A i \in Parts : owner[i] = x
         /\ triggers = x /\ dir.portable = dir.manifest
         /\ \A v \in 1..Versions, s \in 1..Tables :
              done[v][s] = IF v <= Through THEN 1 ELSE 0]_vars
=============================================================================
