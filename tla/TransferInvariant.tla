------------------------- MODULE TransferInvariant -------------------------
(***************************************************************************)
(* The inductive invariant of DatabaseTransfer, in named parts: what the   *)
(* backup has read, what the restores and their clients have made of the   *)
(* destination, and what a run of the migrations relies on.                *)
(***************************************************************************)
EXTENDS DatabaseTransfer

Sources == [version : Nat, refs : SUBSET Keys, migrations : 1..Versions]
Directories ==
  [original : Sources \cup {None}, portable : Sources \cup {None}, photos : SUBSET Keys,
   env : Nat, manifest : Sources \cup {None}, complete : BOOLEAN]
Sightings == [source : Sources \cup {None}, photos : SUBSET Keys, env : Nat]
RestoreSteps ==
  {"idle", "transfer lock", "migration lock", "empty", "import", "compare", "migrate",
   "migrating", "verified", "reported", "failed"}
BackupSteps ==
  {"idle", "files", "original", "portable", "environment", "photos", "recheck", "checksums",
   "complete"}

SourceTypes ==
  /\ source \in Sources /\ files \subseteq Keys /\ env \in Nat /\ Moment \in moments
  /\ bstep \in BackupSteps /\ seen \in Sightings /\ dir \in Directories

RestoreTypes ==
  /\ step \in [Restorers -> RestoreSteps] /\ connected \in [Restorers -> BOOLEAN]
  /\ import \in [Restorers -> 0..Tables + 2]
  /\ owner \in [Parts -> Restorers \cup {None}] /\ triggers \in Restorers \cup {None}
  /\ transferring \in Restorers \cup {None}

(* The source only gets newer, and no two of its states are of one age.    *)
Precedes(a, b) == a.version <= b.version /\ (a.version = b.version => a = b)

Dumped == {"portable", "environment", "photos", "recheck", "checksums", "complete"}
DumpedTwice == Dumped \ {"portable"}
Rechecked == {"checksums", "complete"}

BackupHonest ==
  /\ bstep # "idle" =>
       /\ ~dir.complete
       /\ seen.source \in Sources /\ Precedes(seen.source, source)
       /\ bstep # "files" => seen.source.refs \subseteq seen.photos
  /\ bstep \in Dumped =>
       dir.original \in Sources /\ Precedes(seen.source, dir.original) /\ Precedes(dir.original, source)
  /\ bstep \in DumpedTwice =>
       dir.portable \in Sources /\ Precedes(seen.source, dir.portable) /\ Precedes(dir.portable, source)
  /\ bstep \in Rechecked \cup {"recheck"} => dir.photos = seen.photos
  /\ bstep \in Rechecked =>
       /\ dir.original = seen.source /\ dir.portable = seen.source
       /\ [source |-> seen.source, env |-> seen.env] \in moments
  /\ bstep = "complete" => dir.manifest = seen.source /\ dir.env = seen.env
  /\ dir.complete => dir.portable \in Sources

(* A restore has the connection's locks to itself, its client imports in   *)
(* order, and it goes on only when its client has imported everything.     *)
BeforeImport == {"idle", "transfer lock", "migration lock", "empty"}
AfterImport == {"compare", "migrate", "migrating", "verified", "reported"}

RestoreHonest(x) ==
  /\ step[x] # "idle" => dir.complete /\ dialect = "mysql"
  /\ pc[x] # "idle" => step[x] = "migrating"
  /\ import[x] # 0 => step[x] \notin BeforeImport
  /\ \A j \in Parts : j < import[x] => owner[j] = x
  /\ step[x] \in AfterImport => import[x] = Tables + 2 /\ triggers = x

LockHeld == \A r \in Runners : pc[r] # "idle" => holder = r

PartOf(s) == IF s < LedgerPart THEN s ELSE s + 1
Has(s) == owner[PartOf(s)] # None
Nobody == \A i \in Parts : owner[i] = None
Copied == dir.portable.migrations

(* What a client imported is there, and before there is a ledger, nothing  *)
(* else is in a destination that a restore found empty.                    *)
ImportsKnown ==
  /\ \A i \in Parts : owner[i] # None => Exists(i) /\ dir.complete /\ dialect = "mysql"
  /\ ~tracked /\ (~Nobody \/ \E x \in Restorers : import[x] # 0) =>
         \A v \in 1..Versions, s \in 1..Tables :
           done[v][s] = IF Has(s) /\ v <= Copied THEN 1 ELSE 0

NoLedgerYet ==
  ~tracked => /\ \A v \in 1..Versions : ledger[v] = "none"
              /\ \A r \in Runners : pc[r] \in {"idle", "check", "ledger"}

(* The destination belongs to the migrations, or to a restore that brought *)
(* its ledger, which then speaks of the tables that restores brought.      *)
Regular == Nobody \/ owner[LedgerPart] # None
Kept(s) == Nobody \/ Has(s)

TrueOf(v) ==
  /\ \A s \in 1..Tables : done[v][s] <= 1
  /\ ledger[v] = "APPLIED" => \A s \in 1..Tables : Kept(s) => done[v][s] = 1
  /\ ledger[v] = "none" /\ v > 1 => \A s \in 1..Tables : done[v][s] = 0
  /\ dialect = "postgres" /\ ledger[v] # "APPLIED" => \A s \in 1..Tables : done[v][s] = 0
  /\ ledger[v] # "none" => \A w \in 1..v - 1 : ledger[w] = "APPLIED"

LedgerTrue == Regular => \A v \in 1..Versions : TrueOf(v)

(* The ledger of a backup names what its tables have, and while one of     *)
(* them is missing no migration comes to an end.                           *)
LedgerCopied ==
  owner[LedgerPart] # None =>
    /\ Copied \in 1..Versions
    /\ \A v \in 1..Versions : v <= Copied => ledger[v] = "APPLIED"
    /\ \A s \in 1..Tables : ~Has(s) => \A v \in 1..Versions : done[v][s] = 0
    /\ (\E s \in 1..Tables : ~Has(s)) =>
         \A v \in 1..Versions : v > Copied => ledger[v] # "APPLIED"

(* What a run relies on from one statement to the next.                    *)
Baselining(r) ==
  /\ kind[r] = "baseline" /\ pc[r] # "idle" => dialect = "mysql"
  /\ pc[r] = "insert" => kind[r] = "baseline"
  /\ pc[r] \in {"ledger", "insert"} /\ kind[r] = "baseline" =>
       \A s \in 1..Tables : TableExists(s)

Planned(r) ==
  pc[r] \in {"migration", "statement"} =>
    /\ pending[r] = Unapplied(through[r])
    /\ \A v \in 1..Versions : v > through[r] => ledger[v] = "none"

BetweenMigrations(r) ==
  pc[r] = "migration" => \A v \in 1..Versions : ledger[v] # "APPLYING"

InMigration(r) ==
  pc[r] = "statement" =>
    /\ \A v \in pending[r] : v # Current(r) => ledger[v] = "none"
    /\ dialect = "mysql" =>
         /\ ledger[Current(r)] = "APPLYING"
         /\ \A s \in 1..Tables : s < at[r] => done[Current(r)][s] = 1
         /\ \A s \in 1..Tables : s >= at[r] /\ Current(r) > 1 => done[Current(r)][s] = 0
    /\ dialect = "postgres" => ledger[Current(r)] = "none"

RunTrue(r) ==
  /\ Baselining(r)
  /\ pc[r] = "statement" => pending[r] # {}
  /\ Regular => Planned(r) /\ BetweenMigrations(r) /\ InMigration(r)

BackupPart == SourceTypes /\ BackupHonest /\ BackupIsConsistent
DestinationPart ==
  /\ MigrationsTypeOK /\ RestoreTypes /\ LockHeld
  /\ ImportsKnown /\ NoLedgerYet /\ LedgerTrue /\ LedgerCopied
  /\ \A x \in Restorers : RestoreHonest(x)
  /\ \A r \in Runners : RunTrue(r)

TransferInv == BackupPart /\ DestinationPart
=============================================================================
