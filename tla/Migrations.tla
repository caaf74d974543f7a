----------------------------- MODULE Migrations -----------------------------
(***************************************************************************)
(* The numbered migrations of one database and the runners that apply them *)
(* (migrations.py).  A MySQL statement commits on its own, so the ledger   *)
(* says APPLYING before the first statement of a migration and APPLIED     *)
(* after the last; PostgreSQL commits a migration with its ledger row.     *)
(* A lock of the server, gone with the connection that holds it, lets one  *)
(* runner in at a time.                                                    *)
(*                                                                         *)
(* Statement s of the first migration creates table s, and statement s of  *)
(* a later one changes it.  The files on disk are those the ledger names:  *)
(* checksums are left out.                                                 *)
(***************************************************************************)
EXTENDS Naturals

CONSTANTS
  Runners,
  Versions,      \* how many migrations there are
  Tables,        \* how many tables the first one creates
  MaxRuns, MaxStops,
  None           \* the absent value

ASSUME MigrationsAssumption ==
  /\ Versions \in Nat \ {0} /\ Tables \in Nat \ {0}
  /\ MaxRuns \in Nat /\ MaxStops \in Nat
  /\ None \notin Runners

VARIABLES
  dialect,   \* "mysql" or "postgres"
  foreign,   \* there are objects no migration knows
  tracked,   \* schema_migrations exists
  ledger,    \* and its rows
  done,      \* how often each statement took effect
  holder,    \* the connection that has the migration lock
  pc, kind, through,   \* of each runner: step, operation, last version
  pending,   \* the migrations it found to apply
  at,        \* the statement it is at
  applied,   \* the migrations it has applied
  runs, stops

schema == <<dialect, foreign, tracked, ledger, done>>
runner == <<pc, kind, through, pending, at, applied>>
limits == <<runs, stops>>
migrationVars == <<schema, holder, runner, limits>>

Kinds == {"apply", "baseline", "inspect"}
Untouched == [v \in 1..Versions |-> [s \in 1..Tables |-> 0]]

(* An empty database, one made from the first migration's script by hand,  *)
(* or one with other tables.                                               *)
MigrationsInit ==
  /\ dialect \in {"mysql", "postgres"}
  /\ foreign \in BOOLEAN
  /\ tracked = FALSE /\ ledger = [v \in 1..Versions |-> "none"]
  /\ \/ done = Untouched
     \/ dialect = "mysql"
        /\ done = [Untouched EXCEPT ![1] = [s \in 1..Tables |-> 1]]
  /\ holder = None
  /\ pc = [r \in Runners |-> "idle"]
  /\ kind = [r \in Runners |-> "inspect"]
  /\ through = [r \in Runners |-> 0]
  /\ pending = [r \in Runners |-> {}]
  /\ at = [r \in Runners |-> 1]
  /\ applied = [r \in Runners |-> {}]
  /\ runs = 0 /\ stops = 0

-----------------------------------------------------------------------------
(* What a runner reads                                                     *)

TableExists(s) == done[1][s] > 0
HasObjects == tracked \/ foreign \/ \E s \in 1..Tables : TableExists(s)

ValidLedger(last) ==
  \A v \in 1..Versions :
    /\ ledger[v] # "APPLYING"
    /\ ledger[v] = "APPLIED" =>
         v <= last /\ \A w \in 1..v : ledger[w] = "APPLIED"

Unapplied(last) == {v \in 1..last : ledger[v] # "APPLIED"}
First(versions) == CHOOSE v \in versions : \A w \in versions : v <= w
Current(r) == First(pending[r])

(* The objects are exactly the tables of the first migration.              *)
MatchesFirst ==
  /\ ~tracked /\ ~foreign
  /\ \A s \in 1..Tables : TableExists(s)

-----------------------------------------------------------------------------
(* A run                                                                   *)

(* RELEASE_LOCK, or the end of the connection.                             *)
Release(r) == holder' = IF holder = r THEN None ELSE holder

Leave(r) ==
  /\ pc' = [pc EXCEPT ![r] = "idle"]
  /\ Release(r)
  /\ UNCHANGED <<kind, through, pending, at, applied>>

Go(r, step) == pc' = [pc EXCEPT ![r] = step]

Take(r) == holder = None /\ holder' = r

(* A run that finds the lock taken leaves without a trace.                 *)
Connect(r, operation, last) ==
  /\ pc[r] = "idle" /\ runs < MaxRuns
  /\ operation = "baseline" => dialect = "mysql"
  /\ Take(r)
  /\ runs' = runs + 1
  /\ Go(r, "check")
  /\ kind' = [kind EXCEPT ![r] = operation]
  /\ through' = [through EXCEPT ![r] = last]
  /\ pending' = [pending EXCEPT ![r] = {}]
  /\ applied' = [applied EXCEPT ![r] = {}]
  /\ UNCHANGED <<schema, at, stops>>

Check(r) ==
  /\ pc[r] = "check"
  /\ LET refused == \/ kind[r] = "inspect"
                    \/ kind[r] = "apply" /\ HasObjects /\ ~tracked
                    \/ kind[r] = "baseline" /\ ~MatchesFirst IN
       \/ refused /\ Leave(r)
       \/ ~refused /\ Go(r, "ledger")
          /\ UNCHANGED <<holder, kind, through, pending, at, applied>>
  /\ UNCHANGED <<schema, limits>>

(* CREATE TABLE IF NOT EXISTS, which both databases commit here.           *)
CreateLedger(r) ==
  /\ pc[r] = "ledger"
  /\ tracked' = TRUE
  /\ Go(r, IF kind[r] = "baseline" THEN "insert" ELSE "validate")
  /\ UNCHANGED <<dialect, foreign, ledger, done, holder, kind, through,
                 pending, at, applied, limits>>

Baseline(r) ==
  /\ pc[r] = "insert"
  /\ ledger' = [ledger EXCEPT ![1] = "APPLIED"]
  /\ Leave(r)
  /\ UNCHANGED <<dialect, foreign, tracked, done, limits>>

Validate(r) ==
  /\ pc[r] = "validate"
  /\ \/ /\ ~ValidLedger(through[r])
        /\ Leave(r)
     \/ /\ ValidLedger(through[r])
        /\ pending' = [pending EXCEPT ![r] = Unapplied(through[r])]
        /\ Go(r, "migration")
        /\ UNCHANGED <<holder, kind, through, at, applied>>
  /\ UNCHANGED <<schema, limits>>

(* Mutant: the row is written with the last statement, as in PostgreSQL.   *)
BeginUnrecorded(r) ==
  /\ pc[r] = "migration" /\ pending[r] # {}
  /\ at' = [at EXCEPT ![r] = 1] /\ Go(r, "statement")
  /\ UNCHANGED <<schema, holder, kind, through, pending, applied, limits>>

(* MySQL: the row, of which there is one per version, is committed before  *)
(* the first statement.                                                    *)
BeginMigration(r) ==
  /\ pc[r] = "migration" /\ pending[r] # {}
  /\ \/ /\ dialect = "mysql" /\ ledger[Current(r)] # "none"
        /\ Leave(r) /\ UNCHANGED ledger
     \/ /\ dialect = "mysql" => ledger[Current(r)] = "none"
        /\ ledger' = IF dialect = "mysql"
                     THEN [ledger EXCEPT ![Current(r)] = "APPLYING"] ELSE ledger
        /\ at' = [at EXCEPT ![r] = 1]
        /\ Go(r, "statement")
        /\ UNCHANGED <<holder, kind, through, pending, applied>>
  /\ UNCHANGED <<dialect, foreign, tracked, done, limits>>

(* CREATE TABLE needs a name that is free, ALTER TABLE one that is not.    *)
Possible(v, s) == IF v = 1 THEN ~TableExists(s) ELSE TableExists(s)

(* In PostgreSQL the statement is not committed yet.                       *)
Statement(r) ==
  /\ pc[r] = "statement" /\ at[r] <= Tables
  /\ LET v == Current(r) IN
       \/ /\ ~Possible(v, at[r])
          /\ Leave(r) /\ UNCHANGED done
       \/ /\ Possible(v, at[r])
          /\ done' = IF dialect = "mysql"
                     THEN [done EXCEPT ![v][at[r]] = @ + 1] ELSE done
          /\ at' = [at EXCEPT ![r] = @ + 1]
          /\ UNCHANGED <<pc, holder, kind, through, pending, applied>>
  /\ UNCHANGED <<dialect, foreign, tracked, ledger, limits>>

EndMigration(r) ==
  /\ pc[r] = "statement" /\ at[r] > Tables
  /\ dialect = "postgres" => ledger[Current(r)] = "none"
  /\ LET v == Current(r) IN
       /\ ledger' = [ledger EXCEPT ![v] = "APPLIED"]
       /\ done' = IF dialect = "mysql" THEN done
                  ELSE [done EXCEPT ![v] = [s \in 1..Tables |-> @[s] + 1]]
       /\ pending' = [pending EXCEPT ![r] = @ \ {v}]
       /\ applied' = [applied EXCEPT ![r] = @ \cup {v}]
  /\ Go(r, "migration")
  /\ UNCHANGED <<dialect, foreign, tracked, holder, kind, through, at, limits>>

EndRun(r) ==
  /\ pc[r] = "migration" /\ pending[r] = {}
  /\ Leave(r)
  /\ UNCHANGED <<schema, limits>>

(* A statement fails, the connection breaks or the process dies.           *)
StopRun(r) ==
  /\ pc[r] # "idle" /\ stops < MaxStops
  /\ stops' = stops + 1
  /\ Leave(r)
  /\ UNCHANGED <<schema, runs>>

RunStep(r) ==
  \/ Check(r) \/ CreateLedger(r) \/ Baseline(r) \/ Validate(r)
  \/ BeginMigration(r) \/ Statement(r) \/ EndMigration(r) \/ EndRun(r)
  \/ StopRun(r)

MigrationsNext ==
  \E r \in Runners :
    \/ \E operation \in Kinds : Connect(r, operation, Versions)
    \/ RunStep(r)

MigrationsSpec == MigrationsInit /\ [][MigrationsNext]_migrationVars

-----------------------------------------------------------------------------
(* What the ledger promises                                                *)

MigrationsTypeOK ==
  /\ dialect \in {"mysql", "postgres"} /\ foreign \in BOOLEAN
  /\ tracked \in BOOLEAN
  /\ ledger \in [1..Versions -> {"none", "APPLYING", "APPLIED"}]
  /\ done \in [1..Versions -> [1..Tables -> Nat]]
  /\ holder \in Runners \cup {None}
  /\ pc \in [Runners -> {"idle", "check", "ledger", "insert", "validate",
                         "migration", "statement"}]
  /\ kind \in [Runners -> Kinds] /\ through \in [Runners -> 0..Versions]
  /\ pending \in [Runners -> SUBSET (1..Versions)]
  /\ at \in [Runners -> 1..Tables + 1]
  /\ applied \in [Runners -> SUBSET (1..Versions)]
  /\ runs \in 0..MaxRuns /\ stops \in 0..MaxStops

(* However many runs are started together, stopped part way and repeated,  *)
(* no statement of a migration takes effect twice, none before every       *)
(* earlier migration is complete, and the ledger says of each what took    *)
(* effect: all of an APPLIED one, in PostgreSQL none of any other, and in  *)
(* MySQL none of one without a row unless its tables were made by hand.    *)
LedgerTruthful ==
  \A v \in 1..Versions :
    /\ \A s \in 1..Tables : done[v][s] <= 1
    /\ ledger[v] = "APPLIED" => \A s \in 1..Tables : done[v][s] = 1
    /\ ledger[v] = "none" /\ v > 1 => done[v] = Untouched[v]
    /\ dialect = "postgres" /\ ledger[v] # "APPLIED" => done[v] = Untouched[v]
    /\ ledger[v] # "none" => \A w \in 1..v - 1 : ledger[w] = "APPLIED"
=============================================================================
