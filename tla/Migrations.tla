----------------------------- MODULE Migrations -----------------------------
(***************************************************************************)
(* A gateway's start (services/gateway/cmd/gateway/main.go): it brings the *)
(* database to its own migration files (internal/db/migrations.go) and     *)
(* only then listens.  Several gateways start at once, with the files of   *)
(* their own releases; each may die at any point and is started again      *)
(* (restart: unless-stopped, infra/compose/docker-compose.yml).            *)
(*                                                                         *)
(* A migration runs in a transaction of its own, after a statement outside *)
(* it found the migration missing.  What keeps two gateways apart is in    *)
(* the database: the catalog's unique names and the primary key of         *)
(* schema_migrations, for which the second waits until the first ends.     *)
(***************************************************************************)
EXTENDS Integers

CONSTANTS
  Gateways,
  Names,          \* migration files by their order; names sort as strings there
  Repeatable,     \* files whose body may run again (IF NOT EXISTS)
  Sums,           \* checksums of files
  NoSum,          \* no row in schema_migrations, or no such file
  Deployments,    \* gateway -> name -> checksum of the file it was deployed with
  MaxFaults       \* bound on the faults of the environment

ASSUME MigrationsAssumption ==
  /\ Names \subseteq Nat
  /\ NoSum \notin Sums
  /\ Deployments \subseteq [Gateways -> [Names -> Sums \cup {NoSum}]]
  /\ MaxFaults \in Nat

VARIABLES
  files,          \* the deployment
  recorded,       \* name -> schema_migrations.checksum
  pc,             \* gateway -> where in main it is
  todo,           \* gateway -> names its loop has not passed
  faults,
  applied         \* history: name -> how often its body was committed in full

vars == <<files, recorded, pc, todo, faults, applied>>

Phases == {"down", "check", "exec", "record", "commit", "serving"}

Files(g) == {m \in Names : files[g][m] # NoSum}

\* The loop's item; none when the loop is over.
Item(g, m) == m \in todo[g] /\ \A n \in todo[g] : m <= n

TypeOK ==
  /\ files \in Deployments
  /\ recorded \in [Names -> Sums \cup {NoSum}]
  /\ pc \in [Gateways -> Phases]
  /\ todo \in [Gateways -> SUBSET Names]
  /\ faults \in 0 .. MaxFaults
  /\ applied \in [Names -> Nat]

Init ==
  /\ files \in Deployments
  /\ recorded = [m \in Names |-> NoSum]
  /\ pc = [g \in Gateways |-> "down"]
  /\ todo = [g \in Gateways |-> {}]
  /\ faults = 0
  /\ applied = [m \in Names |-> 0]

Goto(g, phase) == pc' = [pc EXCEPT ![g] = phase]
Passes(g, m) == todo' = [todo EXCEPT ![g] = @ \ {m}]

\* log.Fatal, or a fault: the loop's variables are gone.
Exits(g) == Goto(g, "down") /\ todo' = [todo EXCEPT ![g] = {}]

\* h is in a transaction that has run the body of m.
Runs(h, m) == pc[h] \in {"record", "commit"} /\ Item(h, m)

-----------------------------------------------------------------------------

\* Connect, ping, CREATE TABLE IF NOT EXISTS schema_migrations, load the files.
Start(g) ==
  /\ pc[g] = "down"
  /\ todo' = [todo EXCEPT ![g] = Files(g)]
  /\ Goto(g, "check")
  /\ UNCHANGED <<files, recorded, faults, applied>>

SkipRecorded(g) ==   \* a mutant: a row is enough, whatever its checksum
  /\ pc[g] = "check"
  /\ \E m \in Names :
       /\ Item(g, m)
       /\ IF recorded[m] = NoSum THEN Goto(g, "exec") /\ UNCHANGED todo
          ELSE Passes(g, m) /\ UNCHANGED pc
  /\ UNCHANGED <<files, recorded, faults, applied>>

\* SELECT checksum: missing is run, equal is passed, changed ends the process.
Check(g) ==
  /\ pc[g] = "check"
  /\ \E m \in Names :
       /\ Item(g, m)
       /\ \/ recorded[m] = NoSum /\ Goto(g, "exec") /\ UNCHANGED todo
          \/ recorded[m] = files[g][m] /\ Passes(g, m) /\ UNCHANGED pc
          \/ recorded[m] \notin {NoSum, files[g][m]} /\ Exits(g)
  /\ UNCHANGED <<files, recorded, faults, applied>>

\* The body.  What it creates may be there by now: then it fails, unless it
\* may run again; and it fails too where it had to wait for the other.
Exec(g) ==
  /\ pc[g] = "exec"
  /\ \E m \in Names :
       /\ Item(g, m)
       /\ \A h \in Gateways : ~Runs(h, m)
       /\ \/ /\ applied[m] = 0 \/ m \in Repeatable
             /\ Goto(g, "record") /\ UNCHANGED todo
          \/ applied[m] > 0 /\ Exits(g)
  /\ UNCHANGED <<files, recorded, faults, applied>>

RecordAnyway(g) ==   \* a mutant: ON CONFLICT DO NOTHING
  /\ pc[g] = "record"
  /\ Goto(g, "commit")
  /\ UNCHANGED <<files, recorded, todo, faults, applied>>

\* INSERT INTO schema_migrations.
Record(g) ==
  /\ pc[g] = "record"
  /\ \E m \in Names :
       /\ Item(g, m)
       /\ \A h \in Gateways : ~(pc[h] = "commit" /\ Item(h, m))
       /\ IF recorded[m] = NoSum THEN Goto(g, "commit") /\ UNCHANGED todo ELSE Exits(g)
  /\ UNCHANGED <<files, recorded, faults, applied>>

Commits(g, m) ==
  /\ recorded' = [recorded EXCEPT ![m] = files[g][m]]
  /\ applied' = [applied EXCEPT ![m] = @ + 1]

Commit(g) ==
  /\ pc[g] = "commit"
  /\ \E m \in Names : Item(g, m) /\ Commits(g, m) /\ Passes(g, m)
  /\ Goto(g, "check")
  /\ UNCHANGED <<files, faults>>

\* ListenAndServe, past the loop.
Serve(g) ==
  /\ pc[g] = "check"
  /\ todo[g] = {}
  /\ Goto(g, "serving")
  /\ UNCHANGED <<files, recorded, todo, faults, applied>>

-----------------------------------------------------------------------------
(* Faults: a statement fails, the thirty seconds are over, the process is  *)
(* killed.  A transaction in progress is rolled back, or committed without *)
(* the gateway's learning of it.                                           *)

Fault == faults < MaxFaults /\ faults' = faults + 1

Die(g) ==
  /\ Fault
  /\ pc[g] # "down"
  /\ Exits(g)
  /\ UNCHANGED <<files, recorded, applied>>

DieHalfDone(g) ==   \* a mutant: the body is committed before it is recorded
  /\ Fault
  /\ pc[g] = "commit"
  /\ \E m \in Names : Item(g, m) /\ applied' = [applied EXCEPT ![m] = @ + 1]
  /\ Exits(g)
  /\ UNCHANGED <<files, recorded>>

DieCommitted(g) ==
  /\ Fault
  /\ pc[g] = "commit"
  /\ \E m \in Names : Item(g, m) /\ Commits(g, m)
  /\ Exits(g)
  /\ UNCHANGED files

Step(g) == Start(g) \/ Check(g) \/ Exec(g) \/ Record(g) \/ Commit(g) \/ Serve(g)

Next == \E g \in Gateways : Step(g) \/ Die(g) \/ DieCommitted(g)

Spec == Init /\ [][Next]_vars

\* Processes run on and are started again; PostgreSQL lets the waiter on when
\* the transaction it waits for has ended.
FairSpec == Spec /\ \A g \in Gateways : WF_vars(Step(g))

-----------------------------------------------------------------------------
(* Properties. *)

(***************************************************************************)
(* However many gateways start at once and die on the way, the body of a   *)
(* migration is committed once at most, and it is recorded exactly when it *)
(* was.  (migrations.go 38-55)                                             *)
(***************************************************************************)
AppliedOnceAndRecorded ==
  \A m \in Names : applied[m] = IF recorded[m] = NoSum THEN 0 ELSE 1

(***************************************************************************)
(* A gateway runs a migration, and listens, on a database that has had     *)
(* every earlier file of its release, in the very version it was deployed  *)
(* with.  (migrations.go 34-61, main.go 33-49)                             *)
(***************************************************************************)
Has(g, m) == recorded[m] = files[g][m]

BuiltOnOwnFiles ==
  \A g \in Gateways :
    /\ pc[g] = "serving" => \A m \in Files(g) : Has(g, m)
    /\ pc[g] \in {"exec", "record", "commit"} =>
         \E m \in Files(g) : Item(g, m) /\ \A n \in Files(g) : n < m => Has(g, n)

(***************************************************************************)
(* Gateways whose files agree all come up in the end: one that lost a race *)
(* fails, is started again and finds the migration recorded.               *)
(* (main.go 33-49; docker-compose.yml 43)                                  *)
(***************************************************************************)
Agree ==
  \A g, h \in Gateways : \A m \in Files(g) \cap Files(h) : files[g][m] = files[h][m]

GatewaysComeUp == Agree => \A g \in Gateways : <>[](pc[g] = "serving")

=============================================================================
