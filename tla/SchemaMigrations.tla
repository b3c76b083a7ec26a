--------------------------- MODULE SchemaMigrations ---------------------------
(***************************************************************************)
(* initializeDatabase() of src/database/initializeDatabase.ts, which every  *)
(* replica runs before anything else in src/main.ts: under one advisory     *)
(* lock of its session it reads which migrations are recorded, applies the  *)
(* others one transaction each, and seeds the administrator.                *)
(*                                                                         *)
(* Replicas start at any time, on a database that an older release may have *)
(* migrated part of the way.  A process is an element of Processes: one     *)
(* that a supervisor starts again is another element.  A process that dies  *)
(* is seen by PostgreSQL as a session that ends, however late it notices:   *)
(* until then it is one that is slow.                                       *)
(***************************************************************************)
EXTENDS Integers, Sequences

CONSTANTS
    Processes,      \* processes of the gateway
    Migrations,     \* the list of migrations.ts
    Used,           \* schema objects the gateway's queries name
    NoProcess       \* of the advisory lock: held by nobody

Count == Len(Migrations)

Objects == UNION {Migrations[n].creates : n \in 1..Count}

(* The schema after the first n migrations: what one of them created and   *)
(* none since has dropped                                                   *)
SchemaAfter(n) ==
    {o \in Objects :
        \E i \in 1..n : /\ o \in Migrations[i].creates
                        /\ \A j \in i+1..n : o \notin Migrations[j].drops}

Applicable(m, s) == m.needs \subseteq s /\ m.drops \subseteq s /\ m.creates \cap s = {}

ASSUME MigrationsAssumption ==
    Migrations \in Seq([needs : SUBSET STRING, creates : SUBSET STRING,
                        drops : SUBSET STRING])

(* Each migration fits the schema the ones before it leave, and what it    *)
(* drops is not what it creates.                                            *)
ASSUME MigrationsFollow ==
    \A n \in 1..Count : /\ Applicable(Migrations[n], SchemaAfter(n - 1))
                        /\ Migrations[n].creates \cap Migrations[n].drops = {}

ASSUME UsedAssumption == Used \subseteq SchemaAfter(Count)

ASSUME NoProcessAssumption == NoProcess \notin Processes

VARIABLES
    schema,     \* the committed objects of the database
    versions,   \* rows of schema_migrations
    admin,      \* the row with the administrator's e-mail address
    holder,     \* whose session holds the advisory lock
    pc,         \* of each process
    read,       \* const versions of each process
    next,       \* index of its loop over the migrations
    refused     \* history: a statement was refused for what was in the database

vars == <<schema, versions, admin, holder, pc, read, next, refused>>

database == <<schema, versions, admin>>

Steps == {"down", "lock", "read", "loop", "record", "commit", "seed", "check",
          "grant", "unlock", "unwind", "starting", "serving", "stopped"}

TypeOK ==
    /\ schema \subseteq Objects
    /\ versions \subseteq 1..Count
    /\ admin \in {"none", "user", "admin", "granted"}
    /\ holder \in Processes \cup {NoProcess}
    /\ pc \in [Processes -> Steps]
    /\ read \in [Processes -> SUBSET (1..Count)]
    /\ next \in [Processes -> 1..Count+1]
    /\ refused \in BOOLEAN

(* An older release has left the first n migrations and, unless it died     *)
(* before, its administrator, perhaps without the permissions.              *)
Init ==
    /\ \E n \in 0..Count :
          /\ versions = 1..n
          /\ schema = SchemaAfter(n)
          /\ admin \in IF n = 0 THEN {"none"} ELSE {"none", "admin", "granted"}
    /\ holder = NoProcess
    /\ pc = [p \in Processes |-> "down"]
    /\ read = [p \in Processes |-> {}]
    /\ next = [p \in Processes |-> 1]
    /\ refused = FALSE

Goto(p, step) == pc' = [pc EXCEPT ![p] = step]

(* The database refuses a statement of p, and the error is thrown. *)
Refuse(p) == Goto(p, "unwind") /\ refused' = TRUE

-----------------------------------------------------------------------------
(* await pool.connect() *)
Connect(p) ==
    /\ pc[p] = "down"
    /\ Goto(p, "lock")
    /\ UNCHANGED <<database, holder, read, next, refused>>

LockNothing(p) ==
    /\ pc[p] = "lock"
    /\ Goto(p, "read")
    /\ UNCHANGED <<database, holder, read, next, refused>>

(* SELECT pg_advisory_lock: waits while another session holds it *)
Lock(p) ==
    /\ pc[p] = "lock"
    /\ holder = NoProcess
    /\ holder' = p
    /\ Goto(p, "read")
    /\ UNCHANGED <<database, read, next, refused>>

(* CREATE TABLE IF NOT EXISTS schema_migrations; SELECT version *)
ReadVersions(p) ==
    /\ pc[p] = "read"
    /\ read' = [read EXCEPT ![p] = versions]
    /\ Goto(p, "loop")
    /\ UNCHANGED <<database, holder, next, refused>>

(* if (!versions.has(migration.version)) *)
Skip(p) ==
    /\ pc[p] = "loop"
    /\ next[p] \in read[p]
    /\ next' = [next EXCEPT ![p] = @ + 1]
    /\ UNCHANGED <<database, holder, pc, read, refused>>

-----------------------------------------------------------------------------
(* applyMigration() *)

(* The tables a transaction has altered are locked until it ends. *)
NoOpenTransaction == \A p \in Processes : pc[p] \notin {"record", "commit"}

(* BEGIN; the migration's statements *)
RunSql(p) ==
    /\ pc[p] = "loop" /\ next[p] <= Count /\ next[p] \notin read[p]
    /\ NoOpenTransaction
    /\ IF Applicable(Migrations[next[p]], schema)
       THEN Goto(p, "record") /\ UNCHANGED refused
       ELSE Refuse(p)
    /\ UNCHANGED <<database, holder, read, next>>

RecordOnPool(p) ==
    /\ pc[p] = "record"
    /\ IF next[p] \notin versions
       THEN Goto(p, "commit") /\ UNCHANGED refused
       ELSE Refuse(p)
    /\ versions' = versions \cup {next[p]}
    /\ UNCHANGED <<schema, admin, holder, read, next>>

(* INSERT INTO schema_migrations, in the same transaction *)
Record(p) ==
    /\ pc[p] = "record"
    /\ IF next[p] \notin versions
       THEN Goto(p, "commit") /\ UNCHANGED refused
       ELSE Refuse(p)
    /\ UNCHANGED <<database, holder, read, next>>

Commit(p) ==
    /\ pc[p] = "commit"
    /\ LET m == Migrations[next[p]]
       IN  schema' = (schema \ m.drops) \cup m.creates
    /\ versions' = versions \cup {next[p]}
    /\ next' = [next EXCEPT ![p] = @ + 1]
    /\ Goto(p, "loop")
    /\ UNCHANGED <<admin, holder, read, refused>>

EndLoopOneEarly(p) ==
    /\ pc[p] = "loop" /\ next[p] >= Count
    /\ Goto(p, "seed")
    /\ UNCHANGED <<database, holder, read, next, refused>>

EndLoop(p) ==
    /\ pc[p] = "loop" /\ next[p] > Count
    /\ Goto(p, "seed")
    /\ UNCHANGED <<database, holder, read, next, refused>>

-----------------------------------------------------------------------------
(* seedAdministrator() *)

SeedReplacing(p) ==    \* slip: the row is replaced, its permissions go with it
    /\ pc[p] = "seed"
    /\ admin' = IF admin = "user" THEN admin ELSE "admin"
    /\ Goto(p, "check")
    /\ UNCHANGED <<schema, versions, holder, read, next, refused>>

(* INSERT INTO users ... ON CONFLICT DO NOTHING *)
Seed(p) ==
    /\ pc[p] = "seed"
    /\ admin' = IF admin = "none" THEN "admin" ELSE admin
    /\ Goto(p, "check")
    /\ UNCHANGED <<schema, versions, holder, read, next, refused>>

(* "initial administrator seed conflicts with a non-admin user" *)
CheckSeed(p) ==
    /\ pc[p] = "check"
    /\ IF admin = "user" THEN Refuse(p) ELSE Goto(p, "grant") /\ UNCHANGED refused
    /\ UNCHANGED <<database, holder, read, next>>

(* INSERT INTO user_tool_permissions ... ON CONFLICT DO NOTHING *)
Grant(p) ==
    /\ pc[p] = "grant"
    /\ admin' = "granted"
    /\ Goto(p, "unlock")
    /\ UNCHANGED <<schema, versions, holder, read, next, refused>>

-----------------------------------------------------------------------------
(* The finally block and what main.ts does next *)

LeaveLocked(p, step) ==
    /\ Goto(p, step)
    /\ read' = [read EXCEPT ![p] = {}]
    /\ next' = [next EXCEPT ![p] = 1]
    /\ UNCHANGED <<database, holder, refused>>

(* The lock is released, and the variables of the call are gone. *)
Leave(p, step) ==
    /\ holder' = IF holder = p THEN NoProcess ELSE holder
    /\ Goto(p, step)
    /\ read' = [read EXCEPT ![p] = {}]
    /\ next' = [next EXCEPT ![p] = 1]
    /\ UNCHANGED <<database, refused>>

(* SELECT pg_advisory_unlock, client.release() *)
Unlock(p) == pc[p] = "unlock" /\ Leave(p, "starting")

(* ... after an error, which then ends the process *)
UnlockAndExit(p) == pc[p] = "unwind" /\ Leave(p, "stopped")

(* The consumers, the upstreams and the routes; await app.listen() *)
Listen(p) ==
    /\ pc[p] = "starting"
    /\ Goto(p, "serving")
    /\ UNCHANGED <<database, holder, read, next, refused>>

(* ensureLocalUser() for an IAM user with the administrator's address: the *)
(* UNIQUE column refuses the row of the second comer.                       *)
ProvisionNamesake(p) ==
    /\ pc[p] = "serving"
    /\ admin' = IF admin = "none" THEN "user" ELSE admin
    /\ UNCHANGED <<schema, versions, holder, pc, read, next, refused>>

(* A statement throws for a reason outside the database: the transaction is *)
(* rolled back.                                                             *)
Fail(p) ==
    /\ pc[p] \in {"read", "loop", "record", "commit", "seed", "check", "grant"}
    /\ Goto(p, "unwind")
    /\ UNCHANGED <<database, holder, read, next, refused>>

(* The process dies, or a service that it starts throws: its session ends.  *)
Crash(p) == pc[p] \notin {"down", "stopped"} /\ Leave(p, "stopped")

-----------------------------------------------------------------------------
Advance(p) ==
    \/ Lock(p) \/ ReadVersions(p) \/ Skip(p)
    \/ RunSql(p) \/ Record(p) \/ Commit(p) \/ EndLoop(p)
    \/ Seed(p) \/ CheckSeed(p) \/ Grant(p)
    \/ Unlock(p) \/ UnlockAndExit(p) \/ Listen(p)

Next ==
    \E p \in Processes :
        Connect(p) \/ Advance(p) \/ ProvisionNamesake(p) \/ Fail(p) \/ Crash(p)

Spec == Init /\ [][Next]_vars

(* A statement is answered, and a lock that is free is granted. *)
Fairness == \A p \in Processes : WF_vars(Advance(p))

FairSpec == Spec /\ Fairness

-----------------------------------------------------------------------------
(* Safety *)

(* At every moment, between any two steps of any process and after any      *)
(* crash, the database holds a whole number of migrations in their order,   *)
(* and schema_migrations says which: a migration is never applied without   *)
(* its row nor recorded without its effect, and no half of one stays.       *)
SchemaMatchesVersions ==
    \E n \in 0..Count : versions = 1..n /\ schema = SchemaAfter(n)

(* Replicas that start at once, also over what another left when it died,   *)
(* never get in each other's way: no CREATE meets an existing object, no    *)
(* version is recorded twice, and no user takes the administrator's address *)
(* before the seed does.  A start fails only for reasons outside.           *)
StartsNeverConflict == ~refused

(* A replica that takes requests finds every table, column and index its    *)
(* queries name, and the administrator with its permissions.                *)
ServingFindsItsSchema ==
    \A p \in Processes : pc[p] = "serving" => Used \subseteq schema /\ admin = "granted"

Serving == {p \in Processes : pc[p] = "serving"}

Log == INSTANCE MigrationLog WITH
    Last <- Count, Stage <- [n \in 0..Count |-> SchemaAfter(n)], serving <- Serving

(* Whatever number of replicas start, fail and die, the database sees one   *)
(* migration after the other, each with its row, then the administrator and *)
(* only then requests.                                                      *)
ImplementsMigrationLog == Log!Spec

-----------------------------------------------------------------------------
(* Liveness *)

(* Every process that begins to start ends up serving or stopped, however   *)
(* many others start, die or fail while it waits for the lock: the lock is  *)
(* neither kept by one that serves nor by one that failed.                  *)
EveryStartEnds ==
    \A p \in Processes : pc[p] = "lock" ~> pc[p] \in {"serving", "stopped"}

=============================================================================
