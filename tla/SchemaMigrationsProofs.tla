------------------------ MODULE SchemaMigrationsProofs ------------------------
(***************************************************************************)
(* Proofs about SchemaMigrations, for any number of processes and any list  *)
(* of migrations each of which fits what the ones before it leave.          *)
(***************************************************************************)
EXTENDS SchemaMigrations, TLAPS

(* Between the granting of the lock and its release *)
Locked == {"read", "loop", "record", "commit", "seed", "check", "grant", "unlock", "unwind"}

Migrated == {"seed", "check", "grant", "unlock", "starting", "serving"}

(* The lock is held by the one process that is under it: nobody else works  *)
(* meanwhile, and nobody leaves or dies and keeps it.                       *)
HeldWhileNeeded == \A p \in Processes : pc[p] \in Locked <=> holder = p

(* What a process has read and done since is all that is recorded. *)
ReadIsCurrent ==
    \A p \in Processes : pc[p] \in {"loop", "record", "commit"} =>
        /\ \A n \in 1..Count : n \in versions <=> n \in read[p] \/ n < next[p]
        /\ pc[p] # "loop" => next[p] <= Count /\ next[p] \notin read[p]

NotBegun == \A p \in Processes : pc[p] \in {"down", "lock", "read"} => next[p] = 1

MigratedWholly == \A p \in Processes : pc[p] \in Migrated => versions = 1..Count

Seeded ==
    /\ admin # "user"
    /\ \A p \in Processes :
          /\ pc[p] \in {"check", "grant"} => admin # "none"
          /\ pc[p] \in {"unlock", "starting", "serving"} => admin = "granted"

IInv ==
    /\ TypeOK
    /\ HeldWhileNeeded
    /\ SchemaMatchesVersions
    /\ NotBegun
    /\ ReadIsCurrent
    /\ MigratedWholly
    /\ Seeded
    /\ StartsNeverConflict

-----------------------------------------------------------------------------
(* The list of migrations *)

(* The list has a length. *)
LEMMA CountIsNat == Count \in Nat
BY MigrationsAssumption DEF Count

(* What the first n migrations build is made of objects they create. *)
LEMMA SchemaIsObjects == \A n : SchemaAfter(n) \subseteq Objects
BY DEF SchemaAfter

(* The next migration takes the schema from one stage to the following. *)
LEMMA NextStage ==
    ASSUME NEW n \in 1..Count
    PROVE  SchemaAfter(n) =
              (SchemaAfter(n - 1) \ Migrations[n].drops) \cup Migrations[n].creates
<1> DEFINE m == Migrations[n]
<1>1. n \in Nat /\ Count \in Nat
  BY CountIsNat
<1>2. m.creates \subseteq Objects
  BY DEF Objects
<1>3. ASSUME NEW o \in SchemaAfter(n)
      PROVE  o \in (SchemaAfter(n - 1) \ m.drops) \cup m.creates
  <2>1. PICK i \in 1..n : /\ o \in Migrations[i].creates
                          /\ \A j \in i+1..n : o \notin Migrations[j].drops
    BY <1>3 DEF SchemaAfter
  <2>2. CASE i = n
    BY <2>1, <2>2
  <2>3. CASE i # n
    <3>1. i \in 1..(n - 1) /\ n \in i+1..n
      BY <1>1, <2>3
    <3>2. o \notin m.drops
      BY <2>1, <3>1
    <3>3. \A j \in i+1..(n - 1) : o \notin Migrations[j].drops
      BY <1>1, <2>1
    <3>4. o \in SchemaAfter(n - 1)
      BY <1>3, <2>1, <3>1, <3>3 DEF SchemaAfter
    <3>5. QED BY <3>2, <3>4
  <2>4. QED BY <2>2, <2>3
<1>4. ASSUME NEW o \in m.creates PROVE o \in SchemaAfter(n)
  <2>1. n \in 1..n /\ \A j \in n+1..n : o \notin Migrations[j].drops
    BY <1>1
  <2>2. QED BY <1>2, <1>4, <2>1 DEF SchemaAfter
<1>5. ASSUME NEW o \in SchemaAfter(n - 1), o \notin m.drops PROVE o \in SchemaAfter(n)
  <2>1. PICK i \in 1..(n - 1) : /\ o \in Migrations[i].creates
                                /\ \A j \in i+1..(n - 1) : o \notin Migrations[j].drops
    BY <1>5 DEF SchemaAfter
  <2>2. \A j \in i+1..n : o \notin Migrations[j].drops
    BY <1>1, <1>5, <2>1
  <2>3. i \in 1..n
    BY <1>1
  <2>4. QED BY <1>5, <2>1, <2>2, <2>3 DEF SchemaAfter
<1>6. QED BY <1>3, <1>4, <1>5

-----------------------------------------------------------------------------
(* A process that finds its next migration unrecorded has recorded all the  *)
(* earlier ones and no later one, so that the migration fits.               *)
LEMMA NextMigrationFits ==
    ASSUME IInv, NEW p \in Processes, pc[p] \in {"loop", "record", "commit"},
           next[p] <= Count, next[p] \notin read[p]
    PROVE  /\ next[p] \in 1..Count
           /\ versions = 1..(next[p] - 1)
           /\ schema = SchemaAfter(next[p] - 1)
           /\ Applicable(Migrations[next[p]], schema)
<1>1. next[p] \in 1..Count /\ Count \in Nat
  BY CountIsNat DEF IInv, TypeOK
<1>2. PICK k \in 0..Count : versions = 1..k /\ schema = SchemaAfter(k)
  BY DEF IInv, SchemaMatchesVersions
<1>3. \A n \in 1..Count : n \in versions <=> n \in read[p] \/ n < next[p]
  BY DEF IInv, ReadIsCurrent
<1>4. next[p] \notin versions
  BY <1>1, <1>3
<1>5. k = next[p] - 1
  <2>1. k < next[p]
    BY <1>1, <1>2, <1>4
  <2>2. CASE next[p] = 1
    BY <1>1, <1>2, <2>1, <2>2
  <2>3. CASE next[p] # 1
    <3>1. next[p] - 1 \in 1..Count /\ next[p] - 1 < next[p]
      BY <1>1, <2>3
    <3>2. next[p] - 1 \in versions
      BY <1>3, <3>1
    <3>3. QED BY <1>1, <1>2, <2>1, <3>2
  <2>4. QED BY <2>2, <2>3
<1>6. Applicable(Migrations[next[p]], schema)
  BY <1>1, <1>2, <1>5, MigrationsFollow
<1>7. QED BY <1>1, <1>2, <1>5, <1>6

-----------------------------------------------------------------------------
(* A database of any age, and no process started, satisfy the invariant. *)
LEMMA InitIInv == Init => IInv
<1> SUFFICES ASSUME Init PROVE IInv
  OBVIOUS
<1>1. Count \in Nat
  BY CountIsNat
<1>2. PICK n \in 0..Count : /\ versions = 1..n
                            /\ schema = SchemaAfter(n)
                            /\ admin \in IF n = 0 THEN {"none"}
                                        ELSE {"none", "admin", "granted"}
  BY DEF Init
<1>3. \A p \in Processes : pc[p] = "down" /\ read[p] = {} /\ next[p] = 1
  BY DEF Init
<1>4. TypeOK
  <2>1. schema \subseteq Objects /\ versions \subseteq 1..Count
    BY <1>1, <1>2, SchemaIsObjects
  <2>2. admin \in {"none", "user", "admin", "granted"}
    BY <1>2
  <2>3. /\ pc \in [Processes -> Steps] /\ read \in [Processes -> SUBSET (1..Count)]
        /\ next \in [Processes -> 1..Count+1]
    BY <1>1 DEF Init, Steps
  <2>4. QED BY <2>1, <2>2, <2>3 DEF Init, TypeOK
<1>5. HeldWhileNeeded /\ NotBegun /\ ReadIsCurrent /\ MigratedWholly
  BY <1>3, NoProcessAssumption
     DEF Init, HeldWhileNeeded, NotBegun, ReadIsCurrent, MigratedWholly, Locked, Migrated
<1>6. SchemaMatchesVersions
  BY <1>2 DEF SchemaMatchesVersions
<1>7. Seeded /\ StartsNeverConflict
  BY <1>2, <1>3 DEF Seeded, StartsNeverConflict, Init
<1>8. QED BY <1>4, <1>5, <1>6, <1>7 DEF IInv

(* A step that moves one process along and leaves the database alone keeps  *)
(* the invariant if that process keeps its own parts of it.                 *)
LEMMA OneProcessMoves ==
    ASSUME IInv, NEW p \in Processes, NEW step \in Steps, Goto(p, step),
           UNCHANGED <<schema, versions, admin, refused>>,
           holder' \in Processes \cup {NoProcess},
           \A q \in Processes \ {p} : holder = q <=> holder' = q,
           step \in Locked <=> holder' = p,
           read' \in [Processes -> SUBSET (1..Count)],
           next' \in [Processes -> 1..Count+1],
           \A q \in Processes \ {p} : read'[q] = read[q] /\ next'[q] = next[q],
           step \in {"down", "lock", "read"} => next'[p] = 1,
           step \in {"loop", "record", "commit"} =>
              /\ \A n \in 1..Count : n \in versions <=> n \in read'[p] \/ n < next'[p]
              /\ step # "loop" => next'[p] <= Count /\ next'[p] \notin read'[p],
           step \in Migrated => versions = 1..Count,
           step \in {"check", "grant"} => admin # "none",
           step \in {"unlock", "starting", "serving"} => admin = "granted"
    PROVE  IInv'
<1>1. /\ pc' \in [Processes -> Steps] /\ pc'[p] = step
      /\ \A q \in Processes \ {p} : pc'[q] = pc[q]
  BY DEF Goto, IInv, TypeOK
<1>2. TypeOK'
  BY <1>1 DEF IInv, TypeOK
<1>3. HeldWhileNeeded'
  BY <1>1 DEF IInv, HeldWhileNeeded
<1>9. NotBegun'
  BY <1>1 DEF IInv, NotBegun
<1>4. ReadIsCurrent'
  <2> SUFFICES ASSUME NEW q \in Processes, pc'[q] \in {"loop", "record", "commit"}
               PROVE  /\ \A n \in 1..Count : n \in versions' <=> n \in read'[q] \/ n < next'[q]
                      /\ pc'[q] # "loop" => next'[q] <= Count /\ next'[q] \notin read'[q]
    BY DEF ReadIsCurrent
  <2>1. CASE q = p
    BY <1>1, <2>1
  <2>2. CASE q # p
    <3>1. pc'[q] = pc[q] /\ read'[q] = read[q] /\ next'[q] = next[q]
      BY <1>1, <2>2
    <3>2. QED BY <3>1 DEF IInv, ReadIsCurrent
  <2>3. QED BY <2>1, <2>2
<1>5. MigratedWholly'
  BY <1>1 DEF IInv, MigratedWholly
<1>6. Seeded'
  BY <1>1 DEF IInv, Seeded
<1>7. SchemaMatchesVersions' /\ StartsNeverConflict'
  BY DEF IInv, SchemaMatchesVersions, StartsNeverConflict
<1>8. QED BY <1>2, <1>3, <1>4, <1>5, <1>6, <1>7, <1>9 DEF IInv

(* The same, for a step within initializeDatabase() that leaves the lock    *)
(* and the loop's variables as they are.                                    *)
LEMMA LockedProcessMoves ==
    ASSUME IInv, NEW p \in Processes, NEW step \in Steps, Goto(p, step),
           pc[p] \in Locked, step \in Locked,
           UNCHANGED <<schema, versions, admin, holder, read, next, refused>>,
           step \in {"loop", "record", "commit"} =>
              /\ \A n \in 1..Count : n \in versions <=> n \in read[p] \/ n < next[p]
              /\ step # "loop" => next[p] <= Count /\ next[p] \notin read[p],
           step # "read",
           step \in Migrated => versions = 1..Count,
           step \in {"check", "grant"} => admin # "none",
           step = "unlock" => admin = "granted"
    PROVE  IInv'
<1>1. holder = p
  BY DEF IInv, HeldWhileNeeded
<1>2. /\ holder \in Processes \cup {NoProcess}
      /\ read \in [Processes -> SUBSET (1..Count)] /\ next \in [Processes -> 1..Count+1]
  BY DEF IInv, TypeOK
<1>3. step \notin {"starting", "serving", "down", "lock", "read"}
  BY DEF Locked
<1>4. QED BY <1>1, <1>2, <1>3, OneProcessMoves

(* A process that leaves initializeDatabase() or dies takes nothing of the  *)
(* others with it.                                                          *)
LEMMA LeaveIInv ==
    ASSUME IInv, NEW p \in Processes, NEW step \in {"starting", "stopped"}, Leave(p, step),
           step = "starting" => pc[p] = "unlock"
    PROVE  IInv'
<1>1. /\ Goto(p, step) /\ holder' = IF holder = p THEN NoProcess ELSE holder
      /\ UNCHANGED <<schema, versions, admin, refused>>
      /\ step \in Steps /\ step \notin Locked
      /\ step \notin {"loop", "record", "commit"} /\ step \notin {"check", "grant"}
      /\ step \notin {"down", "lock", "read"}
      /\ step \in Migrated => step = "starting"
      /\ step \in {"unlock", "starting", "serving"} => step = "starting"
  BY DEF Leave, database, Steps, Locked, Migrated
<1>2. holder' \in Processes \cup {NoProcess}
  BY <1>1 DEF IInv, TypeOK
<1>3. holder' # p /\ \A q \in Processes \ {p} : holder = q <=> holder' = q
  BY <1>1, NoProcessAssumption
<1>4. /\ read' \in [Processes -> SUBSET (1..Count)] /\ next' \in [Processes -> 1..Count+1]
      /\ \A q \in Processes \ {p} : read'[q] = read[q] /\ next'[q] = next[q]
  <2>1. 1 \in 1..Count+1
    BY CountIsNat
  <2>2. QED BY <2>1 DEF Leave, IInv, TypeOK
<1>5. step = "starting" => versions = 1..Count /\ admin = "granted"
  BY DEF IInv, MigratedWholly, Seeded, Migrated
<1>6. QED BY <1>1, <1>2, <1>3, <1>4, <1>5, OneProcessMoves

-----------------------------------------------------------------------------
(* The steps of the loop *)

(* Under the lock the versions read are those recorded. *)
LEMMA ReadVersionsIInv ==
    ASSUME IInv, NEW p \in Processes, ReadVersions(p)
    PROVE  IInv'
<1>1. /\ pc[p] = "read" /\ Goto(p, "loop") /\ "loop" \in Steps /\ "loop" \in Locked
      /\ "loop" \notin Migrated
      /\ UNCHANGED <<schema, versions, admin, refused, holder, next>>
      /\ read' = [read EXCEPT ![p] = versions]
  BY DEF ReadVersions, database, Steps, Locked, Migrated
<1>2. holder = p /\ holder \in Processes \cup {NoProcess}
  BY <1>1 DEF IInv, HeldWhileNeeded, TypeOK, Locked
<1>3. /\ read' \in [Processes -> SUBSET (1..Count)] /\ read'[p] = versions
      /\ \A q \in Processes \ {p} : read'[q] = read[q]
      /\ next \in [Processes -> 1..Count+1]
  BY <1>1 DEF IInv, TypeOK
<1>4. \A n \in 1..Count : n \in versions <=> n \in read'[p] \/ n < next'[p]
  BY <1>1, <1>3 DEF IInv, NotBegun
<1>5. QED BY <1>1, <1>2, <1>3, <1>4, OneProcessMoves

(* A migration found recorded is passed over. *)
LEMMA SkipIInv ==
    ASSUME IInv, NEW p \in Processes, Skip(p)
    PROVE  IInv'
<1>1. /\ pc[p] = "loop" /\ pc' = pc /\ next[p] \in read[p]
      /\ UNCHANGED <<schema, versions, admin, refused, holder, read>>
      /\ next' = [next EXCEPT ![p] = @ + 1]
  BY DEF Skip, database
<1>2. Goto(p, "loop") /\ "loop" \in Steps /\ "loop" \in Locked /\ "loop" \notin Migrated
  BY <1>1 DEF Goto, Steps, Locked, Migrated, IInv, TypeOK
<1>3. holder = p /\ holder \in Processes \cup {NoProcess}
  BY <1>1 DEF IInv, HeldWhileNeeded, TypeOK, Locked
<1>4. next[p] \in 1..Count /\ Count \in Nat /\ next[p] \in read[p]
  BY <1>1, CountIsNat DEF IInv, TypeOK
<1>5. /\ next' \in [Processes -> 1..Count+1] /\ next'[p] = next[p] + 1
      /\ \A q \in Processes \ {p} : next'[q] = next[q]
      /\ read \in [Processes -> SUBSET (1..Count)]
  BY <1>1, <1>4 DEF IInv, TypeOK
<1>6. \A n \in 1..Count : n \in versions <=> n \in read'[p] \/ n < next'[p]
  <2>1. \A n \in 1..Count : n \in versions <=> n \in read[p] \/ n < next[p]
    BY <1>1 DEF IInv, ReadIsCurrent
  <2>2. QED BY <1>1, <1>4, <1>5, <2>1
<1>7. QED BY <1>1, <1>2, <1>3, <1>5, <1>6, OneProcessMoves

(* The next migration meets no object of its own and no missing one.        *)
LEMMA RunSqlIInv ==
    ASSUME IInv, NEW p \in Processes, RunSql(p)
    PROVE  IInv'
<1>1. /\ pc[p] = "loop" /\ next[p] <= Count /\ next[p] \notin read[p]
      /\ UNCHANGED <<schema, versions, admin, holder, read, next>>
  BY DEF RunSql, database
<1>2. Applicable(Migrations[next[p]], schema)
  BY <1>1, NextMigrationFits
<1>3. Goto(p, "record") /\ refused' = refused
  BY <1>2 DEF RunSql
<1>4. "record" \in Steps /\ "record" \in Locked /\ "record" \notin Migrated /\ pc[p] \in Locked
  BY <1>1 DEF Steps, Locked, Migrated
<1>5. \A n \in 1..Count : n \in versions <=> n \in read[p] \/ n < next[p]
  BY <1>1 DEF IInv, ReadIsCurrent
<1>6. QED BY <1>1, <1>3, <1>4, <1>5, LockedProcessMoves

(* Its version is not recorded yet. *)
LEMMA RecordIInv ==
    ASSUME IInv, NEW p \in Processes, Record(p)
    PROVE  IInv'
<1>1. /\ pc[p] = "record"
      /\ UNCHANGED <<schema, versions, admin, holder, read, next>>
  BY DEF Record, database
<1>2. /\ next[p] <= Count /\ next[p] \notin read[p]
      /\ \A n \in 1..Count : n \in versions <=> n \in read[p] \/ n < next[p]
  BY <1>1 DEF IInv, ReadIsCurrent
<1>3. next[p] \in 1..Count /\ versions = 1..(next[p] - 1)
  BY <1>1, <1>2, NextMigrationFits
<1>4. next[p] \notin versions
  BY <1>3, CountIsNat
<1>5. Goto(p, "commit") /\ refused' = refused
  BY <1>4 DEF Record
<1>6. "commit" \in Steps /\ "commit" \in Locked /\ "commit" \notin Migrated /\ pc[p] \in Locked
  BY <1>1 DEF Steps, Locked, Migrated
<1>7. QED BY <1>1, <1>2, <1>5, <1>6, LockedProcessMoves

(* Schema and record advance together, and no other process is in the loop. *)
LEMMA CommitIInv ==
    ASSUME IInv, NEW p \in Processes, Commit(p)
    PROVE  IInv'
<1> DEFINE n == next[p]
<1>1. /\ pc[p] = "commit" /\ Goto(p, "loop")
      /\ schema' = (schema \ Migrations[n].drops) \cup Migrations[n].creates
      /\ versions' = versions \cup {n}
      /\ next' = [next EXCEPT ![p] = @ + 1]
      /\ UNCHANGED <<admin, holder, read, refused>>
  BY DEF Commit
<1>2. /\ n <= Count /\ n \notin read[p]
      /\ \A v \in 1..Count : v \in versions <=> v \in read[p] \/ v < n
  BY <1>1 DEF IInv, ReadIsCurrent
<1>3. /\ n \in 1..Count /\ versions = 1..(n - 1) /\ schema = SchemaAfter(n - 1)
      /\ Count \in Nat
  BY <1>1, <1>2, NextMigrationFits, CountIsNat
<1>4. versions' = 1..n /\ schema' = SchemaAfter(n)
  BY <1>1, <1>3, NextStage
<1>5. SchemaMatchesVersions'
  BY <1>3, <1>4 DEF SchemaMatchesVersions
<1>6. /\ next' \in [Processes -> 1..Count+1] /\ next'[p] = n + 1
      /\ \A q \in Processes \ {p} : next'[q] = next[q]
  BY <1>1, <1>3 DEF IInv, TypeOK
<1>7. /\ pc' \in [Processes -> Steps] /\ pc'[p] = "loop"
      /\ \A q \in Processes \ {p} : pc'[q] = pc[q]
  BY <1>1 DEF Goto, IInv, TypeOK, Steps
<1>8. TypeOK'
  BY <1>1, <1>3, <1>4, <1>6, <1>7, SchemaIsObjects DEF IInv, TypeOK
<1>9. holder = p /\ \A q \in Processes \ {p} : pc[q] \notin Locked
  BY <1>1 DEF IInv, HeldWhileNeeded, Locked
<1>10. HeldWhileNeeded'
  BY <1>1, <1>7, <1>9 DEF HeldWhileNeeded, Locked
<1>11. NotBegun'
  BY <1>6, <1>7 DEF IInv, NotBegun
<1>12. ReadIsCurrent'
  <2>1. \A q \in Processes : pc'[q] \in {"loop", "record", "commit"} => q = p
    BY <1>7, <1>9 DEF Locked
  <2>2. \A v \in 1..Count : v \in versions' <=> v \in read'[p] \/ v < next'[p]
    BY <1>1, <1>2, <1>3, <1>6
  <2>3. QED BY <1>7, <2>1, <2>2 DEF ReadIsCurrent
<1>13. MigratedWholly'
  <2>1. \A q \in Processes : pc'[q] \in Migrated => q # p /\ pc[q] \in Migrated
    BY <1>7 DEF Migrated
  <2>2. \A q \in Processes : pc'[q] \in Migrated => versions = 1..Count
    BY <2>1 DEF IInv, MigratedWholly
  <2>3. versions # 1..Count
    BY <1>3
  <2>4. QED BY <2>2, <2>3 DEF MigratedWholly
<1>14. Seeded'
  BY <1>1, <1>7 DEF IInv, Seeded
<1>15. StartsNeverConflict'
  BY <1>1 DEF IInv, StartsNeverConflict
<1>16. QED BY <1>5, <1>8, <1>10, <1>11, <1>12, <1>13, <1>14, <1>15 DEF IInv

(* At the end of the loop everything is recorded. *)
LEMMA EndLoopIInv ==
    ASSUME IInv, NEW p \in Processes, EndLoop(p)
    PROVE  IInv'
<1>1. /\ pc[p] = "loop" /\ next[p] > Count /\ Goto(p, "seed")
      /\ UNCHANGED <<schema, versions, admin, holder, read, next, refused>>
  BY DEF EndLoop, database
<1>2. \A n \in 1..Count : n \in versions <=> n \in read[p] \/ n < next[p]
  BY <1>1 DEF IInv, ReadIsCurrent
<1>3. versions = 1..Count
  <2>1. versions \subseteq 1..Count /\ next[p] \in 1..Count+1 /\ Count \in Nat
    BY CountIsNat DEF IInv, TypeOK
  <2>2. \A n \in 1..Count : n < next[p]
    BY <1>1, <2>1
  <2>3. QED BY <1>2, <2>1, <2>2
<1>4. "seed" \in Steps /\ "seed" \in Locked /\ pc[p] \in Locked
  BY <1>1 DEF Steps, Locked
<1>5. QED BY <1>1, <1>3, <1>4, LockedProcessMoves

-----------------------------------------------------------------------------
(* The administrator *)

(* A statement that only writes the administrator's row, never to make it   *)
(* less than it is                                                          *)
LEMMA AdminMoves ==
    ASSUME IInv, NEW p \in Processes, NEW step \in Steps,
           Goto(p, step) \/ (pc' = pc /\ step = pc[p]),
           UNCHANGED <<schema, versions, holder, read, next, refused>>,
           step \in Locked <=> pc[p] \in Locked,
           step \notin {"down", "lock", "read", "loop", "record", "commit"},
           step \in Migrated => versions = 1..Count,
           admin' \in {"admin", "granted"},
           admin = "granted" => admin' = "granted",
           step \in {"unlock", "starting", "serving"} => admin' = "granted"
    PROVE  IInv'
<1>1. /\ pc' \in [Processes -> Steps] /\ pc'[p] = step
      /\ \A q \in Processes \ {p} : pc'[q] = pc[q]
  BY DEF Goto, IInv, TypeOK
<1>2. TypeOK'
  BY <1>1 DEF IInv, TypeOK
<1>3. HeldWhileNeeded' /\ NotBegun' /\ ReadIsCurrent' /\ MigratedWholly'
  <2>1. HeldWhileNeeded'
    BY <1>1 DEF IInv, HeldWhileNeeded
  <2>2. NotBegun'
    BY <1>1 DEF IInv, NotBegun
  <2>3. ReadIsCurrent'
    BY <1>1 DEF IInv, ReadIsCurrent
  <2>4. MigratedWholly'
    BY <1>1 DEF IInv, MigratedWholly
  <2>5. QED BY <2>1, <2>2, <2>3, <2>4
<1>4. Seeded'
  BY <1>1 DEF IInv, Seeded
<1>5. SchemaMatchesVersions' /\ StartsNeverConflict'
  BY DEF IInv, SchemaMatchesVersions, StartsNeverConflict
<1>6. QED BY <1>2, <1>3, <1>4, <1>5 DEF IInv

(* seedAdministrator() finds no stranger under the administrator's address. *)
LEMMA SeedIInv ==
    ASSUME IInv, NEW p \in Processes, Seed(p) \/ CheckSeed(p) \/ Grant(p)
    PROVE  IInv'
<1>1. pc[p] \in {"seed", "check", "grant"} => versions = 1..Count /\ pc[p] \in Locked
  BY DEF IInv, MigratedWholly, Migrated, Locked
<1>2. admin \in {"none", "admin", "granted"}
  BY DEF IInv, TypeOK, Seeded
<1>3. CASE Seed(p)
  <2>1. /\ pc[p] = "seed" /\ Goto(p, "check")
        /\ admin' = IF admin = "none" THEN "admin" ELSE admin
        /\ UNCHANGED <<schema, versions, holder, read, next, refused>>
        /\ "check" \in Steps /\ "check" \in Locked
    BY <1>3 DEF Seed, Steps, Locked
  <2>2. QED BY <1>1, <1>2, <2>1, AdminMoves
<1>4. CASE CheckSeed(p)
  <2>1. pc[p] = "check" /\ admin # "user" /\ admin # "none"
    BY <1>4 DEF CheckSeed, IInv, Seeded
  <2>2. /\ Goto(p, "grant") /\ "grant" \in Steps /\ "grant" \in Locked
        /\ UNCHANGED <<schema, versions, admin, holder, read, next, refused>>
    BY <1>4, <2>1 DEF CheckSeed, database, Steps, Locked
  <2>3. QED BY <1>1, <2>1, <2>2, LockedProcessMoves
<1>5. CASE Grant(p)
  <2>1. /\ pc[p] = "grant" /\ Goto(p, "unlock") /\ admin' = "granted"
        /\ UNCHANGED <<schema, versions, holder, read, next, refused>>
        /\ "unlock" \in Steps /\ "unlock" \in Locked
    BY <1>5 DEF Grant, Steps, Locked
  <2>2. QED BY <1>1, <2>1, AdminMoves
<1>6. QED BY <1>3, <1>4, <1>5

(* A serving gateway meets the administrator under that address. *)
LEMMA ProvisionIInv ==
    ASSUME IInv, NEW p \in Processes, ProvisionNamesake(p)
    PROVE  IInv'
<1>1. /\ pc[p] = "serving" /\ admin = "granted" /\ versions = 1..Count
      /\ "serving" \in Steps /\ "serving" \notin Locked
  BY DEF ProvisionNamesake, IInv, Seeded, MigratedWholly, Migrated, Steps, Locked
<1>2. /\ admin' = "granted" /\ pc' = pc
      /\ UNCHANGED <<schema, versions, holder, read, next, refused>>
  BY <1>1 DEF ProvisionNamesake
<1>3. QED BY <1>1, <1>2, AdminMoves

-----------------------------------------------------------------------------
(* Every step keeps the invariant. *)
LEMMA NextIInv == IInv /\ [Next]_vars => IInv'
<1> SUFFICES ASSUME IInv, [Next]_vars PROVE IInv'
  OBVIOUS
<1>1. CASE UNCHANGED vars
  BY <1>1 DEF vars, IInv, TypeOK, HeldWhileNeeded, NotBegun, ReadIsCurrent, MigratedWholly,
     Seeded, SchemaMatchesVersions, StartsNeverConflict
<1>2. CASE Next
  <2>1. PICK p \in Processes :
            Connect(p) \/ Advance(p) \/ ProvisionNamesake(p) \/ Fail(p) \/ Crash(p)
    BY <1>2 DEF Next
  <2>2. /\ holder \in Processes \cup {NoProcess}
        /\ read \in [Processes -> SUBSET (1..Count)] /\ next \in [Processes -> 1..Count+1]
    BY DEF IInv, TypeOK
  <2>3. CASE Connect(p)
    <3>1. /\ pc[p] = "down" /\ Goto(p, "lock") /\ "lock" \in Steps
          /\ "lock" \notin Locked /\ "lock" \notin Migrated
          /\ UNCHANGED <<schema, versions, admin, holder, read, next, refused>>
      BY <2>3 DEF Connect, database, Steps, Locked, Migrated
    <3>2. next[p] = 1 /\ holder # p
      BY <3>1 DEF IInv, NotBegun, HeldWhileNeeded, Locked
    <3>3. QED BY <2>2, <3>1, <3>2, OneProcessMoves
  <2>4. CASE Lock(p)
    <3>1. /\ pc[p] = "lock" /\ Goto(p, "read") /\ "read" \in Steps
          /\ "read" \in Locked /\ "read" \notin Migrated
          /\ holder = NoProcess /\ holder' = p
          /\ UNCHANGED <<schema, versions, admin, read, next, refused>>
      BY <2>4 DEF Lock, database, Steps, Locked, Migrated
    <3>2. next[p] = 1
      BY <3>1 DEF IInv, NotBegun
    <3>3. \A q \in Processes \ {p} : holder # q
      BY <3>1, NoProcessAssumption
    <3>4. QED BY <2>2, <3>1, <3>2, <3>3, OneProcessMoves
  <2>5. CASE ReadVersions(p) \/ Skip(p) \/ RunSql(p) \/ Record(p) \/ Commit(p) \/ EndLoop(p)
    BY <2>5, ReadVersionsIInv, SkipIInv, RunSqlIInv, RecordIInv, CommitIInv, EndLoopIInv
  <2>6. CASE Seed(p) \/ CheckSeed(p) \/ Grant(p)
    BY <2>6, SeedIInv
  <2>7. CASE Unlock(p) \/ UnlockAndExit(p) \/ Crash(p)
    BY <2>7, LeaveIInv DEF Unlock, UnlockAndExit, Crash
  <2>8. CASE Listen(p)
    <3>1. /\ pc[p] = "starting" /\ Goto(p, "serving") /\ "serving" \in Steps
          /\ "serving" \notin Locked
          /\ UNCHANGED <<schema, versions, admin, holder, read, next, refused>>
      BY <2>8 DEF Listen, database, Steps, Locked
    <3>2. versions = 1..Count /\ admin = "granted" /\ holder # p
      BY <3>1 DEF IInv, MigratedWholly, Seeded, HeldWhileNeeded, Migrated, Locked
    <3>3. QED BY <2>2, <3>1, <3>2, OneProcessMoves
  <2>9. CASE ProvisionNamesake(p)
    BY <2>9, ProvisionIInv
  <2>10. CASE Fail(p)
    <3>1. /\ pc[p] \in Locked /\ Goto(p, "unwind") /\ "unwind" \in Steps
          /\ "unwind" \in Locked /\ "unwind" \notin Migrated
          /\ UNCHANGED <<schema, versions, admin, holder, read, next, refused>>
      BY <2>10 DEF Fail, database, Steps, Locked, Migrated
    <3>2. QED BY <3>1, LockedProcessMoves
  <2>11. QED
    BY <2>1, <2>3, <2>4, <2>5, <2>6, <2>7, <2>8, <2>9, <2>10 DEF Advance
<1>3. QED BY <1>1, <1>2

(* The inductive invariant holds of every execution. *)
THEOREM Invariant == Spec => []IInv
BY InitIInv, NextIInv, PTL DEF Spec

(* The variables keep their types. *)
THEOREM Types == Spec => []TypeOK
<1>1. IInv => TypeOK
  BY DEF IInv
<1>2. QED BY <1>1, Invariant, PTL

(* Whatever dies when, the database is at one of the list's stages and its  *)
(* record says at which.                                                    *)
THEOREM RecordIsTrue == Spec => []SchemaMatchesVersions
<1>1. IInv => SchemaMatchesVersions
  BY DEF IInv
<1>2. QED BY <1>1, Invariant, PTL

(* The lock is never left behind: whoever waits for it, waits for a process *)
(* that is still at its statements.                                         *)
THEOREM LockIsNotOrphaned == Spec => []HeldWhileNeeded
<1>1. IInv => HeldWhileNeeded
  BY DEF IInv
<1>2. QED BY <1>1, Invariant, PTL

(* No start is ever refused for what another one did. *)
THEOREM NoConflict == Spec => []StartsNeverConflict
<1>1. IInv => StartsNeverConflict
  BY DEF IInv
<1>2. QED BY <1>1, Invariant, PTL

(* A gateway serves on the whole schema, with its administrator. *)
THEOREM ServesOnWholeSchema == Spec => []ServingFindsItsSchema
<1>1. IInv => ServingFindsItsSchema
  <2> SUFFICES ASSUME IInv, NEW p \in Processes, pc[p] = "serving"
               PROVE  Used \subseteq schema /\ admin = "granted"
    BY DEF ServingFindsItsSchema
  <2>1. versions = 1..Count /\ admin = "granted"
    BY DEF IInv, MigratedWholly, Seeded, Migrated
  <2>2. PICK n \in 0..Count : versions = 1..n /\ schema = SchemaAfter(n)
    BY DEF IInv, SchemaMatchesVersions
  <2>3. n = Count
    BY <2>1, <2>2, CountIsNat
  <2>4. QED BY <2>1, <2>2, <2>3, UsedAssumption
<1>2. QED BY <1>1, Invariant, PTL

-----------------------------------------------------------------------------
(* A start has an end: without fairness nothing need happen, but what does  *)
(* happen to a process happens a bounded number of times.                   *)

(* A bound on the steps a process has still before it: three for each       *)
(* migration that its loop has not passed, and the statements around it.    *)
StepsLeft(p) ==
    LET inLoop == 3 * (Count + 1 - next[p]) IN
    CASE pc[p] = "down"     -> 3 * Count + 13
      [] pc[p] = "lock"     -> 3 * Count + 12
      [] pc[p] = "read"     -> 3 * Count + 11
      [] pc[p] = "loop"     -> inLoop + 10
      [] pc[p] = "record"   -> inLoop + 9
      [] pc[p] = "commit"   -> inLoop + 8
      [] pc[p] = "seed"     -> 7
      [] pc[p] = "check"    -> 6
      [] pc[p] = "grant"    -> 5
      [] pc[p] = "unlock"   -> 4
      [] pc[p] = "unwind"   -> 3
      [] pc[p] = "starting" -> 2
      [] pc[p] = "serving"  -> 1
      [] pc[p] = "stopped"  -> 0

(* Every step of a process uses one of them up, and no process adds to      *)
(* another's.                                                               *)
StartsAreFinite ==
    [][\A p \in Processes : /\ StepsLeft(p) \in 0..3 * Count + 13
                            /\ pc'[p] # pc[p] \/ next'[p] # next[p] =>
                                   StepsLeft(p)' < StepsLeft(p)]_vars

LEMMA StepsAreCounted ==
    ASSUME IInv, NEW p \in Processes
    PROVE  StepsLeft(p) \in 0..3 * Count + 13
<1>1. next[p] \in 1..Count+1 /\ Count \in Nat /\ pc[p] \in Steps
  BY CountIsNat DEF IInv, TypeOK
<1>2. 3 * (Count + 1 - next[p]) \in 0..3 * Count
  BY <1>1
<1>3. CASE pc[p] \in {"loop", "record", "commit"}
  <2>1. StepsLeft(p) \in {3 * (Count + 1 - next[p]) + i : i \in {8, 9, 10}}
    BY <1>3 DEF StepsLeft
  <2>2. QED BY <1>1, <1>2, <2>1
<1>4. CASE pc[p] \in {"down", "lock", "read"}
  <2>1. StepsLeft(p) \in {3 * Count + 13, 3 * Count + 12, 3 * Count + 11}
    BY <1>4 DEF StepsLeft
  <2>2. QED BY <1>1, <2>1
<1>5. CASE pc[p] \in Steps \ {"down", "lock", "read", "loop", "record", "commit"}
  <2>1. StepsLeft(p) \in 0..7
    BY <1>5 DEF StepsLeft, Steps
  <2>2. QED BY <1>1, <2>1
<1>6. QED BY <1>1, <1>3, <1>4, <1>5

(* A step of p moves p only, and forward. *)
LEMMA StepsForward ==
    ASSUME IInv, NEW p \in Processes,
           Connect(p) \/ Advance(p) \/ ProvisionNamesake(p) \/ Fail(p) \/ Crash(p),
           NEW q \in Processes, pc'[q] # pc[q] \/ next'[q] # next[q]
    PROVE  StepsLeft(q)' < StepsLeft(q)
<1>1. /\ next[p] \in 1..Count+1 /\ Count \in Nat /\ pc[p] \in Steps
      /\ pc \in [Processes -> Steps] /\ next \in [Processes -> 1..Count+1]
  BY CountIsNat DEF IInv, TypeOK
<1>2. pc[p] \in {"down", "lock", "read"} => next[p] = 1
  BY DEF IInv, NotBegun
<1>3. pc[p] \in {"loop", "record", "commit"} => next[p] <= Count \/ pc[p] = "loop"
  BY DEF IInv, ReadIsCurrent
<1> USE DEF Goto
<1>4. CASE Connect(p) \/ Lock(p)
  BY <1>1, <1>2, <1>4 DEF Connect, Lock, StepsLeft
<1>5. CASE ReadVersions(p)
  BY <1>1, <1>2, <1>5 DEF ReadVersions, StepsLeft
<1>6. CASE Skip(p)
  BY <1>1, <1>6 DEF Skip, StepsLeft
<1>7. CASE RunSql(p) \/ Record(p)
  BY <1>1, <1>7 DEF RunSql, Record, Refuse, StepsLeft
<1>8. CASE Commit(p)
  BY <1>1, <1>8 DEF Commit, StepsLeft
<1>9. CASE EndLoop(p) \/ Seed(p) \/ CheckSeed(p) \/ Grant(p)
  BY <1>1, <1>9 DEF EndLoop, Seed, CheckSeed, Grant, Refuse, StepsLeft
<1>10. CASE Unlock(p) \/ UnlockAndExit(p) \/ Listen(p)
  BY <1>1, <1>10 DEF Unlock, UnlockAndExit, Listen, Leave, StepsLeft
<1>11. CASE ProvisionNamesake(p)
  BY <1>11 DEF ProvisionNamesake
<1>12. CASE Fail(p)
  BY <1>1, <1>12 DEF Fail, StepsLeft
<1>13. CASE Crash(p)
  BY <1>1, <1>13 DEF Crash, Leave, StepsLeft, Steps
<1>14. QED
  BY <1>4, <1>5, <1>6, <1>7, <1>8, <1>9, <1>10, <1>11, <1>12, <1>13 DEF Advance

(* No start retries or loops: a process ends up serving, stopped or waiting *)
(* after so many steps, whatever it meets.                                  *)
THEOREM BoundedStarts == Spec => StartsAreFinite
<1>1. ASSUME IInv, [Next]_vars
      PROVE  [\A p \in Processes : /\ StepsLeft(p) \in 0..3 * Count + 13
                                   /\ pc'[p] # pc[p] \/ next'[p] # next[p] =>
                                          StepsLeft(p)' < StepsLeft(p)]_vars
  BY <1>1, StepsAreCounted, StepsForward DEF Next
<1>2. QED BY <1>1, Invariant, PTL DEF Spec, StartsAreFinite

-----------------------------------------------------------------------------
(* SchemaMigrations implements MigrationLog                                 *)

(* A step of a process that neither begins nor ends to serve *)
LEMMA NobodyServes ==
    ASSUME IInv, NEW p \in Processes, NEW step, Goto(p, step),
           pc[p] # "serving", step # "serving"
    PROVE  Serving' = Serving
<1>1. \A q \in Processes : pc'[q] = "serving" <=> pc[q] = "serving"
  BY DEF Goto, IInv, TypeOK
<1>2. QED BY <1>1 DEF Serving

LEMMA CommitMigrates ==
    ASSUME IInv, NEW p \in Processes, Commit(p)
    PROVE  Log!Next
<1> DEFINE n == next[p]
<1>1. /\ pc[p] = "commit" /\ Goto(p, "loop") /\ UNCHANGED admin
      /\ schema' = (schema \ Migrations[n].drops) \cup Migrations[n].creates
      /\ versions' = versions \cup {n}
  BY DEF Commit
<1>2. n <= Count /\ n \notin read[p]
  BY <1>1 DEF IInv, ReadIsCurrent
<1>3. n \in 1..Count /\ versions = 1..(n - 1) /\ schema = SchemaAfter(n - 1)
  BY <1>1, <1>2, NextMigrationFits
<1>4. versions' = 1..n /\ schema' = SchemaAfter(n) /\ n \in 0..Count
  BY <1>1, <1>3, NextStage, CountIsNat
<1>5. Serving' = Serving
  BY <1>1, NobodyServes
<1> HIDE DEF n
<1>6. Log!Migrate(n)
  BY <1>1, <1>3, <1>4, <1>5 DEF Log!Migrate
<1>7. QED BY <1>3, <1>6 DEF Log!Next

(* INSERT and grant, or nothing when a predecessor has done it *)
LEMMA SeedSeeds ==
    ASSUME IInv, NEW p \in Processes, Seed(p) \/ Grant(p)
    PROVE  [Log!Next]_<<schema, versions, admin, Serving>>
<1>1. /\ pc[p] \in Migrated /\ pc[p] # "serving" /\ UNCHANGED <<schema, versions>>
      /\ Goto(p, "check") \/ Goto(p, "unlock")
  BY DEF Seed, Grant, Migrated
<1>2. versions = 1..Count /\ Serving' = Serving
  BY <1>1, NobodyServes DEF IInv, MigratedWholly
<1>3. \/ admin' = admin
      \/ admin = "none" /\ admin' = "admin"
      \/ admin = "admin" /\ admin' = "granted"
  BY DEF Seed, Grant, IInv, TypeOK, Seeded
<1>4. CASE admin' = admin
  BY <1>1, <1>2, <1>4
<1>5. CASE admin' # admin
  <2>1. Log!Seed
    BY <1>1, <1>2, <1>3, <1>5 DEF Log!Seed
  <2>2. QED BY <2>1 DEF Log!Next
<1>6. QED BY <1>4, <1>5

LEMMA ListenServes ==
    ASSUME IInv, NEW p \in Processes, Listen(p)
    PROVE  Log!Next
<1>1. pc[p] = "starting" /\ pc' = [pc EXCEPT ![p] = "serving"]
      /\ UNCHANGED <<schema, versions, admin>>
  BY DEF Listen, Goto, database
<1>2. versions = 1..Count /\ admin = "granted"
  BY <1>1 DEF IInv, MigratedWholly, Seeded, Migrated
<1>3. Serving' = Serving \cup {p}
  BY <1>1 DEF Serving, IInv, TypeOK
<1>4. Log!Serve(p)
  BY <1>1, <1>2, <1>3 DEF Log!Serve
<1>5. QED BY <1>4 DEF Log!Next

LEMMA CrashStops ==
    ASSUME IInv, NEW p \in Processes, Crash(p)
    PROVE  Log!Next
<1>1. pc' = [pc EXCEPT ![p] = "stopped"] /\ UNCHANGED <<schema, versions, admin>>
  BY DEF Crash, Leave, Goto, database
<1>2. Serving' = Serving \ {p}
  BY <1>1 DEF Serving, IInv, TypeOK
<1>3. Log!Stop(p)
  BY <1>1, <1>2 DEF Log!Stop
<1>4. QED BY <1>3 DEF Log!Next

LEMMA StepRefines ==
    ASSUME IInv, [Next]_vars
    PROVE  [Log!Next]_<<schema, versions, admin, Serving>>
<1>1. ASSUME NEW p \in Processes, NEW step, Goto(p, step),
             pc[p] # "serving", step # "serving", UNCHANGED <<schema, versions, admin>>
      PROVE  [Log!Next]_<<schema, versions, admin, Serving>>
  BY <1>1, NobodyServes
<1>2. ASSUME NEW p \in Processes,
             \/ Connect(p) \/ Lock(p) \/ ReadVersions(p) \/ RunSql(p) \/ Record(p)
             \/ EndLoop(p) \/ CheckSeed(p) \/ Unlock(p) \/ UnlockAndExit(p) \/ Fail(p)
      PROVE  [Log!Next]_<<schema, versions, admin, Serving>>
  <2>1. PICK step \in Steps : /\ Goto(p, step) /\ pc[p] # "serving" /\ step # "serving"
                              /\ UNCHANGED <<schema, versions, admin>>
    BY <1>2 DEF Connect, Lock, ReadVersions, RunSql, Record, EndLoop, CheckSeed, Unlock,
                UnlockAndExit, Fail, Leave, Refuse, database, Steps
  <2>2. QED BY <1>1, <2>1
<1>3. ASSUME NEW p \in Processes, Skip(p)
      PROVE  UNCHANGED <<schema, versions, admin, Serving>>
  BY <1>3 DEF Skip, database, Serving
<1>4. ASSUME NEW p \in Processes, ProvisionNamesake(p)
      PROVE  UNCHANGED <<schema, versions, admin, Serving>>
  BY <1>4 DEF ProvisionNamesake, Serving, IInv, Seeded
<1>5. CASE UNCHANGED vars
  BY <1>5 DEF vars, Serving
<1>6. QED
  BY <1>2, <1>3, <1>4, <1>5, CommitMigrates, SeedSeeds, ListenServes, CrashStops
     DEF Next, Advance

(* ImplementsMigrationLog: the starts of any number of replicas, with their *)
(* waits, failures and deaths, are together no more than the log.           *)
THEOREM Refinement == Spec => ImplementsMigrationLog
<1>1. ASSUME Init PROVE Log!Init
  <2>1. PICK n \in 0..Count : /\ versions = 1..n /\ schema = SchemaAfter(n)
                              /\ admin \in IF n = 0 THEN {"none"}
                                        ELSE {"none", "admin", "granted"}
    BY <1>1 DEF Init
  <2>2. Serving = {}
    BY <1>1 DEF Init, Serving
  <2>3. QED BY <2>1, <2>2 DEF Log!Init
<1>2. QED
  BY Invariant, StepRefines, <1>1, PTL DEF Spec, ImplementsMigrationLog, Log!Spec
=============================================================================
