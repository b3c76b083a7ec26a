----------------------------- MODULE MigrationLog -----------------------------
(***************************************************************************)
(* What initializeDatabase() promises, without locks, statements, failures  *)
(* or the variables of a process: the database goes from one stage to the   *)
(* next with its record and never back, the administrator is added to the   *)
(* last stage, and nobody serves on less.                                   *)
(***************************************************************************)
EXTENDS Naturals

CONSTANTS
    Processes,
    Last,           \* the number of migrations
    Stage           \* [0..Last -> the schema after so many of them]

VARIABLES
    schema,
    versions,       \* rows of schema_migrations
    admin,
    serving         \* processes that take requests

Init ==
    /\ \E n \in 0..Last :
          /\ versions = 1..n
          /\ schema = Stage[n]
          /\ admin \in IF n = 0 THEN {"none"} ELSE {"none", "admin", "granted"}
    /\ serving = {}

(* The n-th migration and its row, as one. *)
Migrate(n) ==
    /\ versions = 1..(n - 1)
    /\ versions' = 1..n
    /\ schema' = Stage[n]
    /\ UNCHANGED <<admin, serving>>

Seed ==
    /\ versions = 1..Last
    /\ \/ admin = "none" /\ admin' = "admin"
       \/ admin = "admin" /\ admin' = "granted"
    /\ UNCHANGED <<schema, versions, serving>>

Serve(p) ==
    /\ versions = 1..Last /\ admin = "granted"
    /\ serving' = serving \cup {p}
    /\ UNCHANGED <<schema, versions, admin>>

Stop(p) ==
    /\ serving' = serving \ {p}
    /\ UNCHANGED <<schema, versions, admin>>

Next ==
    \/ \E n \in 1..Last : Migrate(n)
    \/ Seed
    \/ \E p \in Processes : Serve(p) \/ Stop(p)

Spec == Init /\ [][Next]_<<schema, versions, admin, serving>>

=============================================================================
