------------------------------ MODULE AuditTrail ------------------------------
(***************************************************************************)
(* The way of a usage log entry from log() to its object in R2: the logger  *)
(* of AuditLogger writes the rows of tool_usage_logs that the archive       *)
(* cycles of R2AuditArchiver select, and shutdown() of src/main.ts flushes  *)
(* the one and then runs a last cycle of the other.                         *)
(*                                                                         *)
(* An INSERT that was committed and reported as failed is made again: the   *)
(* table then has two rows of one entry, and the archive may have both.     *)
(***************************************************************************)
EXTENDS AuditLogger, FiniteSets

CONSTANTS
    Background,      \* cycles of the interval timers, other replicas' included
    Final,           \* the cycle shutdown() runs
    ArchiveBatch,    \* config.batchSize of the archiver
    MaxRows,         \* bound: rows in the table
    MaxTime          \* bound: the last millisecond of a behaviour

ASSUME ArchiveBatchAssumption == ArchiveBatch \in Nat \ {0}
ASSUME MaxRowsAssumption == MaxRows \in Nat
ASSUME MaxTimeAssumption == MaxTime \in Nat \ {0}
ASSUME FinalAssumption == Final \notin Background

VARIABLES
    table,       \* tool_usage_logs by id: the entry and the number of the INSERT
    archiveKey, objects, now, step, batch, key, uploaded, disturbed,
    shared,      \* see R2AuditArchiver
    lastCycle    \* of shutdown(): whether its archivePendingLogs() is over

Archive == INSTANCE R2AuditArchiver WITH
    Cycles <- Background \cup {Final},
    BatchSize <- ArchiveBatch,
    createdAt <- [r \in DOMAIN table |-> table[r].insert]

archiveVars == <<archiveKey, objects, now, step, batch, key, uploaded,
                 disturbed, shared>>

trailVars == <<vars, table, archiveVars, lastCycle>>

TrailTypeOK ==
    /\ TypeOK
    /\ table \in Seq([entry : Entries, insert : Nat])
    /\ Archive!TypeOK
    /\ lastCycle \in {"none", "running", "over"}

TrailInit ==
    /\ Init
    /\ table = <<>>
    /\ Archive!Init
    /\ lastCycle = "none"

-----------------------------------------------------------------------------
(* The logger's steps; only its INSERT touches the table. *)

Copies(t, e) == Cardinality({r \in DOMAIN t : t[r].entry = e})

RowsOf(t) == [e \in Entries |-> IF Copies(t, e) < 2 THEN Copies(t, e) ELSE 2]

(* The rows of one INSERT share the created_at of its transaction. *)
Inserted(b) ==
    LET n == IF table = <<>> THEN 1 ELSE table[Len(table)].insert + 1
    IN  table \o [i \in DOMAIN b |-> [entry |-> b[i], insert |-> n]]

StoreRows(b) ==
    /\ InsertSucceeds(b)
    /\ table' = Inserted(b)
    /\ Len(table') <= MaxRows
    /\ UNCHANGED <<archiveVars, lastCycle>>

(* Whether the rejected INSERT was committed is seen in the table only. *)
RejectRows(b) ==
    /\ InsertFails(b)
    /\ table' \in {table, Inserted(b)}
    /\ Len(table') <= MaxRows
    /\ rows' = RowsOf(table')
    /\ UNCHANGED <<archiveVars, lastCycle>>

(* So is whether an INSERT in flight when the process dies is committed.   *)
DieWithRows ==
    /\ ProcessDies
    /\ table' \in {table} \cup {Inserted(b) : b \in batches}
    /\ Len(table') <= MaxRows
    /\ rows' = RowsOf(table')
    /\ UNCHANGED <<archiveVars, lastCycle>>

-----------------------------------------------------------------------------
(* The archive cycles *)

Tick == UNCHANGED <<vars, table, lastCycle>> /\ Archive!Tick

(* The last cycle does not outlive its process. *)
ArchiveStep(c) ==
    /\ UNCHANGED <<vars, table>>
    /\ \/ (c = Final => stage # "died") /\ (Archive!Upload(c) \/ Archive!Mark(c))
       \/ Archive!Die(c)
    /\ lastCycle' = IF c = Final /\ step'[c] = "idle" THEN "over" ELSE lastCycle

TimerCycle(c) == UNCHANGED <<vars, table, lastCycle>> /\ Archive!Select(c)

(* await r2AuditArchiver.archivePendingLogs(), after the flush: one cycle,  *)
(* whose errors shutdown() catches, and none where nothing is pending.      *)
LastCycle ==
    /\ stage = "flushed" /\ lastCycle = "none"
    /\ UNCHANGED <<vars, table>>
    /\ IF Archive!Unarchived = {}
       THEN lastCycle' = "over" /\ UNCHANGED archiveVars
       ELSE lastCycle' = "running" /\ Archive!Select(Final)

StopAfterArchive ==
    /\ lastCycle = "over"
    /\ StopTimer
    /\ UNCHANGED <<table, archiveVars, lastCycle>>

-----------------------------------------------------------------------------
LoggerStep == Log \/ TimerFires \/ CloseApp \/ ShutdownFlush \/ ProcessEnds

TrailNext ==
    \/ LoggerStep /\ UNCHANGED <<table, archiveVars, lastCycle>>
    \/ \E b \in batches : StoreRows(b) \/ RejectRows(b)
    \/ DieWithRows
    \/ Tick
    \/ \E c \in Background : TimerCycle(c)
    \/ LastCycle
    \/ \E c \in Background \cup {Final} : ArchiveStep(c)
    \/ StopAfterArchive

TrailSpec == TrailInit /\ [][TrailNext]_trailVars

(* The event loop runs the timer and a query settles; that shutdown() goes  *)
(* on, or that R2 answers, is not needed.                                   *)
TrailFairness ==
    /\ WF_trailVars(TimerFires /\ UNCHANGED <<table, archiveVars, lastCycle>>)
    /\ WF_trailVars(\E b \in batches : StoreRows(b) \/ RejectRows(b))

FairTrailSpec == TrailSpec /\ TrailFairness

-----------------------------------------------------------------------------
(* Safety *)

(* The entries an object holds, and how often *)
CopiesInObjects(e) ==
    Cardinality({x \in (1..MaxTime) \X DOMAIN table :
                    x[2] \in objects[x[1]] /\ table[x[2]].entry = e})

(* A row leaves the pending set only once an upload has contained it, and   *)
(* the key it then carries names an object that holds it, as long as no two *)
(* cycles share a millisecond and so an object: rows that arrive while a    *)
(* cycle runs, cycles that overlap and cycles that die make no difference.  *)
MarkedRowsAreArchived == Archive!MarkedRowsAreArchived

(* The archive holds an entry twice only if an INSERT that committed was    *)
(* reported as failed, a cycle died between its upload and its UPDATE, or   *)
(* two cycles overlapped.                                                   *)
RepeatedOnlyIfInDoubt ==
    \A e \in Entries : CopiesInObjects(e) > 1 => e \in unsure \/ disturbed

=============================================================================
