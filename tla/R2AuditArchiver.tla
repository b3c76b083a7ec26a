--------------------------- MODULE R2AuditArchiver ---------------------------
(***************************************************************************)
(* The background archiver of src/audit/r2AuditArchiver.ts: a cycle selects *)
(* the oldest rows of tool_usage_logs not archived yet, uploads them as one *)
(* object named after the current millisecond, then marks them archived.   *)
(*                                                                         *)
(* Between the three steps a cycle awaits the database and R2.  Nothing    *)
(* keeps two cycles apart: the interval timer starts one while the previous *)
(* one still uploads, shutdown() in main.ts runs one of its own, and every *)
(* gateway replica has its timer.  A cycle may die at any await, by an     *)
(* error or with its process.                                              *)
(***************************************************************************)
EXTENDS Naturals, Sequences, FiniteSets

CONSTANTS
    Cycles,            \* archivePendingLogs() calls that may overlap
    BatchSize,         \* this.config.batchSize
    MaxRows,           \* bound: rows ever inserted
    MaxTime            \* bound: the last millisecond of a behaviour

VARIABLES
    createdAt,   \* created_at of the rows of tool_usage_logs, by their id
    archiveKey,  \* r2_archive_key of each row; NoKey where r2_archived_at IS NULL
    objects,     \* rows in the object of each key; {} where there is none
    now,         \* Date.getTime()
    step,        \* where each cycle is
    batch,       \* rows of each running cycle
    key,         \* key of each running cycle
    uploaded,    \* history: rows some upload contained
    disturbed,   \* history: a cycle died, or started while another one was running
    shared       \* history: two cycles read the same Date.getTime()

vars == <<createdAt, archiveKey, objects, now, step, batch, key, uploaded, disturbed, shared>>

Rows == 1..MaxRows
Keys == 1..MaxTime
NoKey == 0

TypeOK ==
    /\ createdAt \in Seq(Nat) /\ Len(createdAt) <= MaxRows
    /\ archiveKey \in [Rows -> Keys \cup {NoKey}]
    /\ objects \in [Keys -> SUBSET Rows]
    /\ now \in Keys
    /\ step \in [Cycles -> {"idle", "upload", "mark"}]
    /\ batch \in [Cycles -> SUBSET Rows]
    /\ key \in [Cycles -> Keys \cup {NoKey}]
    /\ uploaded \subseteq Rows
    /\ disturbed \in BOOLEAN
    /\ shared \in BOOLEAN
    /\ \A c \in Cycles : step[c] = "idle" <=> batch[c] = {}

Init ==
    /\ createdAt = <<>>
    /\ archiveKey = [r \in Rows |-> NoKey]
    /\ objects = [k \in Keys |-> {}]
    /\ now = 1
    /\ step = [c \in Cycles |-> "idle"]
    /\ batch = [c \in Cycles |-> {}]
    /\ key = [c \in Cycles |-> NoKey]
    /\ uploaded = {}
    /\ disturbed = FALSE
    /\ shared = FALSE

-----------------------------------------------------------------------------
(* The audit logger's INSERT, and the clock.  The rows of one INSERT have    *)
(* the created_at of its transaction's start, which another replica's INSERT *)
(* may overtake; only the order of these times matters.                     *)

InsertRows ==
    /\ \E n \in 1..MaxRows - Len(createdAt), t \in 1..MaxRows :
          createdAt' = createdAt \o [i \in 1..n |-> t]
    /\ UNCHANGED <<archiveKey, objects, now, step, batch, key, uploaded, disturbed, shared>>

KeyTaken == objects[now] # {} \/ \E c \in Cycles : step[c] # "idle" /\ key[c] = now

(* A millisecond in which no cycle made its key makes no difference. *)
Tick ==
    /\ now < MaxTime
    /\ KeyTaken
    /\ now' = now + 1
    /\ UNCHANGED <<createdAt, archiveKey, objects, step, batch, key, uploaded, disturbed, shared>>

-----------------------------------------------------------------------------
(* archivePendingLogs() *)

UnarchivedOrNot == DOMAIN createdAt

Unarchived == {r \in DOMAIN createdAt : archiveKey[r] = NoKey}

(* ORDER BY created_at ASC LIMIT batchSize: rows created at the same time   *)
(* come in any order.                                                       *)
OldestUnarchived ==
    {S \in SUBSET Unarchived :
        /\ Cardinality(S) <= BatchSize
        /\ S # Unarchived => Cardinality(S) = BatchSize
        /\ \A r \in S, s \in Unarchived \ S : createdAt[r] <= createdAt[s]}

(* The SELECT, and the key made of the time its answer arrives.  An empty  *)
(* answer ends the cycle at once.                                          *)
Select(c) ==
    /\ step[c] = "idle"
    /\ Unarchived # {}
    /\ step' = [step EXCEPT ![c] = "upload"]
    /\ \E S \in OldestUnarchived : batch' = [batch EXCEPT ![c] = S]
    /\ key' = [key EXCEPT ![c] = now]
    /\ disturbed' = (disturbed \/ \E d \in Cycles : step[d] # "idle")
    /\ shared' = (shared \/ KeyTaken)
    /\ UNCHANGED <<createdAt, archiveKey, objects, now, uploaded>>

(* PutObjectCommand: an object of the same key is replaced. *)
Upload(c) ==
    /\ step[c] = "upload"
    /\ objects' = [objects EXCEPT ![key[c]] = batch[c]]
    /\ uploaded' = uploaded \cup batch[c]
    /\ step' = [step EXCEPT ![c] = "mark"]
    /\ UNCHANGED <<createdAt, archiveKey, now, batch, key, disturbed, shared>>

EndCycle(c) ==
    /\ step' = [step EXCEPT ![c] = "idle"]
    /\ batch' = [batch EXCEPT ![c] = {}]
    /\ key' = [key EXCEPT ![c] = NoKey]

MarkAllUnarchived(c) ==
    /\ step[c] = "mark"
    /\ archiveKey' = [r \in Rows |-> IF r \in Unarchived THEN key[c] ELSE archiveKey[r]]
    /\ EndCycle(c)
    /\ UNCHANGED <<createdAt, objects, now, uploaded, disturbed, shared>>

(* UPDATE ... SET r2_archived_at, r2_archive_key WHERE id = ANY(ids) *)
Mark(c) ==
    /\ step[c] = "mark"
    /\ archiveKey' = [r \in Rows |-> IF r \in batch[c] THEN key[c] ELSE archiveKey[r]]
    /\ EndCycle(c)
    /\ UNCHANGED <<createdAt, objects, now, uploaded, disturbed, shared>>

(* The upload or the UPDATE rejects, or the process dies. *)
Die(c) ==
    /\ step[c] # "idle"
    /\ EndCycle(c)
    /\ disturbed' = TRUE
    /\ UNCHANGED <<createdAt, archiveKey, objects, now, uploaded, shared>>

-----------------------------------------------------------------------------
Next ==
    \/ InsertRows
    \/ Tick
    \/ \E c \in Cycles : Select(c) \/ Upload(c) \/ Mark(c) \/ Die(c)

Spec == Init /\ [][Next]_vars

-----------------------------------------------------------------------------
(* A row leaves the pending set only once an upload has contained it: rows *)
(* that arrive while a cycle runs, cycles that overlap and cycles that die *)
(* never mark a row nobody uploaded.                                       *)
ArchivedRowsWereUploaded ==
    \A r \in Rows : archiveKey[r] # NoKey => r \in uploaded

(* The key stored with an archived row names an object that holds it, as   *)
(* long as no two cycles share a millisecond and so an object.             *)
ArchivedRowIsInItsObject ==
    ~shared => \A r \in Rows : archiveKey[r] # NoKey => r \in objects[archiveKey[r]]

(* What the archive promises about a row that is marked.                   *)
MarkedRowsAreArchived == ArchivedRowsWereUploaded /\ ArchivedRowIsInItsObject

=============================================================================
