----------------------------- MODULE AuditLogger -----------------------------
(***************************************************************************)
(* The usage log buffer of src/audit/auditLogger.ts and the part of the    *)
(* shutdown sequence of src/main.ts that empties it, up to the end of the  *)
(* process.                                                                *)
(*                                                                         *)
(* log() never waits: it appends to an in-memory queue and, at batchSize   *)
(* entries or on a timer, flush() swaps the queue for an empty one and     *)
(* awaits one multi-row INSERT.  Log entries, timer ticks and the shutdown *)
(* interleave with that await; a tool call whose client has left goes on,  *)
(* and logs, whatever shutdown() has done in the meantime.                 *)
(*                                                                         *)
(* Entries are numbered in log() order; which of them the table can never  *)
(* take (a NUL in a JSONB argument, an octet above 255 in an INET address) *)
(* is the constant Unstorable: one such row fails the INSERT of its whole  *)
(* batch.                                                                  *)
(***************************************************************************)
EXTENDS Naturals, Sequences, Functions

CONSTANTS
    MaxLogged,      \* bound: how many entries are ever logged
    BatchSize,      \* this.batchSize
    MaxQueueSize,   \* this.maxQueueSize
    Unstorable      \* entries whose row the INSERT always rejects

ASSUME MaxLoggedAssumption == MaxLogged \in Nat
ASSUME BatchSizeAssumption == BatchSize \in Nat
ASSUME MaxQueueSizeAssumption == MaxQueueSize \in Nat
ASSUME UnstorableAssumption == Unstorable \subseteq 1..MaxLogged

VARIABLES
    logged,       \* the number of log() calls so far
    queue,        \* this.queue
    isFlushing,   \* this.isFlushing
    batches,      \* toProcess of every flush() awaiting its INSERT
    rows,         \* rows each entry has in tool_usage_logs; 2 stands for more
    fallback,     \* entries written to the fallback file
    stage,        \* progress of shutdown(), and the end of the process
    seen,         \* history: entries logged when shutdown's flush() looked
    skipped,      \* history: shutdown's flush() returned without flushing
    diskFailed,   \* history: writeFallbackFile() swallowed an error
    unsure        \* history: entries of an INSERT that committed but rejected

vars == <<logged, queue, isFlushing, batches, rows, fallback, stage, seen,
          skipped, diskFailed, unsure>>

Entries == 1..MaxLogged

Over == {"ended", "died"}

Stages == {"serving", "closed", "flushing", "flushed", "stopped"} \cup Over

TypeOK ==
    /\ logged \in 0..MaxLogged
    /\ queue \in Seq(Entries)
    /\ isFlushing \in BOOLEAN
    /\ batches \subseteq Seq(Entries) \ {<<>>}
    /\ rows \in [Entries -> 0..2]
    /\ fallback \subseteq Entries
    /\ stage \in Stages
    /\ seen \in 0..MaxLogged
    /\ skipped \in BOOLEAN
    /\ diskFailed \in BOOLEAN
    /\ unsure \subseteq Entries

Init ==
    /\ logged = 0
    /\ queue = <<>>
    /\ isFlushing = FALSE
    /\ batches = {}
    /\ rows = [e \in Entries |-> 0]
    /\ fallback = {}
    /\ stage = "serving"
    /\ seen = 0
    /\ skipped = FALSE
    /\ diskFailed = FALSE
    /\ unsure = {}

Stored == {e \in Entries : rows[e] > 0}

-----------------------------------------------------------------------------
(* flush() up to the await, on the queue q *)

FlushReturnsAtOnce(q) == q = <<>> \/ isFlushing

StartFlush(q) ==
    /\ isFlushing' = TRUE
    /\ batches' = batches \cup {q}
    /\ queue' = <<>>

(* log(): append, and flush when the batch is full.  The call it is about    *)
(* runs on when its client leaves, so neither app.close(), which waits for   *)
(* open sockets, nor the rest of shutdown() keeps it from logging.           *)
Log ==
    /\ stage \notin Over
    /\ logged < MaxLogged
    /\ logged' = logged + 1
    /\ LET q == Append(queue, logged + 1)
       IN  IF Len(q) >= BatchSize /\ ~FlushReturnsAtOnce(q)
           THEN StartFlush(q)
           ELSE queue' = q /\ UNCHANGED <<isFlushing, batches>>
    /\ UNCHANGED <<rows, fallback, stage, seen, skipped, diskFailed, unsure>>

(* The interval of startTimer(), until stop() clears it *)
TimerFires ==
    /\ stage \notin {"stopped"} \cup Over
    /\ ~FlushReturnsAtOnce(queue)
    /\ StartFlush(queue)
    /\ UNCHANGED <<logged, rows, fallback, stage, seen, skipped, diskFailed,
                   unsure>>

-----------------------------------------------------------------------------
(* flush() after the await *)

OneMoreRow(b) ==
    [e \in Entries |-> IF e \in Range(b) /\ rows[e] < 2 THEN rows[e] + 1
                                                           ELSE rows[e]]

(* The finally block; the shutdown awaiting this flush goes on. *)
FinishFlushStillFlushing(b) ==
    /\ batches' = batches \ {b}
    /\ isFlushing' = isFlushing
    /\ stage' = IF stage = "flushing" THEN "flushed" ELSE stage

FinishFlush(b) ==
    /\ batches' = batches \ {b}
    /\ isFlushing' = FALSE
    /\ stage' = IF stage = "flushing" THEN "flushed" ELSE stage

InsertSucceeds(b) ==
    /\ Range(b) \cap Unstorable = {}
    /\ rows' = OneMoreRow(b)
    /\ FinishFlush(b)
    /\ UNCHANGED <<logged, queue, fallback, seen, skipped, diskFailed, unsure>>

(* pool.query rejects: the INSERT was not made (the pool may have ended), or *)
(* it was committed and the connection broke before the answer.              *)
RejectedInsert(b) ==
    \/ UNCHANGED <<rows, unsure>>
    \/ /\ Range(b) \cap Unstorable = {}
       /\ rows' = OneMoreRow(b)
       /\ unsure' = unsure \cup Range(b)

WriteFallbackFileIfRequeued(b) ==
    IF Len(queue) + Len(b) <= MaxQueueSize
    THEN \/ fallback' = fallback \cup Range(b) /\ UNCHANGED diskFailed
         \/ diskFailed' = TRUE /\ UNCHANGED fallback
    ELSE UNCHANGED <<fallback, diskFailed>>

(* writeFallbackFile() catches its own errors. *)
WriteFallbackFile(b) ==
    \/ fallback' = fallback \cup Range(b) /\ UNCHANGED diskFailed
    \/ diskFailed' = TRUE /\ UNCHANGED fallback

RequeueOrEvictAtTheBack(b) ==
    queue' = IF Len(queue) + Len(b) <= MaxQueueSize THEN queue \o b ELSE queue

RequeueAlways(b) == queue' = b \o queue

RequeueOrEvict(b) ==
    queue' = IF Len(queue) + Len(b) <= MaxQueueSize THEN b \o queue ELSE queue

InsertFails(b) ==
    /\ RejectedInsert(b)
    /\ WriteFallbackFile(b)
    /\ RequeueOrEvict(b)
    /\ FinishFlush(b)
    /\ UNCHANGED <<logged, seen, skipped>>

-----------------------------------------------------------------------------
(* shutdown() in main.ts *)

(* app.close() and registry.close() have resolved.  The former waits for    *)
(* open sockets, not for the calls of clients that left.                    *)
CloseApp ==
    /\ stage = "serving"
    /\ stage' = "closed"
    /\ UNCHANGED <<logged, queue, isFlushing, batches, rows, fallback, seen,
                   skipped, diskFailed, unsure>>

ShutdownWithoutFlush ==
    /\ stage = "closed"
    /\ stage' = "flushed"
    /\ seen' = logged
    /\ UNCHANGED <<logged, queue, isFlushing, batches, rows, fallback, skipped,
                   diskFailed, unsure>>

(* await auditLogger?.flush() *)
ShutdownFlush ==
    /\ stage = "closed"
    /\ seen' = logged
    /\ IF FlushReturnsAtOnce(queue)
       THEN /\ stage' = "flushed"
            /\ skipped' = (queue # <<>>)
            /\ UNCHANGED <<queue, isFlushing, batches>>
       ELSE /\ StartFlush(queue)
            /\ stage' = "flushing"
            /\ UNCHANGED skipped
    /\ UNCHANGED <<logged, rows, fallback, diskFailed, unsure>>

(* auditLogger?.stop(), once the last archive cycle is over; a full batch    *)
(* still starts a flush, whose INSERT the pool takes until it has ended.     *)
StopTimer ==
    /\ stage = "flushed"
    /\ stage' = "stopped"
    /\ UNCHANGED <<logged, queue, isFlushing, batches, rows, fallback, seen,
                   skipped, diskFailed, unsure>>

MemoryIsGone == queue' = <<>> /\ batches' = {} /\ isFlushing' = FALSE

(* shutdown() is over: databasePool.end() waited for the INSERT in flight,  *)
(* and the process ends with whatever is still queued.                      *)
ProcessEnds ==
    /\ stage = "stopped" /\ batches = {}
    /\ stage' = "ended"
    /\ MemoryIsGone
    /\ UNCHANGED <<logged, rows, fallback, seen, skipped, diskFailed, unsure>>

(* The process dies at once: on a signal, or on a rejection nobody handles. *)
(* registry.close() rejecting in shutdown() is one, so that its flush and   *)
(* all that follows never run; the close() of a request's registry, which   *)
(* mcpRoutes.ts does not await, is another.  The database may still commit  *)
(* the INSERT in flight.                                                    *)
ProcessDies ==
    /\ stage \notin Over
    /\ stage' = "died"
    /\ MemoryIsGone
    /\ \/ UNCHANGED rows
       \/ \E b \in batches :
             Range(b) \cap Unstorable = {} /\ rows' = OneMoreRow(b)
    /\ UNCHANGED <<logged, fallback, seen, skipped, diskFailed, unsure>>

-----------------------------------------------------------------------------
Next ==
    \/ Log
    \/ TimerFires
    \/ \E b \in batches : InsertSucceeds(b) \/ InsertFails(b)
    \/ CloseApp
    \/ ShutdownFlush
    \/ StopTimer
    \/ ProcessEnds
    \/ ProcessDies

Spec == Init /\ [][Next]_vars

(* The event loop runs the timer, and a query settles. *)
Fairness ==
    /\ WF_vars(TimerFires)
    /\ WF_vars(\E b \in batches : InsertSucceeds(b) \/ InsertFails(b))

FairSpec == Spec /\ Fairness

-----------------------------------------------------------------------------
(* Safety *)

(* The batch in flight followed by the queue *)
Buffered == IF batches = {} THEN queue ELSE (CHOOSE b \in batches : TRUE) \o queue

Recent(n) == [i \in 1..n |-> logged - n + i]

(* What is still in memory is exactly the most recent entries, each once    *)
(* and in log() order, however often a batch failed and was put back while  *)
(* new entries came in; only the oldest ones ever leave.                    *)
BufferIsRecentEntries == Buffered = Recent(Len(Buffered))

(* No entry vanishes while the process lives: as long as the fallback file  *)
(* could be written, every logged entry is in memory, in the table or in    *)
(* that file, evictions of a full queue included.                           *)
NothingVanishes ==
    stage \notin Over /\ ~diskFailed =>
        1..logged \subseteq Range(Buffered) \cup Stored \cup fallback

(* Only the first maxQueueSize entries in memory are ones that wait for a   *)
(* retry: "Maximum in-memory retry queue size before discarding to prevent  *)
(* memory leak".  The queue itself grows past it while an INSERT is awaited *)
(* (log() never looks at maxQueueSize), by entries not tried yet.           *)
RetryBacklogBounded ==
    \A i \in 1..Len(Buffered) : Buffered[i] \in fallback => i <= MaxQueueSize

(* A usage row is written twice only for an INSERT that committed and was   *)
(* still reported as failed.                                                *)
RepeatedOnlyIfUnsure == \A e \in Entries : rows[e] = 2 => e \in unsure

(* What shutdown's flush() found in memory or under way outlives the process *)
(* if that flush() did not return early: entries logged meanwhile and while  *)
(* its INSERT fails make no difference.  Nothing of the kind holds of the    *)
(* entries logged after it looked.                                           *)
SeenAreRecorded == 1..seen \subseteq Stored \cup fallback

OrderlyShutdownRecordsAll ==
    stage = "ended" /\ ~skipped /\ ~diskFailed => SeenAreRecorded

(* What main.ts says of its shutdown: "Graceful Audit Flush: Flush          *)
(* in-memory queue to PostgreSQL" (or, failing that, to the file).          *)
ShutdownRecordsAll == stage = "ended" /\ ~diskFailed => SeenAreRecorded

-----------------------------------------------------------------------------
(* Liveness *)

(* The shutdown has stopped the timer and its flush does not cover e: it     *)
(* returned early, or e was logged after it.  Or the process died.           *)
Abandoned(e) ==
    \/ stage \in {"stopped", "ended"} /\ (skipped \/ e > seen)
    \/ stage = "died"

(* Every entry is eventually in the table or in the fallback file, unless   *)
(* the disk failed or the end of the process came first.                    *)
EveryEntryRecorded ==
    \A e \in Entries :
        logged >= e ~> e \in Stored \cup fallback \/ diskFailed \/ Abandoned(e)

=============================================================================
