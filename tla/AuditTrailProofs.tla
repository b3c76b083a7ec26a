--------------------------- MODULE AuditTrailProofs ---------------------------
(***************************************************************************)
(* Proofs about AuditLogger, for every batch size, queue limit, number of   *)
(* entries and set of rows the table rejects; then about AuditTrail, which  *)
(* behaves as that logger does and archives what it inserts.                *)
(***************************************************************************)
EXTENDS AuditTrail, SequenceTheorems, FiniteSetTheorems, TLAPS

(* The entries still in memory *)
Held == Range(queue) \cup UNION {Range(b) : b \in batches}

(* The batch in flight and the queue behind it, entry by entry: consecutive *)
(* numbers that end with the last entry logged.                             *)
Consecutive ==
    /\ \A i \in 1..Len(queue) : queue[i] = logged - Len(queue) + i
    /\ \A b \in batches : \A i \in 1..Len(b) :
          b[i] = logged - Len(queue) - Len(b) + i

NoneMissing ==
    stage \notin Over /\ ~diskFailed =>
        1..logged \subseteq Held \cup Stored \cup fallback

(* An entry that has a row and is to be inserted again is an unsure one. *)
HeldAgainIfUnsure == \A e \in Held : rows[e] > 0 => e \in unsure

OnlyLoggedStored == Stored \subseteq 1..logged

(* While the shutdown awaits its flush, what is queued was logged after it  *)
(* looked; afterwards, what it did look at is queued again only for a retry *)
(* and so recorded.                                                         *)
QueuedSeen == {e \in Range(queue) : e <= seen}

SeenRecordedOnShutdown ==
    /\ seen <= logged
    /\ stage = "flushing" => QueuedSeen = {} /\ batches # {}
    /\ stage \in {"flushed", "stopped"} /\ ~skipped /\ ~diskFailed
          => QueuedSeen \subseteq Stored \cup fallback
    /\ OrderlyShutdownRecordsAll
    /\ stage \in Over => batches = {} /\ queue = <<>>

(* isFlushing admits one flush at a time: two INSERTs in flight at once     *)
(* could requeue their batches in either order.                             *)
FlushesNeverOverlap ==
    /\ \A a, b \in batches : a = b
    /\ isFlushing <=> batches # {}

IInv ==
    /\ TypeOK
    /\ FlushesNeverOverlap
    /\ Consecutive
    /\ NoneMissing
    /\ RepeatedOnlyIfUnsure
    /\ HeldAgainIfUnsure
    /\ OnlyLoggedStored
    /\ SeenRecordedOnShutdown

USE MaxLoggedAssumption, BatchSizeAssumption, MaxQueueSizeAssumption, UnstorableAssumption

-----------------------------------------------------------------------------
(* Sequences *)

(* The empty sequence has no elements, and only it. *)
LEMMA RangeOfEmpty == Range(<<>>) = {}
BY DEF Range

(* Appending an entry adds it to the elements. *)
LEMMA RangeOfAppend ==
    ASSUME NEW s \in Seq(Entries), NEW e \in Entries
    PROVE  Range(Append(s, e)) = Range(s) \cup {e}
<1>1. /\ Append(s, e) \in Seq(Entries)
      /\ Len(Append(s, e)) = Len(s) + 1
      /\ \A i \in 1..Len(s) : Append(s, e)[i] = s[i]
      /\ Append(s, e)[Len(s) + 1] = e
  BY AppendProperties
<1>2. Len(s) \in Nat
  BY LenProperties
<1>3. /\ Range(s) = {s[i] : i \in 1..Len(s)}
      /\ Range(Append(s, e)) = {Append(s, e)[i] : i \in 1..Len(Append(s, e))}
  BY <1>1, RangeEquality
<1>4. ASSUME NEW x \in Range(Append(s, e)) PROVE x \in Range(s) \cup {e}
  BY <1>1, <1>2, <1>3
<1>5. ASSUME NEW x \in Range(s) PROVE x \in Range(Append(s, e))
  BY <1>1, <1>2, <1>3
<1>6. e \in Range(Append(s, e))
  BY <1>1, <1>2, <1>3
<1>7. QED BY <1>4, <1>5, <1>6

-----------------------------------------------------------------------------
(* The steps that start a flush *)

(* A flush that starts on a queue q, itself the consecutive entries up to   *)
(* the last one logged, moves q into flight and leaves the queue empty.     *)
LEMMA StartFlushHolds ==
    ASSUME NEW q \in Seq(Entries), batches = {}, StartFlush(q), q # <<>>,
           \A i \in 1..Len(q) : q[i] = logged' - Len(q) + i,
           logged' \in Nat
    PROVE  /\ queue' = <<>> /\ batches' = {q} /\ isFlushing' = TRUE
           /\ FlushesNeverOverlap'
           /\ Consecutive'
           /\ Held' = Range(q)
<1>1. queue' = <<>> /\ batches' = {q} /\ isFlushing' = TRUE
  BY DEF StartFlush
<1>2. FlushesNeverOverlap'
  BY <1>1 DEF FlushesNeverOverlap
<1>3. Len(<<>>) = 0 /\ Len(q) \in Nat
  BY LenProperties
<1>4. Consecutive'
  BY <1>1, <1>3 DEF Consecutive
<1>5. Held' = Range(q)
  BY <1>1, RangeOfEmpty DEF Held
<1>6. QED BY <1>1, <1>2, <1>4, <1>5

(* The constructor's logger satisfies the invariant. *)
LEMMA InitIInv == Init => IInv
<1> SUFFICES ASSUME Init PROVE IInv
  OBVIOUS
<1>1. TypeOK
  <2>1. <<>> \in Seq(Entries)
    BY EmptySeq
  <2>2. rows \in [Entries -> 0..2]
    BY DEF Init
  <2>3. queue \in Seq(Entries) /\ batches \subseteq Seq(Entries) \ {<<>>}
    BY <2>1 DEF Init
  <2>4. logged \in 0..MaxLogged /\ fallback \subseteq Entries /\ unsure \subseteq Entries
    BY DEF Init
  <2>5. /\ isFlushing \in BOOLEAN /\ skipped \in BOOLEAN /\ diskFailed \in BOOLEAN
        /\ stage \in Stages
    BY DEF Init, Stages
  <2>6. seen \in 0..MaxLogged
    BY DEF Init
  <2>7. QED BY <2>2, <2>3, <2>4, <2>5, <2>6 DEF TypeOK
<1>2. Held = {} /\ Stored = {} /\ Range(queue) = {}
  BY RangeOfEmpty DEF Init, Held, Stored, Entries
<1>3. FlushesNeverOverlap /\ Consecutive /\ RepeatedOnlyIfUnsure
  BY DEF Init, FlushesNeverOverlap, Consecutive, RepeatedOnlyIfUnsure, Entries
<1>4. NoneMissing /\ HeldAgainIfUnsure /\ OnlyLoggedStored /\ SeenRecordedOnShutdown
  BY <1>2 DEF Init, NoneMissing, HeldAgainIfUnsure, OnlyLoggedStored, SeenRecordedOnShutdown,
     OrderlyShutdownRecordsAll, Over
<1>5. QED BY <1>1, <1>3, <1>4 DEF IInv

(* log() adds its entry behind the others, in the queue or in the batch it  *)
(* triggers.                                                                *)
LEMMA LogIInv ==
    ASSUME IInv, Log
    PROVE  IInv'
<1> DEFINE e == logged + 1
           q == Append(queue, e)
<1>1. /\ e \in Entries /\ logged' = e /\ logged \in Nat /\ logged' \in Nat
      /\ queue \in Seq(Entries) /\ Len(queue) \in Nat
      /\ stage \notin Over
      /\ UNCHANGED <<rows, fallback, stage, seen, skipped, diskFailed, unsure>>
  BY LenProperties DEF Log, IInv, TypeOK, Entries
<1>2. /\ q \in Seq(Entries) /\ q # <<>> /\ Len(q) = Len(queue) + 1
      /\ \A i \in 1..Len(queue) : q[i] = queue[i]
      /\ q[Len(queue) + 1] = e
  BY <1>1, AppendProperties
<1>3. Range(q) = Range(queue) \cup {e}
  BY <1>1, RangeOfAppend
<1>4. \A i \in 1..Len(q) : q[i] = logged' - Len(q) + i
  BY <1>1, <1>2 DEF IInv, Consecutive
<1>5. ~(e \in Stored) /\ Stored' = Stored
  BY <1>1 DEF IInv, OnlyLoggedStored, Stored
<1>6. /\ TypeOK' /\ FlushesNeverOverlap' /\ Consecutive'
      /\ Held' = Held \cup {e}
      /\ Range(queue') \subseteq Range(queue) \cup {e}
      /\ batches # {} => batches' # {}
  <2>1. CASE Len(q) >= BatchSize /\ ~FlushReturnsAtOnce(q)
    <3>1. StartFlush(q)
      BY <2>1 DEF Log
    <3>2. batches = {}
      BY <2>1 DEF FlushReturnsAtOnce, IInv, FlushesNeverOverlap
    <3>3. /\ queue' = <<>> /\ batches' = {q} /\ isFlushing' = TRUE
          /\ FlushesNeverOverlap' /\ Consecutive' /\ Held' = Range(q)
      <4> HIDE DEF q
      <4>1. QED BY <1>1, <1>2, <1>4, <3>1, <3>2, StartFlushHolds
    <3>4. Held = Range(queue)
      BY <3>2 DEF Held
    <3>5. TypeOK'
      BY <1>1, <1>2, <3>3 DEF IInv, TypeOK, Entries
    <3>6. QED BY <1>3, <3>2, <3>3, <3>4, <3>5, RangeOfEmpty
  <2>2. CASE ~(Len(q) >= BatchSize /\ ~FlushReturnsAtOnce(q))
    <3>1. queue' = q /\ UNCHANGED <<isFlushing, batches>>
      BY <2>2 DEF Log
    <3>2. TypeOK'
      BY <1>1, <1>2, <3>1 DEF IInv, TypeOK, Entries
    <3>3. FlushesNeverOverlap'
      BY <3>1 DEF IInv, FlushesNeverOverlap
    <3>4. Consecutive'
      <4>1. ASSUME NEW b \in batches, NEW i \in 1..Len(b)
            PROVE  b[i] = logged' - Len(queue') - Len(b) + i
        <5>1. b \in Seq(Entries) /\ Len(b) \in Nat
          BY LenProperties DEF IInv, TypeOK
        <5>2. b[i] = logged - Len(queue) - Len(b) + i
          BY DEF IInv, Consecutive
        <5>3. QED BY <1>1, <1>2, <3>1, <5>1, <5>2
      <4>2. QED BY <1>4, <3>1, <4>1 DEF Consecutive
    <3>5. Held' = Held \cup {e}
      BY <1>3, <3>1 DEF Held
    <3>6. QED BY <1>3, <3>1, <3>2, <3>3, <3>4, <3>5
  <2>3. QED BY <2>1, <2>2
<1>7. NoneMissing'
  BY <1>1, <1>5, <1>6 DEF IInv, NoneMissing
<1>8. RepeatedOnlyIfUnsure' /\ OnlyLoggedStored'
  BY <1>1, <1>5 DEF IInv, RepeatedOnlyIfUnsure, OnlyLoggedStored
<1>9. HeldAgainIfUnsure'
  BY <1>1, <1>5, <1>6 DEF IInv, HeldAgainIfUnsure, Stored, TypeOK
<1>10. SeenRecordedOnShutdown'
  <2>1. seen' = seen /\ seen <= logged /\ seen \in Nat
    BY <1>1 DEF IInv, TypeOK, SeenRecordedOnShutdown
  <2>2. QueuedSeen' \subseteq QueuedSeen
    BY <1>1, <1>6, <2>1 DEF QueuedSeen
  <2>3. QED BY <1>1, <1>5, <1>6, <2>1, <2>2
         DEF IInv, SeenRecordedOnShutdown, OrderlyShutdownRecordsAll, Over
<1>11. QED BY <1>6, <1>7, <1>8, <1>9, <1>10 DEF IInv

(* Moving the queue into flight, by the timer or by the shutdown. *)
LEMMA SwapIInv ==
    ASSUME IInv, ~FlushReturnsAtOnce(queue), StartFlush(queue),
           UNCHANGED <<logged, rows, fallback, skipped, diskFailed, unsure>>,
           stage' \in Stages \ Over, seen' \in 0..logged
    PROVE  IInv'
<1>1. queue \in Seq(Entries) /\ queue # <<>> /\ batches = {} /\ logged' \in Nat
  BY DEF FlushReturnsAtOnce, IInv, TypeOK, FlushesNeverOverlap
<1>2. \A i \in 1..Len(queue) : queue[i] = logged' - Len(queue) + i
  BY DEF IInv, Consecutive
<1>3. /\ queue' = <<>> /\ batches' = {queue} /\ isFlushing' = TRUE
      /\ FlushesNeverOverlap' /\ Consecutive' /\ Held' = Range(queue)
  BY <1>1, <1>2, StartFlushHolds
<1>4. Held' = Held /\ Stored' = Stored
  BY <1>1, <1>3 DEF Held, Stored
<1>5. TypeOK'
  BY <1>1, <1>3 DEF IInv, TypeOK
<1>6. stage \notin Over
  BY <1>1 DEF IInv, SeenRecordedOnShutdown
<1>7. NoneMissing' /\ RepeatedOnlyIfUnsure' /\ HeldAgainIfUnsure' /\ OnlyLoggedStored'
  BY <1>4, <1>6 DEF IInv, NoneMissing, RepeatedOnlyIfUnsure, HeldAgainIfUnsure, OnlyLoggedStored
<1>8. SeenRecordedOnShutdown'
  <2>1. QueuedSeen' = {}
    BY <1>3, RangeOfEmpty DEF QueuedSeen
  <2>2. QED BY <1>1, <1>3, <2>1 DEF SeenRecordedOnShutdown, OrderlyShutdownRecordsAll, Over
<1>9. QED BY <1>3, <1>5, <1>7, <1>8 DEF IInv

-----------------------------------------------------------------------------
(* The steps that end a flush *)

(* The flush that ends is the only one. *)
LEMMA OnlyBatch ==
    ASSUME IInv, NEW b \in batches
    PROVE  /\ batches = {b}
           /\ b \in Seq(Entries) /\ b # <<>>
           /\ Len(b) \in Nat /\ Len(queue) \in Nat
           /\ Held = Range(queue) \cup Range(b)
           /\ Range(b) \cap Range(queue) = {}
           /\ Range(b) \subseteq 1..logged
           /\ logged \in Nat
<1>1. batches = {b}
  BY DEF IInv, FlushesNeverOverlap
<1>2. b \in Seq(Entries) /\ b # <<>> /\ queue \in Seq(Entries) /\ logged \in Nat
  BY DEF IInv, TypeOK
<1>3. Len(b) \in Nat /\ Len(queue) \in Nat
  BY <1>2, LenProperties
<1>4. Held = Range(queue) \cup Range(b)
  BY <1>1 DEF Held
<1>5. /\ Range(b) = {b[i] : i \in 1..Len(b)}
      /\ Range(queue) = {queue[i] : i \in 1..Len(queue)}
  BY <1>2, RangeEquality
<1>6. Range(b) \cap Range(queue) = {}
  <2>1. ASSUME NEW i \in 1..Len(b), NEW j \in 1..Len(queue) PROVE b[i] # queue[j]
    <3>1. /\ b[i] = logged - Len(queue) - Len(b) + i
          /\ queue[j] = logged - Len(queue) + j
      BY DEF IInv, Consecutive
    <3>2. QED BY <1>2, <1>3, <3>1
  <2>2. QED BY <1>5, <2>1
<1>7. Range(b) \subseteq 1..logged
  <2>1. ASSUME NEW i \in 1..Len(b) PROVE b[i] \in 1..logged
    <3>1. b[i] = logged - Len(queue) - Len(b) + i
      BY DEF IInv, Consecutive
    <3>2. b[i] \in Entries
      BY <1>2, ElementOfSeq
    <3>3. QED BY <1>2, <1>3, <3>1, <3>2 DEF Entries
  <2>2. QED BY <1>5, <2>1
<1>8. QED BY <1>1, <1>2, <1>3, <1>4, <1>6, <1>7

(* An INSERT that commits, reported or not, adds a row for each entry.      *)
LEMMA CommittedRows ==
    ASSUME IInv, NEW b \in batches, rows' = OneMoreRow(b)
    PROVE  /\ rows' \in [Entries -> 0..2]
           /\ Stored' = Stored \cup Range(b)
           /\ \A e \in Entries : e \notin Range(b) => rows'[e] = rows[e]
           /\ \A e \in Range(b) : rows'[e] = 2 => rows[e] > 0
<1>1. rows \in [Entries -> 0..2] /\ Range(b) \subseteq Entries
  BY OnlyBatch, RangeOfSeq DEF IInv, TypeOK
<1>2. \A e \in Entries : rows'[e] = IF e \in Range(b) /\ rows[e] < 2 THEN rows[e] + 1
                                                                   ELSE rows[e]
  BY DEF OneMoreRow
<1>3. rows' \in [Entries -> 0..2]
  BY <1>1, <1>2 DEF OneMoreRow
<1>4. Stored' = Stored \cup Range(b)
  BY <1>1, <1>2 DEF Stored
<1>5. QED BY <1>1, <1>2, <1>3, <1>4

(* A committed INSERT moves its batch from memory to the table. *)
LEMMA InsertSucceedsIInv ==
    ASSUME IInv, NEW b \in batches, InsertSucceeds(b)
    PROVE  IInv'
<1>1. /\ batches' = {} /\ isFlushing' = FALSE /\ queue' = queue
      /\ stage' = IF stage = "flushing" THEN "flushed" ELSE stage
      /\ UNCHANGED <<logged, fallback, seen, skipped, diskFailed, unsure>>
      /\ rows' = OneMoreRow(b)
      /\ stage \notin Over
  BY OnlyBatch DEF InsertSucceeds, FinishFlush, IInv, SeenRecordedOnShutdown
<1>2. /\ rows' \in [Entries -> 0..2]
      /\ Stored' = Stored \cup Range(b)
      /\ \A e \in Entries : e \notin Range(b) => rows'[e] = rows[e]
      /\ \A e \in Range(b) : rows'[e] = 2 => rows[e] > 0
  BY <1>1, CommittedRows
<1>3. /\ Held = Range(queue) \cup Range(b) /\ Held' = Range(queue)
      /\ Range(b) \cap Range(queue) = {}
      /\ Range(b) \subseteq 1..logged
  BY <1>1, OnlyBatch DEF Held
<1>4. Range(queue) \subseteq Entries
  BY RangeOfSeq DEF IInv, TypeOK
<1>5. TypeOK'
  BY <1>1, <1>2 DEF IInv, TypeOK, Stages
<1>6. FlushesNeverOverlap' /\ Consecutive'
  BY <1>1 DEF IInv, FlushesNeverOverlap, Consecutive
<1>7. NoneMissing' /\ OnlyLoggedStored'
  BY <1>1, <1>2, <1>3 DEF IInv, NoneMissing, OnlyLoggedStored
<1>8. RepeatedOnlyIfUnsure'
  BY <1>1, <1>2, <1>3 DEF IInv, RepeatedOnlyIfUnsure, HeldAgainIfUnsure
<1>9. HeldAgainIfUnsure'
  BY <1>1, <1>2, <1>3, <1>4 DEF IInv, HeldAgainIfUnsure
<1>10. SeenRecordedOnShutdown'
  <2>1. QueuedSeen' = QueuedSeen
    BY <1>1 DEF QueuedSeen
  <2>2. QED BY <1>1, <1>2, <2>1 DEF IInv, SeenRecordedOnShutdown,
               OrderlyShutdownRecordsAll, Over
<1>11. QED BY <1>5, <1>6, <1>7, <1>8, <1>9, <1>10 DEF IInv

(* A failed batch goes back in front of what was logged meanwhile, or       *)
(* leaves memory for the fallback file.                                     *)
LEMMA RequeueHolds ==
    ASSUME IInv, NEW b \in batches, RequeueOrEvict(b), batches' = {}, logged' = logged
    PROVE  /\ queue' \in Seq(Entries)
           /\ Consecutive'
           /\ Held' = Range(queue')
           /\ Range(queue) \subseteq Range(queue')
           /\ Range(queue') \subseteq Held
           /\ Range(queue') \subseteq Range(queue) \cup Range(b)
<1>1. /\ b \in Seq(Entries) /\ queue \in Seq(Entries)
      /\ Len(b) \in Nat /\ Len(queue) \in Nat /\ logged \in Nat
      /\ Held = Range(queue) \cup Range(b)
  BY OnlyBatch DEF IInv, TypeOK
<1>2. Held' = Range(queue')
  BY DEF Held
<1>3. CASE Len(queue) + Len(b) <= MaxQueueSize
  <2>1. queue' = b \o queue
    BY <1>3 DEF RequeueOrEvict
  <2>2. /\ queue' \in Seq(Entries)
        /\ Len(queue') = Len(b) + Len(queue)
        /\ \A i \in 1..Len(b) + Len(queue) :
              queue'[i] = IF i <= Len(b) THEN b[i] ELSE queue[i - Len(b)]
    BY <1>1, <2>1, ConcatProperties
  <2>3. Range(queue') = Range(b) \cup Range(queue)
    BY <1>1, <2>1, RangeConcatenation
  <2>4. ASSUME NEW i \in 1..Len(queue') PROVE queue'[i] = logged - Len(queue') + i
    <3>1. CASE i <= Len(b)
      <4>1. b[i] = logged - Len(queue) - Len(b) + i
        BY <1>1, <3>1 DEF IInv, Consecutive
      <4>2. QED BY <1>1, <2>2, <3>1, <4>1
    <3>2. CASE ~(i <= Len(b))
      <4>1. i - Len(b) \in 1..Len(queue)
        BY <1>1, <2>2, <3>2
      <4>2. queue[i - Len(b)] = logged - Len(queue) + (i - Len(b))
        BY <4>1 DEF IInv, Consecutive
      <4>3. QED BY <1>1, <2>2, <3>2, <4>2
    <3>3. QED BY <3>1, <3>2
  <2>5. Consecutive'
    BY <2>4 DEF Consecutive
  <2>6. QED BY <1>1, <1>2, <2>2, <2>3, <2>5
<1>4. CASE ~(Len(queue) + Len(b) <= MaxQueueSize)
  <2>1. queue' = queue
    BY <1>4 DEF RequeueOrEvict
  <2>2. Consecutive'
    BY <2>1 DEF IInv, Consecutive
  <2>3. QED BY <1>1, <1>2, <2>1, <2>2
<1>5. QED BY <1>3, <1>4

(* A rejected INSERT loses nothing the fallback file could take, and makes  *)
(* a repeated row possible only by marking its batch unsure.                *)
LEMMA InsertFailsIInv ==
    ASSUME IInv, NEW b \in batches, InsertFails(b)
    PROVE  IInv'
<1>1. /\ batches' = {} /\ isFlushing' = FALSE
      /\ stage' = IF stage = "flushing" THEN "flushed" ELSE stage
      /\ UNCHANGED <<logged, seen, skipped>>
      /\ RequeueOrEvict(b) /\ RejectedInsert(b) /\ WriteFallbackFile(b)
      /\ stage \notin Over /\ stage' \notin Over
  BY OnlyBatch DEF InsertFails, FinishFlush, IInv, SeenRecordedOnShutdown, Over
<1>2. /\ queue' \in Seq(Entries) /\ Consecutive'
      /\ Held' = Range(queue')
      /\ Range(queue) \subseteq Range(queue')
      /\ Range(queue') \subseteq Held
      /\ Range(queue') \subseteq Range(queue) \cup Range(b)
  BY <1>1, RequeueHolds
<1>3. /\ Held = Range(queue) \cup Range(b)
      /\ Range(b) \subseteq Entries /\ Range(b) \subseteq 1..logged
      /\ Held \subseteq Entries
  BY OnlyBatch, RangeOfSeq DEF IInv, TypeOK
<1>4. \/ fallback' = fallback \cup Range(b) /\ diskFailed' = diskFailed
      \/ diskFailed' = TRUE /\ fallback' = fallback
  BY <1>1 DEF WriteFallbackFile
<1>5. /\ rows' \in [Entries -> 0..2]
      /\ Stored \subseteq Stored' /\ Stored' \subseteq Stored \cup Range(b)
      /\ unsure \subseteq unsure' /\ unsure' \subseteq Entries
      /\ \A e \in Entries : rows'[e] = rows[e] \/ e \in unsure'
  <2>1. CASE UNCHANGED <<rows, unsure>>
    BY <2>1 DEF IInv, TypeOK, Stored
  <2>2. CASE rows' = OneMoreRow(b) /\ unsure' = unsure \cup Range(b)
    <3>1. /\ rows' \in [Entries -> 0..2]
          /\ Stored' = Stored \cup Range(b)
          /\ \A e \in Entries : e \notin Range(b) => rows'[e] = rows[e]
      BY <2>2, CommittedRows
    <3>2. QED BY <1>3, <2>2, <3>1 DEF IInv, TypeOK
  <2>3. QED BY <1>1, <2>1, <2>2 DEF RejectedInsert
<1>6. TypeOK'
  BY <1>1, <1>2, <1>3, <1>4, <1>5 DEF IInv, TypeOK, Stages
<1>7. FlushesNeverOverlap'
  BY <1>1 DEF FlushesNeverOverlap
<1>8. NoneMissing'
  <2> SUFFICES ASSUME ~diskFailed' PROVE 1..logged \subseteq Held' \cup Stored' \cup fallback'
    BY <1>1 DEF NoneMissing
  <2>1. fallback' = fallback \cup Range(b) /\ ~diskFailed
    BY <1>4
  <2>2. 1..logged \subseteq Held \cup Stored \cup fallback
    BY <1>1, <2>1 DEF IInv, NoneMissing
  <2>3. QED BY <1>2, <1>3, <1>5, <2>1, <2>2
<1>9. RepeatedOnlyIfUnsure'
  BY <1>5 DEF IInv, RepeatedOnlyIfUnsure
<1>10. HeldAgainIfUnsure'
  BY <1>2, <1>3, <1>5 DEF IInv, HeldAgainIfUnsure
<1>11. OnlyLoggedStored'
  BY <1>1, <1>3, <1>5 DEF IInv, OnlyLoggedStored
<1>12. SeenRecordedOnShutdown'
  <2>1. stage' # "flushing" /\ seen' <= logged'
    BY <1>1 DEF IInv, SeenRecordedOnShutdown
  <2> SUFFICES ASSUME stage' \in {"flushed", "stopped"}, ~skipped', ~diskFailed',
                      NEW e \in QueuedSeen'
               PROVE  e \in Stored' \cup fallback'
    BY <1>1, <2>1 DEF SeenRecordedOnShutdown, OrderlyShutdownRecordsAll, Over
  <2>2. fallback' = fallback \cup Range(b) /\ ~diskFailed /\ ~skipped
    BY <1>1, <1>4
  <2>3. e \in Range(b) \/ e \in QueuedSeen
    BY <1>1, <1>2 DEF QueuedSeen
  <2>4. QueuedSeen \subseteq Stored \cup fallback
    BY <1>1, <2>2 DEF IInv, SeenRecordedOnShutdown
  <2>5. QED BY <1>5, <2>2, <2>3, <2>4
<1>13. QED BY <1>2, <1>6, <1>7, <1>8, <1>9, <1>10, <1>11, <1>12 DEF IInv

-----------------------------------------------------------------------------
(* A step that moves only the shutdown along keeps every part that does not *)
(* mention it.                                                              *)
LEMMA StageIInv ==
    ASSUME IInv,
           UNCHANGED <<logged, queue, isFlushing, batches, rows, fallback, diskFailed, unsure>>,
           stage' \in Stages, stage \notin Over \/ stage' = stage,
           skipped' \in BOOLEAN, seen' \in 0..MaxLogged, SeenRecordedOnShutdown'
    PROVE  IInv'
<1>1. Held' = Held /\ Stored' = Stored
  BY DEF Held, Stored
<1>2. QED
  BY <1>1 DEF IInv, TypeOK, FlushesNeverOverlap, Consecutive, NoneMissing,
     RepeatedOnlyIfUnsure, HeldAgainIfUnsure, OnlyLoggedStored

(* At its end the process takes the memory with it: of its entries only     *)
(* those in the table, in the file and in the INSERT the database may still *)
(* commit are left.                                                         *)
LEMMA OverIInv ==
    ASSUME IInv, stage' \in Over, MemoryIsGone,
           \/ UNCHANGED rows
           \/ \E b \in batches : rows' = OneMoreRow(b),
           UNCHANGED <<logged, fallback, seen, skipped, diskFailed, unsure>>,
           OrderlyShutdownRecordsAll'
    PROVE  IInv'
<1>1. queue' = <<>> /\ batches' = {} /\ isFlushing' = FALSE
  BY DEF MemoryIsGone
<1>2. /\ rows' \in [Entries -> 0..2]
      /\ Stored' \subseteq 1..logged
      /\ \A e \in Entries : rows'[e] = 2 => e \in unsure
  <2>1. CASE UNCHANGED rows
    BY <2>1 DEF IInv, TypeOK, OnlyLoggedStored, RepeatedOnlyIfUnsure, Stored
  <2>2. CASE \E b \in batches : rows' = OneMoreRow(b)
    <3>1. PICK b \in batches : rows' = OneMoreRow(b)
      BY <2>2
    <3>2. /\ rows' \in [Entries -> 0..2]
          /\ Stored' = Stored \cup Range(b)
          /\ \A e \in Entries : e \notin Range(b) => rows'[e] = rows[e]
          /\ \A e \in Range(b) : rows'[e] = 2 => rows[e] > 0
      BY <3>1, CommittedRows
    <3>3. Range(b) \subseteq Held /\ Range(b) \subseteq 1..logged
      BY OnlyBatch
    <3>4. QED BY <3>2, <3>3
           DEF IInv, OnlyLoggedStored, RepeatedOnlyIfUnsure, HeldAgainIfUnsure
  <2>3. QED BY <2>1, <2>2
<1>3. TypeOK'
  <2>1. <<>> \in Seq(Entries)
    BY EmptySeq
  <2>2. QED BY <1>1, <1>2, <2>1 DEF IInv, TypeOK, Stages, Over
<1>4. Held' = {} /\ Range(queue') = {}
  BY <1>1, RangeOfEmpty DEF Held
<1>5. FlushesNeverOverlap' /\ Consecutive'
  BY <1>1 DEF FlushesNeverOverlap, Consecutive
<1>6. NoneMissing' /\ RepeatedOnlyIfUnsure' /\ HeldAgainIfUnsure' /\ OnlyLoggedStored'
  BY <1>2, <1>4 DEF NoneMissing, RepeatedOnlyIfUnsure, HeldAgainIfUnsure, OnlyLoggedStored
<1>7. SeenRecordedOnShutdown'
  BY <1>1 DEF IInv, SeenRecordedOnShutdown, Over
<1>8. QED BY <1>3, <1>5, <1>6, <1>7 DEF IInv

(* Every step of the logger keeps the invariant. *)
LEMMA NextIInv == IInv /\ [Next]_vars => IInv'
<1> SUFFICES ASSUME IInv, [Next]_vars PROVE IInv'
  OBVIOUS
<1>1. CASE Log
  BY <1>1, LogIInv
<1>2. CASE TimerFires
  <2>1. stage' \in Stages \ Over /\ seen' \in 0..logged
    BY <1>2 DEF TimerFires, IInv, TypeOK, SeenRecordedOnShutdown
  <2>2. QED BY <1>2, <2>1, SwapIInv DEF TimerFires
<1>3. ASSUME NEW b \in batches, InsertSucceeds(b) PROVE IInv'
  BY <1>3, InsertSucceedsIInv
<1>4. ASSUME NEW b \in batches, InsertFails(b) PROVE IInv'
  BY <1>4, InsertFailsIInv
<1>5. CASE CloseApp
  <2>1. SeenRecordedOnShutdown'
    BY <1>5 DEF CloseApp, IInv, SeenRecordedOnShutdown, OrderlyShutdownRecordsAll, Over
  <2>2. QED BY <1>5, <2>1, StageIInv DEF CloseApp, Stages, Over, IInv, TypeOK
<1>6. CASE ShutdownFlush
  <2>1. seen' = logged /\ logged' = logged /\ logged \in 0..MaxLogged /\ stage = "closed"
    BY <1>6 DEF ShutdownFlush, IInv, TypeOK
  <2>2. CASE FlushReturnsAtOnce(queue)
    <3>1. stage' = "flushed" /\ skipped' = (queue # <<>>)
          /\ UNCHANGED <<logged, queue, isFlushing, batches, rows, fallback, diskFailed, unsure>>
      BY <1>6, <2>2 DEF ShutdownFlush
    <3>2. skipped' \/ QueuedSeen' = {}
      BY <3>1, RangeOfEmpty DEF QueuedSeen
    <3>3. SeenRecordedOnShutdown'
      BY <2>1, <3>1, <3>2 DEF SeenRecordedOnShutdown, OrderlyShutdownRecordsAll, Over
    <3>4. QED BY <2>1, <3>1, <3>3, StageIInv DEF Stages, Over
  <2>3. CASE ~FlushReturnsAtOnce(queue)
    <3>1. StartFlush(queue) /\ stage' = "flushing"
          /\ UNCHANGED <<logged, rows, fallback, skipped, diskFailed, unsure>>
      BY <1>6, <2>3 DEF ShutdownFlush
    <3>2. QED BY <2>1, <2>3, <3>1, SwapIInv DEF Stages, Over
  <2>4. QED BY <2>2, <2>3
<1>7. CASE StopTimer
  <2>1. UNCHANGED <<logged, queue, rows, fallback, seen, skipped, diskFailed>>
        /\ stage = "flushed" /\ stage' = "stopped"
    BY <1>7 DEF StopTimer
  <2>2. SeenRecordedOnShutdown'
    BY <2>1 DEF IInv, SeenRecordedOnShutdown, OrderlyShutdownRecordsAll, QueuedSeen, Stored, Over
  <2>3. QED BY <1>7, <2>2, StageIInv DEF StopTimer, Stages, Over, IInv, TypeOK
<1>8. CASE ProcessEnds
  <2>1. /\ stage = "stopped" /\ batches = {} /\ stage' = "ended"
        /\ MemoryIsGone
        /\ UNCHANGED <<logged, rows, fallback, seen, skipped, diskFailed, unsure>>
    BY <1>8 DEF ProcessEnds
  <2>2. ASSUME ~skipped, ~diskFailed PROVE 1..seen \subseteq Stored \cup fallback
    <3>1. Held = Range(queue)
      BY <2>1 DEF Held
    <3>2. /\ 1..logged \subseteq Held \cup Stored \cup fallback
          /\ QueuedSeen \subseteq Stored \cup fallback
          /\ seen <= logged /\ seen \in Nat /\ logged \in Nat
      BY <2>1, <2>2 DEF IInv, TypeOK, NoneMissing, SeenRecordedOnShutdown, Over
    <3>3. QED BY <3>1, <3>2 DEF QueuedSeen
  <2>3. OrderlyShutdownRecordsAll'
    BY <2>1, <2>2 DEF OrderlyShutdownRecordsAll, SeenAreRecorded, Stored
  <2>4. QED BY <2>1, <2>3, OverIInv DEF Over
<1>9. CASE ProcessDies
  <2>1. /\ stage' = "died" /\ MemoryIsGone
        /\ UNCHANGED rows \/ \E b \in batches : rows' = OneMoreRow(b)
        /\ UNCHANGED <<logged, fallback, seen, skipped, diskFailed, unsure>>
    BY <1>9 DEF ProcessDies
  <2>2. QED BY <2>1, OverIInv DEF OrderlyShutdownRecordsAll, Over
<1>10. CASE UNCHANGED vars
  <2>1. SeenRecordedOnShutdown'
    BY <1>10 DEF vars, IInv, SeenRecordedOnShutdown, OrderlyShutdownRecordsAll,
       SeenAreRecorded, QueuedSeen, Stored
  <2>2. QED BY <1>10, <2>1, StageIInv DEF vars, IInv, TypeOK
<1>11. QED
  BY <1>1, <1>2, <1>3, <1>4, <1>5, <1>6, <1>7, <1>8, <1>9, <1>10 DEF Next

-----------------------------------------------------------------------------
(* The inductive invariant holds of every execution of the logger. *)
THEOREM Invariant == Spec => []IInv
BY InitIInv, NextIInv, PTL DEF Spec

(* What is in memory, seen as one sequence. *)
LEMMA BufferedIsHeld ==
    ASSUME IInv
    PROVE  Range(Buffered) = Held /\ BufferIsRecentEntries
<1>1. queue \in Seq(Entries) /\ Len(queue) \in Nat /\ logged \in Nat
  BY LenProperties DEF IInv, TypeOK
<1>2. CASE batches = {}
  <2>1. Buffered = queue /\ Held = Range(queue)
    BY <1>2 DEF Buffered, Held
  <2>2. queue = Recent(Len(queue))
    <3>1. queue = [i \in 1..Len(queue) |-> queue[i]]
      BY <1>1, LenProperties
    <3>2. QED BY <3>1 DEF Recent, IInv, Consecutive
  <2>3. QED BY <2>1, <2>2 DEF BufferIsRecentEntries
<1>3. CASE batches # {}
  <2>1. PICK b \in batches : TRUE
    BY <1>3
  <2>2. /\ batches = {b} /\ b \in Seq(Entries) /\ Len(b) \in Nat
        /\ Held = Range(queue) \cup Range(b)
    BY OnlyBatch
  <2>3. Buffered = b \o queue
    BY <2>2 DEF Buffered
  <2>4. Range(Buffered) = Held
    BY <1>1, <2>2, <2>3, RangeConcatenation
  <2>5. /\ Buffered \in Seq(Entries)
        /\ Len(Buffered) = Len(b) + Len(queue)
        /\ \A i \in 1..Len(b) + Len(queue) :
              Buffered[i] = IF i <= Len(b) THEN b[i] ELSE queue[i - Len(b)]
    BY <1>1, <2>2, <2>3, ConcatProperties
  <2>6. ASSUME NEW i \in 1..Len(Buffered)
        PROVE  Buffered[i] = logged - Len(Buffered) + i
    <3>1. CASE i <= Len(b)
      <4>1. b[i] = logged - Len(queue) - Len(b) + i
        BY <2>2, <3>1 DEF IInv, Consecutive
      <4>2. QED BY <1>1, <2>2, <2>5, <3>1, <4>1
    <3>2. CASE ~(i <= Len(b))
      <4>1. i - Len(b) \in 1..Len(queue)
        BY <1>1, <2>2, <2>5, <3>2
      <4>2. queue[i - Len(b)] = logged - Len(queue) + (i - Len(b))
        BY <4>1 DEF IInv, Consecutive
      <4>3. QED BY <1>1, <2>2, <2>5, <3>2, <4>2
    <3>3. QED BY <3>1, <3>2
  <2>7. Buffered = [i \in 1..Len(Buffered) |-> Buffered[i]]
    BY <2>5, LenProperties
  <2>8. BufferIsRecentEntries
    BY <2>6, <2>7 DEF BufferIsRecentEntries, Recent
  <2>9. QED BY <2>4, <2>8
<1>4. QED BY <1>2, <1>3

(* isFlushing keeps two flushes from running at the same time. *)
THEOREM OneFlushAtATime == Spec => []FlushesNeverOverlap
<1>1. IInv => FlushesNeverOverlap
  BY DEF IInv
<1>2. QED BY <1>1, Invariant, PTL

(* Memory holds the most recent entries in log() order, each once. *)
THEOREM BufferKeepsOrder == Spec => []BufferIsRecentEntries
<1>1. IInv => BufferIsRecentEntries
  BY BufferedIsHeld
<1>2. QED BY <1>1, Invariant, PTL

(* While the process lives and its disk works, no entry vanishes. *)
THEOREM NoEntryVanishes == Spec => []NothingVanishes
<1>1. IInv => NothingVanishes
  BY BufferedIsHeld DEF IInv, NoneMissing, NothingVanishes
<1>2. QED BY <1>1, Invariant, PTL

(* A row is repeated only after an INSERT whose outcome was misreported. *)
THEOREM RowsRepeatOnlyIfUnsure == Spec => []RepeatedOnlyIfUnsure
<1>1. IInv => RepeatedOnlyIfUnsure
  BY DEF IInv
<1>2. QED BY <1>1, Invariant, PTL

(* What a shutdown's flush finds in memory is in the table or the file when *)
(* the process has ended, unless that flush returned early.                 *)
THEOREM OrderlyShutdown == Spec => []OrderlyShutdownRecordsAll
<1>1. IInv => OrderlyShutdownRecordsAll
  BY DEF IInv, SeenRecordedOnShutdown
<1>2. QED BY <1>1, Invariant, PTL

-----------------------------------------------------------------------------
(* Entries waiting for a retry *)

(* Only entries of a failed INSERT are in the file, and in memory they are  *)
(* the first maxQueueSize of the batch in flight or, with none in flight,   *)
(* of the queue; behind a batch in flight nothing has been tried yet.       *)
RetriesFirst ==
    /\ fallback \subseteq 1..logged
    /\ \A i \in 1..Len(queue) : queue[i] \in fallback => i <= MaxQueueSize
    /\ \A b \in batches : \A i \in 1..Len(b) : b[i] \in fallback => i <= MaxQueueSize
    /\ batches # {} => Range(queue) \cap fallback = {}

(* A new entry has not been tried. *)
LEMMA LogRetries ==
    ASSUME IInv, RetriesFirst, Log
    PROVE  RetriesFirst'
<1> DEFINE e == logged + 1
           q == Append(queue, e)
<1>1. /\ e \in Entries /\ logged' = e /\ logged \in Nat /\ fallback' = fallback
      /\ queue \in Seq(Entries) /\ Len(queue) \in Nat
  BY LenProperties DEF Log, IInv, TypeOK, Entries
<1>2. /\ Len(q) = Len(queue) + 1
      /\ \A i \in 1..Len(queue) : q[i] = queue[i]
      /\ q[Len(queue) + 1] = e
      /\ Range(q) = Range(queue) \cup {e}
  BY <1>1, AppendProperties, RangeOfAppend
<1>3. e \notin fallback /\ fallback \subseteq 1..logged'
  BY <1>1 DEF RetriesFirst
<1>4. \A i \in 1..Len(q) : q[i] \in fallback => i <= MaxQueueSize
  BY <1>1, <1>2, <1>3 DEF RetriesFirst
<1>5. CASE StartFlush(q) /\ ~FlushReturnsAtOnce(q)
  <2>1. queue' = <<>> /\ batches' = {q}
    BY <1>5 DEF StartFlush, FlushReturnsAtOnce, IInv, FlushesNeverOverlap
  <2>2. Len(<<>>) = 0
    OBVIOUS
  <2>3. QED BY <1>1, <1>3, <1>4, <2>1, <2>2, RangeOfEmpty DEF RetriesFirst
<1>6. CASE queue' = q /\ UNCHANGED batches
  <2>1. batches # {} => Range(q) \cap fallback = {}
    BY <1>2, <1>3 DEF RetriesFirst
  <2>2. QED BY <1>1, <1>3, <1>4, <1>6, <2>1 DEF RetriesFirst
<1>7. QED BY <1>5, <1>6 DEF Log

(* A flush moves the queue into flight as it is. *)
LEMMA SwapRetries ==
    ASSUME IInv, RetriesFirst, ~FlushReturnsAtOnce(queue), StartFlush(queue),
           UNCHANGED <<logged, fallback>>
    PROVE  RetriesFirst'
<1>1. queue' = <<>> /\ batches' = {queue}
  BY DEF StartFlush, FlushReturnsAtOnce, IInv, FlushesNeverOverlap
<1>2. Len(<<>>) = 0
  OBVIOUS
<1>3. QED BY <1>1, <1>2, RangeOfEmpty DEF RetriesFirst

(* A failed batch is put back only where it and the queue fit the limit.    *)
LEMMA InsertFailsRetries ==
    ASSUME IInv, RetriesFirst, NEW b \in batches, InsertFails(b)
    PROVE  RetriesFirst'
<1>1. /\ batches' = {} /\ logged' = logged
      /\ RequeueOrEvict(b) /\ WriteFallbackFile(b)
  BY OnlyBatch DEF InsertFails, FinishFlush
<1>2. /\ b \in Seq(Entries) /\ queue \in Seq(Entries)
      /\ Len(b) \in Nat /\ Len(queue) \in Nat /\ logged \in Nat
      /\ Range(b) \cap Range(queue) = {} /\ Range(b) \subseteq 1..logged
  BY OnlyBatch DEF IInv, TypeOK
<1>3. fallback' \subseteq fallback \cup Range(b) /\ fallback' \subseteq 1..logged'
  BY <1>1, <1>2 DEF WriteFallbackFile, RetriesFirst
<1>4. CASE Len(queue) + Len(b) <= MaxQueueSize
  <2>1. queue' = b \o queue
    BY <1>1, <1>4 DEF RequeueOrEvict
  <2>2. Len(queue') = Len(b) + Len(queue)
    BY <1>2, <2>1, ConcatProperties
  <2>3. \A i \in 1..Len(queue') : i <= MaxQueueSize
    BY <1>2, <1>4, <2>2
  <2>4. QED BY <1>1, <1>3, <2>3 DEF RetriesFirst
<1>5. CASE ~(Len(queue) + Len(b) <= MaxQueueSize)
  <2>1. queue' = queue
    BY <1>1, <1>5 DEF RequeueOrEvict
  <2>2. Range(queue) \cap fallback' = {}
    BY <1>2, <1>3 DEF RetriesFirst
  <2>3. \A i \in 1..Len(queue) : queue[i] \in Range(queue)
    BY <1>2, RangeEquality
  <2>4. QED BY <1>1, <1>3, <2>1, <2>2, <2>3 DEF RetriesFirst
<1>6. QED BY <1>4, <1>5

(* No step puts an entry that was tried behind the limit. *)
LEMMA NextRetries == IInv /\ RetriesFirst /\ [Next]_vars => RetriesFirst'
<1> SUFFICES ASSUME IInv, RetriesFirst, [Next]_vars PROVE RetriesFirst'
  OBVIOUS
<1>1. ASSUME UNCHANGED <<logged, queue, batches, fallback>> PROVE RetriesFirst'
  BY <1>1 DEF RetriesFirst
<1>2. CASE Log
  BY <1>2, LogRetries
<1>3. CASE TimerFires
  BY <1>3, SwapRetries DEF TimerFires
<1>4. ASSUME NEW b \in batches, InsertSucceeds(b) PROVE RetriesFirst'
  <2>1. batches' = {} /\ UNCHANGED <<logged, queue, fallback>>
    BY <1>4, OnlyBatch DEF InsertSucceeds, FinishFlush
  <2>2. QED BY <2>1 DEF RetriesFirst
<1>5. ASSUME NEW b \in batches, InsertFails(b) PROVE RetriesFirst'
  BY <1>5, InsertFailsRetries
<1>6. CASE ShutdownFlush
  BY <1>1, <1>6, SwapRetries DEF ShutdownFlush
<1>7. CASE CloseApp \/ StopTimer \/ UNCHANGED vars
  BY <1>1, <1>7 DEF CloseApp, StopTimer, vars
<1>8. CASE ProcessEnds \/ ProcessDies
  <2>1. queue' = <<>> /\ batches' = {} /\ UNCHANGED <<logged, fallback>>
    BY <1>8 DEF ProcessEnds, ProcessDies, MemoryIsGone
  <2>2. Len(<<>>) = 0
    OBVIOUS
  <2>3. QED BY <2>1, <2>2 DEF RetriesFirst
<1>9. QED
  BY <1>2, <1>3, <1>4, <1>5, <1>6, <1>7, <1>8 DEF Next

(* However long an INSERT is awaited, at most maxQueueSize entries in       *)
(* memory wait for a retry, and they are the oldest.                        *)
THEOREM RetriesAreBounded == Spec => []RetryBacklogBounded
<1>1. Init => RetriesFirst
  BY EmptySeq, LenProperties, RangeOfEmpty DEF Init, RetriesFirst
<1>2. IInv /\ RetriesFirst => RetryBacklogBounded
  <2> SUFFICES ASSUME IInv, RetriesFirst, NEW i \in 1..Len(Buffered),
                      Buffered[i] \in fallback
               PROVE  i <= MaxQueueSize
    BY DEF RetryBacklogBounded
  <2>1. CASE batches = {}
    BY <2>1 DEF Buffered, RetriesFirst
  <2>2. CASE batches # {}
    <3>1. PICK b \in batches : TRUE
      BY <2>2
    <3>2. /\ batches = {b} /\ b \in Seq(Entries) /\ queue \in Seq(Entries)
          /\ Len(b) \in Nat /\ Len(queue) \in Nat
      BY OnlyBatch DEF IInv, TypeOK
    <3>3. Buffered = b \o queue
      BY <3>2 DEF Buffered
    <3>4. /\ Len(Buffered) = Len(b) + Len(queue)
          /\ \A j \in 1..Len(b) + Len(queue) :
                Buffered[j] = IF j <= Len(b) THEN b[j] ELSE queue[j - Len(b)]
      BY <3>2, <3>3, ConcatProperties
    <3>5. CASE i <= Len(b)
      BY <3>2, <3>4, <3>5 DEF RetriesFirst
    <3>6. CASE ~(i <= Len(b))
      <4>1. i - Len(b) \in 1..Len(queue) /\ Buffered[i] = queue[i - Len(b)]
        BY <3>2, <3>4, <3>6
      <4>2. Buffered[i] \in Range(queue)
        BY <3>2, <4>1, RangeEquality
      <4>3. QED BY <2>2, <4>2 DEF RetriesFirst
    <3>7. QED BY <3>5, <3>6
  <2>3. QED BY <2>1, <2>2
<1>3. QED BY <1>1, <1>2, NextRetries, Invariant, PTL DEF Spec

(* The variables keep their types. *)
THEOREM Types == Spec => []TypeOK
<1>1. IInv => TypeOK
  BY DEF IInv
<1>2. QED BY <1>1, Invariant, PTL

-----------------------------------------------------------------------------
(* The logger within the trail *)

(* Every step of the trail is one of the logger, or leaves the logger as it *)
(* is: what was proved of the logger holds of the trail, with replicas      *)
(* archiving its rows and a last cycle in its shutdown.                     *)
THEOREM TrailRunsTheLogger == TrailSpec => Spec
<1>1. TrailInit => Init
  BY DEF TrailInit
<1>2. ASSUME [TrailNext]_trailVars
      PROVE  [Next]_vars
  <2>1. CASE LoggerStep
    BY <2>1 DEF LoggerStep, Next
  <2>2. CASE (\E b \in batches : StoreRows(b) \/ RejectRows(b)) \/ DieWithRows
    BY <2>2 DEF StoreRows, RejectRows, DieWithRows, Next
  <2>3. CASE Tick \/ LastCycle \/ \E c \in Background : TimerCycle(c)
    BY <2>3 DEF Tick, LastCycle, TimerCycle
  <2>4. CASE \E c \in Background \cup {Final} : ArchiveStep(c)
    BY <2>4 DEF ArchiveStep
  <2>5. CASE StopAfterArchive
    BY <2>5 DEF StopAfterArchive, Next
  <2>6. CASE UNCHANGED trailVars
    BY <2>6 DEF trailVars
  <2>7. QED BY <1>2, <2>1, <2>2, <2>3, <2>4, <2>5, <2>6 DEF TrailNext
<1>3. QED BY <1>1, <1>2, PTL DEF TrailSpec, Spec

-----------------------------------------------------------------------------
(* The archive *)

USE ArchiveBatchAssumption, MaxRowsAssumption, MaxTimeAssumption, FinalAssumption

AllCycles == Background \cup {Final}

TableOK ==
    /\ table \in Seq([entry : Entries, insert : Nat])
    /\ Len(table) <= MaxRows

CyclesOK ==
    /\ archiveKey \in [1..MaxRows -> 0..MaxTime]
    /\ objects \in [1..MaxTime -> SUBSET (1..MaxRows)]
    /\ now \in 1..MaxTime
    /\ step \in [AllCycles -> {"idle", "upload", "mark"}]
    /\ batch \in [AllCycles -> SUBSET (1..MaxRows)]
    /\ key \in [AllCycles -> 0..MaxTime]
    /\ uploaded \subseteq 1..MaxRows
    /\ disturbed \in BOOLEAN
    /\ shared \in BOOLEAN
    /\ \A c \in AllCycles : step[c] = "idle" <=> batch[c] = {}
    /\ \A c \in AllCycles : step[c] # "idle" => key[c] \in 1..MaxTime

(* What is about to be marked has been uploaded. *)
UploadedFirst ==
    /\ \A r \in 1..MaxRows : archiveKey[r] # 0 => r \in uploaded
    /\ \A c \in AllCycles : step[c] = "mark" => batch[c] \subseteq uploaded

(* As long as no two cycles read the same millisecond, a running cycle has  *)
(* a key of its own, whose object is not there before its upload.           *)
OwnObjects ==
    ~shared =>
       /\ \A r \in 1..MaxRows : archiveKey[r] # 0 => r \in objects[archiveKey[r]]
       /\ \A c \in AllCycles :
             /\ step[c] = "upload" => objects[key[c]] = {}
             /\ step[c] = "mark" => batch[c] \subseteq objects[key[c]]
       /\ \A c, d \in AllCycles :
             step[c] # "idle" /\ step[d] # "idle" /\ c # d => key[c] # key[d]

ArchiveInv == CyclesOK /\ UploadedFirst /\ OwnObjects

(* A new cycle selects at least one row of the table, under the current     *)
(* millisecond.                                                             *)
LEMMA SelectInv ==
    ASSUME TableOK, ArchiveInv, NEW c \in AllCycles, Archive!Select(c)
    PROVE  ArchiveInv'
<1>1. PICK S \in Archive!OldestUnarchived : batch' = [batch EXCEPT ![c] = S]
  BY DEF Archive!Select
<1>2. DOMAIN table = 1..Len(table) /\ Len(table) \in Nat
  BY LenProperties DEF TableOK
<1>3. S \subseteq 1..MaxRows
  <2>1. Archive!Unarchived \subseteq DOMAIN table
    BY DEF Archive!Unarchived
  <2>2. QED BY <1>1, <1>2, <2>1 DEF Archive!OldestUnarchived, TableOK
<1>4. S # {}
  <2>1. SUFFICES ASSUME S = {} PROVE FALSE
    OBVIOUS
  <2>2. Archive!Unarchived # {}
    BY DEF Archive!Select
  <2>3. Cardinality(S) = ArchiveBatch
    <3>1. S # Archive!Unarchived
      BY <2>1, <2>2
    <3>2. S # Archive!Unarchived => Archive!Cardinality(S) = ArchiveBatch
      BY <1>1 DEF Archive!OldestUnarchived
    <3>3. Archive!Cardinality(S) = Cardinality(S)
      BY DEF Cardinality, Archive!Cardinality
    <3>4. QED BY <3>1, <3>2, <3>3
  <2>4. QED BY <2>1, <2>3, FS_EmptySet
<1>5. /\ step[c] = "idle" /\ step' = [step EXCEPT ![c] = "upload"]
      /\ key' = [key EXCEPT ![c] = now]
      /\ shared' = (shared \/ Archive!KeyTaken)
      /\ disturbed' \in BOOLEAN
      /\ UNCHANGED <<archiveKey, objects, now, uploaded>>
  BY DEF Archive!Select
<1>6. CyclesOK'
  BY <1>1, <1>3, <1>4, <1>5 DEF ArchiveInv, CyclesOK
<1>7. UploadedFirst'
  BY <1>1, <1>5 DEF ArchiveInv, CyclesOK, UploadedFirst
<1>8. OwnObjects'
  <2>1. SUFFICES ASSUME ~shared' PROVE OwnObjects'
    BY DEF OwnObjects
  <2>2. /\ objects[now] = {}
        /\ \A d \in AllCycles : step[d] # "idle" => key[d] # now
    BY <1>5, <2>1 DEF Archive!KeyTaken, AllCycles
  <2>3. QED BY <1>1, <1>5, <2>1, <2>2 DEF ArchiveInv, CyclesOK, OwnObjects
<1>9. QED BY <1>6, <1>7, <1>8 DEF ArchiveInv

(* An upload fills the object of its cycle, which no other row is said to   *)
(* be in.                                                                   *)
LEMMA UploadInv ==
    ASSUME ArchiveInv, NEW c \in AllCycles, Archive!Upload(c)
    PROVE  ArchiveInv'
<1>1. /\ step[c] = "upload" /\ step' = [step EXCEPT ![c] = "mark"]
      /\ objects' = [objects EXCEPT ![key[c]] = batch[c]]
      /\ uploaded' = uploaded \cup batch[c]
      /\ UNCHANGED <<archiveKey, now, batch, key, disturbed, shared>>
  BY DEF Archive!Upload
<1>2. key[c] \in 1..MaxTime /\ batch[c] \subseteq 1..MaxRows
  BY <1>1 DEF ArchiveInv, CyclesOK
<1>3. CyclesOK'
  BY <1>1, <1>2 DEF ArchiveInv, CyclesOK
<1>4. UploadedFirst'
  BY <1>1, <1>2 DEF ArchiveInv, CyclesOK, UploadedFirst
<1>5. OwnObjects'
  BY <1>1, <1>2 DEF ArchiveInv, CyclesOK, OwnObjects
<1>6. QED BY <1>3, <1>4, <1>5 DEF ArchiveInv

(* The UPDATE marks what the cycle has uploaded. *)
LEMMA MarkInv ==
    ASSUME ArchiveInv, NEW c \in AllCycles, Archive!Mark(c)
    PROVE  ArchiveInv'
<1>1. /\ step[c] = "mark" /\ step' = [step EXCEPT ![c] = "idle"]
      /\ batch' = [batch EXCEPT ![c] = {}]
      /\ key' = [key EXCEPT ![c] = 0]
      /\ archiveKey' = [r \in 1..MaxRows |-> IF r \in batch[c] THEN key[c]
                                                               ELSE archiveKey[r]]
      /\ UNCHANGED <<objects, now, uploaded, disturbed, shared>>
  BY DEF Archive!Mark, Archive!EndCycle, Archive!NoKey, Archive!Rows
<1>2. key[c] \in 1..MaxTime /\ batch[c] \subseteq 1..MaxRows
  BY <1>1 DEF ArchiveInv, CyclesOK
<1>3. CyclesOK'
  BY <1>1, <1>2 DEF ArchiveInv, CyclesOK
<1>4. UploadedFirst'
  BY <1>1, <1>2 DEF ArchiveInv, CyclesOK, UploadedFirst
<1>5. OwnObjects'
  BY <1>1, <1>2 DEF ArchiveInv, CyclesOK, OwnObjects
<1>6. QED BY <1>3, <1>4, <1>5 DEF ArchiveInv

(* A cycle that dies leaves its object behind, and its rows unmarked. *)
LEMMA DieInv ==
    ASSUME ArchiveInv, NEW c \in AllCycles, Archive!Die(c)
    PROVE  ArchiveInv'
<1>1. /\ step' = [step EXCEPT ![c] = "idle"]
      /\ batch' = [batch EXCEPT ![c] = {}]
      /\ key' = [key EXCEPT ![c] = 0]
      /\ disturbed' = TRUE
      /\ UNCHANGED <<archiveKey, objects, now, uploaded, shared>>
  BY DEF Archive!Die, Archive!EndCycle, Archive!NoKey
<1>2. CyclesOK'
  BY <1>1 DEF ArchiveInv, CyclesOK
<1>3. UploadedFirst' /\ OwnObjects'
  BY <1>1 DEF ArchiveInv, CyclesOK, UploadedFirst, OwnObjects
<1>4. QED BY <1>2, <1>3 DEF ArchiveInv

(* The clock passes a millisecond only once a cycle has read it. *)
LEMMA TickInv ==
    ASSUME ArchiveInv, Archive!Tick
    PROVE  ArchiveInv'
<1>1. /\ now < MaxTime /\ now' = now + 1
      /\ UNCHANGED <<archiveKey, objects, step, batch, key, uploaded,
                     disturbed, shared>>
  BY DEF Archive!Tick
<1>2. CyclesOK'
  BY <1>1 DEF ArchiveInv, CyclesOK
<1>3. UploadedFirst' /\ OwnObjects'
  BY <1>1 DEF ArchiveInv, UploadedFirst, OwnObjects
<1>4. QED BY <1>2, <1>3 DEF ArchiveInv

(* A step that touches no variable of the archiver. *)
LEMMA ArchiveRests == ArchiveInv /\ UNCHANGED archiveVars => ArchiveInv'
BY DEF ArchiveInv, CyclesOK, UploadedFirst, OwnObjects, archiveVars

(* An INSERT appends its batch to the table, under one number. *)
LEMMA InsertedRows ==
    ASSUME TableOK, TypeOK, NEW b \in batches
    PROVE  \E n \in Nat :
              /\ n = IF table = <<>> THEN 1 ELSE table[Len(table)].insert + 1
              /\ Inserted(b) \in Seq([entry : Entries, insert : Nat])
              /\ Len(Inserted(b)) = Len(table) + Len(b)
              /\ \A r \in 1..Len(table) : Inserted(b)[r] = table[r]
              /\ \A i \in 1..Len(b) :
                    Inserted(b)[Len(table) + i] = [entry |-> b[i], insert |-> n]
<1> DEFINE n == IF table = <<>> THEN 1 ELSE table[Len(table)].insert + 1
           new == [i \in DOMAIN b |-> [entry |-> b[i], insert |-> n]]
<1>1. b \in Seq(Entries) /\ Len(b) \in Nat /\ DOMAIN b = 1..Len(b)
  BY LenProperties DEF TypeOK
<1>2. n \in Nat
  <2>1. CASE table # <<>>
    <3>1. Len(table) \in 1..Len(table)
      BY <2>1, EmptySeq, LenProperties DEF TableOK
    <3>2. table[Len(table)] \in [entry : Entries, insert : Nat]
      BY <3>1, ElementOfSeq DEF TableOK
    <3>3. QED BY <3>2
  <2>2. QED BY <2>1
<1> HIDE DEF n
<1>3. new \in [1..Len(b) -> [entry : Entries, insert : Nat]]
  <2>1. \A i \in 1..Len(b) : b[i] \in Entries
    BY <1>1, ElementOfSeq
  <2>2. QED BY <1>1, <1>2, <2>1
<1>4. new \in Seq([entry : Entries, insert : Nat]) /\ Len(new) = Len(b)
  BY <1>1, <1>3, SeqDef, LenProperties
<1>5. \A i \in 1..Len(b) : new[i] = [entry |-> b[i], insert |-> n]
  BY <1>1
<1>6. Inserted(b) = table \o new
  BY DEF Inserted, n
<1> HIDE DEF new
<1>7. table \in Seq([entry : Entries, insert : Nat]) /\ Len(table) \in Nat
  BY LenProperties DEF TableOK
<1>8. /\ Inserted(b) \in Seq([entry : Entries, insert : Nat])
      /\ Len(Inserted(b)) = Len(table) + Len(b)
      /\ \A i \in 1..Len(table) + Len(b) :
            Inserted(b)[i] = IF i <= Len(table) THEN table[i] ELSE new[i - Len(table)]
  <2>1. /\ table \o new \in Seq([entry : Entries, insert : Nat])
        /\ Len(table \o new) = Len(table) + Len(new)
        /\ \A i \in 1..Len(table) + Len(new) :
              (table \o new)[i] = IF i <= Len(table) THEN table[i] ELSE new[i - Len(table)]
    BY <1>4, <1>7, ConcatProperties
  <2>2. QED BY <1>4, <1>6, <2>1
<1>9. ASSUME NEW r \in 1..Len(table) PROVE Inserted(b)[r] = table[r]
  <2>1. r \in 1..Len(table) + Len(b) /\ r <= Len(table)
    BY <1>1, <1>7
  <2>2. QED BY <1>8, <2>1
<1>10. ASSUME NEW i \in 1..Len(b)
       PROVE  Inserted(b)[Len(table) + i] = [entry |-> b[i], insert |-> n]
  <2>1. /\ Len(table) + i \in 1..Len(table) + Len(b)
        /\ ~(Len(table) + i <= Len(table)) /\ (Len(table) + i) - Len(table) = i
    BY <1>1, <1>7
  <2>2. QED BY <1>5, <1>8, <2>1
<1>11. QED BY <1>2, <1>8, <1>9, <1>10 DEF n

LEMMA InsertedTableOK ==
    ASSUME TableOK, TypeOK, NEW b \in batches,
           table' = Inserted(b), Len(table') <= MaxRows
    PROVE  TableOK'
BY InsertedRows DEF TableOK

LEMMA TrailInitInv == TrailInit => TableOK /\ ArchiveInv
<1>1. SUFFICES ASSUME TrailInit PROVE TableOK /\ ArchiveInv
  OBVIOUS
<1>2. TableOK
  BY <1>1, EmptySeq DEF TrailInit, TableOK
<1>3. CyclesOK
  <2>1. /\ archiveKey = [r \in 1..MaxRows |-> 0]
        /\ objects = [k \in 1..MaxTime |-> {}]
        /\ now = 1
        /\ step = [c \in AllCycles |-> "idle"]
        /\ batch = [c \in AllCycles |-> {}]
        /\ key = [c \in AllCycles |-> 0]
        /\ uploaded = {} /\ disturbed = FALSE /\ shared = FALSE
    BY <1>1 DEF TrailInit, AllCycles, Archive!Init, Archive!Rows,
       Archive!Keys, Archive!NoKey
  <2>2. 0 \in 0..MaxTime /\ 1 \in 1..MaxTime /\ {} \in SUBSET (1..MaxRows)
    OBVIOUS
  <2>3. \A c \in AllCycles : step[c] = "idle" /\ batch[c] = {}
    BY <2>1
  <2>4. /\ step \in [AllCycles -> {"idle", "upload", "mark"}]
        /\ batch \in [AllCycles -> SUBSET (1..MaxRows)]
        /\ key \in [AllCycles -> 0..MaxTime]
    BY <2>1, <2>2
  <2>5. /\ archiveKey \in [1..MaxRows -> 0..MaxTime]
        /\ objects \in [1..MaxTime -> SUBSET (1..MaxRows)]
    BY <2>1, <2>2
  <2>6. QED BY <2>1, <2>2, <2>3, <2>4, <2>5 DEF CyclesOK
<1>4. UploadedFirst /\ OwnObjects
  BY <1>1 DEF TrailInit, UploadedFirst, OwnObjects, AllCycles, Archive!Init,
     Archive!Rows, Archive!Keys, Archive!NoKey
<1>5. QED BY <1>2, <1>3, <1>4 DEF ArchiveInv

(* The logger's INSERTs touch the table alone, the archive's steps all but  *)
(* the table.                                                               *)
LEMMA TrailNextInv ==
    TypeOK /\ TableOK /\ ArchiveInv /\ [TrailNext]_trailVars => TableOK' /\ ArchiveInv'
<1>1. SUFFICES ASSUME TypeOK, TableOK, ArchiveInv, [TrailNext]_trailVars
               PROVE  TableOK' /\ ArchiveInv'
  OBVIOUS
<1>2. CASE UNCHANGED <<table, archiveVars>>
  BY <1>1, <1>2, ArchiveRests DEF TableOK
<1>3. CASE \E b \in batches : StoreRows(b) \/ RejectRows(b)
  <2>1. PICK b \in batches : StoreRows(b) \/ RejectRows(b)
    BY <1>3
  <2>2. /\ table' \in {table, Inserted(b)} /\ Len(table') <= MaxRows
        /\ UNCHANGED archiveVars
    BY <2>1 DEF StoreRows, RejectRows
  <2>3. TableOK'
    <3>1. CASE table' = table
      BY <1>1, <3>1 DEF TableOK
    <3>2. CASE table' = Inserted(b)
      BY <1>1, <2>2, <3>2, InsertedTableOK
    <3>3. QED BY <2>2, <3>1, <3>2
  <2>4. QED BY <1>1, <2>2, <2>3, ArchiveRests
<1>4. CASE Tick
  BY <1>1, <1>4, TickInv DEF Tick, TableOK
<1>5. CASE \E c \in Background : TimerCycle(c)
  BY <1>1, <1>5, SelectInv DEF TimerCycle, TableOK, AllCycles
<1>6. CASE LastCycle
  <2>1. Archive!Select(Final) \/ UNCHANGED archiveVars
    BY <1>6 DEF LastCycle
  <2>2. Final \in AllCycles /\ TableOK'
    BY <1>1, <1>6 DEF LastCycle, TableOK, AllCycles
  <2>3. QED BY <1>1, <2>1, <2>2, SelectInv, ArchiveRests
<1>7. CASE DieWithRows
  <2>1. /\ table' \in {table} \cup {Inserted(b) : b \in batches}
        /\ Len(table') <= MaxRows /\ UNCHANGED archiveVars
    BY <1>7 DEF DieWithRows
  <2>2. TableOK'
    <3>1. CASE table' = table
      BY <1>1, <3>1 DEF TableOK
    <3>2. CASE \E b \in batches : table' = Inserted(b)
      BY <1>1, <2>1, <3>2, InsertedTableOK
    <3>3. QED BY <2>1, <3>1, <3>2
  <2>3. QED BY <1>1, <2>1, <2>2, ArchiveRests
<1>8. CASE \E c \in Background \cup {Final} : ArchiveStep(c)
  <2>1. PICK c \in AllCycles : ArchiveStep(c)
    BY <1>8 DEF AllCycles
  <2>2. TableOK'
    BY <1>1, <2>1 DEF ArchiveStep, TableOK
  <2>3. Archive!Upload(c) \/ Archive!Mark(c) \/ Archive!Die(c)
    BY <2>1 DEF ArchiveStep
  <2>4. QED BY <1>1, <2>2, <2>3, UploadInv, MarkInv, DieInv
<1>9. QED BY <1>1, <1>2, <1>3, <1>4, <1>5, <1>6, <1>7, <1>8
       DEF TrailNext, StopAfterArchive, trailVars

(* A row that carries an archive key was uploaded, and its object holds it  *)
(* unless two cycles shared a millisecond: whatever the logger inserts and  *)
(* retries meanwhile, and however the cycles overlap and die.               *)
THEOREM MarkedAreArchived == TrailSpec => []MarkedRowsAreArchived
<1>1. TrailInit => TableOK /\ ArchiveInv
  BY TrailInitInv
<1>2. TypeOK /\ TableOK /\ ArchiveInv /\ [TrailNext]_trailVars => TableOK' /\ ArchiveInv'
  BY TrailNextInv
<1>3. TableOK /\ ArchiveInv => MarkedRowsAreArchived
  BY DEF ArchiveInv, UploadedFirst, OwnObjects, MarkedRowsAreArchived,
     Archive!MarkedRowsAreArchived, Archive!ArchivedRowsWereUploaded,
     Archive!ArchivedRowIsInItsObject, Archive!Rows, Archive!NoKey
<1>4. QED BY <1>1, <1>2, <1>3, TrailRunsTheLogger, Types, PTL DEF TrailSpec

-----------------------------------------------------------------------------
(* Repetitions *)

(* The logger's count of an entry's rows agrees with the table: at least    *)
(* one where there is one, "2" where there are more.                        *)
RowsCounted ==
    /\ \A r \in 1..Len(table) : rows[table[r].entry] > 0
    /\ \A r, s \in 1..Len(table) :
          r # s /\ table[r].entry = table[s].entry => rows[table[r].entry] = 2

(* While no cycle died or overlapped another one, a row is in the object of *)
(* its key alone, or in that of the one cycle that is about to mark it.     *)
ObjectsDisjoint ==
    ~disturbed =>
       /\ \A c, d \in AllCycles : step[c] # "idle" /\ step[d] # "idle" => c = d
       /\ \A c \in AllCycles : \A r \in batch[c] : archiveKey[r] = 0
       /\ \A k \in 1..MaxTime : \A r \in objects[k] :
             \/ archiveKey[r] = k
             \/ \E c \in AllCycles : step[c] = "mark" /\ r \in batch[c] /\ key[c] = k

(* A committed INSERT gives each of its entries one row more.               *)
LEMMA StoreRowsCounted ==
    ASSUME IInv, TableOK, RowsCounted, NEW b \in batches, StoreRows(b)
    PROVE  RowsCounted'
<1>1. /\ b \in Seq(Entries) /\ Len(b) \in Nat /\ Len(queue) \in Nat
      /\ logged \in Nat
  BY OnlyBatch
<1>2. \A i \in 1..Len(b) : b[i] \in Entries /\ b[i] \in Range(b)
  <2>1. DOMAIN b = 1..Len(b)
    BY <1>1, LenProperties
  <2>2. QED BY <1>1, <2>1, ElementOfSeq DEF Range
<1>3. \A i, j \in 1..Len(b) : b[i] = b[j] => i = j
  BY <1>1 DEF IInv, Consecutive
<1>4. /\ table' = Inserted(b)
      /\ \A e \in Entries : rows'[e] = IF e \in Range(b) /\ rows[e] < 2 THEN rows[e] + 1
                                                                       ELSE rows[e]
  BY DEF StoreRows, InsertSucceeds, OneMoreRow
<1>5. rows \in [Entries -> 0..2]
  BY DEF IInv, TypeOK
<1>6. Len(table) \in Nat /\ \A r \in 1..Len(table) : table[r].entry \in Entries
  <2>1. \A r \in 1..Len(table) : table[r] \in [entry : Entries, insert : Nat]
    BY ElementOfSeq DEF TableOK
  <2>2. QED BY <2>1, LenProperties DEF TableOK
<1>7. /\ Len(table') = Len(table) + Len(b)
      /\ \A r \in 1..Len(table) : table'[r] = table[r]
      /\ \A i \in 1..Len(b) : table'[Len(table) + i].entry = b[i]
  <2>1. TypeOK
    BY DEF IInv
  <2>2. PICK n \in Nat :
           /\ Len(Inserted(b)) = Len(table) + Len(b)
           /\ \A r \in 1..Len(table) : Inserted(b)[r] = table[r]
           /\ \A i \in 1..Len(b) :
                 Inserted(b)[Len(table) + i] = [entry |-> b[i], insert |-> n]
    BY <2>1, InsertedRows
  <2>3. /\ Len(table') = Len(table) + Len(b)
        /\ \A r \in 1..Len(table) : table'[r] = table[r]
    BY <1>4, <2>2
  <2>4. ASSUME NEW i \in 1..Len(b) PROVE table'[Len(table) + i].entry = b[i]
    <3>1. table'[Len(table) + i] = [entry |-> b[i], insert |-> n]
      BY <1>4, <2>2
    <3>2. QED BY <3>1
  <2>5. QED BY <2>3, <2>4
<1>8. \A r \in 1..Len(table') :
         \/ r \in 1..Len(table) /\ table'[r].entry = table[r].entry
         \/ r - Len(table) \in 1..Len(b) /\ table'[r].entry = b[r - Len(table)]
  <2>1. SUFFICES ASSUME NEW r \in 1..Len(table'), ~(r <= Len(table))
                 PROVE  /\ r - Len(table) \in 1..Len(b)
                        /\ table'[r].entry = b[r - Len(table)]
    BY <1>6, <1>7
  <2>2. r - Len(table) \in 1..Len(b) /\ Len(table) + (r - Len(table)) = r
    BY <1>1, <1>6, <1>7, <2>1
  <2>3. QED BY <1>7, <2>2
<1>9. ASSUME NEW r \in 1..Len(table')
      PROVE  rows'[table'[r].entry] > 0
  <2>1. CASE r \in 1..Len(table) /\ table'[r].entry = table[r].entry
    BY <1>4, <1>5, <1>6, <2>1 DEF RowsCounted
  <2>2. CASE r - Len(table) \in 1..Len(b) /\ table'[r].entry = b[r - Len(table)]
    BY <1>2, <1>4, <1>5, <2>2
  <2>3. QED BY <1>8, <2>1, <2>2
<1>10. ASSUME NEW r \in 1..Len(table'), NEW s \in 1..Len(table'), r # s,
              table'[r].entry = table'[s].entry
       PROVE  rows'[table'[r].entry] = 2
  <2>1. ASSUME NEW q \in 1..Len(table), NEW i \in 1..Len(b), table[q].entry = b[i]
        PROVE  rows'[b[i]] = 2
    BY <1>2, <1>4, <1>5, <2>1 DEF RowsCounted
  <2>2. CASE r \in 1..Len(table) /\ s \in 1..Len(table)
    BY <1>4, <1>5, <1>6, <1>7, <1>10, <2>2 DEF RowsCounted
  <2>3. CASE r \notin 1..Len(table) /\ s \notin 1..Len(table)
    <3>1. r - Len(table) = s - Len(table)
      BY <1>3, <1>8, <1>10, <2>3
    <3>2. QED BY <1>6, <1>7, <1>10, <3>1
  <2>4. QED BY <1>8, <1>10, <2>1, <2>2, <2>3
<1>11. QED BY <1>9, <1>10 DEF RowsCounted

(* Where only the table tells what was committed, the count is what it says. *)
LEMMA TableCounted ==
    ASSUME TableOK', rows' = RowsOf(table')
    PROVE  RowsCounted'
<1> DEFINE Of(e) == {r \in DOMAIN table' : table'[r].entry = e}
<1>1. /\ Len(table') \in Nat /\ DOMAIN table' = 1..Len(table')
      /\ \A r \in 1..Len(table') : table'[r].entry \in Entries
  <2>1. \A r \in 1..Len(table') : table'[r] \in [entry : Entries, insert : Nat]
    BY ElementOfSeq DEF TableOK
  <2>2. QED BY <2>1, LenProperties DEF TableOK
<1>2. \A e \in Entries :
         rows'[e] = IF Cardinality(Of(e)) < 2 THEN Cardinality(Of(e)) ELSE 2
  BY DEF RowsOf, Copies
<1>3. \A e : IsFiniteSet(Of(e)) /\ Cardinality(Of(e)) \in Nat
  <2>1. IsFiniteSet(1..Len(table'))
    BY <1>1, FS_Interval
  <2>2. QED BY <1>1, <2>1, FS_Subset, FS_CardinalityType
<1>4. ASSUME NEW r \in 1..Len(table') PROVE rows'[table'[r].entry] > 0
  <2> DEFINE S == Of(table'[r].entry)
  <2>1. r \in S /\ rows'[table'[r].entry] = IF Cardinality(S) < 2 THEN Cardinality(S) ELSE 2
    BY <1>1, <1>2
  <2> HIDE DEF S
  <2>2. IsFiniteSet(S) /\ Cardinality(S) \in Nat
    BY <1>3 DEF S
  <2>3. Cardinality(S) # 0
    BY <2>1, <2>2, FS_EmptySet
  <2>4. QED BY <2>1, <2>2, <2>3
<1>5. ASSUME NEW r \in 1..Len(table'), NEW s \in 1..Len(table'), r # s,
             table'[r].entry = table'[s].entry
      PROVE  rows'[table'[r].entry] = 2
  <2> DEFINE S == Of(table'[r].entry)
  <2>1. /\ {r} \cup {s} \in SUBSET S
        /\ rows'[table'[r].entry] = IF Cardinality(S) < 2 THEN Cardinality(S) ELSE 2
    BY <1>1, <1>2, <1>5
  <2> HIDE DEF S
  <2>2. IsFiniteSet(S) /\ Cardinality(S) \in Nat
    BY <1>3 DEF S
  <2> DEFINE R == {r}
             P == R \cup {s}
  <2>3. Cardinality(P) = 2
    <3>1. IsFiniteSet(R) /\ Cardinality(R) = 1 /\ s \notin R
      BY <1>5, FS_Singleton
    <3>2. Cardinality(P) = Cardinality(R) + 1
      BY <3>1, FS_AddElement
    <3> HIDE DEF P, R
    <3>3. QED BY <3>1, <3>2
  <2>4. 2 <= Cardinality(S)
    <3>1. P \in SUBSET S
      BY <2>1
    <3> HIDE DEF P
    <3>2. Cardinality(P) <= Cardinality(S)
      BY <2>2, <3>1, FS_Subset
    <3>3. QED BY <2>3, <3>2
  <2>5. QED BY <2>1, <2>2, <2>4
<1>6. QED BY <1>4, <1>5 DEF RowsCounted

(* A new cycle takes rows that are in no object, unless another one runs.   *)
LEMMA SelectDisjoint ==
    ASSUME ArchiveInv, ObjectsDisjoint, NEW c \in AllCycles, Archive!Select(c)
    PROVE  ObjectsDisjoint'
<1>1. PICK S \in Archive!OldestUnarchived : batch' = [batch EXCEPT ![c] = S]
  BY DEF Archive!Select
<1>2. \A r \in S : archiveKey[r] = 0
  BY <1>1 DEF Archive!OldestUnarchived, Archive!Unarchived, Archive!NoKey
<1>3. /\ step[c] = "idle" /\ step' = [step EXCEPT ![c] = "upload"]
      /\ key' = [key EXCEPT ![c] = now]
      /\ disturbed' = (disturbed \/ \E d \in AllCycles : step[d] # "idle")
      /\ UNCHANGED <<archiveKey, objects>>
  BY DEF Archive!Select, AllCycles
<1>4. SUFFICES ASSUME ~disturbed' PROVE ObjectsDisjoint'
  BY DEF ObjectsDisjoint
<1>5. ~disturbed /\ \A d \in AllCycles : step[d] = "idle" /\ batch[d] = {}
  BY <1>3, <1>4 DEF ArchiveInv, CyclesOK
<1>6. \A d \in AllCycles : step'[d] # "idle" => d = c
  BY <1>3, <1>5 DEF ArchiveInv, CyclesOK
<1>7. \A d \in AllCycles : \A r \in batch'[d] : archiveKey'[r] = 0
  BY <1>1, <1>2, <1>3, <1>5 DEF ArchiveInv, CyclesOK
<1>8. \A k \in 1..MaxTime : \A r \in objects'[k] : archiveKey'[r] = k
  BY <1>3, <1>5 DEF ObjectsDisjoint
<1>9. QED BY <1>6, <1>7, <1>8 DEF ObjectsDisjoint

(* Its upload puts them in the object of its key. *)
LEMMA UploadDisjoint ==
    ASSUME ArchiveInv, ObjectsDisjoint, NEW c \in AllCycles, Archive!Upload(c)
    PROVE  ObjectsDisjoint'
<1>1. /\ step[c] = "upload" /\ step' = [step EXCEPT ![c] = "mark"]
      /\ objects' = [objects EXCEPT ![key[c]] = batch[c]]
      /\ UNCHANGED <<archiveKey, batch, key, disturbed>>
  BY DEF Archive!Upload
<1>2. SUFFICES ASSUME ~disturbed PROVE ObjectsDisjoint'
  BY <1>1 DEF ObjectsDisjoint
<1>3. \A d \in AllCycles : step[d] # "idle" => d = c
  BY <1>1, <1>2 DEF ObjectsDisjoint
<1>4. \A d \in AllCycles : step'[d] # "idle" => d = c
  BY <1>1, <1>3 DEF ArchiveInv, CyclesOK
<1>5. ASSUME NEW k \in 1..MaxTime, NEW r \in objects'[k]
      PROVE  archiveKey[r] = k \/ (step'[c] = "mark" /\ r \in batch[c] /\ key[c] = k)
  <2>1. step'[c] = "mark" /\ key[c] \in 1..MaxTime
    BY <1>1 DEF ArchiveInv, CyclesOK
  <2>2. CASE k = key[c]
    BY <1>1, <1>5, <2>1, <2>2 DEF ArchiveInv, CyclesOK
  <2>3. CASE k # key[c]
    <3>1. r \in objects[k]
      BY <1>1, <1>5, <2>3 DEF ArchiveInv, CyclesOK
    <3>2. QED BY <1>1, <1>2, <1>3, <3>1 DEF ObjectsDisjoint
  <2>4. QED BY <2>2, <2>3
<1>6. QED BY <1>1, <1>2, <1>4, <1>5 DEF ObjectsDisjoint

(* Its UPDATE gives them that key, and leaves other rows alone. *)
LEMMA MarkDisjoint ==
    ASSUME ArchiveInv, ObjectsDisjoint, NEW c \in AllCycles, Archive!Mark(c)
    PROVE  ObjectsDisjoint'
<1>1. /\ step[c] = "mark" /\ step' = [step EXCEPT ![c] = "idle"]
      /\ batch' = [batch EXCEPT ![c] = {}]
      /\ archiveKey' = [r \in 1..MaxRows |-> IF r \in batch[c] THEN key[c]
                                                               ELSE archiveKey[r]]
      /\ UNCHANGED <<objects, disturbed>>
  BY DEF Archive!Mark, Archive!EndCycle, Archive!Rows
<1>2. SUFFICES ASSUME ~disturbed PROVE ObjectsDisjoint'
  BY <1>1 DEF ObjectsDisjoint
<1>3. \A d \in AllCycles : step[d] # "idle" => d = c
  BY <1>1, <1>2 DEF ObjectsDisjoint
<1>4. \A d \in AllCycles : step'[d] = "idle" /\ batch'[d] = {}
  BY <1>1, <1>3 DEF ArchiveInv, CyclesOK
<1>5. ASSUME NEW k \in 1..MaxTime, NEW r \in objects[k]
      PROVE  archiveKey'[r] = k
  <2>1. r \in 1..MaxRows
    BY <1>5 DEF ArchiveInv, CyclesOK
  <2>2. archiveKey'[r] = IF r \in batch[c] THEN key[c] ELSE archiveKey[r]
    BY <1>1, <2>1
  <2>3. archiveKey[r] = k \/ (r \in batch[c] /\ key[c] = k)
    BY <1>2, <1>3, <1>5 DEF ObjectsDisjoint
  <2>4. r \in batch[c] => archiveKey[r] = 0
    BY <1>2 DEF ObjectsDisjoint
  <2>5. QED BY <2>2, <2>3, <2>4
<1>6. QED BY <1>1, <1>4, <1>5 DEF ObjectsDisjoint

(* What the trail's steps do to the counts and the objects. *)
LEMMA TrailNextCounted ==
    IInv /\ TableOK /\ ArchiveInv /\ RowsCounted /\ ObjectsDisjoint
       /\ [TrailNext]_trailVars
    => RowsCounted' /\ ObjectsDisjoint'
<1>1. SUFFICES ASSUME IInv, TableOK, ArchiveInv, RowsCounted, ObjectsDisjoint,
                      [TrailNext]_trailVars
               PROVE  RowsCounted' /\ ObjectsDisjoint'
  OBVIOUS
<1>2. TableOK'
  BY <1>1, TrailNextInv DEF IInv
<1>3. UNCHANGED archiveVars => ObjectsDisjoint'
  BY <1>1 DEF ObjectsDisjoint, archiveVars
<1>4. UNCHANGED <<table, rows>> => RowsCounted'
  BY <1>1 DEF RowsCounted
<1>5. CASE LoggerStep /\ UNCHANGED <<table, archiveVars, lastCycle>>
  <2>1. UNCHANGED <<table, rows, archiveVars>>
    BY <1>5 DEF LoggerStep, Log, TimerFires, CloseApp, ShutdownFlush, ProcessEnds
  <2>2. QED BY <1>3, <1>4, <2>1
<1>6. CASE \E b \in batches : StoreRows(b) \/ RejectRows(b)
  <2>1. PICK b \in batches : StoreRows(b) \/ RejectRows(b)
    BY <1>6
  <2>2. UNCHANGED archiveVars
    BY <2>1 DEF StoreRows, RejectRows
  <2>3. RowsCounted'
    BY <1>1, <1>2, <2>1, StoreRowsCounted, TableCounted DEF RejectRows
  <2>4. QED BY <1>3, <2>2, <2>3
<1>7. CASE Tick
  <2>1. /\ UNCHANGED <<table, rows>>
        /\ UNCHANGED <<archiveKey, objects, step, batch, key, disturbed>>
    BY <1>7 DEF Tick, vars, Archive!Tick
  <2>2. QED BY <1>1, <1>4, <2>1 DEF ObjectsDisjoint
<1>8. CASE \E c \in Background : TimerCycle(c)
  <2>1. PICK c \in AllCycles : Archive!Select(c)
    BY <1>8 DEF TimerCycle, AllCycles
  <2>2. UNCHANGED <<table, rows>>
    BY <1>8 DEF TimerCycle, vars
  <2>3. QED BY <1>1, <1>4, <2>1, <2>2, SelectDisjoint
<1>9. CASE LastCycle
  <2>1. Final \in AllCycles /\ UNCHANGED <<table, rows>>
    BY <1>9 DEF LastCycle, vars, AllCycles
  <2>2. Archive!Select(Final) \/ UNCHANGED archiveVars
    BY <1>9 DEF LastCycle
  <2>3. QED BY <1>1, <1>3, <1>4, <2>1, <2>2, SelectDisjoint
<1>10. CASE \E c \in Background \cup {Final} : ArchiveStep(c)
  <2>1. PICK c \in AllCycles : ArchiveStep(c)
    BY <1>10 DEF AllCycles
  <2>2. UNCHANGED <<table, rows>>
    BY <2>1 DEF ArchiveStep, vars
  <2>3. Archive!Upload(c) \/ Archive!Mark(c) \/ Archive!Die(c)
    BY <2>1 DEF ArchiveStep
  <2>4. Archive!Die(c) => ObjectsDisjoint'
    BY DEF Archive!Die, ObjectsDisjoint
  <2>5. QED BY <1>1, <1>4, <2>2, <2>3, <2>4, UploadDisjoint, MarkDisjoint
<1>11. CASE StopAfterArchive \/ UNCHANGED trailVars
  <2>1. UNCHANGED <<table, rows, archiveVars>>
    BY <1>11 DEF StopAfterArchive, StopTimer, trailVars, vars
  <2>2. QED BY <1>3, <1>4, <2>1
<1>12. CASE DieWithRows
  BY <1>2, <1>3, <1>12, TableCounted DEF DieWithRows
<1>13. QED BY <1>1, <1>5, <1>6, <1>7, <1>8, <1>9, <1>10, <1>11, <1>12 DEF TrailNext

(* The archive holds an entry twice only if an INSERT that committed was    *)
(* reported as failed, a cycle died, or two of them overlapped.             *)
THEOREM RepetitionsAreInDoubt == TrailSpec => []RepeatedOnlyIfInDoubt
<1>1. TrailInit => RowsCounted /\ ObjectsDisjoint
  <2>1. TrailInit => RowsCounted
    BY DEF TrailInit, RowsCounted
  <2>2. TrailInit => ObjectsDisjoint
    BY DEF TrailInit, ObjectsDisjoint, AllCycles, Archive!Init, Archive!Keys
  <2>3. QED BY <2>1, <2>2
<1>2. ASSUME IInv, TableOK, ArchiveInv, RowsCounted, ObjectsDisjoint
      PROVE  RepeatedOnlyIfInDoubt
  <2>1. SUFFICES ASSUME NEW e \in Entries, e \notin unsure, ~disturbed
                 PROVE  ~(CopiesInObjects(e) > 1)
    BY DEF RepeatedOnlyIfInDoubt
  <2> DEFINE X == {x \in (1..MaxTime) \X DOMAIN table :
                     x[2] \in objects[x[1]] /\ table[x[2]].entry = e}
  <2>2. DOMAIN table = 1..Len(table)
    BY <1>2, LenProperties DEF TableOK
  <2>3. ASSUME NEW x \in X, NEW y \in X PROVE x = y
    <3>1. x[2] = y[2]
      BY <1>2, <2>1, <2>2, <2>3 DEF RowsCounted, IInv, RepeatedOnlyIfUnsure
    <3>2. /\ x[1] \in 1..MaxTime /\ x[2] \in objects[x[1]]
          /\ y[1] \in 1..MaxTime /\ x[2] \in objects[y[1]]
      BY <2>3, <3>1
    <3>3. x[1] = y[1]
      BY <1>2, <2>1, <3>2 DEF ObjectsDisjoint
    <3>4. QED BY <2>3, <3>1, <3>3
  <2>4. CopiesInObjects(e) = Cardinality(X)
    BY DEF CopiesInObjects
  <2> HIDE DEF X
  <2>5. ASSUME X # {} PROVE \E x : X = {x}
    <3>1. PICK x : x \in X
      BY <2>5
    <3>2. X = {x}
      BY <2>3, <3>1
    <3>3. QED BY <3>2
  <2>6. Cardinality(X) \in {0, 1}
    BY <2>5, FS_EmptySet, FS_Singleton
  <2>7. QED BY <2>4, <2>6
<1>3. TypeOK /\ TableOK /\ ArchiveInv /\ [TrailNext]_trailVars => TableOK' /\ ArchiveInv'
  BY TrailNextInv
<1>4. IInv => TypeOK
  BY DEF IInv
<1>5. TrailSpec => []IInv
  BY TrailRunsTheLogger, Invariant, PTL
<1>6. QED BY <1>1, <1>2, <1>3, <1>4, <1>5, TrailInitInv, TrailNextCounted, PTL
       DEF TrailSpec

-----------------------------------------------------------------------------
(* The archiver *)

(* The numbers of the INSERTs stay within the times InsertRows has. *)
Numbered == \A r \in 1..Len(table) : table[r].insert \in 1..r

Times(t) == [r \in DOMAIN t |-> t[r].insert]

(* The created_at column is a sequence as long as the table. *)
LEMMA CreatedAt ==
    ASSUME NEW t \in Seq([entry : Entries, insert : Nat])
    PROVE  /\ Times(t) \in Seq(Nat) /\ Len(Times(t)) = Len(t) /\ Len(t) \in Nat
           /\ \A r \in 1..Len(t) : Times(t)[r] = t[r].insert
<1>1. DOMAIN t = 1..Len(t) /\ Len(t) \in Nat
  BY LenProperties
<1>2. Times(t) \in [1..Len(t) -> Nat]
  <2>1. \A r \in 1..Len(t) : t[r] \in [entry : Entries, insert : Nat]
    BY ElementOfSeq
  <2>2. QED BY <1>1, <2>1 DEF Times
<1>3. Times(t) \in Seq(Nat) /\ Len(Times(t)) = Len(t)
  BY <1>1, <1>2, SeqDef, LenProperties
<1>4. QED BY <1>1, <1>3 DEF Times

(* An INSERT of the logger is one of the archiver's InsertRows. *)
LEMMA InsertIsInsertRows ==
    ASSUME IInv, TableOK, TableOK', Numbered, NEW b \in batches,
           table' = Inserted(b), UNCHANGED archiveVars
    PROVE  Numbered' /\ Archive!InsertRows
<1>1. TypeOK /\ b \in Seq(Entries) /\ b # <<>> /\ Len(b) \in Nat \ {0}
  BY OnlyBatch, EmptySeq, LenProperties DEF IInv
<1>2. PICK n \in Nat :
         /\ n = IF table = <<>> THEN 1 ELSE table[Len(table)].insert + 1
         /\ Len(table') = Len(table) + Len(b)
         /\ \A r \in 1..Len(table) : table'[r] = table[r]
         /\ \A i \in 1..Len(b) :
               table'[Len(table) + i] = [entry |-> b[i], insert |-> n]
  BY <1>1, InsertedRows
<1>3. /\ Len(table) \in Nat /\ Len(table') \in Nat /\ Len(table') <= MaxRows
      /\ Times(table) \in Seq(Nat) /\ Len(Times(table)) = Len(table)
      /\ Times(table') \in Seq(Nat) /\ Len(Times(table')) = Len(table')
      /\ \A r \in 1..Len(table) : Times(table)[r] = table[r].insert
      /\ \A r \in 1..Len(table') : Times(table')[r] = table'[r].insert
  BY CreatedAt DEF TableOK
<1>4. n \in 1..Len(table) + 1
  <2>1. table # <<>> => Len(table) \in 1..Len(table)
    BY <1>3, EmptySeq DEF TableOK
  <2>2. QED BY <1>2, <1>3, <2>1 DEF Numbered
<1>5. \A r \in 1..Len(table') :
         table'[r].insert = IF r <= Len(table) THEN table[r].insert ELSE n
  <2>1. ASSUME NEW r \in 1..Len(table'), ~(r <= Len(table))
        PROVE  table'[r].insert = n
    <3>1. r - Len(table) \in 1..Len(b) /\ Len(table) + (r - Len(table)) = r
      BY <1>1, <1>2, <1>3, <2>1
    <3>2. table'[r] = [entry |-> b[r - Len(table)], insert |-> n]
      BY <1>2, <3>1
    <3>3. QED BY <3>2
  <2>2. QED BY <1>2, <1>3, <2>1
<1>6. Numbered'
  <2>1. ASSUME NEW r \in 1..Len(table') PROVE table'[r].insert \in 1..r
    <3>1. CASE r <= Len(table)
      <4>1. r \in 1..Len(table)
        BY <1>3, <3>1
      <4>2. table[r].insert \in 1..r
        BY <4>1 DEF Numbered
      <4>3. table'[r].insert = table[r].insert
        BY <1>5, <3>1
      <4>4. QED BY <4>2, <4>3
    <3>2. CASE ~(r <= Len(table))
      BY <1>3, <1>4, <1>5, <3>2
    <3>3. QED BY <3>1, <3>2
  <2>2. QED BY <2>1 DEF Numbered
<1> DEFINE old == Times(table)
           new == [i \in 1..Len(b) |-> n]
<1>7. new \in Seq(Nat) /\ Len(new) = Len(b) /\ \A i \in 1..Len(b) : new[i] = n
  <2>1. new \in [1..Len(b) -> Nat]
    BY <1>4
  <2>2. QED BY <1>1, <2>1, SeqDef, LenProperties
<1> HIDE DEF new
<1>8. /\ old \o new \in Seq(Nat)
      /\ Len(old \o new) = Len(table) + Len(b)
      /\ \A i \in 1..Len(table) + Len(b) :
            (old \o new)[i] = IF i <= Len(table) THEN old[i] ELSE new[i - Len(table)]
  <2>1. old \in Seq(Nat) /\ Len(old) = Len(table)
    BY <1>3
  <2> HIDE DEF old
  <2>2. /\ old \o new \in Seq(Nat)
        /\ Len(old \o new) = Len(old) + Len(new)
        /\ \A i \in 1..Len(old) + Len(new) :
              (old \o new)[i] = IF i <= Len(old) THEN old[i] ELSE new[i - Len(old)]
    BY <1>7, <2>1, ConcatProperties
  <2>3. QED BY <1>7, <2>1, <2>2
<1>9. Times(table') = Times(table) \o new
  <2>1. ASSUME NEW i \in 1..Len(Times(table'))
        PROVE  Times(table')[i] = (Times(table) \o new)[i]
    <3>1. /\ i \in 1..Len(table') /\ i \in 1..Len(table) + Len(b)
          /\ ~(i <= Len(table)) => i - Len(table) \in 1..Len(b)
      BY <1>1, <1>2, <1>3
    <3>2. Times(table')[i] = IF i <= Len(table) THEN table[i].insert ELSE n
      BY <1>3, <1>5, <3>1
    <3>3. (Times(table) \o new)[i] = IF i <= Len(table) THEN Times(table)[i] ELSE n
      BY <1>7, <1>8, <3>1
    <3>4. i <= Len(table) => Times(table)[i] = table[i].insert
      BY <1>3, <3>1
    <3>5. QED BY <3>2, <3>3, <3>4
  <2>2. Len(Times(table')) = Len(Times(table) \o new)
    BY <1>2, <1>3, <1>8
  <2>3. QED BY <1>3, <1>8, <2>1, <2>2, SeqEqual
<1>10. /\ Len(b) \in 1..MaxRows - Len(Times(table))
       /\ n \in 1..MaxRows
  BY <1>1, <1>2, <1>3, <1>4
<1>11. Archive!InsertRows
  BY <1>9, <1>10 DEF Archive!InsertRows, Times, new, archiveVars
<1>12. QED BY <1>6, <1>11

(* Seen from the archive alone, the trail is the archiver on a table that   *)
(* somebody inserts into.                                                   *)
THEOREM TrailRunsTheArchiver == TrailSpec => Archive!Spec
<1>1. TrailInit => Archive!Init /\ Numbered
  BY DEF TrailInit, Numbered
<1>2. ASSUME IInv, TableOK, ArchiveInv, Numbered, [TrailNext]_trailVars
      PROVE  Numbered' /\ [Archive!Next]_(Archive!vars)
  <2>1. TableOK'
    BY <1>2, TrailNextInv DEF IInv
  <2>2. UNCHANGED table => Numbered'
    BY <1>2 DEF Numbered
  <2>3. UNCHANGED <<table, archiveVars>> => UNCHANGED Archive!vars
    BY DEF archiveVars, Archive!vars
  <2>4. CASE UNCHANGED <<table, archiveVars>>
    BY <2>2, <2>3, <2>4
  <2>5. CASE \E b \in batches : StoreRows(b) \/ RejectRows(b)
    <3>1. PICK b \in batches : StoreRows(b) \/ RejectRows(b)
      BY <2>5
    <3>2. table' \in {table, Inserted(b)} /\ UNCHANGED archiveVars
      BY <3>1 DEF StoreRows, RejectRows
    <3>3. CASE table' = table
      BY <2>2, <2>3, <3>2, <3>3
    <3>4. CASE table' = Inserted(b)
      BY <1>2, <2>1, <3>2, <3>4, InsertIsInsertRows DEF Archive!Next
    <3>5. QED BY <3>2, <3>3, <3>4
  <2>6. CASE Tick
    BY <2>2, <2>6 DEF Tick, Archive!Next
  <2>7. CASE \E c \in Background : TimerCycle(c)
    BY <2>2, <2>7 DEF TimerCycle, Archive!Next
  <2>8. CASE LastCycle
    <3>1. UNCHANGED table /\ (Archive!Select(Final) \/ UNCHANGED archiveVars)
      BY <2>8 DEF LastCycle
    <3>2. QED BY <2>2, <2>3, <3>1 DEF Archive!Next
  <2>9. CASE \E c \in Background \cup {Final} : ArchiveStep(c)
    <3>1. PICK c \in Background \cup {Final} : ArchiveStep(c)
      BY <2>9
    <3>2. UNCHANGED table /\ (Archive!Upload(c) \/ Archive!Mark(c) \/ Archive!Die(c))
      BY <3>1 DEF ArchiveStep
    <3>3. QED BY <2>2, <3>2 DEF Archive!Next
  <2>10. CASE DieWithRows
    <3>1. table' \in {table} \cup {Inserted(b) : b \in batches} /\ UNCHANGED archiveVars
      BY <2>10 DEF DieWithRows
    <3>2. CASE table' = table
      BY <2>2, <2>3, <3>1, <3>2
    <3>3. CASE \E b \in batches : table' = Inserted(b)
      BY <1>2, <2>1, <3>1, <3>3, InsertIsInsertRows DEF Archive!Next
    <3>4. QED BY <3>1, <3>2, <3>3
  <2>11. QED BY <1>2, <2>4, <2>5, <2>6, <2>7, <2>8, <2>9, <2>10
          DEF TrailNext, StopAfterArchive, trailVars
<1>3. TypeOK /\ TableOK /\ ArchiveInv /\ [TrailNext]_trailVars => TableOK' /\ ArchiveInv'
  BY TrailNextInv
<1>4. IInv => TypeOK
  BY DEF IInv
<1>5. TrailSpec => []IInv
  BY TrailRunsTheLogger, Invariant, PTL
<1>6. QED BY <1>1, <1>2, <1>3, <1>4, <1>5, TrailInitInv, PTL DEF TrailSpec, Archive!Spec

LastCycleOK == lastCycle \in {"none", "running", "over"}

(* Every variable of the trail keeps its type. *)
THEOREM TrailTypes == TrailSpec => []TrailTypeOK
<1>1. TrailInit => TableOK /\ ArchiveInv /\ LastCycleOK
  BY TrailInitInv DEF TrailInit, LastCycleOK
<1>2. TypeOK /\ TableOK /\ ArchiveInv /\ [TrailNext]_trailVars => TableOK' /\ ArchiveInv'
  BY TrailNextInv
<1>3. LastCycleOK /\ [TrailNext]_trailVars => LastCycleOK'
  BY DEF LastCycleOK, TrailNext, trailVars, LoggerStep, StoreRows, RejectRows, DieWithRows,
     Tick, TimerCycle, LastCycle, ArchiveStep, StopAfterArchive
<1>4. TableOK => /\ Times(table) \in Seq(Nat)
                 /\ Len(Times(table)) <= MaxRows
  BY CreatedAt DEF TableOK
<1>5. TableOK /\ CyclesOK => Archive!TypeOK
  BY <1>4 DEF TableOK, CyclesOK, AllCycles, Times, Archive!TypeOK, Archive!Rows,
     Archive!Keys, Archive!NoKey
<1>6. TypeOK /\ TableOK /\ ArchiveInv /\ LastCycleOK
        => TrailTypeOK
  <2>1. TableOK => table \in Seq([entry : Entries, insert : Nat])
    BY DEF TableOK
  <2>2. TableOK /\ ArchiveInv => Archive!TypeOK
    BY <1>5 DEF ArchiveInv
  <2>3. QED BY <2>1, <2>2 DEF TrailTypeOK, LastCycleOK
<1>7. QED BY <1>1, <1>2, <1>3, <1>6, TrailRunsTheLogger, Types, PTL DEF TrailSpec

=============================================================================
