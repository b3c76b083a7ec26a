------------------------- MODULE DaemonReportsProofs -------------------------
(***************************************************************************)
(* Proofs about DaemonReports, for every set of handlers, jobs and reports *)
(* and any time: the head row and the job results follow the newest        *)
(* report, a report has one receipt, and the transactions implement the    *)
(* ledger.                                                                 *)
(***************************************************************************)
EXTENDS DaemonReports, TLAPS

(* A receipt is only given for a stored report.                            *)
ReceiptsAreStored == answered \subseteq table

(* No two stored reports share an id or a sequence.                        *)
RowsDiffer ==
  \A a, b \in table :
    a.report.id = b.report.id \/ a.report.sequence = b.report.sequence => a = b

(* What a handler found before it wrote still holds when it writes: this   *)
(* is what the lock on the head row is for.                                *)
WriterIsNewest ==
  \A h \in Handlers :
    step[h] = "write" => /\ Duplicates(sent[h]) = {}
                         /\ sent[h].sequence > sequence

IInv ==
  /\ TypeOK
  /\ HeadIsNewest
  /\ LatestResultWins
  /\ ReceiptsAreStored
  /\ RowsDiffer
  /\ WriterIsNewest

USE ReportsAssumption, MaxTimeAssumption, NoHandlerAssumption

(* Nothing is stored and no request is handled.                            *)
LEMMA InitIInv == Init => IInv
<1> SUFFICES ASSUME Init PROVE IInv OBVIOUS
<1> USE DEF Init
<1>1. TypeOK BY SMT DEF TypeOK, Outcomes, Times
<1>2. LatestResultWins BY SMT DEF LatestResultWins, Mentions
<1>3. QED
  BY <1>1, <1>2, SMT DEF IInv, HeadIsNewest, ReceiptsAreStored, RowsDiffer,
     WriterIsNewest

(* The stored sequence of every job is at most the head's, so a report     *)
(* newer than the head replaces the results of all jobs it mentions.       *)
LEMMA ResultsAreOld ==
    ASSUME IInv, NEW j \in Jobs
    PROVE  results[j].sequence \in Nat /\ results[j].sequence <= sequence
<1>1. results[j].sequence \in Nat /\ sequence \in Nat
  BY SMT DEF IInv, TypeOK
<1>2. CASE Mentions(j) = {}
  BY <1>1, <1>2, SMT DEF IInv, LatestResultWins
<1>3. CASE Mentions(j) # {}
  <2>1. PICK row \in Mentions(j) :
          results[j] = [sequence |-> row.report.sequence,
                        outcome |-> row.report.results[j]]
    BY <1>3, Zenon DEF IInv, LatestResultWins
  <2>2. row \in table BY <2>1 DEF Mentions
  <2>3. row.report.sequence <= sequence
    BY <2>2, SMT DEF IInv, HeadIsNewest, TypeOK, Rows
  <2>4. results[j].sequence = row.report.sequence BY <2>1
  <2>5. QED BY <1>1, <2>3, <2>4, SMT
<1>4. QED BY <1>2, <1>3

(* The steps that read or wait leave the tables alone.                     *)
LEMMA ReadingStep ==
    ASSUME IInv, TypeOK', UNCHANGED tables, ReceiptsAreStored',
           WriterIsNewest'
    PROVE  IInv'
<1>1. HeadIsNewest' BY DEF IInv, tables, HeadIsNewest
<1>2. LatestResultWins' BY DEF IInv, tables, LatestResultWins, Mentions
<1>3. RowsDiffer' BY DEF IInv, tables, RowsDiffer
<1>4. QED BY <1>1, <1>2, <1>3 DEF IInv

(* Every step keeps the types and one holder of the head row.              *)
LEMMA TypeStep ==
    ASSUME TypeOK, [Next]_vars
    PROVE  TypeOK'
<1> USE DEF TypeOK, tables
<1>1. ASSUME NEW h \in Handlers, NEW r \in Reports, Receive(h, r) PROVE TypeOK'
  BY <1>1, SMT DEF Receive
<1>2. ASSUME NEW h \in Handlers, Lock(h) PROVE TypeOK'
  BY <1>2, SMT DEF Lock
<1>3. ASSUME NEW h \in Handlers, Replay(h) PROVE TypeOK'
  <2>1. PICK row \in table : Reply(row) BY <1>3, Zenon DEF Replay, Duplicates
  <2>2. answered' \subseteq Rows BY <2>1, SMT DEF Reply
  <2>3. QED BY <1>3, <2>2, SMT DEF Replay, End
<1>4. ASSUME NEW h \in Handlers, Stamp(h) PROVE TypeOK'
  BY <1>4, SMT DEF Stamp
<1>5. ASSUME NEW h \in Handlers, Commit(h) PROVE TypeOK'
  <2>1. Row(h) \in Rows BY SMT DEF Row, Rows
  <2>2. sent[h] \in Reports /\ sent[h].sequence \in Nat BY SMT
  <2>3. Upsert(sent[h]) \in [Jobs -> [sequence : Nat, outcome : Outcomes]]
    BY <2>2, SMT DEF Upsert
  <2>4. results' \in [Jobs -> [sequence : Nat, outcome : Outcomes]]
    BY <1>5, <2>3, Zenon DEF Commit
  <2>5. table' \subseteq Rows /\ answered' \subseteq Rows
    BY <1>5, <2>1, SMT DEF Commit, Reply
  <2>6. sequence' \in Nat /\ shown' \subseteq Reports
    BY <1>5, <2>2, SMT DEF Commit
  <2>7. /\ UNCHANGED <<sent, stamp, now>>
        /\ step' = [step EXCEPT ![h] = "idle"] /\ holder' = "nobody"
        /\ step[h] = "write"
    BY <1>5 DEF Commit, End
  <2>8. QED BY <2>4, <2>5, <2>6, <2>7, SMT
<1>6. ASSUME NEW h \in Handlers, RollBack(h) PROVE TypeOK'
  BY <1>6, SMT DEF RollBack
<1>7. CASE Tick
  BY <1>7, SMT DEF Tick, Times
<1>8. CASE UNCHANGED vars
  BY <1>8, SMT DEF vars
<1>9. QED
  BY <1>1, <1>2, <1>3, <1>4, <1>5, <1>6, <1>7, <1>8 DEF Next

(* Commit: the new report is newer than all others, so its results are     *)
(* the latest of the jobs it mentions and it becomes the head.             *)
LEMMA CommitKeepsIInv ==
    ASSUME IInv, TypeOK', NEW h \in Handlers, Commit(h)
    PROVE  IInv'
<1> DEFINE r == sent[h]
<1>1. /\ step[h] = "write"
      /\ table' = table \cup {Row(h)}
      /\ sequence' = r.sequence
      /\ shown' = {r}
      /\ results' = Upsert(r)
      /\ step' = [step EXCEPT ![h] = "idle"]
      /\ UNCHANGED sent
  BY DEF Commit, End
<1>2. /\ r \in Reports /\ r.sequence \in Nat /\ sequence \in Nat
      /\ Duplicates(r) = {} /\ r.sequence > sequence
  BY <1>1, SMT DEF IInv, TypeOK, WriterIsNewest
<1>3. Row(h).report = r /\ Row(h) \in table'
  BY <1>1 DEF Row
<1>4. ASSUME NEW old \in table
      PROVE  /\ old.report.sequence \in Nat
             /\ old.report.sequence <= sequence
             /\ old.report.id # r.id
  BY <1>2, SMT DEF IInv, TypeOK, HeadIsNewest, Rows, Duplicates
<1>5. HeadIsNewest'
  <2>1. \A other \in table' : other.report.sequence <= r.sequence
    BY <1>1, <1>2, <1>3, <1>4, SMT
  <2>2. QED BY <1>1, <1>3, <2>1 DEF HeadIsNewest
<1>6. LatestResultWins'
  <2> SUFFICES ASSUME NEW j \in Jobs
               PROVE  (IF Mentions(j) = {} THEN results[j].sequence = 0
                       ELSE \E row \in Mentions(j) :
                              /\ results[j] = [sequence |-> row.report.sequence,
                                               outcome |-> row.report.results[j]]
                              /\ \A other \in Mentions(j) :
                                   other.report.sequence
                                     <= row.report.sequence)'
    BY DEF LatestResultWins
  <2>1. results[j].sequence \in Nat /\ results[j].sequence < r.sequence
    BY <1>2, ResultsAreOld, SMT
  <2>2. CASE r.results[j] # "none"
    <3>1. Row(h) \in Mentions(j)' BY <1>3, <2>2 DEF Mentions
    <3>2. results'[j] = [sequence |-> r.sequence, outcome |-> r.results[j]]
      BY <1>1, <2>1, <2>2 DEF Upsert
    <3>3. \A other \in Mentions(j)' : other.report.sequence <= r.sequence
      BY <1>1, <1>2, <1>3, <1>4, SMT DEF Mentions
    <3>4. QED BY <1>3, <3>1, <3>2, <3>3
  <2>3. CASE r.results[j] = "none"
    <3>1. Mentions(j)' = Mentions(j) BY <1>1, <1>3, <2>3, SMT DEF Mentions
    <3>2. results'[j] = results[j] BY <1>1, <2>3 DEF Upsert
    <3>3. QED BY <3>1, <3>2 DEF IInv, LatestResultWins
  <2>4. QED BY <2>2, <2>3
<1>7. ReceiptsAreStored'
  BY <1>1, <1>3, SMT DEF Commit, Reply, IInv, ReceiptsAreStored
<1>8. RowsDiffer'
  <2>1. \A old \in table : /\ old.report.id # r.id
                           /\ old.report.sequence # r.sequence
    BY <1>2, <1>4, SMT
  <2>2. QED BY <1>1, <1>3, <2>1, SMT DEF IInv, RowsDiffer
<1>9. WriterIsNewest'
  <2>1. \A g \in Handlers : step'[g] # "write"
    BY <1>1, SMT DEF IInv, TypeOK
  <2>2. QED BY <2>1 DEF WriterIsNewest
<1>10. QED BY <1>5, <1>6, <1>7, <1>8, <1>9 DEF IInv

(* Every step of every handler keeps the invariant.                        *)
LEMMA StepIInv == IInv /\ [Next]_vars => IInv'
<1> SUFFICES ASSUME IInv, [Next]_vars PROVE IInv' OBVIOUS
<1>1. TypeOK' BY TypeStep DEF IInv
<1> USE <1>1
<1>2. ASSUME NEW h \in Handlers, NEW r \in Reports, Receive(h, r) PROVE IInv'
  <2>1. UNCHANGED tables BY <1>2 DEF Receive
  <2>2. ReceiptsAreStored'
    BY <1>2 DEF Receive, IInv, ReceiptsAreStored, tables
  <2>3. WriterIsNewest'
    BY <1>2, SMT DEF Receive, IInv, TypeOK, WriterIsNewest, Duplicates, tables
  <2>4. QED BY <2>1, <2>2, <2>3, ReadingStep
<1>3. ASSUME NEW h \in Handlers, Lock(h) PROVE IInv'
  <2>1. UNCHANGED tables BY <1>3 DEF Lock
  <2>2. ReceiptsAreStored' BY <1>3 DEF Lock, IInv, ReceiptsAreStored, tables
  <2>3. WriterIsNewest'
    BY <1>3, SMT DEF Lock, IInv, TypeOK, WriterIsNewest, Duplicates, tables
  <2>4. QED BY <2>1, <2>2, <2>3, ReadingStep
<1>4. ASSUME NEW h \in Handlers, Replay(h) PROVE IInv'
  <2>1. UNCHANGED tables BY <1>4 DEF Replay
  <2>2. ReceiptsAreStored'
    <3>1. PICK row \in table : Reply(row)
      BY <1>4, Zenon DEF Replay, Duplicates
    <3>2. QED BY <2>1, <3>1, SMT DEF IInv, ReceiptsAreStored, Reply, tables
  <2>3. WriterIsNewest'
    BY <1>4, SMT DEF Replay, End, IInv, TypeOK, WriterIsNewest, Duplicates,
                     tables
  <2>4. QED BY <2>1, <2>2, <2>3, ReadingStep
<1>5. ASSUME NEW h \in Handlers, Stamp(h) PROVE IInv'
  <2>1. UNCHANGED tables BY <1>5 DEF Stamp
  <2>2. ReceiptsAreStored' BY <1>5 DEF Stamp, IInv, ReceiptsAreStored, tables
  <2>3. WriterIsNewest'
    BY <1>5, SMT DEF Stamp, IInv, TypeOK, WriterIsNewest, Duplicates, tables
  <2>4. QED BY <2>1, <2>2, <2>3, ReadingStep
<1>6. ASSUME NEW h \in Handlers, Commit(h) PROVE IInv'
  BY <1>6, CommitKeepsIInv
<1>7. ASSUME NEW h \in Handlers, RollBack(h) PROVE IInv'
  <2>1. UNCHANGED tables BY <1>7 DEF RollBack
  <2>2. ReceiptsAreStored'
    BY <1>7 DEF RollBack, IInv, ReceiptsAreStored, tables
  <2>3. WriterIsNewest'
    BY <1>7, SMT DEF RollBack, IInv, TypeOK, WriterIsNewest, Duplicates, tables
  <2>4. QED BY <2>1, <2>2, <2>3, ReadingStep
<1>8. CASE Tick
  <2>1. UNCHANGED <<tables, step, sent, answered>> BY <1>8 DEF Tick
  <2>2. ReceiptsAreStored' /\ WriterIsNewest'
    BY <2>1, SMT DEF IInv, ReceiptsAreStored, WriterIsNewest, Duplicates, tables
  <2>3. QED BY <2>1, <2>2, ReadingStep
<1>9. CASE UNCHANGED vars
  <2>1. UNCHANGED <<tables, step, sent, answered>> BY <1>9 DEF vars, tables
  <2>2. ReceiptsAreStored' /\ WriterIsNewest'
    BY <2>1, SMT DEF IInv, ReceiptsAreStored, WriterIsNewest, Duplicates, tables
  <2>3. QED BY <2>1, <2>2, ReadingStep
<1>10. QED
  BY <1>2, <1>3, <1>4, <1>5, <1>6, <1>7, <1>8, <1>9 DEF Next

(* The inductive invariant of the transactions.                            *)
THEOREM Invariant == Spec => []IInv
BY InitIInv, StepIInv, PTL DEF Spec

(* One handler at a time is between its FOR UPDATE and its end, and every  *)
(* variable has its type.                                                  *)
THEOREM TypeCorrect == Spec => []TypeOK
<1>1. IInv => TypeOK BY DEF IInv
<1>2. QED BY Invariant, <1>1, PTL

(* The head row shows the newest report ever accepted.                     *)
THEOREM HeadFollows == Spec => []HeadIsNewest
<1>1. IInv => HeadIsNewest BY DEF IInv
<1>2. QED BY Invariant, <1>1, PTL

(* The stored outcome of a job is that of the newest report about it.      *)
THEOREM ResultsFollow == Spec => []LatestResultWins
<1>1. IInv => LatestResultWins BY DEF IInv
<1>2. QED BY Invariant, <1>1, PTL

(* All receipts a daemon is sent for one id or one sequence agree.         *)
THEOREM ReceiptsAgree == Spec => []OneReceiptPerReport
<1>1. IInv => OneReceiptPerReport
  BY DEF IInv, ReceiptsAreStored, RowsDiffer, OneReceiptPerReport
<1>2. QED BY Invariant, <1>1, PTL

(* Every step of a handler is a step of the ledger or leaves it alone.     *)
LEMMA StepRefines ==
    ASSUME IInv, IInv', [Next]_vars
    PROVE  [Ledger!Next]_<<table, answered>>
<1>1. ASSUME NEW h \in Handlers, Replay(h)
      PROVE  [Ledger!Next]_<<table, answered>>
  <2>1. PICK row \in table : Reply(row) BY <1>1, Zenon DEF Replay, Duplicates
  <2>2. UNCHANGED table BY <1>1 DEF Replay, tables
  <2>3. row \in Ledger!Rows
    BY <2>1, SMT DEF IInv, TypeOK, Rows, Ledger!Rows
  <2>4. CASE answered' = answered
    BY <2>2, <2>4
  <2>5. CASE answered' = answered \cup {row}
    <3>1. Ledger!Answer(row) BY <2>1, <2>2, <2>5 DEF Ledger!Answer
    <3>2. QED BY <2>3, <3>1 DEF Ledger!Next
  <2>6. QED BY <2>1, <2>4, <2>5 DEF Reply
<1>2. ASSUME NEW h \in Handlers, Commit(h)
      PROVE  [Ledger!Next]_<<table, answered>>
  <2>1. step[h] = "write" /\ table' = table \cup {Row(h)} /\ Reply(Row(h))
    BY <1>2 DEF Commit
  <2>2. Row(h) \in Ledger!Rows
    BY <2>1, SMT DEF IInv, TypeOK, Row, Ledger!Rows
  <2>3. /\ sent[h].sequence \in Nat /\ sequence \in Nat
        /\ Duplicates(sent[h]) = {} /\ sent[h].sequence > sequence
    BY <2>1, SMT DEF IInv, TypeOK, WriterIsNewest
  <2>4. \A old \in table : /\ old.report.sequence \in Nat
                           /\ old.report.sequence <= sequence
                           /\ old.report.id # sent[h].id
    BY <2>3, SMT DEF IInv, TypeOK, HeadIsNewest, Rows, Duplicates
  <2>5. Ledger!Newer(Row(h))
    BY <2>3, <2>4, SMT DEF Ledger!Newer, Row
  <2>6. Ledger!Accept(Row(h))
    BY <2>1, <2>5 DEF Ledger!Accept, Reply
  <2>7. QED BY <2>2, <2>6 DEF Ledger!Next
<1>3. ASSUME UNCHANGED <<table, answered>>
      PROVE  [Ledger!Next]_<<table, answered>>
  BY <1>3
<1>4. ASSUME NEW h \in Handlers, NEW r \in Reports, Receive(h, r)
      PROVE  UNCHANGED <<table, answered>>
  BY <1>4 DEF Receive, tables
<1>5. ASSUME NEW h \in Handlers, Lock(h) \/ Stamp(h) \/ RollBack(h)
      PROVE  UNCHANGED <<table, answered>>
  BY <1>5 DEF Lock, Stamp, RollBack, tables
<1>6. ASSUME Tick \/ UNCHANGED vars PROVE UNCHANGED <<table, answered>>
  BY <1>6 DEF Tick, vars, tables
<1>7. QED BY <1>1, <1>2, <1>3, <1>4, <1>5, <1>6 DEF Next

(* The transactions of accept, however interleaved, retried or rolled      *)
(* back, are together no more than the ledger.                             *)
THEOREM Refinement == Spec => ImplementsLedger
<1>1. Init => Ledger!Init BY DEF Init, Ledger!Init
<1>2. QED
  BY Invariant, StepRefines, <1>1, PTL DEF Spec, ImplementsLedger, Ledger!Spec
=============================================================================
