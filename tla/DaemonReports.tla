---------------------------- MODULE DaemonReports ----------------------------
(***************************************************************************)
(* Acceptance of a device's status reports: PostgresManagementStore.accept *)
(* (daemonManagement/postgresStore.ts), called by the reports route for a  *)
(* verified and authorized device.                                         *)
(*                                                                         *)
(* Reports are sent again until they are answered, so the same one may be  *)
(* handled by several replicas at once, late and out of order.  A handler  *)
(* is one transaction: its statements are steps, what it writes becomes    *)
(* visible with its COMMIT, and the device's head row is locked from its   *)
(* FOR UPDATE to the end.  A report is its content: two with one id or one *)
(* sequence and different content are different members of Reports.        *)
(***************************************************************************)
EXTENDS Naturals

CONSTANTS
  Handlers,    \* requests handled at the same time, on any replica
  Jobs,        \* jobs issued for the device
  Reports,     \* reports that may be sent: id, sequence and results per job
  MaxTime      \* bound: the last clock_timestamp() of a behaviour

Outcomes == {"none", "unknown", "confirmed"}   \* "none": not mentioned

ASSUME ReportsAssumption ==
  \A r \in Reports :
    /\ r.sequence \in Nat \ {0}
    /\ r.results \in [Jobs -> Outcomes]
ASSUME MaxTimeAssumption == MaxTime \in Nat \ {0}
ASSUME NoHandlerAssumption == "nobody" \notin Handlers

VARIABLES
  table,       \* daemon_management_reports: reports and their receipts
  sequence,    \* daemon_management_heads.sequence
  shown,       \* the report the head row holds, {} before the first one
  results,     \* daemon_management_job_results: latest outcome of each job
  holder,      \* who has locked the head row
  step,        \* where each handler is
  sent,        \* the report it handles
  stamp,       \* the received_at it has read
  now,         \* clock_timestamp()
  answered     \* history: receipts that reached the daemon

vars == <<table, sequence, shown, results, holder, step, sent, stamp, now,
          answered>>
tables == <<table, sequence, shown, results>>

Times == 1..MaxTime
Rows == [report : Reports, receivedAt : Times]
Row(h) == [report |-> sent[h], receivedAt |-> stamp[h]]

TypeOK ==
  /\ table \subseteq Rows
  /\ sequence \in Nat
  /\ shown \subseteq Reports
  /\ results \in [Jobs -> [sequence : Nat, outcome : Outcomes]]
  /\ holder \in Handlers \cup {"nobody"}
  /\ step \in [Handlers -> {"idle", "lock", "check", "write"}]
  /\ sent \in [Handlers -> Reports]
  /\ stamp \in [Handlers -> Times]
  /\ now \in Times
  /\ answered \subseteq Rows
  /\ \A h \in Handlers : step[h] \in {"check", "write"} <=> holder = h

Init ==
  /\ table = {}
  /\ sequence = 0
  /\ shown = {}
  /\ results = [j \in Jobs |-> [sequence |-> 0, outcome |-> "none"]]
  /\ holder = "nobody"
  /\ step = [h \in Handlers |-> "idle"]
  /\ sent \in [Handlers -> Reports]
  /\ stamp = [h \in Handlers |-> 1]
  /\ now = 1
  /\ answered = {}

-----------------------------------------------------------------------------
(* A verified and authorized request.                                      *)
Receive(h, r) ==
  /\ step[h] = "idle"
  /\ step' = [step EXCEPT ![h] = "lock"]
  /\ sent' = [sent EXCEPT ![h] = r]
  /\ UNCHANGED <<tables, holder, stamp, now, answered>>

LockWithoutForUpdate(h) ==     \* slip: SELECT ... without FOR UPDATE
  /\ step[h] = "lock"
  /\ step' = [step EXCEPT ![h] = "check"]
  /\ UNCHANGED <<tables, holder, sent, stamp, now, answered>>

(* BEGIN, INSERT ... ON CONFLICT DO NOTHING and SELECT ... FOR UPDATE:     *)
(* both wait for the end of the transaction that has the row.              *)
Lock(h) ==
  /\ step[h] = "lock"
  /\ holder = "nobody"
  /\ holder' = h
  /\ step' = [step EXCEPT ![h] = "check"]
  /\ UNCHANGED <<tables, sent, stamp, now, answered>>

End(h) ==
  /\ step' = [step EXCEPT ![h] = "idle"]
  /\ holder' = "nobody"

Duplicates(r) ==
  {row \in table : row.report.id = r.id \/ row.report.sequence = r.sequence}

(* 202 with a receipt, which may be lost on the way.                       *)
Reply(row) == answered' \in {answered, answered \cup {row}}

ReplayWithNewReceipt(h) ==     \* slip: the receipt is made anew
  /\ step[h] = "check"
  /\ \E row \in Duplicates(sent[h]) :
       /\ Duplicates(sent[h]) = {row} /\ row.report = sent[h]
       /\ Reply([report |-> sent[h], receivedAt |-> now])
  /\ End(h)
  /\ UNCHANGED <<tables, sent, stamp, now>>

(* The one duplicate is this very report: its receipt is returned.         *)
Replay(h) ==
  /\ step[h] = "check"
  /\ \E row \in Duplicates(sent[h]) :
       /\ Duplicates(sent[h]) = {row} /\ row.report = sent[h]
       /\ Reply(row)
  /\ End(h)
  /\ UNCHANGED <<tables, sent, stamp, now>>

StampInAnyOrder(h) ==          \* slip: no check for report_out_of_order
  /\ step[h] = "check"
  /\ Duplicates(sent[h]) = {}
  /\ stamp' = [stamp EXCEPT ![h] = now]
  /\ step' = [step EXCEPT ![h] = "write"]
  /\ UNCHANGED <<tables, holder, sent, now, answered>>

(* No duplicate and newer than the head: the time of receipt is read.      *)
Stamp(h) ==
  /\ step[h] = "check"
  /\ Duplicates(sent[h]) = {}
  /\ sent[h].sequence > sequence
  /\ stamp' = [stamp EXCEPT ![h] = now]
  /\ step' = [step EXCEPT ![h] = "write"]
  /\ UNCHANGED <<tables, holder, sent, now, answered>>

UpsertOnce(r) ==               \* slip: ON CONFLICT (job_id) DO NOTHING
  [j \in Jobs |->
    IF r.results[j] # "none" /\ results[j].sequence = 0
    THEN [sequence |-> r.sequence, outcome |-> r.results[j]]
    ELSE results[j]]

(* INSERT ... ON CONFLICT (job_id) DO UPDATE ... WHERE sequence < EXCLUDED *)
Upsert(r) ==
  [j \in Jobs |->
    IF r.results[j] # "none" /\ results[j].sequence < r.sequence
    THEN [sequence |-> r.sequence, outcome |-> r.results[j]]
    ELSE results[j]]

(* The INSERT of the report, one upsert per job result, the UPDATE of the  *)
(* head and the COMMIT.                                                    *)
Commit(h) ==
  /\ step[h] = "write"
  /\ table' = table \cup {Row(h)}
  /\ results' = Upsert(sent[h])
  /\ sequence' = sent[h].sequence
  /\ shown' = {sent[h]}
  /\ Reply(Row(h))
  /\ End(h)
  /\ UNCHANGED <<sent, stamp, now>>

(* ROLLBACK: report_conflict or report_out_of_order at the check; at any   *)
(* step another subject's device, a result that does not match its job, an *)
(* error of the database or the end of the process.                        *)
RollBack(h) ==
  /\ step[h] # "idle"
  /\ step' = [step EXCEPT ![h] = "idle"]
  /\ holder' = IF holder = h THEN "nobody" ELSE holder
  /\ UNCHANGED <<tables, sent, stamp, now, answered>>

Tick ==
  /\ now < MaxTime
  /\ now' = now + 1
  /\ UNCHANGED <<tables, holder, step, sent, stamp, answered>>

Next ==
  \/ \E h \in Handlers :
       \/ \E r \in Reports : Receive(h, r)
       \/ Lock(h)
       \/ Replay(h)
       \/ Stamp(h)
       \/ Commit(h)
       \/ RollBack(h)
  \/ Tick

Spec == Init /\ [][Next]_vars

-----------------------------------------------------------------------------
(* The head row shows the newest report ever accepted, however retries and *)
(* reordered reports race: "A newer sequence is required to change latest  *)
(* state" (docs/daemon-management-v1.md).                                  *)
HeadIsNewest ==
  IF table = {} THEN sequence = 0 /\ shown = {}
  ELSE \E row \in table :
         /\ shown = {row.report}
         /\ sequence = row.report.sequence
         /\ \A other \in table : other.report.sequence <= sequence

Mentions(j) == {row \in table : row.report.results[j] # "none"}

(* The stored outcome of a job is the one in the newest accepted report    *)
(* that mentions it: "Old identical report retries return their original   *)
(* receipt without downgrading the latest result"                          *)
(* (docs/daemon-management-jobs-v1.md).                                    *)
LatestResultWins ==
  \A j \in Jobs :
    IF Mentions(j) = {} THEN results[j].sequence = 0
    ELSE \E row \in Mentions(j) :
           /\ results[j] = [sequence |-> row.report.sequence,
                            outcome |-> row.report.results[j]]
           /\ \A other \in Mentions(j) :
                other.report.sequence <= row.report.sequence

(* "The same ID/sequence/content returns its original 202 receipt": all    *)
(* receipts ever given for one report, or for one id or sequence, agree.   *)
OneReceiptPerReport ==
  \A a, b \in answered :
    a.report.id = b.report.id \/ a.report.sequence = b.report.sequence => a = b

(* The transactions implement the ledger of ReportLedger.                  *)
Ledger == INSTANCE ReportLedger WITH ledger <- table
ImplementsLedger == Ledger!Spec
=============================================================================
