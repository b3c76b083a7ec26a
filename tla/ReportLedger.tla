---------------------------- MODULE ReportLedger ----------------------------
(***************************************************************************)
(* What the gateway promises a daemon about its reports                    *)
(* (daemonManagement/postgresStore.ts, accept): reports enter a ledger one *)
(* at a time, each newer than all before it; a receipt is only given for a *)
(* report in the ledger, and is the one it entered with, however often the *)
(* report is sent again.  Nothing leaves the ledger.                       *)
(***************************************************************************)
EXTENDS Naturals

CONSTANTS
  Reports,     \* reports of one device: records with at least id and sequence
  Times        \* values of received_at

VARIABLES
  ledger,      \* accepted reports with their time of receipt
  answered     \* receipts the daemon was sent

Rows == [report : Reports, receivedAt : Times]

Init == ledger = {} /\ answered = {}

Newer(row) ==
  \A old \in ledger : /\ old.report.sequence < row.report.sequence
                      /\ old.report.id # row.report.id

(* A new report is accepted; the answer may be lost.                       *)
Accept(row) ==
  /\ Newer(row)
  /\ ledger' = ledger \cup {row}
  /\ answered' \in {answered, answered \cup {row}}

(* A report that is sent again is answered from the ledger.                *)
Answer(row) ==
  /\ row \in ledger
  /\ answered' = answered \cup {row}
  /\ UNCHANGED ledger

Next == \E row \in Rows : Accept(row) \/ Answer(row)

Spec == Init /\ [][Next]_<<ledger, answered>>
=============================================================================
