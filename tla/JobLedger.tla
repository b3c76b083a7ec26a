------------------------------ MODULE JobLedger ------------------------------
(***************************************************************************)
(* What the gateway promises an organisation's admins and the daemon about *)
(* signed jobs (daemonManagement/jobs/service.ts, store.ts), without       *)
(* locks, handlers, lookups or time: an id is signed for once, an answer   *)
(* names the entry of exactly what was asked for by exactly who asked, and *)
(* what is answered or delivered is under the key of the day.  Nothing     *)
(* leaves the ledger.                                                      *)
(***************************************************************************)
EXTENDS Naturals

CONSTANTS
  Admins,
  Requests,    \* what may be asked for: records with at least an id
  Versions,    \* of the device a job is for
  Keys         \* signing keys

VARIABLES
  ledger,      \* the jobs signed
  key,         \* the signing key
  received,    \* jobs that reached the daemon
  answered     \* jobs that were named to an admin

Entries == [asks : Requests, by : Admins, version : Versions, kid : Keys]

Init == ledger = {} /\ key = 1 /\ received = {} /\ answered = {}

(* A job is signed for an id that has none; the answer may be lost.        *)
Sign(e) ==
  /\ \A old \in ledger : old.asks.id # e.asks.id
  /\ e.kid = key
  /\ ledger' = ledger \cup {e}
  /\ answered' \in {answered, answered \cup {e}}
  /\ UNCHANGED <<key, received>>

(* The same request again is answered from the ledger.                     *)
Answer(e) ==
  /\ e \in ledger /\ e.kid = key
  /\ answered' = answered \cup {e}
  /\ UNCHANGED <<ledger, key, received>>

(* A poll of the device in one of its versions.                            *)
Deliver(S) ==
  /\ \A e \in S : e.kid = key
  /\ \A d, e \in S : d.version = e.version
  /\ received' = received \cup S
  /\ UNCHANGED <<ledger, key, answered>>

(* A restart comes with a key of its own.                                  *)
Retire == key' = key + 1 /\ UNCHANGED <<ledger, received, answered>>

Next ==
  \/ \E e \in Entries : Sign(e) \/ Answer(e)
  \/ \E S \in SUBSET ledger : Deliver(S)
  \/ Retire

Spec == Init /\ [][Next]_<<ledger, key, received, answered>>
=============================================================================
