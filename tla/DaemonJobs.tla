------------------------------ MODULE DaemonJobs ------------------------------
(***************************************************************************)
(* Signed jobs for a daemon: JobService and PostgresJobStore               *)
(* (daemonManagement/jobs/service.ts, store.ts, contract.ts).              *)
(*                                                                         *)
(* An organisation's admin asks for a job in a web session, repeating the  *)
(* request until it is answered; the daemon polls for pending jobs and     *)
(* reports their results.  Handlers on any replica run these requests at   *)
(* once, asking IAM about the admin and the device at some steps, while    *)
(* both may change.  A replica may stop at any moment; the signing key     *)
(* changes with a restart of all.                                          *)
(***************************************************************************)
EXTENDS DaemonRequests

CONSTANTS
  Admins,
  Requests,     \* what may be asked for: a request id and a content
  JobLife,      \* 300 s: life of a job, and limit of an approval's age
  MaxJobs,      \* bound: jobs signed
  MaxKeys       \* bound: signing keys

RequestIds == {q.id : q \in Requests}
JobNumbers == 1..MaxJobs

ASSUME JobLifeAssumption == JobLife \in Nat \ {0}
ASSUME JobBoundsAssumption ==
  /\ MaxJobs \in Nat /\ MaxKeys \in Nat \ {0}
  /\ \A l \in Loads : l.requests \subseteq Requests
  /\ Admins # {} /\ Requests # {} /\ "nobody" \notin Handlers

VARIABLES
  authority,    \* IAM: each admin's role and versions, as one
  changedAt,    \* when it last changed
  jobs,         \* daemon_management_jobs
  signed,       \* how many jobs have been signed and stored
  confirmedAt,  \* since when a job's result is confirmed, 0 if it is not
  head,         \* version of the device in its head row, 0 before a report
  kid,          \* the replicas' signing key
  lock,         \* who has the advisory lock of a request id
  call,         \* what an issuing handler works on
  todo,         \* a polling handler's records still to be checked
  out,          \* those it will deliver
  received,     \* jobs that reached the daemon
  answered      \* history: issued jobs, as answered to an admin

tables == <<jobs, signed, confirmedAt, head>>
people == <<authority, changedAt>>
work == <<call, todo, out>>
jobVars == <<people, tables, kid, lock, work, received, answered>>
vars == <<requestVars, jobVars>>

Job == [number : JobNumbers, asks : Requests, by : Admins, version : Versions,
        approval : Nat, kid : Nat, exp : Nat]

Nothing ==      \* what an idle handler holds, never read
  [by |-> CHOOSE a \in Admins : TRUE, asks |-> CHOOSE q \in Requests : TRUE,
   session |-> 1, checkedAt |-> 0]

TablesTypeOK ==
  /\ authority \in [Admins -> [admin : BOOLEAN, version : Nat]]
  /\ changedAt \in [Admins -> Nat]
  /\ jobs \subseteq Job
  /\ signed \in 0..MaxJobs
  /\ confirmedAt \in [JobNumbers -> Nat]
  /\ head \in {0} \cup Versions
  /\ kid \in 1..MaxKeys
  /\ received \subseteq jobs
  /\ answered \subseteq [asks : Requests, by : Admins, job : jobs]

WorkTypeOK ==
  /\ call \in [Handlers -> [by : Admins, asks : Requests, session : Nat,
                            checkedAt : Nat]]
  /\ todo \in [Handlers -> SUBSET jobs]
  /\ out \in [Handlers -> SUBSET jobs]

LocksTypeOK ==
  /\ lock \in [RequestIds -> Handlers \cup {"nobody"}]
  /\ \A h \in Handlers, i \in RequestIds :
       lock[i] = h <=> step[h] = "locked" /\ call[h].asks.id = i

TypeOK == RequestTypeOK /\ TablesTypeOK /\ WorkTypeOK /\ LocksTypeOK

Init ==
  /\ RequestInit
  /\ authority = [a \in Admins |-> [admin |-> TRUE, version |-> 1]]
  /\ changedAt = [a \in Admins |-> 0]
  /\ jobs = {}
  /\ signed = 0
  /\ confirmedAt = [n \in JobNumbers |-> 0]
  /\ head = IF load.reported THEN 1 ELSE 0
  /\ kid = 1
  /\ lock = [i \in RequestIds |-> "nobody"]
  /\ call = [h \in Handlers |-> Nothing]
  /\ todo = [h \in Handlers |-> {}]
  /\ out = [h \in Handlers |-> {}]
  /\ received = {}
  /\ answered = {}

-----------------------------------------------------------------------------
(* issue() *)

(* A request of an admin with a session begun in some version.             *)
Ask(h, a, q, version, r) ==
  /\ step[h] = "idle"
  /\ request' = [request EXCEPT ![h].purpose = "issue", ![h].replica = r]
  /\ call' = [call EXCEPT ![h] = [by |-> a, asks |-> q, session |-> version,
                                  checkedAt |-> 0]]
  /\ Goto(h, "authority")
  /\ UNCHANGED <<bounds, now, shared, iam, cache, since, answer,
                 people, tables, kid, lock, todo, out, received, answered>>

(* IAM is asked for the admin's role and versions.                         *)
Approved(a, version) == authority[a] = [admin |-> TRUE, version |-> version]

CheckAuthority(h) ==
  /\ step[h] = "authority"
  /\ Approved(call[h].by, call[h].session)
  /\ call' = [call EXCEPT ![h].checkedAt = now]
  /\ Goto(h, "target")
  /\ UNCHANGED <<bounds, now, shared, iam, cache, request, since, answer,
                 people, tables, kid, lock, todo, out, received, answered>>

(* target(): the identity in the device's head row, which is then looked   *)
(* up at IAM as that of a polling daemon.                                  *)
Target(h) ==
  /\ step[h] = "target"
  /\ head # 0
  /\ request' = [request EXCEPT ![h].version = head]
  /\ Goto(h, "authorize")
  /\ UNCHANGED <<bounds, now, shared, iam, cache, since, answer, jobVars>>

(* BEGIN and pg_advisory_xact_lock, if the head row's report is fresh and  *)
(* matches the request, which is not computed.                             *)
Lock(h) ==
  /\ step[h] = "passed" /\ request[h].purpose = "issue"
  /\ lock[call[h].asks.id] = "nobody"
  /\ lock' = [lock EXCEPT ![call[h].asks.id] = h]
  /\ Goto(h, "locked")
  /\ UNCHANGED <<bounds, now, shared, iam, cache, request, since, answer,
                 people, tables, kid, work, received, answered>>

Unlocked(h) == [i \in RequestIds |-> IF lock[i] = h THEN "nobody" ELSE lock[i]]

EndJob(h) ==
  /\ End(h)
  /\ lock' = Unlocked(h)
  /\ call' = [call EXCEPT ![h] = Nothing]
  /\ todo' = [todo EXCEPT ![h] = {}]
  /\ out' = [out EXCEPT ![h] = {}]

Stored(id) == {j \in jobs : j.asks.id = id}

(* The 202, which may be lost on its way.                                  *)
Reply(h, job) ==
  answered' \in {answered,
    answered \cup {[asks |-> call[h].asks, by |-> call[h].by, job |-> job]}}

VerifiedByAnyKey(h, job) ==    \* slip: the signature is not checked
  job.version = request[h].version /\ now < job.exp

(* VerifiedJob.verify(): the signature, the device it is for, the time.    *)
Verified(h, job) ==
  job.kid = kid /\ job.version = request[h].version /\ now < job.exp

ReturnPriorUnchecked(h) ==     \* slip: no comparison of the request hashes
  /\ step[h] = "locked"
  /\ \E job \in Stored(call[h].asks.id) :
       now < job.exp /\ job.kid = kid /\ Reply(h, job)
  /\ EndJob(h)
  /\ UNCHANGED <<bounds, now, shared, iam, cache, people, tables, kid,
                 received>>

(* The stored job, if the request is the same one, for the same version of *)
(* the device, and the job is neither over nor signed by a retired key.    *)
ReturnPrior(h) ==
  /\ step[h] = "locked"
  /\ \E job \in Stored(call[h].asks.id) :
       /\ job.asks = call[h].asks /\ job.by = call[h].by
       /\ Verified(h, job)
       /\ Reply(h, job)
  /\ EndJob(h)
  /\ UNCHANGED <<bounds, now, shared, iam, cache, people, tables, kid,
                 received>>

(* build(), INSERT and COMMIT: the job carries the versions and the time   *)
(* of the approval, which may be as old as a job.                          *)
Insert(h) ==
  /\ step[h] = "locked"
  /\ Stored(call[h].asks.id) = {}
  /\ now <= call[h].checkedAt + JobLife
  /\ signed < MaxJobs
  /\ LET job == [number |-> signed + 1, asks |-> call[h].asks,
                 by |-> call[h].by, version |-> request[h].version,
                 approval |-> call[h].session, kid |-> kid,
                 exp |-> now + JobLife]
     IN jobs' = jobs \cup {job} /\ Reply(h, job)
  /\ signed' = signed + 1
  /\ EndJob(h)
  /\ UNCHANGED <<bounds, now, shared, iam, cache, people, confirmedAt, head,
                 kid, received>>

(* 403, 404, 409 or 503, with a ROLLBACK once the lock was taken.          *)
IssueFails(h) ==
  /\ step[h] \in {"authority", "target", "lookup", "answer", "passed",
                 "locked"}
  /\ request[h].purpose = "issue"
  /\ EndJob(h)
  /\ UNCHANGED <<bounds, now, shared, iam, cache, people, tables, kid,
                 received, answered>>

-----------------------------------------------------------------------------
(* pending() *)

(* The records of the device with the current key that are not over and    *)
(* not confirmed.                                                          *)
Select(h) ==
  /\ step[h] = "passed" /\ request[h].purpose = "jobs"
  /\ todo' = [todo EXCEPT ![h] =
       {j \in jobs : j.kid = kid /\ now < j.exp /\ confirmedAt[j.number] = 0}]
  /\ Goto(h, "recheck")
  /\ UNCHANGED <<bounds, now, shared, iam, cache, request, since, answer,
                 people, tables, kid, lock, call, out, received, answered>>

DeliverableByRole(h, j) ==     \* slip: the versions are not compared
  authority[j.by].admin /\ Verified(h, j)

(* IAM is asked for the admin again; a role that ended, versions that      *)
(* changed, a binding that does not match or a job that is over skip it.   *)
Deliverable(h, j) == Approved(j.by, j.approval) /\ Verified(h, j)

Recheck(h, j) ==
  /\ step[h] = "recheck"
  /\ j \in todo[h]
  /\ todo' = [todo EXCEPT ![h] = @ \ {j}]
  /\ out' = IF Deliverable(h, j) THEN [out EXCEPT ![h] = @ \cup {j}] ELSE out
  /\ UNCHANGED <<bounds, now, shared, iam, cache, locals, people, tables, kid,
                 lock, call, received, answered>>

(* The reply, which may be lost.                                           *)
Deliver(h) ==
  /\ step[h] = "recheck"
  /\ todo[h] = {}
  /\ received' \in {received, received \cup out[h]}
  /\ EndJob(h)
  /\ UNCHANGED <<bounds, now, shared, iam, cache, people, tables, kid,
                 answered>>

PendingFails(h) ==
  /\ step[h] = "recheck"
  /\ EndJob(h)
  /\ UNCHANGED <<bounds, now, shared, iam, cache, people, tables, kid,
                 received, answered>>

(* A report of the daemon is accepted (DaemonReports), perhaps once more.  *)
(* A new one may say of a job for this version of the device that it is    *)
(* confirmed, or is not known to be after all.                             *)
Report(h) ==
  /\ step[h] = "passed" /\ request[h].purpose = "report"
  /\ \/ UNCHANGED <<head, confirmedAt>>
     \/ /\ head' = request[h].version
        /\ \/ UNCHANGED confirmedAt
           \/ \E j \in received :
                /\ j.version = request[h].version
                /\ confirmedAt' = [confirmedAt EXCEPT ![j.number] =
                                     IF @ = 0 THEN now ELSE 0]
  /\ EndJob(h)
  /\ UNCHANGED <<bounds, now, shared, iam, cache, people, jobs, signed, kid,
                 received, answered>>

-----------------------------------------------------------------------------
(* The environment *)

(* An admin's role ends or begins, or a version rises.                     *)
Change(a) ==
  /\ Another
  /\ \/ authority' = [authority EXCEPT ![a].admin = ~@]
     \/ authority' = [authority EXCEPT ![a].version = @ + 1]
  /\ changedAt' = [changedAt EXCEPT ![a] = now]
  /\ UNCHANGED <<load, now, shared, enrolled, ended, cache, locals, tables,
                 kid, lock, work, received, answered>>

(* Handlers die with their replicas, and their transactions are rolled     *)
(* back.  A restart of all may come with another key.                      *)
Stop(down, key) ==
  LET dead == {h \in Handlers :
                 step[h] # "idle" /\ request[h].replica \in down} IN
  /\ Another
  /\ down # {} /\ (key = kid \/ (key = kid + 1 /\ down = Replicas))
  /\ kid' = key
  /\ step' = [h \in Handlers |-> IF h \in dead THEN "idle" ELSE step[h]]
  /\ request' = [h \in Handlers |-> IF h \in dead THEN Blank ELSE request[h]]
  /\ since' = [h \in Handlers |-> IF h \in dead THEN 0 ELSE since[h]]
  /\ answer' = [h \in Handlers |-> h \notin dead /\ answer[h]]
  /\ call' = [h \in Handlers |-> IF h \in dead THEN Nothing ELSE call[h]]
  /\ todo' = [h \in Handlers |-> IF h \in dead THEN {} ELSE todo[h]]
  /\ out' = [h \in Handlers |-> IF h \in dead THEN {} ELSE out[h]]
  /\ lock' = [i \in RequestIds |->
                IF lock[i] \in dead THEN "nobody" ELSE lock[i]]
  /\ cache' = [r \in Replicas |-> IF r \in down THEN [v \in Versions |-> 0]
                                  ELSE cache[r]]
  /\ UNCHANGED <<load, now, shared, enrolled, ended, people, tables, received,
                 answered>>

Next ==
  \/ RequestNext /\ UNCHANGED jobVars
  \/ \E h \in load.handlers :
       \/ \E a \in Admins, q \in load.requests, r \in Replicas :
            \E n \in 1..authority[a].version : Ask(h, a, q, n, r)
       \/ CheckAuthority(h)
       \/ Target(h)
       \/ Lock(h)
       \/ ReturnPrior(h)
       \/ Insert(h)
       \/ IssueFails(h)
       \/ Select(h)
       \/ \E j \in todo[h] : Recheck(h, j)
       \/ Deliver(h)
       \/ PendingFails(h)
       \/ Report(h)
  \/ \E a \in Admins : Change(a)
  \/ \E down \in SUBSET Replicas, key \in 1..MaxKeys : Stop(down, key)

Spec == Init /\ [][Next]_vars

-----------------------------------------------------------------------------
(* A version of the device that IAM stopped authorising passes for less    *)
(* than the life of the cache: "Successful IAM state is cached at most 15  *)
(* seconds from lookup start ..., including network time".                 *)
PassesInTime ==
  \A h \in Handlers :
    step[h] # "passed" /\ step'[h] = "passed" =>
      \/ ended[request[h].version] = 0
      \/ now < ended[request[h].version] + CacheLife

WithdrawnDeviceIsRefused == [][PassesInTime]_vars

(* Whatever retries, conflicting requests, lost replies and stops there    *)
(* are, all answers to one request id name the same job, and it is the one *)
(* that was asked for, by the one who asked: "Same content returns the     *)
(* original job/signature; changed content or actor/binding conflicts"     *)
(* (docs/daemon-management-jobs-v1.md).                                    *)
OneJobPerRequest ==
  \A x \in answered :
    /\ x.job \in jobs /\ x.job.asks = x.asks /\ x.job.by = x.by
    /\ \A y \in answered : x.asks.id = y.asks.id => x.job = y.job

(* A job that is about to be delivered is for this version of the device   *)
(* and under the current key, and none of the following had ended before   *)
(* the request began its lookup: the device's authorisation, the admin's   *)
(* role in the very versions that approved it, the job's life; nor had it  *)
(* been confirmed: "revoked approval, changed versions, wrong identity/key *)
(* or expired jobs are not delivered".                                     *)
DeliveredJobsAreAuthorised ==
  \A h \in Handlers : \A j \in out[h] :
    LET v == request[h].version IN
    /\ j.version = v /\ j.kid = kid
    /\ ended[v] = 0 \/ ended[v] >= since[h]
    /\ Approved(j.by, j.approval) \/ changedAt[j.by] >= since[h]
    /\ since[h] < j.exp
    /\ confirmedAt[j.number] = 0 \/ confirmedAt[j.number] >= since[h]

Entry(asks, by, job) ==
  [asks |-> asks, by |-> by, version |-> job.version, kid |-> job.kid]

Entered(js) == {Entry(j.asks, j.by, j) : j \in js}

Ledger == INSTANCE JobLedger WITH
  Keys <- 1..MaxKeys, ledger <- Entered(jobs), key <- kid,
  received <- Entered(received),
  answered <- {Entry(x.asks, x.by, x.job) : x \in answered}

(* Seen from outside, the handlers, the advisory locks, the lookups, the   *)
(* retries and the stops are one ledger of signed jobs.                    *)
ImplementsJobLedger == Ledger!Spec
=============================================================================
