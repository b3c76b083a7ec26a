# Tools Gateway: specifications, model checking and proofs

Tools Gateway is an MCP gateway: agents call tools through it, it authenticates them
against an IAM service, forwards calls to upstream MCP servers, records every call, and
follows the IAM's user events so that a blocked user stops getting in. This directory holds
TLA+ modules translated from the TypeScript under `src/src`, the TLC configurations that
check them on small instances, and TLAPS proofs about them for all values of their
constants. `PROJECT.json` maps every definition to the source lines it models. Paths below
are relative to `src/src` unless they start with `src/`.

## 1. Inventory

All code runs on Node's event loop: a run of code between two `await`s is atomic, anything
may happen at an `await`. Several replicas of the gateway share one PostgreSQL and one Redis.

| Component | State it keeps | Operations | What is hard | What makes it correct |
|---|---|---|---|---|
| Circuit breaker (`resilience/circuitBreaker.ts`, `upstream/resilientUpstreamConnection.ts`) | state, failures in a row, time of the last failure, half-open slots | `execute`, `getState`/`getStats`, `reset` | calls overlap: one admitted while closed settles while open or half-open | state and count agree; slots belong to probes in flight; never rejects for good |
| Audit logger (`audit/auditLogger.ts`, `shutdown` in `main.ts`) | queue, `isFlushing`, timer; table, fallback file | `log`, `flush`, `stop`, shutdown | `log` and the timer run during an INSERT; the INSERT may fail after committing; eviction; shutdown, and calls that outlive it | no entry vanishes while the process lives, order is kept, rows repeat only when the outcome was unknown |
| R2 archiver (`audit/r2AuditArchiver.ts`) | `r2_archived_at`, `r2_archive_key`; objects | select, upload, mark | overlapping cycles, death between steps, keys made of milliseconds | an archived row is in the object it names |
| User lifecycle (`events/userLifecycleConsumer.ts`, `events/userSyncConsumer.ts`, `users/ensureLocalUser.ts`, `auth/mcpOAuthVerifier.ts`) | receipts, the mirror row, the `users` row, the Redis streams | apply, acknowledge, retry, dead-letter, legacy sync, provision, admit | at-least-once and reordered delivery, snapshots that a commit overtakes | a block holds; deletion is final; the newest version wins |
| Web sessions (`auth/oauthSession.ts`, consumers' `invalidateSessions`) | session keys and the per-user index in Redis | login, logout, expiry, invalidation | single Redis commands of logins and invalidations interleave; crash after COMMIT | a block ends the sessions it knew of |
| API keys (`auth/keyVerifier.ts`, `api/apiKeyService.ts`) | `api_keys`, cache entries, per-user index with its own time to live | verify (read-through), create, revoke, `invalidateUser` | fill racing eviction, half-finished fills, index expiry | a dead key stops authenticating |
| Service access (`events/userServiceAccessConsumer.ts`) | versioned state per user and client | apply, invalidate | as the lifecycle | the newest state wins, a withdrawal is final, nothing is admitted on an access that ended |
| Request tool registry (`application/requestToolRegistryBuilder.ts`, `upstream/toolRegistry.ts`, `domain/toolRouteMap.ts`) | connections of one request, routes | build, resolve, close | one upstream of several fails; the client disconnects while it is built; a registry that other requests use | connections end with their request; routes lead to nobody else's upstream |
| MCP endpoint and dispatch (`api/mcpRoutes.ts`, `server/createGatewayServer.ts`, `domain/toolInvocationContext.ts`) | none beyond the request | list, call | checks separated by awaits; errors classified for the audit | nothing reaches an upstream that a check refused; the audit says what happened |
| Access policy (`domain/toolAccessPolicy.ts`, `domain/toolPattern.ts`, `auth/scopeGuard.ts`) | none (pure) | match, evaluate | wildcard corner cases | agrees with a reference definition |
| Jev guardrail and router (`jev/`, `policy/jevGuardrail.ts`) | none beyond timeouts | evaluate, route | fail-open and timeouts | a denial is never lost, a fallback never widens access |
| Daemon reports (`daemonManagement/postgresStore.ts`, `routes.ts`) | head per device, receipts, results of jobs | accept | retries, reordering, concurrent replicas | idempotent, monotone |
| Daemon requests (`daemonManagement/verifier.ts`) | nonces, proofs used | verify, issue nonce | several clocks and expiries | a proof is accepted once |
| Daemon jobs (`daemonManagement/jobs/`) | jobs, results | issue, pending, list | authority changes between issue and delivery | one job per request, delivery only while authorised |
| IAM device reader (`daemonManagement/iamReader.ts`) | 15 s cache | authorize, authority | stale answers | bounded staleness |
| Database initialisation (`database/`) | schema | migrate | replicas start, die and migrate at once, on a schema of any age | each migration once and whole; no process serves on a schema it does not know |
| Custom upstreams, envelope encryption | one table | CRUD | none of a concurrent nature | - |
| Sanitizers, URL and contract validators | none | pure string checks | none a model reaches | - |
| HTTP routes, configuration, dashboard, scripts | none | parsing, markup | none a model reaches | - |

Interactions: `mcpRoutes` verifies a token with `McpOAuthVerifier` (which calls
`EnsureLocalUserService`), builds a registry for the request, and serves it with
`createGatewayServer`, whose tool calls go through the breaker of a static upstream and end
in `AuditLogger.log`. The event consumers write the tables the verifier reads, and call
`KeyVerifier.invalidateUser` and `invalidateSessions`. The archiver reads what the logger
writes. `main.ts` starts and stops all of them.

`PROJECT.json` lists the hazards at their lines with the properties that cover them.

## 2. Modules

| Module | Models | Proofs |
|---|---|---|
| `CircuitBreaker` | one breaker, many calls, a clock | `GatewayRequestProofs` |
| `AuditLogger` | the queue, its flushes, the shutdown | `AuditTrailProofs` |
| `R2AuditArchiver` | concurrent archive cycles | `AuditTrailProofs` |
| `AuditTrail` | composes the two: from `log()` through the table to the objects, and the last cycle of the shutdown | `AuditTrailProofs` |
| `UserLifecycle` | events, mirror, `users` row and admission of one user | `UserLifecycleProofs` |
| `SessionInvalidation` | sessions of one subject and one block event | `ServiceAccessProofs` |
| `ServiceAccess` | extends it by the versioned access of a subject to the service, the queries that read it, and the API keys a block deactivates | `ServiceAccessProofs` |
| `ApiKeyCache` | the API key cache of one user | `ApiKeyCacheProofs` |
| `DaemonReports` | acceptance of the reports of one device | `DaemonReportsProofs` |
| `ReportLedger` | what `DaemonReports` promises, abstractly | refinement in `DaemonReportsProofs` |
| `RequestRegistry` | the registries and connections of concurrent MCP requests | `GatewayRequestProofs` |
| `GatewayRequest` | extends it by the tool calls: checks, guardrail, router, upstream, audit | `GatewayRequestProofs` |
| `DaemonRequests` | authentication of a daemon's requests: nonces, proofs, the lookup at IAM and its cache | `DaemonJobsProofs` |
| `DaemonJobs` | extends it by the signed jobs: issue, polling, results, changes of the admin and the key | `DaemonJobsProofs` |
| `JobLedger` | what `DaemonJobs` promises, abstractly | refinement in `DaemonJobsProofs` |
| `SchemaMigrations` | the start of the replicas: advisory lock, migrations, seed | `SchemaMigrationsProofs` |
| `MigrationLog` | what the starts promise, abstractly | refinement in `SchemaMigrationsProofs` |
| `MigrationList` | the fifteen migrations as the schema objects each needs, creates and drops, and the objects the queries use | - |

`MC...` modules add symmetry, bounds and instances, with one or more configurations each;
`R2AuditArchiver`, `ReportLedger`, `JobLedger`, `MigrationLog`, `RequestRegistry`, `DaemonRequests`
and `MigrationList` are checked as part of the modules that use them. A property that states two halves of one promise (`StateMatchesItsCalls`,
`Recovers`, `MarkedRowsAreArchived`, `EvictionsMissOnlyRaces`) is the conjunction of two named
definitions, each with its own comment.
Definitions carry the names of the code where there is one. Operators marked *slip* are
plausible bugs of the definition that follows them, used to show that a property notices.

### CircuitBreaker
`Admit` is `execute` up to the awaited call (`evaluateState` included), `ShortCircuit` its
rejecting return, `OnSuccess` and `OnFailure` the continuations, `GetState` the getters that
also call `evaluateState`, `Reset` and the caller's `TryAgain`. Time is the milliseconds since
the last failure, saturated at the reset timeout, because that is all the code compares. The
totals of `getStats` are left out. `probes` is a history variable: the calls admitted in this
half-open period. Its common names carry the prefix `Breaker`, so that one proof
module extends it together with `GatewayRequest`.

### AuditLogger
Entries are numbers in `log()` order. `Log` and `TimerFires` include the flush they start
(swap of the queue, `isFlushing`), `InsertSucceeds` and `InsertFails` are the two outcomes of
the awaited INSERT, with requeue, eviction of the batch to the fallback file, and the disk
failing under it. An INSERT that committed and was reported as failed is an outcome of its
own. A row PostgreSQL can never store (`Unstorable`) fails its whole batch. `CloseApp`,
`ShutdownFlush`, `StopTimer` and `ProcessEnds` are `shutdown()` of `main.ts`. None of them stops
`Log`: `app.close()` waits for open sockets, and a tool call whose client has left runs on and
logs until the process is gone. `ProcessEnds` is the end that `shutdown()` leads to, after
`databasePool.end()` has waited for the INSERT in flight. `ProcessDies` may happen at any moment:
a signal, or a rejection without a handler, such as that of `registry.close()` in `shutdown()`,
which skips the flush. Memory is lost in both. `seen` remembers how many entries had been logged
when the flush of the shutdown looked at the queue: what came later, nothing in the code saves.

### R2AuditArchiver
A cycle is `Select`, `Upload`, `Mark`; `Die` is an error or a process end at any of the
awaits. Nothing keeps cycles apart, so the model does not either. The object key is the
millisecond of the selection: two cycles that read the same one overwrite each other's
object. The history variable `shared` records that. Of the two parts of
`MarkedRowsAreArchived`, `ArchivedRowIsInItsObject` is claimed only while it is false,
`ArchivedRowsWereUploaded` in all cases.

### AuditTrail
EXTENDS the logger and instantiates the archiver on one table. `StoreRows` and `RejectRows` are
the logger's outcomes of an INSERT with the rows they leave: a rejected one may have been
committed, which only the table shows. Rows of one INSERT share its number as `created_at`; the
rows of other replicas are the archiver's `InsertRows` and are not in the composition.
`DieWithRows` is the same for a process that dies during an INSERT. `TimerCycle` starts a cycle of
an interval timer, of this or another replica, `LastCycle` that of `shutdown()`, which runs after the flush and before `stop()`. Entries keep their identity on
the way, so `RepeatedOnlyIfInDoubt` can say why an entry is archived twice.

### UserLifecycle
The event of version v is the v-th the IAM issues; the IAM is external and issues only what
makes sense for a user (no event after a deletion, a re-enable only after a disable). `Apply`
is the whole transaction, so an event may be applied, then applied again, or acknowledged
without effect. `FailAttempt` counts up to the dead letter. `LegacyLost`
is a message of the legacy stream that failed: its loop never claims it again. Events are applied in any order,
since a failed one is claimed after its successors. `ensureLocalUser` is one SQL statement
whose `WHERE NOT EXISTS` reads a snapshot: `EnsureCheck` takes the snapshot, `EnsureInsert`
writes, `SelectUser` is the second read of `verify`. `raced` records an insert whose snapshot
a commit had overtaken: then a block can miss the row, and `BlockSticks` and
`AdmissionHonoursBlocks` say so instead of hiding it. A stale health heartbeat and every
other refusal of `verify` is the choice of `SelectUser` not to admit.

### SessionInvalidation
The block event, its redelivery to another replica and its dead letter; the transaction
(`Commit`) records the receipt, then `sMembers`, `del` of the sessions, `del` of the index
are steps of their own. `invalidateUser`, which comes first, touches other keys: its failure
is part of `Fail` at step `list`. A login stores its state (`BeginLogin`), takes it back once
(`TakeState`), is refused or, after the exchange of the code, sets the key, then the index.
The service access consumer performs the same steps. The module is checked as part of
`ServiceAccess`, and alone for `AckedBlockInvalidates`.

### ServiceAccess
IAM enables the service for the subject (version 1), disables or withdraws it (2), and enables it
again (3); the events are applied in any order. The one of version 2 is the event of
`SessionInvalidation`: `ApplyBlock` is its `Commit` with the state row and the keys.
`ApplyEnabled` is the transaction of the other two, which invalidate nothing. A session's request
is `Resolve`, `EnsureLocalUser` and, if it creates a key, `CreateKey`, statements apart; an MCP
token is verified by `BeginVerify` (the first SELECT of `verify`) and `AdmitToken` (its
`ensureLocalUser`). The two queries look at the row differently, `version >=` and `version =`,
and so do `Admits` and `VerifyMatch`. Two things a block misses are named by histories: `raced`,
a key whose INSERT ran after the block's UPDATE though its request was admitted before, and
`overtaken`, a block recorded after the re-enabling, which deactivates nothing. The stale health
heartbeat is one of the refusals. Taken for one are the client id of the events and that of the
verifier, both from the configuration; `auth:blacklist:user`, which the consumer writes, is read
by nothing under `src/` and left out.

### ApiKeyCache
`verify` is `Miss`, `Query`, `SetCache`, `AddToIndex`, `ExpireIndex`, each of which may be the
last (`VerifyFails`). Deactivations are `Revoke`, `Block`, `Reenable` (which also evicts) and
`LegacyBlock`, followed by the steps of `invalidateUser`. Times to live are kept as what is
left. EXPIRE of a missing index does nothing; SADD creates the index without a time to live.
`MaxLatency` is an assumption on the environment: a fill writes its entry at most so many
ticks after it read the row; without one a process that sleeps between the two could cache a
dead key at any time. Histories: `raced` (the key was being cached when an eviction listed
the index), `loose` (a failed or overtaken fill left the entry out of the index). In this
version of the repository no route calls `verify` (MCP requests carry OAuth tokens); the
class and the eviction calls are modelled because the consumers and the key service run them.

### DaemonReports and ReportLedger
`accept` runs in one transaction, in READ COMMITTED. `Lock` is BEGIN with the INSERT and the
SELECT ... FOR UPDATE of the head row, both of which wait for the transaction that has the
row. Then either `Replay` returns the stored receipt of the same report, or `Stamp` reads the
time of receipt, and `Commit` writes the report, the results of the jobs and the head.
`RollBack` is every refusal and every failure, at any step. What other transactions have
committed is read at each statement, what this one wrote becomes visible at `Commit`. The
answer may be lost (`Reply`). A report is its content: `payload_hash` is the identity of the
member of `Reports`. Whether a job result fits its job is not computed; a misfit is one of
the refusals. `ReportLedger` is the abstract view, without locks, handlers and job results:
reports enter a growing ledger, each newer than all before it, and receipts are read off it.
`ImplementsLedger` maps the ledger to the reports table and is an instance of its `Spec`.

### RequestRegistry
`Build` is `build()` up to its first connection: the clone is taken only if the request has an
upstream to add. `Connect`, `ConnectFails`, `AddRoute`, `DelegatedRouteFails` and
`CustomRouteFails` are the two loops, an upstream at a time, delegated ones first, with the
order within a kind left open. To close a connection is to await `terminateSession()` and then
`client.close()`; a connection is `"closing"` meanwhile, and `"unended"` for good if the former
threw. `CloseKept` begins this for all connections of a request, `KeptCloses` ends it for one.
`addCustomUpstream()` awaits it: `CustomCloses`, or `CustomCloseThrows`, which ends `build()`. `Serve` is the rest of the handler of `mcpRoutes.ts` up to its
`"close"` handler, `ServeFails` its failure, `ReplyCloses` the event, which may come at any
await. Which delegated upstreams are enabled is configuration, chosen in the initial states.
The code loses connections in five situations: a `close()` that throws, seen in the state of the
connection, and four in which nobody calls `close()`, which the history variable `reason` names.
`ConnectionsAreClosed` says exactly whose `close()` is never called then, and that nothing is
left otherwise. A
connection's tools do not change while it is open.

### GatewayRequest
`Invoke` is the tool callback up to the guardrail, `Judge` its awaited answer, `Route` that of
the virtual router, `Dispatch` (a part of both) the call of the upstream, `Settle` its end.
`Finish` is the audit entry `ToolInvocationContext` writes; what becomes of the entry is
`AuditLogger`'s matter. Arguments are of three kinds: refused by the sanitizer or contract,
holding a secret, clean; `Sanitizer`, `LeakGuard` and `ContractCheck` say what each check makes
of each kind, `Refusal` which checks a tool's call meets. Patterns of the policy, the user and the scopes are the sets of names
they match. The guardrail fails open, as `main.ts` configures it. A rejection by an open
breaker is one way `Dispatch` ends in ERROR. A call may be dispatched after the reply has
closed: shared upstreams then still receive it, the request's own ones until their client is
closed.

### DaemonRequests
A proof (`jti`, nonce, `iat`, purpose) may be sent any number of times, to any replica, within
the window around its `iat`. `Receive` is `verify()` up to its first await, `CheckNonce`,
`Challenge`, `Consume` its statements, `Refuse` every way it ends in an error. `Lookup`,
`IamAnswers`, `LookupEnds` are `authorize()`: what IAM says is read in the middle step, the age
of a cache entry counts from the first. Only the reader of reports caches (`main.ts` gives the
other one a life of 0). A device is a series of versions; enrolling it anew ends the
authorisation of the version before. IAM's changes (`Withdraw`, `Restore`, `Enrol`) are
external. All clocks are one. `MaxLatency` is an assumption on the environment: a proof is
used at most so long after its nonce was found valid; a process that sleeps between the two
statements for more than `ProofLife - NonceLife` (60 s) could accept a proof twice. Left out:
the token's own checks, the reader's own access token, and the web list of devices, whose
lookups fill the same cache in the same way.

### DaemonJobs and JobLedger
`Ask`, `CheckAuthority`, `Target` (then the steps of `authorize()`), `Lock`, and `ReturnPrior`
or `Insert` are `issue()`: the lock is the advisory lock of the request id, the transaction
ends with the handler. `Select`, `Recheck` (one record at a time, in any order), `Deliver` are
`pending()`. `Report` is the acceptance of a report as far as jobs see it: it may move the head
row and confirm a job, or let a confirmed one be unknown again. A reply may be lost, `IssueFails`
and `PendingFails` are the errors at any step, `Stop` ends the handlers of replicas, and a
restart of all may bring another signing key. An admin's role and two versions are one
`authority`; a session made without a service version, which skips one comparison, is left out.
The freshness and status of the head row, which may refuse a request, are not computed. Jobs
left over by the limit of 20 come with a later poll; the limit is left out.
`JobLedger` is the abstract view: entries are signed, once per id, under the key of the day;
answers name entries of the ledger; a poll receives entries of one version under one key.
Handlers, locks, IAM, time and the numbers of the jobs are not in it: an entry is what was asked,
by whom, for which version of the device, under which key (`Entered`). It adds to the invariants
that nothing ever leaves or changes in the table, and that an answer or a delivery made under a
key was of a job under that key at that moment. `ImplementsJobLedger` is an instance of its `Spec`.

### SchemaMigrations, MigrationList and MigrationLog
A process goes through `initializeDatabase()` one statement at a time, its `pc` naming the next:
the lock, the SELECT of the recorded versions, then for each migration that is missing BEGIN with
its statements, the INSERT of its version and COMMIT, the seed of the administrator, and the
unlock. A statement that does not fit the schema is refused, and the error path rolls back and
unlocks. A process may fail or die at any statement; PostgreSQL then ends its session and rolls
back. The database may start with any prefix of the migrations, and with the administrator, with
or without its permissions, or not. Of a migration's SQL only the
names remain that a later statement or a query of the code depends on; data is left out.
`MigrationsFollow`, evaluated by TLC on the real list, says that each migration fits what those
before it leave. `MigrationLog` is the abstract view: stages of a schema with their record, the
administrator after the last, and a set of processes that serve on it. It adds to the invariants
that no step goes back: a recorded migration stays, an administrator keeps the permissions.

## 3. Runs

| Run | Question | Bounds and why they are enough |
|---|---|---|
| `circuit_breaker` | Do late results corrupt state, slots or deadline? Does the breaker recover? | four calls, threshold 2, two slots: two late failures plus a full half-open period; reset timeout 2 distinguishes "not yet" from "elapsed" |
| `audit_trail` | Can an entry be lost, reordered or repeated on its way to R2; can a batch wedge the logger; is a marked row in the object it names? | three entries, batch and queue of two, one unstorable row: requeue with and without room, eviction, shutdown at any moment, entries logged after its flush, death at any moment; three rows, a timer's cycle and the last one, two milliseconds, one row a cycle: overlap, death and re-selection, and two cycles in one millisecond |
| `audit_logger_shutdown` (violation) | Does the shutdown record everything? | three entries suffice |
| `user_lifecycle` | Does a block hold, is it applied in the end? | three events (create, disable, and a re-enable or deletion), two attempts, one request; the safety properties are also proved for all bounds |
| `user_lifecycle_reenable` (violation) | Does a re-enable survive being overtaken? | four events: create, disable, re-enable, update |
| `service_access` | Does a completed invalidation end the known sessions? Does anything get in on an access that ended? Does a deactivated key stay so? | two replicas, two sessions, two attempts: takeover while the first replica is still at it; three versions in any order; enforcement on, and one request or verification in flight (`MaxRequests`), since each looks at the row alone |
| `session_invalidation_acked` (violation) | Does an acknowledged block end them? | one worker and one session suffice |
| `api_key_cache` | Does a revoked key keep authenticating? What escapes an eviction? | two fills and two evictions of one key; a second fill of the same key has every effect on the shared index's life that a fill of another key has. Life 2, latency 1: entry, fill and index expire at different ticks |
| `daemon_reports` | Do retries, reordering and concurrent replicas keep the head, the results and the receipts right? Is it the ledger? | two handlers (the lock admits one, a third only waits), five reports: three in order, one altered, one that reuses an id under another sequence; three clock values tell a new receipt from an old one |
| `gateway_request` | Which connections outlive their request, whom do its routes reach, what reaches an upstream, what does the audit say of it? | two requests of two users, one with two custom upstreams of which the second takes a shared name; any of two delegated upstreams; one call, which runs while the other request builds and after its own is closed: calls write nothing that another call reads; names that only the operator, only a user or nobody admits |
| `daemon_jobs` | Is a replayed proof, a withdrawn device, a retried or conflicting request for a job, a job whose approval or device ended, told from a good one? Is it the ledger? | two handlers on one replica, since the store is shared and the cache matters only to requests of one replica; three ticks: a nonce lives 2, a used proof 3 (the least that is safe with a latency of 1), a cache entry 2. `MCLoads` says what happens in one behaviour, because all at once is out of reach: two reports of a device that changes; one id asked for with two contents; a job issued, polled for and confirmed at once; the three requests one after another; one after another while the device, the admin or the replica changes twice |
| `schema_migrations` | Do replicas that start and die at once migrate once, wholly, and end up serving? Is it the log? | three processes: one that holds the lock, one that waits, one that took over or starts after; the fifteen migrations on every prefix |

Deadlock checking is off where a bound (entries, rows, time, events) or the program itself
(shutdown, the end of all requests) ends a behaviour; it is on for `circuit_breaker`,
`api_key_cache`, `daemon_reports` and `daemon_jobs`.

Three runs end in a violation, each of something the repository says of itself:

- `main.ts:229` promises that shutdown flushes the queue. `flush()` returns at once while
  another flush is in flight; what is queued behind it, or put back when its INSERT fails,
  is only in memory when the process ends. `OrderlyShutdownRecordsAll` is what does hold, of the
  entries logged before that flush; later ones are lost with the process.
- A test says a failed event "succeeds on redelivery". A re-enable overtaken by a profile
  update does not: the update raises `user_version`, the redelivered re-enable is refused as
  old and acknowledged, the `users` row stays BLOCKED.
- A test says a block "invalidates keys and sessions after commit". After a failure between
  COMMIT and the end of the invalidation the redelivery finds the receipt, skips the
  invalidation and is acknowledged. `CompletedInvalidationIsTotal` is what does hold.

A fourth disagreement needs no run: `src/README.md:71` says that a legacy disable evicts the
authentication cache, but `userSyncConsumer.ts:56` evicts the index of `tg_usr_<subject>` while
`ensureLocalUser.ts:46` gives users random identifiers. `ApiKeyCache` models it that way
(`LegacyInvalidate` changes no key), and `RevokedKeyExpires` bounds what is left.

## 4. Fairness

- `CircuitBreaker`: weak fairness of the clock, of every call settling (the MCP client has a
  request timeout), and of callers that keep calling. The two parts of `Recovers`
  (`NeverStuck`, `ClosesOnceFailuresStop`) need all three: the breaker only moves when called.
- `AuditTrail`: weak fairness of the timer (setInterval) and of a query settling. None on
  `log()`, on an INSERT succeeding, on the later stages of `shutdown()` or on R2. An entry that the
  flush of the shutdown does not cover may never be recorded (`Abandoned`), which the property
  `EveryEntryRecorded` names.
- `UserLifecycle`: weak fairness of applying and acknowledging a pending event, since the
  consumers loop and claim pending messages. None on attempts failing; an event that always
  fails is dead-lettered, which the property names.
- `SchemaMigrations`: weak fairness of each process's next step: a statement is answered, and
  an advisory lock that stays free is granted to one that waits. None on connecting, failing or
  dying.
- The other modules are checked for safety only.

## 5. Proofs

All proofs are for every value of the constants, from the named assumptions in the modules
(positive thresholds, lives and limits; a finite set of calls). In each an invariant
(`IInv`, `BreakerInv`, `SessionInv`, `AccessInv`) is inductive:
`Init => IInv`, one lemma per action or group of actions, `IInv => property`.

- **AuditTrailProofs**, the logger: memory is always the suffix `Buffered` of the entries logged,
  stated without recursion as `Recent(n)`; requeue puts the batch in front, so consecutive
  numbers stay consecutive. No entry vanishes because what leaves the suffix is stored or in the
  file. That a repeated row is excused needs one more conjunct: a row that is stored and still
  held in memory is `unsure`. `RetriesFirst` gives the bound of the retries. `OrderlyShutdown`
  needs that nothing the flush saw is queued while its INSERT is awaited, and that what is queued
  of it afterwards is in the file (`QueuedSeen`, `SeenRecordedOnShutdown`); entries logged later
  change neither.
- **AuditTrailProofs**, the composition: `TrailRunsTheLogger` and `TrailRunsTheArchiver` show that
  it implements the specification of either part, so the logger's theorems hold of it.
  `MarkedAreArchived` needs that what is about to be marked was uploaded (`UploadedFirst`) and
  that cycles have keys of their own while none shares a millisecond (`OwnObjects`).
  `RepetitionsAreInDoubt` joins the logger's invariant to the table (`RowsCounted`: two rows of an
  entry are counted as two) and the table to the objects (`ObjectsDisjoint`: without a death or an
  overlap a row is in one object only).
- **UserLifecycleProofs**: that a block sticks needs the relation between the row's version
  and the mirror's, that tokens are issued only for versions in which the user is active, and
  that IAM issues nothing after a deletion.
- **ApiKeyCacheProofs**: the deadline of a dead key is not inductive alone, since an old fill
  may start a new life for it; `FillsAreRecent` says the key has been dead no longer than the
  fill is old, and `LiveKeysCountNothing` starts that clock at zero. `OnlyRacesEscape` follows
  from `Escapes`: a running index outlives the entries it names (`IndexOutlives`), what it names
  is known to the deactivation that deletes it (`IndexIsListed`), and a revoked key has no fill
  but those seen when the index was listed (`FillsWereSeen`).
- **DaemonReportsProofs**: what a handler found before it wrote must still hold when it
  writes; `WriterIsNewest` says so, and is preserved because `TypeOK` leaves one holder of the
  head row. With it the written report is newer than all stored ones, hence `HeadIsNewest`,
  `LatestResultWins` (the stored sequence of a job never exceeds the head's) and
  `RowsDiffer`, from which one receipt per report follows. `Refinement` is the step
  simulation under that invariant: `Commit` is `Accept`, `Replay` is `Answer`, the rest
  stutters.
- **GatewayRequestProofs**: for any number of requests, calls, users and upstreams and any
  policy. `OpenIsInUse` says a request's open connections are the ones it keeps and the one in
  its hands, unless it awaits its `close()`, `OwnRegistry` that whoever adds routes has a clone of their own; together they
  make `ConnectionsAreClosed` and `RoutesArePrivate` inductive. `ServedRequestsAreSettled`
  then shows that the registry and the policy of a call do not change at its awaits, so that
  a check made before one still holds after it (`CallsInOrder`), from which
  `OnlyCheckedCallsReach` and `AuditTellsTheTruth` follow.
- **GatewayRequestProofs**, the breaker of an upstream: the safety properties are inductive
  together. A slot is only accounted for if the breaker cannot be half-open with a recent failure,
  and that needs the deadline to exist, which needs the count to agree with the state:
  `OpenHasDeadline` and `HalfOpenIsRested`, stated in the proof module. The action property
  `AdmissionsAfterOpening` follows from the invariant and the definition of `Admit`.
- **ServiceAccessProofs**, the sessions: `CompletedInvalidationIsTotal` speaks of the end of an
  invalidation; `NoneIsMissed` says what each of its Redis commands leaves to the next: the known
  sessions are in the index, then in the keys read from it, then gone. That no login brings one
  back needs `IndexedAreLoggedIn`: the SADD comes after the SET, so what is indexed has its key
  set for the last time. The receipt keeps a second worker from invalidating (`OneInvalidation`).
  The bound of the retries in `TypeOK` rests on `AttemptsAreLimited`, which counts the workers
  that are still busy with an event already given up. `WorkersAssumption` (finitely many workers)
  is there for that count.
- **ServiceAccessProofs**, the access: `AccessRunsTheInvalidation` shows that the composition
  implements `SessionInvalidation`, so the session theorems hold of it. `RowFollowsNewest` is
  inductive with `OvertakenByThree`; `RevokedKeysStayDead` and `OldAccessIsRefused` need beyond it
  that a session has the version of its token (`VersionsAreLoggedIn`) and that an MCP token was
  matched with a row of its own version (`MatchedIsRecorded`).
- **DaemonJobsProofs**: for any number of handlers, replicas, proofs, requests and admins. That
  a proof is honoured once needs `ProofsOutliveNonces`: whatever was accepted is remembered
  until its nonce is over and a request that had found the nonce valid has ended, which is
  where `NonceLife + MaxLatency <= ProofLife` is used. `LookupsAreHonest` says that a cached or
  answered lookup began while the device was authorised, hence `WithdrawnDeviceIsRefused`.
  `OneJobPerId` holds because the lock in `TypeOK` leaves one transaction per request id, and
  with it all answers agree. `PollsAreSound` carries what the SELECT and the rechecks of a poll
  established to its delivery, each up to what has ended since the lookup began. `Refinement`
  shows under that invariant that `Insert` is the ledger's `Sign` (the lookup under the lock found
  nothing of that id), `ReturnPrior` its `Answer`, `Deliver` its `Deliver`, a restart with another
  key its `Retire`; all other steps, those of the authentication included, stutter.
- **SchemaMigrationsProofs**: for any number of processes and any list of migrations that follow
  one another. The lock makes what a process has read, and done since, all that is recorded
  (`ReadIsCurrent`), hence no migration is run twice or on a schema it does not fit, and whoever
  serves has seen all of them recorded (`MigratedWholly`). `HeldWhileNeeded` says of the lock that
  whoever is under it holds it and whoever holds it is under it: it is not orphaned by an error or
  a death. `StartsAreFinite` is a variant: each step of a process uses up one of at most
  `3 * Count + 13`. The two are the safety half of `EveryStartEnds`: a start could hang only at
  the lock, and there it waits for a process with finitely many steps to go. `Refinement` maps `Commit` to `Migrate`, `Seed`
  and `Grant` to the two steps of the log's `Seed` or to nothing, `Listen` to `Serve`, a death to
  `Stop`; `ProvisionNamesake` stutters because nobody serves before the administrator is there.

Type correctness is a theorem of every module that is proved about (`Types`, `BreakerTypes`,
`TypeCorrect`, `TrailTypes`, `AccessTypes`), for every value of the constants, so no run repeats it.

Every safety property of a passing run, action properties and refinements included, is stated by a
theorem. Only model-checked are the liveness properties (`Recovers`, `EveryEntryRecorded`,
`BlockIsAppliedOrDead`, `EveryStartEnds`): neither fairness nor ENABLED is in the prover's reach.
The properties of the runs that end in a violation are false and have no theorem. No module that
is proved about has a RECURSIVE operator, and no theorem rests on induction over data, which the
installed provers cannot instantiate: that the fifteen migrations satisfy `MigrationsFollow`, the
assumption of `SchemaMigrationsProofs`, is evaluated by TLC.

## 6. Not modelled, and the plan

Left out for good: string content (sanitizers, URL and secret patterns, JWTs, PKCE, markup,
encryption), configuration parsing, the dashboard, and CRUD of custom upstreams, which is single
statements. `PROJECT.json` says for each component what of it is left out.

Two hazards have no property. A legacy disable that is read after the re-enabling was applied
makes the row inactive again (`userSyncConsumer.ts:37`): nothing in the code prevents it, and
nothing promises otherwise. A `checked_at` ahead of the gateway's clock, which `authority()`
accepts for 5 seconds, makes `verify()` refuse the job it is about to sign (`jobs/contract.ts:92`):
`DaemonJobs` has one clock.

What a further step would add, in this order:

1. Two clocks in `DaemonJobs`, that of IAM and that of the gateway.
2. The reports of `DaemonReports` in `DaemonJobs`, whose `Report` abstracts them.
3. The calls of `GatewayRequest` through `CircuitBreaker` and into `AuditTrail`.
4. `ToolAccess`: pattern matching and the policy as pure operators against a reference, to
   replace the sets of names in `GatewayRequest`.
