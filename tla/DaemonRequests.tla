---------------------------- MODULE DaemonRequests ----------------------------
(***************************************************************************)
(* Authentication of the daemon's requests: ManagementVerifier.verify      *)
(* (daemonManagement/verifier.ts), its nonces and proofs in PostgreSQL     *)
(* (postgresStore.ts), and IamDeviceReader.authorize (iamReader.ts).       *)
(*                                                                         *)
(* A request carries a DPoP proof, which anybody who saw it may send       *)
(* again, to any replica.  Its nonce is checked, the proof is consumed,    *)
(* the device is looked up at IAM or in the replica's cache: each is       *)
(* awaited.  A device is a series of versions: enrolling it again, with a  *)
(* new key, makes the next one.  What is decided by looking at the token   *)
(* and the proof alone is left out: a request that fails there leaves no   *)
(* trace.                                                                  *)
(***************************************************************************)
EXTENDS Naturals

CONSTANTS
  Handlers,     \* requests handled at the same time
  Replicas,
  Nonces,       \* bound: the nonces there are
  Proofs,       \* proofs that may be sent: jti, nonce, iat and purpose
  NonceLife,    \* 60 s in the code
  ProofWindow,  \* 60 s: how old a proof may be
  Skew,         \* 5 s: how far ahead the daemon's clock may be
  ProofLife,    \* 120 s: how long a used proof is remembered
  CacheLife,    \* 15 s: age of a cached answer, and limit of a lookup
  MaxLatency,   \* assumed: ticks from reading the nonce to using the proof
  MaxVersion,   \* bound: versions of the device
  Loads,        \* bound: what may be sent and change in one behaviour
  MaxTime       \* bound: the last tick of a behaviour

Purposes == {"report", "jobs", "issue"}   \* "issue": not sent by the daemon
Versions == 1..MaxVersion
Ids == {p.jti : p \in Proofs}

ASSUME LivesAssumption ==
  /\ {NonceLife, ProofWindow, Skew, ProofLife, CacheLife, MaxLatency}
       \subseteq Nat
  /\ NonceLife + MaxLatency <= ProofLife
ASSUME BoundsAssumption == MaxVersion \in Nat \ {0} /\ MaxTime \in Nat
ASSUME LoadsAssumption ==
  \A l \in Loads : l.handlers \subseteq Handlers /\ l.proofs \subseteq Proofs
                    /\ l.changes \in Nat
ASSUME ProofsAssumption ==
  /\ Replicas # {} /\ Proofs # {}
  /\ \A p \in Proofs :
       p.nonce \in Nonces /\ p.iat \in Nat /\ p.purpose \in Purposes

VARIABLES
  load,         \* what happens: handlers at work, proofs sent, changes
  changes,      \* how many changes, at IAM and stops, there have been
  now,          \* every clock
  nonceUntil,   \* expiry of a nonce, 0 before it is issued
  proofUntil,   \* expiry of a used jti, 0 before its use
  honoured,     \* history: how often a proof was accepted
  enrolled,     \* the device's current version
  ended,        \* IAM: since when a version is not authorised, 0 if it is
  cache,        \* per replica and version: start of the lookup, 0 if none
  step,         \* where each handler is
  request,      \* what it handles
  since,        \* when it read the nonce, later: began the lookup
  answer        \* what IAM answered it

bounds == <<load, changes>>
shared == <<nonceUntil, proofUntil, honoured>>
iam == <<enrolled, ended>>
locals == <<step, request, since, answer>>
requestVars == <<bounds, now, shared, iam, cache, locals>>

(* The last four steps are those of DaemonJobs.                            *)
Steps == {"idle", "nonce", "consume", "authorize", "lookup", "answer",
          "passed", "authority", "target", "locked", "recheck"}

Blank ==        \* what an idle handler holds, never read
  [purpose |-> "report", replica |-> CHOOSE r \in Replicas : TRUE,
   proof |-> CHOOSE p \in Proofs : TRUE, version |-> 1]

RequestTypeOK ==
  /\ load \in Loads
  /\ changes \in Nat
  /\ now \in Nat \ {0}
  /\ nonceUntil \in [Nonces -> Nat]
  /\ proofUntil \in [Ids -> Nat]
  /\ honoured \in [Proofs -> Nat]
  /\ enrolled \in Versions
  /\ ended \in [Versions -> Nat]
  /\ cache \in [Replicas -> [Versions -> Nat]]
  /\ step \in [Handlers -> Steps]
  /\ request \in [Handlers -> [purpose : Purposes, replica : Replicas,
                               proof : Proofs, version : Versions]]
  /\ since \in [Handlers -> Nat]
  /\ answer \in [Handlers -> BOOLEAN]

RequestInit ==
  /\ load \in Loads
  /\ changes = 0
  /\ now = 1
  /\ nonceUntil = [n \in Nonces |-> 0]
  /\ proofUntil = [i \in Ids |-> 0]
  /\ honoured = [p \in Proofs |-> 0]
  /\ enrolled = 1
  /\ ended = [v \in Versions |-> IF v = 1 THEN 0 ELSE 1]
  /\ cache = [r \in Replicas |-> [v \in Versions |-> 0]]
  /\ step = [h \in Handlers |-> "idle"]
  /\ request = [h \in Handlers |-> Blank]
  /\ since = [h \in Handlers |-> 0]
  /\ answer = [h \in Handlers |-> FALSE]

-----------------------------------------------------------------------------
(* verify() *)

Goto(h, next) == step' = [step EXCEPT ![h] = next]

End(h) ==
  /\ Goto(h, "idle")
  /\ request' = [request EXCEPT ![h] = Blank]
  /\ since' = [since EXCEPT ![h] = 0]
  /\ answer' = [answer EXCEPT ![h] = FALSE]

(* A request whose token, made for version v of the device, and proof are  *)
(* in order.  A proof with a nonce cannot be older than the nonce.         *)
Receive(h, p, v, r) ==
  /\ step[h] = "idle"
  /\ nonceUntil[p.nonce] # 0
  /\ now <= p.iat + ProofWindow /\ p.iat <= now + Skew
  /\ v <= enrolled
  /\ request' = [request EXCEPT ![h] =
       [purpose |-> p.purpose, replica |-> r, proof |-> p, version |-> v]]
  /\ Goto(h, "nonce")
  /\ UNCHANGED <<bounds, now, shared, iam, cache, since, answer>>

(* use_dpop_nonce: a request without a nonce, or with one that is over, is *)
(* answered with a new one.                                                *)
Challenge(h, n) ==
  /\ \/ step[h] = "idle"
     \/ step[h] = "nonce" /\ nonceUntil[request[h].proof.nonce] <= now
  /\ nonceUntil[n] = 0
  /\ nonceUntil' = [nonceUntil EXCEPT ![n] = now + NonceLife]
  /\ End(h)
  /\ UNCHANGED <<bounds, now, proofUntil, honoured, iam, cache>>

(* validNonce()                                                            *)
CheckNonce(h) ==
  /\ step[h] = "nonce"
  /\ now < nonceUntil[request[h].proof.nonce]
  /\ since' = [since EXCEPT ![h] = now]
  /\ Goto(h, "consume")
  /\ UNCHANGED <<bounds, now, shared, iam, cache, request, answer>>

ConsumeUnchecked(h) ==         \* slip: ON CONFLICT DO UPDATE without WHERE
  /\ step[h] = "consume"
  /\ LET p == request[h].proof IN
       /\ proofUntil' = [proofUntil EXCEPT ![p.jti] = now + ProofLife]
       /\ honoured' = [honoured EXCEPT ![p] = @ + 1]
  /\ Goto(h, "authorize")
  /\ UNCHANGED <<bounds, now, nonceUntil, iam, cache, request, since, answer>>

(* consumeProof(): the one INSERT ... ON CONFLICT DO UPDATE ... WHERE it   *)
(* has expired RETURNING key.                                              *)
Consume(h) ==
  /\ step[h] = "consume"
  /\ LET p == request[h].proof IN
       /\ proofUntil[p.jti] <= now
       /\ proofUntil' = [proofUntil EXCEPT ![p.jti] = now + ProofLife]
       /\ honoured' = [honoured EXCEPT ![p] = @ + 1]
  /\ Goto(h, "authorize")
  /\ UNCHANGED <<bounds, now, nonceUntil, iam, cache, request, since, answer>>

(* The statement that prunes used proofs fails, or its answer is lost: the *)
(* proof is used up and the request refused.                               *)
ConsumedInVain(h) ==
  /\ step[h] = "consume"
  /\ LET jti == request[h].proof.jti IN
       /\ proofUntil[jti] <= now
       /\ proofUntil' = [proofUntil EXCEPT ![jti] = now + ProofLife]
  /\ End(h)
  /\ UNCHANGED <<bounds, now, nonceUntil, honoured, iam, cache>>

(* A proof used before, or any failure: 401, 403 or 503.                   *)
Refuse(h) ==
  /\ step[h] \in {"nonce", "consume", "lookup", "answer", "passed"}
  /\ request[h].purpose # "issue"
  /\ End(h)
  /\ UNCHANGED <<bounds, now, shared, iam, cache>>

-----------------------------------------------------------------------------
(* authorize().  Only the reader of reports caches: that of jobs is made   *)
(* with a cache life of 0 (main.ts).                                       *)

Fresh(h) ==
  LET start == cache[request[h].replica][request[h].version] IN
    request[h].purpose = "report" /\ start # 0 /\ now < start + CacheLife

UseCache(h) ==
  /\ step[h] = "authorize"
  /\ Fresh(h)
  /\ Goto(h, "passed")
  /\ UNCHANGED <<bounds, now, shared, iam, cache, request, since, answer>>

Lookup(h) ==
  /\ step[h] = "authorize"
  /\ ~Fresh(h)
  /\ cache' = IF request[h].purpose = "report"
              THEN [cache EXCEPT ![request[h].replica][request[h].version] = 0]
              ELSE cache
  /\ since' = [since EXCEPT ![h] = now]
  /\ Goto(h, "lookup")
  /\ UNCHANGED <<bounds, now, shared, iam, request, answer>>

(* IAM compares the device's state with every version of the identity.     *)
IamAnswers(h) ==
  /\ step[h] = "lookup"
  /\ answer' = [answer EXCEPT ![h] = (ended[request[h].version] = 0)]
  /\ Goto(h, "answer")
  /\ UNCHANGED <<bounds, now, shared, iam, cache, request, since>>

(* The cache of a replica r with an entry for version v; a full one is     *)
(* emptied before.                                                         *)
Filled(r, v, start) ==
  {[cache EXCEPT ![r] = [[u \in Versions |-> IF full THEN 0 ELSE cache[r][u]]
                           EXCEPT ![v] = start]] : full \in BOOLEAN}

LookupEndsCachingTheEnd(h) ==  \* slip: the entry's age counts from the answer
  /\ step[h] = "answer"
  /\ answer[h]
  /\ now < since[h] + CacheLife
  /\ IF request[h].purpose = "report"
     THEN cache' \in Filled(request[h].replica, request[h].version, now)
     ELSE cache' = cache
  /\ Goto(h, "passed")
  /\ UNCHANGED <<bounds, now, shared, iam, request, since, answer>>

LookupEnds(h) ==
  /\ step[h] = "answer"
  /\ answer[h]
  /\ now < since[h] + CacheLife
  /\ IF request[h].purpose = "report"
     THEN cache' \in Filled(request[h].replica, request[h].version, since[h])
     ELSE cache' = cache
  /\ Goto(h, "passed")
  /\ UNCHANGED <<bounds, now, shared, iam, request, since, answer>>

-----------------------------------------------------------------------------
(* The environment: IAM withdraws the device's authorisation, gives it     *)
(* back, or enrols the device anew; the clock.                             *)

Another == changes < load.changes /\ changes' = changes + 1

Withdraw ==
  /\ Another
  /\ ended[enrolled] = 0
  /\ ended' = [ended EXCEPT ![enrolled] = now]
  /\ UNCHANGED <<load, now, shared, enrolled, cache, locals>>

Restore ==
  /\ Another
  /\ ended[enrolled] # 0
  /\ ended' = [ended EXCEPT ![enrolled] = 0]
  /\ UNCHANGED <<load, now, shared, enrolled, cache, locals>>

Enrol ==
  /\ Another
  /\ enrolled < MaxVersion
  /\ ended' = [ended EXCEPT ![enrolled] = IF @ = 0 THEN now ELSE @,
                            ![enrolled + 1] = 0]
  /\ enrolled' = enrolled + 1
  /\ UNCHANGED <<load, now, shared, cache, locals>>

Tick ==
  /\ now < MaxTime
  /\ \A h \in Handlers : step[h] = "consume" => now < since[h] + MaxLatency
  /\ now' = now + 1
  /\ UNCHANGED <<bounds, shared, iam, cache, locals>>

Handle(h) ==
  \/ \E p \in load.proofs, v \in Versions, r \in Replicas : Receive(h, p, v, r)
  \/ \E n \in Nonces : Challenge(h, n)
  \/ CheckNonce(h)
  \/ Consume(h)
  \/ ConsumedInVain(h)
  \/ Refuse(h)
  \/ UseCache(h)
  \/ Lookup(h)
  \/ IamAnswers(h)
  \/ LookupEnds(h)

RequestNext ==
  (\E h \in load.handlers : Handle(h)) \/ Withdraw \/ Restore \/ Enrol \/ Tick

-----------------------------------------------------------------------------
(* However often, where and how late a proof is sent, alone or several     *)
(* times at once, it is accepted once: "proof IDs are atomically consumed  *)
(* for 120 seconds" (docs/daemon-management-v1.md) is long enough because  *)
(* the proof's nonce is over by then.                                      *)
ProofHonouredOnce == \A p \in Proofs : honoured[p] <= 1
=============================================================================
