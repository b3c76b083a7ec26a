--------------------------- MODULE DaemonJobsProofs ---------------------------
(***************************************************************************)
(* Proofs about DaemonRequests and DaemonJobs, for any number of handlers, *)
(* replicas, proofs, nonces, admins and requests and all lives that        *)
(* satisfy LivesAssumption.                                                *)
(***************************************************************************)
EXTENDS DaemonJobs, TLAPS

(* A proof that was accepted is remembered for longer than its nonce and   *)
(* the time from reading the nonce to using the proof.                     *)
ProofsOutliveNonces ==
  /\ \A n \in Nonces : nonceUntil[n] <= now + NonceLife
  /\ \A p \in Proofs :
       honoured[p] # 0 =>
         /\ honoured[p] = 1
         /\ nonceUntil[p.nonce] # 0
         /\ nonceUntil[p.nonce] + ProofLife <= proofUntil[p.jti] + NonceLife
  /\ \A h \in Handlers :
       step[h] = "consume" =>
         /\ since[h] < nonceUntil[request[h].proof.nonce]
         /\ now <= since[h] + MaxLatency

(* Since the time t, version v was authorised at some moment.              *)
AuthorisedSince(v, t) == ended[v] = 0 \/ ended[v] >= t

(* A cached lookup, one that was answered and one that let a request pass  *)
(* began when the device was still authorised, or before.                  *)
LookupsAreHonest ==
  /\ \A r \in Replicas, v \in Versions :
       /\ cache[r][v] <= now
       /\ cache[r][v] # 0 => AuthorisedSince(v, cache[r][v])
  /\ \A h \in Handlers :
       /\ since[h] <= now
       /\ \/ step[h] = "answer" /\ answer[h]
          \/ /\ step[h] \in {"passed", "locked", "recheck"}
             /\ request[h].purpose # "report"
          => AuthorisedSince(request[h].version, since[h])

RequestInv == RequestTypeOK /\ ProofsOutliveNonces /\ LookupsAreHonest

OneJobPerId == \A i, j \in jobs : i.asks.id = j.asks.id => i = j

(* What a polling handler holds fitted its SELECT, and what it will        *)
(* deliver the check after it.                                             *)
PollsAreSound ==
  \A h \in Handlers :
    /\ step[h] = "recheck" => request[h].purpose = "jobs"
    /\ step[h] # "recheck" => todo[h] = {} /\ out[h] = {}
    /\ \A j \in todo[h] \cup out[h] :
         /\ j.kid = kid /\ since[h] < j.exp
         /\ confirmedAt[j.number] = 0 \/ confirmedAt[j.number] >= since[h]
    /\ \A j \in out[h] :
         /\ j.version = request[h].version
         /\ Approved(j.by, j.approval) \/ changedAt[j.by] >= since[h]

IInv ==
  RequestInv /\ TablesTypeOK /\ WorkTypeOK /\ LocksTypeOK
  /\ OneJobPerId /\ OneJobPerRequest /\ PollsAreSound

-----------------------------------------------------------------------------
(* Authentication: one lemma per action of DaemonRequests.                 *)

LEMMA ConstantsAreTyped ==
  /\ NonceLife \in Nat /\ ProofLife \in Nat /\ CacheLife \in Nat
  /\ MaxLatency \in Nat /\ NonceLife + MaxLatency <= ProofLife
  /\ \A p \in Proofs : p.jti \in Ids /\ p.nonce \in Nonces /\ p.purpose \in Purposes
  /\ Blank \in [purpose : Purposes, replica : Replicas, proof : Proofs,
                version : Versions]
  /\ 1 \in Versions
<1>1. (CHOOSE r \in Replicas : TRUE) \in Replicas /\ (CHOOSE p \in Proofs : TRUE) \in Proofs
  BY ProofsAssumption
<1>2. 1 \in Versions BY BoundsAssumption, SMT DEF Versions
<1>3. Blank \in [purpose : Purposes, replica : Replicas, proof : Proofs,
                 version : Versions]
  BY <1>1, <1>2 DEF Blank, Purposes
<1>4. QED BY <1>2, <1>3, LivesAssumption, ProofsAssumption, SMT DEF Ids

LEMMA InitRequests == RequestInit => RequestInv
<1> SUFFICES ASSUME RequestInit PROVE RequestInv OBVIOUS
<1>1. RequestTypeOK
  BY ConstantsAreTyped, SMT DEF RequestInit, RequestTypeOK, Steps
<1>2. ProofsOutliveNonces
  BY ConstantsAreTyped, SMT DEF RequestInit, ProofsOutliveNonces
<1>3. LookupsAreHonest
  BY SMT DEF RequestInit, LookupsAreHonest, AuthorisedSince
<1>4. QED BY <1>1, <1>2, <1>3 DEF RequestInv

LEMMA ReceiveKeeps ==
    ASSUME RequestInv, NEW h \in Handlers, NEW p \in Proofs, NEW v \in Versions,
           NEW r \in Replicas, Receive(h, p, v, r)
    PROVE  RequestInv'
<1> USE DEF RequestInv, Receive, Goto, bounds, shared, iam
<1>1. RequestTypeOK' BY ConstantsAreTyped, SMT DEF RequestTypeOK, Steps
<1>2. ProofsOutliveNonces' BY SMT DEF RequestTypeOK, ProofsOutliveNonces
<1>3. LookupsAreHonest' BY SMT DEF RequestTypeOK, LookupsAreHonest, AuthorisedSince
<1>4. QED BY <1>1, <1>2, <1>3

LEMMA ChallengeKeeps ==
    ASSUME RequestInv, NEW h \in Handlers, NEW n \in Nonces, Challenge(h, n)
    PROVE  RequestInv'
<1> USE DEF RequestInv, Challenge, End, Goto, bounds, iam
<1>1. RequestTypeOK' BY ConstantsAreTyped, SMT DEF RequestTypeOK, Steps
<1>2. ProofsOutliveNonces'
  BY ConstantsAreTyped, SMT DEF RequestTypeOK, ProofsOutliveNonces
<1>3. LookupsAreHonest' BY SMT DEF RequestTypeOK, LookupsAreHonest, AuthorisedSince
<1>4. QED BY <1>1, <1>2, <1>3

LEMMA CheckNonceKeeps ==
    ASSUME RequestInv, NEW h \in Handlers, CheckNonce(h)
    PROVE  RequestInv'
<1> USE DEF RequestInv, CheckNonce, Goto, bounds, shared, iam
<1>1. RequestTypeOK' BY SMT DEF RequestTypeOK, Steps
<1>2. ProofsOutliveNonces'
  BY ConstantsAreTyped, SMT DEF RequestTypeOK, ProofsOutliveNonces
<1>3. LookupsAreHonest' BY SMT DEF RequestTypeOK, LookupsAreHonest, AuthorisedSince
<1>4. QED BY <1>1, <1>2, <1>3

LEMMA ConsumeKeeps ==
    ASSUME RequestInv, NEW h \in Handlers, Consume(h)
    PROVE  RequestInv'
<1> USE DEF RequestInv, Consume, Goto, bounds, iam
<1> DEFINE p == request[h].proof
<1>1. p \in Proofs /\ p.jti \in Ids /\ p.nonce \in Nonces
  BY ConstantsAreTyped DEF RequestTypeOK
<1>2. RequestTypeOK' BY <1>1, ConstantsAreTyped, SMT DEF RequestTypeOK, Steps
<1>3. honoured[p] = 0
  BY <1>1, ConstantsAreTyped, SMT DEF RequestTypeOK, ProofsOutliveNonces
<1>4. nonceUntil[p.nonce] # 0
  BY <1>1, SMT DEF RequestTypeOK, ProofsOutliveNonces
<1>5. ProofsOutliveNonces'
  BY <1>1, <1>3, <1>4, ConstantsAreTyped, SMT DEF RequestTypeOK, ProofsOutliveNonces
<1>6. LookupsAreHonest' BY SMT DEF RequestTypeOK, LookupsAreHonest, AuthorisedSince
<1>7. QED BY <1>2, <1>5, <1>6

LEMMA ConsumedInVainKeeps ==
    ASSUME RequestInv, NEW h \in Handlers, ConsumedInVain(h)
    PROVE  RequestInv'
<1> USE DEF RequestInv, ConsumedInVain, End, Goto, bounds, iam
<1>1. RequestTypeOK' BY ConstantsAreTyped, SMT DEF RequestTypeOK, Steps
<1>2. ProofsOutliveNonces'
  BY ConstantsAreTyped, SMT DEF RequestTypeOK, ProofsOutliveNonces
<1>3. LookupsAreHonest' BY SMT DEF RequestTypeOK, LookupsAreHonest, AuthorisedSince
<1>4. QED BY <1>1, <1>2, <1>3

LEMMA RefuseKeeps ==
    ASSUME RequestInv, NEW h \in Handlers, Refuse(h)
    PROVE  RequestInv'
<1> USE DEF RequestInv, Refuse, End, Goto, bounds, shared, iam
<1>1. RequestTypeOK' BY ConstantsAreTyped, SMT DEF RequestTypeOK, Steps
<1>2. ProofsOutliveNonces' BY SMT DEF RequestTypeOK, ProofsOutliveNonces
<1>3. LookupsAreHonest' BY SMT DEF RequestTypeOK, LookupsAreHonest, AuthorisedSince
<1>4. QED BY <1>1, <1>2, <1>3

LEMMA UseCacheKeeps ==
    ASSUME RequestInv, NEW h \in Handlers, UseCache(h)
    PROVE  RequestInv'
<1> USE DEF RequestInv, UseCache, Fresh, Goto, bounds, shared, iam
<1>1. RequestTypeOK' BY SMT DEF RequestTypeOK, Steps
<1>2. ProofsOutliveNonces' BY SMT DEF RequestTypeOK, ProofsOutliveNonces
<1>3. LookupsAreHonest' BY SMT DEF RequestTypeOK, LookupsAreHonest, AuthorisedSince
<1>4. QED BY <1>1, <1>2, <1>3

LEMMA LookupKeeps ==
    ASSUME RequestInv, NEW h \in Handlers, Lookup(h)
    PROVE  RequestInv'
<1> USE DEF RequestInv, Lookup, Goto, bounds, shared, iam
<1>1. /\ cache' \in [Replicas -> [Versions -> Nat]]
      /\ \A r \in Replicas, v \in Versions :
           cache'[r][v] = cache[r][v] \/ cache'[r][v] = 0
  BY SMT DEF RequestTypeOK
<1>2. RequestTypeOK' BY <1>1, SMT DEF RequestTypeOK, Steps
<1>3. ProofsOutliveNonces' BY SMT DEF RequestTypeOK, ProofsOutliveNonces
<1>4. LookupsAreHonest'
  BY <1>1, SMT DEF RequestTypeOK, LookupsAreHonest, AuthorisedSince
<1>5. QED BY <1>2, <1>3, <1>4

LEMMA IamAnswersKeeps ==
    ASSUME RequestInv, NEW h \in Handlers, IamAnswers(h)
    PROVE  RequestInv'
<1> USE DEF RequestInv, IamAnswers, Goto, bounds, shared, iam
<1>1. RequestTypeOK' BY SMT DEF RequestTypeOK, Steps
<1>2. ProofsOutliveNonces' BY SMT DEF RequestTypeOK, ProofsOutliveNonces
<1>3. /\ answer'[h] => ended[request[h].version] = 0
      /\ \A g \in Handlers \ {h} : answer'[g] = answer[g] /\ step'[g] = step[g]
      /\ step'[h] = "answer"
  BY DEF RequestTypeOK
<1>4. LookupsAreHonest'
  BY <1>3, SMT DEF LookupsAreHonest, AuthorisedSince
<1>5. QED BY <1>1, <1>2, <1>4

LEMMA LookupEndsKeeps ==
    ASSUME RequestInv, NEW h \in Handlers, LookupEnds(h)
    PROVE  RequestInv'
<1> USE DEF RequestInv, LookupEnds, Goto, bounds, shared, iam
<1> DEFINE r == request[h].replica
           v == request[h].version
<1>1. r \in Replicas /\ v \in Versions BY DEF RequestTypeOK
<1>2. /\ cache' \in [Replicas -> [Versions -> Nat]]
      /\ \A q \in Replicas, u \in Versions :
           \/ cache'[q][u] = cache[q][u] \/ cache'[q][u] = 0
           \/ u = v /\ cache'[q][u] = since[h]
  <2>1. CASE cache' = cache BY <2>1 DEF RequestTypeOK
  <2>2. CASE cache' \in Filled(r, v, since[h])
    <3>1. PICK full \in BOOLEAN :
            cache' = [cache EXCEPT ![r] =
              [[u \in Versions |-> IF full THEN 0 ELSE cache[r][u]]
                 EXCEPT ![v] = since[h]]]
      BY <2>2 DEF Filled
    <3>2. QED BY <1>1, <3>1, SMT DEF RequestTypeOK
  <2>3. QED BY <2>1, <2>2
<1>3. RequestTypeOK' BY <1>2, SMT DEF RequestTypeOK, Steps
<1>4. ProofsOutliveNonces' BY SMT DEF RequestTypeOK, ProofsOutliveNonces
<1>5. AuthorisedSince(v, since[h]) /\ since[h] <= now
  BY SMT DEF LookupsAreHonest
<1>6. \A q \in Replicas, u \in Versions :
        /\ cache'[q][u] <= now
        /\ cache'[q][u] # 0 => AuthorisedSince(u, cache'[q][u])
  <2> SUFFICES ASSUME NEW q \in Replicas, NEW u \in Versions
               PROVE  /\ cache'[q][u] <= now
                      /\ cache'[q][u] # 0 => AuthorisedSince(u, cache'[q][u])
    OBVIOUS
  <2>1. CASE cache'[q][u] = cache[q][u] BY <2>1 DEF LookupsAreHonest
  <2>2. CASE cache'[q][u] = 0 BY <2>2, SMT DEF RequestTypeOK
  <2>3. CASE u = v /\ cache'[q][u] = since[h] BY <1>5, <2>3
  <2>4. QED BY <1>2, <2>1, <2>2, <2>3
<1>7. \A g \in Handlers :
        /\ since[g] <= now
        /\ \/ step'[g] = "answer" /\ answer[g]
           \/ /\ step'[g] \in {"passed", "locked", "recheck"}
              /\ request[g].purpose # "report"
           => AuthorisedSince(request[g].version, since[g])
  BY <1>5, SMT DEF RequestTypeOK, LookupsAreHonest
<1>8. LookupsAreHonest' BY <1>6, <1>7 DEF LookupsAreHonest, AuthorisedSince
<1>9. QED BY <1>3, <1>4, <1>8

(* IAM's changes: an authorisation ends at the present moment.             *)
LEMMA IamChangesKeep ==
    ASSUME RequestInv, Withdraw \/ Restore \/ Enrol
    PROVE  RequestInv'
<1> USE DEF RequestInv, bounds, shared, locals, Another
<1>1. UNCHANGED <<load, now, nonceUntil, proofUntil, honoured, cache, step, request,
                  since, answer>>
  BY DEF Withdraw, Restore, Enrol
<1>2. /\ ended' \in [Versions -> Nat] /\ enrolled' \in Versions
      /\ changes' \in Nat
      /\ \A v \in Versions :
           ended'[v] = ended[v] \/ ended'[v] = 0 \/ ended'[v] = now
  <2>1. CASE Withdraw BY <2>1, SMT DEF RequestTypeOK, Withdraw
  <2>2. CASE Restore BY <2>2, SMT DEF RequestTypeOK, Restore
  <2>3. CASE Enrol BY <2>3, BoundsAssumption, SMT DEF RequestTypeOK, Enrol, Versions
  <2>4. QED BY <2>1, <2>2, <2>3
<1>3. RequestTypeOK' BY <1>1, <1>2, SMT DEF RequestTypeOK
<1>4. ProofsOutliveNonces' BY <1>1, SMT DEF RequestTypeOK, ProofsOutliveNonces
<1>5. \A v \in Versions, t \in Nat :
        t <= now /\ AuthorisedSince(v, t) => ended'[v] = 0 \/ ended'[v] >= t
  BY <1>2, SMT DEF RequestTypeOK, AuthorisedSince
<1>6. /\ \A r \in Replicas, v \in Versions : cache[r][v] \in Nat
      /\ \A h \in Handlers : since[h] \in Nat /\ request[h].version \in Versions
  BY DEF RequestTypeOK
<1>7. LookupsAreHonest'
  <2>1. \A r \in Replicas, v \in Versions :
          /\ cache[r][v] <= now
          /\ cache[r][v] # 0 => ended'[v] = 0 \/ ended'[v] >= cache[r][v]
    BY <1>5, <1>6 DEF LookupsAreHonest
  <2>2. \A h \in Handlers :
          /\ since[h] <= now
          /\ \/ step[h] = "answer" /\ answer[h]
             \/ /\ step[h] \in {"passed", "locked", "recheck"}
                /\ request[h].purpose # "report"
             => \/ ended'[request[h].version] = 0
                \/ ended'[request[h].version] >= since[h]
    BY <1>5, <1>6 DEF LookupsAreHonest
  <2>3. QED BY <1>1, <2>1, <2>2 DEF LookupsAreHonest, AuthorisedSince
<1>8. QED BY <1>3, <1>4, <1>7

LEMMA TickKeeps ==
    ASSUME RequestInv, Tick
    PROVE  RequestInv'
<1> USE DEF RequestInv, Tick, bounds, shared, iam, locals
<1>1. RequestTypeOK' BY SMT DEF RequestTypeOK
<1>2. ProofsOutliveNonces'
  BY ConstantsAreTyped, SMT DEF RequestTypeOK, ProofsOutliveNonces
<1>3. LookupsAreHonest' BY SMT DEF RequestTypeOK, LookupsAreHonest, AuthorisedSince
<1>4. QED BY <1>1, <1>2, <1>3

-----------------------------------------------------------------------------
(* What the actions of the two modules do to each other's state.           *)

(* A handler goes where nothing is claimed of it, stays as it is, or goes  *)
(* on with the lookup that let it pass.                                    *)
Moves(h) ==
  \/ step'[h] \in {"idle", "authority", "target", "authorize"}
     /\ since'[h] \in {0, since[h]}
  \/ /\ \/ step'[h] = step[h]
        \/ step[h] = "passed" /\ step'[h] \in {"locked", "recheck"}
           /\ request[h].purpose # "report"
     /\ request'[h] = request[h] /\ since'[h] = since[h] /\ answer'[h] = answer[h]

LEMMA MovesKeepRequests ==
    ASSUME RequestInv, RequestTypeOK',
           UNCHANGED <<now, nonceUntil, proofUntil, honoured, ended>>,
           \A r \in Replicas, v \in Versions : cache'[r][v] \in {cache[r][v], 0},
           \A h \in Handlers : Moves(h)
    PROVE  RequestInv'
<1> USE DEF RequestInv
<1>1. ProofsOutliveNonces'
  <2>1. ASSUME NEW h \in Handlers, step'[h] = "consume"
        PROVE  /\ step[h] = "consume" /\ request'[h] = request[h]
               /\ since'[h] = since[h]
    BY <2>1, SMT DEF Moves
  <2>2. \A h \in Handlers :
          step'[h] = "consume" =>
            /\ since'[h] < nonceUntil[request'[h].proof.nonce]
            /\ now <= since'[h] + MaxLatency
    BY <2>1 DEF ProofsOutliveNonces
  <2>3. QED BY <2>2 DEF ProofsOutliveNonces
<1>2. \A r \in Replicas, v \in Versions :
        /\ cache'[r][v] <= now
        /\ cache'[r][v] # 0 => AuthorisedSince(v, cache'[r][v])
  BY SMT DEF RequestTypeOK, LookupsAreHonest
<1>3. ASSUME NEW h \in Handlers
      PROVE  /\ since'[h] <= now
             /\ \/ step'[h] = "answer" /\ answer'[h]
                \/ /\ step'[h] \in {"passed", "locked", "recheck"}
                   /\ request'[h].purpose # "report"
                => AuthorisedSince(request'[h].version, since'[h])
  <2>1. Moves(h) OBVIOUS
  <2>2. since[h] \in Nat /\ now \in Nat /\ since[h] <= now
    BY DEF RequestTypeOK, LookupsAreHonest
  <2>3. CASE /\ step'[h] \in {"idle", "authority", "target", "authorize"}
             /\ since'[h] \in {0, since[h]}
    BY <2>2, <2>3, SMT
  <2>4. CASE /\ \/ step'[h] = step[h]
                \/ step[h] = "passed" /\ step'[h] \in {"locked", "recheck"}
                   /\ request[h].purpose # "report"
             /\ request'[h] = request[h] /\ since'[h] = since[h]
             /\ answer'[h] = answer[h]
    BY <2>4 DEF LookupsAreHonest
  <2>5. QED BY <2>1, <2>3, <2>4 DEF Moves
<1>4. LookupsAreHonest' BY <1>2, <1>3 DEF LookupsAreHonest, AuthorisedSince
<1>5. QED BY <1>1, <1>4

(* A handler that ends moves.                                              *)
LEMMA EndMoves ==
    ASSUME RequestInv, NEW h \in Handlers, EndJob(h),
           UNCHANGED <<load, changes, now, nonceUntil, proofUntil, honoured, enrolled,
                       ended, cache>>
    PROVE  RequestInv'
<1>1. RequestTypeOK'
  BY ConstantsAreTyped, SMT DEF RequestInv, RequestTypeOK, EndJob, End, Goto, Steps
<1>2. ASSUME NEW g \in Handlers PROVE Moves(g)
  <2>1. CASE g = h
    <3>1. step'[h] = "idle" /\ since'[h] = 0
      BY DEF RequestInv, RequestTypeOK, EndJob, End, Goto
    <3>2. QED BY <2>1, <3>1 DEF Moves
  <2>2. CASE g # h
    <3>1. /\ step'[g] = step[g] /\ request'[g] = request[g]
          /\ since'[g] = since[g] /\ answer'[g] = answer[g]
      BY <2>2 DEF RequestInv, RequestTypeOK, EndJob, End, Goto
    <3>2. QED BY <3>1 DEF Moves
  <2>3. QED BY <2>1, <2>2
<1>3. QED BY <1>1, <1>2, MovesKeepRequests, SMT

LEMMA NothingIsTyped ==
  Nothing \in [by : Admins, asks : Requests, session : Nat, checkedAt : Nat]
<1>1. /\ (CHOOSE a \in Admins : TRUE) \in Admins
      /\ (CHOOSE q \in Requests : TRUE) \in Requests
  BY JobBoundsAssumption
<1>2. QED BY <1>1 DEF Nothing

(* It gives its lock back and drops what it held; other handlers go on     *)
(* with what they hold while jobs are added or confirmed.                  *)
LEMMA EndKeepsWork ==
    ASSUME IInv, NEW h \in Handlers, EndJob(h), jobs \subseteq jobs',
           UNCHANGED <<now, kid, authority, changedAt>>,
           \A n \in JobNumbers : confirmedAt'[n] \in {confirmedAt[n], now, 0}
    PROVE  WorkTypeOK' /\ LocksTypeOK' /\ PollsAreSound'
<1> USE DEF IInv, RequestInv, EndJob, End, Goto
<1>1. WorkTypeOK'
  <2>1. Nothing \in [by : Admins, asks : Requests, session : Nat, checkedAt : Nat]
    BY NothingIsTyped
  <2>2. QED BY <2>1, SMT DEF WorkTypeOK
<1>2. LocksTypeOK'
  BY JobBoundsAssumption, SMT
     DEF WorkTypeOK, LocksTypeOK, RequestTypeOK, Unlocked
<1>3. \A g \in Handlers : since[g] <= now /\ since[g] \in Nat
  BY DEF LookupsAreHonest, RequestTypeOK
<1>4. \A j \in jobs : j.number \in JobNumbers /\ j \in Job
  BY SMT DEF TablesTypeOK, Job
<1>5. PollsAreSound'
  <2> SUFFICES ASSUME NEW g \in Handlers
               PROVE  /\ step'[g] = "recheck" => request'[g].purpose = "jobs"
                      /\ step'[g] # "recheck" => todo'[g] = {} /\ out'[g] = {}
                      /\ \A j \in todo'[g] \cup out'[g] :
                           /\ j.kid = kid /\ since'[g] < j.exp
                           /\ \/ confirmedAt'[j.number] = 0
                              \/ confirmedAt'[j.number] >= since'[g]
                      /\ \A j \in out'[g] :
                           /\ j.version = request'[g].version
                           /\ \/ Approved(j.by, j.approval)
                              \/ changedAt[j.by] >= since'[g]
    BY DEF PollsAreSound, Approved
  <2>1. CASE g = h BY <2>1 DEF RequestTypeOK, WorkTypeOK
  <2>2. CASE g # h
    <3>1. UNCHANGED <<step[g], request[g], since[g], todo[g], out[g]>>
      BY <2>2 DEF RequestTypeOK, WorkTypeOK
    <3>2. \A j \in todo[g] \cup out[g] : j.number \in JobNumbers
      BY <1>4 DEF WorkTypeOK
    <3>3. ASSUME NEW j \in todo[g] \cup out[g]
          PROVE  confirmedAt'[j.number] = 0 \/ confirmedAt'[j.number] >= since[g]
      <4>1. confirmedAt'[j.number] \in {confirmedAt[j.number], now, 0} BY <3>2
      <4>2. confirmedAt[j.number] = 0 \/ confirmedAt[j.number] >= since[g]
        BY DEF PollsAreSound
      <4>3. now >= since[g] BY <1>3, SMT DEF RequestTypeOK
      <4>4. QED BY <4>1, <4>2, <4>3
    <3>4. QED BY <3>1, <3>3 DEF PollsAreSound
  <2>3. QED BY <2>1, <2>2
<1>6. QED BY <1>1, <1>2, <1>5

(* The actions of DaemonRequests leave issuing and polling handlers alone. *)
LEMMA RequestsStayApart ==
    ASSUME RequestTypeOK, RequestNext
    PROVE  \A g \in Handlers :
             \/ UNCHANGED <<step[g], request[g], since[g]>>
             \/ /\ step[g] \notin {"locked", "recheck"}
                /\ step'[g] \notin {"locked", "recheck"}
<1> USE DEF RequestTypeOK, Goto, End
<1>1. ASSUME NEW h \in Handlers, Handle(h)
      PROVE  \A g \in Handlers :
               \/ g # h /\ UNCHANGED <<step[g], request[g], since[g]>>
               \/ /\ step[g] \notin {"locked", "recheck"}
                  /\ step'[g] \notin {"locked", "recheck"}
  <2>1. CASE \E p \in load.proofs, v \in Versions, r \in Replicas : Receive(h, p, v, r)
    BY <2>1, SMT DEF Receive
  <2>2. CASE \E n \in Nonces : Challenge(h, n) BY <2>2, SMT DEF Challenge
  <2>3. CASE CheckNonce(h) BY <2>3, SMT DEF CheckNonce
  <2>4. CASE Consume(h) BY <2>4, SMT DEF Consume
  <2>5. CASE ConsumedInVain(h) BY <2>5, SMT DEF ConsumedInVain
  <2>6. CASE Refuse(h) BY <2>6, SMT DEF Refuse
  <2>7. CASE UseCache(h) BY <2>7, SMT DEF UseCache
  <2>8. CASE Lookup(h) BY <2>8, SMT DEF Lookup
  <2>9. CASE IamAnswers(h) BY <2>9, SMT DEF IamAnswers
  <2>10. CASE LookupEnds(h) BY <2>10, SMT DEF LookupEnds
  <2>11. QED
    BY <1>1, <2>1, <2>2, <2>3, <2>4, <2>5, <2>6, <2>7, <2>8, <2>9, <2>10 DEF Handle
<1>2. CASE Withdraw \/ Restore \/ Enrol \/ Tick
  BY <1>2 DEF Withdraw, Restore, Enrol, Tick, locals
<1>3. load.handlers \subseteq Handlers BY LoadsAssumption
<1>4. QED BY <1>1, <1>2, <1>3 DEF RequestNext

LEMMA RequestsKeep ==
    ASSUME IInv, RequestNext, UNCHANGED jobVars
    PROVE  IInv'
<1> USE DEF IInv, jobVars, people, tables, work
<1>1. RequestInv'
  <2>1. load.handlers \subseteq Handlers /\ load.proofs \subseteq Proofs
    BY LoadsAssumption DEF RequestInv, RequestTypeOK
  <2>2. ASSUME NEW h \in Handlers, Handle(h) PROVE RequestInv'
    BY <2>1, <2>2, ReceiveKeeps, ChallengeKeeps, CheckNonceKeeps, ConsumeKeeps,
       ConsumedInVainKeeps, RefuseKeeps, UseCacheKeeps, LookupKeeps, IamAnswersKeeps,
       LookupEndsKeeps DEF Handle
  <2>3. QED BY <2>1, <2>2, IamChangesKeep, TickKeeps DEF RequestNext
<1>2. TablesTypeOK' /\ WorkTypeOK' BY DEF TablesTypeOK, WorkTypeOK
<1>3. LocksTypeOK'
  BY RequestsStayApart, SMT DEF LocksTypeOK, WorkTypeOK, RequestInv
<1>4. OneJobPerId' /\ OneJobPerRequest' BY DEF OneJobPerId, OneJobPerRequest
<1>5. PollsAreSound'
  BY RequestsStayApart, SMT DEF PollsAreSound, RequestInv, Approved
<1>6. QED BY <1>1, <1>2, <1>3, <1>4, <1>5

-----------------------------------------------------------------------------
(* Jobs: one lemma per action of DaemonJobs.                               *)

RequestRecord ==
  [purpose : Purposes, replica : Replicas, proof : Proofs, version : Versions]

LEMMA RequestFields ==
    ASSUME request \in [Handlers -> RequestRecord], NEW h \in Handlers,
           NEW r \in Replicas, NEW v \in Versions
    PROVE  /\ [request EXCEPT ![h].purpose = "issue", ![h].replica = r]
                \in [Handlers -> RequestRecord]
           /\ [request EXCEPT ![h].version = v] \in [Handlers -> RequestRecord]
<1>1. request[h] \in RequestRecord OBVIOUS
<1>2. [request[h] EXCEPT !.purpose = "issue"] \in RequestRecord
  BY <1>1 DEF RequestRecord, Purposes
<1>3. [request EXCEPT ![h].purpose = "issue"] \in [Handlers -> RequestRecord]
  BY <1>2
<1>4. QED BY <1>1, <1>3 DEF RequestRecord

LEMMA WorkFields ==
    ASSUME NEW x \in [by : Admins, asks : Requests, session : Nat, checkedAt : Nat],
           NEW t \in Nat
    PROVE  [x EXCEPT !.checkedAt = t] \in
             [by : Admins, asks : Requests, session : Nat, checkedAt : Nat]
OBVIOUS

LEMMA AuthorityFields ==
    ASSUME authority \in [Admins -> [admin : BOOLEAN, version : Nat]],
           NEW a \in Admins
    PROVE  /\ [authority EXCEPT ![a].admin = ~@]
                \in [Admins -> [admin : BOOLEAN, version : Nat]]
           /\ [authority EXCEPT ![a].version = @ + 1]
                \in [Admins -> [admin : BOOLEAN, version : Nat]]
<1> DEFINE x == authority[a]
<1>1. x.admin \in BOOLEAN /\ x.version \in Nat OBVIOUS
<1>2. (~x.admin) \in BOOLEAN BY <1>1
<1>3. x.version + 1 \in Nat BY <1>1
<1>4. QED BY <1>2, <1>3

(* An action that moves handlers on without ending a request.              *)
LEMMA MovesKeepTables ==
    ASSUME IInv, UNCHANGED <<people, tables, kid, received, answered>>
    PROVE  TablesTypeOK' /\ OneJobPerId' /\ OneJobPerRequest'
BY DEF IInv, TablesTypeOK, OneJobPerId, OneJobPerRequest, people, tables

LEMMA AskKeeps ==
    ASSUME IInv, NEW h \in Handlers, NEW a \in Admins, NEW q \in Requests,
           NEW r \in Replicas, NEW n \in Nat, Ask(h, a, q, n, r)
    PROVE  IInv'
<1> USE DEF IInv, Ask, Goto, bounds, shared, iam, people, tables
<1>1. RequestInv'
  <2>1. RequestTypeOK'
    <3>1. request \in [Handlers -> RequestRecord]
      BY DEF RequestInv, RequestTypeOK, RequestRecord
    <3>2. 1 \in Versions BY ConstantsAreTyped
    <3>3. request' \in [Handlers -> RequestRecord] BY <3>1, <3>2, RequestFields
    <3>4. step' \in [Handlers -> Steps] BY DEF RequestInv, RequestTypeOK, Steps
    <3>5. QED BY <3>3, <3>4 DEF RequestInv, RequestTypeOK, RequestRecord
  <2>2. ASSUME NEW g \in Handlers PROVE Moves(g)
    BY SMT DEF RequestInv, RequestTypeOK, Moves
  <2>3. \A s \in Replicas, v \in Versions : cache'[s][v] \in {cache[s][v], 0}
    OBVIOUS
  <2>4. QED BY <2>1, <2>2, <2>3, MovesKeepRequests
<1>2. TablesTypeOK' /\ OneJobPerId' /\ OneJobPerRequest' BY MovesKeepTables
<1>3. WorkTypeOK' BY SMT DEF WorkTypeOK
<1>4. LocksTypeOK' BY SMT DEF LocksTypeOK, WorkTypeOK, RequestInv, RequestTypeOK
<1>5. PollsAreSound'
  BY SMT DEF PollsAreSound, RequestInv, RequestTypeOK, WorkTypeOK, Approved
<1>6. QED BY <1>1, <1>2, <1>3, <1>4, <1>5

LEMMA CheckAuthorityKeeps ==
    ASSUME IInv, NEW h \in Handlers, CheckAuthority(h)
    PROVE  IInv'
<1> USE DEF IInv, CheckAuthority, Goto, bounds, shared, iam, people, tables
<1>1. RequestInv'
  <2>1. RequestTypeOK' BY SMT DEF RequestInv, RequestTypeOK, Steps
  <2>2. ASSUME NEW g \in Handlers PROVE Moves(g)
    BY SMT DEF RequestInv, RequestTypeOK, Moves
  <2>3. \A s \in Replicas, v \in Versions : cache'[s][v] \in {cache[s][v], 0}
    OBVIOUS
  <2>4. QED BY <2>1, <2>2, <2>3, MovesKeepRequests
<1>2. TablesTypeOK' /\ OneJobPerId' /\ OneJobPerRequest' BY MovesKeepTables
<1>3. WorkTypeOK' BY WorkFields, SMT DEF WorkTypeOK, RequestInv, RequestTypeOK
<1>4. LocksTypeOK' BY SMT DEF LocksTypeOK, WorkTypeOK, RequestInv, RequestTypeOK
<1>5. PollsAreSound'
  BY SMT DEF PollsAreSound, RequestInv, RequestTypeOK, WorkTypeOK, Approved
<1>6. QED BY <1>1, <1>2, <1>3, <1>4, <1>5

LEMMA TargetKeeps ==
    ASSUME IInv, NEW h \in Handlers, Target(h)
    PROVE  IInv'
<1> USE DEF IInv, Target, Goto, bounds, shared, iam, people, tables, work, jobVars
<1>1. RequestInv'
  <2>1. head \in Versions BY DEF TablesTypeOK
  <2>2. RequestTypeOK'
    <3>1. request \in [Handlers -> RequestRecord]
      BY DEF RequestInv, RequestTypeOK, RequestRecord
    <3>2. Replicas # {} BY ProofsAssumption
    <3>3. request' \in [Handlers -> RequestRecord]
      BY <2>1, <3>1, <3>2, RequestFields
    <3>4. step' \in [Handlers -> Steps] BY DEF RequestInv, RequestTypeOK, Steps
    <3>5. QED BY <3>3, <3>4 DEF RequestInv, RequestTypeOK, RequestRecord
  <2>3. ASSUME NEW g \in Handlers PROVE Moves(g)
    BY SMT DEF RequestInv, RequestTypeOK, Moves
  <2>4. \A s \in Replicas, v \in Versions : cache'[s][v] \in {cache[s][v], 0}
    OBVIOUS
  <2>5. QED BY <2>2, <2>3, <2>4, MovesKeepRequests
<1>2. TablesTypeOK' /\ OneJobPerId' /\ OneJobPerRequest' BY MovesKeepTables
<1>3. WorkTypeOK' BY DEF WorkTypeOK
<1>4. LocksTypeOK' BY SMT DEF LocksTypeOK, WorkTypeOK, RequestInv, RequestTypeOK
<1>5. PollsAreSound'
  BY SMT DEF PollsAreSound, RequestInv, RequestTypeOK, WorkTypeOK, Approved
<1>6. QED BY <1>1, <1>2, <1>3, <1>4, <1>5

LEMMA LockKeeps ==
    ASSUME IInv, NEW h \in Handlers, Lock(h)
    PROVE  IInv'
<1> USE DEF IInv, Lock, Goto, bounds, shared, iam, people, tables, work
<1>1. RequestInv'
  <2>1. RequestTypeOK' BY SMT DEF RequestInv, RequestTypeOK, Steps
  <2>2. ASSUME NEW g \in Handlers PROVE Moves(g)
    BY SMT DEF RequestInv, RequestTypeOK, Moves
  <2>3. \A s \in Replicas, v \in Versions : cache'[s][v] \in {cache[s][v], 0}
    OBVIOUS
  <2>4. QED BY <2>1, <2>2, <2>3, MovesKeepRequests
<1>2. TablesTypeOK' /\ OneJobPerId' /\ OneJobPerRequest' BY MovesKeepTables
<1>3. WorkTypeOK' BY DEF WorkTypeOK
<1>4. LocksTypeOK'
  <2>1. call[h].asks.id \in RequestIds BY DEF WorkTypeOK, RequestIds
  <2>2. QED
    BY <2>1, JobBoundsAssumption, SMT
       DEF LocksTypeOK, WorkTypeOK, RequestInv, RequestTypeOK
<1>5. PollsAreSound'
  BY SMT DEF PollsAreSound, RequestInv, RequestTypeOK, WorkTypeOK, Approved
<1>6. QED BY <1>1, <1>2, <1>3, <1>4, <1>5

LEMMA SelectKeeps ==
    ASSUME IInv, NEW h \in Handlers, Select(h)
    PROVE  IInv'
<1> USE DEF IInv, Select, Goto, bounds, shared, iam, people, tables
<1>1. RequestInv'
  <2>1. RequestTypeOK' BY SMT DEF RequestInv, RequestTypeOK, Steps
  <2>2. ASSUME NEW g \in Handlers PROVE Moves(g)
    BY SMT DEF RequestInv, RequestTypeOK, Moves
  <2>3. \A s \in Replicas, v \in Versions : cache'[s][v] \in {cache[s][v], 0}
    OBVIOUS
  <2>4. QED BY <2>1, <2>2, <2>3, MovesKeepRequests
<1>2. TablesTypeOK' /\ OneJobPerId' /\ OneJobPerRequest' BY MovesKeepTables
<1>3. WorkTypeOK' BY SMT DEF WorkTypeOK
<1>4. LocksTypeOK' BY SMT DEF LocksTypeOK, WorkTypeOK, RequestInv, RequestTypeOK
<1>5. PollsAreSound'
  <2>1. \A j \in jobs : j.exp \in Nat BY SMT DEF TablesTypeOK, Job
  <2>2. since[h] <= now /\ since[h] \in Nat /\ now \in Nat
    BY DEF RequestInv, LookupsAreHonest, RequestTypeOK
  <2>3. todo'[h] = {j \in jobs : j.kid = kid /\ now < j.exp
                                 /\ confirmedAt[j.number] = 0}
    BY DEF WorkTypeOK
  <2>4. \A j \in todo'[h] :
          j.kid = kid /\ since[h] < j.exp /\ confirmedAt[j.number] = 0
    BY <2>1, <2>2, <2>3, SMT
  <2>5. out[h] = {} /\ out' = out BY DEF PollsAreSound
  <2>6. \A g \in Handlers \ {h} : todo'[g] = todo[g] /\ step'[g] = step[g]
    BY DEF WorkTypeOK, RequestInv, RequestTypeOK
  <2>7. step'[h] = "recheck" BY DEF RequestInv, RequestTypeOK
  <2>8. QED BY <2>4, <2>5, <2>6, <2>7 DEF PollsAreSound, Approved
<1>6. QED BY <1>1, <1>2, <1>3, <1>4, <1>5

LEMMA RecheckKeeps ==
    ASSUME IInv, NEW h \in Handlers, NEW j \in todo[h], Recheck(h, j)
    PROVE  IInv'
<1> USE DEF IInv, Recheck, bounds, shared, iam, locals, people, tables
<1>1. RequestInv'
  <2>1. RequestTypeOK' BY DEF RequestInv, RequestTypeOK
  <2>2. ASSUME NEW g \in Handlers PROVE Moves(g)
    BY DEF Moves
  <2>3. \A s \in Replicas, v \in Versions : cache'[s][v] \in {cache[s][v], 0}
    OBVIOUS
  <2>4. QED BY <2>1, <2>2, <2>3, MovesKeepRequests
<1>2. TablesTypeOK' /\ OneJobPerId' /\ OneJobPerRequest' BY MovesKeepTables
<1>3. WorkTypeOK' BY SMT DEF WorkTypeOK
<1>4. LocksTypeOK' BY DEF LocksTypeOK
<1>5. PollsAreSound'
  <2>1. \A g \in Handlers \ {h} : todo'[g] = todo[g] /\ out'[g] = out[g]
    BY DEF WorkTypeOK
  <2>2. todo'[h] \subseteq todo[h] BY DEF WorkTypeOK
  <2>3. \/ out'[h] = out[h]
        \/ out'[h] = out[h] \cup {j} /\ Deliverable(h, j)
    BY DEF WorkTypeOK
  <2>4. todo'[h] \cup out'[h] \subseteq todo[h] \cup out[h] BY <2>2, <2>3
  <2>5. ASSUME NEW g \in Handlers
        PROVE  /\ step[g] = "recheck" => request[g].purpose = "jobs"
               /\ step[g] # "recheck" => todo'[g] = {} /\ out'[g] = {}
               /\ \A i \in todo'[g] \cup out'[g] :
                    /\ i.kid = kid /\ since[g] < i.exp
                    /\ confirmedAt[i.number] = 0 \/ confirmedAt[i.number] >= since[g]
               /\ \A i \in out'[g] :
                    /\ i.version = request[g].version
                    /\ Approved(i.by, i.approval) \/ changedAt[i.by] >= since[g]
    <3>1. CASE g = h
      <4>1. \A i \in out'[h] : i \in out[h] \/ (i = j /\ Deliverable(h, i)) BY <2>3
      <4>2. \A i \in out'[h] :
              /\ i.version = request[h].version
              /\ Approved(i.by, i.approval) \/ changedAt[i.by] >= since[h]
        BY <4>1 DEF PollsAreSound, Deliverable, Verified
      <4>3. QED BY <2>4, <3>1, <4>2 DEF PollsAreSound
    <3>2. CASE g # h
      <4>1. todo'[g] = todo[g] /\ out'[g] = out[g] BY <2>1, <3>2
      <4>2. QED BY <4>1 DEF PollsAreSound
    <3>3. QED BY <3>1, <3>2
  <2>6. QED BY <2>5 DEF PollsAreSound, Approved
<1>6. QED BY <1>1, <1>2, <1>3, <1>4, <1>5

(* An admin changes at the present moment.                                 *)
LEMMA ChangeKeeps ==
    ASSUME IInv, NEW a \in Admins, Change(a)
    PROVE  IInv'
<1> USE DEF IInv, Change, Another, shared, locals, tables, work
<1>1. RequestInv'
  <2>1. RequestTypeOK' BY SMT DEF RequestInv, RequestTypeOK
  <2>2. ASSUME NEW g \in Handlers PROVE Moves(g)
    BY DEF Moves
  <2>3. \A s \in Replicas, v \in Versions : cache'[s][v] \in {cache[s][v], 0}
    OBVIOUS
  <2>4. QED BY <2>1, <2>2, <2>3, MovesKeepRequests
<1>2. TablesTypeOK'
  <2>1. authority' \in [Admins -> [admin : BOOLEAN, version : Nat]]
    <3>1. authority \in [Admins -> [admin : BOOLEAN, version : Nat]]
      BY DEF TablesTypeOK
    <3>2. /\ [authority EXCEPT ![a].admin = ~@]
               \in [Admins -> [admin : BOOLEAN, version : Nat]]
          /\ [authority EXCEPT ![a].version = @ + 1]
               \in [Admins -> [admin : BOOLEAN, version : Nat]]
      BY <3>1, AuthorityFields
    <3>3. CASE authority' = [authority EXCEPT ![a].admin = ~@]
      <4> HIDE DEF IInv, Change
      <4>1. QED BY <3>2, <3>3
    <3>4. CASE authority' = [authority EXCEPT ![a].version = @ + 1]
      <4> HIDE DEF IInv, Change
      <4>1. QED BY <3>2, <3>4
    <3>5. QED BY <3>3, <3>4
  <2>2. changedAt' \in [Admins -> Nat]
    BY DEF TablesTypeOK, RequestInv, RequestTypeOK
  <2>3. QED BY <2>1, <2>2 DEF TablesTypeOK
<1>3. OneJobPerId' /\ OneJobPerRequest' BY DEF OneJobPerId, OneJobPerRequest
<1>4. WorkTypeOK' /\ LocksTypeOK' BY DEF WorkTypeOK, LocksTypeOK
<1>5. PollsAreSound'
  <2>1. ASSUME NEW g \in Handlers, NEW j \in out[g]
        PROVE  Approved(j.by, j.approval)' \/ changedAt'[j.by] >= since[g]
    <3>1. j.by \in Admins BY SMT DEF WorkTypeOK, TablesTypeOK, Job
    <3>2. CASE j.by = a
      BY <3>2, SMT DEF RequestInv, RequestTypeOK, LookupsAreHonest, TablesTypeOK
    <3>3. CASE j.by # a
      <4>1. authority'[j.by] = authority[j.by] /\ changedAt'[j.by] = changedAt[j.by]
        BY <3>1, <3>3 DEF TablesTypeOK
      <4>2. QED BY <4>1 DEF PollsAreSound, Approved
    <3>4. QED BY <3>2, <3>3
  <2>2. QED BY <2>1 DEF PollsAreSound
<1>6. QED BY <1>1, <1>2, <1>3, <1>4, <1>5

(* An answer names the job that is stored for its request.                 *)
LEMMA ReplyNamesTheJob ==
    ASSUME IInv, NEW h \in Handlers, jobs \subseteq jobs', OneJobPerId',
           NEW job \in jobs', job.asks = call[h].asks, job.by = call[h].by,
           Reply(h, job)
    PROVE  /\ OneJobPerRequest'
           /\ answered' \subseteq [asks : Requests, by : Admins, job : jobs']
<1> DEFINE new == [asks |-> call[h].asks, by |-> call[h].by, job |-> job]
<1>1. \A x \in answered' : x \in answered \/ x = new BY DEF Reply
<1>2. call[h].asks \in Requests /\ call[h].by \in Admins BY DEF IInv, WorkTypeOK
<1>3. \A x \in answered' : x.job \in jobs' /\ x.job.asks = x.asks /\ x.job.by = x.by
  BY <1>1 DEF IInv, OneJobPerRequest
<1>4. \A x, y \in answered' : x.asks.id = y.asks.id => x.job = y.job
  BY <1>3 DEF OneJobPerId
<1>5. new \in [asks : Requests, by : Admins, job : jobs'] BY <1>2
<1>6. answered \subseteq [asks : Requests, by : Admins, job : jobs']
  BY DEF IInv, TablesTypeOK
<1>7. QED BY <1>1, <1>3, <1>4, <1>5, <1>6 DEF OneJobPerRequest

LEMMA ReturnPriorKeeps ==
    ASSUME IInv, NEW h \in Handlers, ReturnPrior(h)
    PROVE  IInv'
<1> USE DEF ReturnPrior, Verified, bounds, shared, iam, people, tables
<1>1. RequestInv' BY EndMoves DEF IInv
<1>2. WorkTypeOK' /\ LocksTypeOK' /\ PollsAreSound' BY EndKeepsWork
<1>3. OneJobPerId' BY DEF IInv, OneJobPerId
<1>4. PICK job \in jobs :
        job.asks = call[h].asks /\ job.by = call[h].by /\ Reply(h, job)
  BY DEF Stored
<1>5. /\ OneJobPerRequest'
      /\ answered' \subseteq [asks : Requests, by : Admins, job : jobs']
  BY <1>3, <1>4, ReplyNamesTheJob
<1>6. TablesTypeOK' BY <1>5 DEF IInv, TablesTypeOK
<1>7. QED BY <1>1, <1>2, <1>3, <1>5, <1>6 DEF IInv

LEMMA InsertKeeps ==
    ASSUME IInv, NEW h \in Handlers, Insert(h)
    PROVE  IInv'
<1> USE DEF Insert, bounds, shared, iam, people
<1> DEFINE job == [number |-> signed + 1, asks |-> call[h].asks, by |-> call[h].by,
                   version |-> request[h].version, approval |-> call[h].session,
                   kid |-> kid, exp |-> now + JobLife]
<1>1. RequestInv' BY EndMoves DEF IInv
<1>2. WorkTypeOK' /\ LocksTypeOK' /\ PollsAreSound' BY EndKeepsWork
<1>3. jobs' = jobs \cup {job} /\ Reply(h, job) OBVIOUS
<1>4. OneJobPerId'
  <2>1. \A j \in jobs : j.asks.id # job.asks.id BY DEF Stored
  <2>2. QED BY <1>3, <2>1 DEF IInv, OneJobPerId
<1>5. /\ OneJobPerRequest'
      /\ answered' \subseteq [asks : Requests, by : Admins, job : jobs']
  <2>1. job.asks = call[h].asks /\ job.by = call[h].by OBVIOUS
  <2> HIDE DEF job
  <2>2. QED BY <1>3, <1>4, <2>1, ReplyNamesTheJob
<1>6. TablesTypeOK'
  <2>1. signed + 1 \in JobNumbers /\ signed + 1 \in 0..MaxJobs
    BY JobBoundsAssumption, SMT DEF IInv, TablesTypeOK, JobNumbers
  <2>2. now + JobLife \in Nat /\ kid \in Nat
    BY JobLifeAssumption, JobBoundsAssumption, SMT
       DEF IInv, RequestInv, RequestTypeOK, TablesTypeOK
  <2>3. /\ call[h].asks \in Requests /\ call[h].by \in Admins
        /\ call[h].session \in Nat /\ request[h].version \in Versions
    BY DEF IInv, WorkTypeOK, RequestInv, RequestTypeOK
  <2>4. job \in Job BY <2>1, <2>2, <2>3 DEF Job
  <2> HIDE DEF job
  <2>5. QED BY <1>3, <1>5, <2>1, <2>4 DEF IInv, TablesTypeOK
<1>7. QED BY <1>1, <1>2, <1>4, <1>5, <1>6 DEF IInv

LEMMA IssueFailsKeeps ==
    ASSUME IInv, NEW h \in Handlers, IssueFails(h)
    PROVE  IInv'
<1> USE DEF IssueFails, bounds, shared, iam, people, tables
<1>1. RequestInv' BY EndMoves DEF IInv
<1>2. WorkTypeOK' /\ LocksTypeOK' /\ PollsAreSound' BY EndKeepsWork
<1>3. TablesTypeOK' /\ OneJobPerId' /\ OneJobPerRequest' BY MovesKeepTables
<1>4. QED BY <1>1, <1>2, <1>3 DEF IInv

LEMMA DeliverKeeps ==
    ASSUME IInv, NEW h \in Handlers, Deliver(h)
    PROVE  IInv'
<1> USE DEF Deliver, bounds, shared, iam, people, tables
<1>1. RequestInv' BY EndMoves DEF IInv
<1>2. WorkTypeOK' /\ LocksTypeOK' /\ PollsAreSound' BY EndKeepsWork
<1>3. received' \subseteq jobs BY DEF IInv, TablesTypeOK, WorkTypeOK
<1>4. TablesTypeOK' BY <1>3 DEF IInv, TablesTypeOK
<1>5. OneJobPerId' /\ OneJobPerRequest' BY DEF IInv, OneJobPerId, OneJobPerRequest
<1>6. QED BY <1>1, <1>2, <1>4, <1>5 DEF IInv

LEMMA PendingFailsKeeps ==
    ASSUME IInv, NEW h \in Handlers, PendingFails(h)
    PROVE  IInv'
<1> USE DEF PendingFails, bounds, shared, iam, people, tables
<1>1. RequestInv' BY EndMoves DEF IInv
<1>2. WorkTypeOK' /\ LocksTypeOK' /\ PollsAreSound' BY EndKeepsWork
<1>3. TablesTypeOK' /\ OneJobPerId' /\ OneJobPerRequest' BY MovesKeepTables
<1>4. QED BY <1>1, <1>2, <1>3 DEF IInv

(* A result is confirmed from the present moment.                          *)
LEMMA ReportKeeps ==
    ASSUME IInv, NEW h \in Handlers, Report(h)
    PROVE  IInv'
<1> USE DEF Report, bounds, shared, iam, people
<1>1. RequestInv' BY EndMoves DEF IInv
<1>2. /\ \A n \in JobNumbers : confirmedAt'[n] \in {confirmedAt[n], now, 0}
      /\ confirmedAt' \in [JobNumbers -> Nat]
  <2>1. confirmedAt \in [JobNumbers -> Nat] /\ now \in Nat
    BY DEF IInv, TablesTypeOK, RequestInv, RequestTypeOK
  <2>2. CASE confirmedAt' = confirmedAt BY <2>1, <2>2
  <2>3. CASE \E j \in received :
               confirmedAt' = [confirmedAt EXCEPT ![j.number] =
                                 IF @ = 0 THEN now ELSE 0]
    <3>1. PICK j \in received, at \in {now, 0} :
            confirmedAt' = [confirmedAt EXCEPT ![j.number] = at]
      BY <2>3
    <3>2. at \in Nat BY <2>1
    <3>3. confirmedAt' \in [JobNumbers -> Nat] BY <2>1, <3>1, <3>2
    <3>4. ASSUME NEW n \in JobNumbers
          PROVE  confirmedAt'[n] = confirmedAt[n] \/ confirmedAt'[n] = at
      BY <2>1, <3>1
    <3>5. QED BY <3>3, <3>4
  <2>4. QED BY <2>2, <2>3
<1>3. WorkTypeOK' /\ LocksTypeOK' /\ PollsAreSound' BY <1>2, EndKeepsWork
<1>4. head' \in {0} \cup Versions
  BY DEF IInv, RequestInv, RequestTypeOK, TablesTypeOK
<1>5. TablesTypeOK' BY <1>2, <1>4 DEF IInv, TablesTypeOK
<1>6. OneJobPerId' /\ OneJobPerRequest' BY DEF IInv, OneJobPerId, OneJobPerRequest
<1>7. QED BY <1>1, <1>3, <1>5, <1>6 DEF IInv

LEMMA StopKeeps ==
    ASSUME IInv, NEW down \in SUBSET Replicas, NEW key \in 1..MaxKeys,
           Stop(down, key)
    PROVE  IInv'
<1> DEFINE dead == {h \in Handlers : step[h] # "idle" /\ request[h].replica \in down}
<1> USE DEF Stop, Another, shared, people, tables
<1>1. RequestInv'
  <2>1. RequestTypeOK'
    BY ConstantsAreTyped, SMT DEF IInv, RequestInv, RequestTypeOK, Steps
  <2>2. ASSUME NEW g \in Handlers PROVE Moves(g)
    <3>1. CASE g \in dead
      <4>1. step'[g] = "idle" /\ since'[g] = 0 BY <3>1
      <4>2. QED BY <4>1 DEF Moves
    <3>2. CASE g \notin dead
      <4>1. /\ step'[g] = step[g] /\ request'[g] = request[g]
            /\ since'[g] = since[g]
        BY <3>2
      <4>2. answer'[g] = answer[g] BY <3>2 DEF IInv, RequestInv, RequestTypeOK
      <4>3. QED BY <4>1, <4>2 DEF Moves
    <3>3. QED BY <3>1, <3>2
  <2>3. \A r \in Replicas, v \in Versions : cache'[r][v] \in {cache[r][v], 0}
    OBVIOUS
  <2>4. QED BY <2>1, <2>2, <2>3, MovesKeepRequests DEF IInv
<1>2. TablesTypeOK' BY DEF IInv, TablesTypeOK
<1>3. OneJobPerId' /\ OneJobPerRequest' BY DEF IInv, OneJobPerId, OneJobPerRequest
<1>4. WorkTypeOK'
  <2>1. Nothing \in [by : Admins, asks : Requests, session : Nat, checkedAt : Nat]
    BY NothingIsTyped
  <2>2. QED BY <2>1, SMT DEF IInv, WorkTypeOK
<1>5. LocksTypeOK'
  BY JobBoundsAssumption, SMT DEF IInv, WorkTypeOK, LocksTypeOK
<1>6. PollsAreSound'
  <2>1. ASSUME NEW g \in Handlers, g \in dead
        PROVE  step'[g] = "idle" /\ todo'[g] = {} /\ out'[g] = {}
    BY <2>1
  <2>2. ASSUME NEW g \in Handlers, g \notin dead
        PROVE  /\ UNCHANGED <<step[g], request[g], since[g], todo[g], out[g]>>
               /\ kid' = kid \/ (todo[g] = {} /\ out[g] = {})
    <3>1. UNCHANGED <<step[g], request[g], since[g], todo[g], out[g]>> BY <2>2
    <3>2. CASE step[g] = "idle" BY <3>1, <3>2 DEF IInv, PollsAreSound
    <3>3. CASE step[g] # "idle"
      <4>1. request[g].replica \in Replicas \ down
        BY <2>2, <3>3 DEF IInv, RequestInv, RequestTypeOK
      <4>2. key = kid BY <4>1
      <4>3. QED BY <3>1, <4>2
    <3>4. QED BY <3>2, <3>3
  <2>3. QED BY <2>1, <2>2 DEF IInv, PollsAreSound, Approved
<1>7. QED BY <1>1, <1>2, <1>3, <1>4, <1>5, <1>6 DEF IInv

-----------------------------------------------------------------------------
(* The theorems *)

LEMMA InitIInv == Init => IInv
<1> SUFFICES ASSUME Init PROVE IInv OBVIOUS
<1>1. RequestInv BY InitRequests DEF Init
<1>2. TablesTypeOK
  BY ConstantsAreTyped, JobBoundsAssumption, SMT DEF Init, TablesTypeOK, JobNumbers
<1>3. WorkTypeOK BY NothingIsTyped DEF Init, WorkTypeOK
<1>4. LocksTypeOK BY JobBoundsAssumption DEF Init, RequestInit, LocksTypeOK
<1>5. OneJobPerId /\ OneJobPerRequest BY DEF Init, OneJobPerId, OneJobPerRequest
<1>6. PollsAreSound BY DEF Init, RequestInit, PollsAreSound
<1>7. QED BY <1>1, <1>2, <1>3, <1>4, <1>5, <1>6 DEF IInv

LEMMA NextIInv == IInv /\ [Next]_vars => IInv'
<1> SUFFICES ASSUME IInv, [Next]_vars PROVE IInv' OBVIOUS
<1>1. /\ load.handlers \subseteq Handlers
      /\ load.requests \subseteq Requests
      /\ \A a \in Admins : 1..authority[a].version \subseteq Nat
  BY LoadsAssumption, JobBoundsAssumption, SMT
     DEF IInv, RequestInv, RequestTypeOK, TablesTypeOK
<1>2. CASE RequestNext /\ UNCHANGED jobVars BY <1>2, RequestsKeep
<1>3. ASSUME NEW h \in Handlers, NEW a \in Admins, NEW q \in Requests,
             NEW r \in Replicas, NEW n \in Nat, Ask(h, a, q, n, r)
      PROVE  IInv'
  BY <1>3, AskKeeps
<1>4. ASSUME NEW h \in Handlers,
             \/ CheckAuthority(h) \/ Target(h) \/ Lock(h) \/ ReturnPrior(h)
             \/ Insert(h) \/ IssueFails(h) \/ Select(h)
             \/ \E j \in todo[h] : Recheck(h, j)
             \/ Deliver(h) \/ PendingFails(h) \/ Report(h)
      PROVE  IInv'
  BY <1>4, CheckAuthorityKeeps, TargetKeeps, LockKeeps, ReturnPriorKeeps, InsertKeeps,
     IssueFailsKeeps, SelectKeeps, RecheckKeeps, DeliverKeeps, PendingFailsKeeps,
     ReportKeeps
<1>5. CASE \E a \in Admins : Change(a) BY <1>5, ChangeKeeps
<1>6. CASE \E down \in SUBSET Replicas, key \in 1..MaxKeys : Stop(down, key)
  BY <1>6, StopKeeps
<1>7. CASE UNCHANGED vars
  <2> USE DEF vars, requestVars, jobVars, bounds, shared, iam, locals, people, tables,
              work
  <2>1. RequestInv'
    BY <1>7 DEF IInv, RequestInv, RequestTypeOK, ProofsOutliveNonces, LookupsAreHonest,
                AuthorisedSince
  <2>2. TablesTypeOK' /\ WorkTypeOK' /\ LocksTypeOK'
    BY <1>7 DEF IInv, TablesTypeOK, WorkTypeOK, LocksTypeOK
  <2>3. OneJobPerId' /\ OneJobPerRequest' /\ PollsAreSound'
    BY <1>7 DEF IInv, OneJobPerId, OneJobPerRequest, PollsAreSound, Approved
  <2>4. QED BY <2>1, <2>2, <2>3 DEF IInv
<1>8. QED BY <1>1, <1>2, <1>3, <1>4, <1>5, <1>6, <1>7 DEF Next

THEOREM SpecIInv == Spec => []IInv
BY InitIInv, NextIInv, PTL DEF Spec

(* TypeOK: the state of both modules stays well-typed, and a request id's  *)
(* lock is held by exactly the handler whose transaction runs for it.      *)
THEOREM Types == Spec => []TypeOK
<1>1. IInv => TypeOK BY DEF IInv, RequestInv, TypeOK
<1>2. QED BY <1>1, SpecIInv, PTL

(* ProofHonouredOnce: no proof is accepted twice, however many replicas    *)
(* race for it and however late it is sent again.                          *)
THEOREM ProofsHonouredOnce == Spec => []ProofHonouredOnce
<1>1. IInv => ProofHonouredOnce
  BY SMT DEF IInv, RequestInv, RequestTypeOK, ProofsOutliveNonces, ProofHonouredOnce
<1>2. QED BY <1>1, SpecIInv, PTL

(* A request passes only by the cache or an answer of IAM.                 *)
LEMMA OnlyLookupsPass ==
    ASSUME step \in [Handlers -> Steps], Next, NEW g \in Handlers,
           step[g] # "passed", step'[g] = "passed"
    PROVE  UseCache(g) \/ LookupEnds(g)
<1> USE DEF Goto, End, EndJob
<1>1. ASSUME NEW h, Handle(h) PROVE UseCache(g) \/ LookupEnds(g)
  <2>1. CASE UseCache(h) BY <2>1 DEF UseCache
  <2>2. CASE LookupEnds(h) BY <2>2 DEF LookupEnds
  <2>3. CASE \E p \in load.proofs, v \in Versions, r \in Replicas : Receive(h, p, v, r)
    BY <2>3 DEF Receive
  <2>4. CASE \E n \in Nonces : Challenge(h, n) BY <2>4 DEF Challenge
  <2>5. CASE \/ CheckNonce(h) \/ Consume(h) \/ ConsumedInVain(h) \/ Refuse(h)
             \/ Lookup(h) \/ IamAnswers(h)
    BY <2>5 DEF CheckNonce, Consume, ConsumedInVain, Refuse, Lookup, IamAnswers
  <2>6. QED BY <1>1, <2>1, <2>2, <2>3, <2>4, <2>5 DEF Handle
<1>2. CASE Withdraw \/ Restore \/ Enrol \/ Tick
  BY <1>2 DEF Withdraw, Restore, Enrol, Tick, locals
<1>3. ASSUME NEW h, NEW a, NEW q, NEW r, NEW n, Ask(h, a, q, n, r) PROVE FALSE
  BY <1>3 DEF Ask
<1>4. ASSUME NEW h, CheckAuthority(h) \/ Target(h) \/ Lock(h) \/ Select(h)
      PROVE  FALSE
  BY <1>4 DEF CheckAuthority, Target, Lock, Select
<1>5. ASSUME NEW h, \/ ReturnPrior(h) \/ Insert(h) \/ IssueFails(h) \/ Deliver(h)
                   \/ PendingFails(h) \/ Report(h)
      PROVE  FALSE
  BY <1>5 DEF ReturnPrior, Insert, IssueFails, Deliver, PendingFails, Report
<1>6. ASSUME NEW h, NEW j, Recheck(h, j) PROVE FALSE
  BY <1>6 DEF Recheck, locals
<1>7. ASSUME NEW a, Change(a) PROVE FALSE BY <1>7 DEF Change, locals
<1>8. ASSUME NEW down, NEW key, Stop(down, key) PROVE FALSE BY <1>8 DEF Stop
<1>9. QED
  BY <1>1, <1>2, <1>3, <1>4, <1>5, <1>6, <1>7, <1>8 DEF Next, RequestNext

(* WithdrawnDeviceIsRefused: a device that IAM stopped authorising passes  *)
(* for less than the life of the cache, lookup included.                   *)
THEOREM WithdrawnRefused == Spec => WithdrawnDeviceIsRefused
<1>1. ASSUME IInv, Next, NEW g \in Handlers, step[g] # "passed", step'[g] = "passed"
      PROVE  \/ ended[request[g].version] = 0
             \/ now < ended[request[g].version] + CacheLife
  <2> USE DEF IInv, RequestInv, RequestTypeOK
  <2> DEFINE v == request[g].version
  <2>1. UseCache(g) \/ LookupEnds(g) BY <1>1, OnlyLookupsPass
  <2>2. PICK start \in Nat : AuthorisedSince(v, start) /\ now < start + CacheLife
    <3>1. CASE UseCache(g)
      <4> DEFINE start == cache[request[g].replica][v]
      <4>1. /\ start \in Nat /\ start # 0 /\ now < start + CacheLife
            /\ request[g].replica \in Replicas /\ v \in Versions
        BY <1>1, <3>1 DEF UseCache, Fresh
      <4>2. AuthorisedSince(v, start) BY <1>1, <4>1 DEF LookupsAreHonest
      <4>3. QED BY <4>1, <4>2
    <3>2. CASE LookupEnds(g)
      <4>1. /\ since[g] \in Nat /\ now < since[g] + CacheLife
            /\ AuthorisedSince(v, since[g])
        BY <1>1, <3>2 DEF LookupEnds, LookupsAreHonest
      <4>2. QED BY <4>1
    <3>3. QED BY <2>1, <3>1, <3>2
  <2>3. ended[v] \in Nat /\ now \in Nat BY <1>1
  <2>4. QED BY <2>2, <2>3, ConstantsAreTyped, SMT DEF AuthorisedSince
<1>2. IInv /\ [Next]_vars => [PassesInTime]_vars
  BY <1>1 DEF PassesInTime
<1>3. QED BY <1>2, SpecIInv, PTL DEF Spec, WithdrawnDeviceIsRefused

(* OneJobPerRequest: retries, races, lost answers and stops never lead to  *)
(* two jobs for one request id, nor to an answer with another's job.       *)
THEOREM OneJob == Spec => []OneJobPerRequest
<1>1. IInv => OneJobPerRequest BY DEF IInv
<1>2. QED BY <1>1, SpecIInv, PTL

(* DeliveredJobsAreAuthorised: what a polling handler is about to deliver  *)
(* was authorised, by the device's and the admin's current versions, at    *)
(* some moment since the request's lookup began.                           *)
THEOREM DeliveriesAuthorised == Spec => []DeliveredJobsAreAuthorised
<1>1. ASSUME IInv, NEW h \in Handlers, NEW j \in out[h]
      PROVE  /\ j.version = request[h].version /\ j.kid = kid
             /\ \/ ended[request[h].version] = 0
                \/ ended[request[h].version] >= since[h]
             /\ Approved(j.by, j.approval) \/ changedAt[j.by] >= since[h]
             /\ since[h] < j.exp
             /\ confirmedAt[j.number] = 0 \/ confirmedAt[j.number] >= since[h]
  <2>1. step[h] = "recheck" /\ request[h].purpose = "jobs"
    BY <1>1 DEF IInv, PollsAreSound
  <2>2. AuthorisedSince(request[h].version, since[h])
    BY <1>1, <2>1 DEF IInv, RequestInv, LookupsAreHonest
  <2>3. QED BY <1>1, <2>2 DEF IInv, PollsAreSound, AuthorisedSince
<1>2. IInv => DeliveredJobsAreAuthorised BY <1>1 DEF DeliveredJobsAreAuthorised
<1>3. QED BY <1>2, SpecIInv, PTL

-----------------------------------------------------------------------------
(* What the ledger of signed jobs sees of each step                        *)

Answers == {Entry(x.asks, x.by, x.job) : x \in answered}

Seen == <<Entered(jobs), kid, Entered(received), Answers>>

(* Only four actions touch what the ledger sees.                           *)
LEMMA MostStepsAreUnseen ==
    ASSUME [Next]_vars,
           \A h \in load.handlers : ~ ReturnPrior(h) /\ ~ Insert(h) /\ ~ Deliver(h),
           \A down, key : ~ Stop(down, key)
    PROVE  UNCHANGED <<jobs, kid, received, answered>>
<1> USE DEF people, tables, work, jobVars
<1>1. CASE RequestNext /\ UNCHANGED jobVars BY <1>1
<1>2. ASSUME NEW h, NEW a, NEW q, NEW r, NEW n, Ask(h, a, q, n, r)
      PROVE  UNCHANGED <<jobs, kid, received, answered>>
  BY <1>2 DEF Ask
<1>3. ASSUME NEW h, \/ CheckAuthority(h) \/ Target(h) \/ Lock(h) \/ IssueFails(h)
                   \/ Select(h) \/ PendingFails(h) \/ Report(h)
      PROVE  UNCHANGED <<jobs, kid, received, answered>>
  BY <1>3 DEF CheckAuthority, Target, Lock, IssueFails, Select, PendingFails, Report
<1>4. ASSUME NEW h, NEW j, Recheck(h, j)
      PROVE  UNCHANGED <<jobs, kid, received, answered>>
  BY <1>4 DEF Recheck
<1>5. ASSUME NEW a, Change(a) PROVE UNCHANGED <<jobs, kid, received, answered>>
  BY <1>5 DEF Change
<1>6. CASE UNCHANGED vars BY <1>6 DEF vars
<1>7. QED BY <1>1, <1>2, <1>3, <1>4, <1>5, <1>6 DEF Next

LEMMA JobsUnderTheKeyAreEntries ==
    ASSUME kid \in 1..MaxKeys, NEW job \in Job, job.kid = kid
    PROVE  Entry(job.asks, job.by, job) \in Ledger!Entries
BY DEF Entry, Job, Ledger!Entries

(* A reply for a stored job adds that job's entry to the answers, or       *)
(* nothing when it is lost.                                                *)
LEMMA ReplyAnswers ==
    ASSUME NEW h \in Handlers, NEW job,
           job.asks = call[h].asks, job.by = call[h].by, Reply(h, job)
    PROVE  Answers' \in {Answers, Answers \cup {Entry(job.asks, job.by, job)}}
<1> DEFINE new == [asks |-> call[h].asks, by |-> call[h].by, job |-> job]
<1>1. CASE answered' = answered
  <2>1. Answers' = Answers BY <1>1 DEF Answers
  <2>2. QED BY <2>1
<1>2. CASE answered' = answered \cup {new}
  <2>1. Answers' = Answers \cup {Entry(new.asks, new.by, new.job)}
    <3> HIDE DEF new
    <3>1. QED BY <1>2 DEF Answers
  <2>2. QED BY <2>1
<1>3. QED BY <1>1, <1>2 DEF Reply

LEMMA ReturnPriorAnswers ==
    ASSUME IInv, NEW h \in Handlers, ReturnPrior(h)
    PROVE  [Ledger!Next]_Seen
<1>1. PICK job \in jobs : /\ job.asks = call[h].asks /\ job.by = call[h].by
                          /\ job.kid = kid /\ Reply(h, job)
  BY DEF ReturnPrior, Verified, Stored
<1> DEFINE e == Entry(job.asks, job.by, job)
<1>2. UNCHANGED <<jobs, kid, received>> BY DEF ReturnPrior, tables
<1>3. UNCHANGED <<Entered(jobs), kid, Entered(received)>> BY <1>2 DEF Entered
<1>4. e \in Ledger!Entries
  BY <1>1, JobsUnderTheKeyAreEntries DEF IInv, TablesTypeOK
<1>5. e \in Entered(jobs) /\ e.kid = kid BY <1>1 DEF Entered, Entry
<1>6. Answers' \in {Answers, Answers \cup {e}} BY <1>1, ReplyAnswers
<1> HIDE DEF e
<1>7. CASE Answers' = Answers BY <1>3, <1>7 DEF Seen
<1>8. CASE Answers' = Answers \cup {e}
  <2>1. Ledger!Answer(e) BY <1>3, <1>5, <1>8 DEF Ledger!Answer, Answers
  <2>2. QED BY <1>4, <2>1 DEF Ledger!Next
<1>9. QED BY <1>6, <1>7, <1>8

(* The lookup under the advisory lock found no job of that id, so there is *)
(* no entry of it.                                                         *)
LEMMA InsertSigns ==
    ASSUME IInv, IInv', NEW h \in Handlers, Insert(h)
    PROVE  [Ledger!Next]_Seen
<1> DEFINE job == [number |-> signed + 1, asks |-> call[h].asks, by |-> call[h].by,
                   version |-> request[h].version, approval |-> call[h].session,
                   kid |-> kid, exp |-> now + JobLife]
           e == Entry(job.asks, job.by, job)
<1>1. jobs' = jobs \cup {job} /\ Reply(h, job) /\ UNCHANGED <<kid, received>>
  BY DEF Insert
<1>2. job.asks = call[h].asks /\ job.by = call[h].by /\ job.kid = kid OBVIOUS
<1>3. \A j \in jobs : j.asks.id # job.asks.id BY DEF Insert, Stored
<1> HIDE DEF job
<1>4. \A old \in Entered(jobs) : old.asks.id # e.asks.id
  BY <1>3 DEF Entered, Entry
<1>5. Entered(jobs)' = Entered(jobs) \cup {e} BY <1>1 DEF Entered
<1>6. job \in Job /\ kid \in 1..MaxKeys BY <1>1 DEF IInv, TablesTypeOK
<1>7. e \in Ledger!Entries BY <1>2, <1>6, JobsUnderTheKeyAreEntries
<1>8. Answers' \in {Answers, Answers \cup {e}} BY <1>1, <1>2, ReplyAnswers
<1>9. e.kid = kid BY <1>2 DEF Entry
<1>10. UNCHANGED <<kid, Entered(received)>> BY <1>1 DEF Entered
<1> HIDE DEF e
<1>11. Ledger!Sign(e)
  BY <1>4, <1>5, <1>8, <1>9, <1>10 DEF Ledger!Sign, Answers
<1>12. QED BY <1>7, <1>11 DEF Ledger!Next

(* All that a poll delivers passed the check under the key of the day, for *)
(* the version of the device that polls.                                   *)
LEMMA DeliverDelivers ==
    ASSUME IInv, NEW h \in Handlers, Deliver(h)
    PROVE  [Ledger!Next]_Seen
<1>1. /\ UNCHANGED <<jobs, kid, answered>>
      /\ received' \in {received, received \cup out[h]}
  BY DEF Deliver, tables
<1>2. UNCHANGED <<Entered(jobs), kid, Answers>> BY <1>1 DEF Entered, Answers
<1>3. CASE received' = received
  <2>1. UNCHANGED Entered(received) BY <1>3 DEF Entered
  <2>2. QED BY <1>2, <2>1 DEF Seen
<1>4. CASE received' = received \cup out[h]
  <2> DEFINE S == Entered(out[h])
  <2>1. \A j \in out[h] : j \in jobs /\ j.kid = kid /\ j.version = request[h].version
    BY DEF IInv, WorkTypeOK, PollsAreSound
  <2>2. S \in SUBSET Entered(jobs) BY <2>1 DEF Entered
  <2>3. \A e \in S : e.kid = kid /\ e.version = request[h].version
    BY <2>1 DEF Entered, Entry
  <2>4. Entered(received)' = Entered(received) \cup S BY <1>4 DEF Entered
  <2> HIDE DEF S
  <2>5. Ledger!Deliver(S) BY <1>2, <2>3, <2>4 DEF Ledger!Deliver, Answers
  <2>6. QED BY <2>2, <2>5 DEF Ledger!Next
<1>5. QED BY <1>1, <1>3, <1>4

LEMMA StopRetires ==
    ASSUME NEW down, NEW k, Stop(down, k)
    PROVE  [Ledger!Next]_Seen
<1>1. UNCHANGED <<jobs, received, answered>> /\ kid' \in {kid, kid + 1}
  BY DEF Stop, tables
<1>2. UNCHANGED <<Entered(jobs), Entered(received), Answers>>
  BY <1>1 DEF Entered, Answers
<1>3. CASE kid' = kid BY <1>2, <1>3 DEF Seen
<1>4. CASE kid' = kid + 1
  <2>1. Ledger!Retire BY <1>2, <1>4 DEF Ledger!Retire, Answers
  <2>2. QED BY <2>1 DEF Ledger!Next
<1>5. QED BY <1>1, <1>3, <1>4

LEMMA StepRefines ==
    ASSUME IInv, IInv', [Next]_vars
    PROVE  [Ledger!Next]_Seen
<1>1. load.handlers \subseteq Handlers
  BY LoadsAssumption DEF IInv, RequestInv, RequestTypeOK
<1>2. CASE \E h \in load.handlers : ReturnPrior(h) \/ Insert(h) \/ Deliver(h)
  BY <1>1, <1>2, ReturnPriorAnswers, InsertSigns, DeliverDelivers
<1>3. CASE \E down, k : Stop(down, k)
  BY <1>3, StopRetires
<1>4. CASE UNCHANGED <<jobs, kid, received, answered>>
  BY <1>4 DEF Seen, Entered, Answers
<1>5. QED BY <1>2, <1>3, <1>4, MostStepsAreUnseen

(* ImplementsJobLedger: handlers on any number of replicas that race for   *)
(* an id, die, retry and lose answers keep, together, one ledger.          *)
THEOREM Refinement == Spec => ImplementsJobLedger
<1>1. Init => Ledger!Init BY DEF Init, Ledger!Init, Entered
<1>2. QED
  BY SpecIInv, StepRefines, <1>1, PTL
     DEF Spec, ImplementsJobLedger, Ledger!Spec, Seen, Answers
=============================================================================
