---------------------------- MODULE ApiKeyCache ----------------------------
(***************************************************************************)
(* The authentication cache of one user's API keys: KeyVerifier.verify     *)
(* (auth/keyVerifier.ts) reads through Redis to PostgreSQL, and            *)
(* invalidateUser evicts what the per-user index names.  It is called by   *)
(* ApiKeyService.revoke, by the lifecycle and service access consumers     *)
(* and, with an identifier no user has, by the legacy consumer.            *)
(*                                                                         *)
(* Every Redis command and every SQL statement is a step of its own, may   *)
(* fail, and may be the last one its process executes.  Time passes in     *)
(* ticks; times to live are kept as what is left of them.                  *)
(***************************************************************************)
EXTENDS Integers, FiniteSets

CONSTANTS
  Keys,         \* API keys of the user
  Requests,     \* concurrent calls of verify
  Workers,      \* concurrent deactivations: revoke and the event consumers
  Ttl,          \* ticks a cache entry lives (cacheTtlSeconds)
  Grace,        \* ticks the index outlives the youngest entry (the "+ 5")
  MaxLatency    \* ticks between reading a row and writing the cache entry

ASSUME TimesAssumption ==
  /\ Ttl \in Nat \ {0}
  /\ Grace \in Nat
  /\ MaxLatency \in Nat

VARIABLES
  row,         \* row[k]: the api_keys row, absent before create
  userActive,  \* users.is_active and lifecycle_status = 'ACTIVE'
  left,        \* left[k]: ticks the entry tg:auth:key:<k> has left, 0 if absent
  index,       \* members of tg:auth:user:<userId>
  indexLeft,   \* ticks the index has left, NoTtl if it has none, 0 if absent
  at,          \* at[r]: the next command of request r
  key,         \* key[r]: the key it verifies
  age,         \* age[r]: ticks since it read the row
  job,         \* job[w]: the next command of deactivation w
  target,      \* target[w]: the keys it deactivated
  listed,      \* listed[w]: what its sMembers returned
  since,       \* history: keys added to the index since that sMembers
  deadFor,     \* history: ticks since the key became unusable
  evicted,     \* history: keys whose deactivation finished invalidateUser
  raced,       \* history: keys being cached while an invalidation listed
  loose        \* history: keys that a failed or overtaken fill left unindexed

vars == <<row, userActive, left, index, indexLeft, at, key, age, job, target,
          listed, since, deadFor, evicted, raced, loose>>
store == <<row, userActive>>
request == <<at, key, age>>
deactivation == <<job, target, listed, since>>
history == <<deadFor, evicted, raced, loose>>

NoTtl == -1
RequestSteps == {"idle", "query", "set", "index", "expire"}
JobSteps == {"idle", "list", "delete", "drop", "wrong"}
Horizon == Ttl + MaxLatency + 1   \* deadFor stops counting here

Usable(k) == row[k] = "active" /\ userActive
Dead(k) == row[k] # "absent" /\ ~Usable(k)
Cached(k) == left[k] > 0

TypeOK ==
  /\ row \in [Keys -> {"absent", "active", "revoked"}]
  /\ userActive \in BOOLEAN
  /\ left \in [Keys -> 0..Ttl]
  /\ index \subseteq Keys
  /\ indexLeft \in {NoTtl} \cup 0..(Ttl + Grace)
  /\ (index = {}) <=> (indexLeft = 0)
  /\ at \in [Requests -> RequestSteps]
  /\ key \in [Requests -> Keys]
  /\ age \in [Requests -> 0..MaxLatency]
  /\ job \in [Workers -> JobSteps]
  /\ target \in [Workers -> SUBSET Keys]
  /\ listed \in [Workers -> SUBSET Keys]
  /\ since \in [Workers -> SUBSET Keys]
  /\ deadFor \in [Keys -> 0..Horizon]
  /\ evicted \subseteq Keys
  /\ raced \subseteq Keys
  /\ loose \subseteq Keys

Init ==
  /\ row = [k \in Keys |-> "absent"]
  /\ userActive = TRUE
  /\ left = [k \in Keys |-> 0]
  /\ index = {}
  /\ indexLeft = 0
  /\ at = [r \in Requests |-> "idle"]
  /\ key \in [Requests -> Keys]
  /\ age = [r \in Requests |-> 0]
  /\ job = [w \in Workers |-> "idle"]
  /\ target = [w \in Workers |-> {}]
  /\ listed = [w \in Workers |-> {}]
  /\ since = [w \in Workers |-> {}]
  /\ deadFor = [k \in Keys |-> 0]
  /\ evicted = {}
  /\ raced = {}
  /\ loose = {}

-----------------------------------------------------------------------------
(* ApiKeyService.create: the INSERT.                                       *)
Create(k) ==
  /\ row[k] = "absent"
  /\ row' = [row EXCEPT ![k] = "active"]
  /\ UNCHANGED <<userActive, left, index, indexLeft, request, deactivation,
                 history>>

-----------------------------------------------------------------------------
(* KeyVerifier.verify                                                      *)

(* redis.get missed.  A hit returns the cached principal and changes       *)
(* nothing, so it is no step.                                              *)
Miss(r, k) ==
  /\ at[r] = "idle"
  /\ ~Cached(k)
  /\ at' = [at EXCEPT ![r] = "query"]
  /\ key' = [key EXCEPT ![r] = k]
  /\ UNCHANGED <<store, left, index, indexLeft, age, deactivation, history>>

(* The SELECT over api_keys and users; no row answers undefined.           *)
Query(r) ==
  /\ at[r] = "query"
  /\ at' = [at EXCEPT ![r] = IF Usable(key[r]) THEN "set" ELSE "idle"]
  /\ age' = [age EXCEPT ![r] = 0]
  /\ UNCHANGED <<store, left, index, indexLeft, key, deactivation, history>>

SetCacheForever(r) ==          \* slip: a hit in time extends the entry's life
  \/ /\ at[r] = "set"
     /\ at' = [at EXCEPT ![r] = "index"]
     /\ left' = [left EXCEPT ![key[r]] = Ttl]
     /\ UNCHANGED <<store, index, indexLeft, key, age, deactivation, history>>
  \/ /\ at[r] = "idle"
     /\ Cached(key[r])
     /\ left' = [left EXCEPT ![key[r]] = Ttl]
     /\ UNCHANGED <<store, index, indexLeft, request, deactivation, history>>

(* redis.set(cacheKey, principal, EX): the entry starts a full life.       *)
SetCache(r) ==
  /\ at[r] = "set"
  /\ at' = [at EXCEPT ![r] = "index"]
  /\ left' = [left EXCEPT ![key[r]] = Ttl]
  /\ age' = [age EXCEPT ![r] = 0]
  /\ UNCHANGED <<store, index, indexLeft, key, deactivation, history>>

(* redis.sAdd(index, cacheKey): creates the index without a time to live.  *)
AddToIndex(r) ==
  /\ at[r] = "index"
  /\ at' = [at EXCEPT ![r] = "expire"]
  /\ index' = index \cup {key[r]}
  /\ indexLeft' = IF index = {} THEN NoTtl ELSE indexLeft
  /\ loose' = loose \ {key[r]}
  /\ since' = [w \in Workers |-> IF job[w] \in {"delete", "drop"}
                                 THEN since[w] \cup {key[r]} ELSE since[w]]
  /\ UNCHANGED <<store, left, key, age, job, target, listed, deadFor, evicted,
                 raced>>

IndexLifeTooShort == IF Ttl > 1 THEN Ttl - 1 ELSE Ttl   \* slip

IndexLife == Ttl + Grace       \* expire(index, cacheTtlSeconds + 5)

(* redis.expire(index, ...): nothing happens when the index is gone.       *)
ExpireIndex(r) ==
  /\ at[r] = "expire"
  /\ at' = [at EXCEPT ![r] = "idle"]
  /\ indexLeft' = IF index = {} THEN 0 ELSE IndexLife
  /\ UNCHANGED <<store, left, index, key, age, deactivation, history>>

(* A command throws, the process dies before it, or the SELECT finds the   *)
(* consumers' heartbeats too old.                                          *)
VerifyFails(r) ==
  /\ at[r] # "idle"
  /\ at' = [at EXCEPT ![r] = "idle"]
  /\ loose' = IF at[r] \in {"index", "expire"} THEN loose \cup {key[r]}
                                               ELSE loose
  /\ UNCHANGED <<store, left, index, indexLeft, key, age, deactivation,
                 deadFor, evicted, raced>>

-----------------------------------------------------------------------------
(* Deactivations, and KeyVerifier.invalidateUser                           *)

Start(w, keys, step) ==
  /\ job[w] = "idle"
  /\ job' = [job EXCEPT ![w] = step]
  /\ target' = [target EXCEPT ![w] = keys]
  /\ UNCHANGED <<left, index, indexLeft, request, listed, since, evicted,
                 raced, loose>>

(* ApiKeyService.revoke: UPDATE ... WHERE is_active; no row, no eviction.  *)
Revoke(w, k) ==
  /\ row[k] = "active"
  /\ row' = [row EXCEPT ![k] = "revoked"]
  /\ UNCHANGED <<userActive, deadFor>>
  /\ Start(w, {k}, "list")

AllRevoked == [k \in Keys |-> IF row[k] = "active" THEN "revoked" ELSE row[k]]
Existing == {k \in Keys : row[k] # "absent"}

(* A lifecycle event's transaction: the user and all keys of the row's id. *)
Block(w) ==
  /\ row' = AllRevoked
  /\ userActive' = FALSE
  /\ UNCHANGED deadFor
  /\ Start(w, Existing, "list")

(* A newer lifecycle event makes the user active again; keys stay revoked, *)
(* and the cache is evicted all the same.                                  *)
Reenable(w) ==
  /\ ~userActive
  /\ userActive' = TRUE
  /\ deadFor' = [k \in Keys |-> IF row[k] = "active" THEN 0 ELSE deadFor[k]]
  /\ UNCHANGED row
  /\ Start(w, {}, "list")

Filling(steps) == {key[r] : r \in {q \in Requests : at[q] \in steps}}

(* The legacy event's transaction is the same, but what follows it evicts  *)
(* "tg_usr_<subject>", and ensureLocalUser gives users random ids:         *)
(* sMembers of that index is empty and its del deletes nothing.            *)
LegacyBlock(w) ==
  /\ row' = AllRevoked
  /\ userActive' = FALSE
  /\ UNCHANGED deadFor
  /\ Start(w, Existing, "wrong")

(* invalidateUser and its caller are over, and so are their variables.     *)
Forget(w) ==
  /\ job' = [job EXCEPT ![w] = "idle"]
  /\ target' = [target EXCEPT ![w] = {}]
  /\ listed' = [listed EXCEPT ![w] = {}]
  /\ since' = [since EXCEPT ![w] = {}]

LegacyInvalidate(w) ==
  /\ job[w] = "wrong"
  /\ Forget(w)
  /\ UNCHANGED <<store, left, index, indexLeft, request, history>>

(* sMembers(index)                                                         *)
ListKeys(w) ==
  /\ job[w] = "list"
  /\ job' = [job EXCEPT ![w] = IF index = {} THEN "drop" ELSE "delete"]
  /\ listed' = [listed EXCEPT ![w] = index]
  /\ since' = [since EXCEPT ![w] = {}]
  /\ raced' = raced \cup Filling({"set", "index"})
  /\ UNCHANGED <<store, left, index, indexLeft, request, target, deadFor,
                 evicted, loose>>

(* del(keys)                                                               *)
DeleteKeys(w) ==
  /\ job[w] = "delete"
  /\ job' = [job EXCEPT ![w] = "drop"]
  /\ left' = [k \in Keys |-> IF k \in listed[w] THEN 0 ELSE left[k]]
  /\ UNCHANGED <<store, index, indexLeft, request, target, listed, since,
                 history>>

(* del(index): what was added since the sMembers goes with it.             *)
DropIndex(w) ==
  /\ job[w] = "drop"
  /\ index' = {}
  /\ indexLeft' = 0
  /\ evicted' = evicted \cup target[w]
  /\ loose' = loose \cup since[w]
  /\ Forget(w)
  /\ UNCHANGED <<store, left, request, deadFor, raced>>

InvalidationFails(w) ==
  /\ job[w] \in {"list", "delete", "drop", "wrong"}
  /\ Forget(w)
  /\ UNCHANGED <<store, left, index, indexLeft, request, history>>

-----------------------------------------------------------------------------
(* Keys with an entry, or about to have one: the others escape nothing.    *)
Alive(remaining) == {k \in Keys : remaining[k] > 0}
                      \cup Filling({"set", "index", "expire"})

(* One tick.  Keys whose fill has indexed them but has not yet extended    *)
(* the index become loose when the old index runs out under them.          *)
Tick ==
  /\ \A r \in Requests : at[r] = "set" => age[r] < MaxLatency
  /\ left' = [k \in Keys |-> IF left[k] > 0 THEN left[k] - 1 ELSE 0]
  /\ index' = IF indexLeft = 1 THEN {} ELSE index
  /\ indexLeft' = IF indexLeft > 0 THEN indexLeft - 1 ELSE indexLeft
  /\ loose' = Alive(left') \cap
       IF indexLeft = 1 THEN loose \cup Filling({"expire"}) ELSE loose
  /\ raced' = Alive(left') \cap raced
  /\ age' = [r \in Requests |-> IF at[r] = "set" THEN age[r] + 1 ELSE age[r]]
  /\ deadFor' = [k \in Keys |->
       IF Dead(k) /\ deadFor[k] < Horizon THEN deadFor[k] + 1 ELSE deadFor[k]]
  /\ UNCHANGED <<store, at, key, deactivation, evicted>>

Next ==
  \/ \E k \in Keys : Create(k)
  \/ \E r \in Requests :
       \/ \E k \in Keys : Miss(r, k)
       \/ Query(r)
       \/ SetCache(r)
       \/ AddToIndex(r)
       \/ ExpireIndex(r)
       \/ VerifyFails(r)
  \/ \E w \in Workers :
       \/ \E k \in Keys : Revoke(w, k)
       \/ Block(w)
       \/ Reenable(w)
       \/ LegacyBlock(w)
       \/ LegacyInvalidate(w)
       \/ ListKeys(w)
       \/ DeleteKeys(w)
       \/ DropIndex(w)
       \/ InvalidationFails(w)
  \/ Tick

Spec == Init /\ [][Next]_vars

-----------------------------------------------------------------------------
(* However the fills, failures and evictions interleave, and even if the   *)
(* eviction names the wrong user, a key that was revoked or whose user was *)
(* blocked stops authenticating Ttl ticks after the last verification that *)
(* had read it before.                                                     *)
RevokedKeyExpires ==
  \A k \in Keys : Dead(k) /\ Cached(k) => deadFor[k] + left[k] <= MaxLatency + Ttl

(* verify indexes what it caches and the index outlives its entries: an    *)
(* entry the index does not name is one being cached right now, or one     *)
(* whose caching failed half way, was overtaken by the del of another      *)
(* invalidation or by the end of an older index.                           *)
LiveEntryIsIndexed ==
  \A k \in Keys :
    Cached(k) => k \in index \cup loose \cup Filling({"index"})

(* invalidateUser does what revoke and the consumers call it for: after it *)
(* finished, a key they deactivated is not cached, unless it was being     *)
(* cached while the index was listed or had escaped the index before.      *)
EvictionIsComplete ==
  \A k \in evicted : Cached(k) => k \in raced \cup loose

(* Keys escape their eviction in the ways named above and no other.        *)
EvictionsMissOnlyRaces == LiveEntryIsIndexed /\ EvictionIsComplete
=============================================================================
