------------------------- MODULE ApiKeyCacheProofs -------------------------
(***************************************************************************)
(* Proofs about ApiKeyCache, for every set of keys, requests and workers   *)
(* and all times: a dead key stops authenticating in bounded time, and     *)
(* escapes its eviction in the ways ApiKeyCache names, and no other.       *)
(***************************************************************************)
EXTENDS ApiKeyCache, TLAPS

(* A fill that is about to write the cache read its row when the key was   *)
(* alive: the key has been dead for no longer than the fill is on its way. *)
FillsAreRecent ==
  \A r \in Requests :
    at[r] = "set" /\ Dead(key[r]) => deadFor[key[r]] <= age[r]

(* Keys that may still authenticate have not been dead for any time.       *)
LiveKeysCountNothing == \A k \in Keys : ~Dead(k) => deadFor[k] = 0

IInv ==
  /\ TypeOK
  /\ RevokedKeyExpires
  /\ FillsAreRecent
  /\ LiveKeysCountNothing

USE TimesAssumption

(* An empty cache and no calls in flight. *)
LEMMA InitIInv == Init => IInv
BY SMT DEF Init, IInv, TypeOK, RevokedKeyExpires, FillsAreRecent,
           LiveKeysCountNothing, Dead, Usable, Cached, Horizon, RequestSteps,
           JobSteps, NoTtl

(* Every step keeps the types, and an index exists as long as it lives.    *)
LEMMA TypeStep ==
    ASSUME TypeOK, [Next]_vars
    PROVE  TypeOK'
<1> USE DEF TypeOK, RequestSteps, JobSteps, NoTtl, Horizon, store, request,
            deactivation, history
<1>1. ASSUME NEW k \in Keys, Create(k) PROVE TypeOK'
  BY <1>1, SMT DEF Create
<1>2. ASSUME NEW r \in Requests, NEW k \in Keys, Miss(r, k) PROVE TypeOK'
  BY <1>2, SMT DEF Miss
<1>3. ASSUME NEW r \in Requests, Query(r) PROVE TypeOK'
  BY <1>3, SMT DEF Query
<1>4. ASSUME NEW r \in Requests, SetCache(r) PROVE TypeOK'
  BY <1>4, SMT DEF SetCache
<1>5. ASSUME NEW r \in Requests, AddToIndex(r) PROVE TypeOK'
  BY <1>5, SMT DEF AddToIndex
<1>6. ASSUME NEW r \in Requests, ExpireIndex(r) PROVE TypeOK'
  BY <1>6, SMT DEF ExpireIndex, IndexLife
<1>7. ASSUME NEW r \in Requests, VerifyFails(r) PROVE TypeOK'
  BY <1>7, SMT DEF VerifyFails
<1>8. ASSUME NEW w \in Workers, NEW k \in Keys, Revoke(w, k) PROVE TypeOK'
  BY <1>8, SMT DEF Revoke, Start
<1>9. ASSUME NEW w \in Workers, Block(w) \/ LegacyBlock(w) PROVE TypeOK'
  <2>1. row' \in [Keys -> {"absent", "active", "revoked"}]
    BY <1>9, SMT DEF Block, LegacyBlock, AllRevoked
  <2>2. job' \in [Workers -> JobSteps] /\ target' \in [Workers -> SUBSET Keys]
    <3>1. Existing \in SUBSET Keys BY DEF Existing
    <3>2. /\ job' \in {[job EXCEPT ![w] = "list"], [job EXCEPT ![w] = "wrong"]}
          /\ target' = [target EXCEPT ![w] = Existing]
      BY <1>9, SMT DEF Block, LegacyBlock, Start
    <3>3. QED BY <3>1, <3>2, SMT
  <2>3. userActive' \in BOOLEAN
    <3>1. userActive' = FALSE BY <1>9 DEF Block, LegacyBlock
    <3>2. QED BY <3>1
  <2>4. UNCHANGED <<left, index, indexLeft, at, key, age, listed, since,
                    deadFor, evicted, raced, loose>>
    BY <1>9, SMT DEF Block, LegacyBlock, Start
  <2>5. QED BY <2>1, <2>2, <2>3, <2>4, SMT
<1>10. ASSUME NEW w \in Workers, LegacyInvalidate(w) PROVE TypeOK'
  BY <1>10, SMT DEF LegacyInvalidate, Forget, Filling
<1>11. ASSUME NEW w \in Workers, ListKeys(w) PROVE TypeOK'
  BY <1>11, SMT DEF ListKeys, Filling
<1>12. ASSUME NEW w \in Workers, DeleteKeys(w) PROVE TypeOK'
  BY <1>12, SMT DEF DeleteKeys
<1>13. ASSUME NEW w \in Workers, DropIndex(w) PROVE TypeOK'
  BY <1>13, SMT DEF DropIndex, Forget
<1>14. ASSUME NEW w \in Workers, InvalidationFails(w) PROVE TypeOK'
  BY <1>14, SMT DEF InvalidationFails, Forget
<1>15. ASSUME NEW w \in Workers, Reenable(w) PROVE TypeOK'
  BY <1>15, SMT DEF Reenable, Start
<1>16. CASE Tick
  BY <1>16, SMT DEF Tick, Filling, Alive
<1>17. CASE UNCHANGED vars
  BY <1>17, SMT DEF vars
<1>18. QED
  BY <1>1, <1>2, <1>3, <1>4, <1>5, <1>6, <1>7, <1>8, <1>9, <1>10, <1>11,
     <1>12, <1>13, <1>14, <1>15, <1>16, <1>17 DEF Next

(* Steps that touch neither rows, entries, fills nor the dead keys' clock. *)
LEMMA Unrelated ==
    ASSUME IInv, UNCHANGED <<row, userActive, left, at, key, age, deadFor>>
    PROVE  (RevokedKeyExpires /\ FillsAreRecent /\ LiveKeysCountNothing)'
BY SMT DEF IInv, RevokedKeyExpires, FillsAreRecent, LiveKeysCountNothing, Dead,
           Usable, Cached

(* Killing keys starts their clock at zero, so every deadline is ahead.    *)
LEMMA Killing ==
    ASSUME IInv, TypeOK', UNCHANGED <<left, at, key, age, deadFor>>,
           \A k \in Keys : Dead(k) => Dead(k)'
    PROVE  (RevokedKeyExpires /\ FillsAreRecent /\ LiveKeysCountNothing)'
BY SMT DEF IInv, TypeOK, RevokedKeyExpires, FillsAreRecent,
           LiveKeysCountNothing, Dead, Usable, Cached

(* A tick brings the entry's end and the dead key's clock nearer alike.    *)
LEMMA TickStep ==
    ASSUME IInv, Tick
    PROVE  (RevokedKeyExpires /\ FillsAreRecent /\ LiveKeysCountNothing)'
<1>1. RevokedKeyExpires'
  BY SMT DEF IInv, TypeOK, Tick, RevokedKeyExpires, Dead, Usable, Cached,
             Horizon, store
<1>2. FillsAreRecent'
  BY SMT DEF IInv, TypeOK, Tick, FillsAreRecent, Dead, Usable, Horizon, store
<1>3. LiveKeysCountNothing'
  BY SMT DEF IInv, TypeOK, Tick, LiveKeysCountNothing, Dead, Usable, store
<1>4. QED BY <1>1, <1>2, <1>3

LEMMA StepIInv ==
    ASSUME IInv, [Next]_vars
    PROVE  IInv'
<1>1. TypeOK /\ TypeOK'
  BY TypeStep DEF IInv
<1> DEFINE Rest == RevokedKeyExpires /\ FillsAreRecent /\ LiveKeysCountNothing
<1>2. ASSUME NEW k \in Keys, Create(k) PROVE Rest'
  BY <1>1, <1>2, Killing, SMT DEF Create, store, request, history, Dead,
     Usable, TypeOK
<1>3. ASSUME NEW r \in Requests, NEW k \in Keys, Miss(r, k) PROVE Rest'
  BY <1>1, <1>3, SMT
     DEF IInv, TypeOK, Miss, RevokedKeyExpires, FillsAreRecent,
         LiveKeysCountNothing, Dead, Usable, Cached, store, history
<1>4. ASSUME NEW r \in Requests, Query(r) PROVE Rest'
  BY <1>1, <1>4, SMT
     DEF IInv, TypeOK, Query, RevokedKeyExpires, FillsAreRecent,
         LiveKeysCountNothing, Dead, Usable, Cached, store, history
<1>5. ASSUME NEW r \in Requests, SetCache(r) PROVE Rest'
  BY <1>1, <1>5, SMT
     DEF IInv, TypeOK, SetCache, RevokedKeyExpires, FillsAreRecent,
         LiveKeysCountNothing, Dead, Usable, Cached, store, history
<1>6. ASSUME NEW r \in Requests, AddToIndex(r) \/ ExpireIndex(r) \/ VerifyFails(r)
      PROVE  Rest'
  BY <1>1, <1>6, SMT
     DEF IInv, TypeOK, AddToIndex, ExpireIndex, VerifyFails, RevokedKeyExpires,
         FillsAreRecent, LiveKeysCountNothing, Dead, Usable, Cached, store, history
<1>7. ASSUME NEW w \in Workers, NEW k \in Keys, Revoke(w, k) PROVE Rest'
  BY <1>1, <1>7, Killing, SMT DEF Revoke, Start, request, history, Dead,
     Usable, TypeOK
<1>8. ASSUME NEW w \in Workers, Block(w) \/ LegacyBlock(w) PROVE Rest'
  BY <1>1, <1>8, Killing, SMT DEF Block, LegacyBlock, AllRevoked, Start,
     request, history, Dead, Usable, TypeOK
<1>9. ASSUME NEW w \in Workers, DeleteKeys(w) PROVE Rest'
  BY <1>1, <1>9, SMT
     DEF IInv, TypeOK, DeleteKeys, RevokedKeyExpires, FillsAreRecent,
         LiveKeysCountNothing, Dead, Usable, Cached, store, request, history
<1>10. ASSUME NEW w \in Workers,
              \/ LegacyInvalidate(w) \/ ListKeys(w) \/ DropIndex(w)
              \/ InvalidationFails(w)
       PROVE  Rest'
  BY <1>10, Unrelated DEF LegacyInvalidate, ListKeys, DropIndex,
     InvalidationFails, store, request, history
<1>11. ASSUME NEW w \in Workers, Reenable(w) PROVE Rest'
  BY <1>1, <1>11, SMT
     DEF IInv, TypeOK, Reenable, RevokedKeyExpires, FillsAreRecent,
         LiveKeysCountNothing, Dead, Usable, Cached, request, Start
<1>12. CASE Tick
  BY <1>1, <1>12, TickStep DEF IInv
<1>13. CASE UNCHANGED vars
  BY <1>1, <1>13, Unrelated DEF vars, IInv
<1>14. QED
  BY <1>1, <1>2, <1>3, <1>4, <1>5, <1>6, <1>7, <1>8, <1>9, <1>10, <1>11,
     <1>12, <1>13 DEF Next, IInv

(* Type correctness, the freshness of fills and the deadline of dead keys  *)
(* hold in every reachable state of the cache.                             *)
THEOREM Invariant == Spec => []IInv
<1>1. Init => IInv BY InitIInv
<1>2. IInv /\ [Next]_vars => IInv' BY StepIInv
<1>3. QED BY <1>1, <1>2, PTL DEF Spec

(* Every variable of the cache has its type, and the index is there exactly *)
(* while it has time left to live.                                          *)
THEOREM Types == Spec => []TypeOK
<1>1. IInv => TypeOK BY DEF IInv
<1>2. QED BY <1>1, Invariant, PTL

(* The time to live of KeyVerifier's cache entries bounds how long a       *)
(* revoked key or a blocked user's key still authenticates, whatever       *)
(* fails, races or names the wrong user.                                   *)
THEOREM DeadKeysExpire == Spec => []RevokedKeyExpires
<1>1. IInv => RevokedKeyExpires BY DEF IInv
<1>2. QED BY <1>1, Invariant, PTL

---------------------------------------------------------------------------
(* What escapes an eviction                                                *)

BeingIndexed == Filling({"index"})
BeingCached == Filling({"set", "index"})

(* A running index outlives the entries it names, but for those whose fill *)
(* has still to extend it, or failed to.                                   *)
IndexOutlives ==
  indexLeft > 0 =>
    \A k \in index : left[k] <= indexLeft
                     \/ k \in loose \cup Filling({"index", "expire"})

(* What the index names is known to the deactivation that will delete it,  *)
(* or was added since it listed the index.                                 *)
IndexIsListed ==
  \A w \in Workers :
    /\ job[w] = "delete" => index \subseteq listed[w] \cup since[w]
    /\ job[w] = "drop" =>
         \A k \in index : Cached(k) => k \in since[w] \cup loose \cup BeingIndexed

(* Deactivated keys never come back. *)
TargetsAreRevoked ==
  /\ \A w \in Workers : \A k \in target[w] : row[k] = "revoked"
  /\ \A k \in evicted : row[k] = "revoked"

(* Once an invalidation listed the index, a fill of a key it is about is   *)
(* one that was under way then.                                            *)
FillsWereSeen ==
  \A k \in BeingCached :
    /\ k \in evicted => k \in raced
    /\ \A w \in Workers : job[w] \in {"delete", "drop"} /\ k \in target[w] => k \in raced

TargetsAreListed ==
  \A w \in Workers : \A k \in target[w] :
    /\ job[w] = "delete" /\ Cached(k) => k \in listed[w] \cup raced \cup loose
    /\ job[w] = "drop" /\ Cached(k) => k \in raced \cup loose

Escapes ==
  /\ LiveEntryIsIndexed
  /\ EvictionIsComplete
  /\ IndexOutlives
  /\ IndexIsListed
  /\ TargetsAreRevoked
  /\ FillsWereSeen
  /\ TargetsAreListed

(* How the entries that escape change, action by action. *)

(* A created key was absent: no deactivation is about it. *)
LEMMA CreateEscapes ==
    ASSUME TypeOK, TypeOK', Escapes, NEW k \in Keys, Create(k)
    PROVE  Escapes'
<1> USE DEF Create, TypeOK, Escapes, Cached, BeingCached, BeingIndexed,
            Filling, store, request, deactivation, history, NoTtl
<1>1. LiveEntryIsIndexed'
  BY SMT DEF LiveEntryIsIndexed
<1>2. EvictionIsComplete'
  BY SMT DEF EvictionIsComplete
<1>3. IndexOutlives'
  BY SMT DEF IndexOutlives
<1>4. IndexIsListed'
  BY SMT DEF IndexIsListed
<1>5. TargetsAreRevoked'
  BY SMT DEF TargetsAreRevoked
<1>6. FillsWereSeen'
  BY SMT DEF FillsWereSeen
<1>7. TargetsAreListed'
  BY SMT DEF TargetsAreListed
<1>8. QED BY <1>1, <1>2, <1>3, <1>4, <1>5, <1>6, <1>7

(* A call that has only missed caches nothing yet. *)
LEMMA MissEscapes ==
    ASSUME TypeOK, TypeOK', Escapes, NEW r \in Requests, NEW k \in Keys, Miss(r, k)
    PROVE  Escapes'
<1> USE DEF Miss, TypeOK, Escapes, Cached, BeingCached, BeingIndexed,
            Filling, store, request, deactivation, history, NoTtl
<1>1. LiveEntryIsIndexed'
  BY SMT DEF LiveEntryIsIndexed
<1>2. EvictionIsComplete'
  BY SMT DEF EvictionIsComplete
<1>3. IndexOutlives'
  BY SMT DEF IndexOutlives
<1>4. IndexIsListed'
  BY SMT DEF IndexIsListed
<1>5. TargetsAreRevoked'
  BY SMT DEF TargetsAreRevoked
<1>6. FillsWereSeen'
  BY SMT DEF FillsWereSeen
<1>7. TargetsAreListed'
  BY SMT DEF TargetsAreListed
<1>8. QED BY <1>1, <1>2, <1>3, <1>4, <1>5, <1>6, <1>7

(* The SELECT finds no revoked key, so no new fill is of a deactivated     *)
(* one.                                                                    *)
LEMMA QueryEscapes ==
    ASSUME TypeOK, TypeOK', Escapes, NEW r \in Requests, Query(r)
    PROVE  Escapes'
<1> USE DEF Query, Usable, TypeOK, Escapes, Cached, BeingCached,
            BeingIndexed, Filling, store, request, deactivation, history,
            NoTtl
<1>1. LiveEntryIsIndexed'
  BY SMT DEF LiveEntryIsIndexed
<1>2. EvictionIsComplete'
  BY SMT DEF EvictionIsComplete
<1>3. IndexOutlives'
  BY SMT DEF IndexOutlives
<1>4. IndexIsListed'
  BY SMT DEF IndexIsListed
<1>5. TargetsAreRevoked'
  BY SMT DEF TargetsAreRevoked
<1>6. FillsWereSeen'
  BY SMT DEF FillsWereSeen, TargetsAreRevoked
<1>7. TargetsAreListed'
  BY SMT DEF TargetsAreListed
<1>8. QED BY <1>1, <1>2, <1>3, <1>4, <1>5, <1>6, <1>7

(* A new entry is one that is being indexed. *)
LEMMA SetCacheEscapes ==
    ASSUME TypeOK, TypeOK', Escapes, NEW r \in Requests, SetCache(r)
    PROVE  Escapes'
<1> USE DEF SetCache, TypeOK, Escapes, Cached, BeingCached, BeingIndexed,
            Filling, store, request, deactivation, history, NoTtl
<1>1. LiveEntryIsIndexed'
  BY SMT DEF LiveEntryIsIndexed
<1>2. EvictionIsComplete'
  BY SMT DEF EvictionIsComplete, FillsWereSeen
<1>3. IndexOutlives'
  BY SMT DEF IndexOutlives
<1>4. IndexIsListed'
  BY SMT DEF IndexIsListed
<1>5. TargetsAreRevoked'
  BY SMT DEF TargetsAreRevoked
<1>6. FillsWereSeen'
  BY SMT DEF FillsWereSeen
<1>7. TargetsAreListed'
  BY SMT DEF TargetsAreListed, FillsWereSeen
<1>8. QED BY <1>1, <1>2, <1>3, <1>4, <1>5, <1>6, <1>7

(* The index names the entry, and every deactivation that has listed it    *)
(* counts it as a later one.                                               *)
LEMMA AddToIndexEscapes ==
    ASSUME TypeOK, TypeOK', Escapes, NEW r \in Requests, AddToIndex(r)
    PROVE  Escapes'
<1> USE DEF AddToIndex, TypeOK, Escapes, Cached, BeingCached, BeingIndexed,
            Filling, store, request, deactivation, history, NoTtl
<1>1. LiveEntryIsIndexed'
  BY SMT DEF LiveEntryIsIndexed
<1>2. EvictionIsComplete'
  BY SMT DEF EvictionIsComplete, FillsWereSeen
<1>3. IndexOutlives'
  BY SMT DEF IndexOutlives
<1>4. IndexIsListed'
  BY SMT DEF IndexIsListed
<1>5. TargetsAreRevoked'
  BY SMT DEF TargetsAreRevoked
<1>6. FillsWereSeen'
  BY SMT DEF FillsWereSeen
<1>7. TargetsAreListed'
  BY SMT DEF TargetsAreListed, FillsWereSeen
<1>8. QED BY <1>1, <1>2, <1>3, <1>4, <1>5, <1>6, <1>7

(* The index gets at least the time that any entry has. *)
LEMMA ExpireIndexEscapes ==
    ASSUME TypeOK, TypeOK', Escapes, NEW r \in Requests, ExpireIndex(r)
    PROVE  Escapes'
<1> USE DEF ExpireIndex, IndexLife, TypeOK, Escapes, Cached, BeingCached,
            BeingIndexed, Filling, store, request, deactivation, history,
            NoTtl
<1>1. LiveEntryIsIndexed'
  BY SMT DEF LiveEntryIsIndexed
<1>2. EvictionIsComplete'
  BY SMT DEF EvictionIsComplete
<1>3. IndexOutlives'
  BY SMT DEF IndexOutlives
<1>4. IndexIsListed'
  BY SMT DEF IndexIsListed
<1>5. TargetsAreRevoked'
  BY SMT DEF TargetsAreRevoked
<1>6. FillsWereSeen'
  BY SMT DEF FillsWereSeen
<1>7. TargetsAreListed'
  BY SMT DEF TargetsAreListed
<1>8. QED BY <1>1, <1>2, <1>3, <1>4, <1>5, <1>6, <1>7

(* An entry whose fill is cut off is a loose one. *)
LEMMA VerifyFailsEscapes ==
    ASSUME TypeOK, TypeOK', Escapes, NEW r \in Requests, VerifyFails(r)
    PROVE  Escapes'
<1> USE DEF VerifyFails, TypeOK, Escapes, Cached, BeingCached, BeingIndexed,
            Filling, store, request, deactivation, history, NoTtl
<1>1. LiveEntryIsIndexed'
  BY SMT DEF LiveEntryIsIndexed
<1>2. EvictionIsComplete'
  BY SMT DEF EvictionIsComplete
<1>3. IndexOutlives'
  BY SMT DEF IndexOutlives
<1>4. IndexIsListed'
  BY SMT DEF IndexIsListed
<1>5. TargetsAreRevoked'
  BY SMT DEF TargetsAreRevoked
<1>6. FillsWereSeen'
  BY SMT DEF FillsWereSeen
<1>7. TargetsAreListed'
  BY SMT DEF TargetsAreListed
<1>8. QED BY <1>1, <1>2, <1>3, <1>4, <1>5, <1>6, <1>7

(* A deactivation first revokes the keys it is about. *)
LEMMA DeactivateEscapes ==
    ASSUME TypeOK, TypeOK', Escapes, NEW w \in Workers, \/ \E k \in Keys : Revoke(w, k)
           \/ Block(w) \/ LegacyBlock(w) \/ Reenable(w)
    PROVE  Escapes'
<1> USE DEF Revoke, Block, LegacyBlock, Reenable, Start, Existing,
            AllRevoked, TypeOK, Escapes, Cached, BeingCached, BeingIndexed,
            Filling, store, request, deactivation, history, NoTtl
<1>1. LiveEntryIsIndexed'
  BY SMT DEF LiveEntryIsIndexed
<1>2. EvictionIsComplete'
  BY SMT DEF EvictionIsComplete
<1>3. IndexOutlives'
  BY SMT DEF IndexOutlives
<1>4. IndexIsListed'
  BY SMT DEF IndexIsListed
<1>5. TargetsAreRevoked'
  BY SMT DEF TargetsAreRevoked
<1>6. FillsWereSeen'
  BY SMT DEF FillsWereSeen
<1>7. TargetsAreListed'
  BY SMT DEF TargetsAreListed
<1>8. QED BY <1>1, <1>2, <1>3, <1>4, <1>5, <1>6, <1>7

(* One that ends without an eviction evicts nothing. *)
LEMMA ForgetEscapes ==
    ASSUME TypeOK, TypeOK', Escapes, NEW w \in Workers, LegacyInvalidate(w) \/ InvalidationFails(w)
    PROVE  Escapes'
<1> USE DEF LegacyInvalidate, InvalidationFails, Forget, TypeOK, Escapes,
            Cached, BeingCached, BeingIndexed, Filling, store, request,
            deactivation, history, NoTtl
<1>1. LiveEntryIsIndexed'
  BY SMT DEF LiveEntryIsIndexed
<1>2. EvictionIsComplete'
  BY SMT DEF EvictionIsComplete
<1>3. IndexOutlives'
  BY SMT DEF IndexOutlives
<1>4. IndexIsListed'
  BY SMT DEF IndexIsListed
<1>5. TargetsAreRevoked'
  BY SMT DEF TargetsAreRevoked
<1>6. FillsWereSeen'
  BY SMT DEF FillsWereSeen
<1>7. TargetsAreListed'
  BY SMT DEF TargetsAreListed
<1>8. QED BY <1>1, <1>2, <1>3, <1>4, <1>5, <1>6, <1>7

(* What is cached is listed, loose, or being cached while the index is     *)
(* listed.                                                                 *)
LEMMA ListKeysEscapes ==
    ASSUME TypeOK, TypeOK', Escapes, NEW w \in Workers, ListKeys(w)
    PROVE  Escapes'
<1> USE DEF ListKeys, TypeOK, Escapes, Cached, BeingCached, BeingIndexed,
            Filling, store, request, deactivation, history, NoTtl
<1>1. LiveEntryIsIndexed'
  BY SMT DEF LiveEntryIsIndexed
<1>2. EvictionIsComplete'
  BY SMT DEF EvictionIsComplete
<1>3. IndexOutlives'
  BY SMT DEF IndexOutlives
<1>4. IndexIsListed'
  BY SMT DEF IndexIsListed
<1>5. TargetsAreRevoked'
  BY SMT DEF TargetsAreRevoked
<1>6. FillsWereSeen'
  BY SMT DEF FillsWereSeen, TargetsAreRevoked
<1>7. TargetsAreListed'
  BY SMT DEF TargetsAreListed, LiveEntryIsIndexed
<1>8. QED BY <1>1, <1>2, <1>3, <1>4, <1>5, <1>6, <1>7

(* The del of what was listed leaves later entries only. *)
LEMMA DeleteKeysEscapes ==
    ASSUME TypeOK, TypeOK', Escapes, NEW w \in Workers, DeleteKeys(w)
    PROVE  Escapes'
<1> USE DEF DeleteKeys, TypeOK, Escapes, Cached, BeingCached, BeingIndexed,
            Filling, store, request, deactivation, history, NoTtl
<1>1. LiveEntryIsIndexed'
  BY SMT DEF LiveEntryIsIndexed
<1>2. EvictionIsComplete'
  BY SMT DEF EvictionIsComplete
<1>3. IndexOutlives'
  BY SMT DEF IndexOutlives
<1>4. IndexIsListed'
  BY SMT DEF IndexIsListed
<1>5. TargetsAreRevoked'
  BY SMT DEF TargetsAreRevoked
<1>6. FillsWereSeen'
  BY SMT DEF FillsWereSeen
<1>7. TargetsAreListed'
  BY SMT DEF TargetsAreListed
<1>8. QED BY <1>1, <1>2, <1>3, <1>4, <1>5, <1>6, <1>7

(* The del of the index takes later ones with it, which become loose. *)
LEMMA DropIndexEscapes ==
    ASSUME TypeOK, TypeOK', Escapes, NEW w \in Workers, DropIndex(w)
    PROVE  Escapes'
<1> USE DEF DropIndex, Forget, TypeOK, Escapes, Cached, BeingCached,
            BeingIndexed, Filling, store, request, deactivation, history,
            NoTtl
<1>1. LiveEntryIsIndexed'
  BY SMT DEF LiveEntryIsIndexed, IndexIsListed
<1>2. EvictionIsComplete'
  BY SMT DEF EvictionIsComplete, TargetsAreListed
<1>3. IndexOutlives'
  BY SMT DEF IndexOutlives
<1>4. IndexIsListed'
  BY SMT DEF IndexIsListed
<1>5. TargetsAreRevoked'
  BY SMT DEF TargetsAreRevoked
<1>6. FillsWereSeen'
  BY SMT DEF FillsWereSeen
<1>7. TargetsAreListed'
  BY SMT DEF TargetsAreListed
<1>8. QED BY <1>1, <1>2, <1>3, <1>4, <1>5, <1>6, <1>7

(* An index that runs out names only entries that have run out, or that    *)
(* are loose now.                                                          *)
LEMMA TickEscapes ==
    ASSUME TypeOK, TypeOK', Escapes, Tick
    PROVE  Escapes'
<1> USE DEF Tick, Alive, TypeOK, Escapes, Cached, BeingCached, BeingIndexed,
            Filling, store, request, deactivation, history, NoTtl
<1>1. LiveEntryIsIndexed'
  BY SMT DEF LiveEntryIsIndexed, IndexOutlives
<1>2. EvictionIsComplete'
  BY SMT DEF EvictionIsComplete
<1>3. IndexOutlives'
  BY SMT DEF IndexOutlives
<1>4. IndexIsListed'
  BY SMT DEF IndexIsListed
<1>5. TargetsAreRevoked'
  BY SMT DEF TargetsAreRevoked
<1>6. FillsWereSeen'
  BY SMT DEF FillsWereSeen
<1>7. TargetsAreListed'
  BY SMT DEF TargetsAreListed
<1>8. QED BY <1>1, <1>2, <1>3, <1>4, <1>5, <1>6, <1>7

(* Every step of the cache lets entries escape in the named ways only.     *)
LEMMA StepEscapes == TypeOK /\ TypeOK' /\ Escapes /\ [Next]_vars => Escapes'
<1>1. SUFFICES ASSUME TypeOK, TypeOK', Escapes, [Next]_vars PROVE Escapes'
  OBVIOUS
<1>2. CASE \E k \in Keys : Create(k)
  BY <1>1, <1>2, CreateEscapes
<1>3. CASE \E r \in Requests :
        \/ \E k \in Keys : Miss(r, k)
        \/ Query(r) \/ SetCache(r) \/ AddToIndex(r) \/ ExpireIndex(r) \/ VerifyFails(r)
  BY <1>1, <1>3, MissEscapes, QueryEscapes, SetCacheEscapes, AddToIndexEscapes,
     ExpireIndexEscapes, VerifyFailsEscapes
<1>4. CASE \E w \in Workers :
        \/ \E k \in Keys : Revoke(w, k)
        \/ Block(w) \/ Reenable(w) \/ LegacyBlock(w)
  BY <1>1, <1>4, DeactivateEscapes
<1>5. CASE \E w \in Workers :
        \/ LegacyInvalidate(w) \/ ListKeys(w) \/ DeleteKeys(w) \/ DropIndex(w)
        \/ InvalidationFails(w)
  BY <1>1, <1>5, ForgetEscapes, ListKeysEscapes, DeleteKeysEscapes, DropIndexEscapes
<1>6. CASE Tick
  BY <1>1, <1>6, TickEscapes
<1>7. CASE UNCHANGED vars
  BY <1>1, <1>7 DEF vars, Escapes, LiveEntryIsIndexed, EvictionIsComplete,
     IndexOutlives, IndexIsListed, TargetsAreRevoked, FillsWereSeen,
     TargetsAreListed, Cached, BeingCached, BeingIndexed, Filling
<1>8. QED BY <1>1, <1>2, <1>3, <1>4, <1>5, <1>6, <1>7 DEF Next

(* verify() indexes what it caches, and a finished invalidateUser() leaves  *)
(* none of the deactivated keys cached, except for fills that were under    *)
(* way, cut off, or overtaken by another del or the end of the index.       *)
THEOREM OnlyRacesEscape == Spec => []EvictionsMissOnlyRaces
<1>1. Init => Escapes
  BY DEF Init, Escapes, LiveEntryIsIndexed, EvictionIsComplete, IndexOutlives,
     IndexIsListed, TargetsAreRevoked, FillsWereSeen, TargetsAreListed, Cached,
     BeingCached, BeingIndexed, Filling
<1>2. Escapes => EvictionsMissOnlyRaces
  BY DEF Escapes, EvictionsMissOnlyRaces
<1>3. QED BY <1>1, <1>2, StepEscapes, Types, PTL DEF Spec

===========================================================================
