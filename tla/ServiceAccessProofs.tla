------------------------ MODULE ServiceAccessProofs -------------------------
(***************************************************************************)
(* Proofs about SessionInvalidation and ServiceAccess, for any number of   *)
(* sessions, workers, attempts and requests, enforced or not: what a       *)
(* finished invalidation has ended, in which order of the events the row   *)
(* is that of the newest, and what a block still admits.                   *)
(***************************************************************************)
EXTENDS ServiceAccess, FiniteSetTheorems, TLAPS

-----------------------------------------------------------------------------
(* SessionInvalidation: the inductive invariant *)

Cutting == {"list", "delete", "deindex"}

LoggedIn == {s \in Sessions : login[s] \in {"open", "unindex", "closed"}}

Busy == {w \in Workers : step[w] # "idle"}

(* A worker fails once for each time it began, and none begins after the    *)
(* event was acknowledged or given up.                                      *)
AttemptsAreLimited ==
    delivery # "pending" =>
        attempts + Cardinality(Busy) <= MaxAttempts + Cardinality(Workers)

(* The index names sessions whose login is over, so that none of them can   *)
(* have its key set again.                                                  *)
IndexedAreLoggedIn == index \subseteq LoggedIn /\ known \subseteq LoggedIn

LoggedOutAreGone == \A s \in alive : login[s] \notin {"unindex", "closed"}

(* The receipt lets one worker only invalidate. *)
OneInvalidation ==
    /\ ~receipt => known = {}
    /\ \A w \in Workers : step[w] \in Cutting => receipt
    /\ \A v, w \in Workers : step[v] \in Cutting /\ step[w] \in Cutting => v = w

(* What each command of an invalidation leaves to those that follow it.     *)
NoneIsMissed ==
    \A w \in Workers :
        /\ step[w] = "list" => known \cap alive \subseteq index
        /\ step[w] = "delete" => /\ known \cap alive \subseteq keys[w]
                                 /\ index \subseteq keys[w] \cup straddling
        /\ step[w] = "deindex" => /\ known \cap alive = {}
                                  /\ index \cap alive \subseteq straddling

SessionInv ==
    /\ TypeOK
    /\ AttemptsAreLimited
    /\ IndexedAreLoggedIn
    /\ LoggedOutAreGone
    /\ OneInvalidation
    /\ NoneIsMissed
    /\ CompletedInvalidationIsTotal
    /\ OpenSessionIsIndexed

-----------------------------------------------------------------------------
(* ServiceAccess: the inductive invariant *)

(* A session has the version of its token from the moment its key is set.   *)
VersionsAreLoggedIn ==
    \A s \in Sessions :
        /\ login[s] \in {"none", "begun", "exchange"} => version[s] = 0
        /\ login[s] \in {"index", "open", "unindex", "closed"} => version[s] # 0
        /\ request[s] # "none" => version[s] # 0

(* Only the event of version 3 overtakes the block. *)
OvertakenByThree == overtaken => receipt /\ 3 \in receipts

(* A token was matched with the row that the event of its version left.     *)
MatchedIsRecorded ==
    ServiceAccessEnforcementEnabled /\ mcp.at # "none" => mcp.version \in receipts

AccessInv ==
    /\ AccessTypeOK
    /\ VersionsAreLoggedIn
    /\ OvertakenByThree
    /\ RowFollowsNewest
    /\ RevokedKeysStayDead
    /\ MatchedIsRecorded

-----------------------------------------------------------------------------
(* SessionInvalidation: the steps *)

(* Nothing has happened yet. *)
LEMMA InitSession == Init => SessionInv
<1> SUFFICES ASSUME Init PROVE SessionInv
  OBVIOUS
<1>1. TypeOK
  <2>1. Cardinality(Workers) \in Nat
    BY WorkersAssumption, FS_CardinalityType
  <2>2. attempts \in 0..MaxAttempts + Cardinality(Workers) /\ attempts < MaxAttempts
    BY <2>1, MaxAttemptsAssumption DEF Init
  <2>3. QED BY <2>2 DEF Init, TypeOK, LoginSteps, WorkerSteps
<1>2. AttemptsAreLimited /\ IndexedAreLoggedIn /\ LoggedOutAreGone
  BY DEF Init, AttemptsAreLimited, IndexedAreLoggedIn, LoggedOutAreGone
<1>3. OneInvalidation /\ NoneIsMissed
  BY DEF Init, OneInvalidation, NoneIsMissed, Cutting
<1>4. CompletedInvalidationIsTotal /\ OpenSessionIsIndexed
  BY DEF Init, CompletedInvalidationIsTotal, OpenSessionIsIndexed
<1>5. QED BY <1>1, <1>2, <1>3, <1>4 DEF SessionInv

(* A step of a login or a logout leaves what the workers have done. *)
LEMMA ConsumersUnchanged ==
    ASSUME SessionInv, UNCHANGED consumerVars
    PROVE  AttemptsAreLimited' /\ OneInvalidation' /\ (Invalidating' <=> Invalidating)
BY DEF SessionInv, consumerVars, AttemptsAreLimited, OneInvalidation, Invalidating, Busy

(* How far a login is matters to the invariant only once it is over. *)
LEMMA LoginStepInv ==
    ASSUME SessionInv, NEW s \in Sessions, NEW from \in LoginSteps, NEW to \in LoginSteps,
           {from, to} \cap {"open", "unindex", "closed"} = {}, LoginStep(s, from, to)
    PROVE  SessionInv'
<1>1. UNCHANGED consumerVars /\ UNCHANGED <<alive, index, straddling>>
  BY DEF LoginStep
<1>2. TypeOK' /\ LoggedIn' = LoggedIn
  BY <1>1 DEF LoginStep, SessionInv, TypeOK, consumerVars, LoggedIn
<1>3. IndexedAreLoggedIn' /\ LoggedOutAreGone' /\ OpenSessionIsIndexed'
  BY <1>1, <1>2 DEF LoginStep, SessionInv, TypeOK, IndexedAreLoggedIn, LoggedOutAreGone,
                    OpenSessionIsIndexed, consumerVars
<1>4. NoneIsMissed' /\ CompletedInvalidationIsTotal'
  BY <1>1, ConsumersUnchanged
     DEF SessionInv, NoneIsMissed, CompletedInvalidationIsTotal, consumerVars
<1>5. QED BY <1>1, <1>2, <1>3, <1>4, ConsumersUnchanged DEF SessionInv

(* A key is set for a session that no index names yet. *)
LEMMA SetSessionInv ==
    ASSUME SessionInv, NEW s \in Sessions, SetSession(s)
    PROVE  SessionInv'
<1>1. UNCHANGED consumerVars /\ UNCHANGED <<index, straddling>>
  BY DEF SetSession
<1>2. TypeOK' /\ LoggedIn' = LoggedIn /\ s \notin LoggedIn
  BY <1>1 DEF SetSession, SessionInv, TypeOK, LoginSteps, consumerVars, LoggedIn
<1>3. IndexedAreLoggedIn' /\ s \notin known /\ s \notin index
  BY <1>1, <1>2 DEF SessionInv, IndexedAreLoggedIn, consumerVars
<1>4. LoggedOutAreGone' /\ OpenSessionIsIndexed'
  BY <1>1 DEF SetSession, SessionInv, TypeOK, LoggedOutAreGone, OpenSessionIsIndexed
<1>5. NoneIsMissed' /\ CompletedInvalidationIsTotal'
  <2>1. known' \cap alive' = known \cap alive /\ index' \cap alive' = index \cap alive
    BY <1>1, <1>3 DEF SetSession, consumerVars
  <2>2. QED BY <1>1, <2>1, ConsumersUnchanged
            DEF SessionInv, NoneIsMissed, CompletedInvalidationIsTotal, consumerVars
<1>6. QED BY <1>1, <1>2, <1>3, <1>4, <1>5, ConsumersUnchanged DEF SessionInv

(* A session is indexed while an index is being emptied, or stays in it.    *)
LEMMA IndexSessionInv ==
    ASSUME SessionInv, NEW s \in Sessions, IndexSession(s)
    PROVE  SessionInv'
<1>1. /\ UNCHANGED consumerVars /\ alive' = alive /\ index' = index \cup {s}
      /\ login' = [login EXCEPT ![s] = "open"]
      /\ straddling \subseteq straddling'
      /\ \A w \in Workers : step[w] \in {"delete", "deindex"} => s \in straddling'
  BY DEF IndexSession
<1>2. TypeOK' /\ LoggedIn' = LoggedIn \cup {s}
  BY <1>1 DEF IndexSession, SessionInv, TypeOK, LoginSteps, consumerVars, LoggedIn
<1>3. IndexedAreLoggedIn'
  BY <1>1, <1>2 DEF SessionInv, IndexedAreLoggedIn, consumerVars
<1>4. LoggedOutAreGone' /\ OpenSessionIsIndexed'
  BY <1>1 DEF SessionInv, TypeOK, LoggedOutAreGone, OpenSessionIsIndexed
<1>5. NoneIsMissed'
  BY <1>1 DEF SessionInv, NoneIsMissed, consumerVars
<1>6. CompletedInvalidationIsTotal'
  BY <1>1, ConsumersUnchanged DEF SessionInv, CompletedInvalidationIsTotal, consumerVars
<1>7. QED BY <1>1, <1>2, <1>3, <1>4, <1>5, <1>6, ConsumersUnchanged DEF SessionInv

(* A key that goes leaves nothing to find. *)
LEMMA KeyGoneInv ==
    ASSUME SessionInv, NEW s \in Sessions, LogoutDelete(s) \/ Expire(s)
    PROVE  SessionInv'
<1>1. /\ UNCHANGED consumerVars /\ UNCHANGED <<index, straddling>>
      /\ alive' = alive \ {s}
      /\ login' \in [Sessions -> LoginSteps] /\ LoggedIn' = LoggedIn
      /\ \A t \in Sessions : t # s => login'[t] = login[t]
  BY DEF LogoutDelete, Expire, SessionInv, TypeOK, LoginSteps, LoggedIn
<1>2. TypeOK' /\ IndexedAreLoggedIn'
  BY <1>1 DEF SessionInv, TypeOK, IndexedAreLoggedIn, consumerVars
<1>3. LoggedOutAreGone' /\ OpenSessionIsIndexed'
  BY <1>1 DEF SessionInv, TypeOK, LoggedOutAreGone, OpenSessionIsIndexed
<1>4. NoneIsMissed' /\ CompletedInvalidationIsTotal'
  BY <1>1, ConsumersUnchanged
     DEF SessionInv, NoneIsMissed, CompletedInvalidationIsTotal, consumerVars
<1>5. QED BY <1>1, <1>2, <1>3, <1>4, ConsumersUnchanged DEF SessionInv

(* The index loses a session whose key is gone. *)
LEMMA LogoutUnindexInv ==
    ASSUME SessionInv, NEW s \in Sessions, LogoutUnindex(s)
    PROVE  SessionInv'
<1>1. /\ UNCHANGED consumerVars /\ UNCHANGED <<alive, straddling>>
      /\ index' = index \ {s} /\ s \notin alive
      /\ login' = [login EXCEPT ![s] = "closed"]
  BY DEF LogoutUnindex, SessionInv, LoggedOutAreGone
<1>2. TypeOK' /\ LoggedIn' = LoggedIn
  BY <1>1 DEF LogoutUnindex, SessionInv, TypeOK, LoginSteps, consumerVars, LoggedIn
<1>3. IndexedAreLoggedIn' /\ LoggedOutAreGone' /\ OpenSessionIsIndexed'
  BY <1>1, <1>2 DEF SessionInv, TypeOK, IndexedAreLoggedIn, LoggedOutAreGone,
                    OpenSessionIsIndexed, consumerVars
<1>4. NoneIsMissed' /\ CompletedInvalidationIsTotal'
  BY <1>1, ConsumersUnchanged
     DEF SessionInv, NoneIsMissed, CompletedInvalidationIsTotal, consumerVars
<1>5. QED BY <1>1, <1>2, <1>3, <1>4, ConsumersUnchanged DEF SessionInv

(* The workers at a command, and one more or one fewer of them. *)
LEMMA BusyIsFinite ==
    ASSUME TypeOK
    PROVE  /\ IsFiniteSet(Busy) /\ Cardinality(Busy) \in Nat
           /\ Cardinality(Workers) \in Nat
           /\ Cardinality(Busy) <= Cardinality(Workers)
BY WorkersAssumption, FS_Subset, FS_CardinalityType DEF Busy

(* The first transaction notes what the index names, and the worker lists   *)
(* it next; any later one finds the receipt.                                *)
LEMMA CommitInv ==
    ASSUME SessionInv, NEW w \in Workers, NEW newer \in BOOLEAN, Commit(w, newer)
    PROVE  SessionInv'
<1>1. /\ UNCHANGED <<delivery, attempts, keys, interrupted>> /\ UNCHANGED sessionVars
      /\ step[w] = "idle" /\ delivery = "pending" /\ receipt' = TRUE
      /\ step' \in [Workers -> WorkerSteps]
      /\ \A v \in Workers : v # w => step'[v] = step[v]
      /\ known' \subseteq Sessions
  BY DEF Commit, SessionInv, TypeOK, WorkerSteps
<1>2. TypeOK' /\ AttemptsAreLimited' /\ LoggedIn' = LoggedIn
  BY <1>1 DEF SessionInv, TypeOK, AttemptsAreLimited, sessionVars, LoggedIn
<1>3. LoggedOutAreGone' /\ OpenSessionIsIndexed'
  BY <1>1 DEF SessionInv, TypeOK, LoggedOutAreGone, OpenSessionIsIndexed, sessionVars
<1>4. CASE newer /\ ~receipt
  <2>1. step'[w] = "list" /\ known' = index /\ \A v \in Workers : step[v] \notin Cutting
    BY <1>4 DEF Commit, SessionInv, TypeOK, OneInvalidation
  <2>2. IndexedAreLoggedIn' /\ OneInvalidation' /\ NoneIsMissed'
    BY <1>1, <1>2, <2>1 DEF SessionInv, IndexedAreLoggedIn, OneInvalidation, NoneIsMissed,
                            Cutting, sessionVars
  <2>3. CompletedInvalidationIsTotal'
    BY <2>1 DEF CompletedInvalidationIsTotal, Invalidating
  <2>4. QED BY <1>2, <1>3, <2>2, <2>3 DEF SessionInv
<1>5. CASE ~(newer /\ ~receipt)
  <2>1. step'[w] = "ack" /\ known' = known /\ (~receipt => known = {})
    BY <1>5 DEF Commit, SessionInv, TypeOK, OneInvalidation
  <2>2. IndexedAreLoggedIn' /\ OneInvalidation' /\ NoneIsMissed'
    BY <1>1, <1>2, <2>1 DEF SessionInv, IndexedAreLoggedIn, OneInvalidation, NoneIsMissed,
                            Cutting, sessionVars
  <2>3. Invalidating' <=> Invalidating
    BY <1>1, <2>1 DEF Invalidating
  <2>4. CompletedInvalidationIsTotal'
    BY <1>1, <2>1, <2>3 DEF SessionInv, CompletedInvalidationIsTotal, sessionVars
  <2>5. QED BY <1>2, <1>3, <2>2, <2>4 DEF SessionInv
<1>6. QED BY <1>4, <1>5

(* SMEMBERS, DEL of the members, DEL of the index: each finds what the      *)
(* others have left.                                                        *)
LEMMA InvalidateInv ==
    ASSUME SessionInv, NEW w \in Workers,
           ListSessions(w) \/ DeleteSessions(w) \/ DeleteIndex(w)
    PROVE  SessionInv'
<1>1. /\ UNCHANGED <<receipt, delivery, attempts, known, interrupted, login, straddling>>
      /\ step[w] \in Cutting
      /\ step' \in [Workers -> WorkerSteps] /\ step'[w] # "idle"
      /\ \A v \in Workers : v # w => step'[v] = step[v] /\ step[v] \notin Cutting
      /\ keys' \in [Workers -> SUBSET Sessions]
      /\ alive' \subseteq alive /\ index' \subseteq index
  BY DEF ListSessions, DeleteSessions, DeleteIndex, SessionInv, TypeOK, WorkerSteps,
         Cutting, sessionVars, OneInvalidation
<1>2. TypeOK' /\ LoggedIn' = LoggedIn /\ Busy' = Busy
  BY <1>1 DEF SessionInv, TypeOK, LoggedIn, Busy, Cutting
<1>3. AttemptsAreLimited' /\ IndexedAreLoggedIn' /\ LoggedOutAreGone'
  BY <1>1, <1>2 DEF SessionInv, AttemptsAreLimited, IndexedAreLoggedIn, LoggedOutAreGone
<1>4. OneInvalidation'
  BY <1>1 DEF SessionInv, OneInvalidation, Cutting
<1>5. CASE ListSessions(w)
  <2>1. keys'[w] = index /\ step'[w] = "delete" /\ alive' = alive /\ index' = index
    BY <1>5 DEF ListSessions, SessionInv, TypeOK, sessionVars
  <2>2. NoneIsMissed'
    BY <1>1, <1>5, <2>1 DEF SessionInv, NoneIsMissed, Cutting, ListSessions
  <2>3. CompletedInvalidationIsTotal' /\ OpenSessionIsIndexed'
    BY <1>1, <2>1 DEF SessionInv, CompletedInvalidationIsTotal, Invalidating,
                      OpenSessionIsIndexed
  <2>4. QED BY <1>2, <1>3, <1>4, <2>2, <2>3 DEF SessionInv
<1>6. CASE DeleteSessions(w)
  <2>1. alive' = alive \ keys[w] /\ step'[w] = "deindex" /\ index' = index
    BY <1>6 DEF DeleteSessions, SessionInv, TypeOK
  <2>2. NoneIsMissed'
    BY <1>1, <1>6, <2>1 DEF SessionInv, NoneIsMissed, Cutting, DeleteSessions
  <2>3. CompletedInvalidationIsTotal' /\ OpenSessionIsIndexed'
    BY <1>1, <2>1 DEF SessionInv, CompletedInvalidationIsTotal, Invalidating,
                      OpenSessionIsIndexed
  <2>4. QED BY <1>2, <1>3, <1>4, <2>2, <2>3 DEF SessionInv
<1>7. CASE DeleteIndex(w)
  <2>1. /\ alive' = alive /\ step'[w] = "ack" /\ index' = {}
        /\ known \cap alive = {} /\ index \cap alive \subseteq straddling
    BY <1>7 DEF DeleteIndex, SessionInv, TypeOK, NoneIsMissed
  <2>2. NoneIsMissed'
    BY <1>1, <2>1 DEF NoneIsMissed, Cutting
  <2>3. CompletedInvalidationIsTotal'
    BY <1>1, <2>1 DEF CompletedInvalidationIsTotal
  <2>4. OpenSessionIsIndexed'
    BY <1>1, <2>1 DEF SessionInv, OpenSessionIsIndexed
  <2>5. QED BY <1>2, <1>3, <1>4, <2>2, <2>3, <2>4 DEF SessionInv
<1>8. QED BY <1>5, <1>6, <1>7

(* An acknowledgement, a failure and a death take a worker from its         *)
(* command; if that was one of an invalidation, it was interrupted.         *)
LEMMA LeaveInv ==
    ASSUME SessionInv, NEW w \in Workers,
           UNCHANGED <<receipt, known>>, UNCHANGED sessionVars,
           step' = [step EXCEPT ![w] = "idle"],
           keys' \in [Workers -> SUBSET Sessions],
           \A v \in Workers : v # w => keys'[v] = keys[v],
           interrupted' = (interrupted \/ step[w] \in Cutting),
           TypeOK', AttemptsAreLimited'
    PROVE  SessionInv'
<1>1. /\ step'[w] = "idle"
      /\ \A v \in Workers : v # w => step'[v] = step[v]
      /\ LoggedIn' = LoggedIn
  BY DEF SessionInv, TypeOK, LoggedIn, sessionVars
<1>2. IndexedAreLoggedIn' /\ LoggedOutAreGone' /\ OpenSessionIsIndexed'
  BY <1>1 DEF SessionInv, IndexedAreLoggedIn, LoggedOutAreGone, OpenSessionIsIndexed,
              sessionVars
<1>3. OneInvalidation'
  BY <1>1 DEF SessionInv, OneInvalidation, Cutting
<1>4. NoneIsMissed'
  BY <1>1 DEF SessionInv, NoneIsMissed, sessionVars
<1>5. CompletedInvalidationIsTotal'
  <2>1. ~Invalidating' /\ ~interrupted' => ~Invalidating /\ ~interrupted
    BY <1>1 DEF Invalidating, Cutting
  <2>2. QED BY <2>1 DEF SessionInv, CompletedInvalidationIsTotal, sessionVars
<1>6. QED BY <1>2, <1>3, <1>4, <1>5 DEF SessionInv

(* A worker acknowledges once it has nothing left to invalidate. *)
LEMMA AckInv ==
    ASSUME SessionInv, NEW w \in Workers, Ack(w)
    PROVE  SessionInv'
<1>1. interrupted' = (interrupted \/ step[w] \in Cutting) /\ keys' = keys
  BY DEF Ack, Cutting, SessionInv, TypeOK
<1>2. step' \in [Workers -> WorkerSteps]
  BY DEF Ack, SessionInv, TypeOK, WorkerSteps
<1>3. TypeOK'
  <2>1. attempts' \in 0..MaxAttempts + Cardinality(Workers) /\ attempts' < MaxAttempts
    BY BusyIsFinite, MaxAttemptsAssumption DEF Ack, SessionInv
  <2>2. QED BY <1>2, <2>1 DEF Ack, SessionInv, TypeOK, sessionVars
<1>4. AttemptsAreLimited'
  <2>1. Cardinality(Busy') <= Cardinality(Workers) /\ Cardinality(Busy') \in Nat
    BY WorkersAssumption, FS_Subset, FS_CardinalityType DEF Busy
  <2>2. attempts' = 0 /\ Cardinality(Workers) \in Nat
    BY BusyIsFinite DEF Ack, SessionInv
  <2>3. QED BY <2>1, <2>2, MaxAttemptsAssumption DEF AttemptsAreLimited
<1>5. QED BY <1>1, <1>3, <1>4, LeaveInv DEF Ack, SessionInv, TypeOK

(* A worker that fails is counted among those that began. *)
LEMMA FailInv ==
    ASSUME SessionInv, NEW w \in Workers, Fail(w)
    PROVE  SessionInv'
<1>1. /\ step' = [step EXCEPT ![w] = "idle"] /\ keys' = [keys EXCEPT ![w] = {}]
      /\ interrupted' = (interrupted \/ step[w] \in Cutting)
      /\ UNCHANGED <<receipt, known>> /\ UNCHANGED sessionVars
      /\ attempts' = attempts + 1
      /\ delivery' = IF attempts + 1 >= MaxAttempts THEN "dead" ELSE delivery
      /\ step[w] # "idle" \/ delivery = "pending"
  BY DEF Fail, CutOff, Cutting
<1>2. /\ attempts \in Nat /\ Cardinality(Workers) \in Nat /\ Cardinality(Busy) \in Nat
      /\ Cardinality(Busy) <= Cardinality(Workers)
      /\ delivery = "pending" => attempts < MaxAttempts
  BY BusyIsFinite DEF SessionInv, TypeOK
<1>3. Busy' = Busy \ {w} /\ IsFiniteSet(Busy)
  BY <1>1, BusyIsFinite DEF Busy, SessionInv, TypeOK
<1>4. /\ Cardinality(Busy') \in Nat /\ Cardinality(Busy') <= Cardinality(Workers)
      /\ w \in Busy => Cardinality(Busy') + 1 = Cardinality(Busy)
  <2>1. CASE w \in Busy
    <3>1. Cardinality(Busy') = Cardinality(Busy) - 1
      BY <1>3, <2>1, FS_RemoveElement
    <3>2. IsFiniteSet(Busy')
      BY <1>3, FS_Subset
    <3>3. Cardinality(Busy') \in Nat
      BY <3>2, FS_CardinalityType
    <3>4. QED BY <1>2, <3>1, <3>3
  <2>2. CASE w \notin Busy
    <3>1. Busy' = Busy
      BY <1>3, <2>2
    <3>2. QED BY <1>2, <2>2, <3>1
  <2>3. QED BY <2>1, <2>2
<1>5. delivery # "pending" =>
         attempts + Cardinality(Busy) <= MaxAttempts + Cardinality(Workers) /\ w \in Busy
  BY <1>1 DEF SessionInv, AttemptsAreLimited, Busy
<1>6. attempts' + Cardinality(Busy') <= MaxAttempts + Cardinality(Workers)
  BY <1>1, <1>2, <1>4, <1>5, MaxAttemptsAssumption
<1>7. AttemptsAreLimited'
  BY <1>6 DEF AttemptsAreLimited
<1>8. TypeOK'
  <2>1. attempts' \in 0..MaxAttempts + Cardinality(Workers)
    BY <1>1, <1>2, <1>4, <1>6, MaxAttemptsAssumption
  <2>2. delivery' = "pending" => attempts' < MaxAttempts
    BY <1>1, <1>2, MaxAttemptsAssumption
  <2>3. step' \in [Workers -> WorkerSteps] /\ keys' \in [Workers -> SUBSET Sessions]
    BY <1>1 DEF SessionInv, TypeOK, WorkerSteps
  <2>4. QED BY <1>1, <2>1, <2>2, <2>3 DEF SessionInv, TypeOK, sessionVars
<1>9. QED BY <1>1, <1>7, <1>8, LeaveInv DEF SessionInv, TypeOK

(* A process that dies leaves one worker fewer at a command. *)
LEMMA CrashInv ==
    ASSUME SessionInv, NEW w \in Workers, Crash(w)
    PROVE  SessionInv'
<1>1. /\ step' = [step EXCEPT ![w] = "idle"] /\ keys' = [keys EXCEPT ![w] = {}]
      /\ interrupted' = (interrupted \/ step[w] \in Cutting)
      /\ UNCHANGED <<receipt, known, delivery, attempts>> /\ UNCHANGED sessionVars
  BY DEF Crash, CutOff, Cutting
<1>2. TypeOK'
  BY <1>1 DEF SessionInv, TypeOK, WorkerSteps, sessionVars
<1>3. AttemptsAreLimited'
  <2>1. Busy' \subseteq Busy
    BY <1>1 DEF Busy, SessionInv, TypeOK
  <2>2. /\ Cardinality(Busy') <= Cardinality(Busy) /\ Cardinality(Busy') \in Nat
        /\ Cardinality(Busy) \in Nat
    BY <2>1, BusyIsFinite, FS_Subset, FS_CardinalityType DEF SessionInv
  <2>3. attempts \in Nat /\ Cardinality(Workers) \in Nat
    BY BusyIsFinite DEF SessionInv, TypeOK
  <2>4. QED BY <1>1, <2>2, <2>3, MaxAttemptsAssumption DEF SessionInv, AttemptsAreLimited
<1>4. QED BY <1>1, <1>2, <1>3, LeaveInv DEF SessionInv, TypeOK

(* Every step of the sessions and of the workers keeps the invariant. *)
LEMMA NextSession == SessionInv /\ [Next]_vars => SessionInv'
<1> SUFFICES ASSUME SessionInv, [Next]_vars PROVE SessionInv'
  OBVIOUS
<1>1. ASSUME NEW s \in Sessions,
             BeginLogin(s) \/ TakeState(s) \/ LoginRefused(s) \/ LoginFails(s)
      PROVE  SessionInv'
  BY <1>1, LoginStepInv DEF BeginLogin, TakeState, LoginRefused, LoginFails, LoginSteps
<1>2. ASSUME NEW s \in Sessions,
             SetSession(s) \/ IndexSession(s) \/ LogoutDelete(s) \/ LogoutUnindex(s)
             \/ Expire(s)
      PROVE  SessionInv'
  BY <1>2, SetSessionInv, IndexSessionInv, KeyGoneInv, LogoutUnindexInv
<1>3. ASSUME NEW w \in Workers, \E newer \in BOOLEAN : Commit(w, newer) PROVE SessionInv'
  BY <1>3, CommitInv
<1>4. ASSUME NEW w \in Workers,
             ListSessions(w) \/ DeleteSessions(w) \/ DeleteIndex(w)
             \/ Ack(w) \/ Fail(w) \/ Crash(w)
      PROVE  SessionInv'
  BY <1>4, InvalidateInv, AckInv, FailInv, CrashInv
<1>5. CASE UNCHANGED vars
  BY <1>5 DEF vars, SessionInv, TypeOK, AttemptsAreLimited, Busy, IndexedAreLoggedIn, LoggedIn,
              LoggedOutAreGone, OneInvalidation, NoneIsMissed, Cutting,
              CompletedInvalidationIsTotal, Invalidating, OpenSessionIsIndexed
<1>6. QED BY <1>1, <1>2, <1>3, <1>4, <1>5 DEF Next

(* The invariant holds of every execution of the sessions and the workers. *)
THEOREM SessionInvariant == Spec => []SessionInv
BY InitSession, NextSession, PTL DEF Spec

-----------------------------------------------------------------------------
(* ServiceAccess runs SessionInvalidation *)

(* Every step of ServiceAccess is one of the sessions and the workers, or   *)
(* leaves them alone.                                                       *)
LEMMA AccessStepIsSessionStep == [AccessNext]_allVars => [Next]_vars
<1> SUFFICES ASSUME [AccessNext]_allVars PROVE [Next]_vars
  OBVIOUS
<1>1. CASE IssueEvent \/ BeginVerify \/ AdmitToken \/ EndVerify
  BY <1>1 DEF IssueEvent, BeginVerify, AdmitToken, EndVerify, McpStep
<1>2. ASSUME NEW v \in {1, 3}, ApplyEnabled(v) PROVE UNCHANGED vars
  BY <1>2 DEF ApplyEnabled
<1>3. ASSUME NEW w \in Workers, ApplyBlock(w) PROVE Next
  <2>1. Commit(w, Applies(2)) /\ Applies(2) \in BOOLEAN
    BY <1>3 DEF ApplyBlock, Applies
  <2>2. QED BY <2>1 DEF Next
<1>4. ASSUME NEW w \in Workers, InvalidationStep(w) PROVE Next
  BY <1>4 DEF InvalidationStep, Next
<1>5. ASSUME NEW s \in Sessions, SessionStep(s) \/ LogIn(s) PROVE Next
  BY <1>5 DEF SessionStep, LogIn, Next
<1>6. ASSUME NEW s \in Sessions,
             Resolve(s) \/ EnsureLocalUser(s) \/ CreateKey(s) \/ EndRequest(s) \/ RevokeKey(s)
      PROVE  UNCHANGED vars
  BY <1>6 DEF Resolve, EnsureLocalUser, CreateKey, EndRequest, RevokeKey, RequestStep
<1>7. QED BY <1>1, <1>2, <1>3, <1>4, <1>5, <1>6 DEF AccessNext, allVars

(* The service access consumer invalidates as the lifecycle consumer does:  *)
(* what holds of SessionInvalidation holds of it.                           *)
THEOREM AccessRunsTheInvalidation == AccessSpec => Spec
<1>1. AccessInit => Init
  BY DEF AccessInit
<1>2. QED BY <1>1, AccessStepIsSessionStep, PTL DEF AccessSpec, Spec

(* A completed invalidation has ended every session that the index named    *)
(* at the commit, whatever logged in or out meanwhile.                      *)
THEOREM InvalidationIsTotal == AccessSpec => []CompletedInvalidationIsTotal
<1>1. SessionInv => CompletedInvalidationIsTotal
  BY DEF SessionInv
<1>2. QED BY <1>1, AccessRunsTheInvalidation, SessionInvariant, PTL

(* A session that is open is in the index, unless it was indexed while one  *)
(* was being emptied.                                                       *)
THEOREM OpenSessionsAreIndexed == AccessSpec => []OpenSessionIsIndexed
<1>1. SessionInv => OpenSessionIsIndexed
  BY DEF SessionInv
<1>2. QED BY <1>1, AccessRunsTheInvalidation, SessionInvariant, PTL

-----------------------------------------------------------------------------
(* ServiceAccess: the row *)

(* The newest of the events that were recorded. *)
LEMMA NewestRecorded ==
    ASSUME NEW R \in SUBSET {1, 2, 3}
    PROVE  (CHOOSE v \in R \cup {0} : \A u \in R : u <= v)
             = IF 3 \in R THEN 3 ELSE IF 2 \in R THEN 2 ELSE IF 1 \in R THEN 1 ELSE 0
<1> DEFINE n == IF 3 \in R THEN 3 ELSE IF 2 \in R THEN 2 ELSE IF 1 \in R THEN 1 ELSE 0
           Newest(v) == \A u \in R : u <= v
<1>1. n \in R \cup {0} /\ Newest(n)
  OBVIOUS
<1>2. \A v \in R \cup {0} : Newest(v) => v = n
  OBVIOUS
<1> HIDE DEF n, Newest
<1>3. (CHOOSE v \in R \cup {0} : Newest(v)) = n
  BY <1>1, <1>2
<1>4. QED BY <1>3 DEF n, Newest

Final == kind = "WITHDRAWN" /\ receipt /\ ~overtaken

NewestVersion ==
    IF Final THEN 2
    ELSE IF 3 \in receipts THEN 3
    ELSE IF receipt THEN 2
    ELSE IF 1 \in receipts THEN 1 ELSE 0

(* RowFollowsNewest, with the versions written out. *)
LEMMA RowFollows ==
    receipts \subseteq {1, 3} =>
       (RowFollowsNewest <=>
           /\ row.version = NewestVersion
           /\ row.status = IF row.version = 2 THEN kind ELSE "ACTIVE")
<1> SUFFICES ASSUME receipts \subseteq {1, 3}
             PROVE  RowFollowsNewest <=>
                       /\ row.version = NewestVersion
                       /\ row.status = IF row.version = 2 THEN kind ELSE "ACTIVE"
  OBVIOUS
<1> DEFINE R == receipts \cup (IF receipt THEN {2} ELSE {})
<1>1. R \in SUBSET {1, 2, 3}
  OBVIOUS
<1> HIDE DEF R
<1>2. (CHOOSE v \in R \cup {0} : \A u \in R : u <= v)
        = IF 3 \in R THEN 3 ELSE IF 2 \in R THEN 2 ELSE IF 1 \in R THEN 1 ELSE 0
  BY <1>1, NewestRecorded
<1>3. (3 \in R <=> 3 \in receipts) /\ (2 \in R <=> receipt) /\ (1 \in R <=> 1 \in receipts)
  BY DEF R
<1> DEFINE newest == CHOOSE v \in R \cup {0} : \A u \in R : u <= v
<1>4. RowFollowsNewest <=>
        /\ row.version = IF Final THEN 2 ELSE newest
        /\ row.status = IF row.version = 2 THEN kind ELSE "ACTIVE"
  BY DEF RowFollowsNewest, Final, R
<1>5. (IF Final THEN 2 ELSE newest) = NewestVersion
  BY <1>2, <1>3 DEF NewestVersion
<1> HIDE DEF newest
<1>6. QED BY <1>4, <1>5

LEMMA RowFollowsNext ==
    (receipts \subseteq {1, 3} =>
        (RowFollowsNewest <=>
            /\ row.version = NewestVersion
            /\ row.status = IF row.version = 2 THEN kind ELSE "ACTIVE"))'
BY RowFollows, PTL

(* What the two queries admit, once the block is recorded, is newer.        *)
LEMMA AdmittedIsNewer ==
    ASSUME AccessInv, ServiceAccessEnforcementEnabled, receipt, NEW v \in {0, 1, 3}, Admits(v)
    PROVE  v > 2
<1>1. /\ row.version = NewestVersion
      /\ row.status = IF row.version = 2 THEN kind ELSE "ACTIVE"
  BY RowFollows DEF AccessInv, AccessTypeOK
<1>2. row.version \in {2, 3} /\ row.version # 2
  BY <1>1 DEF NewestVersion, Admits, AccessInv, AccessTypeOK, Blocking, Final
<1>3. QED BY <1>2 DEF Admits

-----------------------------------------------------------------------------
(* ServiceAccess: the steps *)

accessState == <<row, receipts, receipt, kind, overtaken>>

(* RowFollowsNewest and OvertakenByThree look at nothing else. *)
LEMMA RowUnchanged ==
    ASSUME AccessInv, UNCHANGED accessState
    PROVE  RowFollowsNewest' /\ OvertakenByThree'
BY DEF AccessInv, accessState, RowFollowsNewest, OvertakenByThree

(* Nothing was issued but the first event, and nobody has logged in.        *)
LEMMA InitAccess == AccessInit => AccessInv
<1> SUFFICES ASSUME AccessInit PROVE AccessInv
  OBVIOUS
<1>1. TypeOK
  BY InitSession DEF AccessInit, SessionInv
<1>2. AccessTypeOK
  <2>1. row \in [status : {"ACTIVE"} \cup Blocking, version : 0..issued]
    BY DEF AccessInit
  <2>2. /\ mcp \in [at : {"none", "matched", "admitted"}, version : {0, 1, 3}]
        /\ version \in [Sessions -> {0, 1, 3}]
        /\ request \in [Sessions -> {"none", "resolved", "admitted"}]
    BY DEF AccessInit
  <2>3. /\ activeKeys \subseteq Sessions /\ \A s \in activeKeys : version[s] > 0
        /\ receipts \subseteq {1, 3} /\ \A v \in receipts : v <= issued
        /\ raced \subseteq Sessions /\ issued \in 1..3
    BY DEF AccessInit
  <2>4. kind \in Blocking /\ overtaken \in BOOLEAN
    BY DEF AccessInit
  <2>5. QED BY <1>1, <2>1, <2>2, <2>3, <2>4 DEF AccessTypeOK
<1>3. RowFollowsNewest
  BY RowFollows DEF AccessInit, Init, NewestVersion, Final
<1>4. QED BY <1>2, <1>3 DEF AccessInit, Init, AccessInv, VersionsAreLoggedIn, OvertakenByThree,
                           RevokedKeysStayDead, MatchedIsRecorded

(* IAM issues an event that nobody has read yet. *)
LEMMA IssueAccess ==
    ASSUME AccessInv, IssueEvent
    PROVE  AccessInv'
<1>1. AccessTypeOK'
  BY DEF IssueEvent, AccessInv, AccessTypeOK, vars, TypeOK
<1>2. RowFollowsNewest' /\ OvertakenByThree'
  BY RowUnchanged DEF IssueEvent, vars, accessState
<1>3. QED BY <1>1, <1>2 DEF IssueEvent, vars, AccessInv, VersionsAreLoggedIn,
                           RevokedKeysStayDead, MatchedIsRecorded

(* An enabling is recorded: the row takes it if it is the newest and the    *)
(* access was not withdrawn.                                                *)
LEMMA EnableAccess ==
    ASSUME AccessInv, NEW v \in {1, 3}, ApplyEnabled(v)
    PROVE  AccessInv'
<1>1. /\ v <= issued /\ v \notin receipts /\ receipts' = receipts \cup {v}
      /\ row' = RowAfter(v, "ACTIVE")
      /\ UNCHANGED <<kind, issued, version, request, activeKeys, mcp, raced, overtaken>>
      /\ UNCHANGED vars
  BY DEF ApplyEnabled
<1>2. AccessTypeOK'
  BY <1>1 DEF AccessInv, AccessTypeOK, vars, TypeOK, RowAfter
<1>3. /\ row.version = NewestVersion
      /\ row.status = IF row.version = 2 THEN kind ELSE "ACTIVE"
  BY RowFollows DEF AccessInv, AccessTypeOK
<1>4. receipt' = receipt /\ (receipt => receipt \in BOOLEAN)
  BY <1>1 DEF vars
<1>5. RowFollowsNewest'
  <2>1. receipts' \subseteq {1, 3}
    BY <1>2 DEF AccessTypeOK
  <2>2. /\ row'.version = NewestVersion'
        /\ row'.status = IF row'.version = 2 THEN kind' ELSE "ACTIVE"
    BY <1>1, <1>3, <1>4 DEF NewestVersion, Final, RowAfter, Applies, AccessInv, AccessTypeOK,
                            Blocking, OvertakenByThree
  <2>3. QED BY <2>1, <2>2, RowFollowsNext
<1>6. QED BY <1>1, <1>2, <1>5 DEF vars, AccessInv, VersionsAreLoggedIn, OvertakenByThree,
                                 RevokedKeysStayDead, MatchedIsRecorded

(* The block is recorded: it takes the row and deactivates every key, or    *)
(* the re-enabling has overtaken it.                                        *)
LEMMA BlockAccess ==
    ASSUME AccessInv, NEW w \in Workers, ApplyBlock(w), TypeOK'
    PROVE  AccessInv'
<1>1. /\ issued >= 2 /\ receipt' = TRUE /\ login' = login
      /\ row' = IF receipt THEN row ELSE RowAfter(2, kind)
      /\ activeKeys' = IF ~receipt /\ Applies(2) THEN {} ELSE activeKeys
      /\ overtaken' = IF receipt THEN overtaken ELSE row.version = 3
      /\ UNCHANGED <<kind, issued, receipts, version, request, mcp, raced>>
  BY DEF ApplyBlock, Commit, KeysAfterBlock, sessionVars
<1>2. /\ row.version = NewestVersion
      /\ row.status = IF row.version = 2 THEN kind ELSE "ACTIVE"
      /\ receipts \subseteq {1, 3} /\ kind \in Blocking
  BY RowFollows DEF AccessInv, AccessTypeOK
<1>3. AccessTypeOK'
  <2>1. row' \in [status : {"ACTIVE"} \cup Blocking, version : 0..issued]
    BY <1>1 DEF AccessInv, AccessTypeOK, RowAfter
  <2>2. overtaken' \in BOOLEAN /\ activeKeys' \subseteq activeKeys
    BY <1>1 DEF AccessInv, AccessTypeOK
  <2>3. QED BY <1>1, <2>1, <2>2 DEF AccessInv, AccessTypeOK
<1>4. CASE receipt
  <2>1. UNCHANGED accessState /\ activeKeys' = activeKeys
    BY <1>1, <1>4, Zenon DEF accessState, AccessInv, AccessTypeOK, TypeOK
  <2>2. RowFollowsNewest' /\ OvertakenByThree'
    BY <2>1, RowUnchanged
  <2>3. QED BY <1>1, <1>3, <1>4, <2>1, <2>2
            DEF AccessInv, VersionsAreLoggedIn, RevokedKeysStayDead, MatchedIsRecorded,
                accessState
<1>5. CASE ~receipt
  <2>1. ~Final /\ row.version \in {0, 1, 3} /\ row.status = "ACTIVE"
    BY <1>2, <1>5 DEF NewestVersion, Final
  <2>2. CASE row.version = 3
    <3>1. row' = row /\ overtaken' /\ activeKeys' = activeKeys /\ 3 \in receipts
      <4>1. overtaken'
        BY <1>1, <1>5, <2>2, Zenon
      <4>2. row' = row /\ activeKeys' = activeKeys
        BY <1>1, <1>5, <2>2 DEF RowAfter, Applies
      <4>3. 3 \in receipts
        BY <1>2, <1>5, <2>1, <2>2 DEF NewestVersion
      <4>4. QED BY <4>1, <4>2, <4>3
    <3>2. RowFollowsNewest'
      BY <1>1, <1>2, <2>1, <2>2, <3>1, RowFollowsNext DEF NewestVersion, Final
    <3>3. QED BY <1>1, <1>3, <3>1, <3>2 DEF AccessInv, VersionsAreLoggedIn, OvertakenByThree,
                                           RevokedKeysStayDead, MatchedIsRecorded
  <2>3. CASE row.version # 3
    <3>1. /\ row' = [status |-> kind, version |-> 2] /\ ~overtaken'
          /\ activeKeys' = {} /\ 3 \notin receipts
      <4>1. ~overtaken'
        BY <1>1, <1>5, <2>3, Zenon
      <4>2. row' = [status |-> kind, version |-> 2] /\ activeKeys' = {}
        BY <1>1, <1>5, <2>1, <2>3 DEF RowAfter, Applies
      <4>3. 3 \notin receipts
        BY <1>2, <1>5, <2>1, <2>3 DEF NewestVersion
      <4>4. QED BY <4>1, <4>2, <4>3
    <3>2. RowFollowsNewest'
      BY <1>1, <1>2, <3>1, RowFollowsNext DEF NewestVersion, Final
    <3>3. QED BY <1>1, <1>3, <3>1, <3>2 DEF AccessInv, VersionsAreLoggedIn, OvertakenByThree,
                                           RevokedKeysStayDead, MatchedIsRecorded
  <2>4. QED BY <2>2, <2>3
<1>6. QED BY <1>4, <1>5

(* The commands of an invalidation change nothing that a query looks at.    *)
LEMMA InvalidationAccess ==
    ASSUME AccessInv, NEW w \in Workers, InvalidationStep(w), UNCHANGED accessVars, TypeOK'
    PROVE  AccessInv'
<1>1. login' = login /\ receipt' = receipt
  BY DEF InvalidationStep, ListSessions, DeleteSessions, DeleteIndex, Ack, Crash, Fail, CutOff,
         sessionVars
<1>2. RowFollowsNewest' /\ OvertakenByThree'
  BY <1>1, RowUnchanged DEF accessVars, accessState
<1>3. QED BY <1>1, <1>2 DEF accessVars, AccessInv, AccessTypeOK, VersionsAreLoggedIn,
                           RevokedKeysStayDead, MatchedIsRecorded

(* A login or a logout has no version to set, or to lose. *)
LEMMA SessionAccess ==
    ASSUME AccessInv, NEW s \in Sessions, SessionStep(s), UNCHANGED accessVars, TypeOK'
    PROVE  AccessInv'
<1>1. receipt' = receipt /\ UNCHANGED consumerVars
  BY DEF SessionStep, BeginLogin, TakeState, LoginRefused, IndexSession, LoginFails, LoginStep,
         LogoutDelete, LogoutUnindex, Expire, consumerVars
<1>2. /\ \A t \in Sessions : t # s => login'[t] = login[t]
      /\ \/ login'[s] = login[s]
         \/ login'[s] = "failed"
         \/ /\ login[s] \in {"none", "begun", "exchange"}
            /\ login'[s] \in {"none", "begun", "exchange"}
         \/ /\ login[s] \in {"index", "open", "unindex", "closed"}
            /\ login'[s] \in {"index", "open", "unindex", "closed"}
  BY DEF AccessInv, AccessTypeOK, TypeOK, SessionStep, BeginLogin, TakeState, LoginRefused,
         IndexSession, LoginFails, LoginStep, LogoutDelete, LogoutUnindex, Expire
<1>3. VersionsAreLoggedIn'
  BY <1>2 DEF accessVars, AccessInv, VersionsAreLoggedIn
<1>4. RowFollowsNewest' /\ OvertakenByThree'
  BY <1>1, RowUnchanged DEF accessVars, accessState
<1>5. QED BY <1>1, <1>3, <1>4 DEF accessVars, AccessInv, AccessTypeOK, RevokedKeysStayDead,
                                 MatchedIsRecorded

(* A session takes the version of its token before it has requests or keys. *)
LEMMA LogInAccess ==
    ASSUME AccessInv, NEW s \in Sessions, LogIn(s), TypeOK'
    PROVE  AccessInv'
<1>1. PICK v \in {1, 3} : version' = [version EXCEPT ![s] = v]
  BY DEF LogIn, Tokens
<1>2. /\ login[s] = "exchange" /\ login' = [login EXCEPT ![s] = "index"]
      /\ receipt' = receipt
      /\ UNCHANGED <<kind, issued, receipts, row, request, activeKeys, mcp, raced, overtaken>>
  BY DEF LogIn, SetSession, consumerVars
<1>3. s \notin activeKeys /\ request[s] = "none"
  BY <1>2 DEF AccessInv, AccessTypeOK, VersionsAreLoggedIn
<1>4. AccessTypeOK'
  BY <1>1, <1>2 DEF AccessInv, AccessTypeOK
<1>5. VersionsAreLoggedIn'
  BY <1>1, <1>2 DEF AccessInv, AccessTypeOK, TypeOK, VersionsAreLoggedIn
<1>6. RowFollowsNewest' /\ OvertakenByThree'
  BY <1>2, RowUnchanged DEF accessState
<1>7. RevokedKeysStayDead'
  BY <1>1, <1>2, <1>3 DEF AccessInv, AccessTypeOK, RevokedKeysStayDead
<1>8. MatchedIsRecorded'
  BY <1>2 DEF AccessInv, MatchedIsRecorded
<1>9. QED BY <1>4, <1>5, <1>6, <1>7, <1>8 DEF AccessInv

(* A key is created for a version that is still admitted, or races.         *)
LEMMA RequestAccess ==
    ASSUME AccessInv, NEW s \in Sessions,
           Resolve(s) \/ EnsureLocalUser(s) \/ CreateKey(s) \/ EndRequest(s) \/ RevokeKey(s)
    PROVE  AccessInv'
<1>1. /\ UNCHANGED vars
      /\ UNCHANGED <<kind, issued, receipts, row, version, mcp, overtaken>>
  BY DEF Resolve, EnsureLocalUser, CreateKey, EndRequest, RevokeKey, RequestStep
<1>2. /\ request' \in [Sessions -> {"none", "resolved", "admitted"}]
      /\ \A t \in Sessions : request'[t] # "none" => request[t] # "none" \/ login[t] = "open"
  BY DEF Resolve, EnsureLocalUser, CreateKey, EndRequest, RevokeKey, RequestStep, AccessInv,
         AccessTypeOK
<1>3. /\ activeKeys' \subseteq activeKeys \cup {s}
      /\ s \in activeKeys' => s \in activeKeys \/ version[s] # 0
      /\ raced \subseteq raced' /\ raced' \subseteq raced \cup {s}
  BY DEF Resolve, EnsureLocalUser, CreateKey, EndRequest, RevokeKey, RequestStep, AccessInv,
         AccessTypeOK, VersionsAreLoggedIn
<1>4. AccessTypeOK'
  BY <1>1, <1>2, <1>3 DEF AccessInv, AccessTypeOK, vars, TypeOK
<1>5. VersionsAreLoggedIn'
  BY <1>1, <1>2 DEF AccessInv, VersionsAreLoggedIn, vars
<1>6. RowFollowsNewest' /\ OvertakenByThree'
  BY <1>1, RowUnchanged DEF accessState, vars
<1>7. RevokedKeysStayDead'
  <2> SUFFICES ASSUME ServiceAccessEnforcementEnabled, receipt,
                      NEW t \in activeKeys', t \notin activeKeys, t \notin raced'
               PROVE  version[t] > 2
    BY <1>1, <1>3 DEF AccessInv, RevokedKeysStayDead, vars
  <2>1. t = s /\ CreateKey(s)
    BY <1>3 DEF Resolve, EnsureLocalUser, EndRequest, RevokeKey
  <2>2. Admits(version[s]) /\ version[s] \in {0, 1, 3}
    BY <2>1 DEF CreateKey, AccessInv, AccessTypeOK
  <2>3. QED BY <2>1, <2>2, AdmittedIsNewer
<1>8. MatchedIsRecorded'
  BY <1>1 DEF AccessInv, MatchedIsRecorded
<1>9. QED BY <1>4, <1>5, <1>6, <1>7, <1>8 DEF AccessInv

(* A token is matched with the row of an event that was recorded. *)
LEMMA VerifyAccess ==
    ASSUME AccessInv, BeginVerify \/ AdmitToken \/ EndVerify
    PROVE  AccessInv'
<1>1. /\ UNCHANGED vars
      /\ UNCHANGED <<kind, issued, receipts, row, version, request, activeKeys, raced,
                     overtaken>>
  BY DEF BeginVerify, AdmitToken, EndVerify, McpStep
<1>2. /\ mcp' \in [at : {"none", "matched", "admitted"}, version : {0, 1, 3}]
      /\ \/ mcp'.at = "none"
         \/ mcp'.version = mcp.version /\ mcp.at # "none"
         \/ mcp'.version \in {1, 3} /\ VerifyMatch(mcp'.version)
  BY DEF BeginVerify, AdmitToken, EndVerify, McpStep, Tokens, AccessInv, AccessTypeOK
<1>3. AccessTypeOK'
  BY <1>1, <1>2 DEF AccessInv, AccessTypeOK, vars, TypeOK
<1>4. RowFollowsNewest' /\ OvertakenByThree'
  BY <1>1, RowUnchanged DEF accessState, vars
<1>5. MatchedIsRecorded'
  <2> SUFFICES ASSUME ServiceAccessEnforcementEnabled,
                      mcp'.version \in {1, 3}, VerifyMatch(mcp'.version)
               PROVE  mcp'.version \in receipts
    BY <1>1, <1>2 DEF AccessInv, MatchedIsRecorded
  <2>1. row.version = mcp'.version /\ row.version = NewestVersion
    BY RowFollows DEF VerifyMatch, AccessInv, AccessTypeOK
  <2>2. QED BY <2>1 DEF NewestVersion
<1>6. QED BY <1>1, <1>3, <1>4, <1>5
          DEF AccessInv, VersionsAreLoggedIn, RevokedKeysStayDead, vars

(* Every step of ServiceAccess keeps the invariant, as far as               *)
(* SessionInvalidation keeps its own.                                       *)
LEMMA NextAccess == AccessInv /\ TypeOK' /\ [AccessNext]_allVars => AccessInv'
<1> SUFFICES ASSUME AccessInv, TypeOK', [AccessNext]_allVars PROVE AccessInv'
  OBVIOUS
<1>1. CASE IssueEvent
  BY <1>1, IssueAccess
<1>2. ASSUME NEW v \in {1, 3}, ApplyEnabled(v) PROVE AccessInv'
  BY <1>2, EnableAccess
<1>3. ASSUME NEW w \in Workers,
             ApplyBlock(w) \/ (InvalidationStep(w) /\ UNCHANGED accessVars)
      PROVE  AccessInv'
  BY <1>3, BlockAccess, InvalidationAccess
<1>4. ASSUME NEW s \in Sessions, (SessionStep(s) /\ UNCHANGED accessVars) \/ LogIn(s)
      PROVE  AccessInv'
  BY <1>4, SessionAccess, LogInAccess
<1>5. ASSUME NEW s \in Sessions,
             Resolve(s) \/ EnsureLocalUser(s) \/ CreateKey(s) \/ EndRequest(s) \/ RevokeKey(s)
      PROVE  AccessInv'
  BY <1>5, RequestAccess
<1>6. CASE BeginVerify \/ AdmitToken \/ EndVerify
  BY <1>6, VerifyAccess
<1>7. CASE UNCHANGED allVars
  <2>1. UNCHANGED vars /\ UNCHANGED accessVars
    BY <1>7 DEF allVars
  <2>2. RowFollowsNewest' /\ OvertakenByThree'
    BY <2>1, RowUnchanged DEF vars, accessVars, accessState
  <2>3. QED BY <2>1, <2>2 DEF vars, accessVars, AccessInv, AccessTypeOK, VersionsAreLoggedIn,
                             RevokedKeysStayDead, MatchedIsRecorded
<1>8. QED BY <1>1, <1>2, <1>3, <1>4, <1>5, <1>6, <1>7 DEF AccessNext

-----------------------------------------------------------------------------
(* ServiceAccess: the theorems *)

(* The invariant of SessionInvalidation and that of the access hold of      *)
(* every execution.                                                         *)
THEOREM AccessInvariant == AccessSpec => [](SessionInv /\ AccessInv)
<1>1. SessionInv => TypeOK
  BY DEF SessionInv
<1>2. AccessSpec => []SessionInv
  BY AccessRunsTheInvalidation, SessionInvariant, PTL
<1>3. QED BY <1>1, <1>2, InitAccess, NextAccess, PTL DEF AccessSpec

(* The retries of an event are bounded by its attempts and the replicas,    *)
(* and no version is recorded that was not issued.                          *)
THEOREM AccessTypes == AccessSpec => []AccessTypeOK
<1>1. AccessInv => AccessTypeOK
  BY DEF AccessInv
<1>2. QED BY <1>1, AccessInvariant, PTL

(* In whatever order the events are recorded, and however often delivered,  *)
(* the row is that of the newest; a withdrawal is final.                    *)
THEOREM NewestRowWins == AccessSpec => []RowFollowsNewest
<1>1. AccessInv => RowFollowsNewest
  BY DEF AccessInv
<1>2. QED BY <1>1, AccessInvariant, PTL

(* After a block the active keys of the blocked access are those whose      *)
(* INSERT overtook it and, when the re-enabling was recorded first, all.    *)
THEOREM RevokedKeysAreDead == AccessSpec => []RevokedKeysStayDead
<1>1. AccessInv => RevokedKeysStayDead
  BY DEF AccessInv
<1>2. QED BY <1>1, AccessInvariant, PTL

(* Once the block is recorded, no session and no MCP token of an older      *)
(* access is admitted.                                                      *)
THEOREM OldAccessRefused == AccessSpec => OldAccessIsRefused
<1> DEFINE SessionsRefused ==
              \A s \in Sessions :
                 /\ ServiceAccessEnforcementEnabled /\ receipt
                 /\ request[s] # "admitted" /\ request'[s] = "admitted"
                 => version[s] > 2
           TokensRefused ==
              ServiceAccessEnforcementEnabled /\ mcp.at # "admitted" /\ mcp'.at = "admitted"
              => mcp.version \in receipts /\ (receipt => mcp.version > 2)
<1>1. AccessInv /\ [AccessNext]_allVars => [SessionsRefused /\ TokensRefused]_allVars
  <2> SUFFICES ASSUME AccessInv, AccessNext PROVE SessionsRefused /\ TokensRefused
    OBVIOUS
  <2>1. SessionsRefused
    <3> SUFFICES ASSUME NEW s \in Sessions, ServiceAccessEnforcementEnabled, receipt,
                        request[s] # "admitted", request'[s] = "admitted"
                 PROVE  version[s] > 2
      OBVIOUS
    <3>1. EnsureLocalUser(s)
      BY DEF AccessNext, IssueEvent, ApplyEnabled, ApplyBlock, LogIn, Resolve, EnsureLocalUser,
             CreateKey, EndRequest, RequestStep, RevokeKey, BeginVerify, AdmitToken, EndVerify,
             McpStep, accessVars, AccessInv, AccessTypeOK
    <3>2. Admits(version[s]) /\ version[s] \in {0, 1, 3}
      BY <3>1 DEF EnsureLocalUser, AccessInv, AccessTypeOK
    <3>3. QED BY <3>2, AdmittedIsNewer
  <2>2. TokensRefused
    <3> SUFFICES ASSUME ServiceAccessEnforcementEnabled,
                        mcp.at # "admitted", mcp'.at = "admitted"
                 PROVE  mcp.version \in receipts /\ (receipt => mcp.version > 2)
      OBVIOUS
    <3>1. AdmitToken
      BY DEF AccessNext, IssueEvent, ApplyEnabled, ApplyBlock, LogIn, Resolve, EnsureLocalUser,
             CreateKey, EndRequest, RequestStep, RevokeKey, BeginVerify, AdmitToken, EndVerify,
             McpStep, accessVars, AccessInv, AccessTypeOK
    <3>2. mcp.at = "matched" /\ Admits(mcp.version) /\ mcp.version \in {0, 1, 3}
      BY <3>1 DEF AdmitToken, McpStep, AccessInv, AccessTypeOK
    <3>3. mcp.version \in receipts
      BY <3>2 DEF AccessInv, MatchedIsRecorded
    <3>4. QED BY <3>2, <3>3, AdmittedIsNewer
  <2>3. QED BY <2>1, <2>2
<1>2. QED BY <1>1, AccessInvariant, PTL DEF AccessSpec, OldAccessIsRefused

=============================================================================
