------------------------- MODULE SessionInvalidation -------------------------
(***************************************************************************)
(* What follows the commit of a blocking event, USER_DISABLED or            *)
(* USER_SERVICE_DISABLED: the web sessions of the subject are found through *)
(* an index set in Redis and deleted (src/events/userLifecycleConsumer.ts,  *)
(* src/events/userServiceAccessConsumer.ts), while logins and logouts write *)
(* the sessions and the index (src/auth/oauthSession.ts), one Redis command *)
(* at a time.                                                               *)
(*                                                                         *)
(* The event is delivered to a worker, and after a failure, a crash or 60   *)
(* seconds of silence (xAutoClaim) to another.  The transaction records the *)
(* event's receipt before anything is invalidated.                          *)
(***************************************************************************)
EXTENDS Integers, FiniteSets

CONSTANTS
    Sessions,       \* sessions the subject may log in to
    Workers,        \* consumers of the group, one per replica
    MaxAttempts     \* maxAttempts of the consumer

ASSUME MaxAttemptsAssumption == MaxAttempts \in Nat \ {0}

ASSUME WorkersAssumption == IsFiniteSet(Workers)

VARIABLES
    alive,          \* session keys in Redis
    index,          \* tg:web:user:<subject>
    login,          \* of each session: how far its login or logout is
    receipt,        \* the event's receipt is committed
    delivery,       \* of the event in the group
    attempts,       \* its retry counter
    step,           \* of each worker: the command it is about to send
    keys,           \* of each worker: the members it has read from the index
    known,          \* history: the index at the commit
    straddling,     \* history: sessions indexed while an index was being emptied
    interrupted     \* history: an invalidation was cut off

vars == <<alive, index, login, receipt, delivery, attempts, step, keys, known,
          straddling, interrupted>>

LoginSteps == {"none", "begun", "exchange", "index", "open", "unindex",
               "closed", "failed"}
WorkerSteps == {"idle", "list", "delete", "deindex", "ack"}

TypeOK ==
    /\ alive \subseteq Sessions /\ index \subseteq Sessions
    /\ login \in [Sessions -> LoginSteps]
    /\ receipt \in BOOLEAN
    /\ delivery \in {"pending", "acked", "dead"}
    /\ attempts \in 0..MaxAttempts + Cardinality(Workers)
    /\ delivery = "pending" => attempts < MaxAttempts
    /\ step \in [Workers -> WorkerSteps]
    /\ keys \in [Workers -> SUBSET Sessions]
    /\ known \subseteq Sessions /\ straddling \subseteq Sessions
    /\ interrupted \in BOOLEAN

Init ==
    /\ alive = {} /\ index = {}
    /\ login = [s \in Sessions |-> "none"]
    /\ receipt = FALSE
    /\ delivery = "pending"
    /\ attempts = 0
    /\ step = [w \in Workers |-> "idle"]
    /\ keys = [w \in Workers |-> {}]
    /\ known = {} /\ straddling = {}
    /\ interrupted = FALSE

consumerVars == <<receipt, delivery, attempts, step, keys, known, interrupted>>
sessionVars == <<alive, index, login, straddling>>

-----------------------------------------------------------------------------
(* OAuthSessionStore *)

LoginStep(s, from, to) ==
    /\ login[s] = from
    /\ login' = [login EXCEPT ![s] = to]
    /\ UNCHANGED <<alive, index, straddling, consumerVars>>

(* beginLogin(): SET of the state, which the browser brings back. *)
BeginLogin(s) == LoginStep(s, "none", "begun")

(* completeLogin(): GETDEL of the state, so that it is used once *)
TakeState(s) == LoginStep(s, "begun", "exchange")

(* ... unless it has expired; or the code is not exchanged, or the tokens   *)
(* are not accepted *)
LoginRefused(s) ==
    LoginStep(s, "begun", "failed") \/ LoginStep(s, "exchange", "failed")

(* ... or they are: SET of the session *)
SetSession(s) ==
    /\ login[s] = "exchange"
    /\ alive' = alive \cup {s}
    /\ login' = [login EXCEPT ![s] = "index"]
    /\ UNCHANGED <<index, straddling, consumerVars>>

(* ... then SADD to the index, and the cookie *)
IndexSession(s) ==
    /\ login[s] = "index"
    /\ index' = index \cup {s}
    /\ login' = [login EXCEPT ![s] = "open"]
    /\ straddling' = IF \E w \in Workers : step[w] \in {"delete", "deindex"}
                     THEN straddling \cup {s} ELSE straddling
    /\ UNCHANGED <<alive, consumerVars>>

(* ... or the SADD throws: the session stays, its cookie is never sent. *)
LoginFails(s) == LoginStep(s, "index", "failed")

LogoutDeleteKeepsKey(s) == LoginStep(s, "open", "unindex")

(* revoke(): GET and DEL of the session; no SREM follows if it was gone. *)
LogoutDelete(s) ==
    /\ login[s] = "open"
    /\ alive' = alive \ {s}
    /\ login' = [login EXCEPT ![s] = IF s \in alive THEN "unindex" ELSE "closed"]
    /\ UNCHANGED <<index, straddling, consumerVars>>

LogoutUnindex(s) ==
    /\ login[s] = "unindex"
    /\ index' = index \ {s}
    /\ login' = [login EXCEPT ![s] = "closed"]
    /\ UNCHANGED <<alive, straddling, consumerVars>>

(* The TTL of a session, or resolve() finding it expired. *)
Expire(s) ==
    /\ s \in alive
    /\ alive' = alive \ {s}
    /\ UNCHANGED <<index, login, straddling, consumerVars>>

-----------------------------------------------------------------------------
(* process() of one worker *)

(* The transaction: a receipt that is there already, or a newer version of  *)
(* the state row, means nothing to do.                                      *)
Commit(w, newer) ==
    /\ step[w] = "idle" /\ delivery = "pending"
    /\ receipt' = TRUE
    /\ IF newer /\ ~receipt
       THEN step' = [step EXCEPT ![w] = "list"] /\ known' = index
       ELSE step' = [step EXCEPT ![w] = "ack"] /\ UNCHANGED known
    /\ UNCHANGED <<delivery, attempts, keys, interrupted, sessionVars>>

ListAfterIndexDeleted(w) ==
    /\ step[w] = "list"
    /\ index' = {}
    /\ keys' = [keys EXCEPT ![w] = {}]
    /\ step' = [step EXCEPT ![w] = "delete"]
    /\ UNCHANGED <<receipt, delivery, attempts, known, interrupted, alive, login, straddling>>

(* invalidateSessions(): SMEMBERS, DEL of the members, DEL of the index *)
ListSessions(w) ==
    /\ step[w] = "list"
    /\ keys' = [keys EXCEPT ![w] = index]
    /\ step' = [step EXCEPT ![w] = "delete"]
    /\ UNCHANGED <<receipt, delivery, attempts, known, interrupted, sessionVars>>

DeleteSessions(w) ==
    /\ step[w] = "delete"
    /\ alive' = alive \ keys[w]
    /\ keys' = [keys EXCEPT ![w] = {}]
    /\ step' = [step EXCEPT ![w] = "deindex"]
    /\ UNCHANGED <<receipt, delivery, attempts, known, interrupted, index, login, straddling>>

DeleteIndex(w) ==
    /\ step[w] = "deindex"
    /\ index' = {}
    /\ step' = [step EXCEPT ![w] = "ack"]
    /\ UNCHANGED <<receipt, delivery, attempts, keys, known, interrupted, alive, login, straddling>>

Ack(w) ==
    /\ step[w] = "ack"
    /\ delivery' = IF delivery = "pending" THEN "acked" ELSE delivery
    /\ attempts' = 0
    /\ step' = [step EXCEPT ![w] = "idle"]
    /\ UNCHANGED <<receipt, keys, known, interrupted, sessionVars>>

(* The worker gives its command up. *)
CutOff(w) ==
    /\ interrupted' = (interrupted \/ step[w] \in {"list", "delete", "deindex"})
    /\ step' = [step EXCEPT ![w] = "idle"]
    /\ keys' = [keys EXCEPT ![w] = {}]
    /\ UNCHANGED <<receipt, known, sessionVars>>

(* Its transaction rolled back or a Redis command threw: the catch block,   *)
(* which on the last attempt moves the event to the dead letter stream.     *)
Fail(w) ==
    /\ step[w] # "idle" \/ delivery = "pending"
    /\ attempts' = attempts + 1
    /\ delivery' = IF attempts + 1 >= MaxAttempts THEN "dead" ELSE delivery
    /\ CutOff(w)

(* Its process dies. *)
Crash(w) ==
    /\ step[w] # "idle"
    /\ CutOff(w)
    /\ UNCHANGED <<delivery, attempts>>

-----------------------------------------------------------------------------
Next ==
    \/ \E s \in Sessions :
          \/ BeginLogin(s) \/ TakeState(s) \/ LoginRefused(s)
          \/ SetSession(s) \/ IndexSession(s) \/ LoginFails(s)
          \/ LogoutDelete(s) \/ LogoutUnindex(s) \/ Expire(s)
    \/ \E w \in Workers :
          \/ \E newer \in BOOLEAN : Commit(w, newer)
          \/ ListSessions(w) \/ DeleteSessions(w) \/ DeleteIndex(w)
          \/ Ack(w) \/ Fail(w) \/ Crash(w)

Spec == Init /\ [][Next]_vars

-----------------------------------------------------------------------------
(* Safety *)

Invalidating == \E w \in Workers : step[w] \in {"list", "delete", "deindex"}

(* A session in the index when the block was committed is gone once the     *)
(* event's invalidation has run to its end, whatever logged in or out       *)
(* meanwhile and whichever replica acknowledged the event.                  *)
CompletedInvalidationIsTotal ==
    receipt /\ ~Invalidating /\ ~interrupted => known \cap alive = {}

(* An open session can be found through the index, unless its SADD fell     *)
(* between the SMEMBERS and the DEL of an invalidation.                     *)
OpenSessionIsIndexed ==
    \A s \in alive :
        login[s] \in {"open", "unindex", "closed"} => s \in index \/ s \in straddling

(* "blocks an existing user and invalidates keys and sessions after commit": *)
(* when the event was acknowledged and no worker is at it any more, the     *)
(* sessions known at the commit are gone.                                   *)
AckedBlockInvalidates ==
    delivery = "acked" /\ ~Invalidating => known \cap alive = {}

=============================================================================
