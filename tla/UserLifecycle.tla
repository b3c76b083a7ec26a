---------------------------- MODULE UserLifecycle ----------------------------
(***************************************************************************)
(* The local mirror of one IAM user: the lifecycle events of the Redis      *)
(* stream applied by src/events/userLifecycleConsumer.ts, the legacy events *)
(* of src/events/userSyncConsumer.ts, and the users row that               *)
(* src/users/ensureLocalUser.ts provisions for every MCP request           *)
(* (src/auth/mcpOAuthVerifier.ts) and session request.                     *)
(*                                                                         *)
(* The event of version v is the v-th of IAM.  A consumer group delivers    *)
(* every event at least once: a failed one stays pending and is claimed     *)
(* again later, behind its successors, and the replicas of the gateway work *)
(* through their shares in parallel, so events are applied in any order.    *)
(* applyUserLifecycleEvent() is one transaction, hence one action; the one  *)
(* statement of ensureLocalUser() is two, since its WHERE NOT EXISTS reads  *)
(* a snapshot that a concurrent transaction may outdate before the insert.  *)
(***************************************************************************)
EXTENDS Integers, Sequences

CONSTANTS
    Requests,       \* requests that authenticate at the same time
    MaxVersion,     \* bound: events IAM issues for the user
    MaxAttempts     \* maxAttempts of the consumer

ASSUME MaxVersionAssumption == MaxVersion \in Nat \ {0}
ASSUME MaxAttemptsAssumption == MaxAttempts \in Nat \ {0}

VARIABLES
    events,     \* types of the events IAM has issued, by version
    delivery,   \* of each event in the consumer group
    attempts,   \* retry counter of each event
    receipts,   \* iam_user_lifecycle_events
    mirror,     \* the iam_user_lifecycle_states row
    user,       \* the users row
    legacy,     \* USER_DISABLED / USER_DELETED still to come on auth:events
    request,    \* of each request: where it is and its token's user_version
    raced       \* history: a row was inserted after the mirror had moved on

vars == <<events, delivery, attempts, receipts, mirror, user, legacy, request, raced>>

Versions == 1..MaxVersion

EventTypes == {"CREATED", "UPDATED", "DISABLED", "REENABLED", "DELETED"}

(* const status = ... of applyUserLifecycleEvent() *)
Status(type) ==
    IF type = "DISABLED" THEN "BLOCKED" ELSE IF type = "DELETED" THEN "WITHDRAWN" ELSE "ACTIVE"

NoMirror == [status |-> "ACTIVE", version |-> 0]
NoUser == [present |-> FALSE, lifecycle |-> "ACTIVE", active |-> FALSE, version |-> 0]
Idle == [step |-> "idle", token |-> 0]

Statuses == {"ACTIVE", "BLOCKED", "WITHDRAWN"}

TypeOK ==
    /\ events \in Seq(EventTypes) /\ Len(events) <= MaxVersion
    /\ delivery \in [Versions -> {"none", "pending", "acked", "dead"}]
    /\ attempts \in [Versions -> 0..MaxAttempts]
    /\ receipts \subseteq Versions
    /\ mirror \in [status : Statuses, version : 0..MaxVersion]
    /\ user \in [present : BOOLEAN, lifecycle : Statuses, active : BOOLEAN,
                 version : 0..MaxVersion]
    /\ user.active => user.present
    /\ legacy \subseteq Versions
    /\ request \in [Requests -> [step : {"idle", "insert", "select", "admitted"},
                                 token : 0..MaxVersion]]
    /\ raced \in BOOLEAN

Init ==
    /\ events = <<>>
    /\ delivery = [v \in Versions |-> "none"]
    /\ attempts = [v \in Versions |-> 0]
    /\ receipts = {}
    /\ mirror = NoMirror
    /\ user = NoUser
    /\ legacy = {}
    /\ request = [r \in Requests |-> Idle]
    /\ raced = FALSE

-----------------------------------------------------------------------------
(* IAM (external): a user is created, updated while active, disabled and    *)
(* re-enabled, one version per event, and deleted for good; a re-enable     *)
(* that follows a deletion all the same, as the consumer's test sends one,  *)
(* is the last event and brings no tokens.                                  *)

Deleted(v) == \E d \in 1..v : events[d] = "DELETED"

IamActiveAt(v) == Status(events[v]) = "ACTIVE" /\ ~Deleted(v)

IamActive == events # <<>> /\ IamActiveAt(Len(events))

NextTypes ==
    {type \in EventTypes :
        \/ type = "CREATED" /\ events = <<>>
        \/ type \in {"UPDATED", "DISABLED"} /\ IamActive
        \/ type = "DELETED" /\ events # <<>> /\ ~Deleted(Len(events))
        \/ type = "REENABLED" /\ events # <<>>
              /\ events[Len(events)] \in {"DISABLED", "DELETED"}}

IssueEvent ==
    /\ Len(events) < MaxVersion
    /\ \E type \in NextTypes :
          LET v == Len(events) + 1
          IN  /\ events' = Append(events, type)
              /\ delivery' = [delivery EXCEPT ![v] = "pending"]
              /\ legacy' = IF type \in {"DISABLED", "DELETED"} THEN legacy \cup {v}
                                                               ELSE legacy
    /\ UNCHANGED <<attempts, receipts, mirror, user, request, raced>>

-----------------------------------------------------------------------------
(* applyUserLifecycleEvent(): one transaction *)

AcceptedWithoutVersion(v) == mirror.status # "WITHDRAWN"

AcceptedAfterWithdrawal(v) == mirror.version < v

(* ON CONFLICT DO UPDATE ... WHERE user_version < EXCLUDED.user_version     *)
(* AND lifecycle_status <> 'WITHDRAWN'                                      *)
Accepted(v) == mirror.version < v /\ mirror.status # "WITHDRAWN"

(* USER_UPDATED takes the new profile and version only, USER_CREATED       *)
(* nothing; the others set the lifecycle of an older row.                  *)
UserAfter(v) ==
    IF ~user.present \/ user.version >= v \/ events[v] = "CREATED" THEN user
    ELSE IF events[v] = "UPDATED" THEN [user EXCEPT !.version = v]
    ELSE [present |-> TRUE, lifecycle |-> Status(events[v]),
          active |-> Status(events[v]) = "ACTIVE", version |-> v]

Apply(v) ==
    /\ delivery[v] = "pending"
    /\ v \notin receipts
    /\ receipts' = receipts \cup {v}
    /\ IF Accepted(v)
       THEN /\ mirror' = [status |-> Status(events[v]), version |-> v]
            /\ user' = UserAfter(v)
       ELSE UNCHANGED <<mirror, user>>
    /\ UNCHANGED <<events, delivery, attempts, legacy, request, raced>>

AckUnapplied(v) ==
    /\ delivery[v] = "pending"
    /\ delivery' = [delivery EXCEPT ![v] = "acked"]
    /\ attempts' = [attempts EXCEPT ![v] = 0]
    /\ UNCHANGED <<events, receipts, mirror, user, legacy, request, raced>>

(* process() after apply returned, on the delivery that applied the event   *)
(* or on a later one that found its receipt: xAck, and the counter's del.    *)
Ack(v) ==
    /\ delivery[v] = "pending"
    /\ v \in receipts
    /\ delivery' = [delivery EXCEPT ![v] = "acked"]
    /\ attempts' = [attempts EXCEPT ![v] = 0]
    /\ UNCHANGED <<events, receipts, mirror, user, legacy, request, raced>>

(* process() when anything threw, before or after the commit: the event     *)
(* stays pending, and the last attempt moves it to the dead letter stream.  *)
FailAttempt(v) ==
    /\ delivery[v] = "pending"
    /\ attempts' = [attempts EXCEPT ![v] = @ + 1]
    /\ delivery' = [delivery EXCEPT ![v] = IF attempts[v] + 1 >= MaxAttempts
                                           THEN "dead" ELSE "pending"]
    /\ UNCHANGED <<events, receipts, mirror, user, legacy, request, raced>>

-----------------------------------------------------------------------------
(* applyUserSyncEvent() for USER_DISABLED and USER_DELETED: no version *)
LegacySync(v) ==
    /\ v \in legacy
    /\ legacy' = legacy \ {v}
    /\ user' = [user EXCEPT !.active = FALSE]
    /\ UNCHANGED <<events, delivery, attempts, receipts, mirror, request, raced>>

(* The loop reads new messages only and claims none: one whose transaction  *)
(* failed, or that was read by a replica that died, is never applied.       *)
LegacyLost(v) ==
    /\ v \in legacy
    /\ legacy' = legacy \ {v}
    /\ UNCHANGED <<events, delivery, attempts, receipts, mirror, user, request, raced>>

-----------------------------------------------------------------------------
(* McpOAuthVerifier.verify() and ensureLocalUser() *)

(* IAM issues tokens while the user is active; a token or session issued at *)
(* version w is presented at any later time.                                *)
Tokens == {w \in 1..Len(events) : IamActiveAt(w)}

MirrorAdmits(w) == mirror.status = "ACTIVE" /\ mirror.version <= w

(* WHERE NOT EXISTS (... lifecycle_status <> 'ACTIVE' OR user_version > $6), *)
(* on the snapshot of the statement.  A refused request changes nothing.    *)
EnsureCheck(r) ==
    /\ request[r].step \in {"idle", "admitted"}
    /\ \E w \in Tokens :
          /\ MirrorAdmits(w)
          /\ request' = [request EXCEPT ![r] = [step |-> "insert", token |-> w]]
    /\ UNCHANGED <<events, delivery, attempts, receipts, mirror, user, legacy, raced>>

UserUsable == user.active /\ user.lifecycle = "ACTIVE"

UserEnsuredAlways(w) ==
    [present |-> TRUE, lifecycle |-> "ACTIVE", active |-> TRUE,
     version |-> IF user.version > w THEN user.version ELSE w]

(* A new row, or for a usable one the newer of the two versions *)
UserEnsured(w) ==
    IF ~user.present
    THEN [present |-> TRUE, lifecycle |-> "ACTIVE", active |-> TRUE, version |-> w]
    ELSE IF UserUsable
         THEN [user EXCEPT !.version = IF user.version > w THEN user.version ELSE w]
         ELSE user

(* INSERT ... ON CONFLICT DO UPDATE ... WHERE users.is_active AND           *)
(* users.lifecycle_status = 'ACTIVE' RETURNING id: no id, no admission.     *)
EnsureInsert(r) ==
    /\ request[r].step = "insert"
    /\ user' = UserEnsured(request[r].token)
    /\ request' = [request EXCEPT ![r] = IF UserUsable \/ ~user.present
                                         THEN [@ EXCEPT !.step = "select"] ELSE Idle]
    /\ raced' = (raced \/ (~user.present /\ ~MirrorAdmits(request[r].token)))
    /\ UNCHANGED <<events, delivery, attempts, receipts, mirror, legacy>>

SelectUserUnchecked(r) ==
    /\ request[r].step = "select"
    /\ request' = [request EXCEPT ![r].step = "admitted"]
    /\ UNCHANGED <<events, delivery, attempts, receipts, mirror, user, legacy, raced>>

(* The final SELECT of verify() reads the row again. *)
SelectUser(r) ==
    /\ request[r].step = "select"
    /\ request' = [request EXCEPT ![r] = IF UserUsable
                                         THEN [@ EXCEPT !.step = "admitted"] ELSE Idle]
    /\ UNCHANGED <<events, delivery, attempts, receipts, mirror, user, legacy, raced>>

-----------------------------------------------------------------------------
Next ==
    \/ IssueEvent
    \/ \E v \in Versions : Apply(v) \/ Ack(v) \/ FailAttempt(v)
                        \/ LegacySync(v) \/ LegacyLost(v)
    \/ \E r \in Requests : EnsureCheck(r) \/ EnsureInsert(r) \/ SelectUser(r)

Spec == Init /\ [][Next]_vars

(* Each replica's loop claims the pending events and reads the new ones for *)
(* as long as it runs, and another replica claims those of a dead one.      *)
Fairness == \A v \in Versions : WF_vars(Apply(v)) /\ WF_vars(Ack(v))

FairSpec == Spec /\ Fairness

-----------------------------------------------------------------------------
(* Safety *)

Blocks(v) == events[v] \in {"DISABLED", "DELETED"}

(* In whatever order, how often and after how many failures the events are  *)
(* applied, the mirror shows the newest of those applied                    *)
(* (WHERE user_version < EXCLUDED.user_version), until it shows a deletion. *)
MirrorShowsNewest ==
    /\ mirror.version > 0 =>
          mirror.version \in receipts /\ mirror.status = Status(events[mirror.version])
    /\ mirror.status # "WITHDRAWN" => \A v \in receipts : v <= mirror.version

(* A block that was applied leaves no usable users row behind, now or after *)
(* any later event or request, unless the row was brought to a newer        *)
(* version, or inserted from a snapshot the block had overtaken             *)
(* (ensureLocalUser.ts reads the mirror without locking it).                *)
BlockSticks ==
    ~raced /\ UserUsable => \A v \in receipts : Blocks(v) => user.version > v

(* Neither the mirror nor the users row of a deleted user comes back: "keeps *)
(* deleted terminal across duplicate and higher-version re-enable events".  *)
WithdrawnIsTerminal ==
    [][/\ mirror.status = "WITHDRAWN" => mirror' = mirror
       /\ user.present /\ user.lifecycle = "WITHDRAWN"
             => user'.lifecycle = "WITHDRAWN" /\ ~user'.active]_vars

(* A request that passed the mirror before a block was applied is not       *)
(* admitted after it, since verify() reads the row a second time.           *)
AdmissionHonoursBlocks ==
    [][\A r \in Requests :
          ~raced /\ request[r].step = "select" /\ request'[r].step = "admitted"
             => \A v \in receipts : Blocks(v) => user.version > v]_vars

(* When every event was acknowledged, the row of a user active in IAM is    *)
(* active again: the re-enable that "leaves a DB failure pending and        *)
(* succeeds on redelivery" did succeed.                                     *)
ReenabledIsUsable ==
    /\ IamActive
    /\ \A v \in 1..Len(events) : delivery[v] = "acked"
    => user.lifecycle = "ACTIVE"

-----------------------------------------------------------------------------
(* Liveness *)

(* A disable or deletion is in the end applied or moved to the dead letter  *)
(* stream: it is never acknowledged or left behind without one of them.     *)
BlockIsAppliedOrDead ==
    \A v \in Versions :
        (v <= Len(events) /\ events[v] \in {"DISABLED", "DELETED"})
            ~> (v \in receipts \/ delivery[v] = "dead")

=============================================================================
