------------------------- MODULE UserLifecycleProofs -------------------------
(***************************************************************************)
(* Proofs about UserLifecycle, for every number of events, attempts and     *)
(* concurrent requests.                                                     *)
(***************************************************************************)
EXTENDS UserLifecycle, SequenceTheorems, TLAPS

(* Nothing is known of an event before IAM has issued it. *)
OnlyIssuedKnown ==
    /\ receipts \subseteq 1..Len(events)
    /\ mirror.version <= Len(events)
    /\ user.version <= Len(events)
    /\ \A r \in Requests : request[r].token <= Len(events)

(* What IAM issues: one creation, and after a deletion no further block. *)
IamHistory ==
    /\ \A v \in 1..Len(events) : events[v] = "CREATED" => v = 1
    /\ \A d, v \in 1..Len(events) : events[d] = "DELETED" /\ d < v => ~Blocks(v)

(* Events not yet issued are not delivered, and those still to be processed *)
(* have an attempt left.                                                    *)
RetriesLeft ==
    \A v \in Versions :
        /\ v > Len(events) => delivery[v] = "none"
        /\ delivery[v] \in {"none", "pending"} => attempts[v] < MaxAttempts

UnknownIsActive == mirror.version = 0 => mirror.status = "ACTIVE"

(* A token, and with it a row, is never of the version of a block. *)
TokensAreOfActiveVersions ==
    \A r \in Requests : request[r].step # "idle" =>
        request[r].token >= 1 /\ ~Blocks(request[r].token)

RowVersions ==
    /\ user.present => user.version >= 1
    /\ UserUsable => ~Blocks(user.version)

RowNotBehindMirror == ~raced /\ UserUsable => user.version >= mirror.version

WithdrawnRow ==
    user.present /\ user.lifecycle = "WITHDRAWN" => mirror.status = "WITHDRAWN" /\ ~user.active

IInv ==
    /\ TypeOK
    /\ OnlyIssuedKnown
    /\ IamHistory
    /\ RetriesLeft
    /\ UnknownIsActive
    /\ MirrorShowsNewest
    /\ TokensAreOfActiveVersions
    /\ RowVersions
    /\ RowNotBehindMirror
    /\ BlockSticks
    /\ WithdrawnRow

USE MaxVersionAssumption, MaxAttemptsAssumption

-----------------------------------------------------------------------------
(* Every event type has a status; the blocking ones are those not ACTIVE. *)
LEMMA StatusOfType ==
    ASSUME NEW type \in EventTypes
    PROVE  /\ Status(type) \in Statuses
           /\ Status(type) = "ACTIVE" <=> type \notin {"DISABLED", "DELETED"}
           /\ Status(type) = "WITHDRAWN" <=> type = "DELETED"
BY DEF EventTypes, Status, Statuses

(* An issued event has a type. *)
LEMMA EventHasType ==
    ASSUME TypeOK, NEW v \in 1..Len(events)
    PROVE  events[v] \in EventTypes /\ v \in Versions /\ Len(events) \in Nat
<1>1. events \in Seq(EventTypes) /\ Len(events) \in Nat /\ Len(events) <= MaxVersion
  BY LenProperties DEF TypeOK
<1>2. events[v] \in EventTypes
  BY <1>1, ElementOfSeq
<1>3. QED BY <1>1, <1>2 DEF Versions

(* No event, no row and no request satisfies the invariant. *)
LEMMA InitIInv == Init => IInv
<1> SUFFICES ASSUME Init PROVE IInv
  OBVIOUS
<1>1. events = <<>> /\ Len(events) = 0
  BY DEF Init
<1>2. TypeOK
  <2>1. events \in Seq(EventTypes) /\ Len(events) <= MaxVersion
    BY <1>1, EmptySeq
  <2>2. /\ delivery \in [Versions -> {"none", "pending", "acked", "dead"}]
        /\ attempts \in [Versions -> 0..MaxAttempts]
    BY DEF Init
  <2>3. mirror \in [status : Statuses, version : 0..MaxVersion]
    BY DEF Init, NoMirror, Statuses
  <2>4. /\ user \in [present : BOOLEAN, lifecycle : Statuses, active : BOOLEAN,
                     version : 0..MaxVersion]
        /\ user.active => user.present
    BY DEF Init, NoUser, Statuses
  <2>5. request \in [Requests -> [step : {"idle", "insert", "select", "admitted"},
                                  token : 0..MaxVersion]]
    BY DEF Init, Idle
  <2>6. receipts \subseteq Versions /\ legacy \subseteq Versions /\ raced \in BOOLEAN
    BY DEF Init
  <2>7. QED BY <2>1, <2>2, <2>3, <2>4, <2>5, <2>6 DEF TypeOK
<1>3. OnlyIssuedKnown /\ IamHistory /\ RetriesLeft /\ UnknownIsActive
  BY <1>1 DEF Init, OnlyIssuedKnown, IamHistory, RetriesLeft, UnknownIsActive, NoMirror,
              NoUser, Idle
<1>4. MirrorShowsNewest /\ TokensAreOfActiveVersions
  BY DEF Init, MirrorShowsNewest, TokensAreOfActiveVersions, NoMirror, Idle
<1>5. RowVersions /\ RowNotBehindMirror /\ BlockSticks /\ WithdrawnRow
  BY DEF Init, RowVersions, RowNotBehindMirror, BlockSticks, WithdrawnRow, UserUsable, NoUser
<1>6. QED BY <1>2, <1>3, <1>4, <1>5 DEF IInv

(* A step that leaves alone what is known of the user keeps all of the      *)
(* invariant that speaks of it.                                             *)
LEMMA KnowledgeKept ==
    ASSUME IInv, UNCHANGED <<events, receipts, mirror, user, request, raced>>,
           TypeOK', RetriesLeft'
    PROVE  IInv'
<1>1. OnlyIssuedKnown' /\ IamHistory' /\ UnknownIsActive'
  BY DEF IInv, OnlyIssuedKnown, IamHistory, UnknownIsActive, Blocks
<1>2. MirrorShowsNewest' /\ TokensAreOfActiveVersions'
  BY DEF IInv, MirrorShowsNewest, TokensAreOfActiveVersions, Blocks
<1>3. RowVersions' /\ RowNotBehindMirror' /\ BlockSticks' /\ WithdrawnRow'
  BY DEF IInv, RowVersions, RowNotBehindMirror, BlockSticks, WithdrawnRow, UserUsable, Blocks
<1>4. QED BY <1>1, <1>2, <1>3 DEF IInv

-----------------------------------------------------------------------------
(* A new event changes none of the issued ones, and does not block a user   *)
(* who was deleted.                                                         *)
LEMMA IssueEventIInv == IInv /\ IssueEvent => IInv'
<1> SUFFICES ASSUME IInv, IssueEvent PROVE IInv'
  OBVIOUS
<1> DEFINE n == Len(events)
<1>1. /\ events \in Seq(EventTypes) /\ n \in Nat /\ n < MaxVersion
  BY LenProperties DEF IInv, TypeOK, IssueEvent
<1>2. PICK type \in NextTypes :
          /\ events' = Append(events, type)
          /\ delivery' = [delivery EXCEPT ![n + 1] = "pending"]
          /\ legacy' = IF type \in {"DISABLED", "DELETED"} THEN legacy \cup {n + 1}
                                                            ELSE legacy
  BY DEF IssueEvent
<1>3. type \in EventTypes
  BY <1>2 DEF NextTypes
<1>4. /\ events' \in Seq(EventTypes) /\ Len(events') = n + 1
      /\ \A v \in 1..n : events'[v] = events[v]
      /\ events'[n + 1] = type
  BY <1>1, <1>2, <1>3, AppendProperties
<1>5. UNCHANGED <<attempts, receipts, mirror, user, request, raced>>
  BY DEF IssueEvent
<1>6. TypeOK'
  <2>1. delivery' \in [Versions -> {"none", "pending", "acked", "dead"}]
    BY <1>2 DEF IInv, TypeOK
  <2>2. legacy' \subseteq Versions
    <3>1. n + 1 \in Versions /\ legacy \subseteq Versions
      BY <1>1 DEF IInv, TypeOK, Versions
    <3>2. QED BY <1>2, <3>1
  <2>3. QED BY <1>1, <1>4, <1>5, <2>1, <2>2 DEF IInv, TypeOK
<1>7. OnlyIssuedKnown'
  BY <1>1, <1>4, <1>5 DEF IInv, OnlyIssuedKnown, TypeOK, Versions
<1>8. IamHistory'
  <2>1. ASSUME NEW v \in 1..(n + 1), events'[v] = "CREATED" PROVE v = 1
    <3>1. CASE v \in 1..n
      BY <1>4, <2>1, <3>1 DEF IInv, IamHistory
    <3>2. CASE v = n + 1
      <4>1. type = "CREATED"
        BY <1>4, <2>1, <3>2
      <4>2. events = <<>>
        BY <1>2, <4>1 DEF NextTypes
      <4>3. QED BY <4>2, <3>2
    <3>3. QED BY <1>1, <3>1, <3>2
  <2>2. ASSUME NEW d \in 1..(n + 1), NEW v \in 1..(n + 1), events'[d] = "DELETED", d < v
        PROVE  events'[v] \notin {"DISABLED", "DELETED"}
    <3>1. d \in 1..n /\ events[d] = "DELETED"
      BY <1>1, <1>4, <2>2
    <3>2. CASE v \in 1..n
      BY <1>4, <2>2, <3>1, <3>2 DEF IInv, IamHistory, Blocks
    <3>3. CASE v = n + 1
      <4>1. ~IamActive /\ Deleted(n) /\ events # <<>>
        BY <1>1, <3>1 DEF IamActive, IamActiveAt, Deleted
      <4>2. events[n] # "DISABLED"
        BY <1>1, <3>1 DEF IInv, IamHistory, Blocks
      <4>3. type = "REENABLED"
        BY <1>2, <4>1, <4>2 DEF NextTypes
      <4>4. QED BY <1>4, <3>3, <4>3
    <3>4. QED BY <1>1, <3>2, <3>3
  <2>3. QED BY <1>4, <2>1, <2>2 DEF IamHistory, Blocks
<1>9. RetriesLeft'
  <2>1. n + 1 \in Versions /\ delivery \in [Versions -> {"none", "pending", "acked", "dead"}]
    BY <1>1 DEF IInv, TypeOK, Versions
  <2>2. ASSUME NEW v \in Versions, v > n + 1 PROVE delivery'[v] = "none"
    BY <1>1, <1>2, <2>1, <2>2 DEF IInv, RetriesLeft, Versions
  <2>3. ASSUME NEW v \in Versions, delivery'[v] \in {"none", "pending"}
        PROVE  attempts[v] < MaxAttempts
    <3>1. CASE v = n + 1
      <4>1. delivery[v] = "none"
        BY <1>1, <3>1 DEF IInv, RetriesLeft
      <4>2. QED BY <4>1 DEF IInv, RetriesLeft
    <3>2. CASE v # n + 1
      BY <1>2, <2>1, <2>3, <3>2 DEF IInv, RetriesLeft
    <3>3. QED BY <3>1, <3>2
  <2>4. QED BY <1>4, <1>5, <2>2, <2>3 DEF RetriesLeft
<1>10. UnknownIsActive' /\ WithdrawnRow'
  BY <1>5 DEF IInv, UnknownIsActive, WithdrawnRow
<1>11. MirrorShowsNewest'
  BY <1>1, <1>4, <1>5 DEF IInv, MirrorShowsNewest, OnlyIssuedKnown, TypeOK
<1>12. TokensAreOfActiveVersions'
  BY <1>1, <1>4, <1>5
  DEF IInv, TokensAreOfActiveVersions, OnlyIssuedKnown, TypeOK, Blocks
<1>13. RowVersions' /\ RowNotBehindMirror'
  BY <1>1, <1>4, <1>5
  DEF IInv, RowVersions, RowNotBehindMirror, OnlyIssuedKnown, TypeOK, UserUsable, Blocks
<1>14. BlockSticks'
  BY <1>1, <1>4, <1>5 DEF IInv, BlockSticks, OnlyIssuedKnown, TypeOK, UserUsable, Blocks
<1>15. QED
  BY <1>6, <1>7, <1>8, <1>9, <1>10, <1>11, <1>12, <1>13, <1>14 DEF IInv

(* What an accepted event makes of the row: nothing, if there is none or it *)
(* is as new; a newer version of it; or a usable row exactly of the status. *)
LEMMA UserAfterCases ==
    ASSUME IInv, NEW v \in 1..Len(events)
    PROVE  \/ /\ UserAfter(v) = user
              /\ ~user.present \/ user.version >= v \/ events[v] = "CREATED"
           \/ /\ UserAfter(v) = [user EXCEPT !.version = v]
              /\ user.present /\ user.version < v /\ events[v] = "UPDATED"
           \/ /\ UserAfter(v).present /\ UserAfter(v).version = v
              /\ UserAfter(v).lifecycle = Status(events[v])
              /\ UserAfter(v).active = (Status(events[v]) = "ACTIVE")
              /\ UserAfter(v) \in [present : BOOLEAN, lifecycle : Statuses,
                                   active : BOOLEAN, version : 0..MaxVersion]
              /\ user.present /\ user.version < v
<1>1. /\ user \in [present : BOOLEAN, lifecycle : Statuses, active : BOOLEAN,
                   version : 0..MaxVersion]
      /\ v \in 1..MaxVersion /\ Status(events[v]) \in Statuses
  BY EventHasType, StatusOfType DEF IInv, TypeOK, Versions
<1>2. CASE ~user.present \/ user.version >= v \/ events[v] = "CREATED"
  BY <1>2 DEF UserAfter
<1>3. CASE /\ ~(~user.present \/ user.version >= v \/ events[v] = "CREATED")
           /\ events[v] = "UPDATED"
  BY <1>1, <1>3 DEF UserAfter
<1>4. CASE /\ ~(~user.present \/ user.version >= v \/ events[v] = "CREATED")
           /\ events[v] # "UPDATED"
  <2>1. UserAfter(v) = [present |-> TRUE, lifecycle |-> Status(events[v]),
                        active |-> Status(events[v]) = "ACTIVE", version |-> v]
    BY <1>4 DEF UserAfter
  <2>2. user.present /\ user.version < v
    BY <1>1, <1>4
  <2>3. (Status(events[v]) = "ACTIVE") \in BOOLEAN /\ v \in 0..MaxVersion
    BY <1>1
  <2>4. UserAfter(v) \in [present : BOOLEAN, lifecycle : Statuses, active : BOOLEAN,
                         version : 0..MaxVersion]
    BY <1>1, <2>1, <2>3
  <2>5. QED BY <2>1, <2>2, <2>4
<1>5. QED BY <1>2, <1>3, <1>4

(* An event that is no longer accepted only leaves its receipt: what it     *)
(* would have blocked is older than the row.                                *)
LEMMA ApplyRejectedIInv ==
    ASSUME IInv, NEW v \in Versions, Apply(v), ~Accepted(v)
    PROVE  IInv'
<1>1. /\ receipts' = receipts \cup {v} /\ v \notin receipts
      /\ UNCHANGED <<events, delivery, attempts, mirror, user, legacy, request, raced>>
  BY DEF Apply
<1>2. v \in 1..Len(events) /\ Len(events) \in Nat
  <2>1. delivery[v] = "pending"
    BY DEF Apply
  <2>2. Len(events) \in Nat
    BY LenProperties DEF IInv, TypeOK
  <2>3. QED BY <2>1, <2>2 DEF IInv, RetriesLeft, Versions
<1>3. mirror.version >= v \/ mirror.status = "WITHDRAWN"
  BY DEF Accepted, IInv, TypeOK, Versions
<1>4. mirror.version \in receipts /\ mirror.version # v
      /\ mirror.status = Status(events[mirror.version]) /\ mirror.version \in 1..Len(events)
  <2>1. mirror.version # 0 /\ mirror.version \in 0..Len(events)
    BY <1>2, <1>3 DEF IInv, UnknownIsActive, TypeOK, OnlyIssuedKnown, Versions
  <2>2. QED BY <1>1, <1>2, <2>1 DEF IInv, MirrorShowsNewest
<1>5. ASSUME Blocks(v), ~raced, UserUsable PROVE user.version > v
  <2>1. mirror.version > v
    <3>1. CASE mirror.version < v
      <4>1. events[mirror.version] = "DELETED"
        BY <1>2, <1>3, <1>4, <3>1, EventHasType, StatusOfType DEF IInv
      <4>2. QED BY <1>2, <1>4, <1>5, <3>1, <4>1 DEF IInv, IamHistory
    <3>2. QED BY <1>2, <1>4, <3>1
  <2>2. QED BY <1>2, <1>4, <1>5, <2>1 DEF IInv, RowNotBehindMirror, TypeOK
<1>6. TypeOK' /\ OnlyIssuedKnown' /\ IamHistory' /\ RetriesLeft' /\ UnknownIsActive'
  BY <1>1, <1>2 DEF IInv, TypeOK, OnlyIssuedKnown, IamHistory, RetriesLeft, UnknownIsActive, Blocks
<1>7. MirrorShowsNewest'
  BY <1>1, <1>3 DEF IInv, MirrorShowsNewest
<1>8. TokensAreOfActiveVersions' /\ RowVersions' /\ RowNotBehindMirror' /\ WithdrawnRow'
  BY <1>1 DEF IInv, TokensAreOfActiveVersions, RowVersions, RowNotBehindMirror, WithdrawnRow,
              UserUsable, Blocks
<1>9. BlockSticks'
  BY <1>1, <1>5 DEF IInv, BlockSticks, UserUsable, Blocks
<1>10. QED BY <1>6, <1>7, <1>8, <1>9 DEF IInv

(* An accepted event is the newest yet, and so is what it does to the row. *)
LEMMA ApplyAcceptedIInv ==
    ASSUME IInv, NEW v \in Versions, Apply(v), Accepted(v)
    PROVE  IInv'
<1>1. /\ receipts' = receipts \cup {v} /\ v \notin receipts
      /\ mirror' = [status |-> Status(events[v]), version |-> v]
      /\ user' = UserAfter(v)
      /\ UNCHANGED <<events, delivery, attempts, legacy, request, raced>>
  BY DEF Apply
<1>2. v \in 1..Len(events) /\ Len(events) \in Nat
  <2>1. delivery[v] = "pending"
    BY DEF Apply
  <2>2. Len(events) \in Nat
    BY LenProperties DEF IInv, TypeOK
  <2>3. QED BY <2>1, <2>2 DEF IInv, RetriesLeft, Versions
<1>3. /\ events[v] \in EventTypes /\ Status(events[v]) \in Statuses
      /\ Status(events[v]) = "ACTIVE" <=> ~Blocks(v)
      /\ Status(events[v]) = "WITHDRAWN" <=> events[v] = "DELETED"
  BY <1>2, EventHasType, StatusOfType DEF IInv, Blocks
<1>4. mirror'.status = Status(events[v]) /\ mirror'.version = v
  BY <1>1
<1>5. /\ mirror.version < v /\ mirror.status # "WITHDRAWN"
      /\ \A w \in receipts : w < v
  BY <1>1, <1>2 DEF Accepted, IInv, MirrorShowsNewest, TypeOK, Versions
<1>6. UNCHANGED events /\ \A w : Blocks(w)' <=> Blocks(w)
  BY <1>1 DEF Blocks
<1>7. \/ /\ user' = user
         /\ ~user.present \/ user.version >= v \/ events[v] = "CREATED"
      \/ /\ user' = [user EXCEPT !.version = v]
         /\ user.present /\ user.version < v /\ events[v] = "UPDATED"
      \/ /\ user'.present /\ user'.version = v
         /\ user'.lifecycle = Status(events[v])
         /\ user'.active = (Status(events[v]) = "ACTIVE")
         /\ user' \in [present : BOOLEAN, lifecycle : Statuses,
                       active : BOOLEAN, version : 0..MaxVersion]
         /\ user.present /\ user.version < v
  BY <1>1, <1>2, UserAfterCases
<1>8. user \in [present : BOOLEAN, lifecycle : Statuses, active : BOOLEAN,
                version : 0..MaxVersion] /\ (user.active => user.present)
  BY DEF IInv, TypeOK
<1>9. user' \in [present : BOOLEAN, lifecycle : Statuses, active : BOOLEAN,
                 version : 0..MaxVersion] /\ (user'.active => user'.present)
  BY <1>2, <1>7, <1>8 DEF Versions
<1>10. TypeOK'
  <2>1. mirror' \in [status : Statuses, version : 0..MaxVersion]
    BY <1>1, <1>3 DEF Versions
  <2>2. QED BY <1>1, <1>9, <2>1 DEF IInv, TypeOK
<1>11. OnlyIssuedKnown'
  BY <1>1, <1>2, <1>4, <1>7, <1>8 DEF IInv, OnlyIssuedKnown
<1>12. IamHistory' /\ RetriesLeft' /\ TokensAreOfActiveVersions'
  BY <1>1 DEF IInv, IamHistory, RetriesLeft, TokensAreOfActiveVersions, Blocks
<1>13. UnknownIsActive' /\ MirrorShowsNewest'
  <2>1. v \in receipts' /\ \A w \in receipts' : w <= v
    BY <1>1, <1>2, <1>5 DEF IInv, TypeOK, Versions
  <2>2. QED BY <1>2, <1>4, <1>6, <2>1 DEF UnknownIsActive, MirrorShowsNewest
<1>14. RowVersions'
  BY <1>2, <1>3, <1>6, <1>7, <1>8 DEF IInv, RowVersions, UserUsable, Blocks
<1>15. RowNotBehindMirror'
  <2>1. ASSUME ~raced, user'.active, user'.lifecycle = "ACTIVE" PROVE user'.version >= v
    <3>1. CASE user' = user /\ events[v] = "CREATED"
      BY <1>2, <1>8, <2>1, <3>1 DEF IInv, IamHistory, RowVersions
    <3>2. CASE user' = user /\ user.version >= v
      BY <3>2
    <3>3. CASE user' = [user EXCEPT !.version = v] \/ user'.version = v
      BY <1>2, <1>8, <3>3
    <3>4. QED BY <1>7, <1>8, <2>1, <3>1, <3>2, <3>3
  <2>2. QED BY <1>1, <1>4, <2>1 DEF RowNotBehindMirror, UserUsable
<1>16. BlockSticks'
  <2>1. ASSUME ~raced, user'.active, user'.lifecycle = "ACTIVE", NEW w \in receipts \cup {v},
               Blocks(w)
        PROVE  user'.version > w
    <3>1. user'.version \in Nat /\ user'.version >= v
      BY <1>1, <1>4, <1>9, <1>15, <2>1, RowNotBehindMirror' DEF RowNotBehindMirror, UserUsable
    <3>2. CASE w \in receipts
      BY <1>2, <1>5, <3>1, <3>2 DEF IInv, TypeOK, Versions
    <3>3. CASE w = v
      <4>1. user'.version # v
        BY <1>6, <1>14, <2>1, <3>3 DEF RowVersions, UserUsable
      <4>2. QED BY <1>2, <3>1, <3>3, <4>1
    <3>4. QED BY <3>2, <3>3
  <2>2. QED BY <1>1, <1>6, <2>1 DEF BlockSticks, UserUsable
<1>17. WithdrawnRow'
  <2>1. CASE user' = user \/ user' = [user EXCEPT !.version = v]
    <3>1. user'.present = user.present /\ user'.lifecycle = user.lifecycle
      BY <1>8, <2>1
    <3>2. ~(user.present /\ user.lifecycle = "WITHDRAWN")
      BY <1>5 DEF IInv, WithdrawnRow
    <3>3. QED BY <3>1, <3>2 DEF WithdrawnRow
  <2>2. CASE user'.lifecycle = Status(events[v]) /\ user'.active = (Status(events[v]) = "ACTIVE")
    BY <1>4, <2>2 DEF WithdrawnRow
  <2>3. QED BY <1>7, <2>1, <2>2
<1>18. QED
  BY <1>10, <1>11, <1>12, <1>13, <1>14, <1>15, <1>16, <1>17 DEF IInv

(* Acknowledging an event, or failing on it, moves it only in its group. *)
LEMMA DeliveryIInv ==
    ASSUME IInv, NEW v \in Versions, Ack(v) \/ FailAttempt(v)
    PROVE  IInv'
<1>1. /\ UNCHANGED <<events, receipts, mirror, user, legacy, request, raced>>
      /\ delivery[v] = "pending"
  BY DEF Ack, FailAttempt
<1>2. /\ delivery \in [Versions -> {"none", "pending", "acked", "dead"}]
      /\ attempts \in [Versions -> 0..MaxAttempts]
      /\ Len(events) \in Nat /\ v <= Len(events) /\ attempts[v] < MaxAttempts
  <2>1. /\ delivery \in [Versions -> {"none", "pending", "acked", "dead"}]
        /\ attempts \in [Versions -> 0..MaxAttempts]
    BY DEF IInv, TypeOK
  <2>2. Len(events) \in Nat
    BY LenProperties DEF IInv, TypeOK
  <2>3. v <= Len(events) /\ attempts[v] < MaxAttempts
    BY <1>1, <2>2 DEF IInv, RetriesLeft, Versions
  <2>4. QED BY <2>1, <2>2, <2>3
<1>3. PICK s \in {"pending", "acked", "dead"}, a \in 0..MaxAttempts :
          /\ delivery' = [delivery EXCEPT ![v] = s]
          /\ attempts' = [attempts EXCEPT ![v] = a]
          /\ s = "pending" => a < MaxAttempts
  <2>1. CASE Ack(v)
    <3>1. /\ delivery' = [delivery EXCEPT ![v] = "acked"]
          /\ attempts' = [attempts EXCEPT ![v] = 0]
      BY <2>1 DEF Ack
    <3>2. 0 \in 0..MaxAttempts
      OBVIOUS
    <3>3. QED BY <3>1, <3>2
  <2>2. CASE FailAttempt(v)
    <3>1. attempts[v] + 1 \in 0..MaxAttempts
      BY <1>2
    <3>2. attempts' = [attempts EXCEPT ![v] = attempts[v] + 1]
      BY <2>2 DEF FailAttempt
    <3>3. CASE attempts[v] + 1 >= MaxAttempts
      <4>1. delivery' = [delivery EXCEPT ![v] = "dead"]
        BY <2>2, <3>3 DEF FailAttempt
      <4>2. QED BY <3>1, <3>2, <4>1
    <3>4. CASE ~(attempts[v] + 1 >= MaxAttempts)
      <4>1. delivery' = [delivery EXCEPT ![v] = "pending"]
        BY <2>2, <3>4 DEF FailAttempt
      <4>2. attempts[v] + 1 < MaxAttempts
        BY <1>2, <3>4
      <4>3. QED BY <3>1, <3>2, <4>1, <4>2
    <3>5. QED BY <3>3, <3>4
  <2>3. QED BY <2>1, <2>2
<1>4. TypeOK'
  BY <1>1, <1>2, <1>3 DEF IInv, TypeOK
<1>5. RetriesLeft'
  <2>1. ASSUME NEW w \in Versions
        PROVE  /\ w > Len(events) => delivery'[w] = "none"
               /\ delivery'[w] \in {"none", "pending"} => attempts'[w] < MaxAttempts
    BY <1>2, <1>3 DEF IInv, RetriesLeft, Versions
  <2>2. QED BY <1>1, <2>1 DEF RetriesLeft
<1>6. QED BY <1>1, <1>4, <1>5, KnowledgeKept

(* A legacy event at most makes the row unusable. *)
LEMMA LegacySyncIInv ==
    ASSUME IInv, NEW v \in Versions, LegacySync(v)
    PROVE  IInv'
<1>1. /\ user' = [user EXCEPT !.active = FALSE] /\ legacy' = legacy \ {v}
      /\ UNCHANGED <<events, delivery, attempts, receipts, mirror, request, raced>>
  BY DEF LegacySync
<1>2. user \in [present : BOOLEAN, lifecycle : Statuses, active : BOOLEAN,
                version : 0..MaxVersion]
  BY DEF IInv, TypeOK
<1>3. /\ user'.present = user.present /\ user'.lifecycle = user.lifecycle
      /\ user'.version = user.version /\ user'.active = FALSE
  BY <1>1, <1>2
<1>4. user' \in [present : BOOLEAN, lifecycle : Statuses, active : BOOLEAN,
                 version : 0..MaxVersion]
  BY <1>1, <1>2
<1>5. ~UserUsable'
  BY <1>3 DEF UserUsable
<1>6. TypeOK'
  BY <1>1, <1>3, <1>4 DEF IInv, TypeOK
<1>7. OnlyIssuedKnown' /\ IamHistory' /\ RetriesLeft' /\ UnknownIsActive'
  BY <1>1, <1>3 DEF IInv, OnlyIssuedKnown, IamHistory, RetriesLeft, UnknownIsActive, Blocks
<1>8. MirrorShowsNewest' /\ TokensAreOfActiveVersions'
  BY <1>1 DEF IInv, MirrorShowsNewest, TokensAreOfActiveVersions, Blocks
<1>9. RowVersions' /\ RowNotBehindMirror' /\ BlockSticks' /\ WithdrawnRow'
  BY <1>1, <1>3, <1>5 DEF IInv, RowVersions, RowNotBehindMirror, BlockSticks, WithdrawnRow
<1>10. QED BY <1>6, <1>7, <1>8, <1>9 DEF IInv

(* A request that passes the mirror carries a token of an active version. *)
LEMMA EnsureCheckIInv ==
    ASSUME IInv, NEW r \in Requests, EnsureCheck(r)
    PROVE  IInv'
<1>1. PICK w \in Tokens : request' = [request EXCEPT ![r] = [step |-> "insert", token |-> w]]
  BY DEF EnsureCheck
<1>2. UNCHANGED <<events, delivery, attempts, receipts, mirror, user, legacy, raced>>
  BY DEF EnsureCheck
<1>3. /\ w \in 1..Len(events) /\ w \in Versions /\ Len(events) \in Nat
      /\ ~Blocks(w)
  <2>1. w \in 1..Len(events) /\ Status(events[w]) = "ACTIVE"
    BY DEF Tokens, IamActiveAt
  <2>2. QED BY <2>1, EventHasType, StatusOfType DEF IInv, Blocks
<1>4. request \in [Requests -> [step : {"idle", "insert", "select", "admitted"},
                                token : 0..MaxVersion]]
  BY DEF IInv, TypeOK
<1>5. [step |-> "insert", token |-> w] \in [step : {"idle", "insert", "select", "admitted"},
                                            token : 0..MaxVersion]
  BY <1>3 DEF Versions
<1>6. TypeOK'
  BY <1>1, <1>2, <1>4, <1>5 DEF IInv, TypeOK
<1>7. OnlyIssuedKnown' /\ TokensAreOfActiveVersions'
  <2>1. ASSUME NEW q \in Requests
        PROVE  /\ request'[q].token <= Len(events)
               /\ request'[q].step # "idle" =>
                     request'[q].token >= 1 /\ ~Blocks(request'[q].token)
    <3>1. CASE q = r
      BY <1>1, <1>3, <1>4, <3>1
    <3>2. CASE q # r
      BY <1>1, <1>4, <3>2 DEF IInv, OnlyIssuedKnown, TokensAreOfActiveVersions
    <3>3. QED BY <3>1, <3>2
  <2>2. QED
    BY <1>2, <2>1 DEF IInv, OnlyIssuedKnown, TokensAreOfActiveVersions, Blocks
<1>8. IamHistory' /\ RetriesLeft' /\ UnknownIsActive' /\ MirrorShowsNewest'
  BY <1>2 DEF IInv, IamHistory, RetriesLeft, UnknownIsActive, MirrorShowsNewest, Blocks
<1>9. RowVersions' /\ RowNotBehindMirror' /\ BlockSticks' /\ WithdrawnRow'
  BY <1>2 DEF IInv, RowVersions, RowNotBehindMirror, BlockSticks, WithdrawnRow, UserUsable, Blocks
<1>10. QED BY <1>6, <1>7, <1>8, <1>9 DEF IInv

(* What the insert makes of the row, for a token of an active version: a    *)
(* new row of it, a usable row not older than before, or no change.         *)
LEMMA EnsureInsertIInv ==
    ASSUME IInv, NEW r \in Requests, EnsureInsert(r)
    PROVE  IInv'
<1> DEFINE w == request[r].token
<1>1. /\ request[r].step = "insert" /\ user' = UserEnsured(w)
      /\ request' = [request EXCEPT ![r] = IF UserUsable \/ ~user.present
                                           THEN [@ EXCEPT !.step = "select"] ELSE Idle]
      /\ raced' = (raced \/ (~user.present /\ ~MirrorAdmits(w)))
      /\ UNCHANGED <<events, delivery, attempts, receipts, mirror, legacy>>
  BY DEF EnsureInsert
<1>2. /\ request \in [Requests -> [step : {"idle", "insert", "select", "admitted"},
                                   token : 0..MaxVersion]]
      /\ user \in [present : BOOLEAN, lifecycle : Statuses, active : BOOLEAN,
                   version : 0..MaxVersion]
      /\ mirror.version \in Nat /\ (user.active => user.present)
  BY DEF IInv, TypeOK
<1>3. w \in 1..MaxVersion /\ w <= Len(events) /\ ~Blocks(w)
  BY <1>1, <1>2 DEF IInv, TokensAreOfActiveVersions, OnlyIssuedKnown
<1>4. \/ /\ ~user.present
         /\ user' = [present |-> TRUE, lifecycle |-> "ACTIVE", active |-> TRUE, version |-> w]
      \/ /\ UserUsable
         /\ user' = [user EXCEPT !.version = IF user.version > w THEN user.version ELSE w]
      \/ user' = user /\ ~UserUsable
  BY <1>1 DEF UserEnsured
<1>5. /\ user' \in [present : BOOLEAN, lifecycle : Statuses, active : BOOLEAN,
                    version : 0..MaxVersion]
      /\ user'.active => user'.present
  <2>1. CASE ~user.present /\ user' = [present |-> TRUE, lifecycle |-> "ACTIVE",
                                      active |-> TRUE, version |-> w]
    BY <1>3, <2>1 DEF Statuses
  <2>2. CASE user' = [user EXCEPT !.version = IF user.version > w THEN user.version ELSE w]
    BY <1>2, <1>3, <2>2
  <2>3. CASE user' = user
    BY <1>2, <2>3
  <2>4. QED BY <1>4, <2>1, <2>2, <2>3
<1>6. ASSUME UserUsable, user' = [user EXCEPT !.version = IF user.version > w
                                                         THEN user.version ELSE w]
      PROVE  /\ user'.present = user.present /\ user'.lifecycle = "ACTIVE"
             /\ user'.version \in {user.version, w}
             /\ user'.version >= user.version
  BY <1>2, <1>3, <1>6 DEF UserUsable
<1>7. \A v : Blocks(v)' <=> Blocks(v)
  BY <1>1 DEF Blocks
<1>8. /\ request' \in [Requests -> [step : {"idle", "insert", "select", "admitted"},
                                    token : 0..MaxVersion]]
      /\ \A q \in Requests : request'[q].step # "idle" => request[q].step # "idle"
      /\ \A q \in Requests : request'[q].token \in {request[q].token, 0}
      /\ \A q \in Requests : request'[q].step # "idle" => request'[q].token = request[q].token
  <2>1. PICK new \in {[request[r] EXCEPT !.step = "select"], Idle} :
            request' = [request EXCEPT ![r] = new]
    BY <1>1
  <2>2. new \in [step : {"idle", "insert", "select", "admitted"}, token : 0..MaxVersion]
    BY <1>2, <2>1 DEF Idle
  <2>3. /\ new.token \in {w, 0} /\ (new.step # "idle" => new.token = w)
    BY <1>2, <2>1 DEF Idle
  <2>4. QED BY <1>1, <1>2, <2>1, <2>2, <2>3
<1>9. TypeOK'
  <2>1. raced' \in BOOLEAN
    BY <1>1
  <2>2. QED BY <1>1, <1>5, <1>8, <2>1 DEF IInv, TypeOK
<1>10. OnlyIssuedKnown'
  <2>1. user'.version <= Len(events)
    BY <1>2, <1>3, <1>4, <1>6 DEF IInv, OnlyIssuedKnown
  <2>2. Len(events) \in Nat
    BY LenProperties DEF IInv, TypeOK
  <2>3. QED BY <1>1, <1>2, <1>8, <2>1, <2>2 DEF IInv, OnlyIssuedKnown
<1>11. IamHistory' /\ RetriesLeft' /\ UnknownIsActive' /\ MirrorShowsNewest'
  BY <1>1 DEF IInv, IamHistory, RetriesLeft, UnknownIsActive, MirrorShowsNewest, Blocks
<1>12. TokensAreOfActiveVersions'
  BY <1>7, <1>8 DEF IInv, TokensAreOfActiveVersions
<1>13. RowVersions'
  BY <1>2, <1>3, <1>4, <1>6, <1>7 DEF IInv, RowVersions, UserUsable
<1>14. RowNotBehindMirror' /\ BlockSticks'
  <2>0. ASSUME ~raced' PROVE ~raced /\ (user.present \/ MirrorAdmits(w))
    <3>1. raced' = (raced \/ (~user.present /\ ~MirrorAdmits(w)))
      BY DEF EnsureInsert
    <3>2. QED BY <2>0, <3>1, Zenon
  <2>1. CASE /\ ~user.present /\ ~raced'
             /\ user' = [present |-> TRUE, lifecycle |-> "ACTIVE", active |-> TRUE, version |-> w]
    <3>1. mirror.status = "ACTIVE" /\ mirror.version <= w /\ user'.version = w
      BY <2>0, <2>1 DEF MirrorAdmits
    <3>2. ASSUME NEW v \in receipts, Blocks(v) PROVE w > v
      <4>1. v \in Nat /\ v <= mirror.version /\ v # w
        BY <1>3, <3>1, <3>2 DEF IInv, MirrorShowsNewest, TypeOK, Versions
      <4>2. QED BY <1>2, <1>3, <3>1, <4>1
    <3>3. QED BY <1>1, <1>7, <3>1, <3>2 DEF RowNotBehindMirror, BlockSticks
  <2>2. CASE raced'
    BY <2>2 DEF RowNotBehindMirror, BlockSticks
  <2>3. CASE /\ UserUsable /\ ~raced'
             /\ user' = [user EXCEPT !.version = IF user.version > w THEN user.version ELSE w]
    <3>1. ~raced /\ user'.version >= user.version /\ user'.version \in Nat
      BY <1>2, <1>3, <1>6, <2>0, <2>3
    <3>2. user.version >= mirror.version
      BY <2>3, <3>1 DEF IInv, RowNotBehindMirror
    <3>3. ASSUME NEW v \in receipts, Blocks(v) PROVE user'.version > v
      BY <1>2, <2>3, <3>1, <3>3 DEF IInv, BlockSticks, TypeOK, Versions
    <3>4. QED BY <1>1, <1>2, <1>7, <3>1, <3>2, <3>3 DEF RowNotBehindMirror, BlockSticks
  <2>4. CASE user' = user /\ ~UserUsable
    BY <2>4 DEF RowNotBehindMirror, BlockSticks, UserUsable
  <2>5. QED BY <1>4, <2>1, <2>2, <2>3, <2>4
<1>15. WithdrawnRow'
  BY <1>1, <1>4, <1>6 DEF IInv, WithdrawnRow, UserUsable
<1>16. QED
  BY <1>9, <1>10, <1>11, <1>12, <1>13, <1>14, <1>15 DEF IInv

(* The final read changes nothing but where the request is. *)
LEMMA SelectUserIInv ==
    ASSUME IInv, NEW r \in Requests, SelectUser(r)
    PROVE  IInv'
<1>1. UNCHANGED <<events, delivery, attempts, receipts, mirror, user, legacy, raced>>
  BY DEF SelectUser
<1>2. request \in [Requests -> [step : {"idle", "insert", "select", "admitted"},
                                token : 0..MaxVersion]]
  BY DEF IInv, TypeOK
<1>3. PICK new \in {[request[r] EXCEPT !.step = "admitted"], Idle} :
          request' = [request EXCEPT ![r] = new]
  BY DEF SelectUser
<1>4. new \in [step : {"idle", "insert", "select", "admitted"}, token : 0..MaxVersion]
  BY <1>2, <1>3 DEF Idle
<1>5. new.token \in {request[r].token, 0} /\ (new.step # "idle" => new.token = request[r].token)
  BY <1>2, <1>3 DEF Idle
<1>6. request[r].step # "idle"
  BY DEF SelectUser
<1>7. TypeOK'
  BY <1>1, <1>2, <1>3, <1>4 DEF IInv, TypeOK
<1>8. OnlyIssuedKnown' /\ TokensAreOfActiveVersions'
  <2>1. ASSUME NEW q \in Requests
        PROVE  /\ request'[q].token <= Len(events)
               /\ request'[q].step # "idle" =>
                     request'[q].token >= 1 /\ ~Blocks(request'[q].token)
    <3>1. Len(events) \in Nat
      BY LenProperties DEF IInv, TypeOK
    <3>2. CASE q = r
      BY <1>2, <1>3, <1>5, <1>6, <3>1, <3>2 DEF IInv, OnlyIssuedKnown, TokensAreOfActiveVersions
    <3>3. CASE q # r
      BY <1>2, <1>3, <3>3 DEF IInv, OnlyIssuedKnown, TokensAreOfActiveVersions
    <3>4. QED BY <3>2, <3>3
  <2>2. QED
    BY <1>1, <2>1 DEF IInv, OnlyIssuedKnown, TokensAreOfActiveVersions, Blocks
<1>9. IamHistory' /\ RetriesLeft' /\ UnknownIsActive' /\ MirrorShowsNewest'
  BY <1>1 DEF IInv, IamHistory, RetriesLeft, UnknownIsActive, MirrorShowsNewest, Blocks
<1>10. RowVersions' /\ RowNotBehindMirror' /\ BlockSticks' /\ WithdrawnRow'
  BY <1>1 DEF IInv, RowVersions, RowNotBehindMirror, BlockSticks, WithdrawnRow, UserUsable, Blocks
<1>11. QED BY <1>7, <1>8, <1>9, <1>10 DEF IInv

-----------------------------------------------------------------------------
(* Every step of the specification keeps the invariant. *)
LEMMA NextIInv == IInv /\ [Next]_vars => IInv'
<1> SUFFICES ASSUME IInv, [Next]_vars PROVE IInv'
  OBVIOUS
<1>1. CASE IssueEvent
  BY <1>1, IssueEventIInv
<1>2. CASE \E v \in Versions :
        Apply(v) \/ Ack(v) \/ FailAttempt(v) \/ LegacySync(v) \/ LegacyLost(v)
  <2>1. PICK v \in Versions :
          Apply(v) \/ Ack(v) \/ FailAttempt(v) \/ LegacySync(v) \/ LegacyLost(v)
    BY <1>2
  <2>2. CASE Apply(v)
    BY <2>2, ApplyAcceptedIInv, ApplyRejectedIInv
  <2>3. CASE Ack(v) \/ FailAttempt(v)
    BY <2>3, DeliveryIInv
  <2>4. CASE LegacySync(v)
    BY <2>4, LegacySyncIInv
  <2>5. CASE LegacyLost(v)
    <3>1. UNCHANGED <<events, receipts, mirror, user, request, raced>>
      BY <2>5 DEF LegacyLost
    <3>2. TypeOK' /\ RetriesLeft'
      BY <2>5 DEF LegacyLost, IInv, TypeOK, RetriesLeft
    <3>3. QED BY <3>1, <3>2, KnowledgeKept
  <2>6. QED BY <2>1, <2>2, <2>3, <2>4, <2>5
<1>3. CASE \E r \in Requests : EnsureCheck(r) \/ EnsureInsert(r) \/ SelectUser(r)
  BY <1>3, EnsureCheckIInv, EnsureInsertIInv, SelectUserIInv
<1>4. CASE UNCHANGED vars
  <2>1. UNCHANGED <<events, receipts, mirror, user, request, raced>>
    BY <1>4 DEF vars
  <2>2. TypeOK' /\ RetriesLeft'
    BY <1>4 DEF vars, IInv, TypeOK, RetriesLeft
  <2>3. QED BY <2>1, <2>2, KnowledgeKept
<1>5. QED BY <1>1, <1>2, <1>3, <1>4 DEF Next

(* The inductive invariant, type correctness included, holds in every state. *)
THEOREM Invariant == Spec => []IInv
<1>1. QED BY InitIInv, NextIInv, PTL DEF Spec

(* process(): no event is attempted more than MaxAttempts times, and every  *)
(* variable has its type.                                                   *)
THEOREM Types == Spec => []TypeOK
<1>1. IInv => TypeOK
  BY DEF IInv
<1>2. QED BY <1>1, Invariant, PTL

(* applyUserLifecycleEvent(): in whatever order and how often the events    *)
(* arrive, the mirror shows the newest applied, or a deletion.              *)
THEOREM MirrorIsNewest == Spec => []MirrorShowsNewest
<1>1. IInv => MirrorShowsNewest
  BY DEF IInv
<1>2. QED BY <1>1, Invariant, PTL

(* An applied block leaves no usable row behind, now or later, unless the   *)
(* row is newer than it or was inserted from an older snapshot.             *)
THEOREM BlocksStick == Spec => []BlockSticks
<1>1. IInv => BlockSticks
  BY DEF IInv
<1>2. QED BY <1>1, Invariant, PTL

(* verify() admits no request against a block that was applied meanwhile. *)
THEOREM AdmissionsHonourBlocks == Spec => AdmissionHonoursBlocks
<1> DEFINE Honours(r) ==
        ~raced /\ request[r].step = "select" /\ request'[r].step = "admitted"
           => \A v \in receipts : Blocks(v) => user.version > v
<1>1. ASSUME IInv, Next, NEW r \in Requests, request[r].step = "select",
             request'[r].step = "admitted"
      PROVE  UserUsable
  <2>1. request \in [Requests -> [step : {"idle", "insert", "select", "admitted"},
                                  token : 0..MaxVersion]]
    BY <1>1 DEF IInv, TypeOK
  <2>2. request' # request
    BY <1>1
  <2>3. ~IssueEvent /\ \A v \in Versions :
           ~(Apply(v) \/ Ack(v) \/ FailAttempt(v) \/ LegacySync(v) \/ LegacyLost(v))
    BY <2>2 DEF IssueEvent, Apply, Ack, FailAttempt, LegacySync, LegacyLost
  <2>4. PICK q \in Requests : EnsureCheck(q) \/ EnsureInsert(q) \/ SelectUser(q)
    BY <1>1, <2>3 DEF Next
  <2>5. CASE EnsureCheck(q)
    BY <1>1, <2>1, <2>5 DEF EnsureCheck
  <2>6. CASE EnsureInsert(q)
    BY <1>1, <2>1, <2>6 DEF EnsureInsert
  <2>7. CASE SelectUser(q)
    BY <1>1, <2>1, <2>7 DEF SelectUser, Idle
  <2>8. QED BY <2>4, <2>5, <2>6, <2>7
<1>2. IInv /\ [Next]_vars => [\A r \in Requests : Honours(r)]_vars
  <2> SUFFICES ASSUME IInv, Next, NEW r \in Requests PROVE Honours(r)
    OBVIOUS
  <2>1. QED BY <1>1 DEF IInv, BlockSticks
<1>3. QED BY <1>2, Invariant, PTL DEF Spec, AdmissionHonoursBlocks

(* Neither the mirror nor the row of a deleted user comes back. *)
THEOREM DeletionIsTerminal == Spec => WithdrawnIsTerminal
<1> DEFINE Terminal ==
        /\ mirror.status = "WITHDRAWN" => mirror' = mirror
        /\ user.present /\ user.lifecycle = "WITHDRAWN"
              => user'.lifecycle = "WITHDRAWN" /\ ~user'.active
<1>1. IInv /\ [Next]_vars => [Terminal]_vars
  <2> SUFFICES ASSUME IInv, Next PROVE Terminal
    OBVIOUS
  <2>1. user \in [present : BOOLEAN, lifecycle : Statuses, active : BOOLEAN,
                  version : 0..MaxVersion]
    BY DEF IInv, TypeOK
  <2>2. mirror.status = "WITHDRAWN" => mirror' = mirror
    BY DEF Next, IssueEvent, Apply, Accepted, Ack, FailAttempt, LegacySync, LegacyLost,
           EnsureCheck, EnsureInsert, SelectUser
  <2>3. ASSUME user.present, user.lifecycle = "WITHDRAWN"
        PROVE  user'.lifecycle = "WITHDRAWN" /\ ~user'.active
    <3>1. mirror.status = "WITHDRAWN" /\ ~user.active
      BY <2>3 DEF IInv, WithdrawnRow
    <3>2. ASSUME NEW r \in Requests, EnsureInsert(r) PROVE user' = user
      BY <2>3, <3>1, <3>2 DEF EnsureInsert, UserEnsured, UserUsable
    <3>3. ASSUME NEW v \in Versions, LegacySync(v) PROVE user' = [user EXCEPT !.active = FALSE]
      BY <3>3 DEF LegacySync
    <3>4. user' = user \/ user' = [user EXCEPT !.active = FALSE]
      BY <3>1, <3>2, <3>3
      DEF Next, IssueEvent, Apply, Accepted, Ack, FailAttempt, LegacyLost, EnsureCheck,
          SelectUser
    <3>5. QED BY <2>1, <2>3, <3>1, <3>4
  <2>4. QED BY <2>2, <2>3
<1>2. QED BY <1>1, Invariant, PTL DEF Spec, WithdrawnIsTerminal

=============================================================================
