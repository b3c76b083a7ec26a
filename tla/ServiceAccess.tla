---------------------------- MODULE ServiceAccess ----------------------------
(***************************************************************************)
(* The access of one subject to the gateway as a service: the events of     *)
(* src/events/userServiceAccessConsumer.ts, the row of                      *)
(* iam_user_service_access_states they maintain, and what looks at it:      *)
(* ensureLocalUser() on every session request, the verification of an MCP   *)
(* token (src/auth/mcpOAuthVerifier.ts), and the API keys that session      *)
(* requests create and a block deactivates.                                 *)
(*                                                                         *)
(* IAM enables the service (version 1), disables or withdraws it (2), and   *)
(* enables it again (3).  The event of version 2 is the one whose delivery, *)
(* failures and session invalidation SessionInvalidation models; all three  *)
(* are applied in any order.                                                *)
(***************************************************************************)
EXTENDS SessionInvalidation

CONSTANTS
    ServiceAccessEnforcementEnabled,    \* of the configuration
    MaxRequests                         \* requests in flight

ASSUME AccessAssumption ==
    ServiceAccessEnforcementEnabled \in BOOLEAN /\ MaxRequests \in Nat \ {0}

VARIABLES
    kind,           \* status of the event of version 2
    issued,         \* version of the last event IAM has issued
    receipts,       \* iam_user_service_access_events, of versions 1 and 3
    row,            \* the state row; version 0: there is none
    version,        \* serviceAccessVersion of each session
    request,        \* how far a request of each session is
    activeKeys,     \* active api_keys rows, by the session that created them
    mcp,            \* verification of an MCP token: how far, on which version
    raced,          \* history: keys inserted after their session lost its access
    overtaken       \* history: the block was recorded after the re-enabling

accessVars == <<kind, issued, receipts, row, version, request,
                activeKeys, mcp, raced, overtaken>>

allVars == <<vars, accessVars>>

Blocking == {"DISABLED", "WITHDRAWN"}

AccessTypeOK ==
    /\ TypeOK
    /\ kind \in Blocking
    /\ issued \in 1..3
    /\ receipts \subseteq {1, 3} /\ \A v \in receipts : v <= issued
    /\ row \in [status : {"ACTIVE"} \cup Blocking, version : 0..issued]
    /\ version \in [Sessions -> {0, 1, 3}]
    /\ request \in [Sessions -> {"none", "resolved", "admitted"}]
    /\ activeKeys \subseteq Sessions
    /\ \A s \in activeKeys : version[s] > 0
    /\ mcp \in [at : {"none", "matched", "admitted"}, version : {0, 1, 3}]
    /\ raced \subseteq Sessions
    /\ overtaken \in BOOLEAN

AccessInit ==
    /\ Init
    /\ kind \in Blocking
    /\ issued = 1
    /\ receipts = {}
    /\ row = [status |-> "ACTIVE", version |-> 0]
    /\ version = [s \in Sessions |-> 0]
    /\ request = [s \in Sessions |-> "none"]
    /\ activeKeys = {}
    /\ mcp = [at |-> "none", version |-> 0]
    /\ raced = {}
    /\ overtaken = FALSE

-----------------------------------------------------------------------------
(* IAM (external) *)

IssueEvent ==
    /\ issued < 3
    /\ issued' = issued + 1
    /\ UNCHANGED <<vars, kind, receipts, row, version, request,
                   activeKeys, mcp, raced, overtaken>>

(* Versions tokens were issued with: none while the access is blocked, and  *)
(* none after a withdrawal                                                  *)
Tokens == {1} \cup (IF issued = 3 /\ kind = "DISABLED" THEN {3} ELSE {})

-----------------------------------------------------------------------------
(* applyUserServiceAccessEvent(): one transaction *)

AppliesUnversioned(v) == row.status # "WITHDRAWN"

AppliesAfterWithdrawal(v) == row.version < v

(* WHERE access_version < EXCLUDED.access_version AND                       *)
(* service_access_status <> 'WITHDRAWN'                                     *)
Applies(v) == row.version < v /\ row.status # "WITHDRAWN"

RowAfter(v, status) ==
    IF Applies(v) THEN [status |-> status, version |-> v] ELSE row

ApplyEnabled(v) ==
    /\ v <= issued /\ v \notin receipts
    /\ receipts' = receipts \cup {v}
    /\ row' = RowAfter(v, "ACTIVE")
    /\ UNCHANGED <<vars, kind, issued, version, request, activeKeys,
                   mcp, raced, overtaken>>

KeysAfterWithdrawal ==
    IF ~receipt /\ Applies(2) /\ kind = "WITHDRAWN" THEN {} ELSE activeKeys

(* UPDATE api_keys SET is_active = FALSE *)
KeysAfterBlock == IF ~receipt /\ Applies(2) THEN {} ELSE activeKeys

ApplyBlock(w) ==
    /\ issued >= 2
    /\ Commit(w, Applies(2))
    /\ row' = IF receipt THEN row ELSE RowAfter(2, kind)
    /\ activeKeys' = KeysAfterBlock
    /\ overtaken' = IF receipt THEN overtaken ELSE row.version = 3
    /\ UNCHANGED <<kind, issued, receipts, version, request, mcp, raced>>

-----------------------------------------------------------------------------
(* The requests of a session *)

(* completeLogin(): the session keeps the version of its token. *)
LogIn(s) ==
    /\ SetSession(s)
    /\ \E v \in Tokens : version' = [version EXCEPT ![s] = v]
    /\ UNCHANGED <<kind, issued, receipts, row, request, activeKeys,
                   mcp, raced, overtaken>>

InFlight == Cardinality({s \in Sessions : request[s] # "none"})
              + (IF mcp.at = "none" THEN 0 ELSE 1)

(* Two of a session's requests differ in nothing that is looked at here. *)
RequestStep(s, from, to) ==
    /\ request[s] = from
    /\ request' = [request EXCEPT ![s] = to]
    /\ UNCHANGED <<vars, kind, issued, receipts, row, version, mcp, overtaken>>

(* sessions.resolve() *)
Resolve(s) ==
    /\ login[s] = "open" /\ s \in alive /\ InFlight < MaxRequests
    /\ RequestStep(s, "none", "resolved")
    /\ UNCHANGED <<activeKeys, raced>>

(* AND NOT EXISTS (... service_access_status <> 'ACTIVE' OR access_version  *)
(* > $8): no row is no objection.                                           *)
Admits(v) == ServiceAccessEnforcementEnabled => row.status = "ACTIVE" /\ row.version <= v

(* ensureLocalUser() *)
EnsureLocalUser(s) ==
    /\ Admits(version[s])
    /\ RequestStep(s, "resolved", "admitted")
    /\ UNCHANGED <<activeKeys, raced>>

(* ApiKeyService.create(), statements later *)
CreateKey(s) ==
    /\ RequestStep(s, "admitted", "none")
    /\ activeKeys' = activeKeys \cup {s}
    /\ raced' = IF Admits(version[s]) THEN raced ELSE raced \cup {s}

(* A refused request, or one of another kind *)
EndRequest(s) ==
    /\ \E from \in {"resolved", "admitted"} : RequestStep(s, from, "none")
    /\ UNCHANGED <<activeKeys, raced>>

(* ApiKeyService.revoke() *)
RevokeKey(s) ==
    /\ s \in activeKeys
    /\ activeKeys' = activeKeys \ {s}
    /\ UNCHANGED <<vars, kind, issued, receipts, row, version, request,
                   mcp, raced, overtaken>>

-----------------------------------------------------------------------------
(* McpOAuthVerifier.verify() *)

(* WHERE ... service_access_status = 'ACTIVE' AND access_version = $4 *)
VerifyMatch(v) == ServiceAccessEnforcementEnabled => row.status = "ACTIVE" /\ row.version = v

McpStep(from, to) ==
    /\ mcp.at = from
    /\ mcp' = to
    /\ UNCHANGED <<vars, kind, issued, receipts, row, version, request,
                   activeKeys, raced, overtaken>>

BeginVerify ==
    \E v \in Tokens :
       /\ VerifyMatch(v) /\ InFlight < MaxRequests
       /\ McpStep("none", [at |-> "matched", version |-> v])

(* Its ensureLocalUser(); the SELECT after it does not look at the access   *)
(* again.                                                                   *)
AdmitToken ==
    /\ Admits(mcp.version)
    /\ McpStep("matched", [mcp EXCEPT !.at = "admitted"])

(* The token is refused, or the request it came with is over. *)
EndVerify ==
    \E from \in {"matched", "admitted"} :
       McpStep(from, [at |-> "none", version |-> 0])

-----------------------------------------------------------------------------
SessionStep(s) ==
    \/ BeginLogin(s) \/ TakeState(s) \/ LoginRefused(s)
    \/ IndexSession(s) \/ LoginFails(s)
    \/ LogoutDelete(s) \/ LogoutUnindex(s) \/ Expire(s)

InvalidationStep(w) ==
    \/ ListSessions(w) \/ DeleteSessions(w) \/ DeleteIndex(w)
    \/ Ack(w) \/ Crash(w) \/ (issued >= 2 /\ Fail(w))

AccessNext ==
    \/ IssueEvent
    \/ \E v \in {1, 3} : ApplyEnabled(v)
    \/ \E w \in Workers :
          ApplyBlock(w) \/ (InvalidationStep(w) /\ UNCHANGED accessVars)
    \/ \E s \in Sessions :
          \/ SessionStep(s) /\ UNCHANGED accessVars
          \/ LogIn(s) \/ Resolve(s) \/ EnsureLocalUser(s) \/ CreateKey(s)
          \/ EndRequest(s) \/ RevokeKey(s)
    \/ BeginVerify \/ AdmitToken \/ EndVerify

AccessSpec == AccessInit /\ [][AccessNext]_allVars

-----------------------------------------------------------------------------
(* Properties *)

(* With enforcement, once the block of version 2 is committed nothing is    *)
(* admitted on an older version: not a session that the invalidation missed *)
(* or has not reached, not an MCP token matched before the commit, and not  *)
(* after the events 1 or 3 arrive late.  An MCP token is not admitted       *)
(* before the event that enabled its version, either.                       *)
OldAccessIsRefused ==
    [][ /\ \A s \in Sessions :
              /\ ServiceAccessEnforcementEnabled /\ receipt
              /\ request[s] # "admitted" /\ request'[s] = "admitted"
              => version[s] > 2
        /\ ServiceAccessEnforcementEnabled /\ mcp.at # "admitted" /\ mcp'.at = "admitted"
           => mcp.version \in receipts /\ (receipt => mcp.version > 2)
      ]_allVars

(* With enforcement, the only active keys that were created on the blocked  *)
(* access are those whose INSERT ran after the block's UPDATE although      *)
(* their request was admitted before it (nothing in create() looks at the   *)
(* access again), and, when the re-enabling was recorded before the block,  *)
(* those of before the block: the block then deactivates nothing.           *)
RevokedKeysStayDead ==
    ServiceAccessEnforcementEnabled /\ receipt =>
       \A s \in activeKeys : version[s] > 2 \/ s \in raced \/ overtaken

(* In whatever order the three events are recorded, the row is that of the  *)
(* newest, except that a withdrawal is final.                               *)
RowFollowsNewest ==
    LET recorded == receipts \cup (IF receipt THEN {2} ELSE {})
        final    == kind = "WITHDRAWN" /\ receipt /\ ~overtaken
    IN  /\ row.version = IF final THEN 2 ELSE CHOOSE v \in recorded \cup {0} :
                                              \A u \in recorded : u <= v
        /\ row.status = IF row.version = 2 THEN kind ELSE "ACTIVE"

=============================================================================
