--------------------------- MODULE GatewayRequest ---------------------------
(***************************************************************************)
(* Tool calls on the registries of RequestRegistry                         *)
(* (server/createGatewayServer.ts, domain/toolAccessPolicy.ts,             *)
(* domain/toolInvocationContext.ts, policy/jevGuardrail.ts,                *)
(* jev/jevVirtualRouter.ts).                                               *)
(*                                                                         *)
(* A call is checked, judged by the guardrail, routed if it was addressed  *)
(* to the smart dispatcher, sent to its upstream and audited; the          *)
(* guardrail, the router and the upstream are awaited, and the reply may   *)
(* close meanwhile.  The patterns of the policy are the sets of names they *)
(* match.                                                                  *)
(***************************************************************************)
EXTENDS RequestRegistry

CONSTANTS
  Calls,
  Allowed,     \* names the operator's patterns allow
  Denied,      \* names they deny
  Granted,     \* names each user's patterns and scopes admit
  Under,       \* names `prefix.*` of each custom upstream matches
  Contract     \* tools under a data contract (agent-tools)

smart == "gateway.smart_dispatch"
Names == Tools \cup {smart}

(* Arguments the sanitizer or the contract refuses, arguments that hold a  *)
(* secret no contract provides for, all others.                            *)
Arguments == {"malformed", "secret", "clean"}
Statuses == {"SUCCESS", "ERROR", "FORBIDDEN", "SECURITY_VIOLATION"}

ASSUME PolicyAssumption ==
  /\ smart \notin Tools
  /\ Granted \in [Users -> SUBSET Names]
  /\ Under \in [Custom -> SUBSET Tools]

VARIABLES
  pc,          \* where each call is
  of,          \* its request
  asked,       \* the name it was addressed to
  target,      \* the tool it is for
  args,        \* its arguments
  judged,      \* history: the guardrail's verdict
  reached,     \* history: calls an upstream has received
  status       \* the status of its audit entry, "none" before it

invocation == <<pc, of, asked, target, args, judged, reached, status>>
vars == <<registry, invocation>>

TypeOK ==
  /\ RegistryTypeOK
  /\ pc \in [Calls -> {"idle", "judge", "route", "call", "done"}]
  /\ of \in [Calls -> Requests]
  /\ asked \in [Calls -> Names]
  /\ target \in [Calls -> Names]
  /\ args \in [Calls -> Arguments]
  /\ judged \in [Calls -> {"no", "passed", "denied"}]
  /\ reached \subseteq Calls
  /\ status \in [Calls -> Statuses \cup {"none"}]
  /\ \A c \in Calls : pc[c] = "done" <=> status[c] # "none"

Init ==
  /\ RegistryInit
  /\ pc = [c \in Calls |-> "idle"]
  /\ of \in [Calls -> Requests]
  /\ asked = [c \in Calls |-> smart]
  /\ target = [c \in Calls |-> smart]
  /\ args = [c \in Calls |-> "clean"]
  /\ judged = [c \in Calls |-> "no"]
  /\ reached = {}
  /\ status = [c \in Calls |-> "none"]

-----------------------------------------------------------------------------
(* ToolAccessPolicy.allows(): a denial wins, then the operator or a custom *)
(* upstream of the request must allow the name and the user's patterns and *)
(* scopes admit it.                                                        *)
Permitted(r, name) ==
  /\ name \notin Denied
  /\ \/ name \in Allowed
     \/ \E u \in kept[r] \cap Custom : name \in Under[u]
  /\ name \in Granted[UserOf[r]]

(* The tools the server of a request registers, and those of them the      *)
(* dispatcher chooses from.                                                *)
Offered(r) ==
  {name \in Tools : /\ \E route \in routes[uses[r]] : route.tool = name
                    /\ Permitted(r, name)}
Candidates(r) == Offered(r) \ Contract

(* ToolInvocationContext.invoke() ends: one entry for AuditLogger.log().   *)
Finish(c, entry) ==
  /\ pc' = [pc EXCEPT ![c] = "done"]
  /\ status' = [status EXCEPT ![c] = entry]

(* The checks of arguments, as the status their errors are audited with:   *)
(* ToolArgumentSanitizer.validate(), ...                                   *)
Sanitizer ==
  [malformed |-> "SECURITY_VIOLATION", secret |-> "none", clean |-> "none"]

(* OutboundSecretLeakGuard.validate(), ...                                 *)
LeakGuard ==
  [malformed |-> "none", secret |-> "SECURITY_VIOLATION", clean |-> "none"]

(* validateAgentToolsArguments(), which has the secrets checked by the     *)
(* guard and whose own errors have neither a code nor a name.              *)
ContractCheck ==
  [malformed |-> "ERROR", secret |-> LeakGuard.secret, clean |-> "none"]

(* A contract replaces the two others, and the dispatcher looks for        *)
(* secrets once it has a target.                                           *)
Refusal(name, a) ==
  IF name \in Contract THEN ContractCheck[a]
  ELSE IF name = smart \/ Sanitizer[a] # "none" THEN Sanitizer[a]
  ELSE LeakGuard[a]

Registered(r, name) ==
  \/ name \in Offered(r)
  \/ name = smart /\ Candidates(r) # {} /\ Permitted(r, smart)

(* A call up to the guardrail.                                             *)
Invoke(c, r, name, a) ==
  /\ pc[c] = "idle" /\ of[c] = r
  /\ stage[r] = "serving"
  /\ Registered(r, name)
  /\ asked' = [asked EXCEPT ![c] = name]
  /\ target' = [target EXCEPT ![c] = name]
  /\ args' = [args EXCEPT ![c] = a]
  /\ IF Refusal(name, a) = "none"
     THEN pc' = [pc EXCEPT ![c] = "judge"] /\ UNCHANGED status
     ELSE Finish(c, Refusal(name, a))
  /\ UNCHANGED <<registry, of, judged, reached>>

(* registry.call(): the connection receives the request, unless its        *)
(* breaker is open or its client is closed, as it is some time after the   *)
(* reply.                                                                  *)
Dispatch(c, tool) ==
  \E route \in routes[uses[of[c]]] :
    /\ route.tool = tool
    /\ \/ /\ route.to \notin Shared => conn[of[c]][route.to] # "closed"
          /\ reached' = reached \cup {c}
          /\ pc' = [pc EXCEPT ![c] = "call"]
          /\ UNCHANGED status
       \/ Finish(c, "ERROR") /\ UNCHANGED reached

(* JevClient.decide(): an answer, or a failure, its own timeout included.  *)
JevAnswers == {"no risk", "risk", "failure"}

Proceed(c) ==
  IF asked[c] = smart
  THEN pc' = [pc EXCEPT ![c] = "route"] /\ UNCHANGED <<reached, status>>
  ELSE Dispatch(c, asked[c])

JudgeFailingOpen(c) ==         \* slip: failOpen covers the violation as well
  /\ pc[c] = "judge"
  /\ \E verdict \in {"passed", "denied"} :
       judged' = [judged EXCEPT ![c] = verdict]
  /\ Proceed(c)
  /\ UNCHANGED <<registry, of, asked, target, args>>

(* JevGuardrail.validate(): without a guardrail, with a low risk and, as   *)
(* failOpen is set, when Jev fails, the call proceeds.                     *)
Judge(c) ==
  /\ pc[c] = "judge"
  /\ \E answer \in JevAnswers :
       \/ /\ answer # "risk"
          /\ judged' = [judged EXCEPT ![c] = "passed"]
          /\ Proceed(c)
       \/ /\ answer = "risk"
          /\ judged' = [judged EXCEPT ![c] = "denied"]
          /\ Finish(c, "FORBIDDEN")
          /\ UNCHANGED reached
  /\ UNCHANGED <<registry, of, asked, target, args>>

(* JevVirtualRouter.route(): the only candidate, the one Jev chooses, or    *)
(* the first if Jev fails or chooses none of them; their order is not      *)
(* modelled.                                                               *)
Decisions(r) == Candidates(r)

(* The dispatcher checks the target, then the secrets.                     *)
Route(c) ==
  /\ pc[c] = "route"
  /\ \E tool \in Decisions(of[c]) :
       /\ target' = [target EXCEPT ![c] = tool]
       /\ IF ~Permitted(of[c], tool)
          THEN Finish(c, "FORBIDDEN") /\ UNCHANGED reached
          ELSE IF LeakGuard[args[c]] # "none"
          THEN Finish(c, LeakGuard[args[c]]) /\ UNCHANGED reached
          ELSE Dispatch(c, tool)
  /\ UNCHANGED <<registry, of, asked, args, judged>>

SettleUnwrapped(c) ==          \* slip: the upstream's error is thrown as it is
  /\ pc[c] = "call"
  /\ \E entry \in Statuses : Finish(c, entry)
  /\ UNCHANGED <<registry, of, asked, target, args, judged, reached>>

(* The upstream answers, fails or times out.  Of its errors only message   *)
(* and statusCode survive: a 403 of its own is audited as FORBIDDEN.       *)
Settle(c) ==
  /\ pc[c] = "call"
  /\ \E entry \in {"SUCCESS", "ERROR", "FORBIDDEN"} : Finish(c, entry)
  /\ UNCHANGED <<registry, of, asked, target, args, judged, reached>>

Next ==
  \/ RegistryNext /\ UNCHANGED invocation
  \/ \E c \in Calls :
       \/ \E r \in Requests, name \in Names, a \in Arguments :
            Invoke(c, r, name, a)
       \/ Judge(c)
       \/ Route(c)
       \/ Settle(c)

Spec == Init /\ [][Next]_vars

-----------------------------------------------------------------------------
(* What an upstream receives has passed every check, whatever happened     *)
(* while the guardrail and the router were awaited: the arguments, the     *)
(* guardrail, the policy for the tool itself and, if it was dispatched,    *)
(* for the dispatcher, which never picks a tool under a data contract.     *)
OnlyCheckedCallsReach ==
  \A c \in reached :
    /\ args[c] = "clean" /\ judged[c] = "passed"
    /\ Permitted(of[c], target[c])
    /\ asked[c] = smart => /\ Permitted(of[c], smart)
                           /\ target[c] \notin Contract
    /\ \E route \in routes[uses[of[c]]] : route.tool = target[c]

(* The audit trail tells what happened: success means an upstream had the  *)
(* call, a security violation that none had and the arguments were bad,    *)
(* and FORBIDDEN without an upstream that the guardrail denied it.  A      *)
(* denial is never audited as anything else.                               *)
AuditTellsTheTruth ==
  \A c \in Calls :
    /\ status[c] = "SUCCESS" => c \in reached
    /\ status[c] = "SECURITY_VIOLATION" => c \notin reached /\ args[c] # "clean"
    /\ status[c] = "FORBIDDEN" => c \in reached \/ judged[c] = "denied"
    /\ judged[c] = "denied" => status[c] = "FORBIDDEN"
=============================================================================
