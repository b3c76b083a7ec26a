------------------------ MODULE GatewayRequestProofs ------------------------
(***************************************************************************)
(* Proofs about RequestRegistry and GatewayRequest, for every set of       *)
(* requests, calls, users and upstreams and every policy: which            *)
(* connections may outlive their request, that registries stay private,    *)
(* what may reach an upstream and what the audit trail says of it.         *)
(*                                                                         *)
(* And about CircuitBreaker, which each static upstream of the registries  *)
(* has around its calls, for every set of calls and every value of the     *)
(* three options.  The two share no state.                                 *)
(***************************************************************************)
EXTENDS GatewayRequest, CircuitBreaker, FiniteSetTheorems, TLAPS

InUse(r) == kept[r] \cup (IF at[r] = "none" THEN {} ELSE {at[r]})

(* The connections that are open are those the request keeps and the one   *)
(* it is about to route, unless it awaits its close(), until it ends.      *)
OpenIsInUse ==
  \A r \in Requests :
    /\ stage[r] \in {"idle", "building", "serving"} =>
         /\ Open(r) = IF AwaitsClose(r) THEN kept[r] ELSE InUse(r)
         /\ kept[r] \cap todo[r] = {}
         /\ at[r] # "none" => at[r] \in todo[r]
    /\ stage[r] \in {"idle", "building"} => reason[r] = "none"
    /\ stage[r] = "serving" => at[r] = "none" /\ (~gone[r] => reason[r] = "none")
    /\ stage[r] = "idle" => kept[r] = {} /\ at[r] = "none"

(* A request that has upstreams to connect to writes to its own registry.  *)
OwnRegistry ==
  /\ routes["shared"] = SharedRoutes
  /\ \A r \in Requests :
       /\ uses[r] \in {r, "shared"}
       /\ stage[r] = "building" /\ todo[r] # {} => uses[r] = r
       /\ \A u \in todo[r] \cap Custom : OwnerOf[u] = UserOf[r]

RegistryInv ==
  RegistryTypeOK /\ OpenIsInUse /\ ConnectionsAreClosed /\ OwnRegistry
  /\ RoutesArePrivate

(* Shared routes lead to shared upstreams and have one name each.          *)
LEMMA SharedRoutesAreFunctional ==
  /\ SharedRoutes \subseteq [tool : Tools, to : Upstreams]
  /\ \A route \in SharedRoutes : route.to \in Shared
  /\ \A a, b \in SharedRoutes : a.tool = b.tool => a = b
<1>1. \A route \in SharedRoutes :
        \E u \in Shared : route = [tool |-> route.tool, to |-> u]
                          /\ route.tool \in ToolsOf[u]
  BY SMT DEF SharedRoutes, Routes
<1>2. \A route \in SharedRoutes :
        /\ route = [tool |-> route.tool, to |-> route.to]
        /\ route.to \in Shared /\ route.tool \in ToolsOf[route.to]
  BY <1>1, SMT
<1>3. SharedRoutes \subseteq [tool : Tools, to : Upstreams]
  BY <1>2, SMT DEF Tools, Upstreams
<1>4. \A a, b \in SharedRoutes : a.tool = b.tool => a.to = b.to
  BY <1>2, SharedToolsDiffer, SMT
<1>5. QED BY <1>2, <1>3, <1>4, SMT

(* Nothing is open and nobody has a registry of their own.                 *)
LEMMA InitRegistry == RegistryInit => RegistryInv
<1> SUFFICES ASSUME RegistryInit PROVE RegistryInv OBVIOUS
<1>1. ProgressTypeOK /\ ConnectionsTypeOK
  BY SMT
     DEF RegistryInit, ProgressTypeOK, ConnectionsTypeOK, ConnectionStates
<1>2. /\ routes["shared"] = SharedRoutes
      /\ \A r \in Requests : routes[r] = {}
      /\ \A r \in Requests : uses[r] = "shared" /\ todo[r] = {}
  BY UpstreamsAssumption, SMT DEF RegistryInit
<1>3. RoutesTypeOK
  BY SharedRoutesAreFunctional, SMT DEF RegistryInit, RoutesTypeOK
<1>4. OpenIsInUse /\ ConnectionsAreClosed
  BY SMT DEF RegistryInit, OpenIsInUse, ConnectionsAreClosed, Open, InUse
<1>5. OwnRegistry
  BY <1>2 DEF OwnRegistry
<1>6. RoutesArePrivate
  BY <1>2, SharedRoutesAreFunctional DEF RoutesArePrivate
<1>7. QED
  BY <1>1, <1>3, <1>4, <1>5, <1>6 DEF RegistryInv, RegistryTypeOK

-----------------------------------------------------------------------------
(* Steps of the registry: one lemma per action.                            *)

(* One connection changes its state.                                       *)
LEMMA OneConnectionChanges ==
    ASSUME ConnectionsTypeOK, NEW r \in Requests,
           NEW u \in Delegated \cup Custom, NEW s \in ConnectionStates,
           conn' = [conn EXCEPT ![r][u] = s], kept' = kept
    PROVE  ConnectionsTypeOK'
<1>1. [conn[r] EXCEPT ![u] = s] \in
        [Delegated \cup Custom -> ConnectionStates]
  BY DEF ConnectionsTypeOK
<1>2. QED BY <1>1 DEF ConnectionsTypeOK

(* build() closes what it has recorded, or nothing.                        *)
LEMMA KeptConnectionsClose ==
    ASSUME ConnectionsTypeOK, NEW r \in Requests, CloseKept(r) \/ UNCHANGED conn,
           UNCHANGED kept
    PROVE  ConnectionsTypeOK'
<1>1. CASE CloseKept(r)
  BY <1>1 DEF ConnectionsTypeOK, CloseKept, ConnectionStates
<1>2. CASE UNCHANGED conn BY <1>2 DEF ConnectionsTypeOK
<1>3. QED BY <1>1, <1>2

LEMMA BuildKeeps ==
    ASSUME RegistryInv, NEW r \in Requests, NEW enabled \in SUBSET Custom,
           Build(r, enabled), UNCHANGED delegated
    PROVE  RegistryInv'
<1> USE DEF RegistryInv, RegistryTypeOK
<1>1. ProgressTypeOK' BY SMT DEF ProgressTypeOK, RoutesTypeOK, Build
<1>2. ConnectionsTypeOK' BY DEF ConnectionsTypeOK, Build
<1>3. RoutesTypeOK' BY SMT DEF RoutesTypeOK, Build
<1>4. OpenIsInUse'
  BY SMT DEF ProgressTypeOK, ConnectionsTypeOK, OpenIsInUse, Open, InUse, AwaitsClose, Build
<1>5. ConnectionsAreClosed'
  BY SMT
     DEF ProgressTypeOK, ConnectionsTypeOK, ConnectionsAreClosed, OpenIsInUse,
         Open, InUse, AwaitsClose, Build
<1>6. /\ routes'["shared"] = SharedRoutes
      /\ routes'[r] = routes[r] \/ routes'[r] = SharedRoutes
      /\ \A q \in Requests : q # r => routes'[q] = routes[q]
  BY UpstreamsAssumption, SMT DEF RoutesTypeOK, OwnRegistry, Build
<1>7. OwnRegistry'
  BY <1>6, UpstreamsAssumption, SMT
     DEF ProgressTypeOK, RoutesTypeOK, OwnRegistry, Build
<1>8. RoutesArePrivate'
  <2>1. kept' = kept BY DEF Build
  <2>2. QED BY <1>6, <2>1, SharedRoutesAreFunctional, SMT DEF RoutesArePrivate
<1>9. QED BY <1>1, <1>2, <1>3, <1>4, <1>5, <1>7, <1>8

LEMMA ConnectKeeps ==
    ASSUME RegistryInv, NEW r \in Requests, NEW u \in Delegated \cup Custom,
           Connect(r, u), UNCHANGED delegated
    PROVE  RegistryInv'
<1> USE DEF RegistryInv, RegistryTypeOK, Connect, NextUp
<1>1. ProgressTypeOK' BY SMT DEF ProgressTypeOK
<1>2. ConnectionsTypeOK' BY OneConnectionChanges DEF ConnectionStates
<1>3. RoutesTypeOK' BY SMT DEF RoutesTypeOK
<1>4. OpenIsInUse'
  BY UpstreamsAssumption, SMT
     DEF ProgressTypeOK, ConnectionsTypeOK, OpenIsInUse, Open, InUse, AwaitsClose,
         Upstreams
<1>5. ConnectionsAreClosed'
  BY SMT DEF ProgressTypeOK, ConnectionsTypeOK, ConnectionsAreClosed, Open
<1>6. OwnRegistry' /\ RoutesArePrivate'
  BY SMT DEF OwnRegistry, RoutesArePrivate
<1>7. QED BY <1>1, <1>2, <1>3, <1>4, <1>5, <1>6

LEMMA ConnectFailsKeeps ==
    ASSUME RegistryInv, NEW r \in Requests, NEW u \in Delegated \cup Custom,
           ConnectFails(r, u), UNCHANGED delegated
    PROVE  RegistryInv'
<1> USE DEF RegistryInv, RegistryTypeOK, ConnectFails, NextUp, CloseKept
<1>1. ProgressTypeOK' BY SMT DEF ProgressTypeOK
<1>2. ConnectionsTypeOK' BY KeptConnectionsClose
<1>3. RoutesTypeOK' BY SMT DEF RoutesTypeOK
<1>4. OpenIsInUse'
  BY SMT DEF ProgressTypeOK, ConnectionsTypeOK, OpenIsInUse, Open, InUse, AwaitsClose
<1>5. ConnectionsAreClosed'
  BY SMT DEF ProgressTypeOK, ConnectionsTypeOK, ConnectionsAreClosed, Open,
             OpenIsInUse, InUse
<1>6. OwnRegistry'
  BY SMT DEF ProgressTypeOK, RoutesTypeOK, OwnRegistry
<1>7. RoutesArePrivate' BY SMT DEF RoutesArePrivate
<1>8. QED BY <1>1, <1>2, <1>3, <1>4, <1>5, <1>6, <1>7

(* The routes of a new connection: no name is taken twice.                 *)
LEMMA NewRoutesAreFunctional ==
    ASSUME NEW g, NEW u, ~Routed(g, u),
           \A a, b \in routes[g] : a.tool = b.tool => a = b
    PROVE  \A a, b \in routes[g] \cup Routes(u) : a.tool = b.tool => a = b
<1>1. \A a \in Routes(u) : a = [tool |-> a.tool, to |-> u] /\ a.tool \in ToolsOf[u]
  BY DEF Routes
<1>2. \A a \in routes[g] : a.tool \notin ToolsOf[u] BY DEF Routed
<1>3. QED BY <1>1, <1>2, SMT

LEMMA AddRouteKeeps ==
    ASSUME RegistryInv, NEW r \in Requests, AddRoute(r), UNCHANGED delegated
    PROVE  RegistryInv'
<1> DEFINE u == at[r]
<1> USE DEF RegistryInv, RegistryTypeOK
<1>1. /\ stage[r] = "building" /\ u \in todo[r] /\ u \in Delegated \cup Custom
      /\ uses[r] = r /\ ~Routed(r, u)
      /\ u \in Custom => OwnerOf[u] = UserOf[r]
  BY SMT DEF AddRoute, OpenIsInUse, OwnRegistry, ProgressTypeOK
<1>2. /\ routes' = [routes EXCEPT ![r] = @ \cup Routes(u)]
      /\ kept' = [kept EXCEPT ![r] = @ \cup {u}]
      /\ todo' = [todo EXCEPT ![r] = @ \ {u}]
      /\ at' = [at EXCEPT ![r] = "none"]
      /\ UNCHANGED <<delegated, stage, conn, uses, gone, reason>>
  BY <1>1, SMT DEF AddRoute
<1>2a. conn[r][u] = "open" BY DEF AddRoute
<1>3. Routes(u) \subseteq [tool : Tools, to : Upstreams]
      /\ \A route \in Routes(u) : route.to = u
  BY <1>1, SMT DEF Routes, Tools, Upstreams
<1>4. ProgressTypeOK' /\ ConnectionsTypeOK'
  <2>1. ProgressTypeOK' BY <1>1, <1>2, SMT DEF ProgressTypeOK
  <2>2. kept' \in [Requests -> SUBSET (Delegated \cup Custom)]
    BY <1>1, <1>2, SMT DEF ConnectionsTypeOK
  <2>3. QED BY <1>2, <2>1, <2>2 DEF ConnectionsTypeOK
<1>5. /\ DOMAIN routes' = Requests \cup {"shared"}
      /\ routes'["shared"] = routes["shared"]
      /\ \A g \in Requests : routes'[g] = IF g = r THEN routes[r] \cup Routes(u)
                                         ELSE routes[g]
  BY <1>2, UpstreamsAssumption, SMT DEF RoutesTypeOK
<1>6. RoutesTypeOK'
  <2>1. routes[r] \cup Routes(u) \in SUBSET [tool : Tools, to : Upstreams]
    BY <1>3 DEF RoutesTypeOK
  <2>2. routes' \in [Requests \cup {"shared"} ->
                     SUBSET [tool : Tools, to : Upstreams]]
    BY <1>2, <2>1 DEF RoutesTypeOK
  <2>3. QED BY <1>2, <2>2 DEF RoutesTypeOK
<1>7. OpenIsInUse'
  BY <1>1, <1>2, <1>2a, UpstreamsAssumption, SMT
     DEF ProgressTypeOK, ConnectionsTypeOK, OpenIsInUse, Open, InUse, AwaitsClose,
         Upstreams
<1>8. ConnectionsAreClosed'
  BY <1>1, <1>2, <1>2a, SMT
     DEF ProgressTypeOK, ConnectionsTypeOK, ConnectionsAreClosed, Open
<1>9. OwnRegistry'
  BY <1>1, <1>2, <1>5, SMT DEF ProgressTypeOK, OwnRegistry
<1>10. RoutesArePrivate'
  <2>1. \A q \in Requests : kept[q] \subseteq kept'[q] /\ u \in kept'[r]
    BY <1>2, SMT DEF ConnectionsTypeOK
  <2>2. \A q \in Requests : \A route \in routes'[q] :
          \/ route.to \in Shared
          \/ /\ route.to \in kept'[q]
             /\ route.to \in Custom => OwnerOf[route.to] = UserOf[q]
    BY <1>1, <1>3, <1>5, <2>1, SMT DEF RoutesArePrivate
  <2>3. \A a, b \in routes[r] \cup Routes(u) : a.tool = b.tool => a = b
    BY <1>1, NewRoutesAreFunctional DEF RoutesArePrivate
  <2>4. \A g \in Requests \cup {"shared"} : \A a, b \in routes'[g] :
          a.tool = b.tool => a = b
    BY <1>5, <2>3 DEF RoutesArePrivate
  <2>5. QED BY <1>5, <2>2, <2>4 DEF RoutesArePrivate
<1>11. QED BY <1>4, <1>6, <1>7, <1>8, <1>9, <1>10

LEMMA DelegatedRouteFailsKeeps ==
    ASSUME RegistryInv, NEW r \in Requests, DelegatedRouteFails(r), UNCHANGED delegated
    PROVE  RegistryInv'
<1> USE DEF RegistryInv, RegistryTypeOK, DelegatedRouteFails, CloseKept
<1>1. ProgressTypeOK' BY SMT DEF ProgressTypeOK
<1>2. ConnectionsTypeOK' BY KeptConnectionsClose
<1>3. RoutesTypeOK' BY SMT DEF RoutesTypeOK
<1>4. OpenIsInUse'
  BY UpstreamsAssumption, SMT
     DEF ProgressTypeOK, ConnectionsTypeOK, OpenIsInUse, Open, InUse, AwaitsClose,
         Upstreams
<1>5. ConnectionsAreClosed'
  BY UpstreamsAssumption, SMT
     DEF ProgressTypeOK, ConnectionsTypeOK, ConnectionsAreClosed, Open,
         OpenIsInUse, InUse, AwaitsClose, Upstreams
<1>6. OwnRegistry' BY SMT DEF ProgressTypeOK, RoutesTypeOK, OwnRegistry
<1>7. RoutesArePrivate' BY SMT DEF RoutesArePrivate
<1>8. QED BY <1>1, <1>2, <1>3, <1>4, <1>5, <1>6, <1>7

LEMMA CustomRouteFailsKeeps ==
    ASSUME RegistryInv, NEW r \in Requests, CustomRouteFails(r), UNCHANGED delegated
    PROVE  RegistryInv'
<1> USE DEF RegistryInv, RegistryTypeOK, CustomRouteFails
<1>1. ProgressTypeOK' BY SMT DEF ProgressTypeOK
<1>2. ConnectionsTypeOK' BY OneConnectionChanges DEF ConnectionStates
<1>3. RoutesTypeOK' BY SMT DEF RoutesTypeOK
<1>4. OpenIsInUse'
  BY UpstreamsAssumption, SMT
     DEF ProgressTypeOK, ConnectionsTypeOK, OpenIsInUse, Open, InUse, AwaitsClose,
         Upstreams
<1>5. ConnectionsAreClosed'
  BY UpstreamsAssumption, SMT
     DEF ProgressTypeOK, ConnectionsTypeOK, ConnectionsAreClosed, Open,
         OpenIsInUse, InUse, AwaitsClose, Upstreams
<1>6. OwnRegistry' BY SMT DEF ProgressTypeOK, RoutesTypeOK, OwnRegistry
<1>7. RoutesArePrivate' BY SMT DEF RoutesArePrivate
<1>8. QED BY <1>1, <1>2, <1>3, <1>4, <1>5, <1>6, <1>7

LEMMA CustomClosesKeeps ==
    ASSUME RegistryInv, NEW r \in Requests, CustomCloses(r), UNCHANGED delegated
    PROVE  RegistryInv'
<1> USE DEF RegistryInv, RegistryTypeOK, CustomCloses, AwaitsClose
<1>1. ProgressTypeOK' BY SMT DEF ProgressTypeOK
<1>2. ConnectionsTypeOK' BY OneConnectionChanges DEF ConnectionStates
<1>3. RoutesTypeOK' BY SMT DEF RoutesTypeOK
<1>4. OpenIsInUse'
  BY UpstreamsAssumption, SMT
     DEF ProgressTypeOK, ConnectionsTypeOK, OpenIsInUse, Open, InUse, Upstreams
<1>5. ConnectionsAreClosed'
  BY UpstreamsAssumption, SMT
     DEF ProgressTypeOK, ConnectionsTypeOK, ConnectionsAreClosed, Open,
         OpenIsInUse, InUse, Upstreams
<1>6. OwnRegistry' BY SMT DEF ProgressTypeOK, RoutesTypeOK, OwnRegistry
<1>7. RoutesArePrivate' BY SMT DEF RoutesArePrivate
<1>8. QED BY <1>1, <1>2, <1>3, <1>4, <1>5, <1>6, <1>7

LEMMA CustomCloseThrowsKeeps ==
    ASSUME RegistryInv, NEW r \in Requests, CustomCloseThrows(r), UNCHANGED delegated
    PROVE  RegistryInv'
<1> USE DEF RegistryInv, RegistryTypeOK, CustomCloseThrows, AwaitsClose
<1>1. ProgressTypeOK' BY SMT DEF ProgressTypeOK
<1>2. ConnectionsTypeOK' BY OneConnectionChanges DEF ConnectionStates
<1>3. RoutesTypeOK' BY SMT DEF RoutesTypeOK
<1>4. OpenIsInUse'
  BY UpstreamsAssumption, SMT
     DEF ProgressTypeOK, ConnectionsTypeOK, OpenIsInUse, Open, InUse, Upstreams
<1>5. ConnectionsAreClosed'
  BY UpstreamsAssumption, SMT
     DEF ProgressTypeOK, ConnectionsTypeOK, ConnectionsAreClosed, Open,
         OpenIsInUse, InUse, Upstreams
<1>6. OwnRegistry' BY SMT DEF ProgressTypeOK, RoutesTypeOK, OwnRegistry
<1>7. RoutesArePrivate' BY SMT DEF RoutesArePrivate
<1>8. QED BY <1>1, <1>2, <1>3, <1>4, <1>5, <1>6, <1>7

(* What a close() leaves behind was not open before.                       *)
LEMMA KeptClosesKeeps ==
    ASSUME RegistryInv, NEW r \in Requests, NEW u \in Delegated \cup Custom,
           KeptCloses(r, u), UNCHANGED delegated
    PROVE  RegistryInv'
<1> USE DEF RegistryInv, RegistryTypeOK, KeptCloses
<1>1. ProgressTypeOK' BY SMT DEF ProgressTypeOK
<1>2. ConnectionsTypeOK' BY OneConnectionChanges DEF ConnectionStates
<1>3. RoutesTypeOK' BY SMT DEF RoutesTypeOK
<1>4. \A q \in Requests :
        /\ Open(q)' = Open(q)
        /\ stage[q] = "building" => AwaitsClose(q)' = AwaitsClose(q)
  <2>1. \A q \in Requests : Open(q)' = Open(q)
    BY SMT DEF ConnectionsTypeOK, Open
  <2>2. stage[r] # "building"
    BY SMT DEF ConnectionsTypeOK, ConnectionsAreClosed, Open
  <2>3. \A q \in Requests : q # r => conn'[q] = conn[q]
    BY SMT DEF ConnectionsTypeOK
  <2>4. QED BY <2>1, <2>2, <2>3 DEF AwaitsClose
<1>5. OpenIsInUse'
  BY <1>4, SMT DEF ProgressTypeOK, OpenIsInUse, InUse, AwaitsClose
<1>6. ConnectionsAreClosed' BY <1>4, SMT DEF ConnectionsAreClosed
<1>7. OwnRegistry' BY SMT DEF ProgressTypeOK, RoutesTypeOK, OwnRegistry
<1>8. RoutesArePrivate' BY SMT DEF RoutesArePrivate
<1>9. QED BY <1>1, <1>2, <1>3, <1>5, <1>6, <1>7, <1>8

LEMMA ServeKeeps ==
    ASSUME RegistryInv, NEW r \in Requests, Serve(r), UNCHANGED delegated
    PROVE  RegistryInv'
<1> USE DEF RegistryInv, RegistryTypeOK, Serve, Built
<1>1. ProgressTypeOK' BY SMT DEF ProgressTypeOK
<1>2. ConnectionsTypeOK' BY DEF ConnectionsTypeOK
<1>3. RoutesTypeOK' BY SMT DEF RoutesTypeOK
<1>4. OpenIsInUse'
  BY UpstreamsAssumption, SMT
     DEF ProgressTypeOK, ConnectionsTypeOK, OpenIsInUse, Open, InUse, AwaitsClose,
         Upstreams
<1>5. ConnectionsAreClosed'
  BY UpstreamsAssumption, SMT
     DEF ProgressTypeOK, ConnectionsTypeOK, ConnectionsAreClosed, Open,
         OpenIsInUse, InUse, AwaitsClose, Upstreams
<1>6. OwnRegistry' BY SMT DEF ProgressTypeOK, RoutesTypeOK, OwnRegistry
<1>7. RoutesArePrivate' BY SMT DEF RoutesArePrivate
<1>8. QED BY <1>1, <1>2, <1>3, <1>4, <1>5, <1>6, <1>7

LEMMA ServeFailsKeeps ==
    ASSUME RegistryInv, NEW r \in Requests, ServeFails(r), UNCHANGED delegated
    PROVE  RegistryInv'
<1> USE DEF RegistryInv, RegistryTypeOK, ServeFails, Built
<1>1. ProgressTypeOK' BY SMT DEF ProgressTypeOK
<1>2. ConnectionsTypeOK' BY DEF ConnectionsTypeOK
<1>3. RoutesTypeOK' BY SMT DEF RoutesTypeOK
<1>4. OpenIsInUse'
  BY UpstreamsAssumption, SMT
     DEF ProgressTypeOK, ConnectionsTypeOK, OpenIsInUse, Open, InUse, AwaitsClose,
         Upstreams
<1>5. ConnectionsAreClosed'
  BY UpstreamsAssumption, SMT
     DEF ProgressTypeOK, ConnectionsTypeOK, ConnectionsAreClosed, Open,
         OpenIsInUse, InUse, AwaitsClose, Upstreams
<1>6. OwnRegistry' BY SMT DEF ProgressTypeOK, RoutesTypeOK, OwnRegistry
<1>7. RoutesArePrivate' BY SMT DEF RoutesArePrivate
<1>8. QED BY <1>1, <1>2, <1>3, <1>4, <1>5, <1>6, <1>7

LEMMA ReplyClosesKeeps ==
    ASSUME RegistryInv, NEW r \in Requests, ReplyCloses(r), UNCHANGED delegated
    PROVE  RegistryInv'
<1> USE DEF RegistryInv, RegistryTypeOK, ReplyCloses, CloseKept
<1>1. ProgressTypeOK' BY SMT DEF ProgressTypeOK
<1>2. ConnectionsTypeOK' BY KeptConnectionsClose
<1>3. RoutesTypeOK' BY SMT DEF RoutesTypeOK
<1>4. OpenIsInUse'
  BY UpstreamsAssumption, SMT
     DEF ProgressTypeOK, ConnectionsTypeOK, OpenIsInUse, Open, InUse, AwaitsClose,
         Upstreams
<1>5. ConnectionsAreClosed'
  BY UpstreamsAssumption, SMT
     DEF ProgressTypeOK, ConnectionsTypeOK, ConnectionsAreClosed, Open,
         OpenIsInUse, InUse, AwaitsClose, Upstreams
<1>6. OwnRegistry' BY SMT DEF ProgressTypeOK, RoutesTypeOK, OwnRegistry
<1>7. RoutesArePrivate' BY SMT DEF RoutesArePrivate
<1>8. QED BY <1>1, <1>2, <1>3, <1>4, <1>5, <1>6, <1>7

LEMMA RegistryStep == RegistryInv /\ RegistryNext => RegistryInv'
<1> SUFFICES ASSUME RegistryInv, RegistryNext PROVE RegistryInv' OBVIOUS
<1>1. UNCHANGED delegated BY DEF RegistryNext
<1>2. PICK r \in Requests :
        \/ \E enabled \in SUBSET Custom : Build(r, enabled)
        \/ \E u \in Delegated \cup Custom :
             Connect(r, u) \/ ConnectFails(r, u) \/ KeptCloses(r, u)
        \/ AddRoute(r)
        \/ DelegatedRouteFails(r) \/ CustomRouteFails(r)
        \/ CustomCloses(r) \/ CustomCloseThrows(r)
        \/ Serve(r) \/ ServeFails(r) \/ ReplyCloses(r)
  BY DEF RegistryNext
<1>3. QED
  BY <1>1, <1>2, BuildKeeps, ConnectKeeps, ConnectFailsKeeps, AddRouteKeeps,
     DelegatedRouteFailsKeeps, CustomRouteFailsKeeps, CustomClosesKeeps,
     CustomCloseThrowsKeeps, KeptClosesKeeps, ServeKeeps, ServeFailsKeeps,
     ReplyClosesKeeps
-----------------------------------------------------------------------------
(* Calls.                                                                  *)

(* A call belongs to a request that has been served, and stands where the  *)
(* checks behind it have let it get.                                       *)
CallsInOrder ==
  \A c \in Calls :
    /\ pc[c] # "idle" => stage[of[c]] \in {"serving", "over"}
    /\ pc[c] \in {"idle", "judge"} => judged[c] = "no"
    /\ pc[c] \in {"idle", "judge", "route"} => c \notin reached
    /\ pc[c] \in {"judge", "route"} => Permitted(of[c], asked[c])
    /\ pc[c] = "judge" =>
         /\ target[c] = asked[c]
         /\ asked[c] # smart =>
              /\ args[c] = "clean"
              /\ \E route \in routes[uses[of[c]]] : route.tool = asked[c]
    /\ pc[c] \in {"judge", "route"} => args[c] \in {"clean", "secret"}
    /\ pc[c] = "route" => judged[c] = "passed" /\ asked[c] = smart
    /\ pc[c] = "call" => judged[c] = "passed" /\ c \in reached

Inv ==
  /\ TypeOK /\ RegistryInv /\ CallsInOrder
  /\ OnlyCheckedCallsReach /\ AuditTellsTheTruth

(* Once a request is served neither its registry nor the connections it    *)
(* keeps change any more: others write to registries of their own.         *)
LEMMA ServedRequestsAreSettled ==
    ASSUME RegistryInv, RegistryNext, NEW r \in Requests,
           stage[r] \in {"serving", "over"}
    PROVE  /\ stage'[r] \in {"serving", "over"}
           /\ kept'[r] = kept[r] /\ uses'[r] = uses[r]
           /\ routes'[uses'[r]] = routes[uses[r]]
<1> USE DEF RegistryInv, RegistryTypeOK
<1>0. r # "shared" /\ uses[r] \in {r, "shared"}
  BY UpstreamsAssumption DEF OwnRegistry
<1>1. PICK q \in Requests :
        \/ \E enabled \in SUBSET Custom : Build(q, enabled)
        \/ \E u \in Delegated \cup Custom :
             Connect(q, u) \/ ConnectFails(q, u) \/ KeptCloses(q, u)
        \/ AddRoute(q)
        \/ DelegatedRouteFails(q) \/ CustomRouteFails(q)
        \/ CustomCloses(q) \/ CustomCloseThrows(q)
        \/ Serve(q) \/ ServeFails(q) \/ ReplyCloses(q)
  BY DEF RegistryNext
<1>2. CASE \E enabled \in SUBSET Custom : Build(q, enabled)
  BY <1>0, <1>2, UpstreamsAssumption, SMT
     DEF ProgressTypeOK, RoutesTypeOK, Build
<1>3. CASE AddRoute(q)
  <2>1. q # r /\ uses[q] = q
    BY <1>3, SMT DEF AddRoute, OpenIsInUse, OwnRegistry
  <2>2. QED
    BY <1>0, <1>3, <2>1, UpstreamsAssumption, SMT
       DEF ProgressTypeOK, ConnectionsTypeOK, RoutesTypeOK, AddRoute
<1>4. CASE \E u \in Delegated \cup Custom :
             Connect(q, u) \/ ConnectFails(q, u) \/ KeptCloses(q, u)
  BY <1>4, SMT DEF ProgressTypeOK, Connect, ConnectFails, KeptCloses, NextUp
<1>5. CASE \/ DelegatedRouteFails(q) \/ CustomRouteFails(q)
           \/ CustomCloses(q) \/ CustomCloseThrows(q)
  BY <1>5, SMT
     DEF ProgressTypeOK, DelegatedRouteFails, CustomRouteFails, CustomCloses,
         CustomCloseThrows, AwaitsClose
<1>6. CASE Serve(q) \/ ServeFails(q) \/ ReplyCloses(q)
  BY <1>6, SMT DEF ProgressTypeOK, Serve, ServeFails, Built, ReplyCloses
<1>7. QED BY <1>1, <1>2, <1>3, <1>4, <1>5, <1>6

(* Steps of the registry leave the calls as they were.                     *)
LEMMA RegistryStepKeepsCalls ==
    ASSUME Inv, RegistryNext, UNCHANGED invocation
    PROVE  Inv'
<1>1. RegistryInv' BY RegistryStep DEF Inv
<1>2. TypeOK'
  BY <1>1 DEF Inv, RegistryInv, TypeOK, invocation
<1>3. \A c \in Calls : of[c] \in Requests BY DEF Inv, TypeOK
<1>4. \A c \in Calls : stage[of[c]] \in {"serving", "over"} =>
        /\ stage'[of[c]] \in {"serving", "over"}
        /\ kept'[of[c]] = kept[of[c]]
        /\ routes'[uses'[of[c]]] = routes[uses[of[c]]]
  BY <1>3, ServedRequestsAreSettled DEF Inv
<1>5. CallsInOrder'
  BY <1>4, SMT DEF Inv, CallsInOrder, invocation, Permitted
<1>6. OnlyCheckedCallsReach'
  <2>1. \A c \in reached : c \in Calls /\ stage[of[c]] \in {"serving", "over"}
    BY DEF Inv, TypeOK, CallsInOrder
  <2>2. QED
    BY <1>4, <2>1, SMT
       DEF Inv, OnlyCheckedCallsReach, invocation, Permitted
<1>7. AuditTellsTheTruth' BY DEF Inv, AuditTellsTheTruth, invocation
<1>8. QED BY <1>1, <1>2, <1>5, <1>6, <1>7 DEF Inv

(* Steps of calls leave the registries as they were.                       *)
LEMMA RegistryInvStays ==
    ASSUME RegistryInv, UNCHANGED registry
    PROVE  RegistryInv' /\ \A r, name : Permitted(r, name)' <=> Permitted(r, name)
<1> USE DEF registry
<1>1. RegistryTypeOK'
  BY DEF RegistryInv, RegistryTypeOK, ProgressTypeOK, ConnectionsTypeOK,
         RoutesTypeOK
<1>2. OpenIsInUse' /\ ConnectionsAreClosed'
  BY DEF RegistryInv, OpenIsInUse, ConnectionsAreClosed, Open, InUse,
         AwaitsClose
<1>3. OwnRegistry' /\ RoutesArePrivate'
  BY DEF RegistryInv, OwnRegistry, RoutesArePrivate
<1>4. QED BY <1>1, <1>2, <1>3 DEF RegistryInv, Permitted

LEMMA InvokeKeeps ==
    ASSUME Inv, NEW c \in Calls, NEW r \in Requests, NEW name \in Names,
           NEW a \in Arguments, Invoke(c, r, name, a)
    PROVE  Inv'
<1> USE DEF Invoke
<1>1. RegistryInv' /\ \A q, n : Permitted(q, n)' <=> Permitted(q, n)
  BY RegistryInvStays DEF Inv
<1>2. /\ Permitted(of[c], name)
      /\ name # smart => \E route \in routes[uses[of[c]]] : route.tool = name
  BY DEF Registered, Offered
<1>3. /\ Refusal(name, a) \in {"none", "ERROR", "SECURITY_VIOLATION"}
      /\ Refusal(name, a) = "none" =>
           a = "clean" \/ (a = "secret" /\ name = smart)
      /\ Refusal(name, a) = "SECURITY_VIOLATION" => a # "clean"
  BY DEF Refusal, Sanitizer, LeakGuard, ContractCheck, Arguments
<1>4. TypeOK'
  BY <1>1, <1>3, SMT DEF Inv, RegistryInv, TypeOK, Finish, Statuses
<1>5. CallsInOrder'
  BY <1>1, <1>2, <1>3, SMT DEF Inv, TypeOK, CallsInOrder, Finish, registry
<1>6. OnlyCheckedCallsReach'
  BY <1>1, SMT DEF Inv, TypeOK, CallsInOrder, OnlyCheckedCallsReach, registry
<1>7. AuditTellsTheTruth'
  BY <1>3, SMT DEF Inv, TypeOK, CallsInOrder, AuditTellsTheTruth, Finish
<1>8. QED BY <1>1, <1>4, <1>5, <1>6, <1>7 DEF Inv

(* A call that is dispatched has passed the guardrail and the policy for   *)
(* the tool it is for.                                                     *)
LEMMA DispatchKeeps ==
    ASSUME Inv, NEW c \in Calls, NEW tool \in Names, Dispatch(c, tool),
           c \notin reached, pc[c] \in {"judge", "route"},
           Permitted(of[c], tool), Permitted(of[c], asked[c]), args[c] = "clean",
           asked[c] = smart => tool \notin Contract,
           target' = [target EXCEPT ![c] = tool],
           judged' = [judged EXCEPT ![c] = "passed"],
           UNCHANGED <<registry, of, asked, args>>
    PROVE  Inv'
<1>1. RegistryInv' /\ \A q, n : Permitted(q, n)' <=> Permitted(q, n)
  BY RegistryInvStays DEF Inv
<1>2. \E route \in routes[uses[of[c]]] : route.tool = tool
  BY DEF Dispatch
<1>3. \/ /\ reached' = reached \cup {c} /\ pc' = [pc EXCEPT ![c] = "call"]
         /\ UNCHANGED status
      \/ /\ pc' = [pc EXCEPT ![c] = "done"]
         /\ status' = [status EXCEPT ![c] = "ERROR"] /\ UNCHANGED reached
  BY DEF Dispatch, Finish
<1>4. TypeOK'
  BY <1>1, <1>3, SMT DEF Inv, RegistryInv, TypeOK, Statuses
<1>5. CallsInOrder'
  BY <1>1, <1>3, SMT DEF Inv, TypeOK, CallsInOrder, registry
<1>6. OnlyCheckedCallsReach'
  BY <1>1, <1>2, <1>3, SMT DEF Inv, TypeOK, OnlyCheckedCallsReach, registry
<1>7. AuditTellsTheTruth'
  BY <1>3, SMT DEF Inv, TypeOK, CallsInOrder, AuditTellsTheTruth
<1>8. QED BY <1>1, <1>4, <1>5, <1>6, <1>7 DEF Inv

LEMMA JudgeKeeps == ASSUME Inv, NEW c \in Calls, Judge(c) PROVE Inv'
<1>1. RegistryInv' /\ \A q, n : Permitted(q, n)' <=> Permitted(q, n)
  BY RegistryInvStays DEF Inv, Judge
<1>2. /\ pc[c] = "judge" /\ judged[c] = "no" /\ c \notin reached
      /\ UNCHANGED <<registry, of, asked, target, args>>
  BY DEF Inv, CallsInOrder, Judge
<1>3. CASE judged' = [judged EXCEPT ![c] = "denied"] /\ Finish(c, "FORBIDDEN")
           /\ UNCHANGED reached
  <2>1. TypeOK'
    BY <1>1, <1>2, <1>3, SMT DEF Inv, RegistryInv, TypeOK, Finish, Statuses
  <2>2. CallsInOrder'
    BY <1>1, <1>2, <1>3, SMT DEF Inv, TypeOK, CallsInOrder, Finish, registry
  <2>3. OnlyCheckedCallsReach'
    BY <1>1, <1>2, <1>3, SMT DEF Inv, TypeOK, OnlyCheckedCallsReach, registry
  <2>4. AuditTellsTheTruth'
    BY <1>2, <1>3, SMT DEF Inv, TypeOK, CallsInOrder, AuditTellsTheTruth, Finish
  <2>5. QED BY <1>1, <2>1, <2>2, <2>3, <2>4 DEF Inv
<1>4. CASE judged' = [judged EXCEPT ![c] = "passed"] /\ asked[c] = smart
           /\ pc' = [pc EXCEPT ![c] = "route"] /\ UNCHANGED <<reached, status>>
  <2>1. TypeOK'
    BY <1>1, <1>2, <1>4, SMT DEF Inv, RegistryInv, TypeOK
  <2>2. CallsInOrder'
    BY <1>1, <1>2, <1>4, SMT DEF Inv, TypeOK, CallsInOrder, registry
  <2>3. OnlyCheckedCallsReach'
    BY <1>1, <1>2, <1>4, SMT DEF Inv, TypeOK, OnlyCheckedCallsReach, registry
  <2>4. AuditTellsTheTruth'
    BY <1>2, <1>4, SMT DEF Inv, TypeOK, CallsInOrder, AuditTellsTheTruth
  <2>5. QED BY <1>1, <2>1, <2>2, <2>3, <2>4 DEF Inv
<1>5. CASE judged' = [judged EXCEPT ![c] = "passed"] /\ asked[c] # smart
           /\ Dispatch(c, asked[c])
  <2>1. /\ args[c] = "clean" /\ target[c] = asked[c] /\ asked[c] \in Names
        /\ Permitted(of[c], asked[c])
    BY <1>2, <1>5 DEF Inv, TypeOK, CallsInOrder
  <2>2. target' = [target EXCEPT ![c] = asked[c]]
    BY <1>2, <2>1 DEF Inv, TypeOK
  <2>3. QED BY <1>2, <1>5, <2>1, <2>2, DispatchKeeps
<1>6. QED BY <1>3, <1>4, <1>5 DEF Judge, Proceed

LEMMA RouteKeeps == ASSUME Inv, NEW c \in Calls, Route(c) PROVE Inv'
<1>1. RegistryInv' /\ \A q, n : Permitted(q, n)' <=> Permitted(q, n)
  BY RegistryInvStays DEF Inv, Route
<1>2. /\ pc[c] = "route" /\ c \notin reached /\ asked[c] = smart
      /\ judged[c] = "passed" /\ Permitted(of[c], asked[c])
      /\ args[c] \in {"clean", "secret"}
      /\ UNCHANGED <<registry, of, asked, args, judged>>
  BY DEF Inv, CallsInOrder, Route
<1>3. PICK tool \in Decisions(of[c]) :
        /\ target' = [target EXCEPT ![c] = tool]
        /\ IF ~Permitted(of[c], tool)
           THEN Finish(c, "FORBIDDEN") /\ UNCHANGED reached
           ELSE IF LeakGuard[args[c]] # "none"
           THEN Finish(c, LeakGuard[args[c]]) /\ UNCHANGED reached
           ELSE Dispatch(c, tool)
  BY DEF Route
<1>4. tool \in Names /\ tool \notin Contract /\ Permitted(of[c], tool)
  BY DEF Decisions, Candidates, Offered, Names
<1>5. CASE args[c] = "secret"
  <2>1. /\ pc' = [pc EXCEPT ![c] = "done"] /\ UNCHANGED reached
        /\ status' = [status EXCEPT ![c] = "SECURITY_VIOLATION"]
    <3>1. LeakGuard[args[c]] = "SECURITY_VIOLATION" BY <1>5 DEF LeakGuard
    <3>2. QED BY <1>3, <1>4, <3>1 DEF Finish
  <2>2. TypeOK'
    BY <1>1, <1>2, <1>3, <1>4, <2>1, SMT
       DEF Inv, RegistryInv, TypeOK, Statuses
  <2>3. CallsInOrder'
    BY <1>1, <1>2, <1>3, <2>1, SMT DEF Inv, TypeOK, CallsInOrder, registry
  <2>4. OnlyCheckedCallsReach'
    BY <1>1, <1>2, <1>3, <2>1, SMT DEF Inv, TypeOK, OnlyCheckedCallsReach, registry
  <2>5. AuditTellsTheTruth'
    BY <1>2, <1>5, <2>1, SMT DEF Inv, TypeOK, CallsInOrder, AuditTellsTheTruth
  <2>6. QED BY <1>1, <2>2, <2>3, <2>4, <2>5 DEF Inv
<1>6. CASE args[c] = "clean"
  <2>1. judged' = [judged EXCEPT ![c] = "passed"] BY <1>2 DEF Inv, TypeOK
  <2>2. LeakGuard[args[c]] = "none" BY <1>6 DEF LeakGuard
  <2>3. QED BY <1>2, <1>3, <1>4, <1>6, <2>1, <2>2, DispatchKeeps
<1>7. QED BY <1>2, <1>5, <1>6

LEMMA SettleKeeps == ASSUME Inv, NEW c \in Calls, Settle(c) PROVE Inv'
<1> USE DEF Settle
<1>1. RegistryInv' /\ \A q, n : Permitted(q, n)' <=> Permitted(q, n)
  BY RegistryInvStays DEF Inv
<1>2. TypeOK'
  BY <1>1, SMT DEF Inv, RegistryInv, TypeOK, Finish, Statuses
<1>3. CallsInOrder'
  BY <1>1, SMT DEF Inv, TypeOK, CallsInOrder, Finish, registry
<1>4. OnlyCheckedCallsReach'
  BY <1>1, SMT DEF Inv, TypeOK, OnlyCheckedCallsReach, registry
<1>5. AuditTellsTheTruth'
  BY SMT DEF Inv, TypeOK, CallsInOrder, AuditTellsTheTruth, Finish
<1>6. QED BY <1>1, <1>2, <1>3, <1>4, <1>5 DEF Inv

-----------------------------------------------------------------------------
(* The initial states, every step of the system and a stutter.             *)
LEMMA InitInv == Init => Inv
<1> SUFFICES ASSUME Init PROVE Inv OBVIOUS
<1>1. RegistryInv BY InitRegistry DEF Init
<1>2. smart \in Names BY DEF Names
<1>3. TypeOK
  BY <1>1, <1>2, SMT DEF Init, RegistryInv, TypeOK, Arguments, Statuses
<1>4. CallsInOrder /\ OnlyCheckedCallsReach /\ AuditTellsTheTruth
  BY SMT DEF Init, CallsInOrder, OnlyCheckedCallsReach, AuditTellsTheTruth
<1>5. QED BY <1>1, <1>3, <1>4 DEF Inv

LEMMA NextInv == Inv /\ [Next]_vars => Inv'
<1> SUFFICES ASSUME Inv, [Next]_vars PROVE Inv' OBVIOUS
<1>1. CASE RegistryNext /\ UNCHANGED invocation
  BY <1>1, RegistryStepKeepsCalls
<1>2. CASE \E c \in Calls, r \in Requests, name \in Names, a \in Arguments :
             Invoke(c, r, name, a)
  BY <1>2, InvokeKeeps
<1>3. CASE \E c \in Calls : Judge(c) \/ Route(c) \/ Settle(c)
  BY <1>3, JudgeKeeps, RouteKeeps, SettleKeeps
<1>4. CASE UNCHANGED vars
  <2>1. UNCHANGED registry /\ UNCHANGED invocation BY <1>4 DEF vars
  <2>2. RegistryInv' /\ \A q, n : Permitted(q, n)' <=> Permitted(q, n)
    BY <2>1, RegistryInvStays DEF Inv
  <2>3. TypeOK' BY <2>1, <2>2 DEF Inv, RegistryInv, TypeOK, invocation
  <2>4. CallsInOrder'
    BY <2>1, <2>2 DEF Inv, CallsInOrder, registry, invocation
  <2>5. OnlyCheckedCallsReach' /\ AuditTellsTheTruth'
    BY <2>1, <2>2
       DEF Inv, OnlyCheckedCallsReach, AuditTellsTheTruth, registry, invocation
  <2>6. QED BY <2>2, <2>3, <2>4, <2>5 DEF Inv
<1>5. QED BY <1>1, <1>2, <1>3, <1>4 DEF Next

THEOREM SpecInv == Spec => []Inv
BY InitInv, NextInv, PTL DEF Spec

(* Every variable keeps its type and a call is audited exactly when it has *)
(* ended.                                                                  *)
THEOREM Types == Spec => []TypeOK
<1>1. Inv => TypeOK BY DEF Inv
<1>2. QED BY <1>1, SpecInv, PTL

(* A connection outlives its request only for one of the five reasons the  *)
(* code has (requestToolRegistryBuilder.ts, remoteMcpConnection.ts,        *)
(* mcpRoutes.ts).                                                          *)
THEOREM ConnectionsClosed == Spec => []ConnectionsAreClosed
<1>1. Inv => ConnectionsAreClosed BY DEF Inv, RegistryInv
<1>2. QED BY <1>1, SpecInv, PTL

(* No request is routed to another user's upstream and no name leads to    *)
(* two upstreams (toolRegistry.ts, toolRouteMap.ts).                       *)
THEOREM RegistriesArePrivate == Spec => []RoutesArePrivate
<1>1. Inv => RoutesArePrivate BY DEF Inv, RegistryInv
<1>2. QED BY <1>1, SpecInv, PTL

(* Upstreams see only calls that passed every check, in spite of the       *)
(* awaits between the checks (createGatewayServer.ts).                     *)
THEOREM ChecksPrecedeUpstreams == Spec => []OnlyCheckedCallsReach
<1>1. Inv => OnlyCheckedCallsReach BY DEF Inv
<1>2. QED BY <1>1, SpecInv, PTL

(* The status a call is audited with agrees with what happened to it       *)
(* (toolInvocationContext.ts).                                             *)
THEOREM AuditIsTruthful == Spec => []AuditTellsTheTruth
<1>1. Inv => AuditTellsTheTruth BY DEF Inv
<1>2. QED BY <1>1, SpecInv, PTL

-----------------------------------------------------------------------------
(* The circuit breaker of an upstream *)

(* An OPEN breaker knows when it opened: evaluateState() never leaves OPEN  *)
(* while lastFailureTime is null.                                           *)
OpenHasDeadline == state # "CLOSED" => sinceFailure # NoFailure

(* Probing only happens after a full reset timeout with no failure at all,  *)
(* those of calls admitted before the breaker opened included.              *)
HalfOpenIsRested == state = "HALF_OPEN" => sinceFailure = ResetTimeout

(* The inductive invariant is the conjunction of the safety properties:    *)
(* each of them needs one of the others to be preserved.                   *)
BreakerInv ==
    /\ BreakerTypeOK
    /\ ThresholdDecidesState
    /\ NoOrphanedSlot
    /\ OpenHasDeadline
    /\ HalfOpenIsRested

USE FailureThresholdAssumption, ResetTimeoutAssumption, HalfOpenMaxCallsAssumption

(* The constructor's breaker is a legal one. *)
LEMMA BreakerInitInv == BreakerInit => BreakerInv
BY SMT DEF BreakerInit, BreakerInv, BreakerTypeOK, States, Phases, NoFailure,
           ThresholdDecidesState,
           NoOrphanedSlot, OpenHasDeadline, HalfOpenIsRested

(* Admitting one more probe takes exactly one more slot. *)
LEMMA OneMoreProbe ==
    ASSUME NEW S \in SUBSET UpstreamCalls, NEW c \in UpstreamCalls, c \notin S
    PROVE  Cardinality(S \cup {c}) = Cardinality(S) + 1
BY UpstreamCallsAssumption, FS_Subset, FS_AddElement

(* evaluateState() moves a legal breaker to a legal breaker. *)
LEMMA Evaluated ==
    ASSUME BreakerInv
    PROVE  /\ EvaluatedState \in States
           /\ EvaluatedHalfOpenCalls \in 0..HalfOpenMaxCalls
           /\ EvaluatedProbes \subseteq UpstreamCalls
           /\ EvaluatedState = "CLOSED" <=> state = "CLOSED"
           /\ EvaluatedState = "HALF_OPEN" =>
                /\ sinceFailure = ResetTimeout
                /\ EvaluatedProbes \subseteq Pending
                /\ EvaluatedHalfOpenCalls = Cardinality(EvaluatedProbes)
<1>1. CASE ResetElapsed
  BY <1>1, FS_EmptySet, SMT
     DEF BreakerInv, BreakerTypeOK, States, ResetElapsed, EvaluatedState, EvaluatedHalfOpenCalls,
         EvaluatedProbes, Pending
<1>2. CASE ~ResetElapsed
  BY <1>2, SMT
     DEF BreakerInv, BreakerTypeOK, States, EvaluatedState, EvaluatedHalfOpenCalls,
         EvaluatedProbes, NoOrphanedSlot, HalfOpenIsRested, ResetElapsed
<1>3. QED BY <1>1, <1>2

(* An admitted call leaves a legal breaker: a probe takes a free slot and   *)
(* is in flight, a call of a CLOSED breaker takes none.                     *)
LEMMA AdmitBreakerInv ==
    ASSUME BreakerInv, NEW c \in UpstreamCalls, Admit(c)
    PROVE  BreakerInv'
<1>1. /\ phase[c] = "idle"
      /\ state' = EvaluatedState
      /\ phase' = [phase EXCEPT ![c] = "pending"]
      /\ UNCHANGED <<consecutiveFailures, sinceFailure>>
      /\ EvaluatedState # "OPEN"
  BY DEF Admit, Rejects
<1>2. /\ phase' \in [UpstreamCalls -> Phases]
      /\ Pending' = Pending \cup {c}
      /\ c \notin Pending
  BY <1>1 DEF Pending, Phases, BreakerInv, BreakerTypeOK
<1>3. ThresholdDecidesState' /\ OpenHasDeadline' /\ HalfOpenIsRested'
  <2>1. EvaluatedState = "CLOSED" <=> state = "CLOSED"
    BY Evaluated
  <2>2. EvaluatedState = "HALF_OPEN" => sinceFailure = ResetTimeout
    BY Evaluated
  <2>3. QED BY <1>1, <2>1, <2>2 DEF BreakerInv, ThresholdDecidesState, OpenHasDeadline,
                               HalfOpenIsRested, NoFailure
<1>4. CASE EvaluatedState = "HALF_OPEN"
  <2>1. /\ halfOpenCalls' = EvaluatedHalfOpenCalls + 1
        /\ probes' = EvaluatedProbes \cup {c}
        /\ ~(EvaluatedHalfOpenCalls >= HalfOpenMaxCalls)
    BY <1>4 DEF Admit, Rejects
  <2>2. /\ EvaluatedProbes \subseteq Pending
        /\ EvaluatedProbes \subseteq UpstreamCalls
        /\ EvaluatedHalfOpenCalls = Cardinality(EvaluatedProbes)
        /\ EvaluatedHalfOpenCalls \in 0..HalfOpenMaxCalls
    BY <1>4, Evaluated
  <2>3. Cardinality(probes') = Cardinality(EvaluatedProbes) + 1
    BY <1>2, <2>1, <2>2, OneMoreProbe
  <2>4. NoOrphanedSlot'
    BY <1>2, <2>1, <2>2, <2>3 DEF NoOrphanedSlot
  <2>5. BreakerTypeOK'
    BY <1>1, <1>2, <1>4, <2>1, <2>2 DEF BreakerInv, BreakerTypeOK, States
  <2>6. QED BY <1>3, <2>4, <2>5 DEF BreakerInv
<1>5. CASE EvaluatedState # "HALF_OPEN"
  <2>1. UNCHANGED <<halfOpenCalls, probes>>
    BY <1>5 DEF Admit
  <2>2. EvaluatedState \in States
    BY Evaluated
  <2>3. BreakerTypeOK' /\ NoOrphanedSlot'
    BY <1>1, <1>2, <1>5, <2>1, <2>2 DEF BreakerInv, BreakerTypeOK, NoOrphanedSlot
  <2>4. QED BY <1>3, <2>3 DEF BreakerInv
<1>6. QED BY <1>4, <1>5

(* A rejection and a read of the state change nothing but the evaluation.   *)
LEMMA EvaluateBreakerInv ==
    ASSUME BreakerInv,
           state' = EvaluatedState,
           halfOpenCalls' = EvaluatedHalfOpenCalls,
           probes' = EvaluatedProbes,
           UNCHANGED <<consecutiveFailures, sinceFailure>>,
           phase' \in [UpstreamCalls -> Phases],
           Pending' = Pending
    PROVE  BreakerInv'
<1>1. BreakerTypeOK'
  BY Evaluated DEF BreakerInv, BreakerTypeOK
<1>2. ThresholdDecidesState'
  BY Evaluated DEF BreakerInv, ThresholdDecidesState
<1>3. NoOrphanedSlot'
  BY Evaluated DEF NoOrphanedSlot
<1>4. OpenHasDeadline'
  BY Evaluated DEF BreakerInv, OpenHasDeadline
<1>5. HalfOpenIsRested'
  BY Evaluated DEF HalfOpenIsRested
<1>6. QED BY <1>1, <1>2, <1>3, <1>4, <1>5 DEF BreakerInv

(* Every step of the breaker keeps the invariant. *)
LEMMA BreakerNextInv == BreakerInv /\ [BreakerNext]_breakerVars => BreakerInv'
<1> SUFFICES ASSUME BreakerInv, [BreakerNext]_breakerVars PROVE BreakerInv'
  OBVIOUS
<1>1. CASE GetState
  <2>1. phase' \in [UpstreamCalls -> Phases] /\ Pending' = Pending
    BY <1>1 DEF GetState, BreakerInv, BreakerTypeOK, Pending
  <2>2. QED BY <1>1, <2>1, EvaluateBreakerInv DEF GetState
<1>2. ASSUME NEW c \in UpstreamCalls, Admit(c) PROVE BreakerInv'
  BY <1>2, AdmitBreakerInv
<1>3. ASSUME NEW c \in UpstreamCalls, ShortCircuit(c) PROVE BreakerInv'
  <2>1. phase' \in [UpstreamCalls -> Phases] /\ Pending' = Pending
    BY <1>3 DEF ShortCircuit, BreakerInv, BreakerTypeOK, Pending, Phases
  <2>2. QED BY <1>3, <2>1, EvaluateBreakerInv DEF ShortCircuit
<1>4. ASSUME NEW c \in UpstreamCalls, TryAgain(c) PROVE BreakerInv'
  <2>1. Pending' = Pending
    BY <1>4 DEF TryAgain, BreakerInv, BreakerTypeOK, Pending
  <2>2. QED BY <1>4, <2>1 DEF TryAgain, BreakerInv, BreakerTypeOK, Phases, ThresholdDecidesState,
                NoOrphanedSlot, OpenHasDeadline, HalfOpenIsRested, NoFailure
<1>5. ASSUME NEW c \in UpstreamCalls, OnSuccess(c) PROVE BreakerInv'
  BY <1>5 DEF OnSuccess, BreakerInv, BreakerTypeOK, States, Phases, ThresholdDecidesState,
              NoOrphanedSlot, OpenHasDeadline, HalfOpenIsRested
<1>6. ASSUME NEW c \in UpstreamCalls, OnFailure(c) PROVE BreakerInv'
  <2>1. state' # "HALF_OPEN"
    BY <1>6 DEF OnFailure
  <2>2. FailuresPlusOne \in 0..FailureThreshold
    BY DEF FailuresPlusOne, BreakerInv, BreakerTypeOK
  <2>3. ThresholdDecidesState'
    BY <1>6, <2>2 DEF OnFailure, FailuresPlusOne, BreakerInv, BreakerTypeOK, States,
                      ThresholdDecidesState
  <2>4. BreakerTypeOK'
    BY <1>6, <2>2 DEF OnFailure, BreakerInv, BreakerTypeOK, States, Phases
  <2>5. QED BY <1>6, <2>1, <2>3, <2>4 DEF OnFailure, BreakerInv, NoOrphanedSlot,
                          OpenHasDeadline, HalfOpenIsRested, NoFailure
<1>7. CASE Reset
  BY <1>7 DEF Reset, BreakerInv, BreakerTypeOK, States, NoFailure, ThresholdDecidesState,
              NoOrphanedSlot, OpenHasDeadline, HalfOpenIsRested
<1>8. CASE Tick
  <2>1. Pending' = Pending
    BY <1>8 DEF Tick, Pending
  <2>2. QED BY <1>8, <2>1 DEF Tick, BreakerInv, BreakerTypeOK, ThresholdDecidesState,
                              NoOrphanedSlot,
                OpenHasDeadline, HalfOpenIsRested, NoFailure
<1>9. CASE UNCHANGED breakerVars
  <2>1. Pending' = Pending
    BY <1>9 DEF breakerVars, Pending
  <2>2. QED BY <1>9, <2>1 DEF breakerVars, BreakerInv, BreakerTypeOK,
                              ThresholdDecidesState, NoOrphanedSlot,
                OpenHasDeadline, HalfOpenIsRested
<1>10. QED
  BY <1>1, <1>2, <1>3, <1>4, <1>5, <1>6, <1>7, <1>8, <1>9 DEF BreakerNext

-----------------------------------------------------------------------------
(* The inductive invariant holds of every execution of the breaker. *)
THEOREM BreakerInvariant == BreakerSpec => []BreakerInv
BY BreakerInitInv, BreakerNextInv, PTL DEF BreakerSpec

(* The half-open slots never number more than HalfOpenMaxCalls, nor the     *)
(* failures in a row more than the threshold, whatever settles late.        *)
THEOREM BreakerTypes == BreakerSpec => []BreakerTypeOK
<1>1. BreakerInv => BreakerTypeOK
  BY DEF BreakerInv
<1>2. QED BY <1>1, BreakerInvariant, PTL

(* The breaker is CLOSED exactly while the failures in a row are below the  *)
(* threshold, whatever calls settle late and in whatever order, and no      *)
(* half-open slot is held by a call that has already settled.               *)
THEOREM LateResultsAreHarmless == BreakerSpec => []StateMatchesItsCalls
<1>1. BreakerInv => StateMatchesItsCalls
  BY DEF BreakerInv, StateMatchesItsCalls
<1>2. QED BY <1>1, BreakerInvariant, PTL

(* The breaker probes only after a reset timeout without any failure. *)
THEOREM ProbesOnlyWhenRested == BreakerSpec => []HalfOpenIsRested
<1>1. BreakerInv => HalfOpenIsRested
  BY DEF BreakerInv
<1>2. QED BY <1>1, BreakerInvariant, PTL

(* After the threshold is reached a call reaches the upstream only as one   *)
(* of at most HalfOpenMaxCalls probes, a reset timeout after the last       *)
(* failure.                                                                 *)
THEOREM AdmissionsAfterOpeningAreProbes == BreakerSpec => AdmissionsAfterOpening
<1> DEFINE A == \A c \in UpstreamCalls :
          phase[c] # "pending" /\ phase'[c] = "pending"
          /\ consecutiveFailures = FailureThreshold
            => sinceFailure = ResetTimeout /\ Cardinality(probes') <= HalfOpenMaxCalls
<1>1. BreakerInv /\ BreakerInv' /\ [BreakerNext]_breakerVars => [A]_breakerVars
  <2> SUFFICES ASSUME BreakerInv, BreakerInv', BreakerNext, NEW c \in UpstreamCalls,
                      phase[c] # "pending", phase'[c] = "pending",
                      consecutiveFailures = FailureThreshold
               PROVE  /\ sinceFailure = ResetTimeout
                      /\ Cardinality(probes') <= HalfOpenMaxCalls
    OBVIOUS
  <2>1. Admit(c)
    BY DEF BreakerNext, GetState, Admit, ShortCircuit, TryAgain, OnSuccess, OnFailure,
           Reset, Tick,
           BreakerInv, BreakerTypeOK, Phases
  <2>2. state # "CLOSED"
    BY DEF BreakerInv, ThresholdDecidesState
  <2>3. EvaluatedState \in States /\ EvaluatedState # "CLOSED" /\ EvaluatedState # "OPEN"
    BY <2>1, <2>2, Evaluated DEF Admit, Rejects
  <2>4. state' = "HALF_OPEN" /\ sinceFailure' = sinceFailure
    BY <2>1, <2>3 DEF Admit, States
  <2>5. QED BY <2>4 DEF BreakerInv, BreakerTypeOK, HalfOpenIsRested, NoOrphanedSlot
<1>2. QED BY <1>1, BreakerInvariant, PTL DEF BreakerSpec, AdmissionsAfterOpening

=============================================================================
