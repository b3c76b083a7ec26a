--------------------------- MODULE RequestRegistry ---------------------------
(***************************************************************************)
(* The tool registry of one POST /mcp request and the connections opened   *)
(* for it (application/requestToolRegistryBuilder.ts, upstream/            *)
(* toolRegistry.ts, domain/toolRouteMap.ts, api/mcpRoutes.ts).             *)
(*                                                                         *)
(* A request of a user without own or delegated upstreams uses the shared  *)
(* registry itself, any other a clone to which it adds the routes of the   *)
(* connections it opens, one after the other, awaiting each.  They are to  *)
(* be closed when the reply closes.  The client may leave at any await.    *)
(*                                                                         *)
(* To close a connection is to await the end of its session upstream and,  *)
(* only if that does not throw, to close the client.                       *)
(***************************************************************************)
CONSTANTS
  Requests,    \* verified requests, in flight at the same time
  Shared,      \* upstreams connected at startup
  Delegated,   \* upstreams that take a delegated token
  Custom,      \* upstreams users have added
  Users,
  UserOf,      \* the user of each request
  OwnerOf,     \* the user of each custom upstream
  ToolsOf      \* public names, prefix and tool, each upstream lists

Upstreams == Shared \cup Delegated \cup Custom

ASSUME UpstreamsAssumption ==
  /\ Shared \cap (Delegated \cup Custom) = {}
  /\ Delegated \cap Custom = {}
  /\ UserOf \in [Requests -> Users]
  /\ OwnerOf \in [Custom -> Users]
  /\ "none" \notin Upstreams
  /\ "shared" \notin Requests
(* ToolRouteMap.fromConnections refuses duplicates: there is no startup.   *)
ASSUME SharedToolsDiffer ==
  \A u, v \in Shared : u # v => ToolsOf[u] \cap ToolsOf[v] = {}

VARIABLES
  delegated,   \* those of Delegated the configuration enables
  stage,       \* how far each request is
  todo,        \* upstreams it has still to connect to
  at,          \* the connection it has opened but not routed, or "none"
  conn,        \* its connections; "unended" after a close() that threw
  kept,        \* the connections it will close: `connections`
  uses,        \* its registry: the shared one or its own clone
  routes,      \* routes of each registry
  gone,        \* its reply has emitted "close"
  reason       \* history: why some of its connections are never closed

registry == <<delegated, stage, todo, at, conn, kept, uses, routes, gone,
              reason>>

Tools == UNION {ToolsOf[u] : u \in Upstreams}
Routes(u) == {[tool |-> t, to |-> u] : t \in ToolsOf[u]}
SharedRoutes == UNION {Routes(u) : u \in Shared}

ConnectionStates == {"none", "open", "closing", "closed", "unended"}

ProgressTypeOK ==
  /\ stage \in [Requests -> {"idle", "building", "serving", "over", "failed"}]
  /\ todo \in [Requests -> SUBSET (Delegated \cup Custom)]
  /\ at \in [Requests -> Delegated \cup Custom \cup {"none"}]
  /\ gone \in [Requests -> BOOLEAN]
  /\ reason \in [Requests -> {"none", "route", "close", "setup", "early"}]

ConnectionsTypeOK ==
  /\ conn \in [Requests ->
                [Delegated \cup Custom -> ConnectionStates]]
  /\ kept \in [Requests -> SUBSET (Delegated \cup Custom)]

RoutesTypeOK ==
  /\ delegated \subseteq Delegated
  /\ uses \in [Requests -> Requests \cup {"shared"}]
  /\ routes \in [Requests \cup {"shared"} ->
                  SUBSET [tool : Tools, to : Upstreams]]

RegistryTypeOK == ProgressTypeOK /\ ConnectionsTypeOK /\ RoutesTypeOK

RegistryInit ==
  /\ delegated \in SUBSET Delegated
  /\ stage = [r \in Requests |-> "idle"]
  /\ todo = [r \in Requests |-> {}]
  /\ at = [r \in Requests |-> "none"]
  /\ conn = [r \in Requests |-> [u \in Delegated \cup Custom |-> "none"]]
  /\ kept = [r \in Requests |-> {}]
  /\ uses = [r \in Requests |-> "shared"]
  /\ routes = [g \in Requests \cup {"shared"} |->
                 IF g = "shared" THEN SharedRoutes ELSE {}]
  /\ gone = [r \in Requests |-> FALSE]
  /\ reason = [r \in Requests |-> "none"]

-----------------------------------------------------------------------------
BuildOnShared(r, enabled) ==   \* slip: clone() returns the registry itself
  /\ stage[r] = "idle"
  /\ \A u \in enabled : OwnerOf[u] = UserOf[r]
  /\ stage' = [stage EXCEPT ![r] = "building"]
  /\ todo' = [todo EXCEPT ![r] = delegated \cup enabled]
  /\ UNCHANGED <<at, conn, kept, uses, routes, gone, reason>>

(* The beginning of build(): the user's enabled custom upstreams are read. *)
Build(r, enabled) ==
  /\ stage[r] = "idle"
  /\ \A u \in enabled : OwnerOf[u] = UserOf[r]
  /\ stage' = [stage EXCEPT ![r] = "building"]
  /\ todo' = [todo EXCEPT ![r] = delegated \cup enabled]
  /\ IF delegated \cup enabled = {}
     THEN UNCHANGED <<uses, routes>>
     ELSE /\ uses' = [uses EXCEPT ![r] = r]
          /\ routes' = [routes EXCEPT ![r] = routes["shared"]]
  /\ UNCHANGED <<at, conn, kept, gone, reason>>

(* Delegated upstreams come first.                                         *)
NextUp(r, u) ==
  /\ stage[r] = "building" /\ at[r] = "none" /\ u \in todo[r]
  /\ u \in Delegated \/ todo[r] \cap Delegated = {}

(* A token or the endpoint and the credentials, then the connection.       *)
Connect(r, u) ==
  /\ NextUp(r, u)
  /\ conn' = [conn EXCEPT ![r][u] = "open"]
  /\ at' = [at EXCEPT ![r] = u]
  /\ UNCHANGED <<stage, todo, kept, uses, routes, gone, reason>>

(* close() of every connection in `connections`, without waiting for one   *)
(* before the next: each goes on to terminateSession().                    *)
CloseKept(r) ==
  conn' = [conn EXCEPT ![r] =
             [u \in Delegated \cup Custom |->
                IF u \in kept[r] THEN "closing" ELSE conn[r][u]]]

(* terminateSession() returned and the client is closed, or it threw and   *)
(* the client is not.  Nobody awaits this close() but the failed request   *)
(* of ConnectFails and DelegatedRouteFails; when Node ends the process on  *)
(* the rejection of the one mcpRoutes.ts ignores, the behaviour ends here. *)
KeptCloses(r, u) ==
  /\ u \in kept[r] /\ conn[r][u] = "closing"
  /\ \E end \in {"closed", "unended"} : conn' = [conn EXCEPT ![r][u] = end]
  /\ UNCHANGED <<stage, todo, at, kept, uses, routes, gone, reason>>

(* Without a delegated upstream the request fails, without a custom one it *)
(* goes on.                                                                *)
ConnectFails(r, u) ==
  /\ NextUp(r, u)
  /\ \/ /\ u \in Delegated
        /\ CloseKept(r)
        /\ stage' = [stage EXCEPT ![r] = "failed"]
        /\ UNCHANGED todo
     \/ /\ u \in Custom
        /\ todo' = [todo EXCEPT ![r] = @ \ {u}]
        /\ UNCHANGED <<stage, conn>>
  /\ UNCHANGED <<at, kept, uses, routes, gone, reason>>

Routed(g, u) == \E route \in routes[g] : route.tool \in ToolsOf[u]

(* listTools() answered and no name is taken: a new route map replaces the *)
(* old one, and the connection will be closed.                             *)
AddRoute(r) ==
  /\ stage[r] = "building" /\ at[r] # "none" /\ conn[r][at[r]] = "open"
  /\ ~Routed(uses[r], at[r])
  /\ routes' = [routes EXCEPT ![uses[r]] = @ \cup Routes(at[r])]
  /\ kept' = [kept EXCEPT ![r] = @ \cup {at[r]}]
  /\ todo' = [todo EXCEPT ![r] = @ \ {at[r]}]
  /\ at' = [at EXCEPT ![r] = "none"]
  /\ UNCHANGED <<stage, conn, uses, gone, reason>>

DelegatedRouteFailsUnclosed(r) == \* slip: only a failed connect closes
  /\ stage[r] = "building" /\ at[r] \in Delegated
  /\ stage' = [stage EXCEPT ![r] = "failed"]
  /\ reason' = [reason EXCEPT ![r] = "route"]
  /\ UNCHANGED <<todo, at, conn, kept, uses, routes, gone>>

(* listTools() failed or a name is taken.  The connection was not yet in   *)
(* `connections`: the earlier ones are closed, it is not.                  *)
DelegatedRouteFails(r) ==
  /\ stage[r] = "building" /\ at[r] \in Delegated
  /\ CloseKept(r)
  /\ stage' = [stage EXCEPT ![r] = "failed"]
  /\ reason' = [reason EXCEPT ![r] = "route"]
  /\ UNCHANGED <<todo, at, kept, uses, routes, gone>>

(* The same for a custom upstream: its connection is closed, and build()   *)
(* waits for that.                                                         *)
CustomRouteFails(r) ==
  /\ stage[r] = "building" /\ at[r] \in Custom /\ conn[r][at[r]] = "open"
  /\ conn' = [conn EXCEPT ![r][at[r]] = "closing"]
  /\ UNCHANGED <<stage, todo, at, kept, uses, routes, gone, reason>>

AwaitsClose(r) ==
  stage[r] = "building" /\ at[r] \in Custom /\ conn[r][at[r]] = "closing"

(* It goes on without that upstream, ...                                   *)
CustomCloses(r) ==
  /\ AwaitsClose(r)
  /\ conn' = [conn EXCEPT ![r][at[r]] = "closed"]
  /\ at' = [at EXCEPT ![r] = "none"]
  /\ todo' = [todo EXCEPT ![r] = @ \ {at[r]}]
  /\ UNCHANGED <<stage, kept, uses, routes, gone, reason>>

(* ... or the close() throws within the catch: build() ends, and nobody    *)
(* closes the earlier connections.                                         *)
CustomCloseThrows(r) ==
  /\ AwaitsClose(r)
  /\ conn' = [conn EXCEPT ![r][at[r]] = "unended"]
  /\ stage' = [stage EXCEPT ![r] = "failed"]
  /\ reason' = [reason EXCEPT ![r] = "close"]
  /\ UNCHANGED <<todo, at, kept, uses, routes, gone>>

Built(r) == stage[r] = "building" /\ at[r] = "none" /\ todo[r] = {}

(* The policy, the server and its transport; then the handler for "close"  *)
(* of the reply, which is too late if the client has left.                 *)
Serve(r) ==
  /\ Built(r)
  /\ stage' = [stage EXCEPT ![r] = "serving"]
  /\ reason' = [reason EXCEPT ![r] = IF gone[r] THEN "early" ELSE @]
  /\ UNCHANGED <<todo, at, conn, kept, uses, routes, gone>>

(* A tool that createGatewayServer() refuses: one outside the data         *)
(* contract of its upstream, or a name that is taken once it is flattened. *)
ServeFails(r) ==
  /\ Built(r)
  /\ stage' = [stage EXCEPT ![r] = "failed"]
  /\ reason' = [reason EXCEPT ![r] = "setup"]
  /\ UNCHANGED <<todo, at, conn, kept, uses, routes, gone>>

(* The reply closes: it has ended or the client has left.                  *)
ReplyCloses(r) ==
  /\ stage[r] \in {"building", "serving"} /\ ~gone[r]
  /\ gone' = [gone EXCEPT ![r] = TRUE]
  /\ \/ /\ stage[r] = "serving"
        /\ CloseKept(r)
        /\ stage' = [stage EXCEPT ![r] = "over"]
     \/ /\ stage[r] = "building"
        /\ UNCHANGED <<stage, conn>>
  /\ UNCHANGED <<todo, at, kept, uses, routes, reason>>

RegistryNext ==
  /\ UNCHANGED delegated
  /\ \E r \in Requests :
       \/ \E enabled \in SUBSET Custom : Build(r, enabled)
       \/ \E u \in Delegated \cup Custom :
            Connect(r, u) \/ ConnectFails(r, u) \/ KeptCloses(r, u)
       \/ AddRoute(r)
       \/ DelegatedRouteFails(r)
       \/ CustomRouteFails(r)
       \/ CustomCloses(r)
       \/ CustomCloseThrows(r)
       \/ Serve(r)
       \/ ServeFails(r)
       \/ ReplyCloses(r)

-----------------------------------------------------------------------------
(* Those nobody has called close() of *)
Open(r) == {u \in Delegated \cup Custom : conn[r][u] = "open"}

(* The connections of a request are open while it may still use them, and  *)
(* a connection outlives its request for one of five reasons.  Its close() *)
(* was called and threw ("unended").  Or nobody calls it, as the code has  *)
(* lost sight of it: a delegated upstream whose routes could not be added; *)
(* those made before a custom one whose close() threw, or before a server  *)
(* that could not be set up; and those of a client that left before the    *)
(* handler for its leaving was there, whose request is never over.         *)
(* "closes earlier delegated connections when a later connection fails"    *)
(* (test/requestToolRegistryBuilder.test.ts) holds but for those.          *)
ConnectionsAreClosed ==
  \A r \in Requests :
    /\ stage[r] \in {"building", "serving"} => kept[r] \subseteq Open(r)
    /\ stage[r] \in {"over", "failed"} =>
         /\ reason[r] = "none" => Open(r) = {}
         /\ reason[r] = "route" => Open(r) = {at[r]}
         /\ reason[r] \in {"close", "setup"} => Open(r) = kept[r]

(* Where a registry leads: the shared one to shared upstreams, the clone   *)
(* of a request to those and to connections it will close itself; never to *)
(* another user's upstream or to one whose routes could not be added, and  *)
(* a public name never to two upstreams.                                   *)
RoutesArePrivate ==
  /\ \A route \in routes["shared"] : route.to \in Shared
  /\ \A r \in Requests : \A route \in routes[r] :
       \/ route.to \in Shared
       \/ /\ route.to \in kept[r]
          /\ route.to \in Custom => OwnerOf[route.to] = UserOf[r]
  /\ \A g \in Requests \cup {"shared"} : \A a, b \in routes[g] :
       a.tool = b.tool => a = b
=============================================================================
