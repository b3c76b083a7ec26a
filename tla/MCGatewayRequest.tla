-------------------------- MODULE MCGatewayRequest --------------------------
EXTENDS GatewayRequest, TLC
CONSTANTS r1, r2, ann, bob, base, mail, wiki, mine, twin
(* One shared and two delegated upstreams; ann has added two of her own,   *)
(* the second with a name the shared one lists.                            *)
MCUserOf == r1 :> ann @@ r2 :> bob
MCOwnerOf == mine :> ann @@ twin :> ann
MCToolsOf == base :> {"base.get", "base.put"} @@ mail :> {"mail.send"}
             @@ wiki :> {"wiki.read"} @@ mine :> {"mine.do"}
             @@ twin :> {"base.get"}
MCUnder == mine :> {"mine.do"} @@ twin :> {"base.get", "base.put"}
MCAllowed == {"base.get", "mail.send", "wiki.read", "gateway.smart_dispatch"}
MCGranted == ann :> {"base.get", "mail.send", "mine.do",
                     "gateway.smart_dispatch"}
             @@ bob :> {"base.put", "mail.send", "wiki.read"}
=============================================================================
