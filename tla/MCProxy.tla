------------------------------- MODULE MCProxy -------------------------------
(***************************************************************************)
(* Small instances of the modules about the Telegram proxy at work: its    *)
(* clients, the pool of WebSockets, the bytes of one connection and the    *)
(* streams of one HTTP/2 lane.  They meet only in the tasks that           *)
(* ProxyClient describes; one run takes each in turn.                      *)
(***************************************************************************)
EXTENDS ProxyClient, ProxyStreams, WsPool, H2Streams, TLC

VARIABLE component

MCProxyVars == <<proxyVars, streamVars, poolVars, h2Vars, component>>

MCProxyInit ==
    /\ ProxyInit /\ StreamsInit /\ PoolInit /\ H2SInit
    /\ component \in {"clients", "streams", "pool", "lane"}
    /\ component # "pool" => ~workers

(* Clients share nothing at the workers: only one of them tries these. *)
OneTriesWorkers ==
    \A i \in DOMAIN client'["c2"].left : client'["c2"].left[i] # "worker"

MCProxyNext ==
    /\ component' = component
    /\ \/ component = "clients" /\ ProxyNext /\ OneTriesWorkers /\ UNCHANGED <<streamVars, poolVars, h2Vars>>
       \/ component = "streams" /\ StreamsNext /\ UNCHANGED <<proxyVars, poolVars, h2Vars>>
       \/ component = "pool" /\ PoolNext /\ UNCHANGED <<proxyVars, streamVars, h2Vars>>
       \/ component = "lane" /\ H2SNext /\ UNCHANGED <<proxyVars, streamVars, poolVars>>

MCProxySpec == MCProxyInit /\ [][MCProxyNext]_MCProxyVars
=============================================================================
