------------------------------ MODULE ProxyClient ------------------------------
(***************************************************************************)
(* One run of the Telegram proxy and its clients: _run, _handle_client,    *)
(* do_fallback (modules/tg_ws_proxy/proxy/tg_ws_proxy.py, bridge.py),      *)
(* CfH2Pool.open (cf_h2.py) and the Cloudflare domains (balancer.py).      *)
(* Clients are tasks of one event loop, a step is what a task does between *)
(* two awaits.  All clients want the same data center.                     *)
(***************************************************************************)
EXTENDS Naturals, Sequences, FiniteSets

CONSTANTS
    Clients,
    Domains     \* the Cloudflare domains known

VARIABLES
    run,        \* the coroutine _run: its phase
    client,     \* the task of each client
    active,     \* stats.connections_active
    tcp,        \* _tcp_connecting and _tcp_retry_after of the address
    lane,       \* the HTTP/2 lane of each domain, and who holds its lock
    favourite   \* balancer._dc_to_domain

proxyVars == <<run, client, active, tcp, lane, favourite>>
NoHolder == "free"
NoDomain == "no domain"

ASSUME ClientsAssumption == IsFiniteSet(Clients) /\ NoHolder \notin Clients

(* pc: where its task is.  left: fallback methods not tried yet; todo: the *)
(* domains of the method not tried yet, NoDomain before the first.  up:    *)
(* the upstream socket; "dropped": nothing closes it but the garbage       *)
(* collector.  served: the upstreams that got its bytes.                   *)
Away == [pc |-> "away", cancelled |-> FALSE, left |-> <<>>, todo |-> {}, at |-> NoDomain, up |-> "none", served |-> 0]
NewClient == [Away EXCEPT !.pc = "init"]
Tasks == {c \in Clients : client[c].pc \notin {"away", "refused"}}
FreeLanes == [d \in Domains |-> [state |-> "none", lock |-> NoHolder]]

At(c, pc) == client[c].pc = pc /\ ~client[c].cancelled
Goes(c, rec) == client' = [client EXCEPT ![c] = rec]
To(c, pc) == Goes(c, [client[c] EXCEPT !.pc = pc])
Serve(r) == [r EXCEPT !.pc = "bridge", !.served = @ + 1]
-----------------------------------------------------------------------------
(* _run *)

StartRun ==
    /\ run \in {"off", "ended"}
    /\ run' = "serving"
    /\ tcp' = [connecting |-> FALSE, retry |-> FALSE]
    /\ client' = [c \in Clients |-> Away]
    /\ UNCHANGED <<active, lane, favourite>>

(* Deviation: who comes while the proxy stops is served. *)
AcceptAlways(c) ==
    /\ run # "off" /\ run # "ended" /\ client[c].pc = "away"
    /\ Goes(c, NewClient) /\ active' = active + 1
    /\ UNCHANGED <<run, tcp, lane, favourite>>

(* client_cb: a connection accepted before the listener closed may still   *)
(* come after.                                                             *)
Accept(c) ==
    /\ run # "off" /\ run # "ended" /\ client[c].pc = "away"
    /\ IF run = "waiting" THEN To(c, "refused") /\ active' = active
       ELSE Goes(c, NewClient) /\ active' = active + 1
    /\ UNCHANGED <<run, tcp, lane, favourite>>

ListenerDies == run = "serving" /\ run' = "restarting" /\ UNCHANGED <<client, active, tcp, lane, favourite>>
ListenerRestored == run = "restarting" /\ run' = "serving" /\ UNCHANGED <<client, active, tcp, lane, favourite>>

(* The stop event, or a listener that cannot be restored: the finally      *)
(* clause cancels every client there is.                                   *)
StopRun ==
    /\ run \in {"serving", "restarting"}
    /\ run' = "waiting"
    /\ client' = [c \in Clients |-> [client[c] EXCEPT !.cancelled = c \in Tasks]]
    /\ UNCHANGED <<active, tcp, lane, favourite>>

(* All that were cancelled are gone; the pools are closed.                 *)
EndRun ==
    /\ run = "waiting" /\ \A c \in Tasks : ~client[c].cancelled
    /\ run' = "ended" /\ lane' = FreeLanes
    /\ UNCHANGED <<client, active, tcp, favourite>>

(* The refresh thread puts another list, and picks from it.                *)
DomainsRefreshed(d) == favourite' = d /\ UNCHANGED <<run, client, active, tcp, lane>>
-----------------------------------------------------------------------------
(* _handle_client *)

(* _read_client_init and _try_handshake: what is not a client is masked,   *)
(* redirected or read to its end; the rest asks the pool.                  *)
ReadInit(c) ==
    /\ At(c, "init")
    /\ \E pc \in {"finally", "drain", "masked", "pool"} : To(c, pc)
    /\ UNCHANGED <<run, active, tcp, lane, favourite>>

EndsUnserved(c) ==
    /\ At(c, "drain") \/ At(c, "masked")
    /\ To(c, "finally")
    /\ UNCHANGED <<run, active, tcp, lane, favourite>>

(* The methods of do_fallback, which the settings and the data center      *)
(* decide: workers and TCP need its address, HTTP/2 is for media.          *)
Methods ==
    LET cf == {<<>>, <<"cf">>, <<"h2", "cf">>} IN
    cf \cup {w \o m \o <<"tcp">> : w \in {<<>>, <<"worker">>}, m \in cf}

(* ws_pool.get, or do_fallback.                                            *)
GetFromPool(c) ==
    /\ At(c, "pool")
    /\ \/ Goes(c, [client[c] EXCEPT !.pc = "greet", !.up = "open"])
       \/ \E m \in Methods : Goes(c, [client[c] EXCEPT !.pc = "fallback", !.left = m])
    /\ UNCHANGED <<run, active, tcp, lane, favourite>>

NextMethod(r) == [r EXCEPT !.pc = "fallback", !.left = IF @ = <<>> THEN @ ELSE Tail(@), !.at = NoDomain]

(* The head of do_fallback's loop.  One attempt over TCP at a time.        *)
TryMethod(c) ==
    LET r == client[c] IN
    /\ At(c, "fallback")
    /\ CASE r.left = <<>> -> To(c, "finally") /\ tcp' = tcp
         [] r.left # <<>> /\ Head(r.left) \in {"worker", "cf", "h2"} ->
                Goes(c, [r EXCEPT !.pc = Head(r.left), !.todo = Domains]) /\ tcp' = tcp
         [] r.left # <<>> /\ Head(r.left) = "tcp" ->
                IF tcp.connecting \/ tcp.retry THEN Goes(c, NextMethod(r)) /\ tcp' = tcp
                ELSE To(c, "tcp") /\ tcp' = [tcp EXCEPT !.connecting = TRUE]
    /\ UNCHANGED <<run, active, lane, favourite>>

(* get_domains_for_dc: the favourite first, then the others.               *)
NextDomains(r) == IF r.todo = Domains /\ favourite # NoDomain THEN {favourite} ELSE r.todo

(* _cfproxy_fallback and _cfproxy_worker_fallback: a domain connects, or   *)
(* the next is tried.                                                      *)
TryDomain(c, d) ==
    LET r == client[c] IN
    /\ At(c, "cf") \/ At(c, "worker")
    /\ d \in NextDomains(r)
    /\ \/ /\ Goes(c, [r EXCEPT !.pc = "greet", !.up = "open"])
          /\ favourite' = IF r.pc = "cf" THEN d ELSE favourite
       \/ /\ Goes(c, IF r.todo = {d} THEN NextMethod(r) ELSE [r EXCEPT !.todo = @ \ {d}])
          /\ favourite' = favourite
    /\ UNCHANGED <<run, active, tcp, lane>>

TcpConnected(c) ==
    /\ At(c, "tcp")
    /\ tcp' = [connecting |-> FALSE, retry |-> FALSE]
    /\ Goes(c, [Serve(client[c]) EXCEPT !.up = "open"])
    /\ UNCHANGED <<run, active, lane, favourite>>

TcpFails(c) ==
    /\ At(c, "tcp")
    /\ tcp' = [connecting |-> FALSE, retry |-> TRUE]
    /\ Goes(c, NextMethod(client[c]))
    /\ UNCHANGED <<run, active, lane, favourite>>

TcpRetryDue == tcp.retry /\ tcp' = [tcp EXCEPT !.retry = FALSE] /\ UNCHANGED <<run, client, active, lane, favourite>>

AfterLane(r, d) ==
    IF r.todo = {d} THEN NextMethod(r)
    ELSE [r EXCEPT !.pc = "h2", !.todo = @ \ {d}, !.at = NoDomain]

(* CfH2Pool._open: the lock of the host, a lane it makes if there is none. *)
(* A host that has failed a while ago is left out.                         *)
LockLane(c, d) ==
    /\ At(c, "h2") /\ d \in NextDomains(client[c]) /\ lane[d].lock = NoHolder
    /\ \/ /\ lane[d].state = "up" /\ lane' = lane /\ favourite' = d
          /\ Goes(c, Serve(client[c]))
       \/ /\ lane[d].state = "none" /\ favourite' = favourite
          /\ lane' = [lane EXCEPT ![d] = [state |-> "preflight", lock |-> c]]
          /\ Goes(c, [client[c] EXCEPT !.pc = "preflight", !.at = d])
       \/ Goes(c, AfterLane(client[c], d)) /\ UNCHANGED <<lane, favourite>>
    /\ UNCHANGED <<run, active, tcp>>

LaneReady(c) ==
    LET d == client[c].at IN
    /\ At(c, "preflight")
    /\ lane' = [lane EXCEPT ![d] = [state |-> "up", lock |-> NoHolder]] /\ favourite' = d
    /\ Goes(c, Serve(client[c]))
    /\ UNCHANGED <<run, active, tcp>>

LaneFails(c) ==
    LET d == client[c].at IN
    /\ At(c, "preflight")
    /\ lane' = [lane EXCEPT ![d] = [state |-> "none", lock |-> NoHolder]]
    /\ Goes(c, AfterLane(client[c], d))
    /\ UNCHANGED <<run, active, tcp, favourite>>

(* SETUP_TIMEOUT of open, which may end the wait for the lock or a         *)
(* preflight, and a data center that had it lately.                        *)
H2Unavailable(c) ==
    LET r == client[c] IN
    /\ At(c, "h2") \/ At(c, "preflight")
    /\ lane' = IF r.pc = "preflight" THEN [lane EXCEPT ![r.at] = [state |-> "none", lock |-> NoHolder]] ELSE lane
    /\ Goes(c, NextMethod(r))
    /\ UNCHANGED <<run, active, tcp, favourite>>

(* ws.send(relay_init).  If it fails nothing closes the socket.            *)
Greet(c) ==
    /\ At(c, "greet")
    /\ \/ Goes(c, Serve(client[c]))
       \/ Goes(c, [client[c] EXCEPT !.pc = "finally", !.up = "dropped"])
    /\ UNCHANGED <<run, active, tcp, lane, favourite>>

(* Deviation: a session that ended is taken for one that never began. *)
BridgeEndsUnserved(c) ==
    /\ At(c, "bridge")
    /\ Goes(c, [NextMethod(client[c]) EXCEPT !.up = "closed"])
    /\ UNCHANGED <<run, active, tcp, lane, favourite>>

(* The end of bridge_ws_reencrypt and the like: the first of the two       *)
(* directions to end ends both.  A WebSocket its server closed is not      *)
(* closed again, and so left open.                                         *)
BridgeEnds(c) ==
    /\ At(c, "bridge")
    /\ \E up \in {"closed", "dropped"} :
          Goes(c, [client[c] EXCEPT !.pc = "finally", !.up = IF @ = "open" THEN up ELSE @])
    /\ UNCHANGED <<run, active, tcp, lane, favourite>>

(* Deviation: whoever is cancelled while it connects leaves its mark. *)
CancelledHolding(c) ==
    /\ client[c].cancelled /\ client[c].pc # "finally"
    /\ Goes(c, [client[c] EXCEPT !.pc = "finally", !.up = IF @ = "open" THEN "closed" ELSE @])
    /\ UNCHANGED <<run, active, tcp, lane, favourite>>

(* CancelledError comes out of the await the task is in, through every     *)
(* finally clause on its way.                                              *)
Cancelled(c) ==
    LET r == client[c] IN
    /\ r.cancelled /\ r.pc # "finally"
    /\ Goes(c, [r EXCEPT !.pc = "finally", !.up = IF @ # "open" THEN @ ELSE IF r.pc = "greet" THEN "dropped" ELSE "closed"])
    /\ tcp' = IF r.pc = "tcp" THEN [tcp EXCEPT !.connecting = FALSE] ELSE tcp
    /\ lane' = IF r.pc = "preflight" THEN [lane EXCEPT ![r.at] = [state |-> "none", lock |-> NoHolder]] ELSE lane
    /\ UNCHANGED <<run, active, favourite>>

(* The finally clause of _handle_client.                                   *)
ClientEnds(c) ==
    /\ client[c].pc = "finally"
    /\ Goes(c, [Away EXCEPT !.up = client[c].up])
    /\ active' = active - 1
    /\ UNCHANGED <<run, tcp, lane, favourite>>

ProxyInit ==
    /\ run = "off" /\ client = [c \in Clients |-> Away] /\ active = 0
    /\ tcp = [connecting |-> FALSE, retry |-> FALSE] /\ lane = FreeLanes /\ favourite = NoDomain

ProxyNext ==
    \/ StartRun \/ ListenerDies \/ ListenerRestored \/ StopRun \/ EndRun \/ TcpRetryDue
    \/ \E d \in Domains : DomainsRefreshed(d)
    \/ \E c \in Clients :
          \/ Accept(c) \/ ReadInit(c) \/ EndsUnserved(c) \/ GetFromPool(c) \/ TryMethod(c)
          \/ TcpConnected(c) \/ TcpFails(c) \/ LaneReady(c) \/ LaneFails(c) \/ H2Unavailable(c)
          \/ Greet(c) \/ BridgeEnds(c) \/ Cancelled(c) \/ ClientEnds(c)
          \/ \E d \in Domains : TryDomain(c, d) \/ LockLane(c, d)

ProxySpec == ProxyInit /\ [][ProxyNext]_proxyVars
-----------------------------------------------------------------------------
(* What clients share while they connect is always given back: an attempt  *)
(* over TCP and the lock of a lane belong to one client, which is at it.   *)
AttemptsOwned ==
    /\ Cardinality({c \in Clients : client[c].pc = "tcp"}) = IF tcp.connecting THEN 1 ELSE 0
    /\ \A d \in Domains :
          /\ lane[d].lock # NoHolder => client[lane[d].lock].pc = "preflight" /\ client[lane[d].lock].at = d
          /\ lane[d].state = "preflight" <=> lane[d].lock # NoHolder

(* A client's bytes go to one upstream only: once a session has begun no   *)
(* other route is tried with what is left of the client's stream.          *)
OneUpstream == \A c \in Clients : client[c].served <= 1

(* A proxy that has ended leaves no client, no socket that something still *)
(* was to close, no lane; and counts none.                                 *)
NothingLeft ==
    run = "ended" => Tasks = {} /\ active = 0 /\ lane = FreeLanes /\ \A c \in Clients : client[c].up # "open"
=============================================================================
