----------------------------- MODULE ProxyProofs -----------------------------
(***************************************************************************)
(* Theorems about the Telegram proxy at work: ProxyClient (the run and its *)
(* clients), H2Streams (the requests of one HTTP/2 connection), WsPool     *)
(* (the idle WebSockets) and ProxyStreams (the bytes of one connection).   *)
(***************************************************************************)
EXTENDS ProxyClient, H2Streams, WsPool, ProxyStreams, PlacesTheorems, SequenceTheorems,
        FiniteSetTheorems, TLAPS

(* The run and its clients.                                                *)

MethodNames == {"worker", "cf", "h2", "tcp"}
NoTask == {"away", "refused"}
Steps == NoTask \cup MethodNames \cup
    {"init", "drain", "masked", "pool", "fallback", "preflight", "greet", "bridge", "finally"}
ClientRec ==
    [pc : Steps, cancelled : BOOLEAN, left : Seq(MethodNames), todo : SUBSET Domains,
     at : Domains \cup {NoDomain}, up : {"none", "open", "closed", "dropped"}, served : Nat]

ClientTypeOK ==
    /\ run \in {"off", "serving", "restarting", "waiting", "ended"}
    /\ client \in [Clients -> ClientRec]
    /\ tcp \in [connecting : BOOLEAN, retry : BOOLEAN]
    /\ lane \in [Domains -> [state : {"none", "preflight", "up"}, lock : Clients \cup {NoHolder}]]

(* Of one client: an upstream is open only where something closes it, and  *)
(* none was given its bytes before it bridges.                             *)
RouteOK(r) ==
    /\ r.up = "open" => r.pc \in {"greet", "bridge"}
    /\ r.served # 0 => r.pc \in {"bridge", "finally"}
    /\ r.served <= 1
    /\ r.cancelled => r.pc \notin NoTask

(* One attempt over TCP, and who is at it.                                 *)
TcpOwned ==
    /\ tcp.connecting <=> \E c \in Clients : client[c].pc = "tcp"
    /\ \A c, e \in Clients : client[c].pc = "tcp" /\ client[e].pc = "tcp" => c = e

(* A lane's lock and its preflight belong together, either way.            *)
LanesOwned ==
    /\ \A d \in Domains :
          /\ lane[d].lock # NoHolder => client[lane[d].lock].pc = "preflight" /\ client[lane[d].lock].at = d
          /\ lane[d].state = "preflight" <=> lane[d].lock # NoHolder
    /\ \A c \in Clients :
          client[c].pc = "preflight" => client[c].at \in Domains /\ lane[client[c].at].lock = c

(* Every task is counted; a run that waits has cancelled every one, so     *)
(* that it ends with none.                                                 *)
Counted == active = Cardinality(Tasks)
Ending ==
    /\ run = "waiting" => \A c \in Tasks : client[c].cancelled
    /\ \A c \in Clients : client[c].cancelled => run = "waiting"
    /\ run \in {"off", "ended"} => Tasks = {} /\ lane = FreeLanes

ClientInv ==
    /\ ClientTypeOK /\ TcpOwned /\ LanesOwned /\ Counted /\ Ending
    /\ \A c \in Clients : RouteOK(client[c])

LEMMA ClientStart == ProxyInit => ClientInv
<1> SUFFICES ASSUME ProxyInit PROVE ClientInv
  OBVIOUS
<1>1. Away \in ClientRec /\ RouteOK(Away) /\ Away.pc = "away" /\ ~ Away.cancelled
  BY DEF Away, ClientRec, Steps, NoTask, MethodNames, RouteOK
<1>2. Tasks = {}
  BY <1>1 DEF ProxyInit, Tasks
<1>3. ClientTypeOK
  BY <1>1 DEF ProxyInit, ClientTypeOK, FreeLanes
<1>4. TcpOwned /\ LanesOwned
  BY <1>1 DEF ProxyInit, TcpOwned, LanesOwned, FreeLanes
<1>5. Counted /\ Ending
  BY <1>1, <1>2, FS_EmptySet DEF ProxyInit, Counted, Ending
<1> QED BY <1>1, <1>3, <1>4, <1>5 DEF ProxyInit, ClientInv

(* A step of one client that stays a task.  What it leaves alone and what  *)
(* is left to show of the TCP attempt and of the lanes are apart.          *)
LEMMA OneClient ==
    ASSUME ClientInv, NEW c \in Tasks, NEW rec \in ClientRec, Goes(c, rec),
           rec.pc \notin NoTask, rec.cancelled = client[c].cancelled, RouteOK(rec),
           UNCHANGED <<run, active>>
    PROVE  /\ client' \in [Clients -> ClientRec] /\ client'[c] = rec
           /\ \A e \in Clients \ {c} : client'[e] = client[e]
           /\ \A e \in Clients : RouteOK(client'[e])
           /\ Counted'
           /\ c \in Clients /\ run \notin {"off", "ended"}
           /\ Ending'
<1>1. c \in Clients /\ client[c].pc \notin NoTask
  BY DEF Tasks, NoTask
<1>2. /\ client' \in [Clients -> ClientRec] /\ client'[c] = rec
      /\ \A e \in Clients \ {c} : client'[e] = client[e]
  BY <1>1 DEF ClientInv, ClientTypeOK, Goes
<1>3. Tasks' = Tasks
  BY <1>1, <1>2 DEF Tasks, NoTask
<1>4. run \notin {"off", "ended"}
  BY DEF ClientInv, Ending
<1>5. \A e \in Clients : client'[e].cancelled = client[e].cancelled
  BY <1>1, <1>2
<1>6. \A e \in Clients : RouteOK(client'[e])
  BY <1>1, <1>2 DEF ClientInv
<1>7. Counted'
  BY <1>3 DEF ClientInv, Counted
<1>8. Ending'
  BY <1>3, <1>4, <1>5 DEF ClientInv, Ending, Tasks
<1> QED BY <1>1, <1>2, <1>4, <1>6, <1>7, <1>8

(* The attempt over TCP is no matter of a client that is not at it.        *)
LEMMA NotTcp ==
    ASSUME ClientInv, NEW c \in Clients, client[c].pc # "tcp", client'[c].pc # "tcp",
           \A e \in Clients \ {c} : client'[e] = client[e], tcp'.connecting = tcp.connecting
    PROVE  TcpOwned'
BY DEF ClientInv, TcpOwned

(* Nor are the lanes of one that holds none.                               *)
LEMMA NotLane ==
    ASSUME ClientInv, NEW c \in Clients, client[c].pc # "preflight", client'[c].pc # "preflight",
           \A e \in Clients \ {c} : client'[e] = client[e], lane' = lane
    PROVE  LanesOwned'
<1>1. \A d \in Domains : lane[d].lock \in Clients \cup {NoHolder}
  BY DEF ClientInv, ClientTypeOK
<1>2. \A e \in Clients : client'[e].pc = "preflight" => client[e].pc = "preflight" /\ client'[e] = client[e]
  OBVIOUS
<1>3. \A e \in Clients : client[e].pc = "preflight" => client'[e] = client[e]
  OBVIOUS
<1> QED BY <1>1, <1>2, <1>3 DEF ClientInv, LanesOwned

LEMMA TcpBack ==
    ASSUME ClientInv, NEW c \in Clients, client[c].pc = "tcp", client'[c].pc # "tcp",
           \A e \in Clients \ {c} : client'[e] = client[e], ~ tcp'.connecting
    PROVE  TcpOwned'
BY DEF ClientInv, TcpOwned

LEMMA LaneBack ==
    ASSUME ClientInv, NEW c \in Clients, client[c].pc = "preflight", client'[c].pc # "preflight",
           \A e \in Clients \ {c} : client'[e] = client[e],
           NEW state \in {"none", "up"},
           lane' = [lane EXCEPT ![client[c].at] = [state |-> state, lock |-> NoHolder]]
    PROVE  LanesOwned' /\ lane' \in [Domains -> [state : {"none", "preflight", "up"}, lock : Clients \cup {NoHolder}]]
<1> DEFINE d == client[c].at
<1>1. d \in Domains /\ lane[d].lock = c
  BY DEF ClientInv, LanesOwned
<1>2. lane \in [Domains -> [state : {"none", "preflight", "up"}, lock : Clients \cup {NoHolder}]]
  BY DEF ClientInv, ClientTypeOK
<1>3. \A f \in Domains \ {d} : lane'[f] = lane[f]
  BY <1>1, <1>2
<1>4. lane'[d] = [state |-> state, lock |-> NoHolder]
  BY <1>1, <1>2
<1>5. lane' \in [Domains -> [state : {"none", "preflight", "up"}, lock : Clients \cup {NoHolder}]]
  BY <1>1, <1>2
<1>6. \A f \in Domains \ {d} : lane[f].lock # c
  BY <1>1, <1>2, ClientsAssumption DEF ClientInv, LanesOwned
<1>7. ASSUME NEW f \in Domains
      PROVE  /\ lane'[f].lock # NoHolder => client'[lane'[f].lock].pc = "preflight" /\ client'[lane'[f].lock].at = f
             /\ lane'[f].state = "preflight" <=> lane'[f].lock # NoHolder
  <2>1. CASE f = d
    BY <2>1, <1>4
  <2>2. CASE f # d
    <3>1. lane'[f] = lane[f] /\ lane[f].lock # c /\ lane[f].lock \in Clients \cup {NoHolder}
      BY <2>2, <1>2, <1>3, <1>6
    <3> QED BY <3>1 DEF ClientInv, LanesOwned
  <2> QED BY <2>1, <2>2
<1>8. ASSUME NEW e \in Clients, client'[e].pc = "preflight"
      PROVE  client'[e].at \in Domains /\ lane'[client'[e].at].lock = e
  <2>1. e # c /\ client'[e] = client[e]
    BY <1>8
  <2>2. client[e].at \in Domains /\ lane[client[e].at].lock = e
    BY <1>8, <2>1 DEF ClientInv, LanesOwned
  <2>3. client[e].at # d
    BY <2>1, <2>2, <1>1
  <2> QED BY <2>1, <2>2, <2>3, <1>3
<1> QED BY <1>5, <1>7, <1>8 DEF LanesOwned

(* What the operators make of a client's record.                           *)
LEMMA NextMethodFacts ==
    ASSUME NEW r \in ClientRec
    PROVE  LET n == NextMethod(r) IN
           /\ n \in ClientRec /\ n.pc = "fallback" /\ n.cancelled = r.cancelled
           /\ n.up = r.up /\ n.served = r.served
<1>1. r.left \in Seq(MethodNames)
  BY DEF ClientRec
<1>2. (IF r.left = <<>> THEN r.left ELSE Tail(r.left)) \in Seq(MethodNames)
  BY <1>1
<1> QED BY <1>2 DEF NextMethod, ClientRec, Steps

LEMMA AfterLaneFacts ==
    ASSUME NEW r \in ClientRec, NEW d \in Domains
    PROVE  LET n == AfterLane(r, d) IN
           /\ n \in ClientRec /\ n.pc \in {"fallback", "h2"} /\ n.cancelled = r.cancelled
           /\ n.up = r.up /\ n.served = r.served
<1>1. CASE r.todo = {d}
  BY <1>1, NextMethodFacts DEF AfterLane
<1>2. CASE r.todo # {d}
  BY <1>2 DEF AfterLane, ClientRec, Steps, MethodNames
<1> QED BY <1>1, <1>2

LEMMA ServeFacts ==
    ASSUME NEW r \in ClientRec, r.served = 0
    PROVE  LET b == Serve(r) IN
           /\ b \in ClientRec /\ b.pc = "bridge" /\ b.cancelled = r.cancelled /\ b.up = r.up
           /\ b.served = 1 /\ RouteOK(b)
<1> DEFINE b1 == [r EXCEPT !.pc = "bridge"]
           b2 == [b1 EXCEPT !.served = 1]
<1>1. b1 \in ClientRec /\ b1.pc = "bridge" /\ b1.cancelled = r.cancelled /\ b1.up = r.up
  BY DEF ClientRec, Steps
<1>2. b2 \in ClientRec /\ b2.pc = "bridge" /\ b2.cancelled = r.cancelled /\ b2.up = r.up /\ b2.served = 1
  <2> HIDE DEF b1
  <2> QED BY <1>1 DEF ClientRec
<1>3. Serve(r) = b2
  BY DEF Serve, ClientRec
<1>4. RouteOK(b2)
  <2> HIDE DEF b2
  <2> QED BY <1>2 DEF RouteOK, NoTask
<1> HIDE DEF b2
<1> QED BY <1>2, <1>3, <1>4

LEMMA MethodsTyped == Methods \subseteq Seq(MethodNames)
<1> DEFINE cf == {<<>>, <<"cf">>, <<"h2", "cf">>}
<1>1. "worker" \in MethodNames /\ "cf" \in MethodNames /\ "h2" \in MethodNames /\ "tcp" \in MethodNames
  BY DEF MethodNames
<1>2. /\ <<>> \in Seq(MethodNames) /\ <<"cf">> \in Seq(MethodNames)
      /\ <<"h2", "cf">> \in Seq(MethodNames)
      /\ <<"worker">> \in Seq(MethodNames) /\ <<"tcp">> \in Seq(MethodNames)
  BY <1>1
<1>3. cf \subseteq Seq(MethodNames)
  BY <1>2
<1>4. ASSUME NEW w \in {<<>>, <<"worker">>}, NEW m \in cf
      PROVE  w \o m \o <<"tcp">> \in Seq(MethodNames)
  <2>1. w \in Seq(MethodNames) /\ m \in Seq(MethodNames)
    BY <1>2, <1>3
  <2>2. w \o m \in Seq(MethodNames)
    BY <2>1
  <2> QED BY <1>2, <2>2
<1> HIDE DEF cf
<1>5. ASSUME NEW m \in Methods PROVE m \in Seq(MethodNames)
  <2>1. CASE m \in cf
    BY <1>3, <2>1
  <2>2. CASE m \notin cf
    <3>1. PICK w \in {<<>>, <<"worker">>}, n \in cf : m = w \o n \o <<"tcp">>
      BY <2>2 DEF Methods, cf
    <3> QED BY <1>4, <3>1
  <2> QED BY <2>1, <2>2
<1> QED BY <1>5

(* Steps of one client that touch neither the TCP attempt nor a lane.      *)
LEMMA PlainSteps ==
    ASSUME ClientInv, NEW c \in Clients,
           \/ ReadInit(c) \/ EndsUnserved(c) \/ GetFromPool(c) \/ Greet(c) \/ BridgeEnds(c)
           \/ \E d \in Domains : TryDomain(c, d)
    PROVE  ClientInv'
<1> DEFINE r == client[c]
<1>1. r \in ClientRec /\ RouteOK(r)
  BY DEF ClientInv, ClientTypeOK
<1>2. UNCHANGED <<run, active, tcp, lane>>
  BY DEF ReadInit, EndsUnserved, GetFromPool, Greet, BridgeEnds, TryDomain
<1>3. PICK rec \in ClientRec :
         /\ Goes(c, rec) /\ rec.pc \notin NoTask \cup {"tcp", "preflight"}
         /\ r.pc \notin NoTask \cup {"tcp", "preflight"}
         /\ rec.cancelled = r.cancelled /\ RouteOK(rec)
  <2>1. CASE ReadInit(c)
    <3>1. PICK pc \in {"finally", "drain", "masked", "pool"} : To(c, pc) /\ r.pc = "init"
      BY <2>1 DEF ReadInit, At
    <3>2. [r EXCEPT !.pc = pc] \in ClientRec /\ RouteOK([r EXCEPT !.pc = pc])
      BY <1>1, <3>1 DEF ClientRec, Steps, RouteOK, NoTask
    <3> QED BY <1>1, <3>1, <3>2 DEF To, NoTask, ClientRec
  <2>2. CASE EndsUnserved(c)
    <3>1. To(c, "finally") /\ r.pc \in {"drain", "masked"}
      BY <2>2 DEF EndsUnserved, At
    <3>2. [r EXCEPT !.pc = "finally"] \in ClientRec /\ RouteOK([r EXCEPT !.pc = "finally"])
      BY <1>1, <3>1 DEF ClientRec, Steps, RouteOK, NoTask
    <3> QED BY <1>1, <3>1, <3>2 DEF To, NoTask, ClientRec
  <2>3. CASE GetFromPool(c)
    <3>1. r.pc = "pool"
      BY <2>3 DEF GetFromPool, At
    <3>2. CASE Goes(c, [r EXCEPT !.pc = "greet", !.up = "open"])
      <4>1. [r EXCEPT !.pc = "greet", !.up = "open"] \in ClientRec
        BY <1>1 DEF ClientRec, Steps
      <4> QED BY <1>1, <3>1, <3>2, <4>1 DEF NoTask, ClientRec, RouteOK
    <3>3. ASSUME NEW m \in Methods, Goes(c, [r EXCEPT !.pc = "fallback", !.left = m])
          PROVE  \E rec \in ClientRec :
                    /\ Goes(c, rec) /\ rec.pc \notin NoTask \cup {"tcp", "preflight"}
                    /\ rec.cancelled = r.cancelled /\ RouteOK(rec)
      <4>1. m \in Seq(MethodNames)
        BY <3>3, MethodsTyped
      <4>2. [r EXCEPT !.pc = "fallback", !.left = m] \in ClientRec
        BY <1>1, <4>1 DEF ClientRec, Steps
      <4> QED BY <1>1, <3>1, <3>3, <4>2 DEF NoTask, ClientRec, RouteOK
    <3> QED BY <2>3, <3>1, <3>2, <3>3 DEF GetFromPool, NoTask
  <2>4. CASE Greet(c)
    <3>1. r.pc = "greet"
      BY <2>4 DEF Greet, At
    <3>2. r.served = 0
      BY <1>1, <3>1 DEF RouteOK
    <3> DEFINE begun == Serve(r)
    <3>3. begun \in ClientRec /\ begun.pc = "bridge" /\ begun.cancelled = r.cancelled /\ RouteOK(begun)
      BY <1>1, <3>2, ServeFacts
    <3>4. CASE Goes(c, begun)
      <4> HIDE DEF begun
      <4> QED BY <1>1, <3>1, <3>3, <3>4 DEF NoTask
    <3>5. CASE Goes(c, [r EXCEPT !.pc = "finally", !.up = "dropped"])
      <4> DEFINE rec == [r EXCEPT !.pc = "finally", !.up = "dropped"]
      <4>1. rec \in ClientRec
        BY <1>1 DEF ClientRec, Steps
      <4>2. rec.pc = "finally" /\ rec.up = "dropped" /\ rec.cancelled = r.cancelled /\ rec.served = r.served
        BY <1>1 DEF ClientRec
      <4>3. RouteOK(rec)
        BY <1>1, <3>1, <4>2 DEF RouteOK, NoTask
      <4> HIDE DEF rec
      <4> QED BY <1>1, <3>1, <3>5, <4>1, <4>2, <4>3 DEF NoTask, rec
    <3> QED BY <2>4, <3>4, <3>5 DEF Greet
  <2>5. CASE BridgeEnds(c)
    <3>1. PICK up \in {"closed", "dropped"} :
             /\ Goes(c, [r EXCEPT !.pc = "finally", !.up = IF r.up = "open" THEN up ELSE r.up])
             /\ r.pc = "bridge"
      BY <2>5 DEF BridgeEnds, At
    <3>2. [r EXCEPT !.pc = "finally", !.up = IF r.up = "open" THEN up ELSE r.up] \in ClientRec
      BY <1>1, <3>1 DEF ClientRec, Steps
    <3> QED BY <1>1, <3>1, <3>2 DEF NoTask, ClientRec, RouteOK
  <2>6. ASSUME NEW d \in Domains, TryDomain(c, d)
        PROVE  \E rec \in ClientRec :
                  /\ Goes(c, rec) /\ rec.pc \notin NoTask \cup {"tcp", "preflight"}
                  /\ r.pc \notin NoTask \cup {"tcp", "preflight"}
                  /\ rec.cancelled = r.cancelled /\ RouteOK(rec)
    <3>1. r.pc \in {"cf", "worker"}
      BY <2>6 DEF TryDomain, At
    <3>2. CASE Goes(c, [r EXCEPT !.pc = "greet", !.up = "open"])
      <4>1. [r EXCEPT !.pc = "greet", !.up = "open"] \in ClientRec
        BY <1>1 DEF ClientRec, Steps
      <4> QED BY <1>1, <3>1, <3>2, <4>1 DEF NoTask, ClientRec, RouteOK
    <3>3. CASE Goes(c, NextMethod(r))
      BY <1>1, <3>1, <3>3, NextMethodFacts DEF NoTask, RouteOK
    <3>4. CASE Goes(c, [r EXCEPT !.todo = r.todo \ {d}])
      <4>1. [r EXCEPT !.todo = r.todo \ {d}] \in ClientRec
        BY <1>1 DEF ClientRec
      <4> QED BY <1>1, <3>1, <3>4, <4>1 DEF NoTask, ClientRec, RouteOK
    <3> QED BY <2>6, <3>2, <3>3, <3>4 DEF TryDomain
  <2> QED BY <2>1, <2>2, <2>3, <2>4, <2>5, <2>6
<1>4. c \in Tasks
  BY <1>3 DEF Tasks, NoTask
<1>5. /\ client' \in [Clients -> ClientRec] /\ client'[c] = rec
      /\ \A e \in Clients \ {c} : client'[e] = client[e]
      /\ \A e \in Clients : RouteOK(client'[e])
      /\ Counted' /\ Ending'
  BY <1>2, <1>3, <1>4, OneClient
<1>6. TcpOwned'
  BY <1>2, <1>3, <1>5, NotTcp
<1>7. LanesOwned'
  BY <1>2, <1>3, <1>5, NotLane
<1>8. ClientTypeOK'
  BY <1>2, <1>5 DEF ClientInv, ClientTypeOK
<1> QED BY <1>5, <1>6, <1>7, <1>8 DEF ClientInv

(* A client turns to the next method, or to the TCP attempt if it is free. *)
LEMMA MethodTried ==
    ASSUME ClientInv, NEW c \in Clients, TryMethod(c)
    PROVE  ClientInv'
<1> DEFINE r == client[c]
<1>1. r \in ClientRec /\ RouteOK(r) /\ r.pc = "fallback" /\ c \in Tasks
  BY DEF ClientInv, ClientTypeOK, TryMethod, At, Tasks
<1>2. UNCHANGED <<run, active, lane>> /\ tcp \in [connecting : BOOLEAN, retry : BOOLEAN]
  BY DEF TryMethod, ClientInv, ClientTypeOK
<1>3. r.up # "open" /\ r.served = 0
  BY <1>1 DEF RouteOK
<1>4. CASE tcp' = tcp /\ \E rec \in ClientRec :
              /\ Goes(c, rec) /\ rec.pc \notin NoTask \cup {"tcp", "preflight"}
              /\ rec.cancelled = r.cancelled /\ RouteOK(rec)
  <2>1. PICK rec \in ClientRec :
           /\ Goes(c, rec) /\ rec.pc \notin NoTask \cup {"tcp", "preflight"}
           /\ rec.cancelled = r.cancelled /\ RouteOK(rec)
    BY <1>4
  <2>2. /\ client' \in [Clients -> ClientRec] /\ client'[c] = rec
        /\ \A e \in Clients \ {c} : client'[e] = client[e]
        /\ \A e \in Clients : RouteOK(client'[e])
        /\ Counted' /\ Ending'
    BY <1>1, <1>2, <2>1, OneClient
  <2>3. TcpOwned' /\ LanesOwned'
    BY <1>1, <1>2, <1>4, <2>1, <2>2, NotTcp, NotLane
  <2>4. ClientTypeOK'
    BY <1>2, <1>4, <2>2 DEF ClientInv, ClientTypeOK
  <2> QED BY <2>2, <2>3, <2>4 DEF ClientInv
<1>5. CASE To(c, "finally") /\ tcp' = tcp
  <2>1. [r EXCEPT !.pc = "finally"] \in ClientRec
    BY <1>1 DEF ClientRec, Steps
  <2> QED BY <1>1, <1>3, <1>4, <1>5, <2>1 DEF To, ClientRec, RouteOK, NoTask
<1>6. CASE /\ r.left # <<>> /\ Head(r.left) \in {"worker", "cf", "h2"}
           /\ Goes(c, [r EXCEPT !.pc = Head(r.left), !.todo = Domains]) /\ tcp' = tcp
  <2> DEFINE rec == [r EXCEPT !.pc = Head(r.left), !.todo = Domains]
  <2>1. rec \in ClientRec
    BY <1>1, <1>6 DEF ClientRec, Steps, MethodNames
  <2>2. rec.pc \in {"worker", "cf", "h2"} /\ rec.cancelled = r.cancelled /\ rec.up = r.up /\ rec.served = r.served
    BY <1>1, <1>6 DEF ClientRec
  <2>3. rec.pc \notin NoTask \cup {"tcp", "preflight"} /\ RouteOK(rec)
    BY <1>3, <2>2, <1>1 DEF RouteOK, NoTask
  <2> HIDE DEF rec
  <2>4. Goes(c, rec)
    BY <1>6 DEF rec
  <2> QED BY <1>4, <1>6, <2>1, <2>2, <2>3, <2>4
<1>7. CASE Goes(c, NextMethod(r)) /\ tcp' = tcp
  <2> DEFINE rec == NextMethod(r)
  <2>1. rec \in ClientRec /\ rec.pc = "fallback" /\ rec.cancelled = r.cancelled /\ rec.up = r.up /\ rec.served = r.served
    BY <1>1, NextMethodFacts
  <2>2. rec.pc \notin NoTask \cup {"tcp", "preflight"} /\ RouteOK(rec)
    BY <1>1, <2>1 DEF RouteOK, NoTask
  <2> HIDE DEF rec
  <2>3. Goes(c, rec)
    BY <1>7 DEF rec
  <2> QED BY <1>4, <1>7, <2>1, <2>2, <2>3
<1>8. CASE To(c, "tcp") /\ ~ tcp.connecting /\ tcp' = [tcp EXCEPT !.connecting = TRUE]
  <2> DEFINE rec == [r EXCEPT !.pc = "tcp"]
  <2>1. rec \in ClientRec /\ rec.pc = "tcp" /\ rec.cancelled = r.cancelled /\ RouteOK(rec)
    BY <1>1, <1>3 DEF ClientRec, Steps, MethodNames, RouteOK, NoTask
  <2>2. Goes(c, rec)
    BY <1>8 DEF To
  <2> HIDE DEF rec
  <2>3. /\ client' \in [Clients -> ClientRec] /\ client'[c] = rec
        /\ \A e \in Clients \ {c} : client'[e] = client[e]
        /\ \A e \in Clients : RouteOK(client'[e])
        /\ Counted' /\ Ending'
    BY <1>1, <1>2, <2>1, <2>2, OneClient DEF NoTask
  <2>4. tcp' \in [connecting : BOOLEAN, retry : BOOLEAN] /\ tcp'.connecting
    BY <1>2, <1>8
  <2>5. \A e \in Clients : client[e].pc # "tcp"
    BY <1>8 DEF ClientInv, TcpOwned
  <2>6. TcpOwned'
    BY <2>1, <2>3, <2>4, <2>5 DEF TcpOwned
  <2>7. LanesOwned'
    BY <1>1, <1>2, <2>1, <2>3, NotLane
  <2>8. ClientTypeOK'
    BY <1>2, <2>3, <2>4 DEF ClientInv, ClientTypeOK
  <2> QED BY <2>3, <2>6, <2>7, <2>8 DEF ClientInv
<1>9. r.left # <<>> => Head(r.left) \in MethodNames
  BY <1>1 DEF ClientRec
<1>10. CASE r.left = <<>>
  BY <1>5, <1>10 DEF TryMethod
<1>11. CASE r.left # <<>> /\ Head(r.left) \in {"worker", "cf", "h2"}
  BY <1>6, <1>11 DEF TryMethod
<1>12. CASE r.left # <<>> /\ Head(r.left) = "tcp"
  BY <1>7, <1>8, <1>12 DEF TryMethod
<1> QED BY <1>9, <1>10, <1>11, <1>12 DEF MethodNames

(* The attempt over TCP ends, one way or the other.                        *)
LEMMA TcpEnds ==
    ASSUME ClientInv, NEW c \in Clients, TcpConnected(c) \/ TcpFails(c)
    PROVE  ClientInv'
<1> DEFINE r == client[c]
<1>1. r \in ClientRec /\ RouteOK(r) /\ r.pc = "tcp" /\ c \in Tasks
  BY DEF ClientInv, ClientTypeOK, TcpConnected, TcpFails, At, Tasks
<1>2. /\ UNCHANGED <<run, active, lane>>
      /\ tcp' \in [connecting : BOOLEAN, retry : BOOLEAN] /\ ~ tcp'.connecting
  <2>1. \E b \in BOOLEAN : tcp' = [connecting |-> FALSE, retry |-> b]
    BY DEF TcpConnected, TcpFails
  <2>2. UNCHANGED <<run, active, lane>>
    BY DEF TcpConnected, TcpFails
  <2> QED BY <2>1, <2>2
<1>3. r.up # "open" /\ r.served = 0
  BY <1>1 DEF RouteOK
<1>4. PICK rec \in ClientRec :
         /\ Goes(c, rec) /\ rec.pc \in {"bridge", "fallback"}
         /\ rec.cancelled = r.cancelled /\ RouteOK(rec)
  <2>1. CASE TcpConnected(c)
    <3> DEFINE b == Serve(r)
               rec == [b EXCEPT !.up = "open"]
    <3>1. b \in ClientRec /\ b.pc = "bridge" /\ b.cancelled = r.cancelled /\ b.served = 1
      BY <1>1, <1>3, ServeFacts
    <3>2. Goes(c, rec)
      BY <2>1 DEF TcpConnected
    <3> HIDE DEF b
    <3>3. rec \in ClientRec /\ rec.pc = "bridge" /\ rec.cancelled = r.cancelled /\ rec.served = 1
      BY <3>1 DEF ClientRec
    <3> HIDE DEF rec
    <3>4. RouteOK(rec)
      BY <3>3 DEF RouteOK, NoTask
    <3> QED BY <3>2, <3>3, <3>4
  <2>2. CASE TcpFails(c)
    <3> DEFINE rec == NextMethod(r)
    <3>1. Goes(c, rec)
      BY <2>2 DEF TcpFails
    <3>2. rec \in ClientRec /\ rec.pc = "fallback" /\ rec.cancelled = r.cancelled /\ rec.up = r.up /\ rec.served = r.served
      BY <1>1, NextMethodFacts
    <3> HIDE DEF rec
    <3> QED BY <1>1, <1>3, <3>1, <3>2 DEF RouteOK, NoTask
  <2> QED BY <2>1, <2>2
<1>5. /\ client' \in [Clients -> ClientRec] /\ client'[c] = rec
      /\ \A e \in Clients \ {c} : client'[e] = client[e]
      /\ \A e \in Clients : RouteOK(client'[e])
      /\ Counted' /\ Ending'
  BY <1>1, <1>2, <1>4, OneClient DEF NoTask
<1>6. TcpOwned'
  BY <1>1, <1>2, <1>4, <1>5, TcpBack
<1>7. LanesOwned'
  BY <1>1, <1>2, <1>4, <1>5, NotLane
<1>8. ClientTypeOK'
  BY <1>2, <1>5 DEF ClientInv, ClientTypeOK
<1> QED BY <1>5, <1>6, <1>7, <1>8 DEF ClientInv

(* A client that holds no lane takes one that is up, leaves the host out,  *)
(* or begins a preflight under its lock.                                   *)
LEMMA LaneLocked ==
    ASSUME ClientInv, NEW c \in Clients, NEW d \in Domains, LockLane(c, d)
    PROVE  ClientInv'
<1> DEFINE r == client[c]
<1>1. r \in ClientRec /\ RouteOK(r) /\ r.pc = "h2" /\ c \in Tasks
  BY DEF ClientInv, ClientTypeOK, LockLane, At, Tasks
<1>2. UNCHANGED <<run, active, tcp>>
  BY DEF LockLane
<1>3. r.up # "open" /\ r.served = 0
  BY <1>1 DEF RouteOK
<1>4. CASE lane' = lane /\ (Goes(c, Serve(r)) \/ Goes(c, AfterLane(r, d)))
  <2>1. PICK rec \in ClientRec :
           /\ Goes(c, rec) /\ rec.pc \in {"bridge", "fallback", "h2"}
           /\ rec.cancelled = r.cancelled /\ RouteOK(rec)
    <3>1. CASE Goes(c, Serve(r))
      BY <1>1, <1>3, <3>1, ServeFacts
    <3>2. CASE Goes(c, AfterLane(r, d))
      <4> DEFINE rec == AfterLane(r, d)
      <4>1. rec \in ClientRec /\ rec.pc \in {"fallback", "h2"} /\ rec.cancelled = r.cancelled /\ rec.up = r.up /\ rec.served = r.served
        BY <1>1, AfterLaneFacts
      <4>2. Goes(c, rec)
        BY <3>2
      <4> HIDE DEF rec
      <4> QED BY <1>1, <1>3, <4>1, <4>2 DEF RouteOK, NoTask
    <3> QED BY <1>4, <3>1, <3>2
  <2>2. /\ client' \in [Clients -> ClientRec] /\ client'[c] = rec
        /\ \A e \in Clients \ {c} : client'[e] = client[e]
        /\ \A e \in Clients : RouteOK(client'[e])
        /\ Counted' /\ Ending'
    BY <1>1, <1>2, <2>1, OneClient DEF NoTask
  <2>3. TcpOwned' /\ LanesOwned'
    BY <1>1, <1>2, <1>4, <2>1, <2>2, NotTcp, NotLane
  <2>4. ClientTypeOK'
    BY <1>2, <1>4, <2>2 DEF ClientInv, ClientTypeOK
  <2> QED BY <2>2, <2>3, <2>4 DEF ClientInv
<1>5. CASE /\ lane' = [lane EXCEPT ![d] = [state |-> "preflight", lock |-> c]]
           /\ Goes(c, [r EXCEPT !.pc = "preflight", !.at = d])
  <2> DEFINE rec == [r EXCEPT !.pc = "preflight", !.at = d]
  <2>1. rec \in ClientRec /\ rec.pc = "preflight" /\ rec.at = d
    BY <1>1 DEF ClientRec, Steps
  <2>2. rec.cancelled = r.cancelled /\ rec.up = r.up /\ rec.served = r.served
    BY <1>1 DEF ClientRec
  <2>3. Goes(c, rec)
    BY <1>5
  <2> HIDE DEF rec
  <2>4. RouteOK(rec)
    BY <1>1, <1>3, <2>1, <2>2 DEF RouteOK, NoTask
  <2>5. /\ client' \in [Clients -> ClientRec] /\ client'[c] = rec
        /\ \A e \in Clients \ {c} : client'[e] = client[e]
        /\ \A e \in Clients : RouteOK(client'[e])
        /\ Counted' /\ Ending'
    BY <1>1, <1>2, <2>1, <2>2, <2>3, <2>4, OneClient DEF NoTask
  <2>6. TcpOwned'
    BY <1>1, <1>2, <2>1, <2>5, NotTcp
  <2>7. lane \in [Domains -> [state : {"none", "preflight", "up"}, lock : Clients \cup {NoHolder}]]
    BY DEF ClientInv, ClientTypeOK
  <2>8. /\ lane'[d] = [state |-> "preflight", lock |-> c]
        /\ \A f \in Domains \ {d} : lane'[f] = lane[f]
        /\ lane' \in [Domains -> [state : {"none", "preflight", "up"}, lock : Clients \cup {NoHolder}]]
    BY <1>5, <2>7
  <2>9. lane[d].lock = NoHolder /\ c # NoHolder
    BY ClientsAssumption DEF LockLane
  <2>10. ASSUME NEW f \in Domains
         PROVE  /\ lane'[f].lock # NoHolder => client'[lane'[f].lock].pc = "preflight" /\ client'[lane'[f].lock].at = f
                /\ lane'[f].state = "preflight" <=> lane'[f].lock # NoHolder
    <3>1. CASE f = d
      BY <3>1, <2>1, <2>5, <2>8, <2>9
    <3>2. CASE f # d
      <4>1. lane'[f] = lane[f] /\ lane[f].lock \in Clients \cup {NoHolder}
        BY <3>2, <2>7, <2>8
      <4>2. lane[f].lock # NoHolder => lane[f].lock # c
        BY <1>1 DEF ClientInv, LanesOwned
      <4> QED BY <4>1, <4>2, <2>5 DEF ClientInv, LanesOwned
    <3> QED BY <3>1, <3>2
  <2>11. ASSUME NEW e \in Clients, client'[e].pc = "preflight"
         PROVE  client'[e].at \in Domains /\ lane'[client'[e].at].lock = e
    <3>1. CASE e = c
      BY <3>1, <2>1, <2>5, <2>8
    <3>2. CASE e # c
      <4>1. client'[e] = client[e] /\ client[e].at \in Domains /\ lane[client[e].at].lock = e
        BY <3>2, <2>5, <2>11 DEF ClientInv, LanesOwned
      <4>2. client[e].at # d
        BY <4>1, <2>9, ClientsAssumption
      <4> QED BY <4>1, <4>2, <2>8
    <3> QED BY <3>1, <3>2
  <2>12. LanesOwned'
    BY <2>10, <2>11 DEF LanesOwned
  <2>13. ClientTypeOK'
    BY <1>2, <2>5, <2>8 DEF ClientInv, ClientTypeOK
  <2> QED BY <2>5, <2>6, <2>12, <2>13 DEF ClientInv
<1> QED BY <1>4, <1>5 DEF LockLane

(* A preflight ends: its client goes on, and the lane is up or gone.       *)
LEMMA PreflightEnds ==
    ASSUME ClientInv, NEW c \in Clients, client[c].pc = "preflight",
           LaneReady(c) \/ LaneFails(c) \/ H2Unavailable(c)
    PROVE  ClientInv'
<1> DEFINE r == client[c]
<1>1. r \in ClientRec /\ RouteOK(r) /\ r.pc = "preflight" /\ c \in Tasks
  BY DEF ClientInv, ClientTypeOK, Tasks
<1>2. UNCHANGED <<run, active, tcp>> /\ r.at \in Domains
  BY <1>1 DEF LaneReady, LaneFails, H2Unavailable, ClientInv, LanesOwned
<1>3. r.up # "open" /\ r.served = 0
  BY <1>1 DEF RouteOK
<1>4. PICK rec \in ClientRec :
         /\ Goes(c, rec) /\ rec.pc \in {"bridge", "fallback", "h2"}
         /\ rec.cancelled = r.cancelled /\ RouteOK(rec)
  <2>1. CASE LaneReady(c)
    BY <1>1, <1>3, <2>1, ServeFacts DEF LaneReady
  <2>2. CASE Goes(c, AfterLane(r, r.at))
    <3> DEFINE rec == AfterLane(r, r.at)
    <3>1. rec \in ClientRec /\ rec.pc \in {"fallback", "h2"} /\ rec.cancelled = r.cancelled /\ rec.up = r.up /\ rec.served = r.served
      BY <1>1, <1>2, AfterLaneFacts
    <3>2. Goes(c, rec)
      BY <2>2
    <3> HIDE DEF rec
    <3> QED BY <1>1, <1>3, <3>1, <3>2 DEF RouteOK, NoTask
  <2>3. CASE Goes(c, NextMethod(r))
    <3> DEFINE rec == NextMethod(r)
    <3>1. rec \in ClientRec /\ rec.pc = "fallback" /\ rec.cancelled = r.cancelled /\ rec.up = r.up /\ rec.served = r.served
      BY <1>1, NextMethodFacts
    <3>2. Goes(c, rec)
      BY <2>3
    <3> HIDE DEF rec
    <3> QED BY <1>1, <1>3, <3>1, <3>2 DEF RouteOK, NoTask
  <2> QED BY <2>1, <2>2, <2>3 DEF LaneFails, H2Unavailable
<1>5. PICK state \in {"none", "up"} : lane' = [lane EXCEPT ![r.at] = [state |-> state, lock |-> NoHolder]]
  BY <1>1 DEF LaneReady, LaneFails, H2Unavailable
<1>6. /\ client' \in [Clients -> ClientRec] /\ client'[c] = rec
      /\ \A e \in Clients \ {c} : client'[e] = client[e]
      /\ \A e \in Clients : RouteOK(client'[e])
      /\ Counted' /\ Ending'
  BY <1>1, <1>2, <1>4, OneClient DEF NoTask
<1>7. TcpOwned'
  BY <1>1, <1>2, <1>4, <1>6, NotTcp
<1>8. LanesOwned' /\ lane' \in [Domains -> [state : {"none", "preflight", "up"}, lock : Clients \cup {NoHolder}]]
  BY <1>1, <1>4, <1>5, <1>6, LaneBack
<1>9. ClientTypeOK'
  BY <1>2, <1>6, <1>8 DEF ClientInv, ClientTypeOK
<1> QED BY <1>6, <1>7, <1>8, <1>9 DEF ClientInv

LEMMA H2GivenUp ==
    ASSUME ClientInv, NEW c \in Clients, H2Unavailable(c)
    PROVE  ClientInv'
<1> DEFINE r == client[c]
           rec == NextMethod(r)
<1>1. CASE r.pc = "preflight"
  BY <1>1, PreflightEnds
<1>2. CASE r.pc # "preflight"
  <2>1. r \in ClientRec /\ RouteOK(r) /\ r.pc = "h2" /\ c \in Tasks
    BY <1>2 DEF ClientInv, ClientTypeOK, H2Unavailable, At, Tasks
  <2>2. UNCHANGED <<run, active, tcp, lane>> /\ Goes(c, rec)
    BY <1>2 DEF H2Unavailable
  <2>3. rec \in ClientRec /\ rec.pc = "fallback" /\ rec.cancelled = r.cancelled /\ rec.up = r.up /\ rec.served = r.served
    BY <2>1, NextMethodFacts
  <2> HIDE DEF rec
  <2>4. RouteOK(rec) /\ rec.pc \notin NoTask
    BY <2>1, <2>3 DEF RouteOK, NoTask
  <2>5. /\ client' \in [Clients -> ClientRec] /\ client'[c] = rec
        /\ \A e \in Clients \ {c} : client'[e] = client[e]
        /\ \A e \in Clients : RouteOK(client'[e])
        /\ Counted' /\ Ending'
    BY <2>1, <2>2, <2>3, <2>4, OneClient
  <2>6. TcpOwned' /\ LanesOwned'
    BY <2>1, <2>2, <2>3, <2>5, NotTcp, NotLane
  <2>7. ClientTypeOK'
    BY <2>2, <2>5 DEF ClientInv, ClientTypeOK
  <2> QED BY <2>5, <2>6, <2>7 DEF ClientInv
<1> QED BY <1>1, <1>2

(* CancelledError: the client gives back whatever it holds.                *)
LEMMA Cancellation ==
    ASSUME ClientInv, NEW c \in Clients, Cancelled(c)
    PROVE  ClientInv'
<1> DEFINE r == client[c]
           gone == IF r.up # "open" THEN r.up ELSE IF r.pc = "greet" THEN "dropped" ELSE "closed"
           rec == [r EXCEPT !.pc = "finally", !.up = gone]
<1>1. r \in ClientRec /\ RouteOK(r) /\ r.pc # "finally" /\ r.cancelled
  BY DEF ClientInv, ClientTypeOK, Cancelled
<1>2. c \in Tasks /\ UNCHANGED <<run, active>> /\ Goes(c, rec)
  BY <1>1 DEF RouteOK, NoTask, Tasks, Cancelled
<1>3. gone \in {"none", "closed", "dropped"}
  BY <1>1 DEF ClientRec
<1>4. rec \in ClientRec /\ rec.pc = "finally" /\ rec.cancelled = r.cancelled /\ rec.up # "open" /\ rec.served = r.served
  <2> HIDE DEF gone
  <2> QED BY <1>1, <1>3 DEF ClientRec, Steps
<1> HIDE DEF rec
<1>5. RouteOK(rec)
  BY <1>1, <1>4 DEF RouteOK, NoTask
<1>6. /\ client' \in [Clients -> ClientRec] /\ client'[c] = rec
      /\ \A e \in Clients \ {c} : client'[e] = client[e]
      /\ \A e \in Clients : RouteOK(client'[e])
      /\ Counted' /\ Ending'
  BY <1>1, <1>2, <1>4, <1>5, OneClient DEF NoTask
<1>7. TcpOwned' /\ tcp' \in [connecting : BOOLEAN, retry : BOOLEAN]
  <2>1. tcp \in [connecting : BOOLEAN, retry : BOOLEAN]
    BY DEF ClientInv, ClientTypeOK
  <2>2. CASE r.pc = "tcp"
    <3>1. tcp' = [tcp EXCEPT !.connecting = FALSE]
      BY <2>2 DEF Cancelled
    <3>2. ~ tcp'.connecting /\ tcp' \in [connecting : BOOLEAN, retry : BOOLEAN]
      BY <2>1, <3>1
    <3> QED BY <1>4, <1>6, <2>2, <3>2, TcpBack
  <2>3. CASE r.pc # "tcp"
    <3>1. tcp' = tcp
      BY <2>3 DEF Cancelled
    <3> QED BY <1>4, <1>6, <2>1, <2>3, <3>1, NotTcp
  <2> QED BY <2>2, <2>3
<1>8. LanesOwned' /\ lane' \in [Domains -> [state : {"none", "preflight", "up"}, lock : Clients \cup {NoHolder}]]
  <2>1. CASE r.pc = "preflight"
    <3>1. lane' = [lane EXCEPT ![r.at] = [state |-> "none", lock |-> NoHolder]]
      BY <2>1 DEF Cancelled
    <3> QED BY <1>4, <1>6, <2>1, <3>1, LaneBack
  <2>2. CASE r.pc # "preflight"
    <3>1. lane' = lane
      BY <2>2 DEF Cancelled
    <3> QED BY <1>4, <1>6, <2>2, <3>1, NotLane DEF ClientInv, ClientTypeOK
  <2> QED BY <2>1, <2>2
<1>9. ClientTypeOK'
  BY <1>2, <1>6, <1>7, <1>8 DEF ClientInv, ClientTypeOK
<1> QED BY <1>6, <1>7, <1>8, <1>9 DEF ClientInv

LEMMA TasksFinite == IsFiniteSet(Tasks) /\ Cardinality(Tasks) \in Nat
<1>1. Tasks \in SUBSET Clients /\ IsFiniteSet(Clients)
  BY ClientsAssumption DEF Tasks
<1> QED BY <1>1, FS_Subset, FS_CardinalityType

LEMMA AwayFacts ==
    Away \in ClientRec /\ Away.pc = "away" /\ ~ Away.cancelled /\ Away.served = 0 /\ Away.up = "none"
<1>1. "away" \in Steps /\ <<>> \in Seq(MethodNames)
  BY DEF Steps, NoTask
<1> QED BY <1>1 DEF Away, ClientRec

(* A task comes or goes: who has none holds nothing, and the count follows. *)
LEMMA Ends ==
    ASSUME ClientInv, NEW c \in Clients, ClientEnds(c)
    PROVE  ClientInv'
<1> DEFINE r == client[c]
           rec == [Away EXCEPT !.up = r.up]
<1>1. r \in ClientRec /\ RouteOK(r) /\ r.pc = "finally" /\ c \in Tasks /\ r.up # "open"
  BY DEF ClientInv, ClientTypeOK, ClientEnds, Tasks, RouteOK
<1>2. UNCHANGED <<run, tcp, lane>> /\ active' = active - 1 /\ Goes(c, rec)
  BY DEF ClientEnds
<1>3. rec \in ClientRec /\ rec.pc = "away" /\ ~ rec.cancelled /\ rec.served = 0 /\ rec.up # "open"
  <2>1. Away \in ClientRec /\ Away.pc = "away" /\ ~ Away.cancelled /\ Away.served = 0
    BY AwayFacts
  <2>2. r.up \in {"none", "closed", "dropped"}
    BY <1>1 DEF ClientRec
  <2> QED BY <2>1, <2>2 DEF ClientRec
<1> HIDE DEF rec
<1>4. RouteOK(rec)
  BY <1>3 DEF RouteOK
<1>5. /\ client' \in [Clients -> ClientRec] /\ client'[c] = rec
      /\ \A e \in Clients \ {c} : client'[e] = client[e]
  BY <1>2, <1>3 DEF ClientInv, ClientTypeOK, Goes
<1>6. Tasks' = Tasks \ {c}
  BY <1>3, <1>5 DEF Tasks
<1>7. Counted'
  BY <1>1, <1>2, <1>6, TasksFinite, FS_RemoveElement DEF ClientInv, Counted
<1>8. Ending'
  <2>1. run \notin {"off", "ended"}
    BY <1>1 DEF ClientInv, Ending
  <2>2. \A e \in Clients : client'[e].cancelled => client[e].cancelled
    BY <1>3, <1>5
  <2>3. \A e \in Tasks' : client'[e] = client[e] /\ e \in Tasks
    BY <1>5, <1>6 DEF Tasks
  <2> QED BY <1>2, <2>1, <2>2, <2>3 DEF ClientInv, Ending
<1>9. TcpOwned' /\ LanesOwned'
  BY <1>1, <1>2, <1>3, <1>5, NotTcp, NotLane
<1>10. ClientTypeOK'
  BY <1>2, <1>5 DEF ClientInv, ClientTypeOK
<1>11. \A e \in Clients : RouteOK(client'[e])
  BY <1>4, <1>5 DEF ClientInv
<1> QED BY <1>7, <1>8, <1>9, <1>10, <1>11 DEF ClientInv

LEMMA Arrives ==
    ASSUME ClientInv, NEW c \in Clients, Accept(c)
    PROVE  ClientInv'
<1> DEFINE r == client[c]
<1>1. r \in ClientRec /\ RouteOK(r) /\ r.pc = "away" /\ c \notin Tasks /\ ~ r.cancelled
  BY DEF ClientInv, ClientTypeOK, Accept, Tasks, RouteOK, NoTask
<1>2. UNCHANGED <<run, tcp, lane>> /\ run \notin {"off", "ended"}
  BY DEF Accept
<1>3. CASE run = "waiting"
  <2> DEFINE rec == [r EXCEPT !.pc = "refused"]
  <2>1. active' = active /\ Goes(c, rec)
    BY <1>3 DEF Accept, To
  <2>2. rec \in ClientRec /\ rec.pc = "refused" /\ rec.cancelled = r.cancelled /\ rec.served = r.served /\ rec.up = r.up
    BY <1>1 DEF ClientRec, Steps, NoTask
  <2> HIDE DEF rec
  <2>3. RouteOK(rec)
    BY <1>1, <2>2 DEF RouteOK, NoTask
  <2>4. /\ client' \in [Clients -> ClientRec] /\ client'[c] = rec
        /\ \A e \in Clients \ {c} : client'[e] = client[e]
    BY <2>1, <2>2 DEF ClientInv, ClientTypeOK, Goes
  <2>5. Tasks' = Tasks
    BY <1>1, <2>2, <2>4 DEF Tasks
  <2>6. Counted' /\ Ending'
    <3>1. \A e \in Clients : client'[e].cancelled = client[e].cancelled
      BY <2>2, <2>4
    <3>2. Tasks \subseteq Clients
      BY DEF Tasks
    <3> QED BY <1>2, <1>3, <2>1, <2>5, <3>1, <3>2 DEF ClientInv, Counted, Ending
  <2>7. TcpOwned' /\ LanesOwned'
    BY <1>1, <1>2, <2>2, <2>4, NotTcp, NotLane
  <2>8. ClientTypeOK' /\ \A e \in Clients : RouteOK(client'[e])
    BY <1>2, <2>3, <2>4 DEF ClientInv, ClientTypeOK
  <2> QED BY <2>6, <2>7, <2>8 DEF ClientInv
<1>4. CASE run # "waiting"
  <2>1. active' = active + 1 /\ Goes(c, NewClient)
    BY <1>4 DEF Accept
  <2>2. /\ NewClient \in ClientRec /\ NewClient.pc = "init" /\ ~ NewClient.cancelled
        /\ NewClient.served = 0 /\ NewClient.up = "none"
    <3>1. Away \in ClientRec /\ ~ Away.cancelled /\ Away.served = 0 /\ Away.up = "none"
      BY AwayFacts
    <3>2. "init" \in Steps
      BY DEF Steps
    <3> QED BY <3>1, <3>2 DEF NewClient, ClientRec
  <2>3. RouteOK(NewClient)
    BY <2>2 DEF RouteOK
  <2>4. /\ client' \in [Clients -> ClientRec] /\ client'[c] = NewClient
        /\ \A e \in Clients \ {c} : client'[e] = client[e]
    BY <2>1, <2>2 DEF ClientInv, ClientTypeOK, Goes
  <2>5. Tasks' = Tasks \cup {c}
    BY <2>2, <2>4 DEF Tasks
  <2>6. Counted'
    BY <1>1, <2>1, <2>5, TasksFinite, FS_AddElement DEF ClientInv, Counted
  <2>7. \A e \in Clients : client'[e].cancelled => client[e].cancelled
    BY <2>2, <2>4
  <2>8. Ending'
    BY <1>2, <1>4, <2>7 DEF ClientInv, Ending
  <2>9. TcpOwned' /\ LanesOwned'
    BY <1>1, <1>2, <2>2, <2>4, NotTcp, NotLane
  <2>10. ClientTypeOK' /\ \A e \in Clients : RouteOK(client'[e])
    BY <1>2, <2>2, <2>3, <2>4 DEF ClientInv, ClientTypeOK
  <2> QED BY <2>6, <2>8, <2>9, <2>10 DEF ClientInv
<1> QED BY <1>3, <1>4

(* The stop cancels all; the run ends when none of them is left, and the   *)
(* next begins with nobody.                                                *)
LEMMA Stops ==
    ASSUME ClientInv, StopRun
    PROVE  ClientInv'
<1> DEFINE Marked(e) == [client[e] EXCEPT !.cancelled = e \in Tasks]
<1>1. /\ run \in {"serving", "restarting"} /\ run' = "waiting" /\ UNCHANGED <<active, tcp, lane>>
      /\ client' = [e \in Clients |-> Marked(e)]
  BY DEF StopRun
<1>2. ASSUME NEW e \in Clients
      PROVE  /\ Marked(e) \in ClientRec /\ Marked(e).pc = client[e].pc /\ Marked(e).at = client[e].at
             /\ Marked(e).up = client[e].up /\ Marked(e).served = client[e].served
             /\ Marked(e).cancelled = (e \in Tasks)
  <2>1. client[e] \in ClientRec /\ (e \in Tasks) \in BOOLEAN
    BY DEF ClientInv, ClientTypeOK
  <2> QED BY <2>1 DEF ClientRec
<1> HIDE DEF Marked
<1>3. /\ client' \in [Clients -> ClientRec]
      /\ \A e \in Clients :
            /\ client'[e].pc = client[e].pc /\ client'[e].at = client[e].at /\ client'[e].up = client[e].up
            /\ client'[e].served = client[e].served /\ client'[e].cancelled = (e \in Tasks)
  BY <1>1, <1>2
<1>4. Tasks' = Tasks
  BY <1>3 DEF Tasks
<1>5. Counted' /\ Ending'
  BY <1>1, <1>3, <1>4 DEF ClientInv, Counted, Ending, Tasks
<1>6. TcpOwned'
  BY <1>1, <1>3 DEF ClientInv, TcpOwned
<1>7. LanesOwned'
  <2>1. \A d \in Domains : lane[d].lock \in Clients \cup {NoHolder}
    BY DEF ClientInv, ClientTypeOK
  <2> QED BY <1>1, <1>3, <2>1 DEF ClientInv, LanesOwned
<1>8. ClientTypeOK'
  BY <1>1, <1>3 DEF ClientInv, ClientTypeOK
<1>9. ASSUME NEW e \in Clients PROVE RouteOK(client'[e])
  BY <1>3 DEF ClientInv, RouteOK, Tasks, NoTask
<1> QED BY <1>5, <1>6, <1>7, <1>8, <1>9 DEF ClientInv

LEMMA RunSteps ==
    ASSUME ClientInv,
           \/ StartRun \/ ListenerDies \/ ListenerRestored \/ EndRun \/ TcpRetryDue
           \/ \E d \in Domains : DomainsRefreshed(d)
    PROVE  ClientInv'
<1>1. CASE StartRun
  <2>1. Away \in ClientRec /\ RouteOK(Away) /\ Away.pc = "away" /\ ~ Away.cancelled
    BY DEF Away, ClientRec, Steps, NoTask, RouteOK
  <2>2. /\ run' = "serving" /\ Tasks = {} /\ lane = FreeLanes /\ UNCHANGED <<active, lane>>
        /\ client' = [c \in Clients |-> Away] /\ tcp' = [connecting |-> FALSE, retry |-> FALSE]
    BY <1>1 DEF StartRun, ClientInv, Ending
  <2>3. Tasks' = {}
    BY <2>1, <2>2 DEF Tasks
  <2>4. Counted' /\ Ending'
    BY <2>1, <2>2, <2>3 DEF ClientInv, Counted, Ending
  <2>5. TcpOwned' /\ LanesOwned'
    BY <2>1, <2>2 DEF TcpOwned, LanesOwned, FreeLanes
  <2>6. ClientTypeOK'
    BY <2>1, <2>2 DEF ClientInv, ClientTypeOK
  <2> QED BY <2>1, <2>2, <2>4, <2>5, <2>6 DEF ClientInv
<1>2. CASE EndRun
  <2>1. /\ run = "waiting" /\ run' = "ended" /\ lane' = FreeLanes /\ UNCHANGED <<client, active, tcp>>
        /\ \A c \in Tasks : ~ client[c].cancelled
    BY <1>2 DEF EndRun
  <2>2. Tasks = {} /\ Tasks' = Tasks
    BY <2>1 DEF ClientInv, Ending, Tasks
  <2>3. \A c \in Clients : client[c].pc \in NoTask /\ ~ client[c].cancelled
    BY <2>2 DEF Tasks, NoTask, ClientInv, RouteOK
  <2>4. Counted' /\ Ending'
    BY <2>1, <2>2, <2>3 DEF ClientInv, Counted, Ending
  <2>5. TcpOwned' /\ LanesOwned'
    BY <2>1, <2>3 DEF ClientInv, TcpOwned, LanesOwned, FreeLanes, NoTask
  <2>6. ClientTypeOK'
    BY <2>1 DEF ClientInv, ClientTypeOK, FreeLanes
  <2> QED BY <2>1, <2>4, <2>5, <2>6 DEF ClientInv
<1>3. CASE ListenerDies \/ ListenerRestored
  <2>1. /\ run \in {"serving", "restarting"} /\ run' \in {"serving", "restarting"}
        /\ UNCHANGED <<client, active, tcp, lane>>
    BY <1>3 DEF ListenerDies, ListenerRestored
  <2>2. Tasks' = Tasks
    BY <2>1 DEF Tasks
  <2> QED BY <2>1, <2>2 DEF ClientInv, ClientTypeOK, Counted, Ending, TcpOwned, LanesOwned
<1>4. CASE TcpRetryDue
  <2>1. UNCHANGED <<run, client, active, lane>> /\ tcp' = [tcp EXCEPT !.retry = FALSE]
    BY <1>4 DEF TcpRetryDue
  <2>2. tcp' \in [connecting : BOOLEAN, retry : BOOLEAN] /\ tcp'.connecting = tcp.connecting
    BY <2>1 DEF ClientInv, ClientTypeOK
  <2>3. Tasks' = Tasks
    BY <2>1 DEF Tasks
  <2> QED BY <2>1, <2>2, <2>3 DEF ClientInv, ClientTypeOK, Counted, Ending, TcpOwned, LanesOwned
<1>5. CASE \E d \in Domains : DomainsRefreshed(d)
  <2>1. UNCHANGED <<run, client, active, tcp, lane>>
    BY <1>5 DEF DomainsRefreshed
  <2>2. Tasks' = Tasks
    BY <2>1 DEF Tasks
  <2> QED BY <2>1, <2>2 DEF ClientInv, ClientTypeOK, Counted, Ending, TcpOwned, LanesOwned
<1> QED BY <1>1, <1>2, <1>3, <1>4, <1>5

LEMMA ClientStep == ClientInv /\ [ProxyNext]_proxyVars => ClientInv'
<1> SUFFICES ASSUME ClientInv, [ProxyNext]_proxyVars PROVE ClientInv'
  OBVIOUS
<1>1. CASE UNCHANGED proxyVars
  <2>1. UNCHANGED <<run, client, active, tcp, lane>>
    BY <1>1 DEF proxyVars
  <2>2. Tasks' = Tasks
    BY <2>1 DEF Tasks
  <2> QED BY <2>1, <2>2 DEF ClientInv, ClientTypeOK, Counted, Ending, TcpOwned, LanesOwned
<1>2. CASE ProxyNext
  <2>1. ASSUME NEW c \in Clients,
               \/ Accept(c) \/ ReadInit(c) \/ EndsUnserved(c) \/ GetFromPool(c) \/ TryMethod(c)
               \/ TcpConnected(c) \/ TcpFails(c) \/ LaneReady(c) \/ LaneFails(c) \/ H2Unavailable(c)
               \/ Greet(c) \/ BridgeEnds(c) \/ Cancelled(c) \/ ClientEnds(c)
               \/ \E d \in Domains : TryDomain(c, d) \/ LockLane(c, d)
        PROVE  ClientInv'
    <3>1. CASE Accept(c) \/ Cancelled(c) \/ ClientEnds(c) \/ TryMethod(c) \/ TcpConnected(c) \/ TcpFails(c)
      BY <3>1, Arrives, Cancellation, Ends, MethodTried, TcpEnds
    <3>2. CASE LaneReady(c) \/ LaneFails(c)
      <4>1. client[c].pc = "preflight"
        BY <3>2 DEF LaneReady, LaneFails, At
      <4> QED BY <3>2, <4>1, PreflightEnds
    <3>3. CASE H2Unavailable(c)
      BY <3>3, H2GivenUp
    <3>4. CASE \E d \in Domains : LockLane(c, d)
      BY <3>4, LaneLocked
    <3>5. CASE \/ ReadInit(c) \/ EndsUnserved(c) \/ GetFromPool(c) \/ Greet(c) \/ BridgeEnds(c)
               \/ \E d \in Domains : TryDomain(c, d)
      BY <3>5, PlainSteps
    <3> QED BY <2>1, <3>1, <3>2, <3>3, <3>4, <3>5
  <2> QED BY <1>2, <2>1, Stops, RunSteps DEF ProxyNext
<1> QED BY <1>1, <1>2

(* For any number of clients and domains: whoever connects over TCP or     *)
(* makes a lane holds the one mark for it, and no mark stays behind,       *)
(* however the attempt ends: an answer, a timeout, a cancellation.         *)
THEOREM AttemptsGivenBack == ProxySpec => []AttemptsOwned
<1>1. ASSUME ClientInv PROVE AttemptsOwned
  <2> DEFINE T == {c \in Clients : client[c].pc = "tcp"}
  <2>1. Cardinality(T) = IF tcp.connecting THEN 1 ELSE 0
    <3>1. CASE tcp.connecting
      <4>1. PICK c \in Clients : T = {c}
        BY <1>1, <3>1 DEF ClientInv, TcpOwned
      <4> QED BY <3>1, <4>1, FS_Singleton
    <3>2. CASE ~ tcp.connecting
      <4>1. T = {}
        BY <1>1, <3>2 DEF ClientInv, TcpOwned
      <4> QED BY <3>2, <4>1, FS_EmptySet
    <3> QED BY <3>1, <3>2
  <2> QED BY <1>1, <2>1 DEF AttemptsOwned, ClientInv, LanesOwned
<1> QED BY <1>1, ClientStart, ClientStep, PTL DEF ProxySpec

(* No second upstream ever gets bytes of the same client.                  *)
THEOREM OneUpstreamOnly == ProxySpec => []OneUpstream
<1>1. ClientInv => OneUpstream
  BY DEF ClientInv, RouteOK, OneUpstream
<1> QED BY <1>1, ClientStart, ClientStep, PTL DEF ProxySpec

(* A proxy that has ended left no task, no count, no lane and no socket    *)
(* that something still was to close, wherever the stop met its clients.   *)
THEOREM ProxyLeavesNothing == ProxySpec => []NothingLeft
<1>1. ASSUME ClientInv PROVE NothingLeft
  <2>1. ASSUME run = "ended"
        PROVE  Tasks = {} /\ active = 0 /\ lane = FreeLanes /\ \A c \in Clients : client[c].up # "open"
    <3>1. Tasks = {} /\ lane = FreeLanes
      BY <1>1, <2>1 DEF ClientInv, Ending
    <3>2. active = 0
      BY <1>1, <3>1, FS_EmptySet DEF ClientInv, Counted
    <3>3. \A c \in Clients : client[c].pc \in NoTask
      BY <3>1 DEF Tasks, NoTask
    <3> QED BY <1>1, <3>1, <3>2, <3>3 DEF ClientInv, RouteOK, NoTask
  <2> QED BY <2>1 DEF NothingLeft
<1> QED BY <1>1, ClientStart, ClientStep, PTL DEF ProxySpec
-----------------------------------------------------------------------------
(* The requests of an HTTP/2 connection.                                   *)

Phases == {"idle", "lock", "connecting", "reserve"} \cup OnStream
ReqRec ==
    [pc : Phases, gen : Nat, asleep : BOOLEAN, sent : Nat, started : BOOLEAN,
     chunks : Nat, credit : Nat, ended : BOOLEAN, err : BOOLEAN]

ConnRec == [gen : Nat, err : BOOLEAN, settings : BOOLEAN, limit : 0 .. MaxStreams, closed : BOOLEAN]

H2STypeOK ==
    /\ conn \in ConnRec
    /\ req \in [Requests -> ReqRec]
    /\ srv \in [Requests -> [window : Nat, takes : Nat]]

(* Of a connection: who makes one has the lock and none works meanwhile,   *)
(* so that nobody sleeps on one that is gone.                              *)
Connecting ==
    /\ \A r \in Requests : req[r].pc = "connecting" <=> lock = r
    /\ lock # Nobody => lock \in Requests /\ (conn.gen = 0 \/ conn.err) /\ ~ conn.closed
    /\ conn.closed => conn.err

(* Of a request: what it is made with, until it has a stream.              *)
Idle(q) ==
    /\ q.sent = 0 /\ q.chunks = 0 /\ q.credit = 0 /\ ~ q.started /\ ~ q.ended /\ ~ q.err
    /\ q.pc # "reserve" => q.gen = 0 /\ ~ q.asleep
ReqOK(r) ==
    /\ req[r].gen <= conn.gen
    /\ req[r].pc \in OnStream \cup {"reserve"} => req[r].gen > 0
    /\ req[r].pc \notin OnStream => Idle(req[r])
    /\ req[r].sent <= BodyUnits
    /\ req[r].asleep => req[r].pc \in {"reserve", "body", "headers", "read"}
    /\ req[r].ended => req[r].started
    /\ req[r].pc \in OnStream /\ Dead(r) => req[r].err \/ req[r].ended

(* What is not given back, a reader that waits for data has given back.    *)
WindowOK(r) ==
    r \in Streams /\ ~ conn.err /\ ~ req[r].ended =>
        /\ srv[r].window + req[r].chunks + req[r].credit
               + (IF req[r].pc = "taken" THEN 1 ELSE 0) = Window
        /\ req[r].chunks = 0 /\ req[r].pc # "taken" => req[r].credit = 0

SleepOK(r) ==
    req[r].asleep =>
        /\ ~Dead(r) /\ ~req[r].err
        /\ req[r].pc = "reserve" => ~HasRoom
        /\ req[r].pc = "body" => srv[r].takes = 0
        /\ req[r].pc = "headers" => ~req[r].started
        /\ req[r].pc = "read" => req[r].chunks = 0 /\ ~req[r].ended

H2SInv ==
    /\ H2STypeOK /\ Connecting /\ Cardinality(Streams) <= MaxStreams
    /\ \A r \in Requests : ReqOK(r) /\ WindowOK(r) /\ SleepOK(r)

(* What being woken, or not, leaves of a request.                          *)
Eased(q, p) ==
    /\ p.pc = q.pc /\ p.gen = q.gen /\ p.sent = q.sent /\ p.started = q.started
    /\ p.chunks = q.chunks /\ p.credit = q.credit /\ p.ended = q.ended /\ p.err = q.err
    /\ p.asleep => q.asleep

LEMMA EasedFacts ==
    ASSUME NEW q \in ReqRec
    PROVE  /\ Eased(q, q)
           /\ [q EXCEPT !.asleep = FALSE] \in ReqRec /\ Eased(q, [q EXCEPT !.asleep = FALSE])
           /\ ~ [q EXCEPT !.asleep = FALSE].asleep
BY DEF Eased, ReqRec

LEMMA WakeFacts ==
    ASSUME NEW reqs \in [Requests -> ReqRec]
    PROVE  /\ WakeConnection(reqs) \in [Requests -> ReqRec]
           /\ \A r \in Requests :
                 /\ Eased(reqs[r], WakeConnection(reqs)[r])
                 /\ reqs[r].pc \in OnConnection /\ reqs[r].gen = conn.gen => ~ WakeConnection(reqs)[r].asleep
<1>1. ASSUME NEW r \in Requests
      PROVE  LET w == IF reqs[r].pc \in OnConnection /\ reqs[r].gen = conn.gen
                      THEN [reqs[r] EXCEPT !.asleep = FALSE] ELSE reqs[r]
             IN /\ w \in ReqRec /\ Eased(reqs[r], w)
                /\ reqs[r].pc \in OnConnection /\ reqs[r].gen = conn.gen => ~ w.asleep
  BY EasedFacts
<1> QED BY <1>1 DEF WakeConnection

LEMMA NewReqFacts ==
    /\ NewReq \in ReqRec /\ NewReq.pc = "idle" /\ Idle(NewReq) /\ NewReq.gen = 0 /\ ~ NewReq.asleep /\ NewReq.sent = 0
BY DEF NewReq, ReqRec, Phases, Idle

LEMMA StreamsFinite ==
    /\ IsFiniteSet(Streams) /\ Cardinality(Streams) \in Nat
    /\ \A S \in SUBSET Streams : Cardinality(S) \in Nat /\ Cardinality(S) <= Cardinality(Streams)
<1>1. Streams \in SUBSET Requests /\ IsFiniteSet(Requests)
  BY StreamsAssumption DEF Streams
<1>2. IsFiniteSet(Streams)
  BY <1>1, FS_Subset
<1>3. ASSUME NEW S \in SUBSET Streams PROVE Cardinality(S) \in Nat /\ Cardinality(S) <= Cardinality(Streams)
  BY <1>2, FS_Subset, FS_CardinalityType
<1> QED BY <1>2, <1>3, FS_CardinalityType

(* A step on one connection that stays: request r changes, others are at   *)
(* most woken.  Of r itself its own part is to be shown, of the others     *)
(* that who still sleeps before a stream finds no room.                    *)
LEMMA OneRequest ==
    ASSUME H2SInv, NEW r \in Requests,
           UNCHANGED conn,
           req' \in [Requests -> ReqRec], srv' \in [Requests -> [window : Nat, takes : Nat]],
           \A e \in Requests \ {r} : Eased(req[e], req'[e]) /\ srv'[e] = srv[e],
           Connecting', Cardinality(Streams)' <= MaxStreams,
           ReqOK(r)', WindowOK(r)', SleepOK(r)',
           \A e \in Requests \ {r} : req'[e].asleep /\ req[e].pc = "reserve" => ~HasRoom'
    PROVE  H2SInv'
<1>1. H2STypeOK'
  BY DEF H2SInv, H2STypeOK
<1>2. ASSUME NEW e \in Requests \ {r} PROVE ReqOK(e)' /\ WindowOK(e)' /\ SleepOK(e)'
  <2>1. ReqOK(e) /\ WindowOK(e) /\ SleepOK(e)
    BY DEF H2SInv
  <2>2. Eased(req[e], req'[e]) /\ srv'[e] = srv[e]
    OBVIOUS
  <2>3. ReqOK(e)'
    BY <2>1, <2>2 DEF ReqOK, Idle, Eased, Dead
  <2>4. WindowOK(e)'
    BY <2>1, <2>2 DEF WindowOK, Eased, Streams
  <2>5. SleepOK(e)'
    BY <2>1, <2>2 DEF SleepOK, Eased, Dead
  <2> QED BY <2>3, <2>4, <2>5
<1> QED BY <1>1, <1>2 DEF H2SInv

(* Request r keeps its connection and its stream, or has neither.          *)
LEMMA SameStreams ==
    ASSUME H2SInv, NEW r \in Requests, UNCHANGED <<conn, lock>>,
           req' \in [Requests -> ReqRec], srv' \in [Requests -> [window : Nat, takes : Nat]],
           \A e \in Requests \ {r} : Eased(req[e], req'[e]) /\ srv'[e] = srv[e],
           (req[r].pc \in OnStream /\ req[r].gen = conn.gen) <=> (req'[r].pc \in OnStream /\ req'[r].gen = conn.gen),
           req[r].pc = "connecting" <=> req'[r].pc = "connecting",
           ReqOK(r)', WindowOK(r)', SleepOK(r)'
    PROVE  H2SInv'
<1>1. Streams' = Streams
  BY DEF Streams, Eased
<1>2. Connecting'
  BY DEF H2SInv, Connecting, Eased
<1>3. Cardinality(Streams)' <= MaxStreams
  BY <1>1 DEF H2SInv
<1>4. ASSUME NEW e \in Requests \ {r}, req'[e].asleep, req[e].pc = "reserve" PROVE ~HasRoom'
  <2>1. req[e].asleep
    BY <1>4 DEF Eased
  <2> QED BY <1>1, <1>4, <2>1 DEF H2SInv, SleepOK, HasRoom
<1> QED BY <1>2, <1>3, <1>4, OneRequest

(* A request ends: its place is free, and who waits for one was told.      *)
LEMMA Leaves ==
    ASSUME H2SInv, NEW r \in Requests, UNCHANGED <<conn, lock, srv>>,
           req[r].pc \in OnStream \cup {"reserve"}, req' = Released(req, r)
    PROVE  H2SInv'
<1> DEFINE reqs == [req EXCEPT ![r] = NewReq]
<1>1. req \in [Requests -> ReqRec] /\ srv \in [Requests -> [window : Nat, takes : Nat]]
  BY DEF H2SInv, H2STypeOK
<1>2. /\ reqs \in [Requests -> ReqRec] /\ reqs[r] = NewReq
      /\ \A e \in Requests \ {r} : reqs[e] = req[e]
  BY <1>1, NewReqFacts
<1> HIDE DEF reqs
<1>3. /\ req' \in [Requests -> ReqRec]
      /\ \A e \in Requests : Eased(reqs[e], req'[e])
      /\ req[r].gen = conn.gen =>
            \A e \in Requests : reqs[e].pc \in OnConnection /\ reqs[e].gen = conn.gen => ~ req'[e].asleep
  <2>1. CASE req[r].gen = conn.gen
    <3>1. req' = WakeConnection(reqs)
      BY <2>1 DEF Released, reqs
    <3> QED BY <1>2, <3>1, WakeFacts
  <2>2. CASE req[r].gen # conn.gen
    <3>1. req' = reqs
      BY <2>2 DEF Released, reqs
    <3> QED BY <1>2, <2>2, <3>1, EasedFacts
  <2> QED BY <2>1, <2>2
<1>4. /\ req'[r].pc = "idle" /\ Idle(req'[r]) /\ req'[r].gen = 0 /\ ~ req'[r].asleep /\ req'[r].sent = 0
  BY <1>2, <1>3, NewReqFacts DEF Eased, Idle
<1>5. \A e \in Requests \ {r} : Eased(req[e], req'[e])
  BY <1>2, <1>3
<1>6. ReqOK(r)' /\ WindowOK(r)' /\ SleepOK(r)'
  <2>1. r \notin Streams'
    BY <1>4 DEF Streams, OnStream
  <2>2. conn.gen \in Nat /\ BodyUnits \in Nat
    BY StreamsAssumption DEF H2SInv, H2STypeOK, ConnRec
  <2> QED BY <1>4, <2>1, <2>2 DEF ReqOK, WindowOK, SleepOK, OnStream, Idle
<1>7. Connecting'
  BY <1>4, <1>5 DEF H2SInv, Connecting, Eased, OnStream
<1>8. Streams' \subseteq Streams
  BY <1>4, <1>5 DEF Streams, Eased, OnStream
<1>9. Cardinality(Streams)' <= MaxStreams
  BY <1>8, StreamsFinite, StreamsAssumption DEF H2SInv
<1>10. ASSUME NEW e \in Requests \ {r}, req'[e].asleep, req[e].pc = "reserve" PROVE ~HasRoom'
  <2>1. req[e].asleep /\ req[e].gen = conn.gen /\ ~HasRoom
    BY <1>5, <1>10 DEF Eased, H2SInv, SleepOK, Dead
  <2>2. req[r].gen # conn.gen
    BY <1>2, <1>3, <1>10, <2>1 DEF OnConnection
  <2>3. Streams' = Streams
    BY <1>4, <1>5, <2>2 DEF Streams, Eased, OnStream
  <2> QED BY <2>1, <2>3 DEF HasRoom
<1> QED BY <1>1, <1>3, <1>5, <1>6, <1>7, <1>9, <1>10, OneRequest

(* The connection fails: all who were on it are awake, with an error where *)
(* an answer was still to come.                                            *)
LEMMA ConnectionFails ==
    ASSUME H2SInv, NEW reqs,
           \A e \in Requests : reqs[e] = req[e] \/ (reqs[e] = NewReq /\ req[e].pc \in OnStream),
           conn' \in ConnRec, conn'.err, conn'.gen = conn.gen, conn'.closed => conn.closed \/ lock = Nobody,
           UNCHANGED <<lock, srv>>, req' = FailAll(reqs)
    PROVE  H2SInv'
<1>1. /\ conn \in ConnRec
      /\ req \in [Requests -> ReqRec] /\ srv \in [Requests -> [window : Nat, takes : Nat]]
  BY DEF H2SInv, H2STypeOK
<1>2. conn.gen \in Nat
  BY <1>1 DEF ConnRec
<1>3. ASSUME NEW e \in Requests
      PROVE  /\ req'[e] \in ReqRec /\ ~ req'[e].asleep
             /\ req'[e].pc = reqs[e].pc /\ req'[e].gen = reqs[e].gen /\ req'[e].sent = reqs[e].sent
             /\ req'[e].pc \notin OnStream => Idle(req'[e])
             /\ req'[e].ended => req'[e].started
             /\ req'[e].pc \in OnStream => req'[e].err \/ req'[e].ended
  <2>1. /\ reqs[e] \in ReqRec /\ (reqs[e].pc \notin OnStream => Idle(reqs[e]))
        /\ (reqs[e].ended => reqs[e].started)
        /\ (reqs[e].pc \in OnStream /\ reqs[e].gen # conn.gen => reqs[e].err \/ reqs[e].ended)
    BY <1>1, NewReqFacts DEF H2SInv, ReqOK, Dead, Idle, OnStream
  <2>2. reqs[e].asleep => reqs[e].gen = conn.gen /\ reqs[e].pc \in OnStream \cup OnConnection
    BY NewReqFacts DEF H2SInv, ReqOK, SleepOK, Dead, OnStream, OnConnection
  <2>3. CASE reqs[e].gen # conn.gen \/ reqs[e].pc \notin OnStream \cup OnConnection
    <3>1. req'[e] = reqs[e]
      BY <2>3 DEF FailAll
    <3> QED BY <2>1, <2>2, <2>3, <3>1
  <2>4. CASE ~ (reqs[e].gen # conn.gen \/ reqs[e].pc \notin OnStream \cup OnConnection)
    <3> DEFINE q == reqs[e]
               err == q.pc \in OnStream /\ ~ q.ended
               q1 == [q EXCEPT !.asleep = FALSE]
               q2 == [q1 EXCEPT !.err = err]
    <3>1. req'[e] = [q EXCEPT !.asleep = FALSE, !.err = err]
      BY <2>4 DEF FailAll
    <3>2. req'[e] = q2
      BY <3>1
    <3>3. err \in BOOLEAN /\ (q.pc \notin OnStream => ~ err)
      BY <2>1 DEF ReqRec
    <3>4. q1 \in ReqRec /\ Eased(q, q1) /\ ~ q1.asleep
      BY <2>1, EasedFacts
    <3> HIDE DEF q, q1, err
    <3>5. /\ q2 \in ReqRec /\ ~ q2.asleep /\ q2.pc = q1.pc /\ q2.gen = q1.gen /\ q2.sent = q1.sent
          /\ q2.chunks = q1.chunks /\ q2.credit = q1.credit /\ q2.started = q1.started
          /\ q2.ended = q1.ended /\ q2.err = err
      BY <3>3, <3>4 DEF ReqRec
    <3> HIDE DEF q2
    <3>6. q2.pc \notin OnStream => Idle(q2)
      <4>1. q.pc \notin OnStream => Idle(q)
        BY <2>1 DEF q
      <4> QED BY <3>3, <3>4, <3>5, <4>1 DEF Idle, Eased
    <3>7. (q2.ended => q2.started) /\ (q2.pc \in OnStream => q2.err \/ q2.ended)
      <4>1. q.ended => q.started
        BY <2>1 DEF q
      <4>2. err <=> q.pc \in OnStream /\ ~ q.ended
        BY DEF err, q
      <4> QED BY <3>4, <3>5, <4>1, <4>2 DEF Eased
    <3> QED BY <3>2, <3>4, <3>5, <3>6, <3>7 DEF Eased, q
  <2> QED BY <2>3, <2>4
<1>4. H2STypeOK'
  <2>1. req' \in [Requests -> ReqRec]
    BY <1>3 DEF FailAll
  <2> QED BY <1>1, <1>2, <2>1 DEF H2STypeOK
<1>5. Streams' \subseteq Streams
  BY <1>2, <1>3, NewReqFacts DEF Streams, OnStream
<1>6. Cardinality(Streams)' <= MaxStreams
  BY <1>5, StreamsFinite, StreamsAssumption DEF H2SInv
<1>7. Connecting'
  <2>1. \A e \in Requests : req'[e].pc = "connecting" <=> req[e].pc = "connecting"
    BY <1>3, NewReqFacts DEF OnStream
  <2> QED BY <1>2, <2>1 DEF H2SInv, Connecting
<1>8. ASSUME NEW e \in Requests PROVE ReqOK(e)' /\ WindowOK(e)' /\ SleepOK(e)'
  <2>1. reqs[e].gen <= conn.gen /\ reqs[e].sent <= BodyUnits /\ (reqs[e].pc \in OnStream \cup {"reserve"} => reqs[e].gen > 0)
    <3>1. conn.gen \in Nat /\ BodyUnits \in Nat
      BY <1>2, StreamsAssumption
    <3> QED BY <3>1, NewReqFacts DEF H2SInv, ReqOK, OnStream
  <2> QED BY <1>2, <1>3, <2>1 DEF ReqOK, WindowOK, SleepOK
<1> QED BY <1>4, <1>6, <1>7, <1>8 DEF H2SInv

LEMMA Losses ==
    ASSUME H2SInv,
           CloseTransport \/ ConnectionLost \/ \E r \in Requests : WaitTimesOut(r) \/ CancelRequest(r)
    PROVE  H2SInv'
<1>1. /\ conn \in ConnRec
      /\ req \in [Requests -> ReqRec]
  BY DEF H2SInv, H2STypeOK
<1>2. CASE CloseTransport
  <2>1. UNCHANGED <<lock, srv>> /\ lock = Nobody /\ req' = FailAll(req) /\ conn' = [conn EXCEPT !.closed = TRUE, !.err = TRUE]
    BY <1>2 DEF CloseTransport
  <2>2. conn' \in ConnRec /\ conn'.err /\ conn'.gen = conn.gen
    BY <1>1, <2>1 DEF ConnRec
  <2>3. \A e \in Requests : req[e] = req[e] \/ (req[e] = NewReq /\ req[e].pc \in OnStream)
    OBVIOUS
  <2> QED BY ONLY H2SInv, <2>1, <2>2, <2>3, ConnectionFails
<1>3. [conn EXCEPT !.err = TRUE] \in ConnRec /\ [conn EXCEPT !.err = TRUE].err
      /\ [conn EXCEPT !.err = TRUE].gen = conn.gen /\ [conn EXCEPT !.err = TRUE].closed = conn.closed
  BY <1>1 DEF ConnRec
<1>4. CASE ConnectionLost
  <2>1. UNCHANGED <<lock, srv>> /\ req' = FailAll(req) /\ conn' = [conn EXCEPT !.err = TRUE]
    BY <1>4 DEF ConnectionLost, Fail
  <2>2. \A e \in Requests : req[e] = req[e] \/ (req[e] = NewReq /\ req[e].pc \in OnStream)
    OBVIOUS
  <2> QED BY <1>3, <2>1, <2>2, ConnectionFails
<1>5. ASSUME NEW r \in Requests, req[r].pc \in OnStream \cup {"reserve"}, Quit(r), UNCHANGED <<conn, lock, srv>>
      PROVE  H2SInv'
  <2>1. CASE req[r].pc # "reserve"
    BY <1>5, <2>1, Leaves DEF Quit
  <2>2. CASE req[r].pc = "reserve"
    <3>1. req' = [req EXCEPT ![r] = NewReq]
      BY <1>5, <2>2 DEF Quit
    <3>2. /\ req' \in [Requests -> ReqRec] /\ req'[r] = NewReq
          /\ \A e \in Requests \ {r} : Eased(req[e], req'[e])
      BY <1>1, <3>1, NewReqFacts, EasedFacts
    <3>3. conn.gen \in Nat /\ BodyUnits \in Nat
      BY <1>1, StreamsAssumption DEF ConnRec
    <3>4. ReqOK(r)' /\ WindowOK(r)' /\ SleepOK(r)'
      BY <1>5, <3>2, <3>3, NewReqFacts DEF ReqOK, WindowOK, SleepOK, Streams, OnStream, Idle
    <3> QED BY <1>5, <2>2, <3>2, <3>4, NewReqFacts, SameStreams DEF OnStream, H2SInv, H2STypeOK
  <2> QED BY <2>1, <2>2
<1>6. ASSUME NEW r \in Requests, CancelRequest(r) PROVE H2SInv'
  BY <1>5, <1>6 DEF CancelRequest
<1>7. ASSUME NEW r \in Requests, WaitTimesOut(r) PROVE H2SInv'
  <2>1. req[r].pc \in OnStream \cup {"reserve"}
    BY <1>7 DEF WaitTimesOut, H2SInv, ReqOK, OnStream
  <2>2. CASE conn' = conn /\ Quit(r)
    BY <1>5, <1>7, <2>1, <2>2 DEF WaitTimesOut
  <2>3. CASE req[r].pc \in {"headers", "read"} /\ Fail /\ req' = FailAll([req EXCEPT ![r] = NewReq])
    <3> DEFINE reqs == [req EXCEPT ![r] = NewReq]
    <3>1. \A e \in Requests : reqs[e] = req[e] \/ (reqs[e] = NewReq /\ req[e].pc \in OnStream)
      <4>1. ASSUME NEW e \in Requests PROVE reqs[e] = req[e] \/ (reqs[e] = NewReq /\ req[e].pc \in OnStream)
        <5>1. CASE e = r
          BY <1>1, <2>3, <5>1 DEF OnStream
        <5>2. CASE e # r
          BY <1>1, <5>2
        <5> QED BY <5>1, <5>2
      <4> QED BY <4>1
    <3>2. UNCHANGED <<lock, srv>> /\ conn' = [conn EXCEPT !.err = TRUE] /\ req' = FailAll(reqs)
      BY <1>3, <1>7, <2>3 DEF WaitTimesOut, Fail
    <3> HIDE DEF reqs
    <3> QED BY <1>3, <3>1, <3>2, ConnectionFails
  <2> QED BY <1>7, <2>2, <2>3 DEF WaitTimesOut
<1> QED BY <1>2, <1>4, <1>6, <1>7

(* Getting a connection.                                                   *)
LEMMA Connects ==
    ASSUME H2SInv, NEW r \in Requests,
           HandleRequest(r) \/ UseConnection(r) \/ Connected(r) \/ ConnectFails(r)
    PROVE  H2SInv'
<1> USE DEF ConnRec
<1>1. /\ conn \in ConnRec
      /\ req \in [Requests -> ReqRec] /\ srv \in [Requests -> [window : Nat, takes : Nat]]
      /\ BodyUnits \in Nat
  BY StreamsAssumption DEF H2SInv, H2STypeOK
<1>2. /\ req[r].pc \in {"idle", "lock", "connecting"} /\ Idle(req[r]) /\ ~ req[r].asleep /\ req[r].gen = 0
      /\ req[r] \in ReqRec
  BY <1>1 DEF HandleRequest, UseConnection, Connected, ConnectFails, H2SInv, ReqOK, Idle, OnStream
<1>3. ASSUME NEW q \in ReqRec, Set(r, q), q.pc \in {"idle", "lock", "connecting", "reserve"}, Idle(q),
             ~ q.asleep, q.gen <= conn.gen, q.pc = "reserve" => q.gen > 0,
             UNCHANGED <<conn, srv>>, Connecting'
      PROVE  H2SInv'
  <2>1. /\ req' \in [Requests -> ReqRec] /\ req'[r] = q
        /\ \A e \in Requests \ {r} : Eased(req[e], req'[e])
    BY <1>1, <1>3, EasedFacts DEF Set
  <2>2. ReqOK(r)' /\ WindowOK(r)' /\ SleepOK(r)'
    <3>1. r \notin Streams'
      BY <1>3, <2>1 DEF Streams, OnStream
    <3> QED BY <1>1, <1>3, <2>1, <3>1 DEF ReqOK, WindowOK, SleepOK, OnStream, Idle
  <2>3. Streams' = Streams
    BY <1>2, <1>3, <2>1 DEF Streams, Eased, OnStream
  <2>4. Cardinality(Streams)' <= MaxStreams
    BY <2>3 DEF H2SInv
  <2>5. ASSUME NEW e \in Requests \ {r}, req'[e].asleep, req[e].pc = "reserve" PROVE ~HasRoom'
    BY <1>3, <2>1, <2>3, <2>5 DEF Eased, H2SInv, SleepOK, HasRoom
  <2> QED BY <1>1, <1>3, <2>1, <2>2, <2>4, <2>5, OneRequest
<1>4. NewReq \in ReqRec /\ NewReq.pc = "idle" /\ Idle(NewReq) /\ ~ NewReq.asleep /\ NewReq.gen = 0 /\ NewReq.gen <= conn.gen
  BY <1>1, NewReqFacts
<1>5. CASE HandleRequest(r)
  <2> DEFINE q == [NewReq EXCEPT !.pc = "lock"]
  <2>1. q \in ReqRec /\ q.pc = "lock" /\ Idle(q) /\ ~ q.asleep /\ q.gen = 0
    BY DEF NewReq, ReqRec, Phases, Idle
  <2>2. Set(r, q) /\ UNCHANGED <<conn, lock, srv>> /\ req[r].pc = "idle"
    BY <1>5 DEF HandleRequest
  <2> HIDE DEF q
  <2>3. Connecting'
    BY <1>1, <2>1, <2>2 DEF H2SInv, Connecting, Set
  <2> QED BY <1>1, <1>3, <2>1, <2>2, <2>3
<1>6. CASE UseConnection(r) /\ Set(r, NewReq) /\ lock' = lock
  <2>1. UNCHANGED <<conn, lock, srv>> /\ req[r].pc = "lock"
    BY <1>6 DEF UseConnection
  <2>2. Connecting'
    BY <1>1, <1>4, <1>6, <2>1 DEF H2SInv, Connecting, Set
  <2> QED BY <1>3, <1>4, <1>6, <2>1, <2>2
<1>7. CASE UseConnection(r) /\ ~ conn.closed /\ (conn.gen = 0 \/ conn.err) /\ lock' = r /\ Set(r, [req[r] EXCEPT !.pc = "connecting"])
  <2> DEFINE q == [req[r] EXCEPT !.pc = "connecting"]
  <2>1. q \in ReqRec /\ q.pc = "connecting" /\ Idle(q) /\ ~ q.asleep /\ q.gen = 0
    BY <1>2 DEF ReqRec, Phases, Idle
  <2>2. Set(r, q) /\ UNCHANGED <<conn, srv>> /\ lock = Nobody
    BY <1>7 DEF UseConnection
  <2> HIDE DEF q
  <2>3. Connecting'
    BY <1>1, <1>7, <2>1, <2>2, StreamsAssumption DEF H2SInv, Connecting, Set
  <2> QED BY <1>1, <1>3, <2>1, <2>2, <2>3
<1>8. CASE UseConnection(r) /\ ~ (conn.gen = 0 \/ conn.err) /\ lock' = lock
           /\ Set(r, [req[r] EXCEPT !.pc = "reserve", !.gen = conn.gen])
  <2> DEFINE q == [req[r] EXCEPT !.pc = "reserve", !.gen = conn.gen]
  <2>1. q \in ReqRec /\ q.pc = "reserve" /\ q.gen = conn.gen
    BY <1>1, <1>2 DEF ReqRec, Phases
  <2>2. Idle(q) /\ ~ q.asleep
    BY <1>1, <1>2 DEF ReqRec, Idle
  <2>3. Set(r, q) /\ UNCHANGED <<conn, lock, srv>> /\ req[r].pc = "lock"
    BY <1>8 DEF UseConnection
  <2> HIDE DEF q
  <2>4. Connecting'
    BY <1>1, <2>1, <2>3 DEF H2SInv, Connecting, Set
  <2> QED BY <1>1, <1>3, <1>8, <2>1, <2>2, <2>3, <2>4
<1>9. CASE ConnectFails(r)
  <2>1. Set(r, NewReq) /\ lock' = Nobody /\ UNCHANGED <<conn, srv>> /\ lock = r
    BY <1>9 DEF ConnectFails, H2SInv, Connecting
  <2>2. Connecting'
    BY <1>1, <1>4, <2>1, StreamsAssumption DEF H2SInv, Connecting, Set
  <2> QED BY <1>3, <1>4, <2>1, <2>2
<1>10. CASE Connected(r)
  <2> DEFINE q == [req[r] EXCEPT !.pc = "reserve", !.gen = conn.gen + 1]
             c1 == [conn EXCEPT !.gen = conn.gen + 1]
             c2 == [c1 EXCEPT !.err = FALSE]
             c3 == [c2 EXCEPT !.settings = FALSE]
             c4 == [c3 EXCEPT !.limit = 0]
  <2>1. Set(r, q) /\ lock' = Nobody /\ srv' = srv /\ lock = r /\ conn' = c4
    <3>1. conn' = [conn EXCEPT !.gen = conn.gen + 1, !.err = FALSE, !.settings = FALSE, !.limit = 0]
      BY <1>10 DEF Connected
    <3>2. conn' = c4
      BY <1>1, <3>1
    <3> QED BY <1>10, <3>2 DEF Connected, H2SInv, Connecting
  <2>2. conn' \in ConnRec /\ conn'.gen = conn.gen + 1 /\ ~ conn'.err /\ conn'.closed = conn.closed
    <3>1. c1 \in ConnRec /\ c1.gen = conn.gen + 1 /\ c1.closed = conn.closed
      BY <1>1
    <3> HIDE DEF c1
    <3>2. c2 \in ConnRec /\ c2.gen = conn.gen + 1 /\ c2.closed = conn.closed /\ ~ c2.err
      BY <3>1
    <3> HIDE DEF c2
    <3>3. c3 \in ConnRec /\ c3.gen = conn.gen + 1 /\ c3.closed = conn.closed /\ ~ c3.err
      BY <3>2
    <3> HIDE DEF c3
    <3>4. c4 \in ConnRec /\ c4.gen = conn.gen + 1 /\ c4.closed = conn.closed /\ ~ c4.err
      BY <3>3, StreamsAssumption
    <3> HIDE DEF c4
    <3> QED BY <2>1, <3>4
  <2> HIDE DEF c4
  <2>3. q \in ReqRec /\ q.pc = "reserve" /\ q.gen = conn.gen + 1 /\ Idle(q) /\ ~ q.asleep
    <3> DEFINE n == conn.gen + 1
               q1 == [req[r] EXCEPT !.pc = "reserve"]
               q2 == [q1 EXCEPT !.gen = n]
    <3>1. n \in Nat
      BY <1>1
    <3>2. q1 \in ReqRec /\ q1.pc = "reserve" /\ Idle(q1) /\ ~ q1.asleep
      BY <1>2 DEF ReqRec, Phases, Idle
    <3>3. q = q2
      BY <1>2 DEF ReqRec
    <3> HIDE DEF n, q1
    <3>4. q2 \in ReqRec /\ q2.pc = "reserve" /\ q2.gen = n /\ Idle(q2) /\ ~ q2.asleep
      BY <3>1, <3>2 DEF ReqRec, Idle
    <3> HIDE DEF q, q2
    <3> QED BY <3>3, <3>4 DEF n
  <2> HIDE DEF q
  <2>5. req' \in [Requests -> ReqRec] /\ req'[r] = q /\ \A e \in Requests \ {r} : req'[e] = req[e]
    BY <1>1, <2>1, <2>3 DEF Set
  <2>6. conn.gen \in Nat /\ (conn.gen = 0 \/ conn.err)
    BY <1>1, <2>1, StreamsAssumption DEF H2SInv, Connecting
  <2>7. ASSUME NEW e \in Requests
        PROVE  /\ ~ req'[e].asleep /\ req'[e].gen <= conn'.gen /\ req'[e].sent <= BodyUnits
               /\ req'[e].pc \in OnStream \cup {"reserve"} => req'[e].gen > 0
               /\ req'[e].pc \in OnStream => req'[e].gen < conn'.gen
               /\ req'[e].pc \notin OnStream => Idle(req'[e])
               /\ req'[e].ended => req'[e].started
               /\ req'[e].pc \in OnStream => req'[e].err \/ req'[e].ended
    <3>1. CASE e = r
      BY <1>1, <2>2, <2>3, <2>5, <2>6, <3>1 DEF Idle, OnStream
    <3>2. CASE e # r
      <4>1. req'[e] = req[e] /\ ReqOK(e) /\ SleepOK(e) /\ req[e].gen \in Nat
        BY <1>1, <2>5, <3>2 DEF H2SInv, ReqRec
      <4> QED BY <2>2, <2>6, <4>1 DEF ReqOK, SleepOK, Dead, OnStream
    <3> QED BY <3>1, <3>2
  <2>8. Streams' = {}
    <3>1. \A e \in Requests : req'[e].pc \in OnStream => req'[e].gen # conn'.gen
      BY <2>2, <2>5, <2>6, <2>7 DEF ReqRec
    <3> QED BY <3>1 DEF Streams
  <2>9. Cardinality(Streams)' <= MaxStreams
    BY <2>8, FS_EmptySet, StreamsAssumption
  <2>10. Connecting'
    <3>1. \A e \in Requests : req'[e].pc # "connecting"
      BY <2>1, <2>3, <2>5 DEF H2SInv, Connecting
    <3> QED BY <2>1, <2>2, <3>1, StreamsAssumption DEF H2SInv, Connecting
  <2>11. H2STypeOK'
    BY <1>1, <2>1, <2>2, <2>5 DEF H2STypeOK
  <2> QED BY <2>7, <2>8, <2>9, <2>10, <2>11 DEF H2SInv, ReqOK, WindowOK, SleepOK
<1> QED BY <1>5, <1>6, <1>7, <1>8, <1>9, <1>10 DEF UseConnection

(* Who may sleep, of what it waits for; and the sum of a stream's window.  *)
Restful(q, takes) ==
    /\ q.pc \in {"body", "headers", "read"} /\ ~ q.err
    /\ q.pc = "body" => takes = 0
    /\ q.pc = "headers" => ~ q.started
    /\ q.pc = "read" => q.chunks = 0 /\ ~ q.ended
Balanced(q, window) ==
    /\ window + q.chunks + q.credit + (IF q.pc = "taken" THEN 1 ELSE 0) = Window
    /\ q.chunks = 0 /\ q.pc # "taken" => q.credit = 0

(* A request that has a stream keeps it.                                   *)
LEMMA OnItsStream ==
    ASSUME H2SInv, NEW r \in Requests, NEW q \in ReqRec, UNCHANGED <<conn, lock>>,
           req' \in [Requests -> ReqRec], srv' \in [Requests -> [window : Nat, takes : Nat]],
           Eased(q, req'[r]), \A e \in Requests \ {r} : Eased(req[e], req'[e]) /\ srv'[e] = srv[e],
           req[r].pc \in OnStream, q.pc \in OnStream, q.gen = req[r].gen, q.sent <= BodyUnits,
           req'[r].asleep => Restful(q, srv'[r].takes) /\ ~ Dead(r),
           q.ended => q.started, Dead(r) => q.err \/ q.ended,
           r \in Streams /\ ~ conn.err /\ ~ q.ended => Balanced(q, srv'[r].window)
    PROVE  H2SInv'
<1>1. ReqOK(r)'
  <2>1. ReqOK(r)
    BY DEF H2SInv
  <2>2. req'[r].asleep => q.pc \in {"body", "headers", "read"}
    BY DEF Restful
  <2> QED BY <2>1, <2>2 DEF ReqOK, Eased, Dead
<1>2. r \in Streams' <=> r \in Streams
  BY DEF Streams, Eased
<1>3. WindowOK(r)'
  BY <1>2 DEF WindowOK, Balanced, Eased
<1>4. SleepOK(r)'
  BY DEF SleepOK, Restful, Eased, Dead
<1>5. /\ (req[r].pc \in OnStream /\ req[r].gen = conn.gen) <=> (req'[r].pc \in OnStream /\ req'[r].gen = conn.gen)
      /\ req[r].pc = "connecting" <=> req'[r].pc = "connecting"
  BY DEF Eased, OnStream
<1> QED BY <1>1, <1>3, <1>4, <1>5, SameStreams

LEMMA SetEases ==
    ASSUME H2SInv, NEW r \in Requests, NEW q \in ReqRec, Set(r, q)
    PROVE  /\ req' \in [Requests -> ReqRec] /\ req'[r] = q /\ Eased(q, req'[r])
           /\ \A e \in Requests \ {r} : Eased(req[e], req'[e])
BY EasedFacts DEF H2SInv, H2STypeOK, Set

LEMMA WakeEases ==
    ASSUME H2SInv, NEW r \in Requests, NEW q \in ReqRec, req' = WakeConnection([req EXCEPT ![r] = q])
    PROVE  /\ req' \in [Requests -> ReqRec] /\ Eased(q, req'[r])
           /\ \A e \in Requests \ {r} : Eased(req[e], req'[e])
           /\ q.pc \in OnConnection /\ q.gen = conn.gen => ~ req'[r].asleep
<1> DEFINE reqs == [req EXCEPT ![r] = q]
<1>1. reqs \in [Requests -> ReqRec] /\ reqs[r] = q /\ \A e \in Requests \ {r} : reqs[e] = req[e]
  BY DEF H2SInv, H2STypeOK
<1>2. req' = WakeConnection(reqs)
  OBVIOUS
<1> HIDE DEF reqs
<1> QED BY <1>1, <1>2, WakeFacts

LEMMA StreamFacts ==
    ASSUME H2SInv, NEW r \in Requests, req[r].pc \in OnStream
    PROVE  /\ req[r] \in ReqRec /\ srv \in [Requests -> [window : Nat, takes : Nat]]
           /\ req[r].sent <= BodyUnits
           /\ r \in Streams /\ ~ conn.err /\ ~ req[r].ended => Balanced(req[r], srv[r].window)
           /\ req[r].asleep => Restful(req[r], srv[r].takes) /\ ~ Dead(r)
           /\ req[r].ended => req[r].started
           /\ Dead(r) => req[r].err \/ req[r].ended
           /\ BodyUnits \in Nat /\ Window \in Nat /\ Batch \in Nat
BY StreamsAssumption DEF H2SInv, H2STypeOK, ReqOK, WindowOK, SleepOK, Balanced, Restful, OnStream

(* A step of r alone that changes nothing at the server.                   *)
LEMMA Alone ==
    ASSUME H2SInv, NEW r \in Requests, NEW q \in ReqRec, Set(r, q), UNCHANGED <<conn, lock, srv>>,
           req[r].pc \in OnStream, q.pc \in OnStream, q.gen = req[r].gen, q.sent <= BodyUnits,
           q.asleep => Restful(q, srv[r].takes) /\ ~ Dead(r),
           q.ended => q.started, Dead(r) => q.err \/ q.ended,
           r \in Streams /\ ~ conn.err /\ ~ q.ended => Balanced(q, srv[r].window)
    PROVE  H2SInv'
BY SetEases, OnItsStream, StreamFacts

LEMMA Reserves ==
    ASSUME H2SInv, NEW r \in Requests, ReserveStream(r)
    PROVE  H2SInv'
<1>1. /\ req[r].pc = "reserve" /\ ~ req[r].asleep /\ UNCHANGED <<conn, lock>>
      /\ req[r] \in ReqRec /\ Idle(req[r]) /\ ReqOK(r) /\ req \in [Requests -> ReqRec]
      /\ srv \in [Requests -> [window : Nat, takes : Nat]] /\ Window \in Nat /\ BodyUnits \in Nat
  BY StreamsAssumption DEF ReserveStream, Awake, H2SInv, H2STypeOK, ReqOK, OnStream
<1>2. CASE Dead(r)
  <2>1. Set(r, NewReq) /\ srv' = srv
    BY <1>2 DEF ReserveStream
  <2>2. /\ req' \in [Requests -> ReqRec] /\ req'[r] = NewReq
        /\ \A e \in Requests \ {r} : Eased(req[e], req'[e])
    BY <2>1, NewReqFacts, SetEases
  <2>3. conn.gen \in Nat
    BY DEF H2SInv, H2STypeOK, ConnRec
  <2>4. ReqOK(r)' /\ WindowOK(r)' /\ SleepOK(r)'
    BY <1>1, <2>2, <2>3, NewReqFacts DEF ReqOK, WindowOK, SleepOK, Streams, OnStream, Idle
  <2> QED BY <1>1, <2>1, <2>2, <2>4, NewReqFacts, SameStreams DEF OnStream
<1>3. CASE ~ Dead(r) /\ ~ HasRoom
  <2> DEFINE q == [req[r] EXCEPT !.asleep = TRUE]
  <2>1. Set(r, q) /\ srv' = srv
    BY <1>3 DEF ReserveStream
  <2>2. q \in ReqRec /\ q.pc = "reserve" /\ q.gen = req[r].gen /\ ~ q.err /\ Idle(q) /\ q.sent = 0
    BY <1>1 DEF ReqRec, Idle
  <2> HIDE DEF q
  <2>3. /\ req' \in [Requests -> ReqRec] /\ req'[r] = q
        /\ \A e \in Requests \ {r} : Eased(req[e], req'[e])
    BY <2>1, <2>2, SetEases
  <2>4. Streams' = Streams
    BY <1>1, <2>2, <2>3 DEF Streams, OnStream, Eased
  <2>5. ReqOK(r)' /\ WindowOK(r)'
    BY <1>1, <2>2, <2>3, <2>4 DEF ReqOK, WindowOK, Streams, OnStream, Idle
  <2>6. SleepOK(r)'
    BY <1>1, <1>3, <2>2, <2>3, <2>4 DEF SleepOK, Dead, HasRoom
  <2> QED BY <1>1, <2>1, <2>2, <2>3, <2>5, <2>6, SameStreams DEF OnStream
<1>4. CASE ~ Dead(r) /\ HasRoom
  <2> DEFINE q == [req[r] EXCEPT !.pc = "body"]
             s == [window |-> Window, takes |-> 1]
  <2>1. Set(r, q) /\ srv' = [srv EXCEPT ![r] = s]
    BY <1>4 DEF ReserveStream
  <2>2. /\ q \in ReqRec /\ q.pc = "body" /\ q.gen = req[r].gen /\ ~ q.asleep /\ q.sent = 0
        /\ q.chunks = 0 /\ q.credit = 0 /\ ~ q.ended
    BY <1>1 DEF ReqRec, Phases, OnStream, Idle
  <2>3. srv' \in [Requests -> [window : Nat, takes : Nat]] /\ srv'[r].window = Window
        /\ \A e \in Requests \ {r} : srv'[e] = srv[e]
    BY <1>1, <2>1
  <2> HIDE DEF q, s
  <2>4. /\ req' \in [Requests -> ReqRec] /\ req'[r] = q
        /\ \A e \in Requests \ {r} : Eased(req[e], req'[e])
    BY <2>1, <2>2, SetEases
  <2>5. Streams' = Streams \cup {r} /\ r \notin Streams
    BY <1>1, <1>4, <2>2, <2>4 DEF Streams, OnStream, Eased, Dead
  <2>6. Cardinality(Streams) < conn.limit /\ conn.limit \in 0 .. MaxStreams
    BY <1>4 DEF HasRoom, H2SInv, H2STypeOK, ConnRec
  <2>7. Cardinality(Streams)' = Cardinality(Streams) + 1
    BY <2>5, StreamsFinite, FS_AddElement
  <2>8. Cardinality(Streams)' <= MaxStreams
    BY <2>6, <2>7, StreamsFinite, StreamsAssumption
  <2>9. Connecting'
    BY <1>1, <2>2, <2>4 DEF H2SInv, Connecting, Eased
  <2>10. ReqOK(r)' /\ WindowOK(r)' /\ SleepOK(r)'
    BY <1>1, <1>4, <2>2, <2>3, <2>4 DEF ReqOK, WindowOK, SleepOK, OnStream, Dead
  <2>11. \A e \in Requests \ {r} : req[e].pc = "reserve" => ~ req'[e].asleep
    BY <1>4, <2>4 DEF H2SInv, SleepOK, Eased
  <2> QED BY <1>1, <2>3, <2>4, <2>8, <2>9, <2>10, <2>11, OneRequest
<1> QED BY <1>2, <1>3, <1>4

LEMMA Sends ==
    ASSUME H2SInv, NEW r \in Requests, SendBody(r)
    PROVE  H2SInv'
<1>1. req[r].pc = "body" /\ ~ req[r].asleep /\ UNCHANGED <<conn, lock>> /\ req[r].pc \in OnStream
  BY DEF SendBody, Awake, OnStream
<1>2. /\ req[r] \in ReqRec /\ srv \in [Requests -> [window : Nat, takes : Nat]]
      /\ req[r].sent <= BodyUnits /\ BodyUnits \in Nat
      /\ r \in Streams /\ ~ conn.err /\ ~ req[r].ended => Balanced(req[r], srv[r].window)
      /\ (req[r].ended => req[r].started) /\ (Dead(r) => req[r].err \/ req[r].ended)
  BY <1>1, StreamFacts
<1>3. req[r].sent \in Nat /\ srv[r].takes \in Nat
  BY <1>2 DEF ReqRec
<1>4. CASE Dead(r) \/ req[r].err
  BY <1>1, <1>4, Leaves DEF SendBody, OnStream
<1>5. CASE ~ (Dead(r) \/ req[r].err) /\ req[r].sent = BodyUnits
  <2> DEFINE q == [req[r] EXCEPT !.pc = "headers"]
  <2>1. Set(r, q) /\ srv' = srv
    BY <1>2, <1>3, <1>5 DEF SendBody
  <2>2. /\ q \in ReqRec /\ q.pc = "headers" /\ q.gen = req[r].gen /\ q.sent = req[r].sent /\ ~ q.asleep
        /\ q.chunks = req[r].chunks /\ q.credit = req[r].credit /\ q.ended = req[r].ended
        /\ q.started = req[r].started /\ q.err = req[r].err
    BY <1>1, <1>2 DEF ReqRec, Phases, OnStream
  <2> HIDE DEF q
  <2>3. r \in Streams /\ ~ conn.err /\ ~ q.ended => Balanced(q, srv[r].window)
    BY <1>1, <1>2, <2>2 DEF Balanced
  <2> QED BY <1>1, <1>2, <2>1, <2>2, <2>3, Alone DEF OnStream
<1>6. CASE ~ (Dead(r) \/ req[r].err) /\ req[r].sent < BodyUnits /\ srv[r].takes > 0
  <2> DEFINE n == req[r].sent + 1
             q == [req[r] EXCEPT !.sent = n]
  <2>1. Set(r, q) /\ srv' = [srv EXCEPT ![r].takes = srv[r].takes - 1]
    BY <1>2, <1>3, <1>6 DEF SendBody
  <2>2. n \in Nat /\ n <= BodyUnits
    BY <1>2, <1>3, <1>6
  <2> HIDE DEF n
  <2>3. /\ q \in ReqRec /\ q.pc = "body" /\ q.gen = req[r].gen /\ q.sent = n /\ ~ q.asleep
        /\ q.chunks = req[r].chunks /\ q.credit = req[r].credit /\ q.ended = req[r].ended
        /\ q.started = req[r].started /\ q.err = req[r].err
    BY <1>1, <1>2, <2>2 DEF ReqRec
  <2> HIDE DEF q
  <2>4. /\ srv' \in [Requests -> [window : Nat, takes : Nat]] /\ srv'[r].window = srv[r].window
        /\ \A e \in Requests \ {r} : srv'[e] = srv[e]
    BY <1>2, <1>3, <1>6, <2>1
  <2>5. r \in Streams /\ ~ conn.err /\ ~ q.ended => Balanced(q, srv'[r].window)
    BY <1>1, <1>2, <2>3, <2>4 DEF Balanced
  <2>6. /\ req' \in [Requests -> ReqRec] /\ req'[r] = q /\ Eased(q, req'[r])
        /\ \A e \in Requests \ {r} : Eased(req[e], req'[e])
    BY <2>1, <2>3, SetEases
  <2> QED BY <1>1, <1>2, <2>2, <2>3, <2>4, <2>5, <2>6, OnItsStream
<1>7. CASE ~ (Dead(r) \/ req[r].err) /\ req[r].sent < BodyUnits /\ srv[r].takes = 0
  <2> DEFINE q == [req[r] EXCEPT !.asleep = TRUE]
  <2>1. Set(r, q) /\ srv' = srv
    BY <1>2, <1>3, <1>7 DEF SendBody
  <2>2. /\ q \in ReqRec /\ q.pc = "body" /\ q.gen = req[r].gen /\ q.sent = req[r].sent
        /\ q.chunks = req[r].chunks /\ q.credit = req[r].credit /\ q.ended = req[r].ended
        /\ q.started = req[r].started /\ q.err = req[r].err
    BY <1>1, <1>2 DEF ReqRec
  <2> HIDE DEF q
  <2>3. r \in Streams /\ ~ conn.err /\ ~ q.ended => Balanced(q, srv[r].window)
    BY <1>1, <1>2, <2>2 DEF Balanced
  <2>4. Restful(q, srv[r].takes) /\ ~ Dead(r)
    BY <1>7, <2>2 DEF Restful
  <2> QED BY <1>1, <1>2, <2>1, <2>2, <2>3, <2>4, Alone DEF OnStream
<1>8. req[r].sent = BodyUnits \/ (req[r].sent < BodyUnits /\ (srv[r].takes > 0 \/ srv[r].takes = 0))
  BY <1>2, <1>3
<1> QED BY <1>4, <1>5, <1>6, <1>7, <1>8

LEMMA AwaitsHeaders ==
    ASSUME H2SInv, NEW r \in Requests, AwaitHeaders(r)
    PROVE  H2SInv'
<1>1. req[r].pc = "headers" /\ ~ req[r].asleep /\ UNCHANGED <<conn, lock, srv>> /\ req[r].pc \in OnStream
  BY DEF AwaitHeaders, Awake, OnStream
<1>2. /\ req[r] \in ReqRec /\ req[r].sent <= BodyUnits
      /\ r \in Streams /\ ~ conn.err /\ ~ req[r].ended => Balanced(req[r], srv[r].window)
      /\ (req[r].ended => req[r].started) /\ (Dead(r) => req[r].err \/ req[r].ended)
  BY <1>1, StreamFacts
<1>3. CASE req[r].err
  BY <1>1, <1>3, Leaves DEF AwaitHeaders
<1>4. CASE ~ req[r].err /\ req[r].started
  <2> DEFINE q == [req[r] EXCEPT !.pc = "read"]
  <2>1. Set(r, q)
    BY <1>4 DEF AwaitHeaders
  <2>2. /\ q \in ReqRec /\ q.pc = "read" /\ q.gen = req[r].gen /\ q.sent = req[r].sent /\ ~ q.asleep
        /\ q.chunks = req[r].chunks /\ q.credit = req[r].credit /\ q.ended = req[r].ended
        /\ q.started = req[r].started /\ q.err = req[r].err
    BY <1>1, <1>2 DEF ReqRec, Phases, OnStream
  <2> HIDE DEF q
  <2>3. r \in Streams /\ ~ conn.err /\ ~ q.ended => Balanced(q, srv[r].window)
    BY <1>1, <1>2, <2>2 DEF Balanced
  <2> QED BY <1>1, <1>2, <2>1, <2>2, <2>3, Alone DEF OnStream
<1>5. CASE ~ req[r].err /\ ~ req[r].started
  <2> DEFINE q == [req[r] EXCEPT !.asleep = TRUE]
  <2>1. Set(r, q)
    BY <1>5 DEF AwaitHeaders
  <2>2. /\ q \in ReqRec /\ q.pc = "headers" /\ q.gen = req[r].gen /\ q.sent = req[r].sent
        /\ q.chunks = req[r].chunks /\ q.credit = req[r].credit /\ q.ended = req[r].ended
        /\ q.started = req[r].started /\ q.err = req[r].err
    BY <1>1, <1>2 DEF ReqRec
  <2> HIDE DEF q
  <2>3. r \in Streams /\ ~ conn.err /\ ~ q.ended => Balanced(q, srv[r].window)
    BY <1>1, <1>2, <2>2 DEF Balanced
  <2>4. Restful(q, srv[r].takes) /\ ~ Dead(r)
    BY <1>2, <1>5, <2>2 DEF Restful
  <2> QED BY <1>1, <1>2, <2>1, <2>2, <2>3, <2>4, Alone DEF OnStream
<1> QED BY <1>3, <1>4, <1>5

LEMMA Reads ==
    ASSUME H2SInv, NEW r \in Requests, ReadBody(r)
    PROVE  H2SInv'
<1>1. req[r].pc = "read" /\ ~ req[r].asleep /\ UNCHANGED <<conn, lock, srv>> /\ req[r].pc \in OnStream
  BY DEF ReadBody, Awake, OnStream
<1>2. /\ req[r] \in ReqRec /\ req[r].sent <= BodyUnits
      /\ r \in Streams /\ ~ conn.err /\ ~ req[r].ended => Balanced(req[r], srv[r].window)
      /\ (req[r].ended => req[r].started) /\ (Dead(r) => req[r].err \/ req[r].ended)
      /\ srv[r].window \in Nat /\ Window \in Nat
  BY <1>1, StreamFacts
<1>3. CASE req' = Released(req, r)
  BY <1>1, <1>3, Leaves
<1>4. CASE req[r].chunks > 0 /\ Set(r, [req[r] EXCEPT !.pc = "taken", !.chunks = req[r].chunks - 1])
  <2> DEFINE n == req[r].chunks - 1
             q == [req[r] EXCEPT !.pc = "taken", !.chunks = n]
  <2>1. n \in Nat /\ req[r].chunks = n + 1 /\ req[r].credit \in Nat
    BY <1>2, <1>4 DEF ReqRec
  <2>2. Set(r, q)
    BY <1>4
  <2> HIDE DEF n
  <2>3. /\ q \in ReqRec /\ q.pc = "taken" /\ q.gen = req[r].gen /\ q.sent = req[r].sent /\ ~ q.asleep
        /\ q.chunks = n
    BY <1>1, <1>2, <2>1 DEF ReqRec, Phases, OnStream
  <2>4. /\ q.credit = req[r].credit /\ q.ended = req[r].ended
        /\ q.started = req[r].started /\ q.err = req[r].err
    BY <1>1, <1>2, <2>1 DEF ReqRec
  <2> HIDE DEF q
  <2>5. r \in Streams /\ ~ conn.err /\ ~ q.ended => Balanced(q, srv[r].window)
    BY <1>1, <1>2, <2>1, <2>3, <2>4 DEF Balanced
  <2> QED BY <1>1, <1>2, <2>2, <2>3, <2>4, <2>5, Alone DEF OnStream
<1>5. CASE ~ req[r].err /\ req[r].chunks = 0 /\ ~ req[r].ended /\ Set(r, [req[r] EXCEPT !.asleep = TRUE])
  <2> DEFINE q == [req[r] EXCEPT !.asleep = TRUE]
  <2>1. Set(r, q)
    BY <1>5
  <2>2. /\ q \in ReqRec /\ q.pc = "read" /\ q.gen = req[r].gen /\ q.sent = req[r].sent
        /\ q.chunks = req[r].chunks /\ q.credit = req[r].credit /\ q.ended = req[r].ended
        /\ q.started = req[r].started /\ q.err = req[r].err
    BY <1>1, <1>2 DEF ReqRec
  <2> HIDE DEF q
  <2>3. r \in Streams /\ ~ conn.err /\ ~ q.ended => Balanced(q, srv[r].window)
    BY <1>1, <1>2, <2>2 DEF Balanced
  <2>4. Restful(q, srv[r].takes) /\ ~ Dead(r)
    BY <1>2, <1>5, <2>2 DEF Restful
  <2> QED BY <1>1, <1>2, <2>1, <2>2, <2>3, <2>4, Alone DEF OnStream
<1> QED BY <1>3, <1>4, <1>5 DEF ReadBody

(* Credit is kept only while something is buffered: whoever is given the   *)
(* credit of a frame ends with nothing buffered or all given back.         *)
LEMMA Credited ==
    ASSUME H2SInv, NEW r \in Requests, NEW q \in ReqRec, NEW left \in Nat,
           UNCHANGED <<conn, lock>>,
           req[r].pc \in OnStream, q.pc \in OnStream,
           q.gen = req[r].gen, q.sent <= BodyUnits, ~ q.asleep \/ Restful(q, srv[r].takes),
           q.ended => q.started, Dead(r) => q.err \/ q.ended, ~ Dead(r), ~ q.ended,
           left + q.chunks + q.credit + 1 + (IF q.pc = "taken" THEN 1 ELSE 0) = Window,
           \/ /\ q.chunks > 0
              /\ Set(r, [q EXCEPT !.credit = q.credit + 1]) /\ srv' = [srv EXCEPT ![r].window = left]
           \/ /\ Set(r, [q EXCEPT !.credit = 0])
              /\ srv' = [srv EXCEPT ![r].window = left + (q.credit + 1)]
    PROVE  H2SInv'
<1> DEFINE more == q.credit + 1
<1>1. q.credit \in Nat /\ more \in Nat /\ q.chunks \in Nat /\ Window \in Nat /\ BodyUnits \in Nat
  BY StreamsAssumption DEF ReqRec
<1>2. srv \in [Requests -> [window : Nat, takes : Nat]]
  BY StreamFacts
<1>3. PICK credit \in {0, more}, window \in {left, left + more} :
         /\ Set(r, [q EXCEPT !.credit = credit]) /\ srv' = [srv EXCEPT ![r].window = window]
         /\ window + credit = left + more
         /\ q.chunks = 0 => credit = 0
  BY <1>1
<1> DEFINE p == [q EXCEPT !.credit = credit]
<1>4. credit \in Nat /\ window \in Nat
  BY <1>1, <1>3
<1> HIDE DEF more
<1>5. /\ p \in ReqRec /\ p.pc = q.pc /\ p.gen = q.gen /\ p.sent = q.sent /\ p.asleep = q.asleep
      /\ p.chunks = q.chunks /\ p.credit = credit /\ p.ended = q.ended
      /\ p.started = q.started /\ p.err = q.err
  BY <1>4 DEF ReqRec
<1> HIDE DEF p
<1>6. /\ srv' \in [Requests -> [window : Nat, takes : Nat]] /\ srv'[r].window = window
      /\ srv'[r].takes = srv[r].takes
      /\ \A e \in Requests \ {r} : srv'[e] = srv[e]
  BY <1>2, <1>3, <1>4
<1>7. Balanced(p, srv'[r].window)
  BY <1>1, <1>3, <1>4, <1>5, <1>6 DEF Balanced, more
<1>8. /\ req' \in [Requests -> ReqRec] /\ req'[r] = p /\ Eased(p, req'[r])
      /\ \A e \in Requests \ {r} : Eased(req[e], req'[e])
  BY <1>3, <1>5, SetEases DEF p
<1>9. p.asleep => Restful(p, srv'[r].takes)
  BY <1>5, <1>6 DEF Restful
<1> QED BY <1>5, <1>6, <1>7, <1>8, <1>9, OnItsStream

LEMMA Consumes ==
    ASSUME H2SInv, NEW r \in Requests, ChunkConsumed(r)
    PROVE  H2SInv'
<1> DEFINE q == [req[r] EXCEPT !.pc = "read"]
<1>1. req[r].pc = "taken" /\ UNCHANGED <<conn, lock>> /\ req[r].pc \in OnStream /\ Consumed(r, q, 1)
  BY DEF ChunkConsumed, OnStream
<1>2. /\ req[r] \in ReqRec /\ req[r].sent <= BodyUnits /\ srv \in [Requests -> [window : Nat, takes : Nat]]
      /\ r \in Streams /\ ~ conn.err /\ ~ req[r].ended => Balanced(req[r], srv[r].window)
      /\ (req[r].ended => req[r].started) /\ (Dead(r) => req[r].err \/ req[r].ended)
      /\ Window \in Nat /\ (req[r].asleep => Restful(req[r], srv[r].takes))
  BY <1>1, StreamFacts
<1>3. ~ req[r].asleep
  BY <1>1, <1>2 DEF Restful
<1>4. /\ q \in ReqRec /\ q.pc = "read" /\ q.gen = req[r].gen /\ q.sent = req[r].sent /\ ~ q.asleep
      /\ q.chunks = req[r].chunks /\ q.credit = req[r].credit /\ q.ended = req[r].ended
      /\ q.started = req[r].started /\ q.err = req[r].err
  BY <1>1, <1>2, <1>3 DEF ReqRec, Phases, OnStream
<1> HIDE DEF q
<1>5. CASE (Dead(r) \/ q.ended) /\ Set(r, q) /\ srv' = srv
  <2>1. ~ (r \in Streams /\ ~ conn.err /\ ~ q.ended)
    BY <1>5 DEF Streams, Dead
  <2> QED BY <1>1, <1>2, <1>4, <1>5, <2>1, Alone DEF OnStream
<1>6. CASE ~ (Dead(r) \/ q.ended)
  <2> DEFINE left == srv[r].window
  <2>1. left \in Nat /\ q.credit \in Nat /\ q.chunks \in Nat
    BY <1>2, <1>4 DEF ReqRec
  <2>2. r \in Streams /\ ~ conn.err
    BY <1>1, <1>6 DEF Streams, Dead
  <2>3. left + q.chunks + q.credit + 1 + (IF q.pc = "taken" THEN 1 ELSE 0) = Window
    BY <1>1, <1>2, <1>4, <1>6, <2>1, <2>2 DEF Balanced
  <2>4. srv = [srv EXCEPT ![r].window = left]
    BY <1>2
  <2>5. \/ /\ q.chunks > 0
           /\ Set(r, [q EXCEPT !.credit = q.credit + 1]) /\ srv' = [srv EXCEPT ![r].window = left]
        \/ /\ Set(r, [q EXCEPT !.credit = 0])
           /\ srv' = [srv EXCEPT ![r].window = left + (q.credit + 1)]
    BY <1>1, <1>6, <2>4 DEF Consumed
  <2> HIDE DEF left
  <2>6. q.pc \in OnStream /\ (q.ended => q.started) /\ (Dead(r) => q.err \/ q.ended) /\ ~ Dead(r) /\ ~ q.ended
    BY <1>4, <1>6 DEF OnStream
  <2> QED BY <1>1, <1>2, <1>4, <2>1, <2>3, <2>5, <2>6, Credited
<1> QED BY <1>1, <1>5, <1>6 DEF Consumed

(* What the server sends on an open stream; Told wakes who waits for it.   *)
LEMMA ToldFacts ==
    ASSUME H2SInv, NEW r \in Requests, OpenH2Stream(r), NEW q \in ReqRec,
           q.pc = req[r].pc, q.gen = req[r].gen, q.asleep = req[r].asleep
    PROVE  /\ Told(r, q) \in ReqRec /\ Eased(q, Told(r, q))
           /\ Told(r, q).asleep => q.pc = "body" /\ srv[r].takes = 0
           /\ req[r].pc \in OnStream /\ r \in Streams /\ ~ Dead(r) /\ ~ conn.err
           /\ req[r] \in ReqRec /\ srv \in [Requests -> [window : Nat, takes : Nat]]
           /\ ~ req[r].err /\ ~ req[r].ended /\ req[r].sent <= BodyUnits
           /\ Balanced(req[r], srv[r].window) /\ Window \in Nat
<1>1. /\ req[r].pc \in OnStream /\ r \in Streams /\ ~ Dead(r) /\ ~ conn.err /\ ~ req[r].err /\ ~ req[r].ended
  BY DEF OpenH2Stream, Open, Streams, Dead
<1>2. Told(r, q) \in ReqRec /\ Eased(q, Told(r, q)) /\ (Told(r, q).asleep => q.pc = "body" /\ req[r].asleep)
  BY EasedFacts DEF Told, Eased
<1>3. req[r].asleep => Restful(req[r], srv[r].takes)
  BY <1>1, StreamFacts
<1> QED BY <1>1, <1>2, <1>3, StreamFacts DEF Restful

LEMMA Answers ==
    ASSUME H2SInv, NEW r \in Requests,
           ResponseReceived(r) \/ StreamEnded(r) \/ StreamReset(r) \/ DataReceived(r)
    PROVE  H2SInv'
<1>1. OpenH2Stream(r) /\ UNCHANGED <<conn, lock>>
  BY DEF ResponseReceived, StreamEnded, StreamReset, DataReceived
<1>2. /\ req[r].pc \in OnStream /\ r \in Streams /\ ~ Dead(r) /\ ~ conn.err
      /\ req[r] \in ReqRec /\ srv \in [Requests -> [window : Nat, takes : Nat]]
      /\ ~ req[r].err /\ ~ req[r].ended /\ req[r].sent <= BodyUnits
      /\ Balanced(req[r], srv[r].window) /\ Window \in Nat
  <2>1. req[r] \in ReqRec
    BY DEF H2SInv, H2STypeOK
  <2> QED BY <1>1, <2>1, ToldFacts
<1>3. CASE ResponseReceived(r)
  <2> DEFINE q == [req[r] EXCEPT !.started = TRUE]
             t == Told(r, q)
  <2>1. Set(r, t) /\ srv' = srv
    BY <1>3 DEF ResponseReceived
  <2>2. /\ q \in ReqRec /\ q.pc = req[r].pc /\ q.gen = req[r].gen /\ q.asleep = req[r].asleep
        /\ q.sent = req[r].sent /\ q.chunks = req[r].chunks /\ q.credit = req[r].credit
        /\ q.ended = req[r].ended /\ q.started /\ q.err = req[r].err
    BY <1>2 DEF ReqRec
  <2> HIDE DEF q
  <2>3. t \in ReqRec /\ Eased(q, t) /\ (t.asleep => q.pc = "body" /\ srv[r].takes = 0)
    BY <1>1, <2>2, ToldFacts
  <2> HIDE DEF t
  <2>4. Balanced(t, srv[r].window) /\ (t.asleep => Restful(t, srv[r].takes))
    BY <1>2, <2>2, <2>3 DEF Balanced, Restful, Eased
  <2> QED BY <1>1, <1>2, <2>1, <2>2, <2>3, <2>4, Alone DEF Eased
<1>4. CASE StreamEnded(r)
  <2> DEFINE q == [req[r] EXCEPT !.ended = TRUE]
             t == Told(r, q)
  <2>1. Set(r, t) /\ srv' = srv /\ req[r].started
    BY <1>4 DEF StreamEnded
  <2>2. /\ q \in ReqRec /\ q.pc = req[r].pc /\ q.gen = req[r].gen /\ q.asleep = req[r].asleep
        /\ q.sent = req[r].sent /\ q.ended /\ q.started = req[r].started /\ q.err = req[r].err
    BY <1>2 DEF ReqRec
  <2> HIDE DEF q
  <2>3. t \in ReqRec /\ Eased(q, t) /\ (t.asleep => q.pc = "body" /\ srv[r].takes = 0)
    BY <1>1, <2>2, ToldFacts
  <2> HIDE DEF t
  <2>4. t.ended /\ t.started /\ (t.asleep => Restful(t, srv[r].takes))
    BY <1>2, <2>1, <2>2, <2>3 DEF Restful, Eased
  <2> QED BY <1>1, <1>2, <2>1, <2>2, <2>3, <2>4, Alone DEF Eased
<1>5. CASE StreamReset(r)
  <2> DEFINE q == [req[r] EXCEPT !.err = TRUE]
             t == Told(r, q)
  <2>1. req' = WakeConnection([req EXCEPT ![r] = t]) /\ srv' = srv
    BY <1>5 DEF StreamReset
  <2>2. /\ q \in ReqRec /\ q.pc = req[r].pc /\ q.gen = req[r].gen /\ q.asleep = req[r].asleep
        /\ q.sent = req[r].sent /\ q.chunks = req[r].chunks /\ q.credit = req[r].credit
        /\ q.ended = req[r].ended /\ q.started = req[r].started /\ q.err
    BY <1>2 DEF ReqRec
  <2> HIDE DEF q
  <2>3. t \in ReqRec /\ Eased(q, t) /\ (t.asleep => q.pc = "body" /\ srv[r].takes = 0)
    BY <1>1, <2>2, ToldFacts
  <2> HIDE DEF t
  <2>4. /\ req' \in [Requests -> ReqRec] /\ Eased(t, req'[r])
        /\ \A e \in Requests \ {r} : Eased(req[e], req'[e])
        /\ t.pc \in OnConnection /\ t.gen = conn.gen => ~ req'[r].asleep
    BY <2>1, <2>3, WakeEases
  <2>5. ~ req'[r].asleep
    BY <1>2, <2>2, <2>3, <2>4 DEF Eased, OnConnection, Streams
  <2>6. Balanced(t, srv[r].window)
    BY <1>2, <2>2, <2>3 DEF Balanced, Eased
  <2>7. t.pc = req[r].pc /\ t.gen = req[r].gen /\ t.sent = req[r].sent /\ t.err
        /\ (t.ended => t.started)
    BY <1>2, <2>2, <2>3 DEF Eased
  <2>8. srv' \in [Requests -> [window : Nat, takes : Nat]] /\ srv'[r] = srv[r]
        /\ \A e \in Requests \ {r} : srv'[e] = srv[e]
    BY <1>2, <2>1
  <2> QED BY <1>1, <1>2, <2>3, <2>4, <2>5, <2>6, <2>7, <2>8, OnItsStream
<1>6. CASE DataReceived(r)
  <2> DEFINE n == req[r].chunks + 1
             left == srv[r].window - 1
             q == [req[r] EXCEPT !.chunks = n]
             t == Told(r, q)
  <2>1. Set(r, t) /\ srv' = [srv EXCEPT ![r].window = left] /\ req[r].started /\ srv[r].window > 0
    BY <1>6 DEF DataReceived
  <2>2. n \in Nat /\ left \in Nat /\ req[r].credit \in Nat /\ srv[r].window + req[r].chunks = left + n /\ n > 0
    BY <1>2, <2>1 DEF ReqRec
  <2> HIDE DEF n, left
  <2>3. /\ q \in ReqRec /\ q.pc = req[r].pc /\ q.gen = req[r].gen /\ q.asleep = req[r].asleep
        /\ q.sent = req[r].sent /\ q.chunks = n /\ q.credit = req[r].credit
        /\ q.ended = req[r].ended /\ q.started = req[r].started /\ q.err = req[r].err
    BY <1>2, <2>2 DEF ReqRec
  <2> HIDE DEF q
  <2>4. t \in ReqRec /\ Eased(q, t) /\ (t.asleep => q.pc = "body" /\ srv[r].takes = 0)
    BY <1>1, <2>3, ToldFacts
  <2> HIDE DEF t
  <2>5. /\ srv' \in [Requests -> [window : Nat, takes : Nat]] /\ srv'[r].window = left
        /\ srv'[r].takes = srv[r].takes /\ \A e \in Requests \ {r} : srv'[e] = srv[e]
    BY <1>2, <2>1, <2>2
  <2>6. Balanced(t, srv'[r].window)
    <3>1. t.chunks = n /\ t.credit = req[r].credit /\ t.pc = req[r].pc
      BY <2>3, <2>4 DEF Eased
    <3>2. left + n + t.credit + (IF t.pc = "taken" THEN 1 ELSE 0) = Window
      <4>1. req[r].chunks \in Nat /\ srv[r].window \in Nat
        BY <1>2 DEF ReqRec
      <4> QED BY <1>2, <2>2, <3>1, <4>1 DEF Balanced
    <3> QED BY <2>2, <2>5, <3>1, <3>2 DEF Balanced
  <2>7. t.asleep => Restful(t, srv'[r].takes)
    BY <1>2, <2>3, <2>4, <2>5 DEF Restful, Eased
  <2>8. /\ req' \in [Requests -> ReqRec] /\ req'[r] = t /\ Eased(t, req'[r])
        /\ \A e \in Requests \ {r} : Eased(req[e], req'[e])
    BY <2>1, <2>4, SetEases
  <2>9. t.pc = req[r].pc /\ t.gen = req[r].gen /\ t.sent = req[r].sent /\ t.ended = req[r].ended
        /\ t.started
    BY <2>1, <2>3, <2>4 DEF Eased
  <2> QED BY <1>1, <1>2, <2>4, <2>5, <2>6, <2>7, <2>8, <2>9, OnItsStream
<1> QED BY <1>3, <1>4, <1>5, <1>6

LEMMA PaddingStep ==
    ASSUME H2SInv, NEW r \in Requests, PaddingReceived(r)
    PROVE  H2SInv'
<1> DEFINE q == Told(r, req[r])
           left == srv[r].window - 1
<1>1. OpenH2Stream(r) /\ UNCHANGED <<conn, lock>> /\ req[r].started /\ srv[r].window > 0
  BY DEF PaddingReceived
<1>2. /\ req[r].pc \in OnStream /\ ~ Dead(r)
      /\ req[r] \in ReqRec /\ srv \in [Requests -> [window : Nat, takes : Nat]]
      /\ ~ req[r].err /\ ~ req[r].ended /\ req[r].sent <= BodyUnits
      /\ Balanced(req[r], srv[r].window) /\ Window \in Nat
      /\ q \in ReqRec /\ Eased(req[r], q) /\ (q.asleep => q.pc = "body" /\ srv[r].takes = 0)
  <2>1. req[r] \in ReqRec
    BY DEF H2SInv, H2STypeOK
  <2> DEFINE p == req[r]
  <2>2. p \in ReqRec /\ p.pc = req[r].pc /\ p.gen = req[r].gen /\ p.asleep = req[r].asleep /\ q = Told(r, p)
    BY <2>1
  <2> HIDE DEF q
  <2>3. /\ Told(r, p) \in ReqRec /\ Eased(p, Told(r, p))
        /\ Told(r, p).asleep => p.pc = "body" /\ srv[r].takes = 0
        /\ req[r].pc \in OnStream /\ ~ Dead(r)
        /\ srv \in [Requests -> [window : Nat, takes : Nat]]
        /\ ~ req[r].err /\ ~ req[r].ended /\ req[r].sent <= BodyUnits
        /\ Balanced(req[r], srv[r].window) /\ Window \in Nat
    BY <1>1, <2>2, ToldFacts
  <2>4. q.pc = p.pc
    BY <2>2, <2>3 DEF Eased
  <2> QED BY <2>1, <2>2, <2>3, <2>4
<1>3. left \in Nat /\ q.chunks \in Nat /\ q.credit \in Nat /\ srv[r].window = left + 1
  BY <1>1, <1>2 DEF ReqRec
<1>4. \/ /\ q.chunks > 0
         /\ Set(r, [q EXCEPT !.credit = q.credit + 1]) /\ srv' = [srv EXCEPT ![r].window = left]
      \/ /\ Set(r, [q EXCEPT !.credit = 0])
         /\ srv' = [srv EXCEPT ![r].window = left + (q.credit + 1)]
  BY DEF PaddingReceived
<1> HIDE DEF q, left
<1>5. left + q.chunks + q.credit + 1 + (IF q.pc = "taken" THEN 1 ELSE 0) = Window
  BY <1>2, <1>3 DEF Balanced, Eased
<1>6. ~ q.asleep \/ Restful(q, srv[r].takes)
  BY <1>2 DEF Restful, Eased
<1>7. q.pc \in OnStream /\ q.gen = req[r].gen /\ q.sent <= BodyUnits /\ (q.ended => q.started) /\ ~ q.ended
  BY <1>1, <1>2 DEF Eased
<1> QED BY <1>1, <1>2, <1>3, <1>4, <1>5, <1>6, <1>7, Credited

(* What the server says of the whole connection: who waits on it is told.  *)
LEMMA Takes ==
    ASSUME H2SInv, NEW r \in Requests, WindowUpdated(r)
    PROVE  H2SInv'
<1>1. /\ OpenH2Stream(r) /\ UNCHANGED <<conn, lock>> /\ req' = WakeConnection(req)
      /\ srv' = [srv EXCEPT ![r].takes = 1]
  BY DEF WindowUpdated
<1>2. /\ req[r].pc \in OnStream /\ r \in Streams /\ ~ Dead(r) /\ ~ conn.err
      /\ ~ req[r].err /\ ~ req[r].ended
  BY <1>1 DEF OpenH2Stream, Open, Streams, Dead
<1>3. /\ req \in [Requests -> ReqRec] /\ req[r] \in ReqRec
      /\ srv \in [Requests -> [window : Nat, takes : Nat]]
      /\ req[r].sent <= BodyUnits /\ Balanced(req[r], srv[r].window)
      /\ (req[r].asleep => Restful(req[r], srv[r].takes))
  <2>1. req \in [Requests -> ReqRec]
    BY DEF H2SInv, H2STypeOK
  <2> QED BY <1>2, <2>1, StreamFacts
<1>4. /\ req' \in [Requests -> ReqRec]
      /\ \A e \in Requests : Eased(req[e], req'[e])
      /\ req[r].pc \in OnConnection /\ req[r].gen = conn.gen => ~ req'[r].asleep
  BY <1>1, <1>3, WakeFacts
<1>5. /\ srv' \in [Requests -> [window : Nat, takes : Nat]] /\ srv'[r].window = srv[r].window
      /\ \A e \in Requests \ {r} : srv'[e] = srv[e]
  BY <1>1, <1>3
<1>6. req'[r].asleep => Restful(req[r], srv'[r].takes)
  <2>1. req'[r].asleep => req[r].asleep /\ req[r].pc # "body"
    BY <1>2, <1>4 DEF Eased, OnConnection, Streams
  <2> QED BY <1>3, <2>1 DEF Restful
<1>7. Balanced(req[r], srv'[r].window)
  BY <1>3, <1>5
<1> DEFINE q == req[r]
<1>8. /\ q \in ReqRec /\ Eased(q, req'[r]) /\ q.pc \in OnStream /\ q.gen = req[r].gen
      /\ q.sent <= BodyUnits /\ (req'[r].asleep => Restful(q, srv'[r].takes)) /\ ~ q.ended
      /\ Balanced(q, srv'[r].window)
  BY <1>2, <1>3, <1>4, <1>6, <1>7
<1> HIDE DEF q
<1> QED BY <1>1, <1>2, <1>4, <1>5, <1>8, OnItsStream

LEMMA Settles ==
    ASSUME H2SInv, NEW n \in 1 .. MaxStreams + 1, RemoteSettings(n)
    PROVE  H2SInv'
<1> DEFINE m == IF n < MaxStreams THEN n ELSE MaxStreams
           c1 == [conn EXCEPT !.settings = TRUE]
           c2 == [c1 EXCEPT !.limit = m]
<1>1. /\ Open /\ UNCHANGED <<lock, srv>> /\ req' = WakeConnection(req)
      /\ conn' = [conn EXCEPT !.settings = TRUE, !.limit = m]
  BY DEF RemoteSettings
<1>2. conn \in ConnRec /\ req \in [Requests -> ReqRec] /\ srv \in [Requests -> [window : Nat, takes : Nat]]
  BY DEF H2SInv, H2STypeOK
<1>3. m \in 0 .. MaxStreams
  BY StreamsAssumption
<1>4. conn' = c2
  BY <1>1, <1>2 DEF ConnRec
<1> HIDE DEF m
<1>5. c1 \in ConnRec /\ c1.gen = conn.gen /\ c1.err = conn.err /\ c1.closed = conn.closed
  BY <1>2 DEF ConnRec
<1> HIDE DEF c1
<1>6. c2 \in ConnRec /\ c2.gen = conn.gen /\ c2.err = conn.err /\ c2.closed = conn.closed
  BY <1>3, <1>5 DEF ConnRec
<1> HIDE DEF c2
<1>7. /\ req' \in [Requests -> ReqRec]
      /\ \A e \in Requests : Eased(req[e], req'[e])
      /\ \A e \in Requests : req[e].pc \in OnConnection /\ req[e].gen = conn.gen => ~ req'[e].asleep
  BY <1>1, <1>2, WakeFacts
<1>8. H2STypeOK'
  BY <1>1, <1>2, <1>4, <1>6, <1>7 DEF H2STypeOK
<1>9. Connecting'
  BY <1>1, <1>4, <1>6, <1>7 DEF H2SInv, Connecting, Eased
<1>10. Streams' = Streams
  BY <1>4, <1>6, <1>7 DEF Streams, Eased
<1>11. ASSUME NEW e \in Requests PROVE ReqOK(e)' /\ WindowOK(e)' /\ SleepOK(e)'
  <2>1. ReqOK(e) /\ WindowOK(e) /\ SleepOK(e) /\ Eased(req[e], req'[e]) /\ srv' = srv
        /\ conn'.gen = conn.gen /\ conn'.err = conn.err
    BY <1>1, <1>4, <1>6, <1>7 DEF H2SInv
  <2>2. ReqOK(e)'
    BY <2>1 DEF ReqOK, Idle, Eased, Dead
  <2>3. WindowOK(e)'
    BY <2>1, <1>10 DEF WindowOK, Eased
  <2>4. req'[e].asleep => req'[e].pc # "reserve"
    BY <1>7, <2>1 DEF Eased, SleepOK, Dead, OnConnection
  <2>5. SleepOK(e)'
    BY <2>1, <2>4 DEF SleepOK, Eased, Dead
  <2> QED BY <2>2, <2>3, <2>5
<1> QED BY <1>8, <1>9, <1>10, <1>11 DEF H2SInv

LEMMA H2SStart == H2SInit => H2SInv
<1> SUFFICES ASSUME H2SInit PROVE H2SInv
  OBVIOUS
<1>1. conn = [gen |-> 0, err |-> FALSE, settings |-> FALSE, limit |-> 0, closed |-> FALSE] /\ lock = Nobody
  BY DEF H2SInit
<1>2. /\ req = [r \in Requests |-> NewReq] /\ srv = [r \in Requests |-> [window |-> 0, takes |-> 0]]
      /\ \A r \in Requests : req[r] = NewReq
  BY DEF H2SInit
<1>3. H2STypeOK
  BY <1>1, <1>2, NewReqFacts, StreamsAssumption DEF H2STypeOK, ConnRec
<1>4. Connecting
  BY <1>1, <1>2, NewReqFacts, StreamsAssumption DEF Connecting
<1>5. Streams = {}
  BY <1>2, NewReqFacts DEF Streams, OnStream
<1>6. Cardinality(Streams) <= MaxStreams
  BY <1>5, FS_EmptySet, StreamsAssumption
<1>7. ASSUME NEW r \in Requests PROVE ReqOK(r) /\ WindowOK(r) /\ SleepOK(r)
  BY <1>1, <1>2, <1>5, NewReqFacts, StreamsAssumption DEF ReqOK, WindowOK, SleepOK, OnStream, Idle
<1> QED BY <1>3, <1>4, <1>6, <1>7 DEF H2SInv

LEMMA H2SStep == H2SInv /\ [H2SNext]_h2Vars => H2SInv'
<1> SUFFICES ASSUME H2SInv, [H2SNext]_h2Vars PROVE H2SInv'
  OBVIOUS
<1>1. ASSUME NEW r \in Requests,
             \/ HandleRequest(r) \/ UseConnection(r) \/ Connected(r) \/ ConnectFails(r)
             \/ ReserveStream(r) \/ SendBody(r) \/ AwaitHeaders(r) \/ ReadBody(r) \/ ChunkConsumed(r)
      PROVE  H2SInv'
  BY <1>1, Connects, Reserves, Sends, AwaitsHeaders, Reads, Consumes
<1>2. ASSUME NEW r \in Requests,
             \/ WindowUpdated(r) \/ ResponseReceived(r) \/ DataReceived(r) \/ PaddingReceived(r)
             \/ StreamEnded(r) \/ StreamReset(r)
      PROVE  H2SInv'
  BY <1>2, Takes, Answers, PaddingStep
<1>3. CASE CloseTransport \/ ConnectionLost \/ \E r \in Requests : WaitTimesOut(r) \/ CancelRequest(r)
  BY <1>3, Losses
<1>4. ASSUME NEW n \in 1 .. MaxStreams + 1, RemoteSettings(n) PROVE H2SInv'
  BY <1>4, Settles
<1>5. CASE UNCHANGED h2Vars
  BY <1>5 DEF h2Vars, H2SInv, H2STypeOK, Connecting, ReqOK, WindowOK, SleepOK, Idle, Streams, Dead, HasRoom
<1> QED BY <1>1, <1>2, <1>3, <1>4, <1>5 DEF H2SNext

(* For any number of requests and any limits: no request sleeps on a       *)
(* stream's event or the connection's through what it waits for, however   *)
(* the others end, fail, time out or are cancelled.                        *)
THEOREM SleepersAreWoken == H2SSpec => []SleepsRightly
<1>1. H2SInv => SleepsRightly
  BY DEF H2SInv, SleepOK, SleepsRightly
<1> QED BY <1>1, H2SStart, H2SStep, PTL DEF H2SSpec

(* For any window and batch: what a stream's window lacks is buffered or   *)
(* about to be given back, nothing is held from a server while its reader  *)
(* waits, and the streams of a connection keep within their limit.         *)
THEOREM WindowsReturned == H2SSpec => []WindowReturned
<1>1. H2SInv => WindowReturned
  <2> SUFFICES ASSUME H2SInv, NEW r \in Streams, ~ conn.err, ~ req[r].ended
               PROVE  /\ srv[r].window + req[r].chunks + req[r].credit
                             + (IF req[r].pc = "taken" THEN 1 ELSE 0) = Window
                      /\ req[r].pc = "read" /\ req[r].asleep => srv[r].window = Window
    BY DEF H2SInv, WindowReturned
  <2>1. r \in Requests /\ WindowOK(r) /\ SleepOK(r)
    BY DEF H2SInv, Streams
  <2>2. req[r].chunks \in Nat /\ req[r].credit \in Nat /\ srv[r].window \in Nat /\ Window \in Nat
    BY <2>1, StreamsAssumption DEF H2SInv, H2STypeOK, ReqRec
  <2> QED BY <2>1, <2>2 DEF WindowOK, SleepOK
<1> QED BY <1>1, H2SStart, H2SStep, PTL DEF H2SSpec

-----------------------------------------------------------------------------
(* The pools.                                                              *)

RefillRec ==
    [pc : {"off", "start", "connect", "finally"}, needed : Nat, results : SUBSET Sockets,
     connected : BOOLEAN]
PoolTypeOK ==
    /\ workers \in BOOLEAN /\ rotating \in BOOLEAN /\ backoff \in BOOLEAN
    /\ bucket \in Seq(Sockets) /\ socket \in [Sockets -> SocketStates]
    /\ current \in Refills \cup {NoRefill} /\ refill \in [Refills -> RefillRec]

PoolLimit == IF workers THEN 1 ELSE PoolSize

(* The bucket and what became of its sockets.                              *)
BucketOwned ==
    /\ IsInjective(bucket)
    /\ \A w \in Sockets : socket[w] \in {"idle", "stale"} <=> Contains(bucket, w)

(* A socket that is held is one refill's.                                  *)
HeldOwned ==
    /\ \A w \in Sockets : socket[w] = "held" <=> \E f \in Refills : w \in refill[f].results
    /\ \A f, g \in Refills, w \in Sockets : w \in refill[f].results /\ w \in refill[g].results => f = g

(* Only the current refill connects: no room is given twice.               *)
RefillOK(f) ==
    /\ IsFiniteSet(refill[f].results)
    /\ refill[f].results # {} => refill[f].pc \in {"connect", "finally"} /\ ~workers
    /\ refill[f].pc \in {"start", "connect"} => current = f
    /\ refill[f].pc = "connect" =>
          /\ Len(bucket) + refill[f].needed + Cardinality(refill[f].results) <= PoolLimit
          /\ workers => refill[f].needed > 0

PoolInv ==
    /\ PoolTypeOK /\ Len(bucket) <= PoolLimit /\ BucketOwned /\ HeldOwned
    /\ \A f \in Refills : RefillOK(f)

LEMMA PoolStart == PoolInit => PoolInv
<1> SUFFICES ASSUME PoolInit PROVE PoolInv
  OBVIOUS
<1>1. NotRunning \in RefillRec /\ NotRunning.results = {} /\ NotRunning.pc = "off"
  BY DEF NotRunning, RefillRec
<1>2. PoolTypeOK
  <2>1. <<>> \in Seq(Sockets) /\ "fresh" \in SocketStates /\ FALSE \in BOOLEAN
    BY DEF SocketStates
  <2> QED BY <1>1, <2>1 DEF PoolInit, PoolTypeOK
<1>3. Len(bucket) = 0 /\ Len(bucket) <= PoolLimit
  BY PoolAssumption DEF PoolInit, PoolLimit
<1>4. BucketOwned
  BY DEF PoolInit, BucketOwned, IsInjective, Contains
<1>5. HeldOwned
  BY <1>1 DEF PoolInit, HeldOwned
<1>6. \A f \in Refills : RefillOK(f)
  BY <1>1, FS_EmptySet DEF PoolInit, RefillOK
<1> QED BY <1>2, <1>3, <1>4, <1>5, <1>6 DEF PoolInv

(* A refill that is not under way, or begins, touches no socket.           *)
LEMMA StartFacts ==
    ASSUME PoolTypeOK, \A f \in Refills : RefillOK(f),
           (StartRefill \/ UNCHANGED <<current, refill>>)
    PROVE  /\ current' \in Refills \cup {NoRefill} /\ refill' \in [Refills -> RefillRec]
           /\ \A f \in Refills :
                 /\ refill'[f].results = refill[f].results
                 /\ refill'[f] = refill[f] \/ (refill'[f].pc = "start" /\ refill[f].results = {})
                 /\ refill'[f].pc \in {"start", "connect"} => current' = f
<1>1. CASE UNCHANGED <<current, refill>>
  BY <1>1 DEF PoolTypeOK, RefillOK
<1>2. CASE StartRefill /\ current = NoRefill
  <2>1. PICK f \in Refills :
           /\ refill[f].pc = "off" /\ current' = f
           /\ refill' = [refill EXCEPT ![f] = [NotRunning EXCEPT !.pc = "start"]]
    BY <1>2 DEF StartRefill
  <2> DEFINE r == [NotRunning EXCEPT !.pc = "start"]
  <2>2. r \in RefillRec /\ r.results = {} /\ r.pc = "start"
    BY DEF NotRunning, RefillRec
  <2>3. refill[f].results = {}
    BY <2>1 DEF RefillOK
  <2> HIDE DEF r
  <2>4. \A g \in Refills : g # f => refill'[g] = refill[g]
    BY <2>1 DEF PoolTypeOK
  <2>5. refill'[f] = r /\ refill' \in [Refills -> RefillRec]
    BY <2>1, <2>2 DEF PoolTypeOK, r
  <2>6. \A g \in Refills : refill[g].pc \notin {"start", "connect"}
    BY <1>2, PoolAssumption DEF RefillOK
  <2> QED BY <2>1, <2>2, <2>3, <2>4, <2>5, <2>6
<1> QED BY <1>1, <1>2 DEF StartRefill

(* What leaves the refills their sockets and only shrinks the bucket keeps *)
(* the invariant, whether or not a refill starts.                          *)
LEMMA Shrinks ==
    ASSUME PoolInv, StartRefill \/ UNCHANGED <<current, refill>>,
           workers' = workers, rotating' \in BOOLEAN, backoff' \in BOOLEAN,
           bucket' \in Seq(Sockets), Len(bucket') <= Len(bucket),
           socket' \in [Sockets -> SocketStates], BucketOwned',
           \A w \in Sockets : socket'[w] = "held" <=> socket[w] = "held"
    PROVE  PoolInv'
<1>1. /\ current' \in Refills \cup {NoRefill} /\ refill' \in [Refills -> RefillRec]
      /\ \A f \in Refills :
            /\ refill'[f].results = refill[f].results
            /\ refill'[f] = refill[f] \/ (refill'[f].pc = "start" /\ refill[f].results = {})
            /\ refill'[f].pc \in {"start", "connect"} => current' = f
  BY StartFacts DEF PoolInv
<1>2. PoolTypeOK'
  BY <1>1 DEF PoolInv, PoolTypeOK
<1>3. PoolLimit' = PoolLimit /\ PoolLimit \in Nat /\ Len(bucket) \in Nat /\ Len(bucket') \in Nat
  BY PoolAssumption DEF PoolInv, PoolTypeOK, PoolLimit
<1>4. Len(bucket') <= PoolLimit'
  BY <1>3 DEF PoolInv
<1>5. HeldOwned'
  BY <1>1 DEF PoolInv, HeldOwned
<1>6. ASSUME NEW f \in Refills PROVE RefillOK(f)'
  <2>1. RefillOK(f)
    BY DEF PoolInv
  <2>2. CASE refill'[f] = refill[f]
    <3>1. refill[f].pc = "connect" =>
            /\ Len(bucket') + refill[f].needed + Cardinality(refill[f].results) <= PoolLimit
      <4>1. refill[f].needed \in Nat /\ Cardinality(refill[f].results) \in Nat
        BY <2>1, FS_CardinalityType DEF RefillOK, PoolInv, PoolTypeOK, RefillRec
      <4> QED BY <4>1, <2>1, <1>3 DEF RefillOK
    <3> QED BY <3>1, <2>1, <2>2, <1>1, <1>3 DEF RefillOK
  <2>3. CASE refill'[f].pc = "start" /\ refill[f].results = {}
    BY <2>1, <2>3, <1>1 DEF RefillOK
  <2> QED BY <2>2, <2>3, <1>1
<1> QED BY <1>2, <1>4, <1>5, <1>6 DEF PoolInv

(* get: what it leaves is the rest of the bucket.                          *)
LEMMA TakenFacts ==
    ASSUME PoolInv, Taken
    PROVE  /\ bucket' \in Seq(Sockets) /\ Len(bucket') <= Len(bucket)
           /\ socket' \in [Sockets -> SocketStates] /\ BucketOwned'
           /\ \A w \in Sockets : socket'[w] = "held" <=> socket[w] = "held"
<1> DEFINE n == IF Good = {} THEN Len(bucket) ELSE CHOOSE i \in Good : \A k \in Good : i <= k
           dropped == {bucket[i] : i \in {k \in 1 .. n : IsStale(bucket[k])}}
<1>0. bucket \in Seq(Sockets) /\ socket \in [Sockets -> SocketStates] /\ BucketOwned
  BY DEF PoolInv, PoolTypeOK
<1>1. DOMAIN bucket = 1 .. Len(bucket) /\ Len(bucket) \in Nat /\ Good \in SUBSET (1 .. Len(bucket))
  BY <1>0 DEF Good
<1>2. n \in 0 .. Len(bucket) /\ (Good # {} => n \in Good /\ \A k \in Good : n <= k)
  <2>1. CASE Good = {}
    BY <1>1, <2>1
  <2>2. CASE Good # {}
    <3>1. \E i \in Good : \A k \in Good : i <= k
      BY <1>1, <2>2, LeastOne
    <3>2. n = CHOOSE i \in Good : \A k \in Good : i <= k
      BY <2>2
    <3> HIDE DEF n
    <3>3. n \in Good /\ \A k \in Good : n <= k
      BY <3>1, <3>2, Zenon
    <3> QED BY <1>1, <3>3
  <2> QED BY <2>1, <2>2
<1>3. /\ socket' = [w \in Sockets |-> IF w \in dropped THEN "closed"
                                      ELSE IF Good # {} /\ w = bucket[n] THEN "given" ELSE socket[w]]
      /\ bucket' = SubSeq(bucket, n + 1, Len(bucket))
  BY DEF Taken
<1> HIDE DEF n
<1>4. /\ bucket' \in Seq(Sockets) /\ Len(bucket') = Len(bucket) - n
      /\ \A i \in 1 .. Len(bucket) - n : bucket'[i] = bucket[n + i]
  <2>1. \A b, m : bucket' = SubSeq(b, m + 1, Len(b)) /\ b \in Seq(Sockets) /\ m \in 0 .. Len(b)
          => /\ bucket' \in Seq(Sockets) /\ Len(bucket') = Len(b) - m
             /\ \A i \in 1 .. Len(b) - m : bucket'[i] = b[m + i]
    OBVIOUS
  <2>2. n \in 0 .. Len(bucket) /\ bucket' = SubSeq(bucket, n + 1, Len(bucket))
    BY <1>2, <1>3
  <2> HIDE DEF dropped
  <2> QED BY <2>1, <2>2, <1>0
<1>5. \A i \in 1 .. n : i \in Good \/ bucket[i] \in dropped
  BY <1>1, <1>2 DEF Good
<1>6. \A i \in 1 .. n : (bucket[i] \in dropped \/ (Good # {} /\ i = n))
  BY <1>1, <1>2, <1>5
<1>7. ASSUME NEW w \in dropped PROVE socket[w] = "stale" /\ \E i \in 1 .. n : w = bucket[i]
  BY DEF IsStale
<1> HIDE DEF dropped
<1>8. Good # {} => socket[bucket[n]] = "idle" /\ n \in 1 .. n
  BY <1>0, <1>1, <1>2 DEF Good, IsStale, BucketOwned, Contains, SocketStates
<1>9. \A w \in Sockets :
         \/ socket'[w] = socket[w] /\ \A i \in 1 .. n : w # bucket[i]
         \/ socket'[w] \in {"closed", "given"} /\ socket[w] \in {"idle", "stale"}
            /\ \E i \in 1 .. n : w = bucket[i]
  BY <1>3, <1>6, <1>7, <1>8
<1>10. \A i, j \in 1 .. Len(bucket) : bucket[i] = bucket[j] => i = j
  BY <1>0, <1>1 DEF BucketOwned, IsInjective
<1>11. IsInjective(bucket')
  BY <1>1, <1>2, <1>4, <1>10 DEF IsInjective
<1>12. ASSUME NEW w \in Sockets PROVE socket'[w] \in {"idle", "stale"} <=> Contains(bucket', w)
  <2>1. socket[w] \in {"idle", "stale"} <=> \E i \in 1 .. Len(bucket) : bucket[i] = w
    BY <1>0 DEF BucketOwned, Contains
  <2>2. Contains(bucket', w) <=> \E i \in n + 1 .. Len(bucket) : bucket[i] = w
    <3>1. ASSUME NEW i \in n + 1 .. Len(bucket) PROVE i - n \in 1 .. Len(bucket) - n /\ bucket'[i - n] = bucket[i]
      BY <1>1, <1>2, <1>4
    <3>2. ASSUME NEW i \in 1 .. Len(bucket) - n PROVE n + i \in n + 1 .. Len(bucket) /\ bucket'[i] = bucket[n + i]
      BY <1>1, <1>2, <1>4
    <3> QED BY <3>1, <3>2, <1>4 DEF Contains
  <2>3. \A i \in 1 .. Len(bucket) : i \in 1 .. n \/ i \in n + 1 .. Len(bucket)
    BY <1>1, <1>2
  <2>4. \A i \in 1 .. n, j \in n + 1 .. Len(bucket) : bucket[i] # bucket[j]
    BY <1>1, <1>2, <1>10
  <2>5. CASE socket'[w] = socket[w] /\ \A i \in 1 .. n : w # bucket[i]
    <3>1. \A i \in n + 1 .. Len(bucket) : i \in 1 .. Len(bucket)
      BY <1>1, <1>2
    <3> QED BY <2>1, <2>2, <2>3, <2>5, <3>1
  <2>6. CASE /\ socket'[w] \in {"closed", "given"} /\ socket[w] \in {"idle", "stale"}
             /\ \E i \in 1 .. n : w = bucket[i]
    BY <2>2, <2>4, <2>6
  <2> QED BY <1>9, <2>5, <2>6
<1>13. socket' \in [Sockets -> SocketStates]
  BY <1>0, <1>3 DEF SocketStates
<1> QED BY <1>1, <1>2, <1>4, <1>9, <1>11, <1>12, <1>13 DEF BucketOwned

(* What is closed because it is stale, or by reset, leaves the bucket.     *)
LEMMA CloseFacts ==
    ASSUME PoolInv, NEW ws, bucket' \in Seq(Sockets), IsInjective(bucket'), socket' = CloseAll(ws),
           ws \subseteq {bucket[i] : i \in DOMAIN bucket},
           \A w \in Sockets : Contains(bucket', w) <=> Contains(bucket, w) /\ w \notin ws
    PROVE  /\ socket' \in [Sockets -> SocketStates] /\ BucketOwned'
           /\ \A w \in Sockets : socket'[w] = "held" <=> socket[w] = "held"
<1>1. /\ bucket \in Seq(Sockets) /\ socket \in [Sockets -> SocketStates]
      /\ \A w \in Sockets : socket[w] \in {"idle", "stale"} <=> Contains(bucket, w)
  BY DEF PoolInv, PoolTypeOK, BucketOwned
<1>2. \A w \in ws : Contains(bucket, w)
  BY <1>1 DEF Contains
<1>3. \A w \in Sockets : socket'[w] = IF w \in ws THEN "closed" ELSE socket[w]
  BY DEF CloseAll
<1>4. socket' \in [Sockets -> SocketStates]
  BY <1>1 DEF CloseAll, SocketStates
<1> QED BY <1>1, <1>2, <1>3, <1>4 DEF BucketOwned

LEMMA RotatedFacts ==
    ASSUME PoolInv, Rotated
    PROVE  /\ bucket' \in Seq(Sockets) /\ Len(bucket') <= Len(bucket)
           /\ socket' \in [Sockets -> SocketStates] /\ BucketOwned'
           /\ \A w \in Sockets : socket'[w] = "held" <=> socket[w] = "held"
<1> DEFINE ready == Picked(bucket, Good)
           gone == {bucket[i] : i \in DOMAIN bucket} \ {ready[i] : i \in DOMAIN ready}
<1>1. bucket \in Seq(Sockets) /\ Good \in SUBSET DOMAIN bucket /\ IsInjective(bucket)
  BY DEF PoolInv, PoolTypeOK, BucketOwned, Good
<1>2. bucket' = ready /\ socket' = CloseAll(gone)
  BY DEF Rotated
<1>3. /\ ready \in Seq(Sockets) /\ Len(ready) <= Len(bucket)
  BY <1>1, PickedFacts
<1>4. PICK p \in [DOMAIN ready -> Good] : InOrder(bucket, Good, ready, p)
  BY <1>1, PickedInOrder
<1> HIDE DEF ready
<1>i. /\ \A i \in DOMAIN ready : ready[i] = bucket[p[i]]
      /\ \A i, j \in DOMAIN ready : i < j => p[i] < p[j]
      /\ \A k \in Good : \E i \in DOMAIN ready : p[i] = k
  BY <1>4 DEF InOrder
<1>5. IsInjective(ready)
  <2>1. DOMAIN ready \subseteq Nat /\ Good \subseteq Nat
    BY <1>1, <1>3
  <2>2. ASSUME NEW i \in DOMAIN ready, NEW j \in DOMAIN ready, ready[i] = ready[j] PROVE i = j
    <3>1. p[i] = p[j] /\ p[i] \in Nat
      BY <1>1, <1>i, <2>1, <2>2 DEF IsInjective
    <3>2. ~(p[i] < p[j]) /\ ~(p[j] < p[i])
      BY <3>1
    <3> QED BY <1>i, <2>1, <3>2
  <2> QED BY <2>2 DEF IsInjective
<1>6. \A w : Contains(ready, w) <=> \E i \in DOMAIN ready : ready[i] = w
  BY <1>3 DEF Contains
<1>7. \A w : Contains(bucket, w) <=> \E i \in DOMAIN bucket : bucket[i] = w
  BY <1>1 DEF Contains
<1>8. \A i \in DOMAIN ready : p[i] \in DOMAIN bucket
  BY <1>1
<1>9. \A w \in Sockets : Contains(ready, w) <=> Contains(bucket, w) /\ w \notin gone
  BY <1>i, <1>6, <1>7, <1>8 DEF Good
<1>10. gone \subseteq {bucket[i] : i \in DOMAIN bucket}
  OBVIOUS
<1> HIDE DEF gone
<1> QED BY <1>2, <1>3, <1>5, <1>9, <1>10, CloseFacts

(* The steps that only shrink the bucket, or leave it.                     *)
LEMMA BucketSteps ==
    ASSUME PoolInv,
           \/ GetSocket \/ Rotated \/ Warmup \/ PauseEnds \/ GetWorker \/ WarmupWorkers
           \/ \E w \in Sockets : SocketAges(w)
    PROVE  PoolInv'
<1> /\ workers \in BOOLEAN /\ rotating \in BOOLEAN /\ backoff \in BOOLEAN
    /\ bucket \in Seq(Sockets) /\ socket \in [Sockets -> SocketStates] /\ BucketOwned
    /\ Len(bucket) <= Len(bucket)
  BY DEF PoolInv, PoolTypeOK
<1>1. CASE GetSocket
  <2>1. /\ StartRefill \/ UNCHANGED <<current, refill>>
        /\ workers' = workers /\ rotating' \in BOOLEAN /\ backoff' \in BOOLEAN /\ Taken
    BY <1>1 DEF GetSocket, ScheduleRefill
  <2> QED BY <2>1, TakenFacts, Shrinks
<1>2. CASE GetWorker
  <2>1. /\ StartRefill \/ UNCHANGED <<current, refill>>
        /\ workers' = workers /\ rotating' \in BOOLEAN /\ backoff' \in BOOLEAN /\ Taken
    BY <1>2 DEF GetWorker
  <2> QED BY <2>1, TakenFacts, Shrinks
<1>3. CASE Rotated
  <2>1. /\ StartRefill \/ UNCHANGED <<current, refill>>
        /\ workers' = workers /\ rotating' \in BOOLEAN /\ backoff' \in BOOLEAN
    BY <1>3 DEF Rotated, ScheduleRefill
  <2> QED BY <1>3, <2>1, RotatedFacts, Shrinks
<1>4. CASE Warmup \/ WarmupWorkers \/ PauseEnds
  <2>1. /\ StartRefill \/ UNCHANGED <<current, refill>>
        /\ workers' = workers /\ rotating' \in BOOLEAN /\ backoff' \in BOOLEAN
        /\ bucket' = bucket /\ socket' = socket
    BY <1>4 DEF Warmup, WarmupWorkers, PauseEnds, ScheduleRefill
  <2>2. BucketOwned' /\ \A w \in Sockets : socket'[w] = "held" <=> socket[w] = "held"
    BY <2>1 DEF BucketOwned
  <2> QED BY <2>1, <2>2, Shrinks
<1>5. ASSUME NEW w \in Sockets, SocketAges(w) PROVE PoolInv'
  <2>1. /\ socket[w] = "idle" /\ socket' = [socket EXCEPT ![w] = "stale"]
        /\ UNCHANGED <<workers, bucket, current, refill, rotating, backoff>>
    BY <1>5 DEF SocketAges
  <2>2. \A v \in Sockets : socket'[v] = IF v = w THEN "stale" ELSE socket[v]
    BY <2>1
  <2>3. socket' \in [Sockets -> SocketStates]
    BY <2>1 DEF SocketStates
  <2>4. BucketOwned' /\ \A v \in Sockets : socket'[v] = "held" <=> socket[v] = "held"
    BY <2>1, <2>2 DEF BucketOwned
  <2> QED BY <2>1, <2>3, <2>4, Shrinks
<1> QED BY <1>1, <1>2, <1>3, <1>4, <1>5

(* reset: what a refill holds stays its own until its finally clause.      *)
LEMMA ResetSteps ==
    ASSUME PoolInv, ResetPool \/ ResetWorkers
    PROVE  PoolInv'
<1>1. /\ Emptied /\ workers' = workers /\ rotating' \in BOOLEAN /\ backoff' \in BOOLEAN
      /\ workers \in BOOLEAN /\ bucket \in Seq(Sockets) /\ refill \in [Refills -> RefillRec]
  BY DEF ResetPool, ResetWorkers, PoolInv, PoolTypeOK
<1>2. /\ socket' = CloseAll({bucket[i] : i \in DOMAIN bucket}) /\ bucket' = <<>> /\ current' = NoRefill
      /\ refill' = [f \in Refills |->
            CASE refill[f].pc = "start" -> NotRunning
              [] refill[f].pc = "connect" -> [refill[f] EXCEPT !.pc = "finally"]
              [] OTHER -> refill[f]]
  BY <1>1 DEF Emptied
<1>3. /\ bucket' \in Seq(Sockets) /\ Len(bucket') = 0 /\ IsInjective(bucket')
      /\ \A w \in Sockets : ~Contains(bucket', w)
  BY <1>2 DEF IsInjective, Contains
<1>4. \A w \in Sockets : Contains(bucket, w) => w \in {bucket[i] : i \in DOMAIN bucket}
  BY <1>1 DEF Contains
<1>5. /\ socket' \in [Sockets -> SocketStates] /\ BucketOwned'
      /\ \A w \in Sockets : socket'[w] = "held" <=> socket[w] = "held"
  BY <1>2, <1>3, <1>4, CloseFacts
<1>6. ASSUME NEW f \in Refills
      PROVE  /\ refill'[f] \in RefillRec /\ refill'[f].results = refill[f].results
             /\ refill'[f].pc \in {"off", "finally"}
             /\ refill[f].results # {} => refill'[f].pc = "finally"
  <2>1. refill[f] \in RefillRec /\ (refill[f].results # {} => refill[f].pc \in {"connect", "finally"})
    BY <1>1 DEF PoolInv, RefillOK
  <2>2. CASE refill[f].pc = "start"
    BY <1>2, <2>1, <2>2 DEF NotRunning, RefillRec
  <2>3. CASE refill[f].pc = "connect"
    BY <1>2, <2>1, <2>3 DEF RefillRec
  <2>4. CASE refill[f].pc \in {"off", "finally"}
    BY <1>2, <2>1, <2>4
  <2> QED BY <2>1, <2>2, <2>3, <2>4 DEF RefillRec
<1>7. PoolTypeOK'
  <2>1. refill' \in [Refills -> RefillRec]
    <3>1. refill' = [f \in Refills |-> refill'[f]]
      BY <1>2
    <3> QED BY <1>6, <3>1
  <2> QED BY <1>1, <1>2, <1>3, <1>5, <2>1 DEF PoolTypeOK
<1>8. HeldOwned'
  BY <1>5, <1>6 DEF PoolInv, HeldOwned
<1>9. \A f \in Refills : RefillOK(f)'
  BY <1>1, <1>6 DEF PoolInv, RefillOK
<1>10. Len(bucket') <= PoolLimit'
  BY <1>3, PoolAssumption DEF PoolLimit
<1> QED BY <1>5, <1>7, <1>8, <1>9, <1>10 DEF PoolInv

(* A step of one refill: another that connects is the current one, so that *)
(* the step neither takes its place nor its room.                          *)
LEMMA RefillMoves ==
    ASSUME PoolInv, NEW f \in Refills, NEW r \in RefillRec, refill' = [refill EXCEPT ![f] = r],
           workers' = workers, rotating' = rotating, backoff' \in BOOLEAN,
           current' = current \/ (current' = NoRefill /\ current = f),
           bucket' \in Seq(Sockets), bucket' = bucket \/ current = f, Len(bucket') <= PoolLimit,
           socket' \in [Sockets -> SocketStates], BucketOwned', HeldOwned',
           IsFiniteSet(r.results), r.results # {} => r.pc \in {"connect", "finally"} /\ ~workers,
           r.pc \in {"start", "connect"} => current' = f,
           r.pc = "connect" => /\ Len(bucket') + r.needed + Cardinality(r.results) <= PoolLimit
                               /\ workers => r.needed > 0
    PROVE  PoolInv'
<1>1. /\ refill \in [Refills -> RefillRec] /\ current \in Refills \cup {NoRefill}
      /\ rotating \in BOOLEAN /\ workers \in BOOLEAN
  BY DEF PoolInv, PoolTypeOK
<1>2. refill' \in [Refills -> RefillRec] /\ refill'[f] = r /\ \A g \in Refills : g # f => refill'[g] = refill[g]
  BY <1>1
<1>3. PoolTypeOK' /\ PoolLimit' = PoolLimit
  BY <1>1, <1>2 DEF PoolTypeOK, PoolLimit
<1>4. RefillOK(f)'
  BY <1>2, <1>3 DEF RefillOK
<1>5. ASSUME NEW g \in Refills, g # f PROVE RefillOK(g)'
  <2>1. RefillOK(g) /\ refill'[g] = refill[g]
    BY <1>2, <1>5 DEF PoolInv
  <2>2. refill[g].pc \in {"start", "connect"} => current = g /\ current' = g /\ bucket' = bucket
    BY <1>5, <2>1 DEF RefillOK
  <2> QED BY <2>1, <2>2, <1>3 DEF RefillOK
<1> QED BY <1>3, <1>4, <1>5 DEF PoolInv

LEMMA RefillParts ==
    ASSUME PoolInv, NEW f \in Refills
    PROVE  /\ refill[f] \in RefillRec /\ RefillOK(f) /\ BucketOwned /\ HeldOwned
           /\ workers \in BOOLEAN /\ rotating \in BOOLEAN /\ backoff \in BOOLEAN
           /\ bucket \in Seq(Sockets) /\ socket \in [Sockets -> SocketStates]
           /\ current \in Refills \cup {NoRefill} /\ refill \in [Refills -> RefillRec]
           /\ Len(bucket) <= PoolLimit /\ Len(bucket) \in Nat /\ PoolLimit \in Nat
           /\ Cardinality(refill[f].results) \in Nat /\ refill[f].needed \in Nat
<1>1. Cardinality(refill[f].results) \in Nat
  BY FS_CardinalityType DEF PoolInv, RefillOK
<1>2. PoolLimit \in Nat
  BY PoolAssumption DEF PoolLimit
<1> QED BY <1>1, <1>2 DEF PoolInv, PoolTypeOK, RefillRec

(* A refill that only moves on: its sockets are what they were.            *)
LEMMA RefillGoesOn ==
    ASSUME PoolInv, NEW f \in Refills, NEW r \in RefillRec, refill' = [refill EXCEPT ![f] = r],
           UNCHANGED <<workers, bucket, socket, current, rotating>>, backoff' \in BOOLEAN,
           r.results = refill[f].results, r.results # {} => r.pc \in {"connect", "finally"},
           r.pc \in {"start", "connect"} => current = f,
           r.pc = "connect" => /\ Len(bucket) + r.needed + Cardinality(r.results) <= PoolLimit
                               /\ workers => r.needed > 0
    PROVE  PoolInv'
<1>1. BucketOwned' /\ HeldOwned'
  <2>1. \A g \in Refills : refill'[g].results = refill[g].results
    BY RefillParts
  <2> QED BY <2>1, RefillParts DEF BucketOwned, HeldOwned
<1>2. IsFiniteSet(r.results) /\ (r.results # {} => ~workers)
  BY RefillParts DEF RefillOK
<1> QED BY <1>1, <1>2, RefillParts, RefillMoves

LEMMA QuietRefills ==
    ASSUME PoolInv, NEW f \in Refills,
           RefillStarts(f) \/ WorkersStart(f) \/ ConnectNone(f) \/ NoWorker(f) \/ RefillEnds(f)
    PROVE  PoolInv'
<1> /\ refill[f] \in RefillRec /\ RefillOK(f) /\ BucketOwned /\ HeldOwned
    /\ workers \in BOOLEAN /\ rotating \in BOOLEAN /\ backoff \in BOOLEAN
    /\ bucket \in Seq(Sockets) /\ socket \in [Sockets -> SocketStates]
    /\ current \in Refills \cup {NoRefill} /\ refill \in [Refills -> RefillRec]
    /\ Len(bucket) <= PoolLimit /\ Len(bucket) \in Nat /\ PoolLimit \in Nat
    /\ Cardinality(refill[f].results) \in Nat /\ refill[f].needed \in Nat
  BY RefillParts
<1>1. CASE RefillStarts(f) \/ WorkersStart(f)
  <2>1. PICK size \in {PoolLimit} : Started(f, size)
    BY <1>1 DEF RefillStarts, WorkersStart, PoolLimit
  <2> DEFINE r == IF Len(bucket) >= PoolLimit THEN [refill[f] EXCEPT !.pc = "finally"]
                  ELSE [refill[f] EXCEPT !.pc = "connect", !.needed = PoolLimit - Len(bucket)]
  <2>2. /\ refill[f].pc = "start" /\ refill' = [refill EXCEPT ![f] = r]
        /\ UNCHANGED <<workers, bucket, socket, current, rotating, backoff>>
    BY <2>1 DEF Started
  <2>3. refill[f].results = {} /\ current = f
    BY <2>2 DEF RefillOK
  <2>4. /\ r \in RefillRec /\ r.results = refill[f].results /\ r.pc \in {"connect", "finally"}
        /\ r.pc = "connect" => r.needed = PoolLimit - Len(bucket) /\ r.needed > 0
    <3>1. CASE Len(bucket) >= PoolLimit
      BY <3>1 DEF RefillRec
    <3>2. CASE ~(Len(bucket) >= PoolLimit)
      <4>1. PoolLimit - Len(bucket) \in Nat /\ PoolLimit - Len(bucket) > 0
        BY <3>2
      <4>2. r = [refill[f] EXCEPT !.pc = "connect", !.needed = PoolLimit - Len(bucket)]
        BY <3>2
      <4> HIDE DEF r
      <4> QED BY <4>1, <4>2 DEF RefillRec
    <3> QED BY <3>1, <3>2
  <2> HIDE DEF r
  <2>5. r.pc = "connect" => Len(bucket) + r.needed + Cardinality(r.results) <= PoolLimit
    BY <2>3, <2>4, FS_EmptySet
  <2> QED BY <2>2, <2>3, <2>4, <2>5, RefillGoesOn
<1>2. CASE ConnectNone(f)
  <2> DEFINE r == [refill[f] EXCEPT !.needed = @ - 1]
  <2>1. /\ ~workers /\ refill[f].pc = "connect" /\ refill[f].needed > 0 /\ refill' = [refill EXCEPT ![f] = r]
        /\ UNCHANGED <<workers, bucket, socket, current, rotating, backoff>>
    BY <1>2 DEF ConnectNone
  <2>n. refill[f].needed - 1 \in Nat
    BY <2>1
  <2>2. r \in RefillRec /\ r.results = refill[f].results /\ r.pc = "connect" /\ r.needed = refill[f].needed - 1
    BY <2>1, <2>n DEF RefillRec
  <2> HIDE DEF r
  <2>3. current = f /\ Len(bucket) + r.needed + Cardinality(r.results) <= PoolLimit
    BY <2>1, <2>2 DEF RefillOK
  <2> QED BY <2>1, <2>2, <2>3, RefillGoesOn
<1>3. CASE NoWorker(f) \/ RefillEnds(f)
  <2> DEFINE r == [refill[f] EXCEPT !.pc = "finally"]
  <2>1. /\ refill' = [refill EXCEPT ![f] = r] /\ backoff' \in BOOLEAN
        /\ UNCHANGED <<workers, bucket, socket, current, rotating>>
    BY <1>3 DEF NoWorker, RefillEnds, RefillRec
  <2>2. r \in RefillRec /\ r.results = refill[f].results /\ r.pc = "finally"
    BY DEF RefillRec
  <2> HIDE DEF r
  <2> QED BY <2>1, <2>2, RefillGoesOn
<1> QED BY <1>1, <1>2, <1>3

(* A socket that is taken over was nowhere in the bucket.                  *)
LEMMA AppendFacts ==
    ASSUME PoolInv, NEW w \in Sockets, socket[w] \in {"fresh", "held"},
           bucket' = Append(bucket, w), socket' = [socket EXCEPT ![w] = "idle"]
    PROVE  /\ bucket' \in Seq(Sockets) /\ Len(bucket') = Len(bucket) + 1
           /\ socket' \in [Sockets -> SocketStates] /\ BucketOwned'
<1>1. /\ bucket \in Seq(Sockets) /\ socket \in [Sockets -> SocketStates] /\ IsInjective(bucket)
      /\ \A v \in Sockets : socket[v] \in {"idle", "stale"} <=> Contains(bucket, v)
  BY DEF PoolInv, PoolTypeOK, BucketOwned
<1> DEFINE m == Len(bucket)
<1>2. /\ bucket' \in Seq(Sockets) /\ Len(bucket') = m + 1 /\ m \in Nat /\ bucket'[m + 1] = w
      /\ \A i \in 1 .. m : bucket'[i] = bucket[i]
  BY <1>1
<1>3. \A v \in Sockets : socket'[v] = IF v = w THEN "idle" ELSE socket[v]
  BY <1>1
<1>4. socket' \in [Sockets -> SocketStates]
  BY <1>1 DEF SocketStates
<1>5. \A i \in 1 .. m : bucket[i] # w
  BY <1>1 DEF Contains
<1>d. DOMAIN bucket = 1 .. m /\ DOMAIN bucket' = 1 .. m + 1
  BY <1>1, <1>2
<1> HIDE DEF m
<1>6. \A i \in 1 .. m + 1 : i = m + 1 \/ i \in 1 .. m
  BY <1>2
<1>7. IsInjective(bucket')
  BY <1>1, <1>2, <1>5, <1>6, <1>d DEF IsInjective
<1>8. \A v \in Sockets : Contains(bucket', v) <=> v = w \/ Contains(bucket, v)
  <2>1. m + 1 \in 1 .. m + 1 /\ \A i \in 1 .. m : i \in 1 .. m + 1
    BY <1>2
  <2> QED BY <1>2, <1>6, <2>1 DEF Contains, m
<1>9. BucketOwned'
  BY <1>1, <1>3, <1>7, <1>8 DEF BucketOwned
<1> QED BY <1>2, <1>4, <1>9 DEF m

LEMMA RefillSockets ==
    ASSUME PoolInv, NEW f \in Refills, NEW w \in Sockets,
           ConnectOne(f, w) \/ ConnectWorker(f, w) \/ Adopt(f, w)
    PROVE  PoolInv'
<1> /\ refill[f] \in RefillRec /\ RefillOK(f) /\ BucketOwned /\ HeldOwned
    /\ workers \in BOOLEAN /\ rotating \in BOOLEAN /\ backoff \in BOOLEAN
    /\ bucket \in Seq(Sockets) /\ socket \in [Sockets -> SocketStates]
    /\ current \in Refills \cup {NoRefill} /\ refill \in [Refills -> RefillRec]
    /\ Len(bucket) <= PoolLimit /\ Len(bucket) \in Nat /\ PoolLimit \in Nat
    /\ Cardinality(refill[f].results) \in Nat /\ refill[f].needed \in Nat
  BY RefillParts
<1>1. CASE ConnectOne(f, w)
  <2> DEFINE r == [refill[f] EXCEPT !.needed = @ - 1, !.results = @ \cup {w}]
  <2>1. /\ ~workers /\ refill[f].pc = "connect" /\ refill[f].needed > 0 /\ socket[w] = "fresh"
        /\ socket' = [socket EXCEPT ![w] = "held"] /\ refill' = [refill EXCEPT ![f] = r]
        /\ UNCHANGED <<workers, bucket, current, rotating, backoff>>
    BY <1>1 DEF ConnectOne
  <2>2. refill[f].needed - 1 \in Nat /\ refill[f].results \cup {w} \in SUBSET Sockets
    BY <2>1 DEF RefillRec
  <2>3. /\ r \in RefillRec /\ r.results = refill[f].results \cup {w} /\ r.pc = "connect"
        /\ r.needed = refill[f].needed - 1
    BY <2>1, <2>2 DEF RefillRec
  <2> HIDE DEF r
  <2>4. current = f /\ \A g \in Refills : w \notin refill[g].results
    BY <2>1 DEF RefillOK, HeldOwned
  <2>5. IsFiniteSet(r.results) /\ Cardinality(r.results) = Cardinality(refill[f].results) + 1
    <3>1. IsFiniteSet(refill[f].results) /\ w \notin refill[f].results
      BY <2>4 DEF RefillOK
    <3>2. \A S : IsFiniteSet(S) /\ w \notin S
                   => IsFiniteSet(S \cup {w}) /\ Cardinality(S \cup {w}) = Cardinality(S) + 1
      BY FS_AddElement
    <3> QED BY <2>3, <3>1, <3>2
  <2>6. Len(bucket) + r.needed + Cardinality(r.results) <= PoolLimit
    BY <2>1, <2>3, <2>5 DEF RefillOK
  <2>7. \A v \in Sockets : socket'[v] = IF v = w THEN "held" ELSE socket[v]
    BY <2>1
  <2>8. socket' \in [Sockets -> SocketStates]
    BY <2>1 DEF SocketStates
  <2>9. BucketOwned'
    BY <2>1, <2>7 DEF BucketOwned
  <2>10. \A g \in Refills : refill'[g].results = IF g = f THEN refill[f].results \cup {w} ELSE refill[g].results
    BY <2>1, <2>3
  <2>11. HeldOwned'
    <3>1. \A g \in Refills, v \in Sockets :
             v \in refill'[g].results <=> v \in refill[g].results \/ (g = f /\ v = w)
      BY <2>10
    <3>2. \A v \in Sockets : socket'[v] = "held" <=> socket[v] = "held" \/ v = w
      BY <2>7
    <3> QED BY <2>4, <3>1, <3>2 DEF HeldOwned
  <2> QED BY <2>1, <2>3, <2>4, <2>5, <2>6, <2>8, <2>9, <2>11, RefillMoves
<1>2. CASE ConnectWorker(f, w)
  <2> DEFINE r == [refill[f] EXCEPT !.needed = @ - 1,
                       !.pc = IF refill[f].needed = 1 THEN "finally" ELSE "connect"]
  <2>1. workers /\ refill[f].pc = "connect" /\ socket[w] = "fresh" /\ current = f
    BY <1>2 DEF ConnectWorker, RefillOK
  <2>2. /\ bucket' = Append(bucket, w) /\ socket' = [socket EXCEPT ![w] = "idle"]
        /\ refill' = [refill EXCEPT ![f] = r] /\ UNCHANGED <<workers, current, rotating, backoff>>
    BY <1>2, <2>1 DEF ConnectWorker
  <2>3. /\ refill[f].needed - 1 \in Nat /\ refill[f].results = {} /\ refill[f].needed > 0
        /\ Len(bucket) + refill[f].needed <= PoolLimit
    BY <2>1, FS_EmptySet DEF RefillOK
  <2>4. /\ r \in RefillRec /\ r.results = {} /\ r.pc \in {"connect", "finally"}
        /\ r.needed = refill[f].needed - 1 /\ (r.pc = "connect" => refill[f].needed # 1)
    BY <2>3 DEF RefillRec
  <2> HIDE DEF r
  <2>5. /\ bucket' \in Seq(Sockets) /\ Len(bucket') = Len(bucket) + 1
        /\ socket' \in [Sockets -> SocketStates] /\ BucketOwned'
    BY <2>1, <2>2, AppendFacts
  <2>6. \A g \in Refills : refill'[g].results = refill[g].results
    BY <2>2, <2>3, <2>4
  <2>7. \A v \in Sockets : socket'[v] = "held" <=> socket[v] = "held"
    BY <2>1, <2>2
  <2>8. HeldOwned'
    BY <2>6, <2>7 DEF HeldOwned
  <2>9. IsFiniteSet(r.results) /\ Cardinality(r.results) = 0
    BY <2>4, FS_EmptySet
  <2>10. /\ Len(bucket') <= PoolLimit
         /\ r.pc = "connect" => Len(bucket') + r.needed + Cardinality(r.results) <= PoolLimit /\ r.needed > 0
    BY <2>3, <2>4, <2>5, <2>9
  <2> QED BY <2>1, <2>2, <2>4, <2>5, <2>8, <2>9, <2>10, RefillMoves
<1>3. CASE Adopt(f, w)
  <2> DEFINE r == [refill[f] EXCEPT !.results = @ \ {w}, !.connected = TRUE]
  <2>1. ~workers /\ refill[f].pc = "connect" /\ w \in refill[f].results /\ current = f /\ socket[w] = "held"
    BY <1>3 DEF Adopt, RefillOK, HeldOwned
  <2>2. /\ bucket' = Append(bucket, w) /\ socket' = [socket EXCEPT ![w] = "idle"]
        /\ refill' = [refill EXCEPT ![f] = r] /\ UNCHANGED <<workers, current, rotating, backoff>>
    BY <1>3, <2>1 DEF Adopt
  <2>3. /\ r \in RefillRec /\ r.results = refill[f].results \ {w} /\ r.pc = "connect"
        /\ r.needed = refill[f].needed
    BY <2>1 DEF RefillRec
  <2> HIDE DEF r
  <2>4. IsFiniteSet(r.results) /\ Cardinality(r.results) = Cardinality(refill[f].results) - 1
    <3>1. IsFiniteSet(refill[f].results) /\ w \in refill[f].results
      BY <2>1 DEF RefillOK
    <3> QED BY <2>3, <3>1, FS_RemoveElement
  <2>5. /\ bucket' \in Seq(Sockets) /\ Len(bucket') = Len(bucket) + 1
        /\ socket' \in [Sockets -> SocketStates] /\ BucketOwned'
    BY <2>1, <2>2, AppendFacts
  <2>6. \A g \in Refills : refill'[g].results = IF g = f THEN refill[f].results \ {w} ELSE refill[g].results
    BY <2>2, <2>3
  <2>7. \A v \in Sockets : socket'[v] = IF v = w THEN "idle" ELSE socket[v]
    BY <2>2
  <2>8. HeldOwned'
    <3>1. \A g \in Refills, v \in Sockets :
             v \in refill'[g].results <=> v \in refill[g].results /\ ~(g = f /\ v = w)
      BY <2>6
    <3>2. \A v \in Sockets : socket'[v] = "held" <=> socket[v] = "held" /\ v # w
      BY <2>7
    <3> QED BY <2>1, <3>1, <3>2 DEF HeldOwned
  <2>9. /\ Len(bucket') + r.needed + Cardinality(r.results) <= PoolLimit
        /\ Cardinality(r.results) \in Nat
    BY <2>1, <2>3, <2>4, <2>5, FS_CardinalityType DEF RefillOK
  <2>10. Len(bucket') <= PoolLimit
    BY <2>3, <2>5, <2>9
  <2> QED BY <2>1, <2>2, <2>3, <2>4, <2>5, <2>8, <2>9, <2>10, RefillMoves
<1> QED BY <1>1, <1>2, <1>3

(* The finally clause closes what was held, and frees the name.            *)
LEMMA RefillFinishes ==
    ASSUME PoolInv, NEW f \in Refills, Finally(f)
    PROVE  PoolInv'
<1> /\ refill[f] \in RefillRec /\ RefillOK(f) /\ BucketOwned /\ HeldOwned
    /\ workers \in BOOLEAN /\ rotating \in BOOLEAN /\ backoff \in BOOLEAN
    /\ bucket \in Seq(Sockets) /\ socket \in [Sockets -> SocketStates]
    /\ current \in Refills \cup {NoRefill} /\ refill \in [Refills -> RefillRec]
    /\ Len(bucket) <= PoolLimit /\ Len(bucket) \in Nat /\ PoolLimit \in Nat
    /\ Cardinality(refill[f].results) \in Nat /\ refill[f].needed \in Nat
  BY RefillParts
<1>1. /\ refill[f].pc = "finally" /\ socket' = CloseAll(refill[f].results)
      /\ refill' = [refill EXCEPT ![f] = NotRunning]
      /\ current' = IF current = f THEN NoRefill ELSE current
      /\ UNCHANGED <<workers, bucket, rotating, backoff>>
  BY DEF Finally
<1>2. NotRunning \in RefillRec /\ NotRunning.results = {} /\ NotRunning.pc = "off"
  BY DEF NotRunning, RefillRec
<1>3. \A w \in Sockets : socket'[w] = IF w \in refill[f].results THEN "closed" ELSE socket[w]
  BY <1>1 DEF CloseAll
<1>4. \A w \in refill[f].results : w \in Sockets /\ socket[w] = "held"
  BY DEF HeldOwned, RefillRec
<1>5. socket' \in [Sockets -> SocketStates]
  BY <1>1 DEF CloseAll, SocketStates
<1>6. BucketOwned'
  BY <1>1, <1>3, <1>4 DEF BucketOwned
<1>7. \A g \in Refills : refill'[g].results = IF g = f THEN {} ELSE refill[g].results
  BY <1>1, <1>2
<1>8. HeldOwned'
  BY <1>3, <1>7 DEF HeldOwned
<1>9. IsFiniteSet(NotRunning.results)
  BY <1>2, FS_EmptySet
<1> QED BY <1>1, <1>2, <1>5, <1>6, <1>8, <1>9, RefillMoves

LEMMA PoolStep ==
    ASSUME PoolInv, [PoolNext]_poolVars
    PROVE  PoolInv'
<1>1. CASE UNCHANGED poolVars
  BY <1>1 DEF poolVars, PoolInv, PoolTypeOK, PoolLimit, BucketOwned, HeldOwned, RefillOK
<1>2. CASE \/ GetSocket \/ Rotated \/ Warmup \/ PauseEnds \/ GetWorker \/ WarmupWorkers
           \/ \E w \in Sockets : SocketAges(w)
  BY <1>2, BucketSteps
<1>3. CASE ResetPool \/ ResetWorkers
  BY <1>3, ResetSteps
<1>4. ASSUME NEW f \in Refills,
             \/ RefillStarts(f) \/ WorkersStart(f) \/ ConnectNone(f) \/ NoWorker(f) \/ RefillEnds(f)
             \/ Finally(f)
             \/ \E w \in Sockets : ConnectOne(f, w) \/ Adopt(f, w) \/ ConnectWorker(f, w)
      PROVE  PoolInv'
  BY <1>4, QuietRefills, RefillFinishes, RefillSockets
<1> QED BY <1>1, <1>2, <1>3, <1>4 DEF PoolNext

(* The pools' invariant.                                                   *)
THEOREM PoolInvariant == PoolSpec => []PoolInv
<1>1. PoolInit => PoolInv
  BY PoolStart
<1>2. PoolInv /\ [PoolNext]_poolVars => PoolInv'
  BY PoolStep
<1> QED BY <1>1, <1>2, PTL DEF PoolSpec

(* Every open WebSocket of a pool has one owner that uses or closes it, in *)
(* any order of clients, refills, rotations and resets, and the bucket     *)
(* never holds more than the settings allow.                               *)
THEOREM PoolSocketsOwned == PoolSpec => []SocketsOwned
<1>1. PoolInv => SocketsOwned
  BY DEF PoolInv, PoolLimit, BucketOwned, HeldOwned, SocketsOwned
<1> QED BY <1>1, PoolInvariant, PTL
-----------------------------------------------------------------------------
(* The bytes of a connection.                                              *)

(* A loop that counts up from 0 defines a function.                        *)
Looped(a, F, f, n) == [k \in 0 .. n |-> IF k = 0 THEN a ELSE F[<<k, f[k - 1]>>]]

LEMMA LoopExists ==
    ASSUME NEW a, NEW F, NEW m \in Nat
    PROVE  \E f : f = Looped(a, F, f, m)
<1> DEFINE T == {n \in Nat : \E f : f = Looped(a, F, f, n)}
<1>1. 0 \in T
  <2> DEFINE f == [k \in 0 .. 0 |-> a]
  <2>1. f = Looped(a, F, f, 0)
    BY DEF Looped
  <2> HIDE DEF f
  <2> QED BY <2>1
<1>2. ASSUME NEW n \in Nat, n \in T PROVE n + 1 \in T
  <2>1. PICK f : f = Looped(a, F, f, n)
    BY <1>2
  <2> DEFINE g == [k \in 0 .. n + 1 |-> IF k = n + 1 THEN F[<<n + 1, f[n]>>] ELSE f[k]]
  <2>2. ASSUME NEW k \in 0 .. n + 1 PROVE g[k] = IF k = 0 THEN a ELSE F[<<k, g[k - 1]>>]
    <3>1. CASE k = n + 1
      <4>1. k # 0 /\ k - 1 = n /\ g[n] = f[n] /\ n \in 0 .. n + 1
        BY <3>1
      <4>2. g[k] = F[<<n + 1, f[n]>>]
        BY <3>1
      <4> HIDE DEF g
      <4> QED BY <3>1, <4>1, <4>2
    <3>2. CASE k = 0
      BY <2>1, <3>2 DEF Looped
    <3>3. CASE k \in 1 .. n
      <4>1. g[k] = f[k] /\ g[k - 1] = f[k - 1] /\ k \in 0 .. n /\ k # 0
        BY <3>3
      <4>2. f[k] = Looped(a, F, f, n)[k]
        BY <2>1
      <4>3. f[k] = F[<<k, f[k - 1]>>]
        BY <4>1, <4>2 DEF Looped
      <4> HIDE DEF g
      <4> QED BY <4>1, <4>3
    <3> QED BY <3>1, <3>2, <3>3
  <2>3. g = [k \in 0 .. n + 1 |-> g[k]]
    OBVIOUS
  <2> HIDE DEF g
  <2>4. g = Looped(a, F, g, n + 1)
    BY <2>2, <2>3 DEF Looped
  <2> QED BY <2>4
<1> HIDE DEF T
<1>3. m \in T
  BY <1>1, <1>2, FromZero
<1> QED BY <1>3 DEF T

(* If each round of the loop leads from V to V, the loop does.             *)
Steady(V, m, F) == \A k \in 1 .. m, v \in V : F[<<k, v>>] \in V
Rounds(V, a, m, F, f) ==
    /\ f[0] = a
    /\ \A k \in 0 .. m : f[k] \in V
    /\ \A k \in 1 .. m : f[k] = F[<<k, f[k - 1]>>]

LEMMA LoopStays ==
    ASSUME NEW V, NEW a \in V, NEW m \in Nat, NEW F, Steady(V, m, F)
    PROVE  \E f : Rounds(V, a, m, F, f)
<1>1. PICK f : f = Looped(a, F, f, m)
  BY LoopExists
<1>2. \A k \in 0 .. m : f[k] = Looped(a, F, f, m)[k]
  BY <1>1
<1>0. 0 \in 0 .. m /\ \A k \in 1 .. m : k \in 0 .. m /\ k # 0
  OBVIOUS
<1>3. f[0] = a /\ \A k \in 1 .. m : f[k] = F[<<k, f[k - 1]>>]
  BY <1>0, <1>2 DEF Looped
<1> DEFINE T == {k \in 0 .. m : f[k] \in V}
<1>4. 0 \in T
  BY <1>3
<1>5. ASSUME NEW k \in 0 .. (m - 1), k \in T PROVE k + 1 \in T
  <2>1. k + 1 \in 1 .. m /\ (k + 1) - 1 = k /\ k + 1 \in 0 .. m /\ f[k] \in V
    BY <1>5
  <2>2. f[k + 1] = F[<<k + 1, f[k]>>]
    BY <1>3, <2>1
  <2>3. F[<<k + 1, f[k]>>] \in V
    BY <2>1 DEF Steady
  <2> QED BY <2>1, <2>2, <2>3
<1> HIDE DEF T
<1>6. 0 .. m \subseteq T
  BY <1>4, <1>5, FromZeroTo
<1> QED BY <1>3, <1>6 DEF T, Rounds

-----------------------------------------------------------------------------
(* FlattenSeq: g is what the first lists have together.                    *)
Together(B, ss, g) ==
    /\ g[0] = <<>>
    /\ \A k \in 0 .. Len(ss) : g[k] \in Seq(B)
    /\ \A k \in 1 .. Len(ss) : g[k] = g[k - 1] \o ss[k]

Flattened(ss, f) == [i \in 1 .. Len(ss) |-> IF i = 1 THEN ss[i] ELSE f[i - 1] \o ss[i]]

LEMMA FlattenIs ==
    ASSUME NEW B, NEW ss \in Seq(Seq(B))
    PROVE  \E g : Together(B, ss, g) /\ FlattenSeq(ss) = g[Len(ss)]
<1> DEFINE n == Len(ss)
           F == [x \in (1 .. n) \X Seq(B) |-> x[2] \o ss[x[1]]]
<1>0. n \in Nat /\ \A k \in 1 .. n : ss[k] \in Seq(B)
  OBVIOUS
<1> HIDE DEF n
<1>1. \A k \in 1 .. n, v \in Seq(B) : F[<<k, v>>] = v \o ss[k] /\ F[<<k, v>>] \in Seq(B)
  BY <1>0, ConcatProperties
<1> HIDE DEF F
<1>2. <<>> \in Seq(B)
  OBVIOUS
<1>3. PICK g : /\ g[0] = <<>>
               /\ \A k \in 0 .. n : g[k] \in Seq(B)
               /\ \A k \in 1 .. n : g[k] = F[<<k, g[k - 1]>>]
  <2> DEFINE V == Seq(B)
  <2>1. <<>> \in V /\ \A k \in 1 .. n, v \in V : F[<<k, v>>] \in V
    BY <1>1, <1>2
  <2>2. \A k \in 1 .. n, v \in V : F[<<k, v>>] = v \o ss[k]
    BY <1>1
  <2> HIDE DEF V
  <2>3. \E g : /\ g[0] = <<>>
               /\ \A k \in 0 .. n : g[k] \in V
               /\ \A k \in 1 .. n : g[k] = F[<<k, g[k - 1]>>]
    <3>1. <<>> \in V /\ n \in Nat /\ Steady(V, n, F)
      BY <1>0, <2>1 DEF Steady
    <3>2. \E f : Rounds(V, <<>>, n, F, f)
      BY <3>1, LoopStays
    <3> QED BY <3>2 DEF Rounds
  <2> QED BY <2>3 DEF V
<1>4. ASSUME NEW k \in 1 .. n PROVE g[k] = g[k - 1] \o ss[k]
  <2>1. k - 1 \in 0 .. n
    BY <1>0
  <2> QED BY <2>1, <1>1, <1>3
<1>5. Together(B, ss, g)
  BY <1>3, <1>4 DEF Together, n
<1>6. CASE n = 0
  <2>1. FlattenSeq(ss) = ss /\ ss = <<>>
    BY <1>6 DEF FlattenSeq, n
  <2> QED BY <1>3, <1>5, <1>6, <2>1 DEF n
<1>7. CASE n # 0
  <2> DEFINE h == [k \in 1 .. n |-> g[k]]
  <2>1. \A k \in 1 .. n : h[k] = IF k = 1 THEN ss[k] ELSE h[k - 1] \o ss[k]
    <3> SUFFICES ASSUME NEW k \in 1 .. n PROVE h[k] = IF k = 1 THEN ss[k] ELSE h[k - 1] \o ss[k]
      OBVIOUS
    <3>1. CASE k = 1
      <4>0. k - 1 = 0
        BY <3>1
      <4>3. ss[k] \in Seq(B)
        BY <1>0
      <4>4. g[k] = g[k - 1] \o ss[k]
        BY <1>4
      <4>1. g[k] = g[k - 1] \o ss[k] /\ k - 1 = 0 /\ ss[k] \in Seq(B)
        BY <4>0, <4>3, <4>4
      <4>2. <<>> \o ss[k] = ss[k]
        BY <4>1, ConcatEmptySeq
      <4> QED BY <4>1, <4>2, <3>1, <1>3
    <3>2. CASE k # 1
      <4>1. k - 1 \in 1 .. n
        BY <1>0, <3>2
      <4> QED BY <4>1, <3>2, <1>4
    <3> QED BY <3>1, <3>2
  <2>2. h = [k \in 1 .. n |-> h[k]]
    OBVIOUS
  <2> HIDE DEF h
  <2>3. h = Flattened(ss, h)
    BY <2>1, <2>2 DEF Flattened, n
  <2> DEFINE c == CHOOSE f : f = Flattened(ss, f)
  <2>4. c = Flattened(ss, c)
    BY <2>3, Zenon
  <2>5. FlattenSeq(ss) = c[n]
    BY <1>7 DEF FlattenSeq, Flattened, n
  <2> HIDE DEF c
  <2>6. \A k \in 1 .. n : c[k] = IF k = 1 THEN ss[k] ELSE c[k - 1] \o ss[k]
    <3> SUFFICES ASSUME NEW k \in 1 .. n PROVE c[k] = IF k = 1 THEN ss[k] ELSE c[k - 1] \o ss[k]
      OBVIOUS
    <3>1. c[k] = Flattened(ss, c)[k]
      BY <2>4
    <3> QED BY <3>1 DEF Flattened, n
  <2> DEFINE T == {k \in 0 .. n : k = 0 \/ c[k] = g[k]}
  <2>7. ASSUME NEW k \in 0 .. (n - 1), k \in T PROVE k + 1 \in T
    <3>1. k + 1 \in 1 .. n /\ (k + 1) - 1 = k /\ k + 1 \in 0 .. n
      BY <1>0
    <3>2. g[k + 1] = g[k] \o ss[k + 1]
      BY <3>1, <1>4
    <3>3. CASE k = 0
      <4>1. c[k + 1] = ss[k + 1] /\ g[k + 1] = <<>> \o ss[k + 1] /\ ss[k + 1] \in Seq(B)
        BY <2>6, <3>1, <3>2, <3>3, <1>3, <1>0
      <4>2. <<>> \o ss[k + 1] = ss[k + 1]
        BY <4>1, ConcatEmptySeq
      <4> QED BY <4>1, <4>2, <3>1, <3>3
    <3>4. CASE k # 0
      <4>0. k + 1 # 1
        BY <1>0, <3>4
      <4>1. c[k + 1] = c[k] \o ss[k + 1]
        BY <2>6, <3>1, <4>0
      <4>2. c[k] = g[k]
        BY <2>7, <3>4
      <4> QED BY <4>1, <4>2, <3>1, <3>2
    <3> QED BY <3>3, <3>4
  <2>8. 0 \in T
    BY <1>0
  <2> HIDE DEF T
  <2>9. 0 .. n \subseteq T
    BY <1>0, <2>7, <2>8, FromZeroTo
  <2>10. c[n] = g[n]
    BY <2>9, <1>0, <1>7 DEF T
  <2> QED BY <1>5, <2>5, <2>10 DEF n
<1> QED BY <1>6, <1>7

LEMMA FlattenType ==
    ASSUME NEW B, NEW ss \in Seq(Seq(B)) PROVE FlattenSeq(ss) \in Seq(B)
<1>1. PICK g : Together(B, ss, g) /\ FlattenSeq(ss) = g[Len(ss)]
  BY FlattenIs
<1>2. Len(ss) \in 0 .. Len(ss)
  OBVIOUS
<1> QED BY <1>1, <1>2 DEF Together

LEMMA FlattenConcat ==
    ASSUME NEW B, NEW ss \in Seq(Seq(B)), NEW tt \in Seq(Seq(B))
    PROVE  FlattenSeq(ss \o tt) = FlattenSeq(ss) \o FlattenSeq(tt)
<1> DEFINE m == Len(ss)
           n == Len(tt)
           all == ss \o tt
<1>0. m \in Nat /\ n \in Nat /\ all \in Seq(Seq(B)) /\ Len(all) = m + n
      /\ (\A k \in 1 .. m : all[k] = ss[k]) /\ \A k \in 1 .. n : all[m + k] = tt[k] /\ tt[k] \in Seq(B)
  OBVIOUS
<1> HIDE DEF m, n, all
<1>1. PICK g : Together(B, ss, g) /\ FlattenSeq(ss) = g[m]
  BY FlattenIs DEF m
<1>2. PICK h : Together(B, tt, h) /\ FlattenSeq(tt) = h[n]
  BY FlattenIs DEF n
<1>3. PICK q : Together(B, all, q) /\ FlattenSeq(all) = q[m + n]
  BY FlattenIs, <1>0
<1>4. /\ q[0] = <<>> /\ \A k \in 1 .. m + n : q[k] = q[k - 1] \o all[k]
      /\ g[0] = <<>> /\ \A k \in 1 .. m : g[k] = g[k - 1] \o ss[k]
      /\ h[0] = <<>> /\ \A k \in 1 .. n : h[k] = h[k - 1] \o tt[k]
      /\ g[m] \in Seq(B) /\ \A k \in 0 .. n : h[k] \in Seq(B)
  <2>1. m \in 0 .. m
    BY <1>0
  <2>2. Len(all) = m + n /\ Len(ss) = m /\ Len(tt) = n
    BY <1>0 DEF m, n
  <2> QED BY <2>1, <2>2, <1>1, <1>2, <1>3 DEF Together
<1> DEFINE T == {k \in 0 .. m : q[k] = g[k]}
           U == {k \in 0 .. n : q[m + k] = g[m] \o h[k]}
<1>5. 0 .. m \subseteq T
  <2>1. 0 \in T
    BY <1>0, <1>4
  <2>2. ASSUME NEW k \in 0 .. (m - 1), k \in T PROVE k + 1 \in T
    <3>1. k + 1 \in 1 .. m /\ k + 1 \in 1 .. m + n /\ (k + 1) - 1 = k
      BY <1>0
    <3>2. q[k + 1] = q[k] \o all[k + 1] /\ g[k + 1] = g[k] \o ss[k + 1]
      BY <3>1, <1>4
    <3>3. all[k + 1] = ss[k + 1] /\ q[k] = g[k] /\ k + 1 \in 0 .. m
      BY <2>2, <3>1, <1>0
    <3> QED BY <3>2, <3>3
  <2> HIDE DEF T
  <2> QED BY <1>0, <2>1, <2>2, FromZeroTo
<1>6. 0 .. n \subseteq U
  <2>1. 0 \in U
    <3>1. q[m] = g[m] /\ m + 0 = m
      BY <1>0, <1>5
    <3>2. g[m] \o h[0] = g[m]
      BY <1>4, ConcatEmptySeq
    <3>3. 0 \in 0 .. n
      BY <1>0
    <3> QED BY <3>1, <3>2, <3>3
  <2>2. ASSUME NEW k \in 0 .. (n - 1), k \in U PROVE k + 1 \in U
    <3>1. k + 1 \in 1 .. n /\ (k + 1) - 1 = k /\ k \in 0 .. n
          /\ m + (k + 1) \in 1 .. m + n /\ (m + (k + 1)) - 1 = m + k
      BY <1>0
    <3>5. all[m + (k + 1)] = tt[k + 1] /\ tt[k + 1] \in Seq(B) /\ h[k] \in Seq(B) /\ k + 1 \in 0 .. n
      <4>1. k + 1 \in 0 .. n
        BY <3>1, <1>0
      <4>2. all[m + (k + 1)] = tt[k + 1] /\ tt[k + 1] \in Seq(B)
        BY <3>1, <1>0
      <4> QED BY <4>1, <4>2, <3>1, <1>4
    <3>2. q[m + (k + 1)] = q[m + k] \o tt[k + 1] /\ h[k + 1] = h[k] \o tt[k + 1]
      BY <3>1, <1>4, <3>5
    <3>3. q[m + k] = g[m] \o h[k]
      BY <2>2
    <3>4. (g[m] \o h[k]) \o tt[k + 1] = g[m] \o (h[k] \o tt[k + 1])
      <4> DEFINE x == g[m]
                 y == h[k]
                 z == tt[k + 1]
      <4>1. x \in Seq(B) /\ y \in Seq(B) /\ z \in Seq(B)
        BY <1>4, <3>5
      <4> HIDE DEF x, y, z
      <4>2. (x \o y) \o z = x \o (y \o z)
        BY <4>1, ConcatAssociative
      <4> QED BY <4>2 DEF x, y, z
    <3> QED BY <3>2, <3>3, <3>4, <3>5
  <2> HIDE DEF U
  <2> QED BY <1>0, <2>1, <2>2, FromZeroTo
<1>7. q[m + n] = g[m] \o h[n]
  <2>0. n \in 0 .. n
    BY <1>0
  <2>1. n \in U
    <3> HIDE DEF U
    <3> QED BY <2>0, <1>6
  <2> QED BY <2>1
<1> QED BY <1>1, <1>2, <1>3, <1>7 DEF all

LEMMA FlattenFew ==
    /\ FlattenSeq(<<>>) = <<>>
    /\ \A B : \A x \in Seq(B) : FlattenSeq(<<x>>) = x
<1>1. FlattenSeq(<<>>) = <<>>
  BY DEF FlattenSeq
<1>2. ASSUME NEW B, NEW x \in Seq(B) PROVE FlattenSeq(<<x>>) = x
  <2>1. <<x>> \in Seq(Seq(B)) /\ Len(<<x>>) = 1 /\ <<x>>[1] = x
    OBVIOUS
  <2>2. PICK g : Together(B, <<x>>, g) /\ FlattenSeq(<<x>>) = g[1]
    BY <2>1, FlattenIs
  <2>3. g[1] = g[0] \o x /\ g[0] = <<>>
    <3>1. 1 \in 1 .. Len(<<x>>) /\ 1 - 1 = 0
      BY <2>1
    <3>2. g[0] = <<>> /\ g[1] = g[1 - 1] \o <<x>>[1]
      BY <2>2, <3>1 DEF Together
    <3> QED BY <3>1, <3>2, <2>1
  <2> QED BY <2>2, <2>3, ConcatEmptySeq
<1> QED BY <1>1, <1>2

LEMMA FlattenAppend ==
    ASSUME NEW B, NEW ss \in Seq(Seq(B)), NEW x \in Seq(B)
    PROVE  FlattenSeq(Append(ss, x)) = FlattenSeq(ss) \o x
<1>1. <<x>> \in Seq(Seq(B)) /\ FlattenSeq(<<x>>) = x
  BY FlattenFew
<1>2. Append(ss, x) = ss \o <<x>>
  BY AppendIsConcat
<1> QED BY <1>1, <1>2, FlattenConcat
-----------------------------------------------------------------------------
(* The positions after a, up to b.                                         *)
Stretch(a, b) == [i \in 1 .. b - a |-> a + i]

LEMMA StretchIs ==
    ASSUME NEW a \in Nat, NEW b \in Nat
    PROVE  /\ Stretch(a, b) \in Seq(Nat)
           /\ a <= b => Len(Stretch(a, b)) = b - a
           /\ b <= a => Stretch(a, b) = <<>>
           /\ \A i \in 1 .. b - a : Stretch(a, b)[i] = a + i
<1>1. CASE a <= b
  <2>1. b - a \in Nat
    BY <1>1
  <2>2. b <= a => b - a = 0
    BY <1>1
  <2> DEFINE n == b - a
  <2>3. n \in Nat
    BY <2>1
  <2> HIDE DEF n
  <2>4. [i \in 1 .. n |-> a + i] \in Seq(Nat) /\ Len([i \in 1 .. n |-> a + i]) = n
    BY <2>3
  <2>5. n = 0 => [i \in 1 .. n |-> a + i] = <<>>
    BY <2>3
  <2> QED BY <2>2, <2>4, <2>5 DEF Stretch, n
<1>2. CASE ~(a <= b)
  <2>1. 1 .. b - a = {}
    BY <1>2
  <2>2. Stretch(a, b) = <<>>
    BY <2>1 DEF Stretch
  <2> QED BY <1>2, <2>1, <2>2
<1> QED BY <1>1, <1>2

LEMMA StretchJoin ==
    ASSUME NEW a \in Nat, NEW b \in Nat, NEW c \in Nat, a <= b, b <= c
    PROVE  Stretch(a, b) \o Stretch(b, c) = Stretch(a, c)
<1> DEFINE x == Stretch(a, b)
           y == Stretch(b, c)
           z == Stretch(a, c)
<1>1. /\ x \in Seq(Nat) /\ Len(x) = b - a /\ \A i \in 1 .. b - a : x[i] = a + i
      /\ y \in Seq(Nat) /\ Len(y) = c - b /\ \A i \in 1 .. c - b : y[i] = b + i
      /\ z \in Seq(Nat) /\ Len(z) = c - a /\ \A i \in 1 .. c - a : z[i] = a + i
  <2>1. x \in Seq(Nat) /\ Len(x) = b - a /\ \A i \in 1 .. b - a : x[i] = a + i
    BY StretchIs
  <2>2. y \in Seq(Nat) /\ Len(y) = c - b /\ \A i \in 1 .. c - b : y[i] = b + i
    BY StretchIs
  <2>3. a <= c
    OBVIOUS
  <2>4. z \in Seq(Nat) /\ Len(z) = c - a /\ \A i \in 1 .. c - a : z[i] = a + i
    BY <2>3, StretchIs
  <2> QED BY <2>1, <2>2, <2>4
<1> HIDE DEF x, y, z
<1>2. /\ x \o y \in Seq(Nat) /\ Len(x \o y) = (b - a) + (c - b)
      /\ \A i \in 1 .. (b - a) + (c - b) : (x \o y)[i] = IF i <= b - a THEN x[i] ELSE y[i - (b - a)]
  <2>1. /\ x \o y \in Seq(Nat) /\ Len(x \o y) = Len(x) + Len(y)
        /\ \A i \in 1 .. Len(x) + Len(y) : (x \o y)[i] = IF i <= Len(x) THEN x[i] ELSE y[i - Len(x)]
    BY <1>1, ConcatProperties
  <2>2. Len(x) = b - a /\ Len(y) = c - b
    BY <1>1
  <2> QED BY <2>1, <2>2
<1>3. (b - a) + (c - b) = c - a
  OBVIOUS
<1>4. ASSUME NEW i \in 1 .. c - a PROVE (x \o y)[i] = z[i]
  <2>1. CASE i <= b - a
    <3>1. i \in 1 .. b - a
      BY <2>1
    <3> QED BY <3>1, <2>1, <1>1, <1>2, <1>3
  <2>2. CASE ~(i <= b - a)
    <3>1. i - (b - a) \in 1 .. c - b /\ b + (i - (b - a)) = a + i
      BY <2>2
    <3>2. (x \o y)[i] = y[i - (b - a)]
      BY <2>2, <1>2, <1>3
    <3> QED BY <3>1, <3>2, <1>1
  <2> QED BY <2>1, <2>2
<1>5. x \o y = z
  BY <1>1, <1>2, <1>3, <1>4, SeqEqual
<1> QED BY <1>5 DEF x, y, z

(* A list without its first m elements and those after the first n.        *)
Piece(s, m, n) == SubSeq(s, m + 1, n)

LEMMA StretchCut ==
    ASSUME NEW a \in Nat, NEW b \in Nat, NEW m \in Nat, NEW n \in Nat, m <= n, a + n <= b
    PROVE  Piece(Stretch(a, b), m, n) = Stretch(a + m, a + n)
<1> DEFINE x == Stretch(a, b)
           y == SubSeq(x, m + 1, n)
           z == Stretch(a + m, a + n)
<1>1. /\ \A i \in 1 .. b - a : x[i] = a + i /\ x[i] \in Nat
      /\ z \in Seq(Nat) /\ Len(z) = n - m /\ \A i \in 1 .. n - m : z[i] = (a + m) + i
  <2>1. a + m \in Nat /\ a + n \in Nat /\ a + m <= a + n /\ (a + n) - (a + m) = n - m
    OBVIOUS
  <2>2. \A i \in 1 .. b - a : a + i \in Nat
    OBVIOUS
  <2> QED BY <2>1, <2>2, StretchIs
<1> HIDE DEF x, z
<1>2. \A i \in m + 1 .. n : x[i] \in Nat
  <2>1. \A i \in m + 1 .. n : i \in 1 .. b - a
    OBVIOUS
  <2> QED BY <2>1, <1>1
<1>3. /\ y \in Seq(Nat) /\ Len(y) = n - m /\ \A i \in 1 .. n - m : y[i] = x[m + i]
  <2>1. /\ y \in Seq(Nat) /\ Len(y) = IF m + 1 <= n THEN n - (m + 1) + 1 ELSE 0
        /\ \A i \in 1 .. n - (m + 1) + 1 : y[i] = x[(m + 1) + i - 1]
    BY <1>2, SubSeqProperties
  <2>2. n - (m + 1) + 1 = n - m /\ (~(m + 1 <= n) => n - m = 0)
    OBVIOUS
  <2>3. \A i \in 1 .. n - m : (m + 1) + i - 1 = m + i
    OBVIOUS
  <2> HIDE DEF y
  <2> QED BY <2>1, <2>2, <2>3
<1> HIDE DEF y
<1>4. \A i \in 1 .. n - m : m + i \in 1 .. b - a /\ a + (m + i) = (a + m) + i
  OBVIOUS
<1>5. \A i \in 1 .. n - m : y[i] = z[i]
  BY <1>1, <1>3, <1>4
<1>6. y = z
  BY <1>1, <1>3, <1>5, SeqEqual
<1> QED BY <1>6 DEF x, y, z, Piece

(* Two lists that are a stretch together are two stretches that meet.      *)
Joined(x, y, s) == x \o y = s

LEMMA StretchMeets ==
    ASSUME NEW a \in Nat, NEW b \in Nat, a <= b, NEW x \in Seq(Nat), NEW y \in Seq(Nat),
           Joined(x, y, Stretch(a, b))
    PROVE  x = Stretch(a, a + Len(x)) /\ y = Stretch(a + Len(x), b) /\ a + Len(x) + Len(y) = b
<1> DEFINE s == Stretch(a, b)
           m == Len(x)
           n == Len(y)
           p == Stretch(a, a + m)
           q == Stretch(a + m, b)
<1>1. m \in Nat /\ n \in Nat
  OBVIOUS
<1>2. /\ Len(x \o y) = m + n
      /\ \A i \in 1 .. m : (x \o y)[i] = x[i]
      /\ \A i \in 1 .. n : (x \o y)[m + i] = y[i]
  OBVIOUS
<1>3. Len(s) = b - a /\ \A i \in 1 .. b - a : s[i] = a + i
  BY StretchIs
<1> HIDE DEF m, n, s
<1>4. m + n = b - a /\ a + m \in Nat /\ a + m <= b
  <2>1. m + n = b - a
    BY <1>2, <1>3 DEF s, Joined
  <2> QED BY <2>1, <1>1
<1>5. /\ p \in Seq(Nat) /\ Len(p) = m /\ \A i \in 1 .. m : p[i] = a + i
      /\ q \in Seq(Nat) /\ Len(q) = n /\ \A i \in 1 .. n : q[i] = (a + m) + i
  <2>1. (a + m) - a = m /\ b - (a + m) = n /\ a <= a + m
    BY <1>1, <1>4
  <2> QED BY <2>1, <1>4, StretchIs
<1> HIDE DEF p, q
<1>6. \A i \in 1 .. m : x[i] = p[i]
  <2>1. \A i \in 1 .. m : i \in 1 .. b - a
    BY <1>1, <1>4
  <2> QED BY <2>1, <1>2, <1>3, <1>5 DEF s, Joined
<1>7. \A i \in 1 .. n : y[i] = q[i]
  <2>1. \A i \in 1 .. n : m + i \in 1 .. b - a /\ a + (m + i) = (a + m) + i
    BY <1>1, <1>4
  <2>2. x \o y = s
    BY DEF s, Joined
  <2>3. \A i \in 1 .. n : s[m + i] = (a + m) + i
    BY <2>1, <1>3
  <2> QED BY <2>2, <2>3, <1>2, <1>5
<1>8. x = p
  BY <1>5, <1>6, SeqEqual DEF m
<1>9. y = q
  BY <1>5, <1>7, SeqEqual DEF n
<1>10. a + m + n = b
  BY <1>1, <1>4
<1> QED BY <1>8, <1>9, <1>10 DEF p, q, m, n

-----------------------------------------------------------------------------
(* What the records, or frames, on their way carry.                        *)
Bodies(w) == [i \in DOMAIN w |-> w[i].body]
Carried(w) == FlattenSeq(Bodies(w))
Carries(R) == \A r \in R : r.body \in Seq(Nat)

LEMMA BodiesType ==
    ASSUME NEW R, Carries(R), NEW w \in Seq(R)
    PROVE  /\ Bodies(w) \in Seq(Seq(Nat)) /\ Len(Bodies(w)) = Len(w)
           /\ \A i \in 1 .. Len(w) : Bodies(w)[i] = w[i].body
           /\ Carried(w) \in Seq(Nat)
<1>1. DOMAIN w = 1 .. Len(w) /\ Len(w) \in Nat /\ \A i \in 1 .. Len(w) : w[i] \in R
  OBVIOUS
<1>2. \A i \in 1 .. Len(w) : w[i].body \in Seq(Nat)
  BY <1>1 DEF Carries
<1> DEFINE n == Len(w)
           b == [i \in 1 .. n |-> w[i].body]
<1>3. Bodies(w) = b
  BY <1>1 DEF Bodies
<1> HIDE DEF n
<1>4. n \in Nat /\ \A i \in 1 .. n : w[i].body \in Seq(Nat)
  BY <1>1, <1>2 DEF n
<1>5. b \in Seq(Seq(Nat)) /\ Len(b) = n /\ \A i \in 1 .. n : b[i] = w[i].body
  BY <1>4
<1> HIDE DEF b
<1>6. FlattenSeq(b) \in Seq(Nat)
  BY <1>5, FlattenType
<1> QED BY <1>3, <1>5, <1>6 DEF n, Carried

LEMMA CarriedConcat ==
    ASSUME NEW R, Carries(R), NEW v \in Seq(R), NEW w \in Seq(R)
    PROVE  Carried(v \o w) = Carried(v) \o Carried(w)
<1> DEFINE x == Bodies(v)
           y == Bodies(w)
           z == Bodies(v \o w)
           m == Len(v)
           n == Len(w)
<1>1. v \o w \in Seq(R) /\ Len(v \o w) = m + n /\ m \in Nat /\ n \in Nat
      /\ \A i \in 1 .. m + n : (v \o w)[i] = IF i <= m THEN v[i] ELSE w[i - m]
  BY ConcatProperties
<1>2. /\ x \in Seq(Seq(Nat)) /\ Len(x) = m /\ \A i \in 1 .. m : x[i] = v[i].body
      /\ y \in Seq(Seq(Nat)) /\ Len(y) = n /\ \A i \in 1 .. n : y[i] = w[i].body
      /\ z \in Seq(Seq(Nat)) /\ Len(z) = m + n /\ \A i \in 1 .. m + n : z[i] = (v \o w)[i].body
  BY <1>1, BodiesType
<1> HIDE DEF x, y, z, m, n
<1>3. /\ x \o y \in Seq(Seq(Nat)) /\ Len(x \o y) = m + n
      /\ \A i \in 1 .. m + n : (x \o y)[i] = IF i <= m THEN x[i] ELSE y[i - m]
  BY <1>2, ConcatProperties
<1>4. ASSUME NEW i \in 1 .. m + n PROVE (x \o y)[i] = z[i]
  <2>1. CASE i <= m
    <3>1. i \in 1 .. m
      BY <2>1, <1>1
    <3>2. (x \o y)[i] = x[i]
      BY <2>1, <1>3
    <3>3. (v \o w)[i] = v[i]
      BY <2>1, <1>1
    <3>4. z[i] = v[i].body
      BY <3>3, <1>2
    <3>5. x[i] = v[i].body
      BY <3>1, <1>2
    <3> QED BY <3>2, <3>4, <3>5
  <2>2. CASE ~(i <= m)
    <3>1. i - m \in 1 .. n
      BY <2>2, <1>1
    <3>2. (x \o y)[i] = y[i - m]
      BY <2>2, <1>3
    <3>3. (v \o w)[i] = w[i - m]
      BY <2>2, <1>1
    <3>4. z[i] = w[i - m].body
      BY <3>3, <1>2
    <3>5. y[i - m] = w[i - m].body
      BY <3>1, <1>2
    <3> QED BY <3>2, <3>4, <3>5
  <2> QED BY <2>1, <2>2
<1>5. x \o y = z
  BY <1>2, <1>3, <1>4, SeqEqual
<1>6. FlattenSeq(x \o y) = FlattenSeq(x) \o FlattenSeq(y)
  BY <1>2, FlattenConcat
<1> QED BY <1>5, <1>6 DEF x, y, z, Carried

LEMMA CarriedOne ==
    ASSUME NEW R, Carries(R), NEW r \in R PROVE Carried(<<r>>) = r.body
<1>1. <<r>> \in Seq(R) /\ Len(<<r>>) = 1 /\ <<r>>[1] = r /\ r.body \in Seq(Nat)
  BY DEF Carries
<1>2. Bodies(<<r>>) \in Seq(Seq(Nat)) /\ Len(Bodies(<<r>>)) = 1 /\ Bodies(<<r>>)[1] = r.body
  <2> DEFINE w == <<r>>
  <2>1. w \in Seq(R) /\ Len(w) = 1 /\ w[1] = r /\ 1 \in 1 .. 1
    BY <1>1
  <2> HIDE DEF w
  <2>2. Bodies(w) \in Seq(Seq(Nat)) /\ Len(Bodies(w)) = 1 /\ Bodies(w)[1] = r.body
    BY <2>1, BodiesType
  <2> QED BY <2>2 DEF w
<1>3. <<r.body>> \in Seq(Seq(Nat)) /\ Len(<<r.body>>) = 1 /\ <<r.body>>[1] = r.body
  BY <1>1
<1>4. Bodies(<<r>>) = <<r.body>>
  <2>1. \A i \in 1 .. 1 : i = 1
    OBVIOUS
  <2> QED BY <1>2, <1>3, <2>1, SeqEqual
<1> QED BY <1>1, <1>4, FlattenFew DEF Carried

LEMMA CarriedSteps ==
    ASSUME NEW R, Carries(R), NEW w \in Seq(R)
    PROVE  /\ Carried(<<>>) = <<>>
           /\ \A r \in R : Carried(Append(w, r)) = Carried(w) \o r.body
           /\ \A r \in R : Carried(<<r>> \o w) = r.body \o Carried(w)
           /\ w # <<>> => Carried(w) = w[1].body \o Carried(Tail(w))
<1>1. Carried(<<>>) = <<>>
  <2>1. Bodies(<<>>) = <<>>
    BY DEF Bodies
  <2> QED BY <2>1, FlattenFew DEF Carried
<1>2. ASSUME NEW r \in R PROVE Carried(Append(w, r)) = Carried(w) \o r.body
  <2>1. Append(w, r) = w \o <<r>> /\ <<r>> \in Seq(R)
    BY AppendIsConcat
  <2>2. Carried(<<r>>) = r.body
    BY CarriedOne
  <2>3. Carried(w \o <<r>>) = Carried(w) \o Carried(<<r>>)
    BY <2>1, CarriedConcat
  <2> QED BY <2>1, <2>2, <2>3
<1>3. ASSUME NEW r \in R PROVE Carried(<<r>> \o w) = r.body \o Carried(w)
  <2>1. <<r>> \in Seq(R)
    OBVIOUS
  <2>2. Carried(<<r>>) = r.body
    BY CarriedOne
  <2>3. Carried(<<r>> \o w) = Carried(<<r>>) \o Carried(w)
    BY <2>1, CarriedConcat
  <2> QED BY <2>2, <2>3
<1>4. ASSUME w # <<>> PROVE Carried(w) = w[1].body \o Carried(Tail(w))
  <2>1. w[1] \in R /\ Tail(w) \in Seq(R) /\ w = <<w[1]>> \o Tail(w) /\ <<w[1]>> \in Seq(R)
    BY <1>4
  <2>2. Carried(<<w[1]>>) = w[1].body
    BY <2>1, CarriedOne
  <2>3. Carried(<<w[1]>> \o Tail(w)) = Carried(<<w[1]>>) \o Carried(Tail(w))
    BY <2>1, CarriedConcat
  <2> QED BY <2>1, <2>2, <2>3
<1> QED BY <1>1, <1>2, <1>3, <1>4
-----------------------------------------------------------------------------
LEMMA ConcatAt ==
    ASSUME NEW S, NEW x \in Seq(S), NEW y \in Seq(S)
    PROVE  /\ x \o y \in Seq(S) /\ Len(x \o y) = Len(x) + Len(y) /\ Len(x) \in Nat /\ Len(y) \in Nat
           /\ \A i \in 1 .. Len(x) : (x \o y)[i] = x[i]
           /\ \A i \in 1 .. Len(y) : (x \o y)[Len(x) + i] = y[i]
<1>1. Len(x) \in Nat /\ Len(y) \in Nat
  OBVIOUS
<1>2. /\ x \o y \in Seq(S) /\ Len(x \o y) = Len(x) + Len(y)
      /\ \A i \in 1 .. Len(x) + Len(y) : (x \o y)[i] = IF i <= Len(x) THEN x[i] ELSE y[i - Len(x)]
  BY ConcatProperties
<1>3. \A i \in 1 .. Len(x) : (x \o y)[i] = x[i]
  BY <1>1, <1>2
<1>4. ASSUME NEW i \in 1 .. Len(y) PROVE (x \o y)[Len(x) + i] = y[i]
  <2>1. Len(x) + i \in 1 .. Len(x) + Len(y) /\ ~(Len(x) + i <= Len(x)) /\ (Len(x) + i) - Len(x) = i
    BY <1>1
  <2> QED BY <2>1, <1>2
<1> QED BY <1>1, <1>2, <1>3, <1>4

(* The client's packets and where they end.                                *)
PacketOf(i) == Packet(clt.proto, clt.lens[i])
PacketsOf(k) == [i \in 1 .. k |-> Packet(clt.proto, clt.lens[i])]
EndOf(k) == HandshakeLen + Len(FlattenSeq(PacketsOf(k)))
Opened ==
    /\ clt.lens \in Seq(Lengths)
    /\ clt.plain = <<0>> \o FlattenSeq(PacketsOf(Len(clt.lens)))

LEMMA EndsAre == PacketEnds = {EndOf(k) : k \in 0 .. Len(clt.lens)}
BY DEF PacketEnds, EndOf, PacketsOf

HeaderOf(proto, n) == IF proto = "abridged" /\ n <= 1 THEN 1 ELSE 2

LEMMA PacketIs ==
    ASSUME NEW proto, NEW n \in Nat
    PROVE  /\ Packet(proto, n) \in Seq(Nat) /\ Len(Packet(proto, n)) = HeaderOf(proto, n) + n
           /\ Packet(proto, n)[1] = IF proto = "abridged" /\ n > 1 THEN Long ELSE n
           /\ proto = "abridged" /\ n > 1 => Packet(proto, n)[2] = n
<1> DEFINE w == [i \in 1 .. n |-> Padding]
<1>1. w \in Seq(Nat) /\ Len(w) = n
  BY DEF Padding
<1> HIDE DEF w
<1>2. CASE proto = "abridged" /\ n > 1
  <2>1. Packet(proto, n) = <<Long, n>> \o w
    BY <1>2 DEF Packet, w
  <2>2. <<Long, n>> \in Seq(Nat) /\ Len(<<Long, n>>) = 2 /\ <<Long, n>>[1] = Long /\ <<Long, n>>[2] = n
    BY DEF Long
  <2> DEFINE h == <<Long, n>>
  <2>3. h \in Seq(Nat) /\ Len(h) = 2 /\ h[1] = Long /\ h[2] = n
    BY <2>2
  <2> HIDE DEF h
  <2>4. h \o w \in Seq(Nat) /\ Len(h \o w) = 2 + n /\ (h \o w)[1] = Long /\ (h \o w)[2] = n
    <3>1. /\ h \o w \in Seq(Nat) /\ Len(h \o w) = Len(h) + Len(w)
          /\ \A i \in 1 .. Len(h) : (h \o w)[i] = h[i]
      BY <2>3, <1>1, ConcatAt
    <3>2. 1 \in 1 .. Len(h) /\ 2 \in 1 .. Len(h)
      BY <2>3
    <3> QED BY <3>1, <3>2, <2>3, <1>1
  <2>5. HeaderOf(proto, n) = 2
    BY <1>2 DEF HeaderOf
  <2> QED BY <1>2, <2>1, <2>4, <2>5 DEF h
<1>3. CASE proto = "abridged" /\ ~(n > 1)
  <2>1. Packet(proto, n) = <<n>> \o w
    BY <1>3 DEF Packet, w
  <2>2. <<n>> \in Seq(Nat) /\ Len(<<n>>) = 1 /\ <<n>>[1] = n /\ n <= 1
    BY <1>3
  <2> QED BY <1>1, <1>3, <2>1, <2>2 DEF HeaderOf
<1>4. CASE proto # "abridged"
  <2>1. Packet(proto, n) = <<n, 0>> \o w
    BY <1>4 DEF Packet, w
  <2>2. <<n, 0>> \in Seq(Nat) /\ Len(<<n, 0>>) = 2 /\ <<n, 0>>[1] = n
    OBVIOUS
  <2> QED BY <1>1, <1>4, <2>1, <2>2 DEF HeaderOf
<1> QED BY <1>2, <1>3, <1>4

LEMMA PacketsAre ==
    ASSUME clt.lens \in Seq(Lengths)
    PROVE  /\ Len(clt.lens) \in Nat
           /\ \A i \in 1 .. Len(clt.lens) :
                 clt.lens[i] \in Nat /\ PacketOf(i) \in Seq(Nat) /\ PacketOf(i) # <<>>
           /\ \A k \in 0 .. Len(clt.lens) :
                 /\ PacketsOf(k) \in Seq(Seq(Nat)) /\ Len(PacketsOf(k)) = k
                 /\ \A i \in 1 .. k : PacketsOf(k)[i] = PacketOf(i)
                 /\ FlattenSeq(PacketsOf(k)) \in Seq(Nat) /\ EndOf(k) \in Nat \ {0}
<1>1. Len(clt.lens) \in Nat /\ \A i \in 1 .. Len(clt.lens) : clt.lens[i] \in Nat
  <2>1. Lengths \subseteq Nat
    BY BytesAssumption
  <2>2. Len(clt.lens) \in Nat /\ \A i \in 1 .. Len(clt.lens) : clt.lens[i] \in Lengths
    BY ElementOfSeq
  <2> QED BY <2>1, <2>2
<1>2. ASSUME NEW i \in 1 .. Len(clt.lens) PROVE PacketOf(i) \in Seq(Nat) /\ PacketOf(i) # <<>>
  <2> DEFINE x == PacketOf(i)
             n == clt.lens[i]
  <2>0. n \in Nat
    BY <1>1
  <2>1. x \in Seq(Nat) /\ Len(x) = HeaderOf(clt.proto, n) + n
    BY <2>0, PacketIs DEF PacketOf
  <2> HIDE DEF x, n
  <2>2. Len(x) # 0
    BY <2>0, <2>1 DEF HeaderOf
  <2>3. x # <<>>
    BY <2>2
  <2> QED BY <2>1, <2>3 DEF x
<1>3. ASSUME NEW k \in 0 .. Len(clt.lens)
      PROVE  /\ PacketsOf(k) \in Seq(Seq(Nat)) /\ Len(PacketsOf(k)) = k
             /\ \A i \in 1 .. k : PacketsOf(k)[i] = PacketOf(i)
             /\ FlattenSeq(PacketsOf(k)) \in Seq(Nat) /\ EndOf(k) \in Nat \ {0}
  <2>1. k \in Nat /\ \A i \in 1 .. k : PacketOf(i) \in Seq(Nat)
    BY <1>1, <1>2
  <2>2. PacketsOf(k) = [i \in 1 .. k |-> PacketOf(i)]
    BY DEF PacketsOf, PacketOf
  <2>3. /\ PacketsOf(k) \in Seq(Seq(Nat)) /\ Len(PacketsOf(k)) = k
        /\ \A i \in 1 .. k : PacketsOf(k)[i] = PacketOf(i)
    BY <2>1, <2>2
  <2>4. FlattenSeq(PacketsOf(k)) \in Seq(Nat)
    BY <2>3, FlattenType
  <2>5. Len(FlattenSeq(PacketsOf(k))) \in Nat
    BY <2>4
  <2>6. EndOf(k) \in Nat \ {0}
    BY <2>5 DEF EndOf, HandshakeLen
  <2> QED BY <2>3, <2>4, <2>6
<1> QED BY <1>1, <1>2, <1>3

LEMMA NextPacket ==
    ASSUME clt.lens \in Seq(Lengths), NEW k \in 0 .. Len(clt.lens) - 1
    PROVE  /\ FlattenSeq(PacketsOf(k + 1)) = FlattenSeq(PacketsOf(k)) \o PacketOf(k + 1)
           /\ EndOf(k + 1) = EndOf(k) + Len(PacketOf(k + 1)) /\ EndOf(k) < EndOf(k + 1)
<1> DEFINE x == PacketsOf(k)
           y == PacketOf(k + 1)
           z == PacketsOf(k + 1)
<1>0. Len(clt.lens) \in Nat /\ k \in 0 .. Len(clt.lens) /\ k + 1 \in 1 .. Len(clt.lens)
      /\ k + 1 \in 0 .. Len(clt.lens) /\ k \in Nat
  <2>1. Len(clt.lens) \in Nat
    BY PacketsAre
  <2> QED BY <2>1
<1>1. /\ x \in Seq(Seq(Nat)) /\ Len(x) = k /\ \A i \in 1 .. k : x[i] = PacketOf(i)
      /\ z \in Seq(Seq(Nat)) /\ Len(z) = k + 1 /\ \A i \in 1 .. k + 1 : z[i] = PacketOf(i)
      /\ y \in Seq(Nat) /\ y # <<>>
  BY <1>0, PacketsAre
<1>2. EndOf(k) = HandshakeLen + Len(FlattenSeq(x)) /\ EndOf(k + 1) = HandshakeLen + Len(FlattenSeq(z))
  BY DEF EndOf
<1>3. \A i \in 1 .. k + 1 : z[i] = IF i = k + 1 THEN y ELSE x[i]
  <2>1. \A i \in 1 .. k + 1 : i = k + 1 \/ i \in 1 .. k
    BY <1>0
  <2> QED BY <1>1, <2>1
<1> HIDE DEF x, y, z
<1>4. z = Append(x, y)
  <2>1. /\ Append(x, y) \in Seq(Seq(Nat)) /\ Len(Append(x, y)) = k + 1
        /\ \A i \in 1 .. k + 1 : Append(x, y)[i] = IF i = k + 1 THEN y ELSE x[i]
    BY <1>0, <1>1
  <2> QED BY <2>1, <1>1, <1>3, SeqEqual
<1>5. FlattenSeq(z) = FlattenSeq(x) \o y
  BY <1>1, <1>4, FlattenAppend
<1> DEFINE f == FlattenSeq(x)
<1>6. f \in Seq(Nat)
  BY <1>1, FlattenType
<1> HIDE DEF f
<1>7. Len(f \o y) = Len(f) + Len(y) /\ Len(f) \in Nat /\ Len(y) \in Nat /\ Len(y) # 0
  BY <1>1, <1>6
<1>8. HandshakeLen \in Nat
  BY DEF HandshakeLen
<1>9. EndOf(k) = HandshakeLen + Len(f)
  BY <1>2 DEF f
<1>10. EndOf(k + 1) = HandshakeLen + Len(f \o y)
  BY <1>2, <1>5 DEF f
<1>11. EndOf(k + 1) = EndOf(k) + Len(y) /\ EndOf(k) < EndOf(k + 1)
  BY <1>7, <1>8, <1>9, <1>10
<1> QED BY <1>5, <1>11 DEF x, y, z

LEMMA EndsGrow ==
    ASSUME clt.lens \in Seq(Lengths), NEW i \in 0 .. Len(clt.lens), NEW j \in 0 .. Len(clt.lens)
    PROVE  i < j <=> EndOf(i) < EndOf(j)
<1> DEFINE N == Len(clt.lens)
           T == {n \in 0 .. N : \A k \in 0 .. n : k # n => EndOf(k) < EndOf(n)}
<1>0. N \in Nat /\ \A k \in 0 .. N : EndOf(k) \in Nat
  BY PacketsAre
<1>1. \A n \in 0 .. N - 1 : EndOf(n) < EndOf(n + 1)
  BY NextPacket
<1> HIDE DEF N
<1>2. 0 \in T
  BY <1>0
<1>3. ASSUME NEW n \in 0 .. (N - 1), n \in T PROVE n + 1 \in T
  <2>1. n + 1 \in 0 .. N /\ n \in 0 .. N
    BY <1>0
  <2>2. ASSUME NEW k \in 0 .. n + 1, k # n + 1 PROVE EndOf(k) < EndOf(n + 1)
    <3>1. k \in 0 .. n /\ k \in 0 .. N
      BY <1>0, <2>2
    <3>2. CASE k = n
      BY <3>2, <1>1
    <3>3. CASE k # n
      <4>1. EndOf(k) < EndOf(n)
        BY <1>3, <3>1, <3>3
      <4> QED BY <4>1, <1>1, <1>0, <2>1, <3>1
    <3> QED BY <3>2, <3>3
  <2> QED BY <2>1, <2>2
<1>4. 0 .. N \subseteq T
  <2> HIDE DEF T
  <2> QED BY <1>0, <1>2, <1>3, FromZeroTo
<1>5. \A a, b \in 0 .. N : a < b => EndOf(a) < EndOf(b)
  <2> SUFFICES ASSUME NEW a \in 0 .. N, NEW b \in 0 .. N, a < b PROVE EndOf(a) < EndOf(b)
    OBVIOUS
  <2>1. b \in T /\ a \in 0 .. b /\ a # b
    BY <1>4, <1>0
  <2> QED BY <2>1
<1> HIDE DEF T
<1>6. i \in 0 .. N /\ j \in 0 .. N
  BY DEF N
<1> DEFINE x == EndOf(i)
           y == EndOf(j)
<1>7. (i < j => x < y) /\ (j < i => y < x) /\ (i = j => x = y) /\ x \in Nat /\ y \in Nat
  BY <1>0, <1>5, <1>6
<1> HIDE DEF x, y
<1>8. i < j <=> x < y
  BY <1>0, <1>6, <1>7
<1> QED BY <1>8 DEF x, y

(* What the bytes of a packet say decrypted.                               *)
LEMMA PlainIs ==
    ASSUME Opened
    PROVE  /\ clt.plain \in Seq(Nat) /\ Len(clt.plain) = EndOf(Len(clt.lens))
           /\ \A k \in 0 .. Len(clt.lens) - 1 : \A j \in 1 .. Len(PacketOf(k + 1)) :
                 clt.plain[EndOf(k) + j] = PacketOf(k + 1)[j]
<1> DEFINE N == Len(clt.lens)
           all == FlattenSeq(PacketsOf(N))
<1>0. clt.lens \in Seq(Lengths) /\ clt.plain = <<0>> \o all
  BY DEF Opened
<1>1. N \in Nat /\ N \in 0 .. N /\ all \in Seq(Nat) /\ EndOf(N) = HandshakeLen + Len(all)
  BY <1>0, PacketsAre DEF EndOf
<1>2. /\ clt.plain \in Seq(Nat) /\ Len(clt.plain) = 1 + Len(all)
      /\ \A i \in 1 .. Len(all) : clt.plain[1 + i] = all[i]
  <2> HIDE DEF all
  <2>1. <<0>> \in Seq(Nat) /\ Len(<<0>>) = 1
    OBVIOUS
  <2> DEFINE z == <<0>>
  <2>2. z \in Seq(Nat) /\ Len(z) = 1
    BY <2>1
  <2> HIDE DEF z
  <2>3. /\ z \o all \in Seq(Nat) /\ Len(z \o all) = 1 + Len(all)
        /\ \A i \in 1 .. Len(all) : (z \o all)[1 + i] = all[i]
    <3>1. /\ z \o all \in Seq(Nat) /\ Len(z \o all) = Len(z) + Len(all)
          /\ \A i \in 1 .. Len(all) : (z \o all)[Len(z) + i] = all[i]
      <4>1. z \in Seq(Nat) /\ all \in Seq(Nat)
        BY <2>2, <1>1
      <4> QED BY <4>1, ConcatAt
    <3> QED BY <3>1, <2>2
  <2> QED BY <2>3, <1>0 DEF z
<1>3. ASSUME NEW k \in 0 .. N - 1, NEW j \in 1 .. Len(PacketOf(k + 1))
      PROVE  clt.plain[EndOf(k) + j] = PacketOf(k + 1)[j]
  <2> DEFINE m == N - (k + 1)
             rest == [i \in 1 .. m |-> PacketOf(k + 1 + i)]
             front == PacketsOf(k + 1)
             pk == PacketsOf(N)
             x == FlattenSeq(PacketsOf(k))
             y == PacketOf(k + 1)
  <2>1. k \in Nat /\ m \in Nat /\ k + 1 \in 0 .. N /\ k \in 0 .. N /\ (k + 1) + m = N /\ k + 1 \in 1 .. N
        /\ \A i \in 1 .. m : k + 1 + i \in 1 .. N
    <3> HIDE DEF N, all
    <3>1. k \in Nat /\ m \in Nat /\ (k + 1) + m = N
      BY <1>1
    <3> HIDE DEF m
    <3> QED BY <3>1, <1>1
  <2>2. \A i \in 1 .. m : PacketOf(k + 1 + i) \in Seq(Nat)
    BY <1>0, <2>1, PacketsAre
  <2>3. /\ front \in Seq(Seq(Nat)) /\ Len(front) = k + 1 /\ \A i \in 1 .. k + 1 : front[i] = PacketOf(i)
        /\ pk \in Seq(Seq(Nat)) /\ Len(pk) = N /\ \A i \in 1 .. N : pk[i] = PacketOf(i)
        /\ x \in Seq(Nat) /\ y \in Seq(Nat)
    BY <1>0, <1>1, <2>1, PacketsAre
  <2> HIDE DEF m
  <2>4. rest \in Seq(Seq(Nat)) /\ Len(rest) = m /\ \A i \in 1 .. m : rest[i] = PacketOf(k + 1 + i)
    BY <2>1, <2>2
  <2> HIDE DEF rest, front, pk
  <2>5. /\ front \o rest \in Seq(Seq(Nat)) /\ Len(front \o rest) = N
        /\ \A i \in 1 .. N : (front \o rest)[i] = IF i <= k + 1 THEN front[i] ELSE rest[i - (k + 1)]
    <3>1. /\ front \o rest \in Seq(Seq(Nat)) /\ Len(front \o rest) = Len(front) + Len(rest)
          /\ \A i \in 1 .. Len(front) + Len(rest) :
                (front \o rest)[i] = IF i <= Len(front) THEN front[i] ELSE rest[i - Len(front)]
      BY <2>3, <2>4, ConcatProperties
    <3>2. Len(front) = k + 1 /\ Len(front) + Len(rest) = N
      BY <2>1, <2>3, <2>4
    <3> QED BY <3>1, <3>2
  <2>6. ASSUME NEW i \in 1 .. N PROVE (front \o rest)[i] = pk[i]
    <3>0. pk[i] = PacketOf(i)
      BY <2>3
    <3>1. CASE i <= k + 1
      <4>1. i \in 1 .. k + 1
        BY <3>1, <2>1, <1>1
      <4> QED BY <3>0, <3>1, <4>1, <2>3, <2>5
    <3>2. CASE ~(i <= k + 1)
      <4>1. i - (k + 1) \in 1 .. m /\ (k + 1) + (i - (k + 1)) = i
        BY <3>2, <2>1, <1>1
      <4>2. (front \o rest)[i] = rest[i - (k + 1)]
        BY <3>2, <2>5
      <4>3. rest[i - (k + 1)] = PacketOf(i)
        BY <4>1, <2>4
      <4> QED BY <3>0, <4>2, <4>3
    <3> QED BY <3>1, <3>2
  <2>7. front \o rest = pk
    BY <2>3, <2>5, <2>6, SeqEqual
  <2>8. all = FlattenSeq(front) \o FlattenSeq(rest) /\ FlattenSeq(rest) \in Seq(Nat)
    BY <2>3, <2>4, <2>7, FlattenConcat, FlattenType DEF pk
  <2>9. FlattenSeq(front) = x \o y
    BY <1>0, NextPacket DEF front
  <2> DEFINE q == FlattenSeq(rest)
  <2>10. q \in Seq(Nat) /\ all = (x \o y) \o q
    BY <2>8, <2>9
  <2>11. EndOf(k) = 1 + Len(x)
    BY DEF EndOf, HandshakeLen
  <2> HIDE DEF x, y, q, all
  <2>12. Len(x) + j \in 1 .. Len(all) /\ all[Len(x) + j] = y[j] /\ Len(x) \in Nat /\ j \in Nat
    <3>1. j \in 1 .. Len(y)
      BY DEF y
    <3>2. /\ x \o y \in Seq(Nat) /\ Len(x \o y) = Len(x) + Len(y)
          /\ (x \o y)[Len(x) + j] = y[j]
      BY <2>3, <3>1, ConcatAt
    <3>3. Len(x) + j \in 1 .. Len(x \o y)
      BY <2>3, <3>1, <3>2
    <3> DEFINE xy == x \o y
               i == Len(x) + j
    <3>4. xy \in Seq(Nat) /\ i \in 1 .. Len(xy) /\ all = xy \o q
      BY <3>2, <3>3, <2>10
    <3> HIDE DEF xy, i
    <3>5. i \in 1 .. Len(all) /\ all[i] = xy[i]
      <4>1. /\ Len(xy \o q) = Len(xy) + Len(q) /\ Len(xy) \in Nat /\ Len(q) \in Nat
            /\ \A n \in 1 .. Len(xy) : (xy \o q)[n] = xy[n]
        BY <3>4, <2>10, ConcatAt
      <4> QED BY <4>1, <3>4
    <3> QED BY <3>5, <3>2, <3>1, <2>3 DEF xy, i
  <2>13. EndOf(k) + j = 1 + (Len(x) + j)
    BY <2>11, <2>12
  <2>14. clt.plain[1 + (Len(x) + j)] = all[Len(x) + j]
    BY <1>2, <2>12
  <2> QED BY <2>12, <2>13, <2>14 DEF y
<1> QED BY <1>1, <1>2, <1>3 DEF HandshakeLen
-----------------------------------------------------------------------------
(* One packet and nothing else.                                            *)
WholeIn(E, f) ==
    /\ f[1] - 1 \in E
    /\ \A p \in E : p \in f[1] .. f[Len(f)] <=> p = f[Len(f)]
WholePacket(f) == WholeIn(PacketEnds, f)

LEMMA StretchWhole ==
    ASSUME clt.lens \in Seq(Lengths), NEW k \in 0 .. Len(clt.lens) - 1
    PROVE  WholePacket(Stretch(EndOf(k), EndOf(k + 1)))
<1> DEFINE a == EndOf(k)
           b == EndOf(k + 1)
           f == Stretch(a, b)
           N == Len(clt.lens)
<1>0. N \in Nat /\ k \in 0 .. N /\ k + 1 \in 0 .. N /\ k \in Nat
  <2>1. N \in Nat
    BY PacketsAre
  <2> QED BY <2>1
<1>1. a \in Nat /\ b \in Nat /\ a < b
  BY <1>0, PacketsAre, NextPacket
<1>2. a \in PacketEnds
  BY <1>0, EndsAre
<1>3. ASSUME NEW p \in PacketEnds PROVE p \in Nat /\ (p > a => p >= b)
  <2>1. PICK i \in 0 .. N : p = EndOf(i)
    BY EndsAre
  <2>2. i <= k \/ i >= k + 1
    BY <1>0
  <2>3. k < i <=> EndOf(k) < EndOf(i)
    BY <1>0, EndsGrow
  <2>4. i < k + 1 <=> EndOf(i) < EndOf(k + 1)
    BY <1>0, EndsGrow
  <2>5. p \in Nat
    BY <2>1, PacketsAre
  <2> HIDE DEF N, f
  <2>6. (k < i <=> a < p) /\ (i < k + 1 <=> p < b)
    BY <2>1, <2>3, <2>4
  <2> HIDE DEF a, b
  <2> QED BY <2>5, <2>6, <1>0, <1>1
<1> HIDE DEF a, b
<1>4. /\ f \in Seq(Nat) /\ Len(f) = b - a /\ f[1] = a + 1 /\ f[b - a] = a + (b - a)
  <2>1. 1 \in 1 .. b - a /\ b - a \in 1 .. b - a /\ a <= b
    BY <1>1
  <2> QED BY <2>1, <1>1, StretchIs
<1> HIDE DEF f
<1>5. f[Len(f)] = b /\ f[1] - 1 = a /\ f[1] = a + 1
  BY <1>1, <1>4
<1>6. \A p \in PacketEnds : p \in a + 1 .. b <=> p = b
  BY <1>1, <1>3
<1>7. WholePacket(f)
  BY <1>2, <1>5, <1>6 DEF WholePacket, WholeIn
<1> QED BY <1>7 DEF a, b, f

(* _next_packet_len at the end of a packet: the next one, if it is there.  *)
LEMMA NextLenIs ==
    ASSUME Opened, NEW a \in Nat, NEW b \in Nat, b <= Len(clt.plain),
           NEW o \in Nat, a + o < b, a + o \in PacketEnds
    PROVE  LET n == NextPacketLen(Stretch(a, b), o) IN
           \/ n = NoLen \/ n = 0
           \/ /\ n \in Nat \ {0} /\ a + o + n <= b /\ a + o + n \in PacketEnds
              /\ WholePacket(Stretch(a + o, a + o + n))
<1> DEFINE N == Len(clt.lens)
           buf == Stretch(a, b)
           avail == Len(buf) - o
           first == clt.plain[buf[o + 1]]
           second == clt.plain[buf[o + 2]]
           n == NextPacketLen(buf, o)
<1>0. N \in Nat /\ clt.lens \in Seq(Lengths)
  BY PacketsAre DEF Opened
<1>1. PICK k \in 0 .. N : a + o = EndOf(k)
  BY EndsAre
<1>2. Len(clt.plain) = EndOf(N)
  BY PlainIs
<1>3. k < N
  <2>1. EndOf(k) < EndOf(N)
    <3>1. EndOf(k) \in Nat /\ EndOf(N) \in Nat
      BY <1>0, PacketsAre
    <3> QED BY <3>1, <1>1, <1>2
  <2>2. k < N <=> EndOf(k) < EndOf(N)
    BY <1>0, EndsGrow
  <2> QED BY <2>1, <2>2
<1>4. k \in 0 .. N - 1 /\ k + 1 \in 1 .. N /\ k + 1 \in 0 .. N
  BY <1>0, <1>3
<1> DEFINE len == clt.lens[k + 1]
           pk == PacketOf(k + 1)
           h == HeaderOf(clt.proto, len)
<1>5. len \in Nat
  BY <1>0, <1>4, PacketsAre
<1>6. /\ Len(pk) = h + len /\ pk[1] = (IF clt.proto = "abridged" /\ len > 1 THEN Long ELSE len)
      /\ clt.proto = "abridged" /\ len > 1 => pk[2] = len
  BY <1>5, PacketIs DEF PacketOf
<1>7. EndOf(k + 1) = a + o + Len(pk) /\ WholePacket(Stretch(a + o, EndOf(k + 1))) /\ EndOf(k + 1) \in PacketEnds
  BY <1>0, <1>1, <1>4, NextPacket, StretchWhole, EndsAre
<1>8. \A j \in 1 .. Len(pk) : clt.plain[a + o + j] = pk[j]
  BY <1>1, <1>4, PlainIs
<1>9. /\ Len(buf) = b - a /\ \A i \in 1 .. b - a : buf[i] = a + i
  <2>1. a <= b
    OBVIOUS
  <2> QED BY <2>1, StretchIs
<1> HIDE DEF N, buf, len, pk
<1>10. h \in {1, 2}
  BY DEF HeaderOf
<1>11. first = pk[1]
  <2>1. o + 1 \in 1 .. b - a /\ a + (o + 1) = a + o + 1 /\ 1 \in 1 .. Len(pk)
    BY <1>5, <1>6, <1>10
  <2> QED BY <2>1, <1>8, <1>9
<1>12. avail = (b - a) - o
  BY <1>9
<1>13. clt.proto = "abridged" /\ len > 1 /\ avail >= 2 => second = len
  <2> SUFFICES ASSUME clt.proto = "abridged", len > 1, avail >= 2 PROVE second = len
    OBVIOUS
  <2>1. o + 2 \in 1 .. b - a /\ a + (o + 2) = a + o + 2
    BY <1>12
  <2>2. 2 \in 1 .. Len(pk)
    BY <1>5, <1>6, <1>10
  <2> QED BY <2>1, <2>2, <1>6, <1>8, <1>9
<1> DEFINE header == IF clt.proto = "abridged" /\ first # Long THEN 1 ELSE HeaderLen
           payload == IF clt.proto = "abridged" /\ first = Long THEN second ELSE first
<1>14. n = IF avail < header THEN NoLen
           ELSE IF payload = 0 THEN 0
           ELSE IF avail < header + payload THEN NoLen ELSE header + payload
  BY DEF NextPacketLen
<1> HIDE DEF first, second, n, avail, h
<1>15. ~(avail < header) => header = h /\ payload = len
  <2> SUFFICES ASSUME ~(avail < header) PROVE header = h /\ payload = len
    OBVIOUS
  <2>1. CASE clt.proto = "abridged" /\ len > 1
    <3>1. first = Long
      BY <2>1, <1>6, <1>11
    <3>2. header = 2 /\ h = 2 /\ payload = second
      BY <2>1, <3>1, <1>5 DEF HeaderLen, HeaderOf, h
    <3>3. avail >= 2
      <4>1. ~(avail < 2)
        BY <3>2
      <4>2. avail \in Int
        BY <1>12
      <4> QED BY <4>1, <4>2
    <3> QED BY <2>1, <3>2, <3>3, <1>13
  <2>2. CASE clt.proto = "abridged" /\ ~(len > 1)
    <3>1. first = len /\ len <= 1 /\ first # Long
      BY <2>2, <1>5, <1>6, <1>11 DEF Long
    <3> QED BY <2>2, <3>1 DEF HeaderOf, h
  <2>3. CASE clt.proto # "abridged"
    <3>1. first = len
      BY <2>3, <1>6, <1>11
    <3> QED BY <2>3, <3>1 DEF HeaderOf, HeaderLen, h
  <2> QED BY <2>1, <2>2, <2>3
<1> HIDE DEF header, payload
<1>16. n = NoLen \/ n = 0 \/ (n = h + len /\ avail >= h + len)
  BY <1>14, <1>15, <1>5, <1>10, <1>12
<1>17. n = h + len /\ avail >= h + len =>
          /\ n \in Nat \ {0} /\ a + o + n <= b /\ a + o + n = EndOf(k + 1)
  BY <1>5, <1>6, <1>7, <1>10, <1>12
<1>18. \/ n = NoLen \/ n = 0
       \/ /\ n \in Nat \ {0} /\ a + o + n <= b /\ a + o + n \in PacketEnds
          /\ WholePacket(Stretch(a + o, a + o + n))
  BY <1>7, <1>16, <1>17
<1> QED BY <1>18 DEF n, buf
-----------------------------------------------------------------------------
(* What the loop of split has cut after some rounds from a buffer that     *)
(* holds the bytes from a to b and begins with a packet.                   *)
CutRec == [parts : Seq(Seq(Nat)), upto : Nat, disabled : BOOLEAN]
CutFits(a, b, p) ==
    /\ p \in CutRec /\ p.upto <= b - a
    /\ FlattenSeq(p.parts) = Stretch(a, a + p.upto)
    /\ p.disabled => p.upto = b - a
    /\ ~p.disabled => /\ a + p.upto \in PacketEnds
                      /\ \A i \in 1 .. Len(p.parts) : WholePacket(p.parts[i])

LEMMA CutOneFits ==
    ASSUME Opened, NEW a \in Nat, NEW b \in Nat, a <= b, b <= Len(clt.plain),
           NEW p, CutFits(a, b, p)
    PROVE  CutFits(a, b, CutOne(Stretch(a, b), p))
<1> DEFINE buf == Stretch(a, b)
           o == p.upto
           k == IF o < Len(buf) THEN NextPacketLen(buf, o) ELSE NoLen
           end == IF k = 0 THEN Len(buf) ELSE o + k
           q == CutOne(buf, p)
           cutoff == SubSeq(buf, o + 1, end)
<1>1. Len(buf) = b - a
  BY StretchIs
<1>2. /\ p.parts \in Seq(Seq(Nat)) /\ o \in Nat /\ o <= b - a /\ p.disabled \in BOOLEAN
      /\ FlattenSeq(p.parts) = Stretch(a, a + o)
      /\ p.disabled => o = b - a
      /\ ~p.disabled => /\ a + o \in PacketEnds
                        /\ \A i \in 1 .. Len(p.parts) : WholePacket(p.parts[i])
  BY DEF CutFits, CutRec
<1>3. q = IF k = NoLen THEN p
          ELSE [parts |-> Append(p.parts, cutoff), upto |-> end, disabled |-> k = 0]
  BY DEF CutOne
<1>4. k # NoLen => /\ o < b - a /\ ~p.disabled /\ k = NextPacketLen(buf, o)
  <2> HIDE DEF buf
  <2> QED BY <1>1, <1>2 DEF NoLen
<1>5. CASE k = NoLen
  <2>1. q = p
    BY <1>3, <1>5
  <2> QED BY <2>1
<1>6. CASE k # NoLen
  <2>1. /\ o < b - a /\ ~p.disabled /\ a + o < b /\ a + o \in PacketEnds /\ k = NextPacketLen(buf, o)
    <3>1. o < b - a /\ ~p.disabled /\ k = NextPacketLen(buf, o)
      BY <1>4, <1>6
    <3>2. a + o < b
      BY <3>1, <1>2
    <3> QED BY <3>1, <3>2, <1>2
  <2>2. k = 0 \/ (k \in Nat \ {0} /\ a + o + k <= b /\ a + o + k \in PacketEnds
                  /\ WholePacket(Stretch(a + o, a + o + k)))
    <3> DEFINE n == NextPacketLen(buf, o)
    <3>1. \/ n = NoLen \/ n = 0
          \/ /\ n \in Nat \ {0} /\ a + o + n <= b /\ a + o + n \in PacketEnds
             /\ WholePacket(Stretch(a + o, a + o + n))
      BY <1>2, <2>1, NextLenIs
    <3>2. k = n
      BY <2>1
    <3> HIDE DEF n, k
    <3> QED BY <3>1, <3>2, <1>6
  <2>3. q = [parts |-> Append(p.parts, cutoff), upto |-> end, disabled |-> k = 0]
    BY <1>3, <1>6
  <2> HIDE DEF k, q
  <2>4. end \in Nat /\ o <= end /\ end <= b - a /\ (k = 0 => end = b - a) /\ (k # 0 => end = o + k)
    BY <1>1, <1>2, <2>1, <2>2
  <2> HIDE DEF end
  <2>5. cutoff = Stretch(a + o, a + end)
    <3>1. a + end <= b
      BY <2>4
    <3>2. Piece(Stretch(a, b), o, end) = Stretch(a + o, a + end)
      BY <3>1, <2>4, <1>2, StretchCut
    <3> QED BY <3>2 DEF Piece
  <2> HIDE DEF cutoff
  <2>6. cutoff \in Seq(Nat) /\ a + o \in Nat /\ a + end \in Nat
    <3>1. a + o \in Nat /\ a + end \in Nat
      BY <2>4, <1>2
    <3> QED BY <3>1, <2>5, StretchIs
  <2>7. /\ Append(p.parts, cutoff) \in Seq(Seq(Nat)) /\ Len(Append(p.parts, cutoff)) = Len(p.parts) + 1
        /\ \A i \in 1 .. Len(p.parts) : Append(p.parts, cutoff)[i] = p.parts[i]
        /\ Append(p.parts, cutoff)[Len(p.parts) + 1] = cutoff /\ Len(p.parts) \in Nat
    BY <1>2, <2>6
  <2>8. FlattenSeq(Append(p.parts, cutoff)) = Stretch(a, a + end)
    <3>1. FlattenSeq(Append(p.parts, cutoff)) = FlattenSeq(p.parts) \o cutoff
      BY <1>2, <2>6, FlattenAppend
    <3>2. a <= a + o /\ a + o <= a + end
      BY <1>2, <2>4
    <3>3. Stretch(a, a + o) \o Stretch(a + o, a + end) = Stretch(a, a + end)
      BY <3>2, <2>6, StretchJoin
    <3> QED BY <3>1, <3>3, <1>2, <2>5
  <2>9. /\ q.parts = Append(p.parts, cutoff) /\ q.upto = end /\ q.disabled = (k = 0)
        /\ q \in CutRec
    <3>1. (k = 0) \in BOOLEAN
      OBVIOUS
    <3> DEFINE d == k = 0
    <3>2. d \in BOOLEAN /\ q = [parts |-> Append(p.parts, cutoff), upto |-> end, disabled |-> d]
      BY <2>3, <3>1
    <3> HIDE DEF d
    <3>3. q.parts = Append(p.parts, cutoff) /\ q.upto = end /\ q.disabled = d /\ q \in CutRec
      BY <3>2, <2>4, <2>7 DEF CutRec
    <3> QED BY <3>3 DEF d
  <2>10. ASSUME k # 0 PROVE a + end \in PacketEnds /\ \A i \in 1 .. Len(q.parts) : WholePacket(q.parts[i])
    <3>1. a + end = a + o + k /\ a + end \in PacketEnds /\ WholePacket(Stretch(a + o, a + end))
      <4>1. a + end = a + o + k
        <5>1. end = o + k /\ k \in Nat
          BY <2>2, <2>4, <2>10
        <5>2. a \in Nat /\ o \in Nat
          BY <1>2
        <5> HIDE DEF o
        <5> QED BY <5>1, <5>2
      <4> QED BY <4>1, <2>2, <2>10
    <3>2. WholePacket(cutoff)
      BY <3>1, <2>5
    <3>3. ASSUME NEW i \in 1 .. Len(q.parts) PROVE WholePacket(q.parts[i])
      <4>1. i \in 1 .. Len(p.parts) \/ i = Len(p.parts) + 1
        BY <2>7, <2>9
      <4>2. i \in 1 .. Len(p.parts) => q.parts[i] = p.parts[i] /\ WholePacket(p.parts[i])
        BY <1>2, <2>1, <2>7, <2>9
      <4>3. i = Len(p.parts) + 1 => q.parts[i] = cutoff
        BY <2>7, <2>9
      <4> QED BY <4>1, <4>2, <4>3, <3>2
    <3> QED BY <3>1, <3>3
  <2>11. CutFits(a, b, q)
    BY <2>4, <2>8, <2>9, <2>10 DEF CutFits
  <2> QED BY <2>11 DEF q
<1> QED BY <1>5, <1>6

LEMMA PacketsFit ==
    ASSUME Opened, NEW a \in Nat, NEW b \in Nat, a <= b, b <= Len(clt.plain), a \in PacketEnds
    PROVE  CutFits(a, b, Packets(Stretch(a, b)))
<1> DEFINE buf == Stretch(a, b)
           n == Len(buf)
           e == [parts |-> <<>>, upto |-> 0, disabled |-> FALSE]
           V == {p \in CutRec : CutFits(a, b, p)}
           F == [x \in (1 .. n) \X V |-> CutOne(buf, x[2])]
           Step(f) == [i \in 0 .. n |-> IF i = 0 THEN e ELSE CutOne(buf, f[i - 1])]
<1>0. n \in Nat /\ n = b - a
  <2>1. Len(buf) = b - a
    BY StretchIs
  <2> QED BY <2>1
<1>1. e \in V
  <2>1. e \in CutRec /\ e.upto = 0 /\ e.parts = <<>> /\ e.disabled = FALSE
    BY DEF CutRec
  <2>2. Stretch(a, a + 0) = <<>>
    BY StretchIs
  <2>3. a + 0 = a /\ 0 <= b - a /\ Len(<<>>) = 0 /\ 1 .. 0 = {}
    OBVIOUS
  <2> HIDE DEF e
  <2>4. CutFits(a, b, e)
    BY <2>1, <2>2, <2>3, FlattenFew DEF CutFits
  <2> QED BY <2>1, <2>4
<1>2. \A p \in V : CutOne(buf, p) \in V
  <2> SUFFICES ASSUME NEW p \in V PROVE CutOne(buf, p) \in V
    OBVIOUS
  <2>1. CutFits(a, b, p)
    OBVIOUS
  <2>2. CutFits(a, b, CutOne(buf, p))
    BY <2>1, CutOneFits
  <2> QED BY <2>2 DEF CutFits
<1> HIDE DEF V, n, e, buf
<1>3. \A k \in 1 .. n, v \in V : F[<<k, v>>] = CutOne(buf, v)
  OBVIOUS
<1> HIDE DEF F
<1>4. Steady(V, n, F)
  BY <1>2, <1>3 DEF Steady
<1>5. PICK f : Rounds(V, e, n, F, f)
  BY <1>0, <1>1, <1>4, LoopStays
<1> DEFINE g == [i \in 0 .. n |-> f[i]]
<1>6. g = Step(g)
  <2>1. ASSUME NEW i \in 0 .. n PROVE g[i] = IF i = 0 THEN e ELSE CutOne(buf, g[i - 1])
    <3>1. CASE i = 0
      <4>1. g[i] = f[i] /\ f[0] = e
        BY <1>5 DEF Rounds
      <4> QED BY <4>1, <3>1
    <3>2. CASE i # 0
      <4>1. i \in 1 .. n /\ i - 1 \in 0 .. n
        BY <1>0, <3>2
      <4>2. f[i] = F[<<i, f[i - 1]>>] /\ f[i - 1] \in V
        BY <4>1, <1>5 DEF Rounds
      <4>3. f[i] = CutOne(buf, f[i - 1])
        BY <4>1, <4>2, <1>3
      <4>4. g[i] = f[i] /\ g[i - 1] = f[i - 1]
        BY <4>1
      <4> HIDE DEF g
      <4> QED BY <4>3, <4>4, <3>2
    <3> QED BY <3>1, <3>2
  <2>2. g = [i \in 0 .. n |-> g[i]]
    OBVIOUS
  <2> HIDE DEF g
  <2> QED BY <2>1, <2>2
<1> DEFINE c == CHOOSE h : h = Step(h)
<1>7. c = Step(c)
  <2> HIDE DEF g
  <2> DEFINE Is(h) == h = Step(h)
  <2>1. Is(g)
    BY <1>6
  <2> HIDE DEF Is
  <2>2. Is(CHOOSE h : Is(h))
    BY <2>1, Zenon
  <2> QED BY <2>2 DEF Is
<1>8. Packets(buf) = c[n]
  BY DEF Packets, e, n
<1> HIDE DEF c, g
<1>9. \A i \in 0 .. n : c[i] = IF i = 0 THEN e ELSE CutOne(buf, c[i - 1])
  <2> SUFFICES ASSUME NEW i \in 0 .. n PROVE c[i] = IF i = 0 THEN e ELSE CutOne(buf, c[i - 1])
    OBVIOUS
  <2>1. c[i] = Step(c)[i]
    BY <1>7
  <2> QED BY <2>1
<1> HIDE DEF Step
<1> DEFINE T == {i \in 0 .. n : c[i] \in V}
<1>10. 0 \in T
  BY <1>0, <1>1, <1>9
<1>11. ASSUME NEW i \in 0 .. (n - 1), i \in T PROVE i + 1 \in T
  <2>1. i + 1 \in 0 .. n /\ i + 1 # 0 /\ (i + 1) - 1 = i /\ c[i] \in V
    BY <1>0, <1>11
  <2>2. c[i + 1] = CutOne(buf, c[i])
    BY <2>1, <1>9
  <2> QED BY <2>1, <2>2, <1>2
<1>12. n \in T
  <2>1. n \in 0 .. n
    BY <1>0
  <2> HIDE DEF T
  <2> QED BY <2>1, <1>0, <1>10, <1>11, FromZeroTo
<1>13. Packets(buf) \in V
  BY <1>8, <1>12
<1> QED BY <1>13 DEF V, buf
-----------------------------------------------------------------------------
(* The invariant of the streams.                                           *)

ClientFits ==
    /\ clt = [pc |-> clt.pc, proto |-> clt.proto, lens |-> clt.lens, sent |-> clt.sent,
              end |-> clt.end, plain |-> clt.plain]
    /\ clt.pc \in {"none", "sends", "gone"} /\ clt.lens \in Seq(Lengths) /\ clt.sent \in Nat
    /\ clt.pc = "none" => clt.sent = 0
    /\ clt.pc # "none" => Opened /\ clt.sent <= Len(clt.plain)

TlsRecords == [kind : {"data", "ccs"}, body : Seq(Nat)]
TlsOK(t) ==
    /\ t = [wire |-> t.wire, left |-> t.left, buf |-> t.buf]
    /\ t.wire \in Seq(TlsRecords) /\ t.buf \in Seq(Nat)
    /\ \A i \in 1 .. Len(t.wire) : t.wire[i].kind = "ccs" => t.wire[i].body = <<>>

(* Without a splitter, or once it has given up, nothing is kept.           *)
CutOK(k) ==
    /\ k = [pc |-> k.pc, on |-> k.on, disabled |-> k.disabled, buf |-> k.buf, frames |-> k.frames]
    /\ k.pc \in {"handshake", "bridge", "ended"} /\ k.on \in BOOLEAN /\ k.disabled \in BOOLEAN
    /\ k.buf \in Seq(Nat) /\ k.frames \in Seq(Seq(Nat))
    /\ ~k.on \/ k.disabled => k.buf = <<>>

(* Where the bytes after the handshake are: sent up, in the splitter, left *)
(* over by readexactly, on the wire.                                       *)
Pieces(up, b, k, w, s) ==
    \E x, y, z \in Nat :
        /\ HandshakeLen <= x /\ x <= y /\ y <= z /\ z <= s
        /\ up = Stretch(HandshakeLen, x) /\ b = Stretch(x, y) /\ k = Stretch(y, z) /\ w = Stretch(z, s)

NotBegun(k, t) == k.frames = <<>> /\ k.buf = <<>> /\ t.buf = <<>>
Waiting(c, t, k) ==
    /\ k.pc = "handshake" /\ NotBegun(k, t) /\ ~k.disabled
    /\ Carried(t.wire) = Stretch(0, c.sent) /\ (c.pc = "none" => t.wire = <<>>)
Bridged(c, t, k) ==
    /\ k.pc \in {"bridge", "ended"} /\ c.pc # "none"
    /\ Pieces(FlattenSeq(k.frames), k.buf, t.buf, Carried(t.wire), c.sent)
NeverSent(c, t, k) ==
    k.pc = "ended" /\ c.pc = "gone" /\ c.sent = 0 /\ NotBegun(k, t) /\ t.wire = <<>>
UpOK(c, t, k) == Waiting(c, t, k) \/ Bridged(c, t, k) \/ NeverSent(c, t, k)

(* Frames end with packets, and what the splitter keeps begins with one.   *)
FramesOK(E, k) ==
    k.on /\ ~k.disabled /\ k.pc # "handshake" =>
        /\ k.pc = "bridge" => HandshakeLen + Len(FlattenSeq(k.frames)) \in E
        /\ \A i \in 1 .. Len(k.frames) :
              \/ WholeIn(E, k.frames[i])
              \/ k.pc = "ended" /\ i = Len(k.frames) /\ k.frames[i][1] - 1 \in E

ServerFrames == [op : {"data", "ping", "close"}, fin : BOOLEAN, body : Seq(Nat)]
DownOK(d) ==
    /\ d = [wire |-> d.wire, sent |-> d.sent, shut |-> d.shut, closed |-> d.closed,
            frag |-> d.frag, got |-> d.got]
    /\ d.wire \in Seq(ServerFrames) /\ d.sent \in Nat /\ d.frag \in Seq(Nat) /\ d.got \in Seq(Nat)
    /\ \A i \in 1 .. Len(d.wire) : d.wire[i].op # "data" => d.wire[i].body = <<>>
    /\ d.got \o d.frag \o Carried(d.wire) = Stretch(0, d.sent)

UpInv == ClientFits /\ TlsOK(tls) /\ CutOK(cut) /\ UpOK(clt, tls, cut) /\ FramesOK(PacketEnds, cut)
StreamsInv == UpInv /\ DownOK(down)

LEMMA RecordsCarry == Carries(TlsRecords) /\ Carries(ServerFrames)
BY DEF Carries, TlsRecords, ServerFrames

LEMMA SameEnds ==
    clt'.lens = clt.lens /\ clt'.proto = clt.proto /\ clt'.plain = clt.plain =>
        PacketEnds' = PacketEnds /\ (Opened' <=> Opened)
BY DEF PacketEnds, Opened, PacketsOf

LEMMA StreamsInitInv == StreamsInit => StreamsInv
<1> SUFFICES ASSUME StreamsInit PROVE StreamsInv
  OBVIOUS
<1>1. Carried(<<>>) = <<>> /\ Stretch(0, 0) = <<>>
  BY StretchIs, CarriedSteps, RecordsCarry
<1>2. clt.pc = "none" /\ clt.sent = 0 /\ clt.lens = <<>> /\ ClientFits
  BY DEF StreamsInit, ClientFits
<1>3. TlsOK(tls) /\ tls.wire = <<>> /\ tls.buf = <<>>
  <2>1. tls = [wire |-> <<>>, left |-> 0, buf |-> <<>>]
    BY DEF StreamsInit
  <2> QED BY <2>1 DEF TlsOK
<1>4. CutOK(cut) /\ cut.pc = "handshake" /\ cut.frames = <<>> /\ cut.buf = <<>> /\ ~cut.disabled
  <2>1. cut = [pc |-> "handshake", on |-> FALSE, disabled |-> FALSE, buf |-> <<>>, frames |-> <<>>]
    BY DEF StreamsInit
  <2> QED BY <2>1 DEF CutOK
<1>5. UpOK(clt, tls, cut) /\ FramesOK(PacketEnds, cut)
  BY <1>1, <1>2, <1>3, <1>4 DEF UpOK, Waiting, NotBegun, FramesOK
<1>6. DownOK(down)
  <2>1. down = [wire |-> <<>>, sent |-> 0, shut |-> FALSE, closed |-> FALSE, frag |-> <<>>, got |-> <<>>]
    BY DEF StreamsInit
  <2>2. <<>> \o <<>> \o <<>> = <<>>
    OBVIOUS
  <2> QED BY <1>1, <2>1, <2>2 DEF DownOK
<1> QED BY <1>2, <1>3, <1>4, <1>5, <1>6 DEF StreamsInv, UpInv

(* What the invariant says to a reader of the streams.                     *)
LEMMA InvIsWhole == StreamsInv => StreamsWhole
<1> SUFFICES ASSUME StreamsInv PROVE UpstreamWhole /\ DownstreamWhole
  BY DEF StreamsWhole
<1>1. DownstreamWhole
  <2>1. Stretch(0, down.sent) = [i \in 1 .. down.sent |-> i]
    <3>1. down.sent \in Nat
      BY DEF StreamsInv, DownOK
    <3> DEFINE n == down.sent
    <3>2. n \in Nat
      BY <3>1
    <3> HIDE DEF n
    <3>3. n - 0 = n /\ \A i \in 1 .. n : 0 + i = i
      BY <3>2
    <3>4. Stretch(0, n) = [i \in 1 .. n |-> i]
      BY <3>3 DEF Stretch
    <3> QED BY <3>4 DEF n
  <2>2. down.got \o down.frag \o Carried(down.wire) = Stretch(0, down.sent)
    BY DEF StreamsInv, DownOK
  <2> QED BY <2>1, <2>2 DEF DownstreamWhole, Carried, Bodies
<1>2. ASSUME cut.pc # "handshake"
      PROVE  FlattenSeq(cut.frames) \o cut.buf \o tls.buf \o Carried(tls.wire) = Stretch(HandshakeLen, clt.sent)
  <2>0. clt.sent \in Nat /\ UpOK(clt, tls, cut) /\ HandshakeLen = 1
    BY DEF StreamsInv, UpInv, ClientFits, HandshakeLen
  <2>1. CASE Bridged(clt, tls, cut)
    <3> DEFINE up == FlattenSeq(cut.frames)
               w == Carried(tls.wire)
               s == clt.sent
    <3>1. PICK x, y, z \in Nat :
              /\ HandshakeLen <= x /\ x <= y /\ y <= z /\ z <= s
              /\ up = Stretch(HandshakeLen, x) /\ cut.buf = Stretch(x, y)
              /\ tls.buf = Stretch(y, z) /\ w = Stretch(z, s)
      BY <2>1 DEF Bridged, Pieces
    <3> HIDE DEF up, w, s
    <3>2. s \in Nat /\ HandshakeLen \in Nat /\ HandshakeLen <= y /\ HandshakeLen <= z
      BY <2>0, <3>1 DEF s
    <3>6. /\ Stretch(HandshakeLen, x) \o Stretch(x, y) = Stretch(HandshakeLen, y)
          /\ Stretch(HandshakeLen, y) \o Stretch(y, z) = Stretch(HandshakeLen, z)
          /\ Stretch(HandshakeLen, z) \o Stretch(z, s) = Stretch(HandshakeLen, s)
      <4> DEFINE h == HandshakeLen
      <4>1. h \in Nat /\ h <= x /\ x <= y /\ h <= y /\ y <= z /\ h <= z /\ z <= s /\ s \in Nat
        BY <3>1, <3>2
      <4> HIDE DEF h
      <4>2. Stretch(h, x) \o Stretch(x, y) = Stretch(h, y)
        BY <4>1, StretchJoin
      <4>3. Stretch(h, y) \o Stretch(y, z) = Stretch(h, z)
        BY <4>1, StretchJoin
      <4>4. Stretch(h, z) \o Stretch(z, s) = Stretch(h, s)
        BY <4>1, StretchJoin
      <4> QED BY <4>2, <4>3, <4>4 DEF h
    <3>3. up \o cut.buf = Stretch(HandshakeLen, y)
      BY <3>1, <3>6
    <3>4. up \o cut.buf \o tls.buf = Stretch(HandshakeLen, z)
      BY <3>1, <3>3, <3>6
    <3>5. up \o cut.buf \o tls.buf \o w = Stretch(HandshakeLen, s)
      BY <3>1, <3>4, <3>6
    <3> QED BY <3>5 DEF up, w, s
  <2>2. CASE NeverSent(clt, tls, cut)
    <3>1. cut.frames = <<>> /\ cut.buf = <<>> /\ tls.buf = <<>> /\ tls.wire = <<>> /\ clt.sent = 0
      BY <2>2 DEF NeverSent, NotBegun
    <3>2. FlattenSeq(<<>>) = <<>> /\ Carried(<<>>) = <<>> /\ Stretch(1, 0) = <<>>
      BY FlattenFew, CarriedSteps, RecordsCarry, StretchIs
    <3>3. <<>> \o <<>> \o <<>> \o <<>> = <<>>
      OBVIOUS
    <3> QED BY <2>0, <3>1, <3>2, <3>3
  <2> QED BY <1>2, <2>0, <2>1, <2>2 DEF UpOK, Waiting
<1>3. ASSUME cut.pc # "handshake", cut.on /\ ~cut.disabled, NEW i \in DOMAIN cut.frames
      PROVE  LET f == cut.frames[i] IN
             \/ f[1] - 1 \in PacketEnds /\ \A p \in PacketEnds : p \in f[1] .. f[Len(f)] <=> p = f[Len(f)]
             \/ cut.pc = "ended" /\ i = Len(cut.frames) /\ f[1] - 1 \in PacketEnds
  <2>1. i \in 1 .. Len(cut.frames)
    BY DEF StreamsInv, UpInv, CutOK
  <2>2. FramesOK(PacketEnds, cut)
    BY DEF StreamsInv, UpInv
  <2> QED BY <1>3, <2>1, <2>2 DEF FramesOK, WholeIn
<1>4. UpstreamWhole
  BY <1>2, <1>3 DEF UpstreamWhole, Carried, Bodies, Stretch
<1> QED BY <1>1, <1>4
-----------------------------------------------------------------------------
(* The splitter gets the next bytes: what goes up and what it keeps.       *)
LEMMA SplitFits ==
    ASSUME Opened, CutOK(cut), FramesOK(PacketEnds, cut), cut.pc = "bridge",
           NEW x \in Nat, NEW y \in Nat, NEW z \in Nat, HandshakeLen <= x, x <= y, y <= z, z <= Len(clt.plain),
           FlattenSeq(cut.frames) = Stretch(HandshakeLen, x), cut.buf = Stretch(x, y)
    PROVE  LET k == Split(Stretch(y, z)) IN
           /\ CutOK(k) /\ FramesOK(PacketEnds, k) /\ k.pc = "bridge"
           /\ \E m \in Nat : /\ x <= m /\ m <= z /\ k.buf = Stretch(m, z)
                             /\ FlattenSeq(k.frames) = Stretch(HandshakeLen, m)
<1> DEFINE chunk == Stretch(y, z)
           buf == cut.buf \o chunk
           p == Packets(buf)
           k == Split(chunk)
           h == HandshakeLen
           fs == cut.frames
<1>0. /\ cut = [pc |-> cut.pc, on |-> cut.on, disabled |-> cut.disabled, buf |-> cut.buf, frames |-> fs]
      /\ cut.on \in BOOLEAN /\ cut.disabled \in BOOLEAN
      /\ fs \in Seq(Seq(Nat)) /\ cut.buf \in Seq(Nat) /\ (~cut.on \/ cut.disabled => cut.buf = <<>>)
  BY DEF CutOK
<1>1. h \in Nat /\ h <= y
  BY DEF HandshakeLen
<1>2. chunk \in Seq(Nat)
  BY StretchIs
<1>3. FlattenSeq(fs) = Stretch(h, x) /\ cut.buf = Stretch(x, y) /\ h <= x
  OBVIOUS
<1>4. buf = Stretch(x, z) /\ x <= z
  <2>1. Stretch(x, y) \o Stretch(y, z) = Stretch(x, z)
    BY StretchJoin
  <2>2. x <= z
    OBVIOUS
  <2> QED BY <2>1, <2>2, <1>3
<1>5. CASE ~cut.on \/ cut.disabled
  <2>1. k = [cut EXCEPT !.frames = Append(@, chunk)]
    BY <1>5 DEF Split
  <2> HIDE DEF k, chunk, h
  <2>2. /\ k = [pc |-> k.pc, on |-> k.on, disabled |-> k.disabled, buf |-> k.buf, frames |-> k.frames]
        /\ k.pc = cut.pc /\ k.on = cut.on /\ k.disabled = cut.disabled /\ k.buf = cut.buf
        /\ k.frames = Append(fs, chunk)
    BY <2>1, <1>0
  <2>3. Append(fs, chunk) \in Seq(Seq(Nat))
    BY <1>0, <1>2
  <2>4. CutOK(k)
    BY <2>2, <2>3, <1>0 DEF CutOK
  <2>5. FramesOK(PacketEnds, k) /\ k.pc = "bridge"
    BY <2>2, <1>5 DEF FramesOK
  <2>6. cut.buf = <<>> /\ x = y
    <3>1. cut.buf = <<>>
      BY <1>0, <1>5
    <3>2. Len(Stretch(x, y)) = y - x
      BY StretchIs
    <3>3. Len(Stretch(x, y)) = 0
      BY <3>1, <1>3
    <3> QED BY <3>1, <3>2, <3>3
  <2>7. k.buf = Stretch(z, z)
    <3>1. Stretch(z, z) = <<>>
      <4>1. z \in Nat /\ z <= z
        OBVIOUS
      <4> QED BY <4>1, StretchIs
    <3> QED BY <3>1, <2>2, <2>6
  <2>8. FlattenSeq(k.frames) = Stretch(h, z)
    <3>1. FlattenSeq(Append(fs, chunk)) = FlattenSeq(fs) \o chunk
      BY <1>0, <1>2, FlattenAppend
    <3>2. Stretch(h, y) \o Stretch(y, z) = Stretch(h, z)
      BY <1>1, StretchJoin
    <3> QED BY <3>1, <3>2, <2>2, <2>6, <1>3 DEF chunk
  <2> QED BY <2>4, <2>5, <2>7, <2>8, <1>4 DEF k, h, chunk
<1>6. CASE ~(~cut.on \/ cut.disabled)
  <2> DEFINE n == Len(buf)
             rest == SubSeq(buf, p.upto + 1, n)
             m == x + p.upto
  <2>1. k = [cut EXCEPT !.frames = @ \o p.parts, !.disabled = p.disabled, !.buf = rest]
    BY <1>6 DEF Split
  <2>2. x \in PacketEnds
    <3>1. h + Len(FlattenSeq(fs)) \in PacketEnds
      BY <1>6 DEF FramesOK
    <3>2. Len(Stretch(h, x)) = x - h
      BY <1>1, <1>3, StretchIs
    <3>3. h + (x - h) = x
      BY <1>1
    <3> HIDE DEF h, fs
    <3> QED BY <3>1, <3>2, <3>3, <1>3
  <2>3. CutFits(x, z, p)
    BY <1>4, <2>2, PacketsFit
  <2> HIDE DEF k, chunk, h, fs, p, buf
  <2>4. /\ p.parts \in Seq(Seq(Nat)) /\ p.upto \in Nat /\ p.disabled \in BOOLEAN /\ p.upto <= z - x
        /\ FlattenSeq(p.parts) = Stretch(x, m) /\ (p.disabled => p.upto = z - x)
        /\ ~p.disabled => /\ m \in PacketEnds
                          /\ \A i \in 1 .. Len(p.parts) : WholeIn(PacketEnds, p.parts[i])
    BY <2>3 DEF CutFits, CutRec, WholePacket
  <2>5. m \in Nat /\ x <= m /\ m <= z /\ (p.disabled => m = z) /\ h <= m
    BY <2>4, <1>1, <1>3
  <2>6. rest = Stretch(m, z)
    <3>1. n = z - x /\ z - x \in Nat /\ x + (z - x) = z
      <4>1. Len(Stretch(x, z)) = z - x
        BY <1>4, StretchIs
      <4> QED BY <4>1, <1>4
    <3>2. SubSeq(Stretch(x, z), p.upto + 1, z - x) = Stretch(x + p.upto, x + (z - x))
      <4> DEFINE u == p.upto
                 w == z - x
      <4>1. u \in Nat /\ w \in Nat /\ u <= w /\ x + w <= z
        BY <2>4, <3>1
      <4> HIDE DEF u, w
      <4>2. Piece(Stretch(x, z), u, w) = Stretch(x + u, x + w)
        BY <4>1, StretchCut
      <4> QED BY <4>2 DEF u, w, Piece
    <3> QED BY <3>1, <3>2, <1>4
  <2>7. rest \in Seq(Nat) /\ (p.disabled => rest = <<>>)
    BY <2>5, <2>6, StretchIs
  <2>8. /\ k = [pc |-> k.pc, on |-> k.on, disabled |-> k.disabled, buf |-> k.buf, frames |-> k.frames]
        /\ k.pc = cut.pc /\ k.on = cut.on /\ k.disabled = p.disabled /\ k.buf = rest /\ k.frames = fs \o p.parts
    <3> DEFINE ff == fs \o p.parts
               dd == p.disabled
    <3>1. k = [cut EXCEPT !.frames = ff, !.disabled = dd, !.buf = rest]
      BY <2>1 DEF fs
    <3> HIDE DEF ff, dd, rest, m, n
    <3> QED BY <3>1, <1>0 DEF ff, dd
  <2> HIDE DEF rest, n
  <2>9. /\ fs \o p.parts \in Seq(Seq(Nat)) /\ Len(fs \o p.parts) = Len(fs) + Len(p.parts)
        /\ Len(fs) \in Nat /\ Len(p.parts) \in Nat
        /\ \A i \in 1 .. Len(fs) : (fs \o p.parts)[i] = fs[i]
        /\ \A i \in 1 .. Len(p.parts) : (fs \o p.parts)[Len(fs) + i] = p.parts[i]
    <3> DEFINE pp == p.parts
               S == Seq(Nat)
    <3>1. fs \in Seq(S) /\ pp \in Seq(S)
      BY <1>0, <2>4
    <3> HIDE DEF pp, S
    <3>2. /\ fs \o pp \in Seq(S) /\ Len(fs \o pp) = Len(fs) + Len(pp) /\ Len(fs) \in Nat /\ Len(pp) \in Nat
          /\ \A i \in 1 .. Len(fs) : (fs \o pp)[i] = fs[i]
          /\ \A i \in 1 .. Len(pp) : (fs \o pp)[Len(fs) + i] = pp[i]
      BY <3>1, ConcatAt
    <3> QED BY <3>2 DEF pp, S
  <2>10. CutOK(k)
    BY <2>4, <2>7, <2>8, <2>9, <1>0, <1>6 DEF CutOK
  <2>11. FlattenSeq(k.frames) = Stretch(h, m)
    <3>1. FlattenSeq(fs \o p.parts) = FlattenSeq(fs) \o FlattenSeq(p.parts)
      BY <1>0, <2>4, FlattenConcat
    <3>2. Stretch(h, x) \o Stretch(x, m) = Stretch(h, m)
      <4> HIDE DEF m
      <4> QED BY <2>5, <1>1, <1>3, StretchJoin
    <3> QED BY <3>1, <3>2, <2>4, <2>8, <1>3
  <2>12. ASSUME ~p.disabled
         PROVE  /\ h + Len(FlattenSeq(k.frames)) \in PacketEnds
                /\ \A i \in 1 .. Len(k.frames) : WholeIn(PacketEnds, k.frames[i])
    <3>1. h + Len(Stretch(h, m)) = m
      <4> HIDE DEF m
      <4>1. Len(Stretch(h, m)) = m - h
        BY <2>5, <1>1, StretchIs
      <4> QED BY <4>1, <2>5, <1>1
    <3>2. \A i \in 1 .. Len(fs) : WholeIn(PacketEnds, fs[i])
      BY <1>6 DEF FramesOK, fs
    <3>3. ASSUME NEW i \in 1 .. Len(k.frames) PROVE WholeIn(PacketEnds, k.frames[i])
      <4>1. CASE i <= Len(fs)
        <5>1. i \in 1 .. Len(fs)
          BY <4>1, <2>9, <2>8
        <5> QED BY <5>1, <3>2, <2>8, <2>9
      <4>2. CASE ~(i <= Len(fs))
        <5>1. i - Len(fs) \in 1 .. Len(p.parts) /\ Len(fs) + (i - Len(fs)) = i
          BY <4>2, <2>9, <2>8
        <5>2. (fs \o p.parts)[i] = p.parts[i - Len(fs)]
          BY <5>1, <2>9
        <5> QED BY <5>1, <5>2, <2>4, <2>8, <2>12
      <4> QED BY <4>1, <4>2
    <3> QED BY <3>1, <3>3, <2>4, <2>11, <2>12
  <2>13. FramesOK(PacketEnds, k) /\ k.pc = "bridge"
    BY <2>8, <2>12 DEF FramesOK, h
  <2>14. \E j \in Nat : /\ x <= j /\ j <= z /\ k.buf = Stretch(j, z)
                        /\ FlattenSeq(k.frames) = Stretch(h, j)
    BY <2>5, <2>6, <2>8, <2>11
  <2> QED BY <2>10, <2>13, <2>14 DEF k, h, chunk
<1> QED BY <1>5, <1>6
-----------------------------------------------------------------------------
(* Actions.  Those of the client and of its wire leave the splitter alone. *)

LEMMA OpenStreamInv ==
    ASSUME UpInv, NEW proto \in Protos, NEW lens \in SeqOf(Lengths, MaxPackets), NEW on \in BOOLEAN,
           OpenStream(proto, lens, on)
    PROVE  UpInv'
<1>0. /\ clt.pc = "none"
      /\ clt' = [pc |-> "sends", proto |-> proto, lens |-> lens, sent |-> 0, end |-> "empty",
                 plain |-> <<0>> \o FlattenSeq([i \in DOMAIN lens |-> Packet(proto, lens[i])])]
      /\ cut' = [cut EXCEPT !.on = on] /\ tls' = tls
  BY DEF OpenStream
<1>1. Waiting(clt, tls, cut) /\ clt.sent = 0 /\ tls.wire = <<>>
  BY <1>0 DEF UpInv, ClientFits, UpOK, Waiting, Bridged, NeverSent
<1>2. lens \in Seq(Lengths)
  <2>1. PICK m \in 0 .. MaxPackets : lens \in [1 .. m -> Lengths]
    BY DEF SeqOf
  <2>2. m \in Nat
    BY BytesAssumption
  <2> QED BY <2>1, <2>2
<1>3. ClientFits'
  <2> DEFINE pk == [i \in 1 .. Len(lens) |-> Packet(proto, lens[i])]
             all == FlattenSeq(pk)
  <2>1. DOMAIN lens = 1 .. Len(lens) /\ Len(lens) \in Nat /\ \A i \in 1 .. Len(lens) : lens[i] \in Nat
    <3>1. Lengths \subseteq Nat
      BY BytesAssumption
    <3>2. \A i \in 1 .. Len(lens) : lens[i] \in Lengths
      BY <1>2, ElementOfSeq
    <3>3. DOMAIN lens = 1 .. Len(lens) /\ Len(lens) \in Nat
      BY <1>2, LenProperties
    <3> QED BY <3>1, <3>2, <3>3
  <2>2. \A i \in 1 .. Len(lens) : Packet(proto, lens[i]) \in Seq(Nat)
    BY <2>1, PacketIs
  <2>3. pk \in Seq(Seq(Nat))
    BY <2>1, <2>2
  <2> HIDE DEF pk
  <2>4. all \in Seq(Nat)
    BY <2>3, FlattenType
  <2> HIDE DEF all
  <2>5. <<0>> \o all \in Seq(Nat)
    <3> DEFINE z == <<0>>
    <3>1. z \in Seq(Nat)
      OBVIOUS
    <3> HIDE DEF z
    <3>2. z \o all \in Seq(Nat)
      BY <3>1, <2>4
    <3> QED BY <3>2 DEF z
  <2>6. clt' = [pc |-> "sends", proto |-> proto, lens |-> lens, sent |-> 0, end |-> "empty", plain |-> <<0>> \o all]
    BY <1>0, <2>1 DEF all, pk
  <2>7. clt'.proto = proto /\ clt'.lens = lens /\ clt'.plain = <<0>> \o all /\ clt'.sent = 0 /\ clt'.pc = "sends"
    BY <2>6
  <2>8. Opened'
    BY <2>7, <1>2 DEF Opened, PacketsOf, all, pk
  <2>9. Len(clt'.plain) \in Nat
    BY <2>5, <2>7
  <2>10. clt' = [pc |-> clt'.pc, proto |-> clt'.proto, lens |-> clt'.lens, sent |-> clt'.sent,
                 end |-> clt'.end, plain |-> clt'.plain]
    BY <2>6
  <2> QED BY <2>7, <2>8, <2>9, <2>10, <1>2 DEF ClientFits
<1>4. clt'.sent = 0 /\ clt'.pc = "sends"
  BY <1>0
<1>5. /\ cut' = [pc |-> cut'.pc, on |-> cut'.on, disabled |-> cut'.disabled, buf |-> cut'.buf, frames |-> cut'.frames]
      /\ cut'.pc = "handshake" /\ cut'.on = on /\ cut'.disabled = FALSE
      /\ cut'.buf = <<>> /\ cut'.frames = <<>>
  BY <1>0, <1>1 DEF UpInv, CutOK, Waiting, NotBegun
<1>6. CutOK(cut') /\ TlsOK(tls')
  BY <1>5, <1>0 DEF UpInv, CutOK
<1>7. UpOK(clt', tls', cut')
  BY <1>0, <1>1, <1>4, <1>5 DEF UpOK, Waiting, NotBegun
<1>8. FramesOK(PacketEnds', cut')
  BY <1>5 DEF FramesOK
<1> QED BY <1>3, <1>6, <1>7, <1>8 DEF UpInv

(* What is on the wire grows, and only bytes the client has sent by then.  *)
LEMMA WireGrows ==
    ASSUME UpInv, NEW r \in TlsRecords, r.kind = "ccs" => r.body = <<>>, NEW n \in Nat,
           clt.pc = "sends", clt.sent + n <= Len(clt.plain),
           r.body = Stretch(clt.sent, clt.sent + n),
           clt' = [clt EXCEPT !.sent = @ + n],
           tls' = [tls EXCEPT !.wire = Append(@, r)], cut' = cut
    PROVE  UpInv'
<1> DEFINE w == tls.wire
           s == clt.sent
           t == s + n
<1>0. /\ clt = [pc |-> clt.pc, proto |-> clt.proto, lens |-> clt.lens, sent |-> clt.sent,
                end |-> clt.end, plain |-> clt.plain]
      /\ s \in Nat /\ t \in Nat /\ s <= t /\ clt.lens \in Seq(Lengths) /\ Opened
  BY DEF UpInv, ClientFits
<1>1. clt' = [pc |-> "sends", proto |-> clt.proto, lens |-> clt.lens, sent |-> t,
              end |-> clt.end, plain |-> clt.plain]
  BY <1>0
<1>2. /\ clt'.pc = "sends" /\ clt'.proto = clt.proto /\ clt'.lens = clt.lens /\ clt'.sent = t
      /\ clt'.plain = clt.plain /\ clt'.end = clt.end
  BY <1>1
<1>3. PacketEnds' = PacketEnds /\ Opened'
  BY <1>0, <1>2, SameEnds
<1>4. ClientFits'
  BY <1>0, <1>1, <1>2, <1>3 DEF ClientFits
<1>5. /\ tls = [wire |-> w, left |-> tls.left, buf |-> tls.buf] /\ w \in Seq(TlsRecords) /\ tls.buf \in Seq(Nat)
      /\ \A i \in 1 .. Len(w) : w[i].kind = "ccs" => w[i].body = <<>>
  BY DEF UpInv, TlsOK
<1>6. /\ tls' = [wire |-> tls'.wire, left |-> tls'.left, buf |-> tls'.buf]
      /\ tls'.wire = Append(w, r) /\ tls'.buf = tls.buf
  BY <1>5
<1> HIDE DEF w
<1>7. /\ Append(w, r) \in Seq(TlsRecords) /\ Len(Append(w, r)) = Len(w) + 1 /\ Len(w) \in Nat
      /\ \A i \in 1 .. Len(w) : Append(w, r)[i] = w[i]
      /\ Append(w, r)[Len(w) + 1] = r
  BY <1>5, AppendProperties
<1>8. TlsOK(tls')
  <2>1. ASSUME NEW i \in 1 .. Len(Append(w, r)), Append(w, r)[i].kind = "ccs" PROVE Append(w, r)[i].body = <<>>
    <3>1. i \in 1 .. Len(w) \/ i = Len(w) + 1
      BY <1>7
    <3> QED BY <3>1, <2>1, <1>5, <1>7
  <2> QED BY <2>1, <1>5, <1>6, <1>7 DEF TlsOK
<1>9. Carried(Append(w, r)) = Carried(w) \o Stretch(s, t)
  <2>1. Carried(Append(w, r)) = Carried(w) \o r.body
    BY <1>5, RecordsCarry, CarriedSteps
  <2> QED BY <2>1
<1>10. \A z \in Nat : z <= s /\ Carried(w) = Stretch(z, s) => Carried(tls'.wire) = Stretch(z, t)
  <2> HIDE DEF s, t
  <2>1. \A z \in Nat : z <= s => Stretch(z, s) \o Stretch(s, t) = Stretch(z, t)
    BY <1>0, StretchJoin
  <2> QED BY <2>1, <1>6, <1>9
<1>11. CutOK(cut') /\ FramesOK(PacketEnds', cut')
  BY <1>3 DEF UpInv
<1>12. CASE Waiting(clt, tls, cut)
  <2>1. Carried(w) = Stretch(0, s)
    BY <1>12 DEF Waiting, w
  <2>2. Carried(tls'.wire) = Stretch(0, t)
    BY <2>1, <1>0, <1>10
  <2>3. Waiting(clt', tls', cut')
    BY <2>2, <1>2, <1>6, <1>12 DEF Waiting, NotBegun
  <2> QED BY <2>3, <1>4, <1>8, <1>11 DEF UpInv, UpOK
<1>13. CASE Bridged(clt, tls, cut)
  <2> DEFINE up == FlattenSeq(cut.frames)
  <2>1. PICK x, y, z \in Nat :
            /\ HandshakeLen <= x /\ x <= y /\ y <= z /\ z <= s
            /\ up = Stretch(HandshakeLen, x) /\ cut.buf = Stretch(x, y)
            /\ tls.buf = Stretch(y, z) /\ Carried(w) = Stretch(z, s)
    BY <1>13 DEF Bridged, Pieces, w
  <2> HIDE DEF up
  <2>2. Carried(tls'.wire) = Stretch(z, t) /\ z <= t
    BY <2>1, <1>0, <1>10
  <2>3. Pieces(up, cut.buf, tls.buf, Carried(tls'.wire), t)
    BY <2>1, <2>2 DEF Pieces
  <2>4. Bridged(clt', tls', cut')
    BY <2>3, <1>2, <1>6, <1>13 DEF Bridged, up
  <2> QED BY <2>4, <1>4, <1>8, <1>11 DEF UpInv, UpOK
<1> QED BY <1>12, <1>13 DEF UpInv, UpOK, NeverSent

LEMMA SendRecordInv == ASSUME UpInv, NEW n \in 1 .. MaxRecord, SendRecord(n) PROVE UpInv'
<1> DEFINE s == clt.sent
           b == [i \in 1 .. n |-> s + i]
           r == [kind |-> "data", body |-> b]
<1>1. n \in Nat /\ s \in Nat
  BY BytesAssumption DEF UpInv, ClientFits
<1>2. /\ clt.pc = "sends" /\ s + n <= Len(clt.plain) /\ clt' = [clt EXCEPT !.sent = @ + n]
      /\ tls' = [tls EXCEPT !.wire = Append(@, r)] /\ cut' = cut
  BY DEF SendRecord
<1>3. b = Stretch(s, s + n) /\ b \in Seq(Nat)
  <2> HIDE DEF s
  <2>1. (s + n) - s = n /\ s + n \in Nat
    BY <1>1
  <2>2. b = Stretch(s, s + n)
    BY <2>1 DEF Stretch
  <2> HIDE DEF b
  <2> QED BY <1>1, <2>1, <2>2, StretchIs
<1> HIDE DEF b
<1>4. r \in TlsRecords /\ r.kind # "ccs" /\ r.body = Stretch(s, s + n)
  BY <1>3 DEF TlsRecords
<1> HIDE DEF r
<1> QED BY <1>1, <1>2, <1>4, WireGrows

LEMMA SendCcsInv == ASSUME UpInv, SendCcs PROVE UpInv'
<1> DEFINE r == [kind |-> "ccs", body |-> <<>>]
<1>0. clt.pc = "sends" /\ tls' = [tls EXCEPT !.wire = Append(@, r)] /\ cut' = cut /\ clt' = clt
  BY DEF SendCcs
<1>1. /\ clt = [pc |-> clt.pc, proto |-> clt.proto, lens |-> clt.lens, sent |-> clt.sent,
                end |-> clt.end, plain |-> clt.plain]
      /\ clt.sent \in Nat /\ Opened /\ clt.sent <= Len(clt.plain)
  BY <1>0 DEF UpInv, ClientFits
<1>2. clt.sent + 0 = clt.sent
  BY <1>1
<1>3. clt' = [clt EXCEPT !.sent = @ + 0] /\ clt.sent + 0 <= Len(clt.plain)
  BY <1>0, <1>1, <1>2
<1>4. r \in TlsRecords /\ r.body = <<>> /\ r.body = Stretch(clt.sent, clt.sent + 0)
  <2>1. Stretch(clt.sent, clt.sent) = <<>>
    BY <1>1, StretchIs
  <2> QED BY <2>1, <1>2 DEF TlsRecords
<1> HIDE DEF r
<1> QED BY <1>0, <1>3, <1>4, WireGrows

LEMMA HangUpInv == ASSUME UpInv, NEW end, HangUp(end) PROVE UpInv'
<1>0. clt.pc = "sends" /\ clt' = [clt EXCEPT !.pc = "gone", !.end = end] /\ tls' = tls /\ cut' = cut
  BY DEF HangUp
<1>1. /\ clt = [pc |-> clt.pc, proto |-> clt.proto, lens |-> clt.lens, sent |-> clt.sent,
                end |-> clt.end, plain |-> clt.plain]
      /\ clt.sent \in Nat /\ clt.lens \in Seq(Lengths) /\ Opened /\ clt.sent <= Len(clt.plain)
  BY <1>0 DEF UpInv, ClientFits
<1>2. clt' = [pc |-> "gone", proto |-> clt.proto, lens |-> clt.lens, sent |-> clt.sent,
              end |-> end, plain |-> clt.plain]
  BY <1>0, <1>1
<1>3. /\ clt'.pc = "gone" /\ clt'.proto = clt.proto /\ clt'.lens = clt.lens /\ clt'.sent = clt.sent
      /\ clt'.plain = clt.plain /\ clt'.end = end
  BY <1>2
<1>4. PacketEnds' = PacketEnds /\ Opened'
  BY <1>1, <1>3, SameEnds
<1>5. ClientFits'
  BY <1>1, <1>2, <1>3, <1>4 DEF ClientFits
<1>6. UpOK(clt', tls', cut')
  BY <1>0, <1>3 DEF UpInv, UpOK, Waiting, Bridged, NeverSent
<1> QED BY <1>0, <1>4, <1>5, <1>6 DEF UpInv

LEMMA SkipCcsInv == ASSUME UpInv, SkipCcs PROVE UpInv'
<1> DEFINE w == tls.wire
<1>0. w # <<>> /\ w[1].kind = "ccs" /\ tls' = [tls EXCEPT !.wire = Tail(@)] /\ clt' = clt /\ cut' = cut
  BY DEF SkipCcs
<1>1. /\ tls = [wire |-> w, left |-> tls.left, buf |-> tls.buf] /\ w \in Seq(TlsRecords) /\ tls.buf \in Seq(Nat)
      /\ \A i \in 1 .. Len(w) : w[i].kind = "ccs" => w[i].body = <<>>
  BY DEF UpInv, TlsOK
<1>2. /\ tls' = [wire |-> tls'.wire, left |-> tls'.left, buf |-> tls'.buf]
      /\ tls'.wire = Tail(w) /\ tls'.buf = tls.buf
  BY <1>0, <1>1
<1> HIDE DEF w
<1>3. /\ Tail(w) \in Seq(TlsRecords) /\ Len(Tail(w)) = Len(w) - 1 /\ Len(w) \in Nat \ {0}
      /\ \A i \in 1 .. Len(Tail(w)) : Tail(w)[i] = w[i + 1]
  BY <1>0, <1>1, HeadTailProperties, EmptySeq
<1>4. TlsOK(tls')
  <2>1. ASSUME NEW i \in 1 .. Len(Tail(w)), Tail(w)[i].kind = "ccs" PROVE Tail(w)[i].body = <<>>
    <3>1. i + 1 \in 1 .. Len(w) /\ Tail(w)[i] = w[i + 1]
      BY <1>3
    <3> QED BY <3>1, <2>1, <1>1
  <2> QED BY <2>1, <1>1, <1>2, <1>3 DEF TlsOK
<1>5. Carried(tls'.wire) = Carried(w)
  <2>1. w[1].body = <<>>
    <3>1. 1 \in 1 .. Len(w)
      BY <1>3
    <3> QED BY <3>1, <1>0, <1>1
  <2>2. Carried(w) = w[1].body \o Carried(Tail(w))
    BY <1>0, <1>1, RecordsCarry, CarriedSteps
  <2>3. Carried(Tail(w)) \in Seq(Nat)
    BY <1>3, RecordsCarry, BodiesType
  <2> HIDE DEF Carried
  <2>4. <<>> \o Carried(Tail(w)) = Carried(Tail(w))
    BY <2>3, ConcatEmptySeq
  <2> QED BY <2>1, <2>2, <2>4, <1>2
<1>6. UpOK(clt', tls', cut')
  BY <1>0, <1>2, <1>5 DEF UpInv, UpOK, Waiting, Bridged, NeverSent, NotBegun, w
<1>7. ClientFits' /\ CutOK(cut') /\ FramesOK(PacketEnds', cut')
  <2>1. PacketEnds' = PacketEnds /\ (Opened' <=> Opened)
    BY <1>0, SameEnds
  <2> QED BY <2>1, <1>0 DEF UpInv, ClientFits
<1> QED BY <1>4, <1>6, <1>7 DEF UpInv

(* _read_tls_payload: the first n bytes of the first record are off the    *)
(* wire, the rest stays.                                                   *)
LEMMA PayloadTaken ==
    ASSUME TlsOK(tls), NEW n \in Nat, n # 0, Payload(n)
    PROVE  /\ tls.wire # <<>> /\ n <= Len(tls.wire[1].body)
           /\ LET t == AfterPayload(n)
                  chunk == SubSeq(tls.wire[1].body, 1, n)
              IN  /\ TlsOK(t) /\ t.buf = tls.buf /\ chunk \in Seq(Nat) /\ Len(chunk) = n
                  /\ Carried(t.wire) \in Seq(Nat)
                  /\ Carried(tls.wire) = chunk \o Carried(t.wire)
<1> DEFINE w == tls.wire
           t == AfterPayload(n)
           b == w[1].body
           rest == SubSeq(b, n + 1, Len(b))
           chunk == SubSeq(b, 1, n)
           r == [kind |-> "data", body |-> rest]
           v == IF n = Len(b) THEN Tail(w) ELSE <<r>> \o Tail(w)
<1>0. w # <<>> /\ w[1].kind = "data" /\ n \in 1 .. Len(b)
  BY DEF Payload
<1>1. /\ tls = [wire |-> w, left |-> tls.left, buf |-> tls.buf] /\ w \in Seq(TlsRecords) /\ tls.buf \in Seq(Nat)
      /\ \A i \in 1 .. Len(w) : w[i].kind = "ccs" => w[i].body = <<>>
  BY DEF TlsOK
<1>2. t = [tls EXCEPT !.left = Len(b) - n, !.wire = IF n = Len(b) THEN Tail(@) ELSE <<r>> \o Tail(@)]
  BY DEF AfterPayload
<1>3. /\ t = [wire |-> t.wire, left |-> t.left, buf |-> t.buf] /\ t.wire = v /\ t.buf = tls.buf
  BY <1>1, <1>2
<1> HIDE DEF t, v
<1>4. /\ Tail(w) \in Seq(TlsRecords) /\ Len(Tail(w)) = Len(w) - 1 /\ Len(w) \in Nat \ {0}
      /\ (\A i \in 1 .. Len(Tail(w)) : Tail(w)[i] = w[i + 1]) /\ w[1] \in TlsRecords
  <2> HIDE DEF w
  <2>1. Len(w) \in Nat \ {0}
    BY <1>0, <1>1, EmptySeq
  <2>2. 1 \in 1 .. Len(w)
    BY <2>1
  <2>3. w[1] \in TlsRecords
    BY <2>2, <1>1, ElementOfSeq
  <2> QED BY <2>1, <2>3, <1>0, <1>1, HeadTailProperties
<1>5. b \in Seq(Nat) /\ Len(b) \in Nat
  <2>1. w[1].body \in Seq(Nat)
    BY <1>4 DEF TlsRecords
  <2> QED BY <2>1
<1> HIDE DEF b, w
<1>6. /\ chunk \in Seq(Nat) /\ Len(chunk) = n /\ rest \in Seq(Nat) /\ b = chunk \o rest
      /\ n = Len(b) => b = chunk
  <2>0. \A i \in 1 .. Len(b) : b[i] \in Nat
    BY <1>5, ElementOfSeq
  <2>1. chunk \in Seq(Nat) /\ Len(chunk) = n
    <3>1. \A i \in 1 .. n : b[i] \in Nat
      BY <2>0, <1>0, <1>5
    <3>2. /\ chunk \in Seq(Nat) /\ Len(chunk) = IF 1 <= n THEN n - 1 + 1 ELSE 0
      BY <3>1, SubSeqProperties
    <3> QED BY <3>2, <1>0
  <2>2. rest \in Seq(Nat)
    <3>1. \A i \in n + 1 .. Len(b) : b[i] \in Nat
      BY <2>0
    <3>2. n + 1 \in Int /\ Len(b) \in Int
      BY <1>5
    <3> QED BY <3>1, <3>2, SubSeqProperties
  <2>3. SubSeq(b, 1, n) \o SubSeq(b, n + 1, Len(b)) = SubSeq(b, 1, Len(b))
    <3>1. 1 \in 1 .. Len(b) + 1 /\ n \in 1 - 1 .. Len(b) /\ Len(b) \in n .. Len(b)
      BY <1>0, <1>5
    <3> QED BY <3>1, <1>5, ConcatAdjacentSubSeq
  <2>4. SubSeq(b, 1, Len(b)) = b
    BY <1>5, SubSeqFull
  <2> QED BY <2>1, <2>2, <2>3, <2>4
<1> HIDE DEF chunk, rest
<1>7. r \in TlsRecords /\ r.body = rest /\ r.kind # "ccs"
  BY <1>6 DEF TlsRecords
<1> HIDE DEF r
<1>8. Carried(w) = b \o Carried(Tail(w)) /\ Carried(Tail(w)) \in Seq(Nat)
  <2>1. Carried(w) = w[1].body \o Carried(Tail(w))
    BY <1>0, <1>1, RecordsCarry, CarriedSteps
  <2>2. Carried(Tail(w)) \in Seq(Nat)
    BY <1>4, RecordsCarry, BodiesType
  <2> QED BY <2>1, <2>2 DEF b
<1> DEFINE tail == Carried(Tail(w))
<1>9. v \in Seq(TlsRecords) /\ Carried(v) \in Seq(Nat) /\ Carried(w) = chunk \o Carried(v)
      /\ \A i \in 1 .. Len(v) : v[i].kind = "ccs" => v[i].body = <<>>
  <2>1. ASSUME NEW i \in 1 .. Len(Tail(w)), Tail(w)[i].kind = "ccs" PROVE Tail(w)[i].body = <<>>
    <3>1. i + 1 \in 1 .. Len(w) /\ Tail(w)[i] = w[i + 1]
      BY <1>4
    <3> QED BY <3>1, <2>1, <1>1
  <2>2. CASE n = Len(b)
    <3>1. v = Tail(w)
      BY <2>2 DEF v
    <3> QED BY <3>1, <2>1, <2>2, <1>4, <1>6, <1>8
  <2>3. CASE n # Len(b)
    <3>1. v = <<r>> \o Tail(w)
      BY <2>3 DEF v
    <3>2. Carried(v) = rest \o tail
      BY <3>1, <1>4, <1>7, RecordsCarry, CarriedSteps
    <3>3. tail \in Seq(Nat)
      BY <1>8
    <3>4. Carried(w) = (chunk \o rest) \o tail
      BY <1>6, <1>8
    <3> HIDE DEF tail
    <3>5. (chunk \o rest) \o tail = chunk \o (rest \o tail) /\ rest \o tail \in Seq(Nat)
      <4>1. chunk \in Seq(Nat) /\ rest \in Seq(Nat)
        BY <1>6
      <4>2. (chunk \o rest) \o tail = chunk \o (rest \o tail)
        <5> DEFINE B == Nat
        <5>1. chunk \in Seq(B) /\ rest \in Seq(B) /\ tail \in Seq(B)
          BY <3>3, <4>1
        <5> HIDE DEF B
        <5> QED BY <5>1, ConcatAssociative
      <4> QED BY <3>3, <4>1, <4>2, ConcatProperties
    <3> DEFINE e == <<r>>
               tw == Tail(w)
    <3>6. e \in Seq(TlsRecords) /\ Len(e) = 1 /\ e[1] = r /\ tw \in Seq(TlsRecords)
      BY <1>4, <1>7
    <3>7. v = e \o tw
      BY <3>1
    <3>8. \A i \in 1 .. Len(tw) : tw[i].kind = "ccs" => tw[i].body = <<>>
      BY <2>1
    <3> HIDE DEF e, tw
    <3>9. /\ e \o tw \in Seq(TlsRecords) /\ Len(e \o tw) = Len(e) + Len(tw) /\ Len(tw) \in Nat
          /\ \A i \in 1 .. Len(e) : (e \o tw)[i] = e[i]
          /\ \A i \in 1 .. Len(tw) : (e \o tw)[Len(e) + i] = tw[i]
      BY <3>6, ConcatAt
    <3>10. ASSUME NEW i \in 1 .. Len(v), v[i].kind = "ccs" PROVE v[i].body = <<>>
      <4>1. i = 1 \/ (i - 1 \in 1 .. Len(tw) /\ 1 + (i - 1) = i)
        BY <3>6, <3>7, <3>9
      <4>2. i = 1 => v[i] = r
        <5>1. 1 \in 1 .. Len(e)
          BY <3>6
        <5> QED BY <5>1, <3>6, <3>7, <3>9
      <4>3. i - 1 \in 1 .. Len(tw) /\ 1 + (i - 1) = i => v[i] = tw[i - 1]
        BY <3>6, <3>7, <3>9
      <4> QED BY <4>1, <4>2, <4>3, <3>8, <3>10, <1>7
    <3>11. v \in Seq(TlsRecords)
      BY <3>7, <3>9
    <3> QED BY <3>2, <3>4, <3>5, <3>10, <3>11
  <2> QED BY <2>2, <2>3
<1>10. TlsOK(t)
  BY <1>1, <1>3, <1>9 DEF TlsOK
<1>11. n <= Len(b)
  BY <1>0, <1>5
<1> QED BY <1>0, <1>3, <1>6, <1>9, <1>10, <1>11 DEF t, w, b, chunk
(* What stays of the client while the proxy reads.                         *)
LEMMA ClientStays ==
    ASSUME UpInv, clt' = clt
    PROVE  ClientFits' /\ PacketEnds' = PacketEnds /\ (clt.pc # "none" => Opened) /\ clt.sent \in Nat
<1>1. PacketEnds' = PacketEnds /\ (Opened' <=> Opened)
  BY SameEnds
<1> QED BY <1>1 DEF UpInv, ClientFits

LEMMA ReadHandshakeInv ==
    ASSUME UpInv, NEW n \in 0 .. MaxRecord, ReadHandshake(n) PROVE UpInv'
<1> DEFINE w == tls.wire
           s == clt.sent
<1>0. /\ cut.pc = "handshake" /\ Payload(n) /\ clt' = clt /\ n \in Nat
  BY BytesAssumption DEF ReadHandshake
<1>1. /\ ClientFits' /\ PacketEnds' = PacketEnds /\ (clt.pc # "none" => Opened) /\ s \in Nat
  BY <1>0, ClientStays
<1>2. /\ TlsOK(tls) /\ CutOK(cut) /\ Waiting(clt, tls, cut)
  BY <1>0 DEF UpInv, UpOK, Bridged, NeverSent
<1>3. /\ cut = [pc |-> cut.pc, on |-> cut.on, disabled |-> cut.disabled, buf |-> cut.buf, frames |-> cut.frames]
      /\ cut.frames = <<>> /\ cut.buf = <<>> /\ tls.buf = <<>> /\ ~cut.disabled
      /\ Carried(w) = Stretch(0, s) /\ (clt.pc = "none" => w = <<>>)
  BY <1>2 DEF CutOK, Waiting, NotBegun
<1>4. CASE n = 0
  <2>1. w = <<>> /\ clt.pc = "gone"
    BY <1>0, <1>4 DEF Payload
  <2>2. s = 0
    <3>1. Carried(<<>>) = <<>>
      <4>1. w \in Seq(TlsRecords)
        BY <1>2 DEF TlsOK
      <4> HIDE DEF w
      <4> QED BY <4>1, RecordsCarry, CarriedSteps
    <3>2. Carried(<<>>) = Stretch(0, s)
      BY <2>1, <1>3
    <3> HIDE DEF s
    <3>3. Len(Stretch(0, s)) = s - 0
      <4>1. 0 \in Nat /\ 0 <= s
        BY <1>1
      <4> QED BY <4>1, <1>1, StretchIs
    <3> QED BY <3>1, <3>2, <3>3, <1>1
  <2>3. cut' = [cut EXCEPT !.pc = "ended"] /\ tls' = tls
    BY <1>4 DEF ReadHandshake
  <2>4. /\ cut' = [pc |-> cut'.pc, on |-> cut'.on, disabled |-> cut'.disabled, buf |-> cut'.buf, frames |-> cut'.frames]
        /\ cut'.pc = "ended" /\ cut'.on = cut.on /\ cut'.disabled = cut.disabled /\ cut'.buf = cut.buf
        /\ cut'.frames = cut.frames
    BY <2>3, <1>3
  <2>5. CutOK(cut')
    BY <2>4, <1>2 DEF CutOK
  <2>6. FramesOK(PacketEnds', cut')
    BY <2>4, <1>3 DEF FramesOK
  <2>7. UpOK(clt', tls', cut')
    BY <2>1, <2>2, <2>3, <2>4, <1>0, <1>3 DEF UpOK, NeverSent, NotBegun
  <2> QED BY <2>3, <2>5, <2>6, <2>7, <1>1, <1>2 DEF UpInv
<1>5. CASE n # 0
  <2> DEFINE t == AfterPayload(n)
             chunk == SubSeq(w[1].body, 1, n)
             rest == SubSeq(tls.buf \o chunk, HandshakeLen + 1, Len(tls.buf \o chunk))
  <2>1. tls' = [t EXCEPT !.buf = rest] /\ cut' = [cut EXCEPT !.pc = "bridge"]
    BY <1>5 DEF ReadHandshake
  <2>2. /\ w # <<>> /\ TlsOK(t) /\ chunk \in Seq(Nat) /\ Len(chunk) = n /\ Carried(t.wire) \in Seq(Nat)
        /\ Carried(w) = chunk \o Carried(t.wire)
    BY <1>0, <1>2, <1>5, PayloadTaken
  <2>3. /\ t = [wire |-> t.wire, left |-> t.left, buf |-> t.buf] /\ t.wire \in Seq(TlsRecords)
        /\ \A i \in 1 .. Len(t.wire) : t.wire[i].kind = "ccs" => t.wire[i].body = <<>>
    BY <2>2 DEF TlsOK
  <2> HIDE DEF t, chunk
  <2>4. chunk = Stretch(0, n) /\ Carried(t.wire) = Stretch(n, s) /\ n <= s
    <3> DEFINE v == Carried(t.wire)
    <3>1. chunk \o v = Stretch(0, s) /\ v \in Seq(Nat)
      BY <2>2, <1>3
    <3> HIDE DEF v, s
    <3> DEFINE o == 0
    <3>5. o \in Nat /\ s \in Nat /\ o <= s
      BY <1>1
    <3>6. Joined(chunk, v, Stretch(o, s))
      BY <3>1 DEF Joined
    <3> HIDE DEF o
    <3>7. /\ chunk = Stretch(o, o + Len(chunk)) /\ v = Stretch(o + Len(chunk), s) /\ o + Len(chunk) + Len(v) = s
      BY <3>1, <3>5, <3>6, <2>2, StretchMeets
    <3>2. /\ chunk = Stretch(0, 0 + Len(chunk)) /\ v = Stretch(0 + Len(chunk), s) /\ 0 + Len(chunk) + Len(v) = s
      BY <3>7 DEF o
    <3>3. 0 + Len(chunk) = n /\ Len(v) \in Nat
      BY <2>2, <3>1, <1>0
    <3>4. n <= s
      BY <3>2, <3>3, <1>0, <1>1
    <3> QED BY <3>2, <3>3, <3>4 DEF v
  <2>5. rest = Stretch(1, n) /\ rest \in Seq(Nat) /\ 1 <= n
    <3>1. <<>> \o chunk = chunk
      BY <2>2, ConcatEmptySeq
    <3>2. rest = SubSeq(chunk, 1 + 1, n)
      BY <3>1, <1>3, <2>2 DEF HandshakeLen
    <3>3. Piece(Stretch(0, n), 1, n) = Stretch(0 + 1, 0 + n)
      BY <1>0, <1>5, StretchCut
    <3>4. 0 + 1 = 1 /\ 0 + n = n /\ 1 <= n
      BY <1>0, <1>5
    <3>5. rest = Stretch(1, n)
      BY <3>2, <3>3, <3>4, <2>4 DEF Piece
    <3> HIDE DEF rest
    <3> QED BY <3>4, <3>5, <1>0, StretchIs
  <2> HIDE DEF rest
  <2>6. /\ tls' = [wire |-> tls'.wire, left |-> tls'.left, buf |-> tls'.buf]
        /\ tls'.wire = t.wire /\ tls'.buf = rest
    BY <2>1, <2>3
  <2>7. TlsOK(tls')
    BY <2>3, <2>5, <2>6 DEF TlsOK
  <2>8. /\ cut' = [pc |-> cut'.pc, on |-> cut'.on, disabled |-> cut'.disabled, buf |-> cut'.buf, frames |-> cut'.frames]
        /\ cut'.pc = "bridge" /\ cut'.on = cut.on /\ cut'.disabled = cut.disabled /\ cut'.buf = cut.buf
        /\ cut'.frames = cut.frames
    BY <2>1, <1>3
  <2>9. CutOK(cut')
    BY <2>8, <1>2 DEF CutOK
  <2>10. FlattenSeq(<<>>) = <<>> /\ Stretch(1, 1) = <<>> /\ Len(<<>>) = 0
    BY FlattenFew, StretchIs
  <2>11. clt.pc # "none" /\ Opened
    BY <2>2, <1>1, <1>3
  <2>12. FramesOK(PacketEnds', cut')
    <3>1. EndOf(0) = HandshakeLen /\ EndOf(0) \in PacketEnds
      <4>1. 0 \in 0 .. Len(clt.lens)
        <5>1. Len(clt.lens) \in Nat
          BY <2>11 DEF Opened
        <5> QED BY <5>1
      <4>2. EndOf(0) = HandshakeLen
        <5>1. PacketsOf(0) \in Seq(Seq(Nat)) /\ Len(PacketsOf(0)) = 0
          BY <4>1, <2>11, PacketsAre DEF Opened
        <5>2. PacketsOf(0) = <<>>
          BY <5>1, EmptySeq
        <5> QED BY <5>2, <2>10 DEF EndOf, HandshakeLen
      <4> QED BY <4>1, <4>2, EndsAre
    <3>2. HandshakeLen + 0 = HandshakeLen
      BY DEF HandshakeLen
    <3> QED BY <3>1, <3>2, <2>8, <2>10, <1>1, <1>3 DEF FramesOK
  <2>13. Pieces(FlattenSeq(cut'.frames), cut'.buf, tls'.buf, Carried(tls'.wire), s)
    <3>1. HandshakeLen = 1 /\ 1 \in Nat /\ 1 <= 1
      BY DEF HandshakeLen
    <3>2. /\ FlattenSeq(cut'.frames) = Stretch(1, 1) /\ cut'.buf = Stretch(1, 1) /\ tls'.buf = Stretch(1, n)
          /\ Carried(tls'.wire) = Stretch(n, s)
      BY <2>4, <2>5, <2>6, <2>8, <2>10, <1>3
    <3> HIDE DEF s
    <3> QED BY <3>1, <3>2, <2>4, <2>5, <1>0 DEF Pieces
  <2>14. UpOK(clt', tls', cut')
    BY <2>8, <2>11, <2>13, <1>0 DEF UpOK, Bridged
  <2> QED BY <2>7, <2>9, <2>12, <2>14, <1>1 DEF UpInv
<1> QED BY <1>4, <1>5
(* tcp_to_ws: the chunk that was read goes to the splitter.                *)
LEMMA ChunkInv ==
    ASSUME UpInv, cut.pc = "bridge", clt' = clt, clt.pc # "none", TlsOK(tls'),
           NEW x \in Nat, NEW y \in Nat, NEW z \in Nat, HandshakeLen <= x, x <= y, y <= z, z <= clt.sent,
           FlattenSeq(cut.frames) = Stretch(HandshakeLen, x), cut.buf = Stretch(x, y),
           tls'.buf = <<>>, Carried(tls'.wire) = Stretch(z, clt.sent),
           cut' = Split(Stretch(y, z))
    PROVE  UpInv'
<1> DEFINE s == clt.sent
           k == Split(Stretch(y, z))
<1>1. /\ ClientFits' /\ PacketEnds' = PacketEnds /\ Opened /\ s \in Nat /\ z <= Len(clt.plain)
  <2>1. ClientFits' /\ PacketEnds' = PacketEnds /\ Opened /\ s \in Nat
    BY ClientStays
  <2>2. s <= Len(clt.plain) /\ clt.plain \in Seq(Nat)
    <3>1. s <= Len(clt.plain)
      BY DEF UpInv, ClientFits
    <3>2. clt.plain \in Seq(Nat)
      BY <2>1, PlainIs
    <3> QED BY <3>1, <3>2
  <2>3. Len(clt.plain) \in Nat
    BY <2>2
  <2> QED BY <2>1, <2>2, <2>3
<1>2. CutOK(cut) /\ FramesOK(PacketEnds, cut)
  BY DEF UpInv
<1>3. /\ CutOK(k) /\ FramesOK(PacketEnds, k) /\ k.pc = "bridge"
      /\ \E m \in Nat : /\ x <= m /\ m <= z /\ k.buf = Stretch(m, z)
                        /\ FlattenSeq(k.frames) = Stretch(HandshakeLen, m)
  BY <1>1, <1>2, SplitFits
<1>4. cut' = k
  OBVIOUS
<1> HIDE DEF k
<1>5. PICK m \in Nat : /\ x <= m /\ m <= z /\ k.buf = Stretch(m, z)
                       /\ FlattenSeq(k.frames) = Stretch(HandshakeLen, m)
  BY <1>3
<1>6. Pieces(FlattenSeq(cut'.frames), cut'.buf, tls'.buf, Carried(tls'.wire), s)
  <2>1. Stretch(z, z) = <<>> /\ z <= z
    BY StretchIs
  <2>2. HandshakeLen <= m
    BY <1>5 DEF HandshakeLen
  <2> QED BY <2>1, <2>2, <1>4, <1>5 DEF Pieces
<1>7. UpOK(clt', tls', cut')
  BY <1>3, <1>4, <1>6 DEF UpOK, Bridged
<1> QED BY <1>1, <1>3, <1>4, <1>7 DEF UpInv

(* The end of the bridge, for whatever reason, leaves every byte where it is. *)
LEMMA EndInv ==
    ASSUME UpInv, cut.pc = "bridge", clt' = clt, tls' = tls, cut' = [cut EXCEPT !.pc = "ended"] PROVE UpInv'
<1>1. Bridged(clt, tls, cut)
  BY DEF UpInv, UpOK, Waiting, NeverSent, Bridged
<1>2. ClientFits' /\ PacketEnds' = PacketEnds
  BY ClientStays
<1>3. CutOK(cut) /\ FramesOK(PacketEnds, cut) /\ TlsOK(tls)
  BY DEF UpInv
<1>4. cut = [pc |-> cut.pc, on |-> cut.on, disabled |-> cut.disabled, buf |-> cut.buf, frames |-> cut.frames]
  BY <1>3 DEF CutOK
<1>5. /\ cut' = [pc |-> cut'.pc, on |-> cut'.on, disabled |-> cut'.disabled, buf |-> cut'.buf, frames |-> cut'.frames]
      /\ cut'.pc = "ended" /\ cut'.on = cut.on /\ cut'.disabled = cut.disabled /\ cut'.buf = cut.buf
      /\ cut'.frames = cut.frames
  BY <1>4
<1>6. CutOK(cut') /\ FramesOK(PacketEnds', cut')
  BY <1>2, <1>3, <1>5 DEF CutOK, FramesOK
<1>7. UpOK(clt', tls', cut')
  BY <1>1, <1>5 DEF UpOK, Bridged
<1> QED BY <1>2, <1>3, <1>6, <1>7 DEF UpInv

(* flush: what the splitter kept goes up when the client ends.             *)
LEMMA FlushInv ==
    ASSUME UpInv, cut.pc = "bridge", clt' = clt, tls' = tls, cut' = Flushed PROVE UpInv'
<1> DEFINE s == clt.sent
           h == HandshakeLen
           up == FlattenSeq(cut.frames)
           fs == cut.frames
           f == cut.buf
<1>1. Bridged(clt, tls, cut) /\ clt.pc # "none"
  BY DEF UpInv, UpOK, Waiting, NeverSent, Bridged
<1>2. ClientFits' /\ PacketEnds' = PacketEnds /\ s \in Nat /\ h \in Nat
  BY <1>1, ClientStays DEF HandshakeLen
<1>3. PICK x, y, z \in Nat :
          /\ h <= x /\ x <= y /\ y <= z /\ z <= s
          /\ up = Stretch(h, x) /\ f = Stretch(x, y)
          /\ tls.buf = Stretch(y, z) /\ Carried(tls.wire) = Stretch(z, s)
  BY <1>1 DEF Bridged, Pieces
<1>4. /\ cut = [pc |-> cut.pc, on |-> cut.on, disabled |-> cut.disabled, buf |-> f, frames |-> fs]
      /\ cut.on \in BOOLEAN /\ cut.disabled \in BOOLEAN /\ f \in Seq(Nat) /\ fs \in Seq(Seq(Nat))
      /\ (~cut.on \/ cut.disabled => f = <<>>)
  BY DEF UpInv, CutOK
<1>5. /\ TlsOK(tls') /\ CutOK(cut) /\ FramesOK(PacketEnds, cut)
  BY DEF UpInv
<1>6. CASE clt.end = "exception" \/ f = <<>>
  <2>1. cut' = [cut EXCEPT !.pc = "ended"]
    BY <1>6 DEF Flushed
  <2> QED BY <2>1, EndInv
<1>7. CASE ~(clt.end = "exception" \/ f = <<>>)
  <2>1. cut' = [cut EXCEPT !.pc = "ended", !.buf = <<>>, !.frames = Append(@, f)]
    BY <1>7 DEF Flushed
  <2>2. /\ cut' = [pc |-> cut'.pc, on |-> cut'.on, disabled |-> cut'.disabled, buf |-> cut'.buf, frames |-> cut'.frames]
        /\ cut'.pc = "ended" /\ cut'.on = cut.on /\ cut'.disabled = cut.disabled /\ cut'.buf = <<>>
        /\ cut'.frames = Append(fs, f)
    BY <2>1, <1>4
  <2> HIDE DEF f, fs, up, h, s
  <2>3. /\ Append(fs, f) \in Seq(Seq(Nat)) /\ Len(Append(fs, f)) = Len(fs) + 1 /\ Len(fs) \in Nat
        /\ \A i \in 1 .. Len(fs) : Append(fs, f)[i] = fs[i]
        /\ Append(fs, f)[Len(fs) + 1] = f
    <3> DEFINE S == Seq(Nat)
    <3>1. fs \in Seq(S) /\ f \in S
      BY <1>4
    <3> HIDE DEF S
    <3>2. /\ Append(fs, f) \in Seq(S) /\ Len(Append(fs, f)) = Len(fs) + 1 /\ Len(fs) \in Nat
          /\ \A i \in 1 .. Len(fs) : Append(fs, f)[i] = fs[i]
          /\ Append(fs, f)[Len(fs) + 1] = f
      BY <3>1, AppendProperties
    <3> QED BY <3>2 DEF S
  <2>4. CutOK(cut')
    BY <2>2, <2>3, <1>4 DEF CutOK
  <2>5. FlattenSeq(cut'.frames) = Stretch(h, y)
    <3>1. FlattenSeq(Append(fs, f)) = FlattenSeq(fs) \o f
      BY <1>4, FlattenAppend
    <3>2. Stretch(h, x) \o Stretch(x, y) = Stretch(h, y)
      BY <1>2, <1>3, StretchJoin
    <3> QED BY <3>1, <3>2, <2>2, <1>3 DEF up, fs
  <2>6. Pieces(FlattenSeq(cut'.frames), cut'.buf, tls'.buf, Carried(tls'.wire), s)
    <3>1. Stretch(y, y) = <<>> /\ y <= y
      BY StretchIs
    <3>2. h <= y
      BY <1>2, <1>3
    <3> QED BY <3>1, <3>2, <2>2, <2>5, <1>3 DEF Pieces, h
  <2>7. UpOK(clt', tls', cut')
    BY <2>2, <2>6, <1>1 DEF UpOK, Bridged, s
  <2>8. ASSUME cut.on, ~cut.disabled PROVE f[1] - 1 \in PacketEnds /\ \A i \in 1 .. Len(fs) : WholeIn(PacketEnds, fs[i])
    <3>1. /\ h + Len(up) \in PacketEnds
          /\ \A i \in 1 .. Len(fs) : WholeIn(PacketEnds, fs[i])
      BY <2>8, <1>5 DEF FramesOK, h, up, fs
    <3>2. h + Len(up) = x
      <4>1. Len(Stretch(h, x)) = x - h
        BY <1>2, <1>3, StretchIs
      <4> QED BY <4>1, <1>2, <1>3
    <3>3. f[1] = x + 1
      <4>1. x # y
        <5>1. Stretch(x, x) = <<>>
          BY StretchIs
        <5> QED BY <5>1, <1>3, <1>7
      <4>2. 1 \in 1 .. y - x
        BY <4>1, <1>3
      <4> QED BY <4>2, <1>3, StretchIs
    <3>4. (x + 1) - 1 = x
      OBVIOUS
    <3> QED BY <3>1, <3>2, <3>3, <3>4
  <2>9. FramesOK(PacketEnds', cut')
    <3>1. ASSUME cut.on, ~cut.disabled, NEW i \in 1 .. Len(Append(fs, f))
          PROVE  \/ WholeIn(PacketEnds, Append(fs, f)[i])
                 \/ i = Len(Append(fs, f)) /\ Append(fs, f)[i][1] - 1 \in PacketEnds
      <4>1. i \in 1 .. Len(fs) \/ i = Len(fs) + 1
        BY <2>3
      <4> QED BY <4>1, <3>1, <2>3, <2>8
    <3> QED BY <3>1, <2>2, <1>2 DEF FramesOK
  <2> QED BY <2>4, <2>7, <2>9, <1>2, <1>5 DEF UpInv
<1> QED BY <1>6, <1>7

LEMMA ReadChunkInv ==
    ASSUME UpInv, NEW n \in 0 .. MaxRecord, ReadChunk(n) PROVE UpInv'
<1> DEFINE s == clt.sent
           h == HandshakeLen
           w == tls.wire
<1>0. cut.pc = "bridge" /\ clt' = clt /\ n \in Nat
  BY BytesAssumption DEF ReadChunk
<1>1. Bridged(clt, tls, cut) /\ clt.pc # "none" /\ TlsOK(tls)
  BY <1>0 DEF UpInv, UpOK, Waiting, NeverSent, Bridged
<1>2. s \in Nat
  BY <1>0, ClientStays
<1>3. PICK x, y, z \in Nat :
          /\ h <= x /\ x <= y /\ y <= z /\ z <= s
          /\ FlattenSeq(cut.frames) = Stretch(h, x) /\ cut.buf = Stretch(x, y)
          /\ tls.buf = Stretch(y, z) /\ Carried(w) = Stretch(z, s)
  BY <1>1 DEF Bridged, Pieces
<1>4. /\ tls = [wire |-> w, left |-> tls.left, buf |-> tls.buf]
      /\ w \in Seq(TlsRecords) /\ tls.buf \in Seq(Nat)
      /\ \A i \in 1 .. Len(w) : w[i].kind = "ccs" => w[i].body = <<>>
  BY <1>1 DEF TlsOK
<1>5. CASE tls.buf # <<>>
  <2>1. tls' = [tls EXCEPT !.buf = <<>>] /\ cut' = Split(tls.buf)
    BY <1>5 DEF ReadChunk
  <2>2. tls' = [wire |-> tls'.wire, left |-> tls'.left, buf |-> tls'.buf] /\ tls'.wire = w /\ tls'.buf = <<>>
    BY <2>1, <1>4
  <2>3. TlsOK(tls')
    BY <2>2, <1>4 DEF TlsOK
  <2>4. Carried(tls'.wire) = Stretch(z, s) /\ cut' = Split(Stretch(y, z))
    BY <2>1, <2>2, <1>3
  <2> QED BY <2>2, <2>3, <2>4, <1>0, <1>1, <1>3, ChunkInv
<1>6. CASE tls.buf = <<>> /\ n # 0
  <2> DEFINE t == AfterPayload(n)
             chunk == SubSeq(w[1].body, 1, n)
  <2>1. Payload(n) /\ tls' = t /\ cut' = Split(chunk)
    BY <1>0, <1>6 DEF ReadChunk
  <2>2. /\ TlsOK(t) /\ t.buf = tls.buf /\ chunk \in Seq(Nat) /\ Len(chunk) = n
        /\ Carried(t.wire) \in Seq(Nat) /\ Carried(w) = chunk \o Carried(t.wire)
    BY <2>1, <1>0, <1>1, <1>6, PayloadTaken
  <2> HIDE DEF t, chunk
  <2>3. y = z
    <3>1. Len(Stretch(y, z)) = z - y
      BY <1>3, StretchIs
    <3>2. Len(Stretch(y, z)) = 0
      BY <1>3, <1>6
    <3> QED BY <3>1, <3>2
  <2>4. chunk = Stretch(y, y + n) /\ Carried(t.wire) = Stretch(y + n, s) /\ y + n <= s
    <3> DEFINE v == Carried(t.wire)
    <3>1. Joined(chunk, v, Stretch(z, s)) /\ v \in Seq(Nat) /\ z <= s
      BY <2>2, <1>3 DEF Joined
    <3> HIDE DEF v, s
    <3>2. chunk = Stretch(z, z + Len(chunk)) /\ v = Stretch(z + Len(chunk), s) /\ z + Len(chunk) + Len(v) = s
      BY <3>1, <2>2, <1>2, StretchMeets
    <3>3. z + n <= s
      <4>1. Len(v) \in Nat
        BY <3>1
      <4> QED BY <4>1, <3>2, <2>2, <1>0, <1>2
    <3> QED BY <3>2, <3>3, <2>2, <2>3 DEF v
  <2>5. y + n \in Nat /\ y <= y + n
    BY <1>0
  <2> DEFINE e == y + n
  <2>6. /\ TlsOK(tls') /\ tls'.buf = <<>> /\ Carried(tls'.wire) = Stretch(e, s) /\ cut' = Split(Stretch(y, e))
        /\ e \in Nat /\ y <= e /\ e <= s
    BY <2>1, <2>2, <2>4, <2>5, <1>6
  <2> HIDE DEF e
  <2> QED BY <2>6, <1>0, <1>1, <1>3, ChunkInv
<1>7. CASE tls.buf = <<>> /\ n = 0
  <2>1. tls' = tls /\ cut' = Flushed
    BY <1>7 DEF ReadChunk, AfterPayload
  <2> QED BY <2>1, <1>0, FlushInv
<1> QED BY <1>5, <1>6, <1>7
LEMMA UpStays == ASSUME UpInv, clt' = clt, tls' = tls, cut' = cut PROVE UpInv'
<1>1. ClientFits' /\ PacketEnds' = PacketEnds
  BY ClientStays
<1> QED BY <1>1 DEF UpInv
-----------------------------------------------------------------------------
(* The frames of the server.                                               *)

LEMMA ServerFrameInv ==
    ASSUME DownOK(down), NEW op \in {"data", "ping", "close"}, NEW fin \in BOOLEAN, ServerFrame(op, fin)
    PROVE  DownOK(down')
<1> DEFINE w == down.wire
           s == down.sent
           n == IF op = "data" THEN 1 ELSE 0
           b == IF op = "data" THEN <<s + 1>> ELSE <<>>
           r == [op |-> op, fin |-> fin, body |-> b]
           x == down.got \o down.frag
<1>1. /\ down = [wire |-> w, sent |-> s, shut |-> down.shut, closed |-> down.closed,
                 frag |-> down.frag, got |-> down.got]
      /\ w \in Seq(ServerFrames) /\ s \in Nat /\ down.frag \in Seq(Nat) /\ down.got \in Seq(Nat)
      /\ \A i \in 1 .. Len(w) : w[i].op # "data" => w[i].body = <<>>
      /\ x \o Carried(w) = Stretch(0, s)
  BY DEF DownOK
<1>2. down' = [down EXCEPT !.sent = IF op = "data" THEN @ + 1 ELSE @, !.shut = op = "close",
                           !.wire = Append(@, r)]
  BY DEF ServerFrame
<1>3. n \in Nat /\ (IF op = "data" THEN s + 1 ELSE s) = s + n
  BY <1>1
<1>4. /\ down' = [wire |-> down'.wire, sent |-> down'.sent, shut |-> down'.shut, closed |-> down'.closed,
                  frag |-> down'.frag, got |-> down'.got]
      /\ down'.wire = Append(w, r) /\ down'.sent = s + n /\ down'.frag = down.frag /\ down'.got = down.got
  <2> HIDE DEF r
  <2> QED BY <1>1, <1>2, <1>3
<1>5. b = Stretch(s, s + n) /\ b \in Seq(Nat)
  <2> HIDE DEF s
  <2>1. CASE op = "data"
    <3>1. /\ Stretch(s, s + 1) \in Seq(Nat) /\ Len(Stretch(s, s + 1)) = 1 /\ Stretch(s, s + 1)[1] = s + 1
      <4>1. (s + 1) - s = 1 /\ 1 \in 1 .. 1 /\ s + 1 \in Nat /\ s <= s + 1
        BY <1>1
      <4> QED BY <4>1, <1>1, StretchIs
    <3> DEFINE y == Stretch(s, s + 1)
    <3>2. y \in Seq(Nat) /\ Len(y) = 1 /\ y[1] = s + 1
      BY <3>1
    <3> HIDE DEF y
    <3>3. y = <<s + 1>>
      BY <3>2
    <3> QED BY <3>2, <3>3, <2>1 DEF y
  <2>2. CASE op # "data"
    <3>1. Stretch(s, s) = <<>> /\ s + 0 = s
      BY <1>1, StretchIs
    <3> QED BY <3>1, <2>2
  <2> QED BY <2>1, <2>2
<1>6. r \in ServerFrames /\ r.body = b /\ (r.op # "data" => r.body = <<>>)
  <2>1. op # "data" => b = <<>>
    OBVIOUS
  <2> HIDE DEF b
  <2> QED BY <2>1, <1>5 DEF ServerFrames
<1> HIDE DEF b, r, w, s, n
<1>7. /\ Append(w, r) \in Seq(ServerFrames) /\ Len(Append(w, r)) = Len(w) + 1 /\ Len(w) \in Nat
      /\ \A i \in 1 .. Len(w) : Append(w, r)[i] = w[i]
      /\ Append(w, r)[Len(w) + 1] = r
  BY <1>1, <1>6, AppendProperties
<1>8. ASSUME NEW i \in 1 .. Len(Append(w, r)), Append(w, r)[i].op # "data" PROVE Append(w, r)[i].body = <<>>
  <2>1. i \in 1 .. Len(w) \/ i = Len(w) + 1
    BY <1>7
  <2> QED BY <2>1, <1>1, <1>6, <1>7, <1>8
<1>9. x \o Carried(Append(w, r)) = Stretch(0, s + n)
  <2> DEFINE v == Carried(w)
  <2>1. Carried(Append(w, r)) = v \o b
    BY <1>1, <1>6, RecordsCarry, CarriedSteps
  <2>2. x \in Seq(Nat)
    BY <1>1, ConcatProperties
  <2>3. v \in Seq(Nat)
    BY <1>1, RecordsCarry, BodiesType
  <2>4. x \o v = Stretch(0, s)
    BY <1>1
  <2> HIDE DEF v, x
  <2>5. x \o (v \o b) = (x \o v) \o b
    <3> DEFINE B == Nat
    <3>1. x \in Seq(B) /\ v \in Seq(B) /\ b \in Seq(B)
      BY <2>2, <2>3, <1>5
    <3> HIDE DEF B
    <3> QED BY <3>1, ConcatAssociative
  <2>6. Stretch(0, s) \o Stretch(s, s + n) = Stretch(0, s + n)
    <3> DEFINE o == 0
               t == s + n
    <3>1. o \in Nat /\ s \in Nat /\ t \in Nat /\ o <= s /\ s <= t
      BY <1>1, <1>3
    <3> HIDE DEF o, t
    <3>2. Stretch(o, s) \o Stretch(s, t) = Stretch(o, t)
      BY <3>1, StretchJoin
    <3> QED BY <3>2 DEF o, t
  <2> QED BY <2>1, <2>4, <2>5, <2>6, <1>5
<1>10. s + n \in Nat
  BY <1>1, <1>3
<1> QED BY <1>1, <1>4, <1>7, <1>8, <1>9, <1>10 DEF DownOK, x

(* RawWebSocket.recv and ws_to_tcp.                                        *)
LEMMA ReceiveFrameInv == ASSUME DownOK(down), ReceiveFrame PROVE DownOK(down')
<1> DEFINE w == down.wire
           f == w[1]
           b == f.body
           g == down.got
           q == down.frag
           v == Carried(Tail(w))
           B == Nat
<1>0. w # <<>> /\ down' = [Recv(f) EXCEPT !.wire = Tail(@)]
  BY DEF ReceiveFrame
<1>1. /\ down = [wire |-> w, sent |-> down.sent, shut |-> down.shut, closed |-> down.closed, frag |-> q, got |-> g]
      /\ w \in Seq(ServerFrames) /\ down.sent \in Nat /\ q \in Seq(Nat) /\ g \in Seq(Nat)
      /\ \A i \in 1 .. Len(w) : w[i].op # "data" => w[i].body = <<>>
      /\ g \o q \o Carried(w) = Stretch(0, down.sent)
  BY DEF DownOK
<1>2. /\ Tail(w) \in Seq(ServerFrames) /\ Len(Tail(w)) = Len(w) - 1 /\ Len(w) \in Nat \ {0}
      /\ \A i \in 1 .. Len(Tail(w)) : Tail(w)[i] = w[i + 1]
  <2> HIDE DEF w
  <2> QED BY <1>0, <1>1, HeadTailProperties, EmptySeq
<1>3. f \in ServerFrames /\ (f.op # "data" => b = <<>>)
  <2>1. 1 \in 1 .. Len(w)
    BY <1>2
  <2> HIDE DEF w
  <2> QED BY <2>1, <1>1, ElementOfSeq
<1>4. f.op \in {"data", "ping", "close"} /\ f.fin \in BOOLEAN /\ b \in Seq(Nat)
  BY <1>3 DEF ServerFrames
<1>5. Carried(w) = b \o v /\ v \in Seq(Nat)
  <2>1. Carried(w) = w[1].body \o Carried(Tail(w))
    BY <1>0, <1>1, RecordsCarry, CarriedSteps
  <2>2. Carried(Tail(w)) \in Seq(Nat)
    BY <1>2, RecordsCarry, BodiesType
  <2> QED BY <2>1, <2>2
<1>6. g \in Seq(B) /\ q \in Seq(B) /\ b \in Seq(B) /\ v \in Seq(B)
  BY <1>1, <1>4, <1>5
<1>7. ASSUME NEW i \in 1 .. Len(Tail(w)), Tail(w)[i].op # "data" PROVE Tail(w)[i].body = <<>>
  <2>1. i + 1 \in 1 .. Len(w) /\ Tail(w)[i] = w[i + 1]
    BY <1>2
  <2> QED BY <2>1, <1>1, <1>7
<1>8. /\ down' = [wire |-> down'.wire, sent |-> down'.sent, shut |-> down'.shut, closed |-> down'.closed,
                  frag |-> down'.frag, got |-> down'.got]
      /\ down'.wire = Tail(w) /\ down'.sent = down.sent
      /\ \/ b = <<>> /\ down'.got = g /\ down'.frag = q
         \/ down'.got = g \o q \o b /\ down'.frag = <<>>
         \/ down'.got = g /\ down'.frag = q \o b
  <2> DEFINE sn == down.sent
             sh == down.shut
             cl == down.closed
             R(c, e, d) == [wire |-> w, sent |-> sn, shut |-> sh, closed |-> c, frag |-> e, got |-> d]
             all == g \o q \o b
             more == q \o b
  <2>1. \/ b = <<>> /\ Recv(f) = R(TRUE, q, g)
        \/ b = <<>> /\ Recv(f) = R(cl, q, g)
        \/ Recv(f) = R(cl, <<>>, all)
        \/ Recv(f) = R(cl, more, g)
    <3>0. down = R(cl, q, g)
      BY <1>1
    <3>1. CASE f.op = "close"
      <4>1. Recv(f) = [down EXCEPT !.closed = TRUE]
        BY <3>1 DEF Recv
      <4> HIDE DEF w, f, b, g, q, sn, sh, cl
      <4>2. Recv(f) = R(TRUE, q, g)
        BY <4>1, <3>0
      <4> QED BY <4>2, <3>1, <1>3
    <3>2. CASE f.op = "ping"
      <4>1. Recv(f) = down
        BY <3>2 DEF Recv
      <4> QED BY <4>1, <3>0, <3>2, <1>3
    <3>3. CASE f.op = "data" /\ f.fin
      <4>1. Recv(f) = [down EXCEPT !.got = all, !.frag = <<>>]
        BY <3>3 DEF Recv
      <4> HIDE DEF w, f, b, g, q, all, sn, sh, cl
      <4>2. Recv(f) = R(cl, <<>>, all)
        BY <4>1, <3>0
      <4> QED BY <4>2
    <3>4. CASE f.op = "data" /\ ~f.fin
      <4>1. Recv(f) = [down EXCEPT !.frag = more]
        BY <3>4 DEF Recv
      <4> HIDE DEF w, f, b, g, q, more, sn, sh, cl
      <4>2. Recv(f) = R(cl, more, g)
        BY <4>1, <3>0
      <4> QED BY <4>2
    <3> QED BY <3>1, <3>2, <3>3, <3>4, <1>4
  <2> HIDE DEF w, f, b, g, q, all, more
  <2> HIDE DEF sn, sh, cl
  <2>2. ASSUME NEW c, NEW e, NEW d, Recv(f) = R(c, e, d)
        PROVE  /\ down' = [wire |-> down'.wire, sent |-> down'.sent, shut |-> down'.shut, closed |-> down'.closed,
                           frag |-> down'.frag, got |-> down'.got]
               /\ down'.wire = Tail(w) /\ down'.sent = sn /\ down'.frag = e /\ down'.got = d
    <3>1. down' = [wire |-> Tail(w), sent |-> sn, shut |-> sh, closed |-> c, frag |-> e, got |-> d]
      <4> DEFINE tw == Tail(w)
                 a == Recv(f)
      <4>1. down' = [a EXCEPT !.wire = Tail(@)] /\ a = R(c, e, d)
        BY <2>2, <1>0
      <4>2. a.wire = w
        BY <4>1
      <4>3. down' = [a EXCEPT !.wire = tw]
        BY <4>1, <4>2
      <4> HIDE DEF a, tw
      <4>4. down' = [wire |-> tw, sent |-> sn, shut |-> sh, closed |-> c, frag |-> e, got |-> d]
        BY <4>1, <4>3
      <4> QED BY <4>4 DEF tw
    <3> QED BY <3>1
  <2> HIDE DEF R
  <2>7. sn = down.sent
    BY DEF sn
  <2>3. CASE b = <<>> /\ Recv(f) = R(TRUE, q, g)
    BY <2>2, <2>3, <2>7
  <2>4. CASE b = <<>> /\ Recv(f) = R(cl, q, g)
    BY <2>2, <2>4, <2>7
  <2>5. CASE Recv(f) = R(cl, <<>>, all)
    BY <2>2, <2>5, <2>7 DEF all
  <2>6. CASE Recv(f) = R(cl, more, g)
    BY <2>2, <2>6, <2>7 DEF more
  <2> QED BY <2>1, <2>3, <2>4, <2>5, <2>6
<1>9. g \o q \o (b \o v) = Stretch(0, down.sent)
  BY <1>1, <1>5
<1> HIDE DEF w, f, b, g, q, v, B
<1>10. /\ g \o q \in Seq(B) /\ q \o b \in Seq(B) /\ (g \o q) \o b \in Seq(B)
       /\ (g \o q) \o (b \o v) = ((g \o q) \o b) \o v
       /\ (g \o q) \o b = g \o (q \o b)
       /\ ((g \o q) \o b) \o <<>> = (g \o q) \o b
  <2>1. g \o q \in Seq(B) /\ q \o b \in Seq(B)
    BY <1>6, ConcatProperties
  <2> DEFINE x == g \o q
             y == q \o b
  <2>2. x \in Seq(B) /\ y \in Seq(B)
    BY <2>1
  <2>3. x \o b = g \o y
    BY <1>6, ConcatAssociative
  <2> HIDE DEF x, y
  <2>4. x \o b \in Seq(B)
    BY <2>2, <1>6, ConcatProperties
  <2>5. x \o (b \o v) = (x \o b) \o v
    <3>1. x \in Seq(B) /\ b \in Seq(B) /\ v \in Seq(B)
      BY <2>2, <1>6
    <3> QED BY <3>1, ConcatAssociative
  <2>6. (x \o b) \o <<>> = x \o b
    BY <2>4, ConcatEmptySeq
  <2> QED BY <2>2, <2>3, <2>4, <2>5, <2>6 DEF x, y
<1>11. /\ down'.got \in Seq(B) /\ down'.frag \in Seq(B)
       /\ down'.got \o down'.frag \o v = Stretch(0, down.sent)
  <2> DEFINE x == (g \o q) \o b
  <2>0. x \in Seq(B) /\ x \o v = Stretch(0, down.sent) /\ x \o <<>> = x
    BY <1>9, <1>10
  <2>1. CASE b = <<>> /\ down'.got = g /\ down'.frag = q
    <3>1. b \o v = v
      BY <2>1, <1>6, ConcatEmptySeq
    <3> QED BY <3>1, <2>1, <1>6, <1>9
  <2>2. CASE down'.got = g \o q \o b /\ down'.frag = <<>>
    <3>1. down'.got = x
      BY <2>2
    <3> HIDE DEF x
    <3> QED BY <3>1, <2>0, <2>2
  <2>3. CASE down'.got = g /\ down'.frag = q \o b
    BY <2>3, <1>6, <1>9, <1>10
  <2> QED BY <2>1, <2>2, <2>3, <1>8 DEF b
<1> QED BY <1>1, <1>2, <1>7, <1>8, <1>11 DEF DownOK, B, v

(* Of the other direction a frame that is received only ends it.           *)
LEMMA ReceiveFrameUp == ASSUME UpInv, ReceiveFrame PROVE UpInv'
<1>1. cut.pc = "bridge" /\ clt' = clt /\ tls' = tls
  BY DEF ReceiveFrame
<1>2. cut' = [cut EXCEPT !.pc = "ended"] \/ cut' = cut
  BY DEF ReceiveFrame
<1> QED BY <1>1, <1>2, EndInv, UpStays
-----------------------------------------------------------------------------
LEMMA StreamsNextInv == StreamsInv /\ [StreamsNext]_streamVars => StreamsInv'
<1> SUFFICES ASSUME StreamsInv, [StreamsNext]_streamVars PROVE UpInv' /\ DownOK(down')
  BY DEF StreamsInv
<1>0. UpInv /\ DownOK(down)
  BY DEF StreamsInv
<1>1. CASE UNCHANGED streamVars
  <2>1. clt' = clt /\ tls' = tls /\ cut' = cut /\ down' = down
    BY <1>1 DEF streamVars
  <2> QED BY <2>1, <1>0, UpStays
<1>2. CASE SendCcs
  BY <1>0, <1>2, SendCcsInv DEF SendCcs
<1>3. CASE SkipCcs
  BY <1>0, <1>3, SkipCcsInv DEF SkipCcs
<1>4. CASE ReceiveFrame
  BY <1>0, <1>4, ReceiveFrameInv, ReceiveFrameUp
<1>5. ASSUME NEW end \in {"empty", "exception"}, HangUp(end) PROVE UpInv' /\ DownOK(down')
  BY <1>0, <1>5, HangUpInv DEF HangUp
<1>6. ASSUME NEW p \in Protos, NEW lens \in SeqOf(Lengths, MaxPackets), NEW on \in BOOLEAN, OpenStream(p, lens, on)
      PROVE  UpInv' /\ DownOK(down')
  <2>1. down' = down
    BY <1>6 DEF OpenStream
  <2> QED BY <2>1, <1>0, <1>6, OpenStreamInv
<1>7. ASSUME NEW n \in 1 .. MaxRecord, SendRecord(n) PROVE UpInv' /\ DownOK(down')
  <2>1. down' = down
    BY <1>7 DEF SendRecord
  <2> QED BY <2>1, <1>0, <1>7, SendRecordInv
<1>8. ASSUME NEW n \in 0 .. MaxRecord, ReadHandshake(n) PROVE UpInv' /\ DownOK(down')
  <2>1. down' = down
    BY <1>8 DEF ReadHandshake
  <2> QED BY <2>1, <1>0, <1>8, ReadHandshakeInv
<1>9. ASSUME NEW n \in 0 .. MaxRecord, ReadChunk(n) PROVE UpInv' /\ DownOK(down')
  <2>1. down' = down
    BY <1>9 DEF ReadChunk
  <2> QED BY <2>1, <1>0, <1>9, ReadChunkInv
<1>10. ASSUME NEW op \in {"data", "ping", "close"}, NEW fin \in BOOLEAN, ServerFrame(op, fin)
       PROVE  UpInv' /\ DownOK(down')
  <2>1. clt' = clt /\ tls' = tls /\ cut' = cut
    BY <1>10 DEF ServerFrame
  <2> QED BY <2>1, <1>0, <1>10, UpStays, ServerFrameInv
<1> QED BY <1>1, <1>2, <1>3, <1>4, <1>5, <1>6, <1>7, <1>8, <1>9, <1>10 DEF StreamsNext

(* Of each byte of a connection the invariant says where it is.            *)
THEOREM StreamsInvariant == StreamsSpec => []StreamsInv
<1>1. StreamsInit => StreamsInv
  BY StreamsInitInv
<1>2. StreamsInv /\ [StreamsNext]_streamVars => StreamsInv'
  BY StreamsNextInv
<1> QED BY <1>1, <1>2, PTL DEF StreamsSpec

(* Neither direction of a bridged connection loses, repeats or mixes up a  *)
(* byte, however the client and the network cut them, and each frame that  *)
(* MsgSplitter sends holds one whole packet.                               *)
THEOREM StreamsStayWhole == StreamsSpec => []StreamsWhole
BY StreamsInvariant, InvIsWhole, PTL
=============================================================================
