------------------------------ MODULE TgService ------------------------------
(***************************************************************************)
(* modules/tg_ws_proxy/service.py: the daemon runs the Telegram proxy in a *)
(* thread with an event loop of its own, and stops and starts it when its  *)
(* settings are applied.  _run in proxy/tg_ws_proxy.py is modelled by when *)
(* it listens, and by when and how it ends.                                *)
(*                                                                         *)
(* apply_settings and stop hold _lock from their first step to their last: *)
(* of all the threads of the daemon only the holder has a place in them.   *)
(***************************************************************************)
EXTENDS Naturals, FiniteSets

CONSTANTS
    Threads,         \* names of proxy threads; one that has ended is used again
    Ports,
    BadPort,         \* a port that validate_port refuses
    ForeignPorts,    \* ports that another program may listen on
    JoinMayTimeOut,  \* TRUE: a proxy may take more than 5 s to end
    BootMayBeSlow,   \* TRUE: one may take more than 2 s to listen
    None

ASSUME TgAssumption ==
    /\ None \notin Threads \cup Ports /\ BadPort \notin Ports /\ ForeignPorts \subseteq Ports
    /\ JoinMayTimeOut \in BOOLEAN /\ BootMayBeSlow \in BOOLEAN

VARIABLES
    enabled, wanted, \* the settings tg_ws_proxy_enabled and tg_ws_proxy_port
    cfgPort,         \* proxy_config.port
    thread,          \* _thread
    pair,            \* _async_stop, as the thread whose loop and event it has
    lastError,       \* _last_error is set
    place, job,      \* the holder of _lock: where it is, and what it does
    aim,             \* the pair it has read
    st, told, port,  \* each proxy thread: its place, its stop event, where it listens
    foreign,         \* the ports other programs listen on
    announced,       \* history: the answer of the last apply_settings or stop
    slipped          \* history: a wait has ended before what it waited for

settings == <<enabled, wanted>>
holder == <<place, job, aim, announced>>
proxies == <<st, told, port, pair>>
gvars == <<settings, cfgPort, thread, lastError, holder, proxies, foreign, slipped>>

Alive(t) == t # None /\ st[t] # "none"
OpenBy(t, p) == port[t] = p
PortOpen(p) == p \in foreign \/ \E t \in Threads : OpenBy(t, p)
Room == \E t \in Threads : st[t] = "none"    \* bounds how many are abandoned

GTypeOK ==
    /\ enabled \in BOOLEAN /\ wanted \in Ports \cup {BadPort} /\ cfgPort \in Ports
    /\ thread \in Threads \cup {None} /\ pair \in Threads \cup {None}
    /\ aim \in Threads \cup {None} /\ lastError \in BOOLEAN
    /\ place \in {"free", "stop", "signal", "join", "begin", "error", "port", "alive"}
    /\ job \in {"none", "on", "off", "shutdown"}
    /\ st \in [Threads -> {"none", "boot", "paired", "up", "closing", "closed"}]
    /\ told \in [Threads -> BOOLEAN] /\ port \in [Threads -> Ports \cup {None}]
    /\ foreign \subseteq ForeignPorts
    /\ announced \in {"off", "up", "down", "failed"} /\ slipped \in BOOLEAN

Return(answer) == place' = "free" /\ job' = "none" /\ announced' = answer
Go(next) == place' = next /\ UNCHANGED <<announced, job>>

-----------------------------------------------------------------------------
(* apply_settings and stop *)

(* The GUI saves other settings; nothing happens until they are applied. *)
Choose(e, p) ==
    /\ enabled' = e /\ wanted' = p
    /\ UNCHANGED <<cfgPort, thread, lastError, holder, proxies, foreign, slipped>>

(* A wrong port is refused, and the proxy that runs goes on. *)
Apply ==
    /\ place = "free"
    /\ \/ /\ ~enabled
          /\ place' = "stop" /\ job' = "off"
          /\ UNCHANGED <<cfgPort, lastError, announced>>
       \/ /\ enabled /\ wanted = BadPort
          /\ lastError' = TRUE
          /\ Return("failed") /\ UNCHANGED cfgPort
       \/ /\ enabled /\ wanted # BadPort /\ Room
          /\ cfgPort' = wanted
          /\ place' = "stop" /\ job' = "on"
          /\ UNCHANGED <<lastError, announced>>
    /\ UNCHANGED <<settings, thread, aim, proxies, foreign, slipped>>

(* The daemon shuts down. *)
Shutdown ==
    /\ place = "free"
    /\ place' = "stop" /\ job' = "shutdown"
    /\ UNCHANGED <<settings, cfgPort, thread, lastError, aim, announced, proxies, foreign, slipped>>

(* _thread is forgotten; then the next step, or the answer. *)
Forget ==
    /\ thread' = None
    /\ \/ job = "on" /\ Go("begin")
       \/ job = "off" /\ Return("off")
       \/ job = "shutdown" /\ Return("down")
    /\ lastError' = (lastError /\ job # "off")
    /\ aim' = None

(* Deviation: the thread is forgotten and never told. *)
StopUntold ==
    /\ place = "stop"
    /\ Forget
    /\ UNCHANGED <<settings, cfgPort, proxies, foreign, slipped>>

Stop ==
    /\ place = "stop"
    /\ \/ /\ pair # None /\ thread # None
          /\ aim' = pair
          /\ Go("signal") /\ UNCHANGED <<thread, lastError>>
       \/ /\ pair = None \/ thread = None
          /\ Forget
    /\ UNCHANGED <<settings, cfgPort, proxies, foreign, slipped>>

(* call_soon_threadsafe raises on a closed loop, and with it the command. *)
Signal ==
    /\ place = "signal"
    /\ IF st[aim] \in {"closed", "none"}
       THEN Return("failed") /\ aim' = None /\ UNCHANGED told
       ELSE Go("join") /\ told' = [told EXCEPT ![aim] = TRUE] /\ UNCHANGED aim
    /\ UNCHANGED <<settings, cfgPort, thread, lastError, st, port, pair, foreign, slipped>>

(* Deviation: the proxy is told and not waited for. *)
JoinNot ==
    /\ place = "join"
    /\ Forget
    /\ UNCHANGED <<settings, cfgPort, proxies, foreign, slipped>>

(* The thread that is waited for is not always the one that was told. *)
Join ==
    /\ place = "join"
    /\ \/ ~Alive(thread) /\ UNCHANGED slipped
       \/ Alive(thread) /\ JoinMayTimeOut /\ slipped' = TRUE
    /\ Forget
    /\ UNCHANGED <<settings, cfgPort, proxies, foreign>>

Begin(t) ==
    /\ place = "begin" /\ st[t] = "none"
    /\ lastError' = FALSE
    /\ thread' = t
    /\ st' = [st EXCEPT ![t] = "boot"]
    /\ Go("error")
    /\ UNCHANGED <<settings, cfgPort, aim, told, port, pair, foreign, slipped>>

(* One turn of the waiting loop: the error, the port, the thread. *)
CheckError ==
    /\ place = "error"
    /\ \/ lastError /\ Return("failed") /\ UNCHANGED slipped
       \/ ~lastError /\ Go("port") /\ UNCHANGED slipped
       \/ BootMayBeSlow /\ Return("failed") /\ slipped' = TRUE
    /\ UNCHANGED <<settings, cfgPort, thread, lastError, aim, proxies, foreign>>

CheckPort ==
    /\ place = "port"
    /\ IF PortOpen(cfgPort) THEN Return("up") ELSE Go("alive")
    /\ slipped' = (slipped \/ (PortOpen(cfgPort) /\ ~OpenBy(thread, cfgPort)))
    /\ UNCHANGED <<settings, cfgPort, thread, lastError, aim, proxies, foreign>>

(* Deviation: the loop does not see that the thread is gone. *)
CheckAliveNot ==
    /\ place = "alive"
    /\ Go("error")
    /\ UNCHANGED <<settings, cfgPort, thread, lastError, aim, proxies, foreign, slipped>>

CheckAlive ==
    /\ place = "alive"
    /\ IF Alive(thread) THEN Go("error") ELSE Return("failed")
    /\ UNCHANGED <<settings, cfgPort, thread, lastError, aim, proxies, foreign, slipped>>

-----------------------------------------------------------------------------
(* The proxy thread *)

OwnStep == UNCHANGED <<settings, cfgPort, thread, holder, foreign, slipped>>

To(t, next) == st' = [st EXCEPT ![t] = next]

(* The loop and its event exist. *)
Pair(t) ==
    /\ st[t] = "boot"
    /\ To(t, "paired")
    /\ pair' = t
    /\ UNCHANGED <<told, port, lastError>>
    /\ OwnStep

(* start_server binds the configured port, or raises. *)
Bind(t) ==
    /\ st[t] = "paired"
    /\ \/ /\ ~PortOpen(cfgPort)
          /\ To(t, "up") /\ port' = [port EXCEPT ![t] = cfgPort]
          /\ UNCHANGED lastError
       \/ /\ PortOpen(cfgPort)
          /\ To(t, "closing")
          /\ lastError' = TRUE
          /\ UNCHANGED port
    /\ UNCHANGED <<told, pair>>
    /\ OwnStep

(* The event is set, and the server closed. *)
Obey(t) ==
    /\ st[t] = "up" /\ told[t]
    /\ To(t, "closing") /\ port' = [port EXCEPT ![t] = None]
    /\ UNCHANGED <<told, pair, lastError>>
    /\ OwnStep

(* The listening socket died: it is bound again, or that is the end. *)
SocketDies(t) ==
    /\ st[t] = "up"
    /\ \/ /\ \A u \in Threads \ {t} : ~OpenBy(u, cfgPort)
          /\ cfgPort \notin foreign
          /\ port' = [port EXCEPT ![t] = cfgPort]
          /\ UNCHANGED st
       \/ To(t, "closing") /\ port' = [port EXCEPT ![t] = None]
    /\ UNCHANGED <<told, pair, lastError>>
    /\ OwnStep

Close(t) ==
    /\ st[t] = "closing"
    /\ To(t, "closed")
    /\ UNCHANGED <<told, port, pair, lastError>>
    /\ OwnStep

(* Whatever _async_stop has become by now. *)
End(t) ==
    /\ st[t] = "closed"
    /\ To(t, "none") /\ told' = [told EXCEPT ![t] = FALSE]
    /\ pair' = None
    /\ UNCHANGED <<port, lastError>>
    /\ OwnStep

(* Another program takes a port or leaves it. *)
Others(p) ==
    /\ \/ p \in foreign /\ foreign' = foreign \ {p}
       \/ ~PortOpen(p) /\ foreign' = foreign \cup {p}
    /\ UNCHANGED <<settings, cfgPort, thread, lastError, holder, proxies, slipped>>

-----------------------------------------------------------------------------
GInit ==
    /\ enabled \in BOOLEAN /\ wanted \in Ports /\ cfgPort \in Ports
    /\ thread = None /\ pair = None /\ aim = None /\ lastError = FALSE
    /\ place = "free" /\ job = "none"
    /\ st = [t \in Threads |-> "none"]
    /\ told = [t \in Threads |-> FALSE]
    /\ port = [t \in Threads |-> None]
    /\ foreign = {} /\ announced = "off" /\ slipped = FALSE

Holder ==
    \/ Stop \/ Signal \/ Join \/ (\E t \in Threads : Begin(t))
    \/ CheckError \/ CheckPort \/ CheckAlive

Runs(t) == Pair(t) \/ Bind(t) \/ Obey(t) \/ Close(t) \/ End(t)

GNext ==
    \/ \E e \in BOOLEAN, p \in Ports \cup {BadPort} : Choose(e, p)
    \/ Apply \/ Shutdown \/ Holder
    \/ \E t \in Threads : Runs(t) \/ SocketDies(t)
    \/ \E p \in ForeignPorts : Others(p)

GSpec == GInit /\ [][GNext]_gvars

(* Threads go on; nobody has to apply, and no socket has to die. *)
FairGSpec == GSpec /\ WF_gvars(Holder) /\ \A t \in Threads : WF_gvars(Runs(t))

-----------------------------------------------------------------------------
(* Properties                                                              *)

(* While no command is at work, every proxy thread that is alive is the    *)
(* one in _thread, and stop can reach it: _async_stop is its own.          *)
Held == place = "free" => \A t \in Threads : Alive(t) => t = thread /\ t = pair

(* So it is, whatever sockets die and whatever other programs do, as long  *)
(* as no wait of the service has ended before what it waits for.           *)
Owned == ~slipped => Held

(* A start says that the proxy listens only when its own proxy does, or    *)
(* another program has the port: none of the service's earlier proxies is  *)
(* taken for the new one.                                                  *)
Claimed ==
    [][place = "port" /\ place' = "free" /\ announced' = "up" /\ ~slipped
         => OpenBy(thread, cfgPort) \/ cfgPort \in foreign]_gvars

(* Each command comes to an answer, though the proxies abandoned by some   *)
(* and other programs get in the way of the rest.                          *)
Answers == place # "free" ~> place = "free"

(* A proxy that was turned off, and not on again, ends. *)
OffForGood == <>[](announced = "off") => <>[](\A t \in Threads : st[t] = "none")

(* So it does as long as no wait has ended early. *)
OffLasts == [](~slipped) => OffForGood

(* Inductive: until a wait ends early, at most one proxy thread is alive,  *)
(* it is the one in _thread, _async_stop is its own from its second step   *)
(* on, and no command gets in before that step.                            *)
OneProxy ==
    /\ \A t \in Threads : Alive(t) => t = thread
    /\ \A t \in Threads : st[t] \notin {"none", "boot"} <=> pair = t
    /\ \A t \in Threads : st[t] = "boot" => place \in {"error", "port", "alive"} /\ ~lastError
    /\ \A t \in Threads : port[t] # None => st[t] = "up"
    /\ place = "begin" => thread = None
    /\ place \in {"signal", "join"} => thread # None /\ aim = thread
    /\ place \in {"error", "port", "alive"} => thread # None

GInv == GTypeOK /\ (~slipped => OneProxy)
=============================================================================
