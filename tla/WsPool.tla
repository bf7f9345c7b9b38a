-------------------------------- MODULE WsPool --------------------------------
(***************************************************************************)
(* The pools of modules/tg_ws_proxy/proxy/pool.py, for one key: idle       *)
(* WebSockets kept ready for the next client.  A refill task connects what *)
(* is missing, reset (the proxy starts or ends) closes and forgets         *)
(* everything while refills of before still end.  _WsPool connects all at  *)
(* once, drops what is stale in a rotation task and pauses when nothing    *)
(* connects; _CfWorkerPool has none of the three, and is not refilled by a *)
(* client that finds it empty.                                             *)
(***************************************************************************)
EXTENDS Naturals, Sequences, FiniteSets, SequencesExt, Places

CONSTANTS
    Sockets,    \* the WebSockets of a run
    Refills,    \* names for the refill tasks that may be under way
    PoolSize    \* proxy_config.pool_size

VARIABLES
    workers,    \* the pool is a _CfWorkerPool
    bucket,     \* _idle[key], oldest first
    socket,     \* what became of each socket
    current,    \* _refilling[key]
    refill,     \* the refill tasks
    rotating,   \* the rotation task runs
    backoff     \* _refill_after lies ahead

poolVars == <<workers, bucket, socket, current, refill, rotating, backoff>>
NoRefill == "none"

ASSUME PoolAssumption == PoolSize \in Nat \ {0} /\ NoRefill \notin Refills

NotRunning == [pc |-> "off", needed |-> 0, results |-> {}, connected |-> FALSE]

(* fresh: not connected yet; held: connected, its task's result; idle;     *)
(* stale: idle, but old or closed by the other side; given: a client's.    *)
SocketStates == {"fresh", "held", "idle", "stale", "given", "closed"}

CloseAll(ws) == [w \in Sockets |-> IF w \in ws THEN "closed" ELSE socket[w]]
IsStale(w) == socket[w] = "stale"

(* One refill at a time. *)
StartRefill ==
    IF current # NoRefill THEN UNCHANGED <<current, refill>>
    ELSE \E f \in Refills : /\ refill[f].pc = "off"
                            /\ current' = f
                            /\ refill' = [refill EXCEPT ![f] = [NotRunning EXCEPT !.pc = "start"]]

(* _schedule_refill: none while the pause lasts; _schedule_rotation.       *)
ScheduleRefill ==
    /\ rotating' = TRUE
    /\ IF backoff THEN UNCHANGED <<current, refill>> ELSE StartRefill

(* The places of what is not stale. *)
Good == {i \in DOMAIN bucket : ~IsStale(bucket[i])}

(* The head of both get: the first that is not stale is the client's, the  *)
(* stale ones before it are closed.                                        *)
Taken ==
    LET n == IF Good = {} THEN Len(bucket) ELSE CHOOSE i \in Good : \A k \in Good : i <= k
        dropped == {bucket[i] : i \in {k \in 1 .. n : IsStale(bucket[k])}}
    IN  /\ socket' = [w \in Sockets |-> IF w \in dropped THEN "closed"
                                        ELSE IF Good # {} /\ w = bucket[n] THEN "given" ELSE socket[w]]
        /\ bucket' = SubSeq(bucket, n + 1, Len(bucket))

GetSocket ==
    /\ ~workers /\ Taken
    /\ ScheduleRefill
    /\ UNCHANGED <<workers, backoff>>

GetWorker ==
    /\ workers /\ Taken
    /\ IF Good = {} THEN UNCHANGED <<current, refill>> ELSE StartRefill
    /\ UNCHANGED <<workers, rotating, backoff>>

(* _rotate: what is stale goes, what is missing is refilled.               *)
Rotated ==
    LET ready == Picked(bucket, Good) IN
    /\ rotating
    /\ socket' = CloseAll({bucket[i] : i \in DOMAIN bucket} \ {ready[i] : i \in DOMAIN ready})
    /\ bucket' = ready
    /\ IF Len(ready) < PoolSize THEN ScheduleRefill ELSE UNCHANGED <<current, refill, rotating>>
    /\ UNCHANGED <<workers, backoff>>

Warmup == ~workers /\ ScheduleRefill /\ UNCHANGED <<workers, bucket, socket, backoff>>
WarmupWorkers == workers /\ StartRefill /\ UNCHANGED <<workers, bucket, socket, rotating, backoff>>

(* _refill: what is missing is counted once. *)
Started(f, size) ==
    /\ refill[f].pc = "start"
    /\ refill' = [refill EXCEPT ![f] = IF Len(bucket) >= size THEN [@ EXCEPT !.pc = "finally"]
                                       ELSE [@ EXCEPT !.pc = "connect", !.needed = size - Len(bucket)]]
    /\ UNCHANGED <<workers, bucket, socket, current, rotating, backoff>>

RefillStarts(f) == ~workers /\ Started(f, PoolSize)

(* The smaller of pool_size and PER_DC_LIMIT, which is 1. *)
WorkersStart(f) == workers /\ Started(f, 1)

(* _connect_one: a task of the refill ends with a socket or with none.     *)
ConnectOne(f, w) ==
    /\ ~workers /\ refill[f].pc = "connect" /\ refill[f].needed > 0 /\ socket[w] = "fresh"
    /\ socket' = [socket EXCEPT ![w] = "held"]
    /\ refill' = [refill EXCEPT ![f].needed = @ - 1, ![f].results = @ \cup {w}]
    /\ UNCHANGED <<workers, bucket, current, rotating, backoff>>

ConnectNone(f) ==
    /\ ~workers /\ refill[f].pc = "connect" /\ refill[f].needed > 0
    /\ refill' = [refill EXCEPT ![f].needed = @ - 1]
    /\ UNCHANGED <<workers, bucket, socket, current, rotating, backoff>>

(* The refill of workers connects one after the other, and takes each over *)
(* before it goes on; the first that nobody accepts ends it.               *)
ConnectWorker(f, w) ==
    /\ workers /\ refill[f].pc = "connect" /\ socket[w] = "fresh"
    /\ IF current = f
       THEN /\ bucket' = Append(bucket, w) /\ socket' = [socket EXCEPT ![w] = "idle"]
            /\ refill' = [refill EXCEPT ![f].needed = @ - 1,
                                       ![f].pc = IF refill[f].needed = 1 THEN "finally" ELSE "connect"]
       ELSE /\ socket' = [socket EXCEPT ![w] = "closed"] /\ bucket' = bucket
            /\ refill' = [refill EXCEPT ![f].pc = "finally"]
    /\ UNCHANGED <<workers, current, rotating, backoff>>

NoWorker(f) ==
    /\ workers /\ refill[f].pc = "connect"
    /\ refill' = [refill EXCEPT ![f].pc = "finally"]
    /\ UNCHANGED <<workers, bucket, socket, current, rotating, backoff>>

(* A refill that is no longer the current one takes nothing over. *)
Adopt(f, w) ==
    /\ ~workers /\ refill[f].pc = "connect" /\ w \in refill[f].results
    /\ IF current = f
       THEN /\ bucket' = Append(bucket, w) /\ socket' = [socket EXCEPT ![w] = "idle"]
            /\ refill' = [refill EXCEPT ![f].results = @ \ {w}, ![f].connected = TRUE]
       ELSE refill' = [refill EXCEPT ![f].pc = "finally"] /\ UNCHANGED <<bucket, socket>>
    /\ UNCHANGED <<workers, current, rotating, backoff>>

(* All have ended.  After nothing but failures there is a pause. *)
RefillEnds(f) ==
    /\ ~workers /\ refill[f].pc = "connect" /\ refill[f].needed = 0 /\ refill[f].results = {}
    /\ backoff' = ~refill[f].connected
    /\ refill' = [refill EXCEPT ![f].pc = "finally"]
    /\ UNCHANGED <<workers, bucket, socket, current, rotating>>

(* Deviation: a cancelled refill leaves its sockets. *)
FinallyDropped(f) ==
    /\ refill[f].pc = "finally"
    /\ refill' = [refill EXCEPT ![f] = NotRunning]
    /\ current' = IF current = f THEN NoRefill ELSE current
    /\ UNCHANGED <<workers, bucket, socket, rotating, backoff>>

(* The finally clause: tasks that still connect are cancelled, or have     *)
(* just got a socket; what was not adopted is closed.                      *)
Finally(f) ==
    /\ refill[f].pc = "finally"
    /\ socket' = CloseAll(refill[f].results)
    /\ refill' = [refill EXCEPT ![f] = NotRunning]
    /\ current' = IF current = f THEN NoRefill ELSE current
    /\ UNCHANGED <<workers, bucket, rotating, backoff>>

(* reset: the refills of this loop are cancelled wherever they are.        *)
Emptied ==
    /\ socket' = CloseAll({bucket[i] : i \in DOMAIN bucket})
    /\ bucket' = <<>> /\ current' = NoRefill
    /\ refill' = [f \in Refills |->
          CASE refill[f].pc = "start" -> NotRunning
            [] refill[f].pc = "connect" -> [refill[f] EXCEPT !.pc = "finally"]
            [] OTHER -> refill[f]]

ResetPool == ~workers /\ Emptied /\ rotating' = FALSE /\ backoff' = FALSE /\ workers' = workers
ResetWorkers == workers /\ Emptied /\ UNCHANGED <<workers, rotating, backoff>>

SocketAges(w) ==
    /\ socket[w] = "idle" /\ socket' = [socket EXCEPT ![w] = "stale"]
    /\ UNCHANGED <<workers, bucket, current, refill, rotating, backoff>>

PauseEnds == backoff /\ backoff' = FALSE /\ UNCHANGED <<workers, bucket, socket, current, refill, rotating>>

PoolInit ==
    /\ workers \in BOOLEAN /\ bucket = <<>> /\ socket = [w \in Sockets |-> "fresh"] /\ current = NoRefill
    /\ refill = [f \in Refills |-> NotRunning] /\ rotating = FALSE /\ backoff = FALSE

PoolNext ==
    \/ GetSocket \/ Rotated \/ Warmup \/ ResetPool \/ PauseEnds
    \/ GetWorker \/ WarmupWorkers \/ ResetWorkers
    \/ \E w \in Sockets : SocketAges(w)
    \/ \E f \in Refills :
          \/ RefillStarts(f) \/ ConnectNone(f) \/ RefillEnds(f) \/ Finally(f)
          \/ WorkersStart(f) \/ NoWorker(f)
          \/ \E w \in Sockets : ConnectOne(f, w) \/ Adopt(f, w) \/ ConnectWorker(f, w)

PoolSpec == PoolInit /\ [][PoolNext]_poolVars
-----------------------------------------------------------------------------
(* Every open socket has one owner, who will use or close it: the bucket,  *)
(* a refill that runs, or a client; the bucket holds no closed one and     *)
(* never more than the settings allow.                                     *)
SocketsOwned ==
    /\ Len(bucket) <= (IF workers THEN 1 ELSE PoolSize) /\ IsInjective(bucket)
    /\ \A w \in Sockets :
          /\ socket[w] \in {"idle", "stale"} <=> Contains(bucket, w)
          /\ socket[w] = "held" <=> \E f \in Refills : w \in refill[f].results
=============================================================================
