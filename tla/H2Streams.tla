------------------------------ MODULE H2Streams ------------------------------
(***************************************************************************)
(* modules/tg_ws_proxy/proxy/h2_transport.py: the requests of one host     *)
(* share an HTTP/2 connection.  Each has a stream, of which there are few, *)
(* and two flow control windows; a request that waits sleeps on the event  *)
(* of its stream or on that of the connection, and whoever changes         *)
(* something it waits for sets the event.                                  *)
(*                                                                         *)
(* An event sets all that sleep on it, what comes later finds it cleared.  *)
(* A unit of data is what one frame carries.                               *)
(***************************************************************************)
EXTENDS Naturals, FiniteSets

CONSTANTS
    Requests,
    MaxStreams,    \* max_streams
    Window,        \* STREAM_RECEIVE_WINDOW
    Batch,         \* IO_BATCH_SIZE
    BodyUnits,     \* the length of a request's body
    MaxGen         \* bound on the connections made

VARIABLES conn, lock, req, srv

h2Vars == <<conn, lock, req, srv>>
Nobody == "nobody"

ASSUME StreamsAssumption ==
    /\ IsFiniteSet(Requests) /\ Nobody \notin Requests /\ MaxStreams \in Nat \ {0}
    /\ Window \in Nat /\ Batch \in Nat /\ BodyUnits \in Nat /\ MaxGen \in Nat

(* conn: the connection of the transport; closed: the transport's flag.    *)
(* req: its stream, once it has one.  asleep: it waits for the event.      *)
(* srv: what the server may still send and still take.                     *)
NewReq == [pc |-> "idle", gen |-> 0, asleep |-> FALSE, sent |-> 0, started |-> FALSE,
           chunks |-> 0, credit |-> 0, ended |-> FALSE, err |-> FALSE]
OnStream == {"body", "headers", "read", "taken"}

Dead(r) == conn.err \/ req[r].gen # conn.gen
Streams == {r \in Requests : req[r].pc \in OnStream /\ req[r].gen = conn.gen}
HasRoom == conn.settings /\ Cardinality(Streams) < conn.limit
OnConnection == {"reserve", "body"}

(* self.changed.set() of the connection, together with other changes.      *)
WakeConnection(reqs) ==
    [r \in Requests |-> IF reqs[r].pc \in OnConnection /\ reqs[r].gen = conn.gen
                        THEN [reqs[r] EXCEPT !.asleep = FALSE] ELSE reqs[r]]

(* Deviation: only the requests with a stream are woken. *)
FailStreams(reqs) ==
    [r \in Requests |-> IF reqs[r].gen # conn.gen \/ reqs[r].pc \notin OnStream THEN reqs[r]
                        ELSE [reqs[r] EXCEPT !.asleep = FALSE, !.err = ~reqs[r].ended]]

(* fail *)
FailAll(reqs) ==
    [r \in Requests |->
        IF reqs[r].gen # conn.gen \/ reqs[r].pc \notin OnStream \cup OnConnection THEN reqs[r]
        ELSE [reqs[r] EXCEPT !.asleep = FALSE, !.err = reqs[r].pc \in OnStream /\ ~reqs[r].ended]]
Fail == conn' = [conn EXCEPT !.err = TRUE]

(* aclose of a stream and release: its place is free, who waits is told.   *)
Released(reqs, r) ==
    IF reqs[r].gen = conn.gen THEN WakeConnection([reqs EXCEPT ![r] = NewReq])
    ELSE [reqs EXCEPT ![r] = NewReq]

Set(r, rec) == req' = [req EXCEPT ![r] = rec]
Awake(r, pc) == req[r].pc = pc /\ ~req[r].asleep
-----------------------------------------------------------------------------
(* H2Transport.handle_async_request *)

HandleRequest(r) ==
    /\ req[r].pc = "idle" /\ ~conn.closed
    /\ Set(r, [NewReq EXCEPT !.pc = "lock"])
    /\ UNCHANGED <<conn, lock, srv>>

(* With the lock: a connection that failed is replaced.                    *)
UseConnection(r) ==
    /\ req[r].pc = "lock" /\ lock = Nobody
    /\ IF conn.closed THEN Set(r, NewReq) /\ lock' = lock
       ELSE IF conn.gen = 0 \/ conn.err
            THEN conn.gen < MaxGen /\ lock' = r /\ Set(r, [req[r] EXCEPT !.pc = "connecting"])
            ELSE Set(r, [req[r] EXCEPT !.pc = "reserve", !.gen = conn.gen]) /\ lock' = lock
    /\ UNCHANGED <<conn, srv>>

Connected(r) ==
    /\ req[r].pc = "connecting"
    /\ conn' = [conn EXCEPT !.gen = @ + 1, !.err = FALSE, !.settings = FALSE, !.limit = 0]
    /\ Set(r, [req[r] EXCEPT !.pc = "reserve", !.gen = conn.gen + 1])
    /\ lock' = Nobody
    /\ UNCHANGED srv

ConnectFails(r) ==
    /\ req[r].pc = "connecting"
    /\ Set(r, NewReq) /\ lock' = Nobody
    /\ UNCHANGED <<conn, srv>>

(* The proxy ends. *)
CloseTransport ==
    /\ ~conn.closed /\ lock = Nobody
    /\ conn' = [conn EXCEPT !.closed = TRUE, !.err = TRUE]
    /\ req' = FailAll(req)
    /\ UNCHANGED <<lock, srv>>
-----------------------------------------------------------------------------
(* _Connection.reserve, send_body, request and _ResponseStream *)

ReserveStream(r) ==
    /\ Awake(r, "reserve")
    /\ IF Dead(r) THEN Set(r, NewReq) /\ srv' = srv
       ELSE IF HasRoom
            THEN /\ Set(r, [req[r] EXCEPT !.pc = "body"])
                 /\ srv' = [srv EXCEPT ![r] = [window |-> Window, takes |-> 1]]
            ELSE Set(r, [req[r] EXCEPT !.asleep = TRUE]) /\ srv' = srv
    /\ UNCHANGED <<conn, lock>>

SendBody(r) ==
    LET failed == Dead(r) \/ req[r].err IN
    /\ Awake(r, "body")
    /\ \/ failed /\ req' = Released(req, r) /\ srv' = srv
       \/ ~failed /\ req[r].sent = BodyUnits /\ Set(r, [req[r] EXCEPT !.pc = "headers"]) /\ srv' = srv
       \/ /\ ~failed /\ req[r].sent < BodyUnits /\ srv[r].takes > 0
          /\ Set(r, [req[r] EXCEPT !.sent = @ + 1])
          /\ srv' = [srv EXCEPT ![r].takes = @ - 1]
       \/ /\ ~failed /\ req[r].sent < BodyUnits /\ srv[r].takes = 0
          /\ Set(r, [req[r] EXCEPT !.asleep = TRUE]) /\ srv' = srv
    /\ UNCHANGED <<conn, lock>>

AwaitHeaders(r) ==
    /\ Awake(r, "headers")
    /\ \/ req[r].err /\ req' = Released(req, r)
       \/ ~req[r].err /\ req[r].started /\ Set(r, [req[r] EXCEPT !.pc = "read"])
       \/ ~req[r].err /\ ~req[r].started /\ Set(r, [req[r] EXCEPT !.asleep = TRUE])
    /\ UNCHANGED <<conn, lock, srv>>

ReadBody(r) ==
    /\ Awake(r, "read")
    /\ \/ req[r].err /\ req' = Released(req, r)
       \/ ~req[r].err /\ req[r].chunks > 0 /\ Set(r, [req[r] EXCEPT !.pc = "taken", !.chunks = @ - 1])
       \/ ~req[r].err /\ req[r].chunks = 0 /\ req[r].ended /\ req' = Released(req, r)
       \/ ~req[r].err /\ req[r].chunks = 0 /\ ~req[r].ended /\ Set(r, [req[r] EXCEPT !.asleep = TRUE])
    /\ UNCHANGED <<conn, lock, srv>>

(* Deviation: credit is returned a batch at a time and not otherwise. *)
ConsumedBatches(r, q, units) ==
    LET credit == q.credit + units IN
    IF Dead(r) \/ q.ended THEN Set(r, q) /\ srv' = srv
    ELSE IF credit < Batch THEN Set(r, [q EXCEPT !.credit = credit]) /\ srv' = srv
    ELSE Set(r, [q EXCEPT !.credit = 0]) /\ srv' = [srv EXCEPT ![r].window = @ + credit]

(* consumed: a batch at a time, or when nothing more is buffered.          *)
Consumed(r, q, units) ==
    LET credit == q.credit + units IN
    IF Dead(r) \/ q.ended THEN Set(r, q) /\ srv' = srv
    ELSE IF q.chunks > 0 /\ credit < Batch THEN Set(r, [q EXCEPT !.credit = credit]) /\ srv' = srv
    ELSE Set(r, [q EXCEPT !.credit = 0]) /\ srv' = [srv EXCEPT ![r].window = @ + credit]

ChunkConsumed(r) ==
    /\ req[r].pc = "taken"
    /\ Consumed(r, [req[r] EXCEPT !.pc = "read"], 1)
    /\ UNCHANGED <<conn, lock>>

Quit(r) == req' = IF req[r].pc = "reserve" THEN [req EXCEPT ![r] = NewReq] ELSE Released(req, r)

(* A timeout ends a wait.  The last request that reads takes the           *)
(* connection with it, one that cannot write only itself.                  *)
WaitTimesOut(r) ==
    /\ req[r].asleep
    /\ IF req[r].pc \in {"headers", "read"} /\ ~Dead(r) /\ \A q \in Streams \ {r} : req[q].ended
       THEN Fail /\ req' = FailAll([req EXCEPT ![r] = NewReq])
       ELSE conn' = conn /\ Quit(r)
    /\ UNCHANGED <<lock, srv>>

(* Its task is cancelled, or who reads the answer closes it.               *)
CancelRequest(r) ==
    /\ req[r].pc \in OnStream \cup {"reserve"}
    /\ Quit(r)
    /\ UNCHANGED <<conn, lock, srv>>
-----------------------------------------------------------------------------
(* read_loop: what the server sends *)

Open == conn.gen > 0 /\ ~conn.err
OpenH2Stream(r) == Open /\ r \in Streams /\ ~req[r].ended /\ ~req[r].err

RemoteSettings(n) ==
    /\ Open
    /\ conn' = [conn EXCEPT !.settings = TRUE, !.limit = IF n < MaxStreams THEN n ELSE MaxStreams]
    /\ req' = WakeConnection(req)
    /\ UNCHANGED <<lock, srv>>

WindowUpdated(r) ==
    /\ OpenH2Stream(r) /\ srv[r].takes = 0
    /\ srv' = [srv EXCEPT ![r].takes = 1]
    /\ req' = WakeConnection(req)
    /\ UNCHANGED <<conn, lock>>

(* A stream's own event wakes it when it waits for headers or data.        *)
Told(r, q) == IF q.pc = "body" THEN q ELSE [q EXCEPT !.asleep = FALSE]

ResponseReceived(r) ==
    /\ OpenH2Stream(r) /\ ~req[r].started
    /\ Set(r, Told(r, [req[r] EXCEPT !.started = TRUE]))
    /\ UNCHANGED <<conn, lock, srv>>

DataReceived(r) ==
    /\ OpenH2Stream(r) /\ req[r].started /\ srv[r].window > 0
    /\ srv' = [srv EXCEPT ![r].window = @ - 1]
    /\ Set(r, Told(r, [req[r] EXCEPT !.chunks = @ + 1]))
    /\ UNCHANGED <<conn, lock>>

(* A frame of padding is given back as it comes. *)
PaddingReceived(r) ==
    /\ OpenH2Stream(r) /\ req[r].started /\ srv[r].window > 0
    /\ LET q == Told(r, req[r])
           credit == q.credit + 1
       IN  IF q.chunks > 0 /\ credit < Batch
           THEN Set(r, [q EXCEPT !.credit = credit]) /\ srv' = [srv EXCEPT ![r].window = @ - 1]
           ELSE Set(r, [q EXCEPT !.credit = 0]) /\ srv' = [srv EXCEPT ![r].window = @ - 1 + credit]
    /\ UNCHANGED <<conn, lock>>

StreamEnded(r) ==
    /\ OpenH2Stream(r) /\ req[r].started
    /\ Set(r, Told(r, [req[r] EXCEPT !.ended = TRUE]))
    /\ UNCHANGED <<conn, lock, srv>>

StreamReset(r) ==
    /\ OpenH2Stream(r)
    /\ req' = WakeConnection([req EXCEPT ![r] = Told(r, [req[r] EXCEPT !.err = TRUE])])
    /\ UNCHANGED <<conn, lock, srv>>

(* GOAWAY, the end of the socket, a write that fails or times out.         *)
ConnectionLost ==
    /\ Open /\ Fail /\ req' = FailAll(req)
    /\ UNCHANGED <<lock, srv>>

H2SInit ==
    /\ conn = [gen |-> 0, err |-> FALSE, settings |-> FALSE, limit |-> 0, closed |-> FALSE]
    /\ lock = Nobody /\ req = [r \in Requests |-> NewReq]
    /\ srv = [r \in Requests |-> [window |-> 0, takes |-> 0]]

H2SNext ==
    \/ CloseTransport \/ ConnectionLost \/ \E n \in 1 .. MaxStreams + 1 : RemoteSettings(n)
    \/ \E r \in Requests :
          \/ HandleRequest(r) \/ UseConnection(r) \/ Connected(r) \/ ConnectFails(r)
          \/ ReserveStream(r) \/ SendBody(r) \/ AwaitHeaders(r) \/ ReadBody(r) \/ ChunkConsumed(r)
          \/ WaitTimesOut(r) \/ CancelRequest(r)
          \/ WindowUpdated(r) \/ ResponseReceived(r) \/ DataReceived(r) \/ PaddingReceived(r) \/ StreamEnded(r) \/ StreamReset(r)

H2SSpec == H2SInit /\ [][H2SNext]_h2Vars
-----------------------------------------------------------------------------
(* No request sleeps through what it waits for: a free stream, room to     *)
(* send, an answer, data, its end, an error of the stream or of the        *)
(* connection, whichever of the two events it sleeps on.                   *)
SleepsRightly ==
    \A r \in Requests : req[r].asleep =>
        /\ ~Dead(r) /\ ~req[r].err
        /\ req[r].pc = "reserve" => ~HasRoom
        /\ req[r].pc = "body" => srv[r].takes = 0
        /\ req[r].pc = "headers" => ~req[r].started
        /\ req[r].pc = "read" => req[r].chunks = 0 /\ ~req[r].ended

(* The window of a stream is what the server may send, what is buffered    *)
(* and what is not given back yet; a reader that waits for data has given  *)
(* everything back, so that the server can send it.  There are never more  *)
(* streams than the proxy allows.                                          *)
WindowReturned ==
    /\ Cardinality(Streams) <= MaxStreams
    /\ \A r \in Streams : ~conn.err /\ ~req[r].ended =>
          /\ srv[r].window + req[r].chunks + req[r].credit
                 + (IF req[r].pc = "taken" THEN 1 ELSE 0) = Window
          /\ req[r].pc = "read" /\ req[r].asleep => srv[r].window = Window
=============================================================================
