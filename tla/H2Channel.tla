------------------------------ MODULE H2Channel ------------------------------
(***************************************************************************)
(* modules/tg_ws_proxy/proxy/cf_h2.py: a native connection of Telegram is  *)
(* a channel, its packets are HTTP requests.  The channels of a host share *)
(* one lane and its capacity; a packet whose answer does not come is sent  *)
(* again.                                                                  *)
(*                                                                         *)
(* Everything runs on one event loop: a step is what happens between two   *)
(* awaits.  A Condition's lock is never held over an await (Python 3.12,   *)
(* docs/BUILD.md), so taking it is no step.  All packets have one size:    *)
(* the bounds on bytes are bounds on their number.                         *)
(***************************************************************************)
EXTENDS Integers, FiniteSets, Sequences

CONSTANTS
    Channels,
    Slots,           \* names for the requests of a channel in flight: MAX_CHANNEL_REQUESTS of them
    Packets,         \* the bodies a client sends
    KeyOf,           \* their authorization key; NoKey: a packet of the handshake
    MaxLane,         \* MAX_LANE_REQUESTS
    MaxHistory,      \* REPLAY_HISTORY_PACKETS
    MaxReplays,      \* MAX_CHANNEL_REPLAYS
    MaxAttempts,     \* REPLAY_MAX_ATTEMPTS
    MaxQueue,        \* the size of the queue of answers
    MaxOthers,       \* requests of channels of the lane that are not modelled one by one
    NoKey, None

ASSUME H2Assumption ==
    /\ IsFiniteSet(Channels) /\ IsFiniteSet(Slots) /\ None \notin Channels \cup Slots \cup Packets
    /\ MaxLane \in Nat \ {0} /\ MaxHistory \in Nat \ {0} /\ MaxReplays \in Nat \ {0}
    /\ MaxAttempts \in Nat \ {0} /\ MaxQueue \in Nat \ {0} /\ MaxOthers \in Nat

VARIABLES
    tasks,      \* pending: each channel's requests in flight, None where a slot is free
    hist,       \* replay_history: the packets that may be sent again, oldest first
    entry,      \* what the history says of each packet
    key,        \* replay_key
    ready,      \* the answers in the queue for the client
    closed,     \* the channel failed or was closed
    transport,  \* transport_error: the code that the client is to get
    up,         \* upload of bridge_h2
    down,       \* download of bridge_h2
    rec,        \* _recover
    bridge,     \* bridge_h2 itself
    closing,    \* close
    inflight,   \* the lane's requests
    others,     \* those of its other channels
    laneClosed

client == <<ready, closed, transport>>
history == <<hist, entry, key>>
loops == <<up, down, rec, bridge, closing>>
lane == <<inflight, others, laneClosed>>
hvars == <<tasks, history, client, loops, lane>>

(* posting: connecting, waiting for a stream or uploading; late: sent, and *)
(* for REPLAY_REQUEST_SECONDS no answer; body: the answer is arriving.     *)
States == {"new", "posting", "late", "body"}
TaskRec == [packet: Packets, replay: BOOLEAN, known: BOOLEAN, st: States, cancelled: BOOLEAN]
EntryRec == [attempts: 0 .. MaxAttempts, retired: BOOLEAN, old: BOOLEAN]
UpRec == [pc: {"read", "channel", "lane"}, packet: Packets \cup {None}, woken: BOOLEAN]
PassRec == [pc: {"wait", "room", "rotate"}, packet: Packets \cup {None},
            of: Channels \cup {None}, slot: Slots \cup {None}]
Fresh == [attempts |-> 0, retired |-> FALSE, old |-> FALSE]

ASSUME NoneIsNoTask == None \notin TaskRec

H2TypeOK ==
    /\ tasks \in [Channels -> [Slots -> TaskRec \cup {None}]]
    /\ hist \in [Channels -> Seq(Packets)]
    /\ key \in [Channels -> {KeyOf[p] : p \in Packets} \cup {NoKey}]
    /\ entry \in [Channels -> [Packets -> EntryRec]]
    /\ ready \in [Channels -> 0 .. MaxQueue]
    /\ closed \in [Channels -> BOOLEAN] /\ transport \in [Channels -> BOOLEAN]
    /\ up \in [Channels -> UpRec]
    /\ down \in [Channels -> {"get", "writing"}]
    /\ rec \in [Channels -> PassRec]
    /\ bridge \in [Channels -> {"none", "run", "report", "told", "close", "ended"}]
    /\ closing \in [Channels -> {"no", "begun", "done"}]
    /\ inflight \in Int /\ others \in 0 .. MaxOthers /\ laneClosed \in BOOLEAN

-----------------------------------------------------------------------------
Pending(c) == {s \in Slots : tasks[c][s] # None}
Replays(c) == {s \in Pending(c) : tasks[c][s].replay}
Receiving(c) == {s \in Pending(c) : tasks[c][s].st = "body"}
Late(c, s) == tasks[c][s].st = "late"
HasCapacity(c) == Pending(c) # Slots
LaneHasCapacity == inflight < MaxLane
Waiting(c) == up[c].pc \in {"channel", "lane"}

(* The request objects an entry of the history holds. *)
Originals(c, p) == {s \in Pending(c) : tasks[c][s].packet = p /\ tasks[c][s].known /\ ~tasks[c][s].replay}
Again(c, p) == {s \in Replays(c) : tasks[c][s].packet = p /\ tasks[c][s].known}

(* reply_bytes is not zero, or the client has not taken the last answer.   *)
Backpressure(c) == down[c] = "writing" \/ ready[c] > 0

OverdueOriginal(c, p) == entry[c][p].retired \/ \E s \in Originals(c, p) : Late(c, s)

ReplayLimit(c, p) ==
    IF Originals(c, p) # {} \/ entry[c][p].retired \/ p = hist[c][Len(hist[c])] THEN MaxAttempts ELSE 0

(* _replay_blocker, but for the pauses between two attempts and after the  *)
(* last answer: a step that is possible need not be taken yet.             *)
ReplayDue(c, p) ==
    /\ ~entry[c][p].old
    /\ entry[c][p].attempts < ReplayLimit(c, p)
    /\ ~Backpressure(c)
    /\ (Originals(c, p) \cup Again(c, p)) \cap Receiving(c) = {}
    /\ \/ OverdueOriginal(c, p)
       \/ p = hist[c][Len(hist[c])] /\ Pending(c) \subseteq Again(c, p)

(* _fail, with what it does to the answers that were not delivered.        *)
Fail(c, isTransport) ==
    IF closed[c] THEN UNCHANGED client
    ELSE /\ closed' = [closed EXCEPT ![c] = TRUE]
         /\ transport' = [transport EXCEPT ![c] = isTransport]
         /\ ready' = [ready EXCEPT ![c] = 0]

(* _reserve: the lane counts the request. *)
Reserve == inflight' = inflight + 1

(* _release wakes every upload of the lane that waits for room; the end of *)
(* _finish_request one of the channel itself, too.                         *)
Release(n) == inflight' = inflight - n

(* Deviation: nobody is told. *)
WokenNot(waiting) == up

Woken(waiting) == [d \in Channels |-> IF waiting[d] THEN [up[d] EXCEPT !.woken = TRUE] ELSE up[d]]
WakeLane == up' = Woken([d \in Channels |-> up[d].pc = "lane"])
WakeUploads(c) ==
    up' = Woken([d \in Channels |-> up[d].pc = "lane" \/ (d = c /\ up[d].pc = "channel")])

(* What the channel forgets of a request when its history is cleared.      *)
Forget(c, ps) == [s \in Slots |->
    IF tasks[c][s] = None THEN None
    ELSE [tasks[c][s] EXCEPT !.known = @ /\ tasks[c][s].packet \notin ps]]

InHistory(c, p) == \E i \in DOMAIN hist[c] : hist[c][i] = p
Without(h, i) == [j \in 1 .. Len(h) - 1 |-> h[IF j < i THEN j ELSE j + 1]]
HistorySet(c) == {hist[c][i] : i \in DOMAIN hist[c]}

-----------------------------------------------------------------------------
(* _remember_packet and _trim_history.  Remembered is the history with the *)
(* packet; one that another key encrypts forgets all that came before.     *)
Remembered(c, p) ==
    CASE KeyOf[p] = NoKey -> hist[c]
      [] KeyOf[p] # NoKey /\ KeyOf[p] # key[c] -> <<p>>
      [] KeyOf[p] = key[c] /\ InHistory(c, p) -> hist[c]
      [] KeyOf[p] = key[c] /\ ~InHistory(c, p) -> Append(hist[c], p)

(* Deviation: the oldest packet goes, whatever becomes of it. *)
VictimFirst(c, h, p) == 1

(* Retired packets with attempts left are spared, and those whose request  *)
(* is in flight, p's among them.                                           *)
Spared(c, q) == \/ Originals(c, q) # {}
                \/ entry[c][q].retired /\ entry[c][q].attempts < MaxAttempts /\ ~entry[c][q].old
Victim(c, h, p) ==
    LET free == {i \in DOMAIN h : h[i] # p /\ ~Spared(c, h[i])}
    IN  IF free = {} THEN 1 ELSE CHOOSE i \in free : \A j \in free : i <= j
Trimmed(c, h, p) == IF Len(h) > MaxHistory THEN Without(h, Victim(c, h, p)) ELSE h

(* What the history loses when p is sent. *)
Lost(c, p) ==
    LET h == Trimmed(c, Remembered(c, p), p) IN
    CASE KeyOf[p] = NoKey -> {}
      [] KeyOf[p] # NoKey /\ KeyOf[p] # key[c] -> HistorySet(c)
      [] KeyOf[p] = key[c] -> {q \in HistorySet(c) : \A i \in DOMAIN h : h[i] # q}

(* The end of _send for a packet of the client: a task is made for it.     *)
Submit(c, p) ==
    LET kept == KeyOf[p] # NoKey
        lost == Lost(c, p)
    IN  \E s \in Slots \ Pending(c) :
          /\ Reserve
          /\ hist' = [hist EXCEPT ![c] = IF kept THEN Trimmed(c, Remembered(c, p), p) ELSE @]
          /\ key' = [key EXCEPT ![c] = IF kept THEN KeyOf[p] ELSE @]
          /\ entry' = [entry EXCEPT ![c] = [q \in Packets |-> IF q \in lost THEN Fresh ELSE entry[c][q]]]
          /\ tasks' = [tasks EXCEPT ![c] = [Forget(c, lost) EXCEPT ![s] =
                [packet |-> p, replay |-> FALSE, known |-> kept, st |-> "new", cancelled |-> FALSE]]]

(* upload and _send.  A packet waits for room in the channel, then in the  *)
(* lane.                                                                   *)
Proceed(c, p) ==
    \/ ~HasCapacity(c) /\ up' = [up EXCEPT ![c] = [pc |-> "channel", packet |-> p, woken |-> FALSE]]
       /\ UNCHANGED <<tasks, history, inflight>>
    \/ HasCapacity(c) /\ ~LaneHasCapacity
       /\ up' = [up EXCEPT ![c] = [pc |-> "lane", packet |-> p, woken |-> FALSE]]
       /\ UNCHANGED <<tasks, history, inflight>>
    \/ HasCapacity(c) /\ LaneHasCapacity /\ Submit(c, p)
       /\ up' = [up EXCEPT ![c] = [pc |-> "read", packet |-> None, woken |-> FALSE]]

UploadPacket(c, p) ==
    /\ bridge[c] = "run" /\ up[c].pc = "read" /\ ~closed[c] /\ ~laneClosed
    /\ Proceed(c, p)
    /\ UNCHANGED <<client, down, rec, bridge, closing, others, laneClosed>>

(* A waiting upload that was woken: the channel or the lane may be closed. *)
UploadAgain(c) ==
    /\ bridge[c] = "run" /\ Waiting(c) /\ up[c].woken /\ ~closed[c] /\ ~laneClosed
    /\ Proceed(c, up[c].packet)
    /\ UNCHANGED <<client, down, rec, bridge, closing, others, laneClosed>>

-----------------------------------------------------------------------------
(* A request: _run_request, _post *)

Set(c, s, st) == tasks' = [tasks EXCEPT ![c][s].st = st]

Start(c, s) ==
    /\ s \in Pending(c) /\ ~tasks[c][s].cancelled /\ tasks[c][s].st = "new"
    /\ Set(c, s, "posting")
    /\ UNCHANGED <<history, client, loops, lane>>

(* Its body was sent, and REPLAY_REQUEST_SECONDS passed since. *)
NoAnswer(c, s) ==
    /\ s \in Pending(c) /\ ~tasks[c][s].cancelled /\ tasks[c][s].st = "posting"
    /\ Set(c, s, "late")
    /\ UNCHANGED <<history, client, loops, lane>>

ResponseStarted(c, s) ==
    /\ s \in Pending(c) /\ ~tasks[c][s].cancelled /\ tasks[c][s].st \in {"posting", "late"}
    /\ Set(c, s, "body")
    /\ UNCHANGED <<history, client, loops, lane>>

(* A pass that waits for the end of a request goes on. *)
Awaited(c, s) == [d \in Channels |-> IF rec[d].of = c /\ rec[d].slot = s
                                     THEN [rec[d] EXCEPT !.of = None, !.slot = None] ELSE rec[d]]

(* _finish_request *)
FinishRequest(c, s) ==
    /\ tasks' = [tasks EXCEPT ![c][s] = None]
    /\ Release(1)
    /\ WakeUploads(c)
    /\ rec' = Awaited(c, s)
    /\ UNCHANGED <<hist, key, down, bridge, closing, others, laneClosed>>

(* Deviation: an answer is queued for a channel that has failed. *)
AnsweredClosed(c, s, new) ==
    /\ s \in Pending(c) /\ ~tasks[c][s].cancelled /\ tasks[c][s].st = "body"
    /\ entry' = entry /\ ready[c] < MaxQueue
    /\ ready' = [ready EXCEPT ![c] = @ + 1] /\ UNCHANGED <<closed, transport>>
    /\ FinishRequest(c, s)

(* An answer: with a body it goes to the client, and the packet of a new   *)
(* answer may be sent again as often as at first.                          *)
Answered(c, s, new) ==
    /\ s \in Pending(c) /\ ~tasks[c][s].cancelled /\ tasks[c][s].st = "body"
    /\ IF closed[c] THEN UNCHANGED <<client, entry>>
       ELSE /\ entry' = IF new /\ tasks[c][s].known
                        THEN [entry EXCEPT ![c][tasks[c][s].packet].attempts = 0] ELSE entry
            /\ IF ready[c] = MaxQueue THEN Fail(c, FALSE)
               ELSE ready' = [ready EXCEPT ![c] = @ + 1] /\ UNCHANGED <<closed, transport>>
    /\ FinishRequest(c, s)

AnsweredEmpty(c, s) ==
    /\ s \in Pending(c) /\ ~tasks[c][s].cancelled /\ tasks[c][s].st = "body"
    /\ UNCHANGED <<client, entry>>
    /\ FinishRequest(c, s)

(* An HTTP status or a body of four bytes that is an error of MTProto, or  *)
(* any other error: timeout, reset, cut off body, full buffers.            *)
Refused(c, s) ==
    /\ s \in Pending(c) /\ ~tasks[c][s].cancelled /\ tasks[c][s].st = "body"
    /\ Fail(c, TRUE)
    /\ UNCHANGED entry
    /\ FinishRequest(c, s)

Broken(c, s) ==
    /\ s \in Pending(c) /\ ~tasks[c][s].cancelled /\ tasks[c][s].st # "new"
    /\ Fail(c, FALSE)
    /\ UNCHANGED entry
    /\ FinishRequest(c, s)

(* A cancelled task ends, if it has begun: else none of its code runs.     *)
Cancelled(c, s) ==
    /\ s \in Pending(c) /\ tasks[c][s].cancelled /\ tasks[c][s].st # "new"
    /\ UNCHANGED <<client, entry>>
    /\ FinishRequest(c, s)

(* REPLAY_MAX_AGE after it was sent first: the history is in that order.    *)
PacketExpires(c, p) ==
    /\ ~entry[c][p].old
    /\ \E i \in DOMAIN hist[c] : hist[c][i] = p /\ \A j \in 1 .. i - 1 : entry[c][hist[c][j]].old
    /\ entry' = [entry EXCEPT ![c][p].old = TRUE]
    /\ UNCHANGED <<tasks, hist, key, client, loops, lane>>

-----------------------------------------------------------------------------
(* _recover *)

(* _capacity_candidate: a request that has waited too long and that can be *)
(* done without, replays before packets of the client.                     *)
Candidates(d) ==
    {s \in Pending(d) : /\ Late(d, s) /\ ~tasks[d][s].cancelled
                        /\ \/ tasks[d][s].replay
                           \/ tasks[d][s].known /\ ~entry[d][tasks[d][s].packet].old}
Preferred(d) == {s \in Candidates(d) : tasks[d][s].replay \/ Candidates(d) \cap Replays(d) = {}}

RoomNeeded(c) ==
    /\ ~closed[c]
    /\ \/ up[c].pc = "channel" /\ ~HasCapacity(c)
       \/ up[c].pc = "lane" /\ ~LaneHasCapacity
RoomIn(c) == IF up[c].pc = "channel" THEN {c} ELSE Channels

(* _make_upload_room cancels it and waits for its end; what it carried is  *)
(* kept to be sent again.                                                  *)
MakeRoom(c) ==
    /\ bridge[c] = "run" /\ rec[c].pc = "wait" /\ RoomNeeded(c)
    /\ \E d \in RoomIn(c) : \E s \in Preferred(d) :
          /\ tasks' = [tasks EXCEPT ![d][s].cancelled = TRUE]
          /\ entry' = IF tasks[d][s].replay THEN entry
                      ELSE [entry EXCEPT ![d][tasks[d][s].packet].retired = TRUE]
          /\ rec' = [rec EXCEPT ![c] = [pc |-> "room", packet |-> None, of |-> d, slot |-> s]]
    /\ UNCHANGED <<hist, key, client, up, down, bridge, closing, lane>>

(* A replay that hangs is replaced by the same packet, or with all replays *)
(* taken by another.                                                       *)
Replaced(c, p) ==
    IF Again(c, p) # {} THEN Again(c, p)
    ELSE IF Cardinality(Replays(c)) >= MaxReplays THEN Replays(c) \ Receiving(c) ELSE {}

(* send(replay=True): nothing waits, it is sent or not. *)
MaySend(c, p) ==
    /\ ~Waiting(c) /\ HasCapacity(c) /\ LaneHasCapacity
    /\ InHistory(c, p) /\ Again(c, p) = {} /\ ReplayDue(c, p)

Resend(c, p) ==
    \E s \in Slots \ Pending(c) :
        /\ Reserve
        /\ tasks' = [tasks EXCEPT ![c][s] = [packet |-> p, replay |-> TRUE, known |-> TRUE,
                                             st |-> "new", cancelled |-> FALSE]]
        /\ entry' = [entry EXCEPT ![c][p].attempts = @ + 1]

(* A pass that made no room, or whose cancelled request has ended.         *)
PassBegins(c) ==
    /\ bridge[c] = "run" /\ ~closed[c]
    /\ \/ rec[c].pc = "wait" /\ (RoomNeeded(c) => \A d \in RoomIn(c) : Candidates(d) = {})
       \/ rec[c].pc = "room" /\ rec[c].slot = None
Rest(c) == rec' = [rec EXCEPT ![c] = [pc |-> "wait", packet |-> None, of |-> None, slot |-> None]]

Replay(c, p) ==
    /\ PassBegins(c) /\ InHistory(c, p)
    /\ Again(c, p) = {} /\ Cardinality(Replays(c)) < MaxReplays
    /\ MaySend(c, p) /\ Resend(c, p)
    /\ Rest(c)
    /\ UNCHANGED <<hist, key, client, up, down, bridge, closing, others, laneClosed>>

(* REPLAY_SLOT_SECONDS after it was sent. *)
Rotate(c, p) ==
    /\ PassBegins(c) /\ InHistory(c, p) /\ ReplayDue(c, p)
    /\ \E s \in Replaced(c, p) :
          /\ Late(c, s) /\ ~tasks[c][s].cancelled
          /\ tasks' = [tasks EXCEPT ![c][s].cancelled = TRUE]
          /\ rec' = [rec EXCEPT ![c] = [pc |-> "rotate", packet |-> p, of |-> c, slot |-> s]]
    /\ UNCHANGED <<history, client, up, down, bridge, closing, lane>>

(* Deviation: it is sent whatever has become of it. *)
RotatedBlind(c) ==
    LET p == rec[c].packet IN
    /\ bridge[c] = "run" /\ rec[c].pc = "rotate" /\ rec[c].slot = None /\ ~closed[c]
    /\ IF HasCapacity(c) /\ LaneHasCapacity /\ entry[c][p].attempts < MaxAttempts THEN Resend(c, p)
       ELSE UNCHANGED <<tasks, entry, inflight>>
    /\ Rest(c)
    /\ UNCHANGED <<hist, key, client, up, down, bridge, closing, others, laneClosed>>

(* While the pass waited, the packet may have been forgotten or answered.  *)
Rotated(c) ==
    LET p == rec[c].packet IN
    /\ bridge[c] = "run" /\ rec[c].pc = "rotate" /\ rec[c].slot = None /\ ~closed[c]
    /\ IF InHistory(c, p) /\ MaySend(c, p) THEN Resend(c, p) ELSE UNCHANGED <<tasks, entry, inflight>>
    /\ Rest(c)
    /\ UNCHANGED <<hist, key, client, up, down, bridge, closing, others, laneClosed>>

RoomMade(c) ==
    /\ PassBegins(c) /\ rec[c].pc = "room"
    /\ Rest(c)
    /\ UNCHANGED <<tasks, history, client, up, down, bridge, closing, lane>>

-----------------------------------------------------------------------------
(* download, bridge_h2, close *)

Receive(c) ==
    /\ bridge[c] = "run" /\ down[c] = "get" /\ ready[c] > 0
    /\ ready' = [ready EXCEPT ![c] = @ - 1]
    /\ down' = [down EXCEPT ![c] = "writing"]
    /\ UNCHANGED <<tasks, history, closed, transport, up, rec, bridge, closing, lane>>

Delivered(c) ==
    /\ bridge[c] = "run" /\ down[c] = "writing"
    /\ down' = [down EXCEPT ![c] = "get"]
    /\ UNCHANGED <<tasks, history, client, up, rec, bridge, closing, lane>>

(* The beginning of close: the first to come does it. *)
BeginClose(cs) ==
    LET first == {c \in cs : closing[c] = "no"} IN
    /\ closing' = [c \in Channels |-> IF c \in first THEN "begun" ELSE closing[c]]
    /\ closed' = [c \in Channels |-> closed[c] \/ c \in first]
    /\ ready' = [c \in Channels |-> IF c \in first THEN 0 ELSE ready[c]]
    /\ transport' = transport
    /\ tasks' = [c \in Channels |-> [s \in Slots |->
                    IF c \in first /\ tasks[c][s] # None
                    THEN [tasks[c][s] EXCEPT !.cancelled = TRUE] ELSE tasks[c][s]]]

(* The first of the three loops to end ends the others: upload when the    *)
(* client is gone, sends what is no packet, waits for REQUEST_TIMEOUT or   *)
(* finds the channel closed; download when the client is gone or the error *)
(* is all there is; _recover when the channel failed.  Without an error to *)
(* report the channel is closed before anything else can happen.           *)
Idle(c) ==
    /\ up' = [up EXCEPT ![c] = [pc |-> "read", packet |-> None, woken |-> FALSE]]
    /\ down' = [down EXCEPT ![c] = "get"]
    /\ Rest(c)

BridgeEnds(c) ==
    /\ bridge[c] = "run"
    /\ Idle(c)
    /\ bridge' = [bridge EXCEPT ![c] = IF transport[c] THEN "report" ELSE "close"]
    /\ IF transport[c] THEN UNCHANGED <<client, tasks, closing>> ELSE BeginClose({c})
    /\ UNCHANGED <<history, lane>>

(* The client gets the error, or is gone. *)
Report(c) ==
    /\ bridge[c] = "report"
    /\ bridge' = [bridge EXCEPT ![c] = "told"]
    /\ BeginClose({c})
    /\ UNCHANGED <<history, up, down, rec, lane>>

(* Deviation: they are forgotten. *)
ClosedUncounted(c) ==
    /\ closing[c] = "begun"
    /\ \A s \in Pending(c) : tasks[c][s].st = "new"
    /\ closing' = [closing EXCEPT ![c] = "done"]
    /\ tasks' = [tasks EXCEPT ![c] = [s \in Slots |-> None]]
    /\ hist' = [hist EXCEPT ![c] = <<>>]
    /\ entry' = [entry EXCEPT ![c] = [p \in Packets |-> Fresh]]
    /\ UNCHANGED <<up, inflight, key, client, down, rec, bridge, others, laneClosed>>

(* The requests have ended; those that never began are counted off here.   *)
Closed(c) ==
    /\ closing[c] = "begun"
    /\ \A s \in Pending(c) : tasks[c][s].st = "new"
    /\ closing' = [closing EXCEPT ![c] = "done"]
    /\ Release(Cardinality(Pending(c)))
    /\ tasks' = [tasks EXCEPT ![c] = [s \in Slots |-> None]]
    /\ hist' = [hist EXCEPT ![c] = <<>>]
    /\ entry' = [entry EXCEPT ![c] = [p \in Packets |-> Fresh]]
    /\ WakeUploads(c)
    /\ rec' = [d \in Channels |-> IF rec[d].of = c THEN [rec[d] EXCEPT !.of = None, !.slot = None]
                                 ELSE rec[d]]
    /\ UNCHANGED <<key, client, down, bridge, others, laneClosed>>

BridgeDone(c) ==
    /\ bridge[c] \in {"told", "close"} /\ closing[c] = "done"
    /\ bridge' = [bridge EXCEPT ![c] = "ended"]
    /\ UNCHANGED <<tasks, history, client, up, down, rec, closing, lane>>

(* A new connection takes the channel's place in the model. *)
OpenChannel(c) ==
    /\ bridge[c] \in {"none", "ended"} /\ ~laneClosed
    /\ bridge' = [bridge EXCEPT ![c] = "run"]
    /\ key' = [key EXCEPT ![c] = NoKey]
    /\ ready' = [ready EXCEPT ![c] = 0]
    /\ closed' = [closed EXCEPT ![c] = FALSE]
    /\ transport' = [transport EXCEPT ![c] = FALSE]
    /\ Idle(c)
    /\ closing' = [closing EXCEPT ![c] = "no"]
    /\ UNCHANGED <<tasks, hist, entry, lane>>

(* The proxy ends: the lane closes all its channels. *)
CloseLane ==
    /\ ~laneClosed /\ laneClosed' = TRUE
    /\ BeginClose({c \in Channels : bridge[c] # "none"})
    /\ WakeLane
    /\ UNCHANGED <<history, down, rec, bridge, inflight, others>>

(* The lane's other channels reserve and release as these do. *)
OtherReserves ==
    /\ others < MaxOthers /\ LaneHasCapacity /\ ~laneClosed
    /\ Reserve /\ others' = others + 1
    /\ UNCHANGED <<tasks, history, client, loops, laneClosed>>

OtherReleases ==
    /\ others > 0
    /\ Release(1) /\ others' = others - 1
    /\ WakeLane
    /\ UNCHANGED <<tasks, history, client, down, rec, bridge, closing, laneClosed>>

-----------------------------------------------------------------------------
Request(c, s) ==
    \/ Start(c, s) \/ NoAnswer(c, s) \/ ResponseStarted(c, s)
    \/ \E new \in BOOLEAN : Answered(c, s, new)
    \/ AnsweredEmpty(c, s) \/ Refused(c, s) \/ Broken(c, s) \/ Cancelled(c, s)

Loops(c) ==
    \/ \E p \in Packets : UploadPacket(c, p)
    \/ UploadAgain(c) \/ MakeRoom(c) \/ RoomMade(c) \/ Rotated(c)
    \/ \E p \in Packets : Replay(c, p) \/ Rotate(c, p)
    \/ Receive(c) \/ Delivered(c)
    \/ BridgeEnds(c) \/ Report(c) \/ Closed(c) \/ BridgeDone(c)

H2Init ==
    /\ tasks = [c \in Channels |-> [s \in Slots |-> None]]
    /\ hist = [c \in Channels |-> <<>>]
    /\ entry = [c \in Channels |-> [p \in Packets |-> Fresh]]
    /\ key = [c \in Channels |-> NoKey]
    /\ ready = [c \in Channels |-> 0]
    /\ closed = [c \in Channels |-> FALSE]
    /\ transport = [c \in Channels |-> FALSE]
    /\ up = [c \in Channels |-> [pc |-> "read", packet |-> None, woken |-> FALSE]]
    /\ down = [c \in Channels |-> "get"]
    /\ rec = [c \in Channels |-> [pc |-> "wait", packet |-> None, of |-> None, slot |-> None]]
    /\ bridge = [c \in Channels |-> "none"]
    /\ closing = [c \in Channels |-> "no"]
    /\ inflight = 0 /\ others = 0 /\ laneClosed = FALSE

(* Nothing is left to do only when the lane and all its channels are closed. *)
LaneEnded ==
    /\ laneClosed /\ others = 0 /\ \A c \in Channels : bridge[c] \in {"none", "ended"}
    /\ UNCHANGED hvars

H2Next ==
    \/ CloseLane \/ LaneEnded \/ OtherReserves \/ OtherReleases
    \/ \E c \in Channels :
          \/ OpenChannel(c) \/ Loops(c)
          \/ \E s \in Slots : Request(c, s)
          \/ \E p \in Packets : PacketExpires(c, p)

H2Spec == H2Init /\ [][H2Next]_hvars
-----------------------------------------------------------------------------
(* The lane counts each request in flight once, until it has ended: with   *)
(* requests that fail, that are cancelled before they began or while they  *)
(* run, that make room for others and whose channel is closed.  (_reserve, *)
(* _release, _finish_request and close: a count too many is room lost for  *)
(* all channels of the host.)                                              *)
InFlight == {cs \in Channels \X Slots : tasks[cs[1]][cs[2]] # None}
Accounts ==
    /\ inflight = Cardinality(InFlight) + others /\ inflight <= MaxLane
    /\ \A c \in Channels : closing[c] = "done" => Pending(c) = {}

(* A packet that is sent again is one of the history, at most once at a    *)
(* time, and no more than MaxReplays of a channel are on their way.        *)
ReplaysSound ==
    \A c \in Channels :
        /\ Cardinality(Replays(c)) <= MaxReplays
        /\ \A p \in Packets :
              /\ Cardinality(Again(c, p)) <= 1
              /\ Originals(c, p) \cup Again(c, p) # {} => InHistory(c, p)

(* No upload sleeps while there is room for its packet. *)
NoSleep ==
    \A c \in Channels :
        /\ up[c].pc = "channel" /\ ~up[c].woken => ~HasCapacity(c)
        /\ up[c].pc = "lane" /\ ~up[c].woken => ~LaneHasCapacity

(* A channel that failed has no answers left for its client, and an error  *)
(* of MTProto reaches the client before the channel is closed.*)
LastWord ==
    \A c \in Channels :
        /\ closed[c] => ready[c] = 0
        /\ transport[c] => bridge[c] # "close"

(* A packet whose request was cancelled to make room stays in the history  *)
(* while it may be sent again: only another key, the channel's end or a    *)
(* history full of such packets removes it.                                *)
Kept(c, p) == InHistory(c, p) /\ Spared(c, p) /\ entry[c][p].retired
RetiredKept ==
    [][\A c \in Channels : \A p \in Packets :
          Kept(c, p) /\ ~InHistory(c, p)' =>
              \/ key'[c] # key[c] \/ closing'[c] = "done"
              \/ \A q \in HistorySet(c) : Spared(c, q)]_hvars
=============================================================================
