----------------------------- MODULE ProxyStreams -----------------------------
(***************************************************************************)
(* How the bytes of one Telegram client pass the proxy: out of TLS records *)
(* (FakeTlsStream), cut into one WebSocket frame per MTProto packet        *)
(* (MsgSplitter), and back from frames, whole or in fragments, with pings  *)
(* between them (RawWebSocket.recv).  modules/tg_ws_proxy/proxy: bridge.py,*)
(* fake_tls.py, raw_websocket.py.                                          *)
(*                                                                         *)
(* A byte is its position in the client's stream; plain holds what it says *)
(* decrypted.  The ciphers keep every byte in its place and are left out.  *)
(***************************************************************************)
EXTENDS Integers, Sequences, SequencesExt

CONSTANTS
    Protos,       \* framings a client may use: "abridged", "intermediate"
    Lengths,      \* payload lengths of its packets, in words
    MaxPackets, MaxRecord,
    MaxMessages   \* bound on the packets and the data frames of a session

ASSUME BytesAssumption == Lengths \subseteq Nat /\ MaxPackets \in Nat /\ MaxRecord \in Nat

VARIABLES clt, tls, cut, down

streamVars == <<clt, tls, cut, down>>

(* clt: what the client still has to send, and how its stream is framed;   *)
(* tls: records on their way, _read_left, _read_buf; cut: the splitter;    *)
(* frames: the data frames sent up.  down: frames the server sent, the     *)
(* fragments kept, the bytes written to the client.                        *)
Long == 127
Padding == 1
HandshakeLen == 1
HeaderLen == 2

Packet(proto, n) ==
    LET payload == [i \in 1 .. n |-> Padding] IN
    IF proto = "abridged" THEN (IF n > 1 THEN <<Long, n>> ELSE <<n>>) \o payload
    ELSE <<n, 0>> \o payload

NoLen == -1

(* _next_packet_len and what it calls: none while the header or the packet *)
(* is not all there, zero when the framing is not understood.              *)
NextPacketLen(buf, offset) ==
    LET avail == Len(buf) - offset
        first == clt.plain[buf[offset + 1]]
        header == IF clt.proto = "abridged" /\ first # Long THEN 1 ELSE HeaderLen
        payload == IF clt.proto = "abridged" /\ first = Long THEN clt.plain[buf[offset + 2]] ELSE first
    IN  IF avail < header THEN NoLen
        ELSE IF payload = 0 THEN 0
        ELSE IF avail < header + payload THEN NoLen ELSE header + payload

(* One round of the loop in split: a packet that is complete, or, when the *)
(* framing is not understood, all the rest.                                *)
CutOne(buf, p) ==
    LET k == IF p.upto < Len(buf) THEN NextPacketLen(buf, p.upto) ELSE NoLen
        end == IF k = 0 THEN Len(buf) ELSE p.upto + k
    IN  IF k = NoLen THEN p
        ELSE [parts |-> Append(p.parts, SubSeq(buf, p.upto + 1, end)),
              upto |-> end, disabled |-> k = 0]

(* What the buffer yields: no round is without effect but the last ones.   *)
Packets(buf) ==
    LET round[i \in 0 .. Len(buf)] ==
          IF i = 0 THEN [parts |-> <<>>, upto |-> 0, disabled |-> FALSE]
          ELSE CutOne(buf, round[i - 1])
    IN  round[Len(buf)]

(* Deviation: what was sent stays in the buffer. *)
SplitAgain(chunk) ==
    LET p == Packets(cut.buf \o chunk) IN
    IF ~cut.on \/ cut.disabled THEN [cut EXCEPT !.frames = Append(@, chunk)]
    ELSE [cut EXCEPT !.frames = @ \o p.parts, !.disabled = p.disabled, !.buf = @ \o chunk]

(* MsgSplitter.split and tcp_to_ws; without a splitter, as for a worker,   *)
(* and once it is disabled, a chunk is a frame.                            *)
Split(chunk) ==
    LET buf == cut.buf \o chunk
        p == Packets(buf)
    IN  IF ~cut.on \/ cut.disabled THEN [cut EXCEPT !.frames = Append(@, chunk)]
        ELSE [cut EXCEPT !.frames = @ \o p.parts, !.disabled = p.disabled,
                         !.buf = SubSeq(buf, p.upto + 1, Len(buf))]
-----------------------------------------------------------------------------
(* The client: its packets, in records cut anywhere.  A record that does   *)
(* not carry data (CCS) may come between them.                             *)

OpenStream(proto, lens, on) ==
    /\ clt.pc = "none"
    /\ clt' = [pc |-> "sends", proto |-> proto, lens |-> lens, sent |-> 0, end |-> "empty",
               plain |-> <<0>> \o FlattenSeq([i \in DOMAIN lens |-> Packet(proto, lens[i])])]
    /\ cut' = [cut EXCEPT !.on = on]
    /\ UNCHANGED <<tls, down>>

SendRecord(n) ==
    /\ clt.pc = "sends" /\ clt.sent + n <= Len(clt.plain)
    /\ clt' = [clt EXCEPT !.sent = @ + n]
    /\ tls' = [tls EXCEPT !.wire = Append(@, [kind |-> "data", body |-> [i \in 1 .. n |-> clt.sent + i]])]
    /\ UNCHANGED <<cut, down>>

SendCcs ==
    /\ clt.pc = "sends" /\ \A i \in DOMAIN tls.wire : tls.wire[i].kind = "data"
    /\ tls' = [tls EXCEPT !.wire = Append(@, [kind |-> "ccs", body |-> <<>>])]
    /\ UNCHANGED <<clt, cut, down>>

(* Within a record, or without TLS, the end is an empty read; between two  *)
(* records it is an exception.                                             *)
HangUp(end) ==
    /\ clt.pc = "sends"
    /\ clt' = [clt EXCEPT !.pc = "gone", !.end = end]
    /\ UNCHANGED <<tls, cut, down>>

(* _read_tls_payload: n bytes have come, of the record it is in or of the  *)
(* next; n is zero at the end.                                             *)
Payload(n) ==
    LET rest == tls.wire[1].body IN
    IF tls.wire = <<>> THEN n = 0 /\ clt.pc = "gone"
    ELSE tls.wire[1].kind = "data" /\ n \in 1 .. Len(rest)

AfterPayload(n) ==
    LET rest == tls.wire[1].body IN
    IF n = 0 THEN tls
    ELSE [tls EXCEPT !.left = Len(rest) - n,
                     !.wire = IF n = Len(rest) THEN Tail(@)
                              ELSE <<[kind |-> "data", body |-> SubSeq(rest, n + 1, Len(rest))]>> \o Tail(@)]

SkipCcs ==
    /\ tls.left = 0 /\ tls.wire # <<>> /\ tls.wire[1].kind = "ccs"
    /\ tls' = [tls EXCEPT !.wire = Tail(@)]
    /\ UNCHANGED <<clt, cut, down>>

(* readexactly: the init of the client, which ends within a record.        *)
ReadHandshake(n) ==
    /\ cut.pc = "handshake" /\ Payload(n)
    /\ IF n = 0 THEN cut' = [cut EXCEPT !.pc = "ended"] /\ tls' = tls
       ELSE LET buf == tls.buf \o SubSeq(tls.wire[1].body, 1, n) IN
            /\ tls' = [AfterPayload(n) EXCEPT !.buf = SubSeq(buf, HandshakeLen + 1, Len(buf))]
            /\ cut' = [cut EXCEPT !.pc = "bridge"]
    /\ UNCHANGED <<clt, down>>

(* flush, when the reader ends but does not fail. *)
Flushed ==
    IF clt.end = "exception" \/ cut.buf = <<>> THEN [cut EXCEPT !.pc = "ended"]
    ELSE [cut EXCEPT !.pc = "ended", !.buf = <<>>, !.frames = Append(@, cut.buf)]

(* read: what readexactly left over comes first.                           *)
ReadChunk(n) ==
    /\ cut.pc = "bridge"
    /\ IF tls.buf # <<>>
       THEN n = 0 /\ tls' = [tls EXCEPT !.buf = <<>>] /\ cut' = Split(tls.buf)
       ELSE /\ Payload(n)
            /\ tls' = AfterPayload(n)
            /\ cut' = IF n > 0 THEN Split(SubSeq(tls.wire[1].body, 1, n)) ELSE Flushed
    /\ UNCHANGED <<clt, down>>
-----------------------------------------------------------------------------
(* The server's frames and RawWebSocket.recv with ws_to_tcp *)

ServerFrame(op, fin) ==
    /\ cut.pc = "bridge" /\ Len(clt.lens) + down.sent < MaxMessages /\ ~down.shut
    /\ op = "data" \/ fin
    /\ down' = [down EXCEPT !.sent = IF op = "data" THEN @ + 1 ELSE @, !.shut = op = "close",
                            !.wire = Append(@, [op |-> op, fin |-> fin,
                                                body |-> IF op = "data" THEN <<down.sent + 1>> ELSE <<>>])]
    /\ op = "ping" => \A i \in DOMAIN down.wire : down.wire[i].op # "ping"
    /\ UNCHANGED <<clt, tls, cut>>

Recv(f) ==
    CASE f.op = "close" -> [down EXCEPT !.closed = TRUE]
      [] f.op = "ping"  -> down
      [] f.op = "data" /\ f.fin  -> [down EXCEPT !.got = @ \o down.frag \o f.body, !.frag = <<>>]
      [] f.op = "data" /\ ~f.fin -> [down EXCEPT !.frag = @ \o f.body]

ReceiveFrame ==
    /\ cut.pc = "bridge" /\ down.wire # <<>> /\ ~down.closed
    /\ down' = [Recv(down.wire[1]) EXCEPT !.wire = Tail(@)]
    /\ cut' = IF down.wire[1].op = "close" THEN [cut EXCEPT !.pc = "ended"] ELSE cut
    /\ UNCHANGED <<clt, tls>>

StreamsInit ==
    /\ clt = [pc |-> "none", proto |-> "abridged", lens |-> <<>>, sent |-> 0, end |-> "empty", plain |-> <<>>]
    /\ tls = [wire |-> <<>>, left |-> 0, buf |-> <<>>]
    /\ cut = [pc |-> "handshake", on |-> FALSE, disabled |-> FALSE, buf |-> <<>>, frames |-> <<>>]
    /\ down = [wire |-> <<>>, sent |-> 0, shut |-> FALSE, closed |-> FALSE, frag |-> <<>>, got |-> <<>>]

StreamsNext ==
    \/ SendCcs \/ SkipCcs \/ ReceiveFrame
    \/ \E end \in {"empty", "exception"} : HangUp(end)
    \/ \E p \in Protos, lens \in SeqOf(Lengths, MaxPackets), on \in BOOLEAN : OpenStream(p, lens, on)
    \/ \E n \in 1 .. MaxRecord : SendRecord(n)
    \/ \E n \in 0 .. MaxRecord : ReadHandshake(n) \/ ReadChunk(n)
    \/ \E op \in {"data", "ping", "close"}, fin \in BOOLEAN : ServerFrame(op, fin)

StreamsSpec == StreamsInit /\ [][StreamsNext]_streamVars
-----------------------------------------------------------------------------
(* The end of each packet of the client, as a position. *)
PacketEnds ==
    {HandshakeLen + Len(FlattenSeq([i \in 1 .. k |-> Packet(clt.proto, clt.lens[i])])) : k \in 0 .. Len(clt.lens)}

(* Whatever the records and the reads, each byte of the client goes up     *)
(* once and in order, what is missing is still on the way, and each frame  *)
(* holds one whole packet, as long as the framing is understood; only what *)
(* the client left unfinished may be sent as it is.                        *)
UpstreamWhole ==
    LET up == FlattenSeq(cut.frames)
        wire == FlattenSeq([i \in DOMAIN tls.wire |-> tls.wire[i].body])
        ended == cut.pc = "ended"
    IN  cut.pc # "handshake" =>
        /\ up \o cut.buf \o tls.buf \o wire = [i \in 1 .. clt.sent - HandshakeLen |-> HandshakeLen + i]
        /\ cut.on /\ ~cut.disabled =>
              \A i \in DOMAIN cut.frames :
                  LET f == cut.frames[i] IN
                  \/ f[1] - 1 \in PacketEnds /\ \A p \in PacketEnds : p \in f[1] .. f[Len(f)] <=> p = f[Len(f)]
                  \/ ended /\ i = Len(cut.frames) /\ f[1] - 1 \in PacketEnds

(* Every byte of the server reaches the client once and in order, those of *)
(* a message together, pings between its fragments or not.                 *)
DownstreamWhole ==
    LET wire == FlattenSeq([i \in DOMAIN down.wire |-> down.wire[i].body]) IN
    down.got \o down.frag \o wire = [i \in 1 .. down.sent |-> i]

(* Neither direction of a bridged connection loses, repeats or mixes up    *)
(* bytes, however they are cut into records, frames and packets.           *)
StreamsWhole == UpstreamWhole /\ DownstreamWhole
=============================================================================
