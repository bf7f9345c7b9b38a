------------------------------ MODULE MCChannel ------------------------------
(***************************************************************************)
(* Small instances of H2Channel: one channel with room for two requests,   *)
(* in a lane with room for two.  Either the channel may fill the lane, and *)
(* its client sends two packets, or other channels come and go with half   *)
(* of the lane, and the client sends three, more than the history holds.   *)
(***************************************************************************)
EXTENDS H2Channel, TLC

CONSTANTS k1p1, k1p2, k1p3, k1

VARIABLE sent  \* the packets of the client

MCKeyOf == k1p1 :> k1 @@ k1p2 :> k1 @@ k1p3 :> k1

\* Requests and packets are interchangeable: no liveness in this run.
Symmetric == Permutations(Slots) \cup Permutations(Packets)

ChannelInit == H2Init /\ sent \in {ps \in SUBSET Packets : Cardinality(ps) >= 2}

ChannelNext ==
    /\ H2Next /\ sent' = sent
    /\ \A c \in Channels :
        /\ up'[c].packet \in sent \cup {None}
        /\ \A i \in DOMAIN hist'[c] : hist'[c][i] \in sent
    /\ IF sent = Packets THEN inflight' <= others' + 1 ELSE others' = 0

ChannelSpec == ChannelInit /\ [][ChannelNext]_<<hvars, sent>>
=============================================================================
