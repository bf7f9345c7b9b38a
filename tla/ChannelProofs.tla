---------------------------- MODULE ChannelProofs ----------------------------
(***************************************************************************)
(* Theorems about H2Channel: the capacity of a lane, the packets that may  *)
(* be sent again, who sleeps, and what the client hears last.              *)
(*                                                                         *)
(* Most steps are quiet: they add, end or forget no request.  The others   *)
(* are few, and each invariant is shown for these kinds of step only.      *)
(***************************************************************************)
EXTENDS H2Channel, FiniteSetTheorems, WellFoundedInduction, TLAPS

TaskTable == [Channels -> [Slots -> TaskRec \cup {None}]]

(* What a request is, whatever becomes of it. *)
SameRequest(r, q) == r.packet = q.packet /\ r.replay = q.replay /\ r.known = q.known

(* No request is made or ends. *)
Kin == \A c \in Channels, s \in Slots :
    /\ tasks'[c][s] = None <=> tasks[c][s] = None
    /\ tasks[c][s] # None => SameRequest(tasks'[c][s], tasks[c][s])

-----------------------------------------------------------------------------
(* What the operators do to the tables. *)

LEMMA NewTasks ==
    /\ \A p \in Packets, r, k \in BOOLEAN :
          [packet |-> p, replay |-> r, known |-> k, st |-> "new", cancelled |-> FALSE] \in TaskRec
    /\ \A t \in TaskRec : t # None
    /\ None \notin Slots /\ None \notin Channels /\ None \notin Packets
BY H2Assumption, NoneIsNoTask DEF TaskRec, States

LEMMA TaskChanges ==
    ASSUME NEW t \in TaskRec
    PROVE  /\ \A x \in States : [t EXCEPT !.st = x] \in TaskRec /\ SameRequest([t EXCEPT !.st = x], t)
           /\ [t EXCEPT !.cancelled = TRUE] \in TaskRec /\ SameRequest([t EXCEPT !.cancelled = TRUE], t)
           /\ \A b \in BOOLEAN : /\ [t EXCEPT !.known = b] \in TaskRec
                                 /\ [t EXCEPT !.known = b].packet = t.packet
                                 /\ [t EXCEPT !.known = b].replay = t.replay
                                 /\ [t EXCEPT !.known = b].known = b
BY DEF TaskRec, States, SameRequest

(* One request changes and stays. *)
LEMMA ChangeOne ==
    ASSUME H2TypeOK, NEW c \in Channels, NEW s \in Pending(c), NEW r \in TaskRec, SameRequest(r, tasks[c][s]),
           tasks' = [tasks EXCEPT ![c][s] = r]
    PROVE  tasks' \in TaskTable /\ Kin
<1>1. s \in Slots /\ tasks \in TaskTable /\ r # None
  BY NewTasks DEF Pending, H2TypeOK, TaskTable
<1>2. tasks' \in TaskTable
  BY <1>1 DEF TaskTable
<1>3. ASSUME NEW d \in Channels, NEW u \in Slots
      PROVE  tasks'[d][u] = IF d = c /\ u = s THEN r ELSE tasks[d][u]
  BY <1>1 DEF TaskTable
<1>4. ASSUME NEW d \in Channels, NEW u \in Slots
      PROVE  /\ tasks'[d][u] = None <=> tasks[d][u] = None
             /\ tasks[d][u] # None => SameRequest(tasks'[d][u], tasks[d][u])
  BY <1>1, <1>3 DEF Pending, SameRequest
<1> QED BY <1>2, <1>4 DEF Kin

LEMMA SlotsFinite == IsFiniteSet(Slots) /\ IsFiniteSet(Channels)
BY H2Assumption

LEMMA PendingIsTask ==
    ASSUME H2TypeOK, NEW c \in Channels, NEW s \in Pending(c)
    PROVE  s \in Slots /\ tasks[c][s] \in TaskRec
BY DEF H2TypeOK, Pending

LEMMA Sets ==
    ASSUME H2TypeOK, NEW c \in Channels, NEW s \in Pending(c), NEW x \in States, Set(c, s, x)
    PROVE  tasks' \in TaskTable /\ Kin
<1> DEFINE r == [tasks[c][s] EXCEPT !.st = x]
<1>1. r \in TaskRec /\ SameRequest(r, tasks[c][s])
  BY PendingIsTask, TaskChanges
<1>2. tasks' = [tasks EXCEPT ![c][s] = r]
  BY DEF Set
<1> HIDE DEF r
<1> QED BY <1>1, <1>2, ChangeOne

LEMMA Cancels ==
    ASSUME H2TypeOK, NEW c \in Channels, NEW s \in Pending(c), tasks' = [tasks EXCEPT ![c][s].cancelled = TRUE]
    PROVE  tasks' \in TaskTable /\ Kin
<1> DEFINE r == [tasks[c][s] EXCEPT !.cancelled = TRUE]
<1>1. r \in TaskRec /\ SameRequest(r, tasks[c][s])
  BY PendingIsTask, TaskChanges
<1>2. tasks' = [tasks EXCEPT ![c][s] = r]
  OBVIOUS
<1> HIDE DEF r
<1> QED BY <1>1, <1>2, ChangeOne

LEMMA ClosesBegin ==
    ASSUME H2TypeOK, NEW cs \in SUBSET Channels, BeginClose(cs)
    PROVE  tasks' \in TaskTable /\ Kin
<1>1. ASSUME NEW c \in Channels, NEW s \in Slots
      PROVE  /\ tasks'[c][s] \in TaskRec \cup {None}
             /\ tasks'[c][s] = None <=> tasks[c][s] = None
             /\ tasks[c][s] # None => SameRequest(tasks'[c][s], tasks[c][s])
  <2>1. tasks[c][s] \in TaskRec \cup {None}
    BY DEF H2TypeOK
  <2>2. tasks'[c][s] = tasks[c][s] \/ (tasks[c][s] # None /\ tasks'[c][s] = [tasks[c][s] EXCEPT !.cancelled = TRUE])
    BY DEF BeginClose
  <2>3. CASE tasks'[c][s] = tasks[c][s]
    BY <2>1, <2>3 DEF SameRequest
  <2>4. CASE tasks[c][s] # None /\ tasks'[c][s] = [tasks[c][s] EXCEPT !.cancelled = TRUE]
    BY <2>1, <2>4, TaskChanges, NewTasks
  <2> QED BY <2>2, <2>3, <2>4
<1>2. tasks' = [c \in Channels |-> [s \in Slots |-> tasks'[c][s]]]
  BY DEF BeginClose
<1>3. tasks' \in TaskTable
  BY <1>1, <1>2 DEF TaskTable
<1> QED BY <1>1, <1>3 DEF Kin

(* A request ends. *)
LEMMA Finishes ==
    ASSUME H2TypeOK, NEW c \in Channels, NEW s \in Slots, FinishRequest(c, s)
    PROVE  /\ tasks' \in TaskTable /\ tasks'[c][s] = None
           /\ \A d \in Channels, u \in Slots : d # c \/ u # s => tasks'[d][u] = tasks[d][u]
BY DEF FinishRequest, H2TypeOK, TaskTable

(* A packet is sent again. *)
Made(c, s, p, again, known) ==
    /\ tasks'[c][s] # None
    /\ tasks'[c][s].packet = p /\ tasks'[c][s].replay = again /\ tasks'[c][s].known = known
LEMMA Resends ==
    ASSUME H2TypeOK, NEW c \in Channels, NEW p \in Packets, Resend(c, p)
    PROVE  /\ tasks' \in TaskTable /\ inflight' = inflight + 1
           /\ \E s \in Slots \ Pending(c) :
                /\ Made(c, s, p, TRUE, TRUE)
                /\ \A d \in Channels, u \in Slots : d # c \/ u # s => tasks'[d][u] = tasks[d][u]
<1> DEFINE r == [packet |-> p, replay |-> TRUE, known |-> TRUE, st |-> "new", cancelled |-> FALSE]
<1>1. r \in TaskRec /\ r # None /\ r.packet = p /\ r.replay = TRUE /\ r.known = TRUE
  BY NewTasks
<1>2. PICK s \in Slots \ Pending(c) : tasks' = [tasks EXCEPT ![c][s] = r]
  BY DEF Resend
<1> HIDE DEF r
<1>3. tasks' \in TaskTable
  BY <1>1, <1>2 DEF H2TypeOK, TaskTable
<1>4. \A d \in Channels, u \in Slots : tasks'[d][u] = IF d = c /\ u = s THEN r ELSE tasks[d][u]
  BY <1>2 DEF H2TypeOK
<1>5. Made(c, s, p, TRUE, TRUE) /\ inflight' = inflight + 1
  BY <1>1, <1>2, <1>4 DEF Made, Resend, Reserve
<1>6. \A d \in Channels, u \in Slots : d # c \/ u # s => tasks'[d][u] = tasks[d][u]
  BY <1>4
<1> QED BY <1>3, <1>5, <1>6

(* A packet of the client is sent. *)
Forgets(c, s, lost) ==
    \A u \in Slots \ {s} :
        /\ tasks'[c][u] = None <=> tasks[c][u] = None
        /\ tasks[c][u] # None =>
              /\ tasks'[c][u].packet = tasks[c][u].packet /\ tasks'[c][u].replay = tasks[c][u].replay
              /\ tasks'[c][u].known <=> tasks[c][u].known /\ tasks[c][u].packet \notin lost
LEMMA Submits ==
    ASSUME H2TypeOK, NEW c \in Channels, NEW p \in Packets, Submit(c, p)
    PROVE  /\ tasks' \in TaskTable /\ inflight' = inflight + 1
           /\ \E s \in Slots \ Pending(c) :
                /\ Made(c, s, p, FALSE, KeyOf[p] # NoKey)
                /\ Forgets(c, s, Lost(c, p))
                /\ \A d \in Channels \ {c} : tasks'[d] = tasks[d]
<1> DEFINE r == [packet |-> p, replay |-> FALSE, known |-> KeyOf[p] # NoKey, st |-> "new", cancelled |-> FALSE]
           f == Forget(c, Lost(c, p))
<1>1. r \in TaskRec /\ r # None /\ r.packet = p /\ r.replay = FALSE /\ r.known = (KeyOf[p] # NoKey)
  BY NewTasks
<1>2. PICK s \in Slots \ Pending(c) : tasks' = [tasks EXCEPT ![c] = [f EXCEPT ![s] = r]]
  BY DEF Submit
<1>3. ASSUME NEW u \in Slots
      PROVE  /\ f[u] \in TaskRec \cup {None}
             /\ f[u] = None <=> tasks[c][u] = None
             /\ tasks[c][u] # None =>
                  /\ f[u].packet = tasks[c][u].packet /\ f[u].replay = tasks[c][u].replay
                  /\ f[u].known <=> tasks[c][u].known /\ tasks[c][u].packet \notin Lost(c, p)
  <2>1. CASE tasks[c][u] = None
    BY <2>1 DEF Forget
  <2>2. CASE tasks[c][u] # None
    <3> DEFINE b == tasks[c][u].known /\ tasks[c][u].packet \notin Lost(c, p)
    <3>1. tasks[c][u] \in TaskRec
      BY <2>2 DEF H2TypeOK
    <3>2. b \in BOOLEAN /\ f[u] = [tasks[c][u] EXCEPT !.known = b]
      BY <2>2, <3>1 DEF Forget, TaskRec
    <3> HIDE DEF b, f
    <3>3. \A t \in TaskRec : [t EXCEPT !.known = b] \in TaskRec /\ [t EXCEPT !.known = b].packet = t.packet
                             /\ [t EXCEPT !.known = b].replay = t.replay /\ [t EXCEPT !.known = b].known = b
      BY <3>2, TaskChanges
    <3>4. f[u] \in TaskRec /\ f[u].packet = tasks[c][u].packet /\ f[u].replay = tasks[c][u].replay /\ f[u].known = b
      BY <3>1, <3>2, <3>3
    <3> QED BY <2>2, <3>1, <3>4, NewTasks DEF b
  <2> QED BY <2>1, <2>2
<1>4. f = [u \in Slots |-> f[u]]
  BY DEF Forget
<1> HIDE DEF r, f
<1>5. [f EXCEPT ![s] = r] \in [Slots -> TaskRec \cup {None}]
  BY <1>1, <1>3, <1>4
<1>6. tasks' \in TaskTable
  BY <1>2, <1>5 DEF H2TypeOK, TaskTable
<1>7. \A u \in Slots : tasks'[c][u] = IF u = s THEN r ELSE f[u]
  BY <1>2, <1>4 DEF H2TypeOK
<1>8. \A d \in Channels \ {c} : tasks'[d] = tasks[d]
  BY <1>2 DEF H2TypeOK
<1>9. Made(c, s, p, FALSE, KeyOf[p] # NoKey)
  BY <1>1, <1>7 DEF Made
<1>10. Forgets(c, s, Lost(c, p))
  BY <1>3, <1>7 DEF Forgets
<1> QED BY <1>6, <1>8, <1>9, <1>10 DEF Submit, Reserve

-----------------------------------------------------------------------------
(* Wake-ups and passes. *)

LEMMA UpRecs ==
    /\ \A q \in {"read", "channel", "lane"}, p \in Packets \cup {None} :
          [pc |-> q, packet |-> p, woken |-> FALSE] \in UpRec
    /\ \A r \in UpRec : /\ [r EXCEPT !.woken = TRUE] \in UpRec /\ [r EXCEPT !.woken = TRUE].woken = TRUE
                        /\ [r EXCEPT !.woken = TRUE].pc = r.pc /\ [r EXCEPT !.woken = TRUE].packet = r.packet
BY DEF UpRec

LEMMA Wakes ==
    ASSUME H2TypeOK, NEW w \in [Channels -> BOOLEAN], up' = Woken(w)
    PROVE  /\ up' \in [Channels -> UpRec]
           /\ \A d \in Channels : /\ up'[d].pc = up[d].pc /\ up'[d].packet = up[d].packet
                                  /\ IF w[d] THEN up'[d].woken = TRUE ELSE up'[d] = up[d]
<1>1. \A d \in Channels : up[d] \in UpRec
  BY DEF H2TypeOK
<1>2. \A d \in Channels : up'[d] = IF w[d] THEN [up[d] EXCEPT !.woken = TRUE] ELSE up[d]
  BY DEF Woken
<1>3. \A d \in Channels : /\ up'[d] \in UpRec
                          /\ up'[d].pc = up[d].pc /\ up'[d].packet = up[d].packet
                          /\ IF w[d] THEN up'[d].woken = TRUE ELSE up'[d] = up[d]
  BY <1>1, <1>2, UpRecs
<1>4. up' = [d \in Channels |-> up'[d]]
  BY DEF Woken
<1> QED BY <1>3, <1>4

(* Whoever waits for room in a channel or its lane is told.                *)
Told(c) ==
    /\ up' \in [Channels -> UpRec]
    /\ \A d \in Channels : /\ up'[d].pc = up[d].pc /\ up'[d].packet = up[d].packet
                           /\ up'[d] = up[d] \/ up'[d].woken = TRUE
                           /\ up[d].pc = "lane" \/ (d = c /\ up[d].pc = "channel") => up'[d].woken = TRUE
LEMMA WakeUploadsFacts ==
    ASSUME H2TypeOK, NEW c, WakeUploads(c) PROVE Told(c)
<1> DEFINE w == [d \in Channels |-> up[d].pc = "lane" \/ (d = c /\ up[d].pc = "channel")]
<1>1. w \in [Channels -> BOOLEAN] /\ up' = Woken(w)
  BY DEF WakeUploads
<1>2. \A d \in Channels : w[d] <=> up[d].pc = "lane" \/ (d = c /\ up[d].pc = "channel")
  OBVIOUS
<1> HIDE DEF w
<1> QED BY <1>1, <1>2, Wakes DEF Told

LEMMA WakeLaneFacts ==
    ASSUME H2TypeOK, WakeLane PROVE Told(None)
<1> DEFINE w == [d \in Channels |-> up[d].pc = "lane"]
<1>1. w \in [Channels -> BOOLEAN] /\ up' = Woken(w)
  BY DEF WakeLane
<1>2. \A d \in Channels : (w[d] <=> up[d].pc = "lane") /\ d # None
  BY NewTasks
<1> HIDE DEF w
<1> QED BY <1>1, <1>2, Wakes DEF Told

LEMMA PassRecs ==
    /\ \A q \in {"wait", "room", "rotate"}, p \in Packets \cup {None}, d \in Channels \cup {None},
          s \in Slots \cup {None} : [pc |-> q, packet |-> p, of |-> d, slot |-> s] \in PassRec
    /\ \A r \in PassRec :
          /\ [r EXCEPT !.of = None, !.slot = None] \in PassRec
          /\ [r EXCEPT !.of = None, !.slot = None].pc = r.pc
          /\ [r EXCEPT !.of = None, !.slot = None].slot = None
<1>1. \A q \in {"wait", "room", "rotate"}, p \in Packets \cup {None}, d \in Channels \cup {None},
          s \in Slots \cup {None} : [pc |-> q, packet |-> p, of |-> d, slot |-> s] \in PassRec
  BY DEF PassRec
<1>2. ASSUME NEW r \in PassRec
      PROVE  /\ [r EXCEPT !.of = None, !.slot = None] \in PassRec
             /\ [r EXCEPT !.of = None, !.slot = None].pc = r.pc
             /\ [r EXCEPT !.of = None, !.slot = None].slot = None
  <2> DEFINE q == [r EXCEPT !.of = None]
  <2>1. q \in PassRec /\ q.pc = r.pc
    BY DEF PassRec
  <2> HIDE DEF q
  <2>2. [q EXCEPT !.slot = None] \in PassRec /\ [q EXCEPT !.slot = None].pc = q.pc
        /\ [q EXCEPT !.slot = None].slot = None
    BY <2>1 DEF PassRec
  <2> QED BY <2>1, <2>2 DEF q
<1> QED BY <1>1, <1>2

(* A pass that waits for a request goes on once that has ended.            *)
GoesOn(c, ss) ==
    /\ rec' \in [Channels -> PassRec]
    /\ \A d \in Channels :
          IF rec[d].of = c /\ rec[d].slot \in ss
          THEN rec'[d].pc = rec[d].pc /\ rec'[d].slot = None ELSE rec'[d] = rec[d]
LEMMA AwaitedFacts ==
    ASSUME H2TypeOK, NEW c \in Channels, NEW s \in Slots, rec' = Awaited(c, s) PROVE GoesOn(c, {s})
<1>1. \A d \in Channels : rec[d] \in PassRec
  BY DEF H2TypeOK
<1>2. \A d \in Channels : rec'[d] = IF rec[d].of = c /\ rec[d].slot = s
                                    THEN [rec[d] EXCEPT !.of = None, !.slot = None] ELSE rec[d]
  BY DEF Awaited
<1>3. rec' = [d \in Channels |-> rec'[d]]
  BY DEF Awaited
<1>4. \A d \in Channels : rec'[d] \in PassRec
  BY <1>1, <1>2, PassRecs
<1>5. rec' \in [Channels -> PassRec]
  BY <1>3, <1>4
<1>6. ASSUME NEW d \in Channels, rec[d].of = c /\ rec[d].slot \in {s}
      PROVE  rec'[d].pc = rec[d].pc /\ rec'[d].slot = None
  <2>1. rec[d].slot = s
    BY <1>6
  <2>2. rec'[d] = [rec[d] EXCEPT !.of = None, !.slot = None]
    BY <1>2, <1>6, <2>1
  <2>3. rec[d] \in PassRec
    BY <1>1
  <2>4. /\ [rec[d] EXCEPT !.of = None, !.slot = None].pc = rec[d].pc
        /\ [rec[d] EXCEPT !.of = None, !.slot = None].slot = None
    BY <2>3, PassRecs
  <2> QED BY <2>2, <2>4
<1>7. ASSUME NEW d \in Channels, ~(rec[d].of = c /\ rec[d].slot \in {s})
      PROVE  rec'[d] = rec[d]
  BY <1>2, <1>7
<1> QED BY <1>5, <1>6, <1>7 DEF GoesOn

LEMMA RestFacts ==
    ASSUME H2TypeOK, NEW c \in Channels, Rest(c)
    PROVE  /\ rec' \in [Channels -> PassRec] /\ rec'[c].pc = "wait"
           /\ \A d \in Channels \ {c} : rec'[d] = rec[d]
<1> DEFINE r == [pc |-> "wait", packet |-> None, of |-> None, slot |-> None]
<1>1. r \in PassRec /\ r.pc = "wait" /\ rec' = [rec EXCEPT ![c] = r]
  BY PassRecs DEF Rest
<1> HIDE DEF r
<1> QED BY <1>1 DEF H2TypeOK

-----------------------------------------------------------------------------
(* The kinds of step. *)

Quiet ==
    /\ Kin /\ UNCHANGED <<hist, inflight, others>>
    /\ \A c \in Channels :
          /\ closing'[c] = "done" => closing[c] = "done"
          /\ \/ up'[c].pc = "read"
             \/ up'[c].pc = up[c].pc /\ (up'[c] = up[c] \/ up'[c].woken = TRUE)
             \/ up'[c].pc = "channel" /\ ~HasCapacity(c)
             \/ up'[c].pc = "lane" /\ ~LaneHasCapacity
          /\ \/ rec'[c] = rec[c] \/ rec'[c].pc # "rotate"
             \/ rec'[c].of = c /\ rec'[c].slot \in Replays(c)

Ended(c, s) ==
    /\ s \in Pending(c) /\ tasks'[c][s] = None
    /\ \A d \in Channels, u \in Slots : d # c \/ u # s => tasks'[d][u] = tasks[d][u]
    /\ inflight' = inflight - 1
    /\ Told(c) /\ GoesOn(c, {s})
    /\ UNCHANGED <<hist, closing, others>>

Sent(c, p) ==
    /\ Submit(c, p) /\ LaneHasCapacity /\ ~closed[c]
    /\ up'[c].pc = "read" /\ \A d \in Channels \ {c} : up'[d] = up[d]
    /\ UNCHANGED <<rec, closing, others>>

SentAgain(c, p) ==
    /\ Resend(c, p) /\ LaneHasCapacity /\ ~closed[c]
    /\ InHistory(c, p) /\ Again(c, p) = {}
    /\ Cardinality(Replays(c)) < MaxReplays \/ (rec[c].pc = "rotate" /\ rec[c].slot = None)
    /\ rec'[c].pc = "wait" /\ \A d \in Channels \ {c} : rec'[d] = rec[d]
    /\ UNCHANGED <<hist, up, closing, others>>

Ends(c) ==
    /\ \A s \in Slots : tasks'[c][s] = None
    /\ \A d \in Channels \ {c} : tasks'[d] = tasks[d] /\ hist'[d] = hist[d] /\ closing'[d] = closing[d]
    /\ hist'[c] = <<>> /\ closing'[c] = "done"
    /\ inflight' = inflight - Cardinality(Pending(c))
    /\ Told(c) /\ GoesOn(c, Slots \cup {None})
    /\ others' = others

Elsewhere ==
    /\ \/ LaneHasCapacity /\ inflight' = inflight + 1 /\ others' = others + 1 /\ up' = up
       \/ inflight' = inflight - 1 /\ others' = others - 1 /\ Told(None)
    /\ UNCHANGED <<tasks, hist, rec, closing>>

Kind ==
    \/ Quiet \/ Elsewhere
    \/ \E c \in Channels : Ends(c)
    \/ \E c \in Channels, s \in Slots : Ended(c, s)
    \/ \E c \in Channels, p \in Packets : Sent(c, p) \/ SentAgain(c, p)

(* What waits is a packet. *)
ChannelTypes == H2TypeOK /\ \A c \in Channels : Waiting(c) => up[c].packet \in Packets

(* Types, part by part. *)
ClientTypes ==
    ready \in [Channels -> 0 .. MaxQueue] /\ closed \in [Channels -> BOOLEAN] /\ transport \in [Channels -> BOOLEAN]
EntryTypes == entry \in [Channels -> [Packets -> EntryRec]]
HistoryTypes == hist \in [Channels -> Seq(Packets)] /\ key \in [Channels -> {KeyOf[p] : p \in Packets} \cup {NoKey}]
LoopTypes ==
    /\ up \in [Channels -> UpRec] /\ down \in [Channels -> {"get", "writing"}] /\ rec \in [Channels -> PassRec]
    /\ bridge \in [Channels -> {"none", "run", "report", "told", "close", "ended"}]
    /\ closing \in [Channels -> {"no", "begun", "done"}]
LaneTypes == inflight \in Int /\ others \in 0 .. MaxOthers /\ laneClosed \in BOOLEAN
LEMMA Parts ==
    H2TypeOK <=> tasks \in TaskTable /\ ClientTypes /\ EntryTypes /\ HistoryTypes /\ LoopTypes /\ LaneTypes
BY DEF H2TypeOK, TaskTable, ClientTypes, EntryTypes, HistoryTypes, LoopTypes, LaneTypes

LEMMA PartsNext ==
    H2TypeOK' <=> tasks' \in TaskTable /\ ClientTypes' /\ EntryTypes' /\ HistoryTypes' /\ LoopTypes' /\ LaneTypes'
BY DEF H2TypeOK, TaskTable, ClientTypes, EntryTypes, HistoryTypes, LoopTypes, LaneTypes

LEMMA FailTypes ==
    ASSUME ClientTypes, NEW c \in Channels, NEW b \in BOOLEAN, Fail(c, b) PROVE ClientTypes'
<1>1. CASE closed[c]
  BY <1>1 DEF ClientTypes, Fail, client
<1>2. CASE ~closed[c]
  <2>1. 0 \in 0 .. MaxQueue
    BY H2Assumption
  <2>2. /\ closed' = [closed EXCEPT ![c] = TRUE] /\ transport' = [transport EXCEPT ![c] = b]
        /\ ready' = [ready EXCEPT ![c] = 0]
    BY <1>2 DEF Fail
  <2> QED BY <2>1, <2>2 DEF ClientTypes
<1> QED BY <1>1, <1>2

LEMMA ToldTypes ==
    ASSUME ChannelTypes, NEW c, Told(c)
    PROVE  up' \in [Channels -> UpRec] /\ \A d \in Channels : Waiting(d)' => up'[d].packet \in Packets
BY DEF ChannelTypes, Told, Waiting

(* However a request ends. *)
LEMMA Endings ==
    ASSUME ChannelTypes, NEW c \in Channels, NEW s \in Pending(c),
           FinishRequest(c, s), ClientTypes', EntryTypes'
    PROVE  ChannelTypes' /\ Kind
<1> USE DEF ChannelTypes
<1>1. s \in Slots
  BY DEF Pending
<1>2. /\ tasks' \in TaskTable /\ tasks'[c][s] = None
      /\ \A d \in Channels, u \in Slots : d # c \/ u # s => tasks'[d][u] = tasks[d][u]
  BY <1>1, Finishes
<1>3. Told(c)
  BY WakeUploadsFacts DEF FinishRequest
<1>4. GoesOn(c, {s})
  BY <1>1, AwaitedFacts DEF FinishRequest
<1>5. inflight' = inflight - 1 /\ UNCHANGED <<hist, key, down, bridge, closing, others, laneClosed>>
  BY DEF FinishRequest, Release
<1>6. Ended(c, s)
  BY <1>2, <1>3, <1>4, <1>5 DEF Ended
<1>7. HistoryTypes' /\ LoopTypes' /\ LaneTypes'
  BY <1>3, <1>4, <1>5, Parts DEF HistoryTypes, LoopTypes, LaneTypes, Told, GoesOn
<1>8. H2TypeOK'
  BY <1>2, <1>7, PartsNext
<1> QED BY <1>1, <1>3, <1>6, <1>8, ToldTypes DEF Kind

LEMMA RequestKinds ==
    ASSUME ChannelTypes, NEW c \in Channels, NEW s \in Slots, Request(c, s)
    PROVE  ChannelTypes' /\ Kind
<1> USE DEF ChannelTypes
<1>1. ASSUME s \in Pending(c), NEW x \in States, Set(c, s, x), UNCHANGED <<history, client, loops, lane>>
      PROVE  ChannelTypes' /\ Kind
  <2>1. tasks' \in TaskTable /\ Kin
    BY <1>1, Sets
  <2>2. UNCHANGED <<hist, entry, key, ready, closed, transport, up, down, rec, bridge, closing, inflight, others, laneClosed>>
    BY <1>1 DEF history, client, loops, lane
  <2>3. H2TypeOK'
    BY <2>1, <2>2, Parts, PartsNext DEF ClientTypes, EntryTypes, HistoryTypes, LoopTypes, LaneTypes
  <2>4. Quiet
    BY <2>1, <2>2 DEF Quiet
  <2> QED BY <2>2, <2>3, <2>4 DEF Kind, Waiting
<1>2. CASE Start(c, s) \/ NoAnswer(c, s) \/ ResponseStarted(c, s)
  BY <1>1, <1>2 DEF Start, NoAnswer, ResponseStarted, States
<1>3. ASSUME NEW new \in BOOLEAN, Answered(c, s, new) PROVE ChannelTypes' /\ Kind
  <2>1. s \in Pending(c) /\ FinishRequest(c, s) /\ ClientTypes /\ EntryTypes /\ tasks[c][s] \in TaskRec
    BY <1>3, Parts, PendingIsTask DEF Answered
  <2>2. ClientTypes'
    <3>1. CASE closed[c]
      BY <1>3, <2>1, <3>1 DEF Answered, ClientTypes, client
    <3>2. CASE ~closed[c] /\ ready[c] = MaxQueue
      BY <1>3, <2>1, <3>2, FailTypes DEF Answered
    <3>3. CASE ~closed[c] /\ ready[c] # MaxQueue
      <4>1. ready' = [ready EXCEPT ![c] = @ + 1] /\ UNCHANGED <<closed, transport>>
        BY <1>3, <3>3 DEF Answered
      <4>2. ready[c] + 1 \in 0 .. MaxQueue
        BY <2>1, <3>3, H2Assumption DEF ClientTypes
      <4> QED BY <2>1, <4>1, <4>2 DEF ClientTypes
    <3> QED BY <3>1, <3>2, <3>3
  <2>3. EntryTypes'
    <3>1. CASE entry' = entry
      BY <2>1, <3>1 DEF EntryTypes
    <3>2. CASE entry' # entry
      <4> DEFINE p == tasks[c][s].packet
                 e == [entry[c][p] EXCEPT !.attempts = 0]
      <4>1. p \in Packets /\ entry[c][p] \in EntryRec
        BY <2>1 DEF TaskRec, EntryTypes
      <4>2. e \in EntryRec
        BY <4>1, H2Assumption DEF EntryRec
      <4>3. entry' = [entry EXCEPT ![c][p] = e]
        BY <1>3, <3>2 DEF Answered
      <4> HIDE DEF p, e
      <4> QED BY <2>1, <4>1, <4>2, <4>3 DEF EntryTypes
    <3> QED BY <3>1, <3>2
  <2> QED BY <2>1, <2>2, <2>3, Endings
<1>4. CASE AnsweredEmpty(c, s) \/ Cancelled(c, s)
  <2>1. s \in Pending(c) /\ FinishRequest(c, s) /\ UNCHANGED <<ready, closed, transport, entry>>
    BY <1>4 DEF AnsweredEmpty, Cancelled, client
  <2>2. ClientTypes' /\ EntryTypes'
    BY <2>1, Parts DEF ClientTypes, EntryTypes
  <2> QED BY <2>1, <2>2, Endings
<1>5. CASE Refused(c, s) \/ Broken(c, s)
  <2>1. /\ s \in Pending(c) /\ FinishRequest(c, s) /\ entry' = entry
        /\ Fail(c, TRUE) \/ Fail(c, FALSE)
    BY <1>5 DEF Refused, Broken
  <2>2. ClientTypes' /\ EntryTypes'
    BY <2>1, Parts, FailTypes DEF EntryTypes
  <2> QED BY <2>1, <2>2, Endings
<1> QED BY <1>2, <1>3, <1>4, <1>5 DEF Request

(* Every set of naturals that is not empty has a least element. *)
LEMMA Least ==
    ASSUME NEW T \in SUBSET Nat, T # {}
    PROVE  \E x \in T : \A y \in T : x <= y
<1>1. PICK x \in T : \A y \in T : ~(<<y, x>> \in OpToRel(<, Nat))
  BY WFMin, NatLessThanWellFounded
<1>2. \A y \in T : <<y, x>> \in OpToRel(<, Nat) <=> y < x
  BY DEF OpToRel
<1>3. \A y \in T : ~(y < x)
  BY <1>1, <1>2, Zenon
<1>4. \A y \in T : x \in Nat /\ y \in Nat
  OBVIOUS
<1> QED BY <1>3, <1>4

(* A full history loses a packet of its own, never the one that is sent    *)
(* and none that is spared as long as another is left.                     *)
LEMMA VictimFacts ==
    ASSUME NEW c \in Channels, NEW p \in Packets, NEW h \in Seq(Packets), Len(h) > MaxHistory
    PROVE  /\ Victim(c, h, p) \in DOMAIN h /\ Victim(c, h, p) \in Nat
           /\ \/ h[Victim(c, h, p)] # p /\ ~Spared(c, h[Victim(c, h, p)])
              \/ Victim(c, h, p) = 1 /\ \A i \in DOMAIN h : h[i] = p \/ Spared(c, h[i])
<1> DEFINE free == {i \in DOMAIN h : h[i] # p /\ ~Spared(c, h[i])}
<1>1. DOMAIN h = 1 .. Len(h) /\ Len(h) \in Nat /\ 1 \in DOMAIN h
  BY H2Assumption
<1>2. free \in SUBSET Nat /\ free \subseteq DOMAIN h
  BY <1>1
<1>3. CASE free = {}
  BY <1>1, <1>3 DEF Victim
<1>4. CASE free # {}
  <2>1. Victim(c, h, p) = CHOOSE i \in free : \A j \in free : i <= j
    BY <1>4 DEF Victim
  <2>2. \E i \in free : \A j \in free : i <= j
    BY <1>2, <1>4, Least
  <2>3. Victim(c, h, p) \in free
    BY <2>1, <2>2
  <2> QED BY <1>1, <2>3
<1> QED BY <1>3, <1>4

(* Uploads.                                                                *)
LEMMA SubmitTypes ==
    ASSUME ChannelTypes, NEW c \in Channels, NEW p \in Packets, Submit(c, p)
    PROVE  EntryTypes' /\ HistoryTypes'
<1> USE DEF ChannelTypes
<1>1. Fresh \in EntryRec
  BY H2Assumption DEF Fresh, EntryRec
<1>2. EntryTypes'
  <2> DEFINE lost == Lost(c, p)
             row == [q \in Packets |-> IF q \in lost THEN Fresh ELSE entry[c][q]]
  <2>1. entry' = [entry EXCEPT ![c] = row] /\ EntryTypes
    BY Parts DEF Submit
  <2>2. row \in [Packets -> EntryRec]
    BY <1>1, <2>1 DEF EntryTypes
  <2> HIDE DEF row
  <2> QED BY <2>1, <2>2 DEF EntryTypes
<1>3. ASSUME NEW h \in Seq(Packets), NEW i \in Nat PROVE Without(h, i) \in Seq(Packets)
  BY DEF Without
<1>4. Remembered(c, p) \in Seq(Packets)
  <2>1. hist[c] \in Seq(Packets)
    BY DEF H2TypeOK
  <2> QED BY <2>1 DEF Remembered
<1>5. Trimmed(c, Remembered(c, p), p) \in Seq(Packets)
  BY <1>3, <1>4, VictimFacts DEF Trimmed
<1>6. HistoryTypes'
  <2> DEFINE h == Trimmed(c, Remembered(c, p), p)
  <2>1. h \in Seq(Packets)
    BY <1>5
  <2>2. HistoryTypes
    BY Parts
  <2>3. /\ hist' = [hist EXCEPT ![c] = IF KeyOf[p] # NoKey THEN h ELSE @]
        /\ key' = [key EXCEPT ![c] = IF KeyOf[p] # NoKey THEN KeyOf[p] ELSE @]
    BY DEF Submit
  <2> HIDE DEF h
  <2> QED BY <2>1, <2>2, <2>3 DEF HistoryTypes
<1> QED BY <1>2, <1>6

(* The parts that an action leaves alone. *)
LEMMA Same ==
    ASSUME H2TypeOK
    PROVE  /\ tasks \in TaskTable
           /\ UNCHANGED client => ClientTypes' /\ UNCHANGED <<ready, closed, transport>>
           /\ UNCHANGED entry => EntryTypes'
           /\ UNCHANGED <<hist, key>> => HistoryTypes'
           /\ UNCHANGED history => EntryTypes' /\ HistoryTypes' /\ UNCHANGED <<hist, entry, key>>
           /\ UNCHANGED <<inflight, others, laneClosed>> => LaneTypes'
           /\ UNCHANGED lane => LaneTypes' /\ UNCHANGED <<inflight, others, laneClosed>>
           /\ UNCHANGED loops => LoopTypes' /\ UNCHANGED <<up, down, rec, bridge, closing>>
           /\ UNCHANGED tasks => tasks' \in TaskTable /\ Kin
BY Parts DEF ClientTypes, EntryTypes, HistoryTypes, LaneTypes, LoopTypes, client, history, lane, loops,
             Kin, SameRequest

(* The client's packet waits, or goes. *)
LEMMA ProceedKinds ==
    ASSUME ChannelTypes, NEW c \in Channels, NEW p \in Packets, Proceed(c, p), ~closed[c],
           UNCHANGED <<client, down, rec, bridge, closing, others, laneClosed>>
    PROVE  ChannelTypes' /\ Kind
<1> USE DEF ChannelTypes
<1>1. ClientTypes' /\ LoopTypes /\ LaneTypes
  BY Same, Parts
<1>2. ASSUME NEW x \in {"channel", "lane"}, up' = [up EXCEPT ![c] = [pc |-> x, packet |-> p, woken |-> FALSE]],
             UNCHANGED <<tasks, history, inflight>>,
             x = "channel" => ~HasCapacity(c), x = "lane" => ~LaneHasCapacity
      PROVE  ChannelTypes' /\ Kind
  <2> DEFINE r == [pc |-> x, packet |-> p, woken |-> FALSE]
  <2>1. r \in UpRec /\ r.pc = x /\ r.packet = p
    BY UpRecs
  <2>2. up' = [up EXCEPT ![c] = r]
    BY <1>2
  <2> HIDE DEF r
  <2>3. up' \in [Channels -> UpRec] /\ up'[c] = r /\ \A d \in Channels \ {c} : up'[d] = up[d]
    BY <1>1, <2>1, <2>2 DEF LoopTypes
  <2>4. LoopTypes' /\ LaneTypes'
    BY <1>1, <1>2, <2>3 DEF LoopTypes, LaneTypes
  <2>5. tasks' \in TaskTable /\ Kin /\ EntryTypes' /\ HistoryTypes' /\ hist' = hist
    BY <1>2, Same
  <2>6. H2TypeOK'
    BY <1>1, <2>4, <2>5, PartsNext
  <2>7. Quiet
    BY <1>2, <2>1, <2>3, <2>5 DEF Quiet
  <2> QED BY <2>1, <2>3, <2>6, <2>7 DEF Kind, Waiting
<1>3. CASE ~HasCapacity(c) /\ up' = [up EXCEPT ![c] = [pc |-> "channel", packet |-> p, woken |-> FALSE]]
           /\ UNCHANGED <<tasks, history, inflight>>
  BY <1>2, <1>3
<1>4. CASE ~LaneHasCapacity /\ up' = [up EXCEPT ![c] = [pc |-> "lane", packet |-> p, woken |-> FALSE]]
           /\ UNCHANGED <<tasks, history, inflight>>
  BY <1>2, <1>4
<1>5. CASE LaneHasCapacity /\ Submit(c, p)
           /\ up' = [up EXCEPT ![c] = [pc |-> "read", packet |-> None, woken |-> FALSE]]
  <2> DEFINE r == [pc |-> "read", packet |-> None, woken |-> FALSE]
  <2>1. r \in UpRec /\ r.pc = "read"
    BY UpRecs
  <2>2. up' = [up EXCEPT ![c] = r]
    BY <1>5
  <2> HIDE DEF r
  <2>3. up' \in [Channels -> UpRec] /\ up'[c] = r /\ \A d \in Channels \ {c} : up'[d] = up[d]
    BY <1>1, <2>1, <2>2 DEF LoopTypes
  <2>4. tasks' \in TaskTable /\ EntryTypes' /\ HistoryTypes' /\ inflight' = inflight + 1
    BY <1>5, Submits, SubmitTypes
  <2>5. LoopTypes' /\ LaneTypes'
    BY <1>1, <2>3, <2>4 DEF LoopTypes, LaneTypes
  <2>6. H2TypeOK'
    BY <1>1, <2>4, <2>5, PartsNext
  <2>7. Sent(c, p)
    BY <1>5, <2>1, <2>3 DEF Sent
  <2> QED BY <2>1, <2>3, <2>6, <2>7 DEF Kind, Waiting
<1> QED BY <1>3, <1>4, <1>5 DEF Proceed

LEMMA UploadKinds ==
    ASSUME ChannelTypes, NEW c \in Channels, UploadAgain(c) \/ \E p \in Packets : UploadPacket(c, p)
    PROVE  ChannelTypes' /\ Kind
<1>1. CASE UploadAgain(c)
  BY <1>1, ProceedKinds DEF UploadAgain, ChannelTypes
<1>2. ASSUME NEW p \in Packets, UploadPacket(c, p) PROVE ChannelTypes' /\ Kind
  BY <1>2, ProceedKinds DEF UploadPacket
<1> QED BY <1>1, <1>2

-----------------------------------------------------------------------------
(* Passes of _recover. *)

(* A pass waits for a request it has cancelled. *)
LEMMA PassWaits ==
    ASSUME ChannelTypes, NEW c \in Channels, NEW d \in Channels, NEW s \in Pending(d), NEW p \in Packets \cup {None},
           NEW x \in {"room", "rotate"}, x = "rotate" => d = c /\ s \in Replays(c),
           tasks' = [tasks EXCEPT ![d][s].cancelled = TRUE], EntryTypes',
           rec' = [rec EXCEPT ![c] = [pc |-> x, packet |-> p, of |-> d, slot |-> s]],
           UNCHANGED <<hist, key, client, up, down, bridge, closing, lane>>
    PROVE  ChannelTypes' /\ Kind
<1> USE DEF ChannelTypes
<1> DEFINE r == [pc |-> x, packet |-> p, of |-> d, slot |-> s]
<1>1. r \in PassRec /\ r.pc = x /\ r.of = d /\ r.slot = s
  BY PassRecs, PendingIsTask
<1>2. rec' = [rec EXCEPT ![c] = r]
  OBVIOUS
<1> HIDE DEF r
<1>3. rec' \in [Channels -> PassRec] /\ rec'[c] = r /\ \A e \in Channels \ {c} : rec'[e] = rec[e]
  BY <1>1, <1>2 DEF H2TypeOK
<1>4. tasks' \in TaskTable /\ Kin
  BY Cancels
<1>5. ClientTypes' /\ HistoryTypes' /\ LaneTypes' /\ UNCHANGED <<inflight, others>>
  BY Same DEF lane
<1>6. LoopTypes'
  BY <1>3, Parts DEF LoopTypes
<1>7. H2TypeOK'
  BY <1>4, <1>5, <1>6, PartsNext
<1>8. Quiet
  BY <1>1, <1>3, <1>4, <1>5 DEF Quiet
<1> QED BY <1>7, <1>8 DEF Kind, Waiting

LEMMA MakeRoomKinds ==
    ASSUME ChannelTypes, NEW c \in Channels, MakeRoom(c) PROVE ChannelTypes' /\ Kind
<1>1. PICK d \in RoomIn(c) : \E s \in Preferred(d) :
          /\ tasks' = [tasks EXCEPT ![d][s].cancelled = TRUE]
          /\ entry' = IF tasks[d][s].replay THEN entry
                      ELSE [entry EXCEPT ![d][tasks[d][s].packet].retired = TRUE]
          /\ rec' = [rec EXCEPT ![c] = [pc |-> "room", packet |-> None, of |-> d, slot |-> s]]
  BY DEF MakeRoom
<1>2. PICK s \in Preferred(d) :
          /\ tasks' = [tasks EXCEPT ![d][s].cancelled = TRUE]
          /\ entry' = IF tasks[d][s].replay THEN entry
                      ELSE [entry EXCEPT ![d][tasks[d][s].packet].retired = TRUE]
          /\ rec' = [rec EXCEPT ![c] = [pc |-> "room", packet |-> None, of |-> d, slot |-> s]]
  BY <1>1
<1>3. d \in Channels /\ s \in Pending(d)
  BY DEF RoomIn, Preferred, Candidates
<1>4. tasks[d][s] \in TaskRec /\ EntryTypes
  BY <1>3, PendingIsTask, Parts DEF ChannelTypes
<1>5. EntryTypes'
  <2> DEFINE p == tasks[d][s].packet
             e == [entry[d][p] EXCEPT !.retired = TRUE]
  <2>1. p \in Packets /\ entry[d][p] \in EntryRec
    BY <1>3, <1>4 DEF TaskRec, EntryTypes
  <2>2. e \in EntryRec
    BY <2>1 DEF EntryRec
  <2>3. entry' = entry \/ entry' = [entry EXCEPT ![d][p] = e]
    BY <1>2
  <2> HIDE DEF p, e
  <2> QED BY <1>3, <1>4, <2>1, <2>2, <2>3 DEF EntryTypes
<1> QED BY <1>2, <1>3, <1>5, PassWaits DEF MakeRoom

LEMMA RotateKinds ==
    ASSUME ChannelTypes, NEW c \in Channels, NEW p \in Packets, Rotate(c, p) PROVE ChannelTypes' /\ Kind
<1>1. PICK s \in Replaced(c, p) :
          /\ tasks' = [tasks EXCEPT ![c][s].cancelled = TRUE]
          /\ rec' = [rec EXCEPT ![c] = [pc |-> "rotate", packet |-> p, of |-> c, slot |-> s]]
  BY DEF Rotate
<1>2. s \in Replays(c) /\ s \in Pending(c)
  BY DEF Replaced, Again, Replays
<1>3. EntryTypes' /\ UNCHANGED <<hist, key>>
  BY Same DEF Rotate, ChannelTypes
<1> QED BY <1>1, <1>2, <1>3, PassWaits DEF Rotate

(* A packet is sent again, or nothing happens. *)
LEMMA PassRests ==
    ASSUME ChannelTypes, NEW c \in Channels, NEW p, Rest(c), ~closed[c],
           \/ UNCHANGED <<tasks, entry, inflight>>
           \/ /\ MaySend(c, p) /\ Resend(c, p) /\ p \in Packets
              /\ Cardinality(Replays(c)) < MaxReplays \/ (rec[c].pc = "rotate" /\ rec[c].slot = None),
           UNCHANGED <<hist, key, client, up, down, bridge, closing, others, laneClosed>>
    PROVE  ChannelTypes' /\ Kind
<1> USE DEF ChannelTypes
<1>1. rec' \in [Channels -> PassRec] /\ rec'[c].pc = "wait" /\ \A d \in Channels \ {c} : rec'[d] = rec[d]
  BY RestFacts
<1>2. ClientTypes' /\ HistoryTypes' /\ EntryTypes /\ LaneTypes
  BY Same, Parts
<1>3. LoopTypes'
  BY <1>1, Parts DEF LoopTypes
<1>4. CASE UNCHANGED <<tasks, entry, inflight>>
  <2>1. tasks' \in TaskTable /\ Kin /\ EntryTypes' /\ LaneTypes'
    BY <1>4, Same
  <2>2. H2TypeOK'
    BY <1>2, <1>3, <2>1, PartsNext
  <2>3. Quiet
    BY <1>1, <1>4, <2>1 DEF Quiet
  <2> QED BY <2>2, <2>3 DEF Kind, Waiting
<1>5. CASE /\ MaySend(c, p) /\ Resend(c, p) /\ p \in Packets
           /\ Cardinality(Replays(c)) < MaxReplays \/ (rec[c].pc = "rotate" /\ rec[c].slot = None)
  <2>1. tasks' \in TaskTable /\ inflight' = inflight + 1
    BY <1>5, Resends
  <2>2. EntryTypes'
    <3> DEFINE e == [entry[c][p] EXCEPT !.attempts = @ + 1]
    <3>1. entry[c][p] \in EntryRec
      BY <1>2, <1>5 DEF EntryTypes
    <3>2. entry[c][p].attempts < MaxAttempts
      BY <1>5, <3>1, H2Assumption DEF MaySend, ReplayDue, ReplayLimit, EntryRec
    <3>3. e \in EntryRec
      BY <3>1, <3>2, H2Assumption DEF EntryRec
    <3>4. entry' = [entry EXCEPT ![c][p] = e]
      BY <1>5 DEF Resend
    <3> HIDE DEF e
    <3> QED BY <1>2, <3>3, <3>4 DEF EntryTypes
  <2>3. LaneTypes'
    BY <1>2, <2>1 DEF LaneTypes
  <2>4. H2TypeOK'
    BY <1>2, <1>3, <2>1, <2>2, <2>3, PartsNext
  <2>5. SentAgain(c, p)
    BY <1>1, <1>5 DEF SentAgain, MaySend
  <2> QED BY <1>5, <2>4, <2>5 DEF Kind, Waiting
<1> QED BY <1>4, <1>5

LEMMA PassKinds ==
    ASSUME ChannelTypes, NEW c \in Channels,
           \/ MakeRoom(c) \/ RoomMade(c) \/ Rotated(c)
           \/ \E p \in Packets : Replay(c, p) \/ Rotate(c, p)
    PROVE  ChannelTypes' /\ Kind
<1>1. CASE RoomMade(c)
  <2>1. Rest(c) /\ ~closed[c] /\ UNCHANGED <<tasks, history, client, up, down, bridge, closing, lane>>
    BY <1>1 DEF RoomMade, PassBegins
  <2>2. UNCHANGED <<tasks, entry, hist, key, inflight, others, laneClosed>>
    BY <2>1 DEF history, lane
  <2> QED BY <2>1, <2>2, PassRests
<1>2. CASE Rotated(c)
  <2> DEFINE p == rec[c].packet
  <2>1. /\ ~closed[c] /\ Rest(c) /\ rec[c].pc = "rotate" /\ rec[c].slot = None
        /\ UNCHANGED <<hist, key, client, up, down, bridge, closing, others, laneClosed>>
        /\ IF InHistory(c, p) /\ MaySend(c, p) THEN Resend(c, p) ELSE UNCHANGED <<tasks, entry, inflight>>
    BY <1>2 DEF Rotated
  <2>2. InHistory(c, p) => p \in Packets
    BY DEF InHistory, ChannelTypes, H2TypeOK
  <2> QED BY <2>1, <2>2, PassRests
<1>3. ASSUME NEW p \in Packets, Replay(c, p) PROVE ChannelTypes' /\ Kind
  BY <1>3, PassRests DEF Replay, PassBegins
<1> QED BY <1>1, <1>2, <1>3, MakeRoomKinds, RotateKinds

-----------------------------------------------------------------------------
(* The bridge and its end. *)

LEMMA BeginCloseTypes ==
    ASSUME H2TypeOK, NEW cs \in SUBSET Channels, BeginClose(cs)
    PROVE  /\ tasks' \in TaskTable /\ Kin /\ ClientTypes'
           /\ closing' \in [Channels -> {"no", "begun", "done"}]
           /\ \A c \in Channels : closing'[c] = "done" => closing[c] = "done"
<1>1. tasks' \in TaskTable /\ Kin
  BY ClosesBegin
<1>2. 0 \in 0 .. MaxQueue
  BY H2Assumption
<1>3. ClientTypes'
  BY <1>2 DEF BeginClose, H2TypeOK, ClientTypes
<1>4. closing' \in [Channels -> {"no", "begun", "done"}]
  BY DEF BeginClose, H2TypeOK
<1>5. \A c \in Channels : closing'[c] = "done" => closing[c] = "done"
  BY DEF BeginClose
<1> QED BY <1>1, <1>3, <1>4, <1>5

(* The loops of a bridge stand still. *)
LEMMA IdleFacts ==
    ASSUME H2TypeOK, NEW c \in Channels, Idle(c)
    PROVE  /\ up' \in [Channels -> UpRec] /\ up'[c].pc = "read" /\ \A d \in Channels \ {c} : up'[d] = up[d]
           /\ rec' \in [Channels -> PassRec] /\ rec'[c].pc = "wait" /\ \A d \in Channels \ {c} : rec'[d] = rec[d]
           /\ down' \in [Channels -> {"get", "writing"}]
<1> DEFINE r == [pc |-> "read", packet |-> None, woken |-> FALSE]
<1>1. r \in UpRec /\ r.pc = "read"
  BY UpRecs
<1>2. up' = [up EXCEPT ![c] = r]
  BY DEF Idle
<1> HIDE DEF r
<1>3. up' \in [Channels -> UpRec] /\ up'[c].pc = "read" /\ \A d \in Channels \ {c} : up'[d] = up[d]
  BY <1>1, <1>2 DEF H2TypeOK
<1>4. rec' \in [Channels -> PassRec] /\ rec'[c].pc = "wait" /\ \A d \in Channels \ {c} : rec'[d] = rec[d]
  BY RestFacts DEF Idle
<1>5. down' \in [Channels -> {"get", "writing"}]
  BY DEF Idle, H2TypeOK
<1> QED BY <1>3, <1>4, <1>5

(* What happens to the client and to the state of the bridge is quiet.     *)
LEMMA QuietKinds ==
    ASSUME ChannelTypes, tasks' \in TaskTable, Kin, ClientTypes', EntryTypes', HistoryTypes', LoopTypes',
           UNCHANGED <<hist, inflight, others>>, laneClosed' \in BOOLEAN,
           \A c \in Channels :
              /\ closing'[c] = "done" => closing[c] = "done"
              /\ \/ up'[c].pc = "read"
                 \/ /\ up'[c].pc = up[c].pc /\ up'[c].packet = up[c].packet
                    /\ up'[c] = up[c] \/ up'[c].woken = TRUE
              /\ rec'[c] = rec[c] \/ rec'[c].pc = "wait"
    PROVE  ChannelTypes' /\ Kind
<1>1. LaneTypes'
  BY Parts DEF LaneTypes, ChannelTypes
<1>2. H2TypeOK'
  BY <1>1, PartsNext
<1>3. ASSUME NEW c \in Channels, Waiting(c)' PROVE up'[c].packet \in Packets
  BY <1>3 DEF Waiting, ChannelTypes
<1>4. Quiet
  BY DEF Quiet
<1> QED BY <1>2, <1>3, <1>4 DEF ChannelTypes, Kind

LEMMA BridgeKinds ==
    ASSUME ChannelTypes, NEW c \in Channels,
           Receive(c) \/ Delivered(c) \/ BridgeEnds(c) \/ Report(c) \/ BridgeDone(c) \/ OpenChannel(c)
    PROVE  ChannelTypes' /\ Kind
<1> USE DEF ChannelTypes
<1>1. LoopTypes /\ ClientTypes /\ HistoryTypes /\ laneClosed \in BOOLEAN
  BY Parts DEF LaneTypes
<1>2. CASE Receive(c)
  <2>1. ready[c] - 1 \in 0 .. MaxQueue
    BY <1>1, <1>2, H2Assumption DEF Receive, ClientTypes
  <2>2. /\ ready' = [ready EXCEPT ![c] = @ - 1] /\ down' = [down EXCEPT ![c] = "writing"]
        /\ UNCHANGED <<tasks, history, closed, transport, up, rec, bridge, closing, lane>>
    BY <1>2 DEF Receive
  <2>3. ClientTypes' /\ LoopTypes'
    BY <1>1, <2>1, <2>2 DEF ClientTypes, LoopTypes
  <2> QED BY <1>1, <2>2, <2>3, Same, QuietKinds
<1>3. CASE Delivered(c) \/ BridgeDone(c)
  <2>1. UNCHANGED <<tasks, history, client, up, rec, closing, lane>>
    BY <1>3 DEF Delivered, BridgeDone
  <2>2. LoopTypes'
    BY <1>1, <1>3 DEF LoopTypes, Delivered, BridgeDone
  <2> QED BY <1>1, <2>1, <2>2, Same, QuietKinds
<1>4. CASE BridgeEnds(c)
  <2>1. /\ Idle(c) /\ UNCHANGED <<history, lane>>
        /\ bridge' = [bridge EXCEPT ![c] = IF transport[c] THEN "report" ELSE "close"]
        /\ UNCHANGED <<client, tasks, closing>> \/ BeginClose({c})
    BY <1>4 DEF BridgeEnds
  <2>2. /\ tasks' \in TaskTable /\ Kin /\ ClientTypes'
        /\ closing' \in [Channels -> {"no", "begun", "done"}]
        /\ \A d \in Channels : closing'[d] = "done" => closing[d] = "done"
    <3>1. CASE UNCHANGED <<client, tasks, closing>>
      BY <1>1, <3>1, Same DEF LoopTypes
    <3>2. CASE BeginClose({c})
      BY <3>2, BeginCloseTypes
    <3> QED BY <2>1, <3>1, <3>2
  <2>3. LoopTypes'
    BY <1>1, <2>1, <2>2, IdleFacts DEF LoopTypes
  <2> QED BY <1>1, <2>1, <2>2, <2>3, Same, IdleFacts, QuietKinds
<1>5. CASE Report(c)
  <2>1. /\ BeginClose({c}) /\ UNCHANGED <<history, up, down, rec, lane>>
        /\ bridge' = [bridge EXCEPT ![c] = "told"]
    BY <1>5 DEF Report
  <2>2. LoopTypes'
    BY <1>1, <2>1, BeginCloseTypes DEF LoopTypes
  <2> QED BY <1>1, <2>1, <2>2, Same, BeginCloseTypes, QuietKinds
<1>6. CASE OpenChannel(c)
  <2>1. /\ Idle(c) /\ UNCHANGED <<tasks, hist, entry, lane>>
        /\ bridge' = [bridge EXCEPT ![c] = "run"] /\ closing' = [closing EXCEPT ![c] = "no"]
        /\ key' = [key EXCEPT ![c] = NoKey]
        /\ ready' = [ready EXCEPT ![c] = 0] /\ closed' = [closed EXCEPT ![c] = FALSE]
        /\ transport' = [transport EXCEPT ![c] = FALSE]
    BY <1>6 DEF OpenChannel
  <2>2. ClientTypes' /\ HistoryTypes'
    BY <1>1, <2>1, H2Assumption DEF ClientTypes, HistoryTypes
  <2>3. LoopTypes' /\ \A d \in Channels : closing'[d] = "done" => closing[d] = "done"
    BY <1>1, <2>1, IdleFacts DEF LoopTypes
  <2> QED BY <1>1, <2>1, <2>2, <2>3, Same, IdleFacts, QuietKinds
<1> QED BY <1>2, <1>3, <1>4, <1>5, <1>6

LEMMA CloseLaneKinds ==
    ASSUME ChannelTypes, CloseLane PROVE ChannelTypes' /\ Kind
<1> USE DEF ChannelTypes
<1> DEFINE cs == {c \in Channels : bridge[c] # "none"}
<1>1. LoopTypes /\ cs \in SUBSET Channels
  BY Parts
<1>2. BeginClose(cs) /\ laneClosed' = TRUE /\ Told(None) /\ UNCHANGED <<history, down, rec, bridge, inflight, others>>
  BY WakeLaneFacts DEF CloseLane
<1> HIDE DEF cs
<1>3. LoopTypes'
  BY <1>1, <1>2, BeginCloseTypes DEF LoopTypes, Told
<1> QED BY <1>1, <1>2, <1>3, Same, BeginCloseTypes, QuietKinds DEF Told

LEMMA ClosedKinds ==
    ASSUME ChannelTypes, NEW c \in Channels, Closed(c) PROVE ChannelTypes' /\ Kind
<1> USE DEF ChannelTypes
<1>1. LoopTypes /\ EntryTypes /\ HistoryTypes /\ LaneTypes /\ Fresh \in EntryRec
  BY Parts, H2Assumption DEF Fresh, EntryRec
<1>2. /\ closing' = [closing EXCEPT ![c] = "done"] /\ inflight' = inflight - Cardinality(Pending(c))
      /\ tasks' = [tasks EXCEPT ![c] = [s \in Slots |-> None]]
      /\ hist' = [hist EXCEPT ![c] = <<>>] /\ entry' = [entry EXCEPT ![c] = [p \in Packets |-> Fresh]]
      /\ UNCHANGED <<key, client, down, bridge, others, laneClosed>>
  BY DEF Closed, Release
<1>3. Told(c)
  BY WakeUploadsFacts DEF Closed
<1>4. GoesOn(c, Slots \cup {None})
  <2>1. \A d \in Channels : rec[d] \in PassRec /\ rec[d].slot \in Slots \cup {None}
    BY <1>1 DEF LoopTypes, PassRec
  <2>2. \A d \in Channels : rec'[d] = IF rec[d].of = c THEN [rec[d] EXCEPT !.of = None, !.slot = None] ELSE rec[d]
    BY DEF Closed
  <2>3. rec' = [d \in Channels |-> rec'[d]]
    BY DEF Closed
  <2>4. rec' \in [Channels -> PassRec]
    BY <2>1, <2>2, <2>3, PassRecs
  <2>5. ASSUME NEW d \in Channels
        PROVE  IF rec[d].of = c /\ rec[d].slot \in Slots \cup {None}
               THEN rec'[d].pc = rec[d].pc /\ rec'[d].slot = None ELSE rec'[d] = rec[d]
    <3>1. CASE rec[d].of = c
      <4> DEFINE r == [rec[d] EXCEPT !.of = None, !.slot = None]
      <4>1. r.pc = rec[d].pc /\ r.slot = None
        BY <2>1, PassRecs
      <4>2. rec'[d] = r
        BY <2>2, <3>1
      <4> HIDE DEF r
      <4> QED BY <2>1, <3>1, <4>1, <4>2
    <3>2. CASE rec[d].of # c
      BY <2>2, <3>2
    <3> QED BY <3>1, <3>2
  <2> QED BY <2>4, <2>5 DEF GoesOn
<1>5. tasks' \in TaskTable /\ (\A s \in Slots : tasks'[c][s] = None) /\ \A d \in Channels \ {c} : tasks'[d] = tasks[d]
  BY <1>2, Same DEF TaskTable
<1>6. HistoryTypes' /\ EntryTypes'
  BY <1>1, <1>2 DEF HistoryTypes, EntryTypes
<1>7. LoopTypes'
  BY <1>1, <1>2, <1>3, <1>4 DEF LoopTypes, Told, GoesOn
<1>8. LaneTypes'
  <2>1. Cardinality(Pending(c)) \in Nat
    BY FS_Subset, FS_CardinalityType, SlotsFinite DEF Pending
  <2> QED BY <1>1, <1>2, <2>1 DEF LaneTypes
<1>9. ClientTypes'
  BY <1>2, Same
<1>10. H2TypeOK'
  BY <1>5, <1>6, <1>7, <1>8, <1>9, PartsNext
<1>11. Ends(c)
  BY <1>1, <1>2, <1>3, <1>4, <1>5 DEF Ends, HistoryTypes, LoopTypes
<1> QED BY <1>3, <1>10, <1>11, ToldTypes DEF Kind

LEMMA OtherKinds ==
    ASSUME ChannelTypes, OtherReserves \/ OtherReleases PROVE ChannelTypes' /\ Kind
<1> USE DEF ChannelTypes
<1>1. LoopTypes /\ LaneTypes /\ UNCHANGED <<tasks, history, client, down, rec, bridge, closing, laneClosed>>
  BY Parts DEF OtherReserves, OtherReleases, loops
<1>2. tasks' \in TaskTable /\ ClientTypes' /\ EntryTypes' /\ HistoryTypes' /\ hist' = hist
  BY <1>1, Same
<1>3. CASE OtherReserves
  <2>1. LaneHasCapacity /\ inflight' = inflight + 1 /\ others' = others + 1 /\ others < MaxOthers /\ up' = up
    BY <1>3 DEF OtherReserves, Reserve, loops
  <2>2. LaneTypes' /\ LoopTypes'
    BY <1>1, <2>1, H2Assumption DEF LaneTypes, LoopTypes
  <2>3. H2TypeOK'
    BY <1>2, <2>2, PartsNext
  <2>4. Elsewhere
    BY <1>1, <1>2, <2>1 DEF Elsewhere
  <2> QED BY <2>1, <2>3, <2>4 DEF Kind, Waiting
<1>4. CASE OtherReleases
  <2>1. inflight' = inflight - 1 /\ others' = others - 1 /\ others > 0 /\ Told(None)
    BY <1>4, WakeLaneFacts DEF OtherReleases, Release
  <2>2. LaneTypes' /\ LoopTypes'
    BY <1>1, <2>1, H2Assumption DEF LaneTypes, LoopTypes, Told
  <2>3. H2TypeOK'
    BY <1>2, <2>2, PartsNext
  <2>4. Elsewhere
    BY <1>1, <1>2, <2>1 DEF Elsewhere
  <2> QED BY <2>1, <2>3, <2>4, ToldTypes DEF Kind
<1> QED BY <1>3, <1>4

LEMMA ExpiryKinds ==
    ASSUME ChannelTypes, NEW c \in Channels, NEW p \in Packets, PacketExpires(c, p)
    PROVE  ChannelTypes' /\ Kind
<1> USE DEF ChannelTypes
<1> DEFINE e == [entry[c][p] EXCEPT !.old = TRUE]
<1>1. EntryTypes /\ entry[c][p] \in EntryRec /\ laneClosed \in BOOLEAN
  BY Parts DEF EntryTypes, LaneTypes
<1>2. e \in EntryRec
  BY <1>1 DEF EntryRec
<1>3. entry' = [entry EXCEPT ![c][p] = e] /\ UNCHANGED <<tasks, hist, key, client, loops, lane>>
  BY DEF PacketExpires
<1> HIDE DEF e
<1>4. EntryTypes'
  BY <1>1, <1>2, <1>3 DEF EntryTypes
<1> QED BY <1>1, <1>3, <1>4, Same, QuietKinds

(* Every step keeps the types, and is of one of the kinds. *)
LEMMA StepKinds ==
    ASSUME ChannelTypes, [H2Next]_hvars PROVE ChannelTypes' /\ Kind
<1>1. CASE UNCHANGED hvars
  <2>1. UNCHANGED <<tasks, history, client, loops, lane>> /\ laneClosed \in BOOLEAN
    BY <1>1 DEF hvars, ChannelTypes, H2TypeOK
  <2> QED BY <2>1, Same, QuietKinds DEF ChannelTypes
<1>2. CASE CloseLane \/ OtherReserves \/ OtherReleases
  BY <1>2, CloseLaneKinds, OtherKinds
<1>3. CASE LaneEnded
  BY <1>1, <1>3 DEF LaneEnded
<1>4. ASSUME NEW c \in Channels, OpenChannel(c) \/ Loops(c) PROVE ChannelTypes' /\ Kind
  BY <1>4, UploadKinds, PassKinds, BridgeKinds, ClosedKinds DEF Loops
<1>5. ASSUME NEW c \in Channels, NEW s \in Slots, Request(c, s) PROVE ChannelTypes' /\ Kind
  BY <1>5, RequestKinds
<1>6. ASSUME NEW c \in Channels, NEW p \in Packets, PacketExpires(c, p) PROVE ChannelTypes' /\ Kind
  BY <1>6, ExpiryKinds
<1> QED BY <1>1, <1>2, <1>3, <1>4, <1>5, <1>6 DEF H2Next

-----------------------------------------------------------------------------
(* What the client hears last. *)

LastOf(c) ==
    /\ closing[c] # "no" => closed[c]
    /\ closed[c] => ready[c] = 0
    /\ bridge[c] \in {"told", "close", "ended"} => closing[c] # "no"
    /\ transport[c] => bridge[c] # "close"
LastInv == \A c \in Channels : LastOf(c)

LEMMA FailLast ==
    ASSUME H2TypeOK, LastInv, NEW c \in Channels, NEW b \in BOOLEAN, Fail(c, b), UNCHANGED <<closing, bridge>>
    PROVE  LastInv'
<1>1. CASE closed[c]
  BY <1>1 DEF LastInv, LastOf, Fail, client
<1>2. CASE ~closed[c]
  <2>1. /\ closed' = [closed EXCEPT ![c] = TRUE] /\ transport' = [transport EXCEPT ![c] = b]
        /\ ready' = [ready EXCEPT ![c] = 0]
    BY <1>2 DEF Fail
  <2>2. closing[c] = "no"
    BY <1>2 DEF LastInv, LastOf
  <2>3. ASSUME NEW d \in Channels PROVE LastOf(d)'
    BY <2>1, <2>2 DEF LastInv, LastOf, H2TypeOK
  <2> QED BY <2>3 DEF LastInv
<1> QED BY <1>1, <1>2

LEMMA CloseLast ==
    ASSUME H2TypeOK, LastInv, NEW cs \in SUBSET Channels, BeginClose(cs),
           \A d \in Channels : \/ bridge'[d] = bridge[d]
                               \/ d \in cs /\ bridge'[d] = "told"
                               \/ d \in cs /\ bridge'[d] = "close" /\ ~transport[d]
    PROVE  LastInv'
<1>1. ASSUME NEW d \in Channels PROVE LastOf(d)'
  <2> DEFINE f == d \in cs /\ closing[d] = "no"
  <2>1. /\ closing'[d] = IF f THEN "begun" ELSE closing[d]
        /\ closed'[d] = (closed[d] \/ f)
        /\ ready'[d] = IF f THEN 0 ELSE ready[d]
        /\ transport'[d] = transport[d]
    BY DEF BeginClose
  <2>2. closed[d] \in BOOLEAN /\ LastOf(d)
    BY DEF H2TypeOK, LastInv
  <2> QED BY <2>1, <2>2 DEF LastOf
<1> QED BY <1>1 DEF LastInv

LEMMA LastStep ==
    ASSUME ChannelTypes, LastInv, [H2Next]_hvars PROVE LastInv'
<1> USE DEF ChannelTypes
<1>1. CASE UNCHANGED <<closing, client, bridge>>
  BY <1>1 DEF LastInv, LastOf, client
<1>2. ASSUME NEW c \in Channels, NEW s \in Slots, Request(c, s) PROVE LastInv'
  <2>1. CASE Start(c, s) \/ NoAnswer(c, s) \/ ResponseStarted(c, s)
    BY <1>1, <2>1 DEF Start, NoAnswer, ResponseStarted, loops
  <2>2. ASSUME NEW new \in BOOLEAN, Answered(c, s, new) PROVE LastInv'
    <3>1. UNCHANGED <<closing, bridge>>
      BY <2>2 DEF Answered, FinishRequest
    <3>2. CASE closed[c]
      BY <1>1, <2>2, <3>1, <3>2 DEF Answered
    <3>3. CASE ~closed[c] /\ ready[c] = MaxQueue
      BY <2>2, <3>1, <3>3, FailLast DEF Answered
    <3>4. CASE ~closed[c] /\ ready[c] # MaxQueue
      <4>1. ready' = [ready EXCEPT ![c] = @ + 1] /\ UNCHANGED <<closed, transport>>
        BY <2>2, <3>4 DEF Answered
      <4> QED BY <3>1, <3>4, <4>1 DEF LastInv, LastOf, H2TypeOK
    <3> QED BY <3>2, <3>3, <3>4
  <2>3. CASE AnsweredEmpty(c, s) \/ Cancelled(c, s)
    BY <1>1, <2>3 DEF AnsweredEmpty, Cancelled, FinishRequest
  <2>4. CASE Refused(c, s) \/ Broken(c, s)
    BY <2>4, FailLast DEF Refused, Broken, FinishRequest
  <2> QED BY <1>2, <2>1, <2>2, <2>3, <2>4 DEF Request
<1>3. ASSUME NEW c \in Channels, Loops(c) PROVE LastInv'
  <2>1. CASE \/ UploadAgain(c) \/ MakeRoom(c) \/ RoomMade(c) \/ Rotated(c) \/ Delivered(c)
             \/ \E p \in Packets : UploadPacket(c, p) \/ Replay(c, p) \/ Rotate(c, p)
    BY <1>1, <2>1 DEF UploadAgain, MakeRoom, RoomMade, Rotated, Delivered, UploadPacket, Replay, Rotate
  <2>2. CASE Receive(c)
    <3>1. ready[c] > 0 /\ ready' = [ready EXCEPT ![c] = @ - 1] /\ UNCHANGED <<closed, transport, closing, bridge>>
      BY <2>2 DEF Receive
    <3>2. ~closed[c]
      BY <3>1 DEF LastInv, LastOf
    <3> QED BY <3>1, <3>2 DEF LastInv, LastOf, H2TypeOK
  <2>3. CASE BridgeEnds(c)
    <3>1. bridge[c] = "run" /\ bridge' = [bridge EXCEPT ![c] = IF transport[c] THEN "report" ELSE "close"]
      BY <2>3 DEF BridgeEnds
    <3>2. CASE transport[c]
      <4>1. UNCHANGED <<client, closing>>
        BY <2>3, <3>2 DEF BridgeEnds
      <4> QED BY <3>1, <3>2, <4>1 DEF LastInv, LastOf, H2TypeOK, client
    <3>3. CASE ~transport[c]
      <4>1. BeginClose({c})
        BY <2>3, <3>3 DEF BridgeEnds
      <4> QED BY <3>1, <3>3, <4>1, CloseLast DEF H2TypeOK
    <3> QED BY <3>2, <3>3
  <2>4. CASE Report(c)
    BY <2>4, CloseLast DEF Report, H2TypeOK
  <2>5. CASE Closed(c)
    <3>1. closing[c] = "begun" /\ closing' = [closing EXCEPT ![c] = "done"] /\ UNCHANGED <<client, bridge>>
      BY <2>5 DEF Closed
    <3> QED BY <3>1 DEF LastInv, LastOf, H2TypeOK, client
  <2>6. CASE BridgeDone(c)
    <3>1. closing[c] = "done" /\ bridge' = [bridge EXCEPT ![c] = "ended"] /\ UNCHANGED <<client, closing>>
      BY <2>6 DEF BridgeDone
    <3> QED BY <3>1 DEF LastInv, LastOf, H2TypeOK, client
  <2> QED BY <1>3, <2>1, <2>2, <2>3, <2>4, <2>5, <2>6 DEF Loops
<1>4. ASSUME NEW c \in Channels, OpenChannel(c) PROVE LastInv'
  <2>1. /\ bridge' = [bridge EXCEPT ![c] = "run"] /\ closing' = [closing EXCEPT ![c] = "no"]
        /\ ready' = [ready EXCEPT ![c] = 0] /\ closed' = [closed EXCEPT ![c] = FALSE]
        /\ transport' = [transport EXCEPT ![c] = FALSE]
    BY <1>4 DEF OpenChannel
  <2> QED BY <2>1 DEF LastInv, LastOf, H2TypeOK
<1>5. CASE CloseLane
  <2> DEFINE cs == {c \in Channels : bridge[c] # "none"}
  <2>1. BeginClose(cs) /\ bridge' = bridge /\ cs \in SUBSET Channels
    BY <1>5 DEF CloseLane
  <2> HIDE DEF cs
  <2> QED BY <2>1, CloseLast
<1>6. CASE OtherReserves \/ OtherReleases
  BY <1>1, <1>6 DEF OtherReserves, OtherReleases, loops
<1>7. ASSUME NEW c \in Channels, NEW p \in Packets, PacketExpires(c, p) PROVE LastInv'
  BY <1>1, <1>7 DEF PacketExpires, loops
<1>8. CASE LaneEnded \/ UNCHANGED hvars
  BY <1>1, <1>8 DEF LaneEnded, hvars, loops
<1> QED BY <1>2, <1>3, <1>4, <1>5, <1>6, <1>7, <1>8 DEF H2Next

-----------------------------------------------------------------------------
(* The capacity of the lane. *)

LEMMA Finite ==
    /\ IsFiniteSet(InFlight) /\ Cardinality(InFlight) \in Nat
    /\ \A c : /\ IsFiniteSet(Pending(c)) /\ IsFiniteSet(Replays(c))
              /\ Cardinality(Pending(c)) \in Nat /\ Cardinality(Replays(c)) \in Nat
<1>1. IsFiniteSet(Channels \X Slots) /\ InFlight \in SUBSET (Channels \X Slots)
  BY SlotsFinite, FS_Product DEF InFlight
<1>2. \A c : Pending(c) \in SUBSET Slots /\ Replays(c) \in SUBSET Slots
  BY DEF Pending, Replays
<1>3. IsFiniteSet(InFlight)
  BY <1>1, FS_Subset
<1>4. \A c : IsFiniteSet(Pending(c)) /\ IsFiniteSet(Replays(c))
  BY <1>2, SlotsFinite, FS_Subset
<1> QED BY <1>3, <1>4, FS_CardinalityType

(* One request more, or fewer. *)
LEMMA InFlightMore ==
    ASSUME NEW c \in Channels, NEW s \in Slots \ Pending(c), tasks'[c][s] # None,
           \A d \in Channels, u \in Slots :
              d # c \/ u # s => (tasks'[d][u] = None <=> tasks[d][u] = None)
    PROVE  /\ Cardinality(InFlight') = Cardinality(InFlight) + 1
           /\ Pending(c)' = Pending(c) \cup {s} /\ \A d \in Channels \ {c} : Pending(d)' = Pending(d)
<1>1. InFlight' = InFlight \cup {<<c, s>>} /\ <<c, s>> \notin InFlight
  BY DEF InFlight, Pending
<1>2. Cardinality(InFlight') = Cardinality(InFlight) + 1
  BY <1>1, Finite, FS_AddElement
<1> QED BY <1>2 DEF Pending

LEMMA InFlightFewer ==
    ASSUME NEW c \in Channels, NEW s \in Pending(c), tasks'[c][s] = None,
           \A d \in Channels, u \in Slots : d # c \/ u # s => tasks'[d][u] = tasks[d][u]
    PROVE  /\ Cardinality(InFlight') = Cardinality(InFlight) - 1
           /\ Pending(c)' = Pending(c) \ {s} /\ \A d \in Channels \ {c} : Pending(d)' = Pending(d)
<1>1. InFlight' = InFlight \ {<<c, s>>} /\ <<c, s>> \in InFlight
  BY DEF InFlight, Pending
<1>2. Cardinality(InFlight') = Cardinality(InFlight) - 1
  BY <1>1, Finite, FS_RemoveElement
<1> QED BY <1>2 DEF Pending

(* All of a channel's requests are gone. *)
LEMMA InFlightWithout ==
    ASSUME NEW c \in Channels, \A s \in Slots : tasks'[c][s] = None,
           \A d \in Channels \ {c} : tasks'[d] = tasks[d]
    PROVE  /\ Cardinality(InFlight') = Cardinality(InFlight) - Cardinality(Pending(c))
           /\ Pending(c)' = {} /\ \A d \in Channels \ {c} : Pending(d)' = Pending(d)
<1> DEFINE own == {c} \X Pending(c)
<1>1. InFlight' = InFlight \ own /\ InFlight \cap own = own
  BY DEF InFlight, Pending
<1>2. Cardinality(own) = Cardinality(Pending(c))
  <2>1. IsFiniteSet({c}) /\ Cardinality({c}) = 1
    BY FS_Singleton
  <2>2. Cardinality(own) = Cardinality({c}) * Cardinality(Pending(c))
    BY <2>1, Finite, FS_Product
  <2> QED BY <2>1, <2>2, Finite
<1>3. Cardinality(InFlight \ own) = Cardinality(InFlight) - Cardinality(InFlight \cap own)
  BY Finite, FS_Difference
<1> QED BY <1>1, <1>2, <1>3 DEF Pending

(* What the steps that send have in common. *)
LEMMA SentFacts ==
    ASSUME ChannelTypes, NEW c \in Channels, NEW p \in Packets, Sent(c, p) \/ SentAgain(c, p)
    PROVE  /\ inflight' = inflight + 1 /\ LaneHasCapacity /\ ~closed[c] /\ closing' = closing /\ others' = others
           /\ Cardinality(InFlight') = Cardinality(InFlight) + 1
           /\ \E s \in Slots \ Pending(c) : Pending(c)' = Pending(c) \cup {s}
           /\ \A d \in Channels \ {c} : Pending(d)' = Pending(d)
<1>1. CASE Sent(c, p)
  <2>1. PICK s \in Slots \ Pending(c) :
            /\ Made(c, s, p, FALSE, KeyOf[p] # NoKey) /\ Forgets(c, s, Lost(c, p))
            /\ \A d \in Channels \ {c} : tasks'[d] = tasks[d]
    BY <1>1, Submits DEF Sent, ChannelTypes
  <2>2. inflight' = inflight + 1
    BY <1>1, Submits DEF Sent, ChannelTypes
  <2>3. tasks'[c][s] # None /\ \A d \in Channels, u \in Slots :
              d # c \/ u # s => (tasks'[d][u] = None <=> tasks[d][u] = None)
    BY <2>1 DEF Made, Forgets
  <2> QED BY <1>1, <2>2, <2>3, InFlightMore DEF Sent
<1>2. CASE SentAgain(c, p)
  <2>1. PICK s \in Slots \ Pending(c) :
            /\ Made(c, s, p, TRUE, TRUE)
            /\ \A d \in Channels, u \in Slots : d # c \/ u # s => tasks'[d][u] = tasks[d][u]
    BY <1>2, Resends DEF SentAgain, ChannelTypes
  <2>2. inflight' = inflight + 1
    BY <1>2, Resends DEF SentAgain, ChannelTypes
  <2>3. tasks'[c][s] # None /\ \A d \in Channels, u \in Slots :
              d # c \/ u # s => (tasks'[d][u] = None <=> tasks[d][u] = None)
    BY <2>1 DEF Made
  <2> QED BY <1>2, <2>2, <2>3, InFlightMore DEF SentAgain
<1> QED BY <1>1, <1>2

LEMMA KinFacts ==
    ASSUME Kin PROVE InFlight' = InFlight /\ \A c \in Channels : Pending(c)' = Pending(c)
BY DEF Kin, InFlight, Pending

(* Each request of the lane is counted once: every kind of step. *)
LEMMA AccountsStep ==
    ASSUME ChannelTypes, LastInv, Accounts, Kind PROVE Accounts'
<1> DEFINE Done(c) == closing[c] = "done" => Pending(c) = {}
<1>1. /\ inflight \in Int /\ others \in Int /\ MaxLane \in Int /\ Cardinality(InFlight) \in Int
      /\ inflight = Cardinality(InFlight) + others /\ inflight <= MaxLane
      /\ \A c \in Channels : Done(c)
  BY Finite, H2Assumption DEF ChannelTypes, H2TypeOK, Accounts
<1>2. SUFFICES /\ inflight' = Cardinality(InFlight') + others' /\ inflight' <= MaxLane
               /\ \A c \in Channels : Done(c)'
  BY DEF Accounts
<1>3. CASE Quiet
  BY <1>1, <1>3, KinFacts DEF Quiet
<1>4. CASE Elsewhere
  <2>1. InFlight' = InFlight /\ \A c \in Channels : Pending(c)' = Pending(c)
    BY <1>4 DEF Elsewhere, InFlight, Pending
  <2> QED BY <1>1, <1>4, <2>1 DEF Elsewhere, LaneHasCapacity
<1>5. ASSUME NEW c \in Channels, Ends(c)
      PROVE  /\ inflight' = Cardinality(InFlight') + others' /\ inflight' <= MaxLane
             /\ \A d \in Channels : Done(d)'
  <2>1. /\ Cardinality(InFlight') = Cardinality(InFlight) - Cardinality(Pending(c))
        /\ Pending(c)' = {} /\ \A d \in Channels \ {c} : Pending(d)' = Pending(d)
    BY <1>5, InFlightWithout DEF Ends
  <2>2. inflight' = inflight - Cardinality(Pending(c)) /\ others' = others
        /\ \A d \in Channels \ {c} : closing'[d] = closing[d]
    BY <1>5 DEF Ends
  <2> QED BY <1>1, <2>1, <2>2, Finite
<1>6. ASSUME NEW c \in Channels, NEW s \in Slots, Ended(c, s)
      PROVE  /\ inflight' = Cardinality(InFlight') + others' /\ inflight' <= MaxLane
             /\ \A d \in Channels : Done(d)'
  <2>1. /\ Cardinality(InFlight') = Cardinality(InFlight) - 1
        /\ Pending(c)' = Pending(c) \ {s} /\ \A d \in Channels \ {c} : Pending(d)' = Pending(d)
    BY <1>6, InFlightFewer DEF Ended
  <2>2. inflight' = inflight - 1 /\ others' = others /\ closing' = closing
    BY <1>6 DEF Ended
  <2> QED BY <1>1, <2>1, <2>2
<1>7. ASSUME NEW c \in Channels, NEW p \in Packets, Sent(c, p) \/ SentAgain(c, p)
      PROVE  /\ inflight' = Cardinality(InFlight') + others' /\ inflight' <= MaxLane
             /\ \A d \in Channels : Done(d)'
  <2>1. closing[c] # "done"
    BY <1>7, SentFacts DEF LastInv, LastOf
  <2>2. /\ inflight' = inflight + 1 /\ LaneHasCapacity /\ closing' = closing /\ others' = others
        /\ Cardinality(InFlight') = Cardinality(InFlight) + 1
        /\ \A d \in Channels \ {c} : Pending(d)' = Pending(d)
    BY <1>7, SentFacts
  <2> QED BY <1>1, <2>1, <2>2 DEF LaneHasCapacity
<1> QED BY <1>3, <1>4, <1>5, <1>6, <1>7 DEF Kind

-----------------------------------------------------------------------------
(* Who sleeps. *)

Sleep(c) ==
    /\ up[c].pc = "channel" /\ ~up[c].woken => ~HasCapacity(c)
    /\ up[c].pc = "lane" /\ ~up[c].woken => ~LaneHasCapacity

LEMMA NoSleepStep ==
    ASSUME ChannelTypes, NoSleep, Kind PROVE NoSleep'
<1>1. inflight \in Int /\ MaxLane \in Int /\ \A c \in Channels : Sleep(c)
  BY H2Assumption DEF ChannelTypes, H2TypeOK, NoSleep, Sleep
<1>2. SUFFICES ASSUME NEW d \in Channels PROVE Sleep(d)'
  BY DEF NoSleep, Sleep
<1>3. CASE Quiet
  <2>1. inflight' = inflight /\ Pending(d)' = Pending(d)
    BY <1>3, KinFacts DEF Quiet
  <2>2. \/ up'[d].pc = "read"
        \/ up'[d].pc = up[d].pc /\ (up'[d] = up[d] \/ up'[d].woken = TRUE)
        \/ up'[d].pc = "channel" /\ ~HasCapacity(d)
        \/ up'[d].pc = "lane" /\ ~LaneHasCapacity
    BY <1>3 DEF Quiet
  <2> QED BY <1>1, <2>1, <2>2 DEF Sleep, HasCapacity, LaneHasCapacity
<1>4. ASSUME NEW c, Told(c), d # c => Pending(d)' = Pending(d) PROVE Sleep(d)'
  <2>1. /\ up'[d].pc = up[d].pc /\ (up'[d] = up[d] \/ up'[d].woken = TRUE)
        /\ up[d].pc = "lane" \/ (d = c /\ up[d].pc = "channel") => up'[d].woken = TRUE
    BY <1>4 DEF Told
  <2> QED BY <1>1, <1>4, <2>1 DEF Sleep, HasCapacity
<1>5. CASE Elsewhere
  <2>1. Pending(d)' = Pending(d)
    BY <1>5 DEF Elsewhere, Pending
  <2>2. CASE inflight' = inflight + 1 /\ up' = up
    BY <1>1, <2>1, <2>2 DEF Sleep, HasCapacity, LaneHasCapacity
  <2>3. CASE Told(None)
    BY <1>4, <2>1, <2>3
  <2> QED BY <1>5, <2>2, <2>3 DEF Elsewhere
<1>6. ASSUME NEW c \in Channels, Ends(c) \/ \E s \in Slots : Ended(c, s) PROVE Sleep(d)'
  <2>1. Told(c)
    BY <1>6 DEF Ends, Ended
  <2>2. d # c => Pending(d)' = Pending(d)
    BY <1>6 DEF Ends, Ended, Pending
  <2> QED BY <1>4, <2>1, <2>2
<1>7. ASSUME NEW c \in Channels, NEW p \in Packets, Sent(c, p) \/ SentAgain(c, p) PROVE Sleep(d)'
  <2>1. /\ inflight' = inflight + 1 /\ HasCapacity(c) /\ LaneHasCapacity
        /\ \A e \in Channels \ {c} : Pending(e)' = Pending(e)
    BY <1>7, SentFacts DEF HasCapacity
  <2>2. up'[d] = up[d] \/ (d = c /\ up'[d].pc = "read")
    BY <1>7 DEF Sent, SentAgain
  <2>3. CASE up'[d].pc = "read"
    BY <2>3 DEF Sleep
  <2>4. CASE up'[d] = up[d]
    BY <1>1, <2>1, <2>4 DEF Sleep, HasCapacity, LaneHasCapacity
  <2> QED BY <2>2, <2>3, <2>4
<1> QED BY <1>3, <1>5, <1>6, <1>7 DEF Kind

-----------------------------------------------------------------------------
(* The history, and what is sent again. *)

HistoryBound == \A c \in Channels : Len(hist[c]) <= MaxHistory

(* What becomes of the history when a packet is sent. *)
LEMMA Appends ==
    ASSUME ChannelTypes, HistoryBound, NEW c \in Channels, NEW p \in Packets,
           KeyOf[p] = key[c], ~InHistory(c, p)
    PROVE  LET h == Append(hist[c], p)
           IN  /\ Remembered(c, p) = h \/ KeyOf[p] = NoKey
               /\ h \in Seq(Packets) /\ Len(h) = Len(hist[c]) + 1 /\ h[Len(h)] = p
               /\ \A i \in DOMAIN hist[c] : i \in DOMAIN h /\ h[i] = hist[c][i]
               /\ \A i \in DOMAIN h : i = Len(h) \/ (i \in DOMAIN hist[c] /\ h[i] # p)
<1> DEFINE h == Append(hist[c], p)
<1>1. hist[c] \in Seq(Packets)
  BY DEF ChannelTypes, H2TypeOK
<1>2. /\ h \in Seq(Packets) /\ Len(h) = Len(hist[c]) + 1 /\ h[Len(h)] = p
      /\ DOMAIN h = 1 .. Len(hist[c]) + 1 /\ DOMAIN hist[c] = 1 .. Len(hist[c])
      /\ \A i \in 1 .. Len(hist[c]) : h[i] = hist[c][i]
  BY <1>1
<1>3. \A i \in DOMAIN hist[c] : hist[c][i] # p
  BY DEF InHistory
<1>4. Remembered(c, p) = h \/ KeyOf[p] = NoKey
  BY DEF Remembered
<1> HIDE DEF h
<1>5. Len(hist[c]) \in Nat
  BY <1>1
<1>6. \A i \in DOMAIN h : i = Len(h) \/ (i \in DOMAIN hist[c] /\ h[i] # p)
  BY <1>2, <1>3, <1>5
<1>7. \A i \in DOMAIN hist[c] : i \in DOMAIN h /\ h[i] = hist[c][i]
  BY <1>2, <1>5
<1> QED BY <1>2, <1>4, <1>6, <1>7 DEF h

LEMMA WithoutFacts ==
    ASSUME NEW h \in Seq(Packets), NEW i \in DOMAIN h
    PROVE  /\ Len(Without(h, i)) = Len(h) - 1
           /\ \A j \in DOMAIN h \ {i} : \E k \in DOMAIN Without(h, i) : Without(h, i)[k] = h[j]
<1> DEFINE w == Without(h, i)
<1>1. Len(h) \in Nat /\ DOMAIN h = 1 .. Len(h) /\ i \in 1 .. Len(h)
  OBVIOUS
<1>2. w = [j \in 1 .. Len(h) - 1 |-> h[IF j < i THEN j ELSE j + 1]]
  BY DEF Without
<1>3. Len(w) = Len(h) - 1
  BY <1>1, <1>2
<1>4. ASSUME NEW j \in DOMAIN h \ {i} PROVE \E k \in DOMAIN w : w[k] = h[j]
  <2>1. CASE j < i
    <3>1. j \in 1 .. Len(h) - 1 /\ w[j] = h[j]
      BY <1>1, <1>2, <2>1
    <3> QED BY <1>2, <3>1
  <2>2. CASE ~(j < i)
    <3>1. j - 1 \in 1 .. Len(h) - 1 /\ ~(j - 1 < i) /\ (j - 1) + 1 = j
      BY <1>1, <2>2
    <3>2. w[j - 1] = h[j]
      BY <1>2, <3>1
    <3> QED BY <1>2, <3>1, <3>2
  <2> QED BY <2>1, <2>2
<1> QED BY <1>3, <1>4

(* The packet itself is kept; another goes when it is not spared, or all   *)
(* are.                                                                    *)
LEMMA TrimFacts ==
    ASSUME ChannelTypes, HistoryBound, NEW c \in Channels, NEW p \in Packets,
           KeyOf[p] = key[c], ~InHistory(c, p)
    PROVE  LET t == Trimmed(c, Append(hist[c], p), p)
           IN  /\ Len(t) <= MaxHistory
               /\ \E k \in DOMAIN t : t[k] = p
               /\ \A i \in DOMAIN hist[c] :
                     \/ \E k \in DOMAIN t : t[k] = hist[c][i]
                     \/ ~Spared(c, hist[c][i])
                     \/ \A q \in HistorySet(c) : Spared(c, q)
<1> DEFINE h == Append(hist[c], p)
           t == Trimmed(c, h, p)
           v == Victim(c, h, p)
<1>1. /\ h \in Seq(Packets) /\ Len(h) = Len(hist[c]) + 1 /\ h[Len(h)] = p
      /\ \A i \in DOMAIN hist[c] : i \in DOMAIN h /\ h[i] = hist[c][i]
      /\ \A i \in DOMAIN h : i = Len(h) \/ (i \in DOMAIN hist[c] /\ h[i] # p)
  BY Appends
<1>2. Len(hist[c]) \in Nat /\ Len(hist[c]) <= MaxHistory /\ MaxHistory \in Nat \ {0}
  BY H2Assumption DEF ChannelTypes, H2TypeOK, HistoryBound
<1> HIDE DEF h
<1>3. Len(h) \in DOMAIN h /\ DOMAIN h = 1 .. Len(h)
  BY <1>1, <1>2
<1>4. CASE Len(h) <= MaxHistory
  <2>1. t = h
    BY <1>1, <1>2, <1>4 DEF Trimmed
  <2> HIDE DEF t
  <2> QED BY <1>1, <1>3, <1>4, <2>1 DEF t, h
<1>5. CASE ~(Len(h) <= MaxHistory)
  <2>1. t = Without(h, v) /\ Len(h) > MaxHistory
    BY <1>1, <1>2, <1>5 DEF Trimmed
  <2>2. /\ v \in DOMAIN h
        /\ \/ h[v] # p /\ ~Spared(c, h[v])
           \/ v = 1 /\ \A i \in DOMAIN h : h[i] = p \/ Spared(c, h[i])
    BY <1>1, <2>1, VictimFacts
  <2>3. v # Len(h)
    BY <1>1, <1>2, <2>1, <2>2
  <2>4. Len(t) = Len(h) - 1 /\ \A j \in DOMAIN h \ {v} : \E k \in DOMAIN t : t[k] = h[j]
    BY <1>1, <2>1, <2>2, WithoutFacts
  <2> HIDE DEF t, v
  <2>5. Len(t) <= MaxHistory
    BY <1>1, <1>2, <2>4
  <2>6. \E k \in DOMAIN t : t[k] = p
    BY <1>1, <1>3, <2>3, <2>4
  <2>7. ASSUME NEW i \in DOMAIN hist[c]
        PROVE  \/ \E k \in DOMAIN t : t[k] = hist[c][i]
               \/ ~Spared(c, hist[c][i])
               \/ \A q \in HistorySet(c) : Spared(c, q)
    <3>1. CASE i # v
      BY <1>1, <2>4, <3>1
    <3>2. CASE i = v /\ ~Spared(c, h[v])
      BY <1>1, <3>2
    <3>3. CASE \A j \in DOMAIN h : h[j] = p \/ Spared(c, h[j])
      <4>1. ASSUME NEW j \in DOMAIN hist[c] PROVE Spared(c, hist[c][j])
        <5>1. hist[c][j] # p
          BY DEF InHistory
        <5> QED BY <1>1, <3>3, <5>1
      <4> QED BY <4>1 DEF HistorySet
    <3> QED BY <2>2, <3>1, <3>2, <3>3
  <2> QED BY <2>5, <2>6, <2>7 DEF t, h
<1> QED BY <1>4, <1>5

(* Sending p: the history stays within its bound, has p if p can be sent   *)
(* again, and every packet that leaves it is one of Lost(c, p).            *)
LEMMA SendHistory ==
    ASSUME ChannelTypes, HistoryBound, NEW c \in Channels, NEW p \in Packets, Submit(c, p)
    PROVE  /\ HistoryBound'
           /\ \A d \in Channels \ {c} : hist'[d] = hist[d]
           /\ KeyOf[p] # NoKey => InHistory(c, p)'
           /\ \A q \in Packets : InHistory(c, q) /\ q \notin Lost(c, p) => InHistory(c, q)'
           /\ \A q \in Packets : InHistory(c, q) /\ ~InHistory(c, q)' =>
                 key'[c] # key[c] \/ ~Spared(c, q) \/ \A r \in HistorySet(c) : Spared(c, r)
<1> DEFINE t == Trimmed(c, Remembered(c, p), p)
<1>1. /\ hist' = [hist EXCEPT ![c] = IF KeyOf[p] # NoKey THEN t ELSE @]
      /\ key' = [key EXCEPT ![c] = IF KeyOf[p] # NoKey THEN KeyOf[p] ELSE @]
  BY DEF Submit
<1>2. hist \in [Channels -> Seq(Packets)] /\ c \in DOMAIN key
  BY DEF ChannelTypes, H2TypeOK
<1>3. \A d \in Channels \ {c} : hist'[d] = hist[d]
  BY <1>1, <1>2
<1>4. CASE KeyOf[p] = NoKey
  <2>1. hist' = hist
    BY <1>1, <1>2, <1>4
  <2> QED BY <1>4, <2>1 DEF InHistory, HistoryBound
<1>5. CASE KeyOf[p] # NoKey
  <2>1. hist'[c] = t /\ key'[c] = KeyOf[p]
    BY <1>1, <1>2, <1>5
  <2>2. SUFFICES /\ Len(t) <= MaxHistory /\ \E k \in DOMAIN t : t[k] = p
                 /\ \A q \in Packets : InHistory(c, q) /\ q \notin Lost(c, p) => \E k \in DOMAIN t : t[k] = q
                 /\ \A q \in Packets : InHistory(c, q) /\ (\A k \in DOMAIN t : t[k] # q) =>
                      KeyOf[p] # key[c] \/ ~Spared(c, q) \/ \A r \in HistorySet(c) : Spared(c, r)
    BY <1>3, <2>1 DEF InHistory, HistoryBound
  <2>3. CASE KeyOf[p] # key[c]
    <3>1. Lost(c, p) = HistorySet(c)
      BY <1>5, <2>3 DEF Lost
    <3>2. t = <<p>>
      BY <1>5, <2>3, H2Assumption DEF Remembered, Trimmed
    <3> HIDE DEF t
    <3>3. Len(t) <= MaxHistory /\ 1 \in DOMAIN t /\ t[1] = p
      BY <3>2, H2Assumption
    <3> QED BY <2>3, <3>1, <3>3 DEF InHistory, HistorySet
  <2>4. CASE KeyOf[p] = key[c]
    <3>1. Lost(c, p) = {q \in HistorySet(c) : \A i \in DOMAIN t : t[i] # q}
      BY <1>5, <2>4 DEF Lost
    <3>2. CASE InHistory(c, p)
      <4>1. t = hist[c] /\ Len(t) <= MaxHistory
        BY <1>2, <1>5, <2>4, <3>2, H2Assumption DEF Remembered, Trimmed, HistoryBound
      <4> HIDE DEF t
      <4> QED BY <3>2, <4>1 DEF InHistory
    <3>3. CASE ~InHistory(c, p)
      <4>1. Remembered(c, p) = Append(hist[c], p)
        BY <1>5, <2>4, <3>3, Appends
      <4>2. /\ Len(t) <= MaxHistory /\ \E k \in DOMAIN t : t[k] = p
            /\ \A i \in DOMAIN hist[c] : \/ \E k \in DOMAIN t : t[k] = hist[c][i]
                                         \/ ~Spared(c, hist[c][i])
                                         \/ \A q \in HistorySet(c) : Spared(c, q)
        BY <2>4, <3>3, <4>1, TrimFacts
      <4> HIDE DEF t
      <4>3. ASSUME NEW q \in Packets, InHistory(c, q), q \notin Lost(c, p) PROVE \E k \in DOMAIN t : t[k] = q
        BY <3>1, <4>3 DEF InHistory, HistorySet
      <4>4. ASSUME NEW q \in Packets, InHistory(c, q), \A k \in DOMAIN t : t[k] # q
            PROVE  ~Spared(c, q) \/ \A r \in HistorySet(c) : Spared(c, r)
        BY <4>2, <4>4 DEF InHistory
      <4> QED BY <4>2, <4>3, <4>4
    <3> QED BY <3>2, <3>3
  <2> QED BY <2>3, <2>4
<1> QED BY <1>3, <1>4, <1>5

(* What is known of a request is in the history; a packet is at most once  *)
(* on its way again; and a pass that waits for a replay to end finds room  *)
(* for another.                                                            *)
Tracked(c) == \A s \in Pending(c) : tasks[c][s].known => InHistory(c, tasks[c][s].packet)
Once(c) == \A p \in Packets : \A s, u \in Again(c, p) : s = u
PassOK(c) ==
    rec[c].pc = "rotate" =>
        IF rec[c].slot # None THEN rec[c].of = c /\ rec[c].slot \in Replays(c)
        ELSE Cardinality(Replays(c)) < MaxReplays
Sound(c) == Tracked(c) /\ Once(c) /\ PassOK(c) /\ Cardinality(Replays(c)) <= MaxReplays
SoundInv == HistoryBound /\ \A c \in Channels : Sound(c)

(* No request becomes a replay. *)
LEMMA KeepsSound ==
    ASSUME NEW d \in Channels, Sound(d), PassOK(d)',
           \A s \in Replays(d)' : /\ s \in Replays(d) /\ tasks'[d][s].packet = tasks[d][s].packet
                                  /\ tasks'[d][s].known => tasks[d][s].known,
           \A s \in Pending(d)' : tasks'[d][s].known => InHistory(d, tasks[d][s].packet)'
    PROVE  Sound(d)'
<1>1. Tracked(d)'
  BY DEF Tracked
<1>2. Once(d)'
  <2>1. \A p \in Packets : Again(d, p)' \subseteq Again(d, p)
    BY DEF Again
  <2> QED BY <2>1 DEF Once, Sound
<1>3. Cardinality(Replays(d)') <= MaxReplays
  <2>1. IsFiniteSet(Replays(d)) /\ Replays(d)' \in SUBSET Replays(d)
    BY Finite
  <2>2. Cardinality(Replays(d)') <= Cardinality(Replays(d)) /\ Cardinality(Replays(d)') \in Nat
    BY <2>1, FS_Subset, FS_CardinalityType
  <2> QED BY <2>2, Finite, H2Assumption DEF Sound
<1> QED BY <1>1, <1>2, <1>3 DEF Sound

(* No request of d is made, and none ends. *)
LEMMA SameSound ==
    ASSUME NEW d \in Channels, Sound(d), hist'[d] = hist[d],
           \A s \in Slots : /\ tasks'[d][s] = None <=> tasks[d][s] = None
                            /\ tasks[d][s] # None => SameRequest(tasks'[d][s], tasks[d][s]),
           \/ rec'[d] = rec[d] \/ rec'[d].pc # "rotate"
           \/ rec'[d].of = d /\ rec'[d].slot \in Replays(d)
           \/ rec'[d].slot = None /\ rec[d].slot = None /\ rec'[d].pc = rec[d].pc
    PROVE  Sound(d)'
<1>1. Pending(d)' = Pending(d) /\ Replays(d)' = Replays(d)
  BY DEF Pending, Replays, SameRequest
<1>2. None \notin Replays(d)
  BY NewTasks DEF Replays, Pending
<1>3. PassOK(d)'
  BY <1>1, <1>2 DEF Sound, PassOK
<1>4. \A s \in Replays(d)' : /\ s \in Replays(d) /\ tasks'[d][s].packet = tasks[d][s].packet
                             /\ tasks'[d][s].known => tasks[d][s].known
  BY <1>1 DEF SameRequest, Replays, Pending
<1>5. ASSUME NEW s \in Pending(d)', tasks'[d][s].known PROVE InHistory(d, tasks[d][s].packet)'
  <2>1. s \in Pending(d) /\ tasks[d][s].known /\ tasks'[d][s].packet = tasks[d][s].packet
    BY <1>1, <1>5 DEF SameRequest, Pending
  <2> QED BY <2>1 DEF Sound, Tracked, InHistory
<1> QED BY <1>3, <1>4, <1>5, KeepsSound

(* What is true of another channel's end or request. *)
LEMMA OthersSound ==
    ASSUME SoundInv, NEW c \in Channels, NEW d \in Channels \ {c}, NEW ss, hist'[d] = hist[d],
           GoesOn(c, ss), \A s \in Slots : tasks'[d][s] = tasks[d][s]
    PROVE  Sound(d)'
<1>1. Sound(d)
  BY DEF SoundInv
<1>2. CASE rec'[d] = rec[d] \/ rec'[d].pc # "rotate"
  BY <1>1, <1>2, SameSound DEF SameRequest
<1>3. CASE rec'[d] # rec[d] /\ rec'[d].pc = "rotate"
  <2>1. rec[d].of = c /\ rec'[d].pc = rec[d].pc /\ rec'[d].slot = None
    BY <1>3 DEF GoesOn
  <2>2. rec[d].slot = None
    BY <1>1, <1>3, <2>1 DEF Sound, PassOK
  <2> QED BY <1>1, <2>1, <2>2, SameSound DEF SameRequest
<1> QED BY <1>2, <1>3

LEMMA EndedSound ==
    ASSUME SoundInv, NEW c \in Channels, NEW s \in Slots, Ended(c, s) PROVE SoundInv'
<1>1. HistoryBound'
  BY DEF SoundInv, HistoryBound, Ended
<1>2. /\ s \in Pending(c) /\ tasks'[c][s] = None /\ GoesOn(c, {s}) /\ hist' = hist
      /\ \A d \in Channels, u \in Slots : d # c \/ u # s => tasks'[d][u] = tasks[d][u]
  BY DEF Ended
<1>3. \A d \in Channels \ {c} : Sound(d)'
  BY <1>2, OthersSound
<1>4. Sound(c)'
  <2>1. Sound(c)
    BY DEF SoundInv
  <2>2. Pending(c)' = Pending(c) \ {s} /\ Replays(c)' = Replays(c) \ {s}
    BY <1>2 DEF Pending, Replays
  <2>3. IsFiniteSet(Replays(c)) /\ Cardinality(Replays(c)) \in Nat /\ MaxReplays \in Nat
    BY Finite, H2Assumption
  <2>4. /\ Cardinality(Replays(c)') \in Nat
        /\ Cardinality(Replays(c)') <= Cardinality(Replays(c))
        /\ s \in Replays(c) => Cardinality(Replays(c)') = Cardinality(Replays(c)) - 1
    <3> DEFINE r == Replays(c)
    <3>1. IsFiniteSet(r) /\ Cardinality(r) \in Nat
      BY <2>3
    <3> HIDE DEF r
    <3>2. Cardinality(r \ {s}) = IF s \in r THEN Cardinality(r) - 1 ELSE Cardinality(r)
      BY <3>1, FS_RemoveElement
    <3>3. Cardinality(r \ {s}) \in Nat
      BY <3>1, FS_RemoveElement, FS_CardinalityType
    <3>4. Replays(c)' = r \ {s}
      BY <2>2 DEF r
    <3>5. /\ Cardinality(Replays(c)') \in Nat
          /\ Cardinality(Replays(c)') <= Cardinality(r)
          /\ s \in r => Cardinality(Replays(c)') = Cardinality(r) - 1
      BY <3>1, <3>2, <3>3, <3>4
    <3> QED BY <3>5 DEF r
  <2>5. PassOK(c)'
    <3>1. CASE rec[c].of = c /\ rec[c].slot = s
      <4>1. rec'[c].pc = rec[c].pc /\ rec'[c].slot = None /\ s # None
        BY <1>2, <3>1, NewTasks DEF GoesOn
      <4>2. rec[c].pc = "rotate" => s \in Replays(c)
        BY <2>1, <3>1, <4>1 DEF Sound, PassOK
      <4> QED BY <2>1, <2>3, <2>4, <4>1, <4>2 DEF Sound, PassOK
    <3>2. CASE ~(rec[c].of = c /\ rec[c].slot = s)
      <4>1. rec'[c] = rec[c]
        BY <1>2, <3>2 DEF GoesOn
      <4> QED BY <2>1, <2>2, <2>3, <2>4, <3>2, <4>1 DEF Sound, PassOK
    <3> QED BY <3>1, <3>2
  <2>6. \A u \in Replays(c)' : /\ u \in Replays(c) /\ tasks'[c][u].packet = tasks[c][u].packet
                               /\ tasks'[c][u].known => tasks[c][u].known
    BY <1>2, <2>2 DEF Replays, Pending
  <2>7. \A u \in Pending(c)' : tasks'[c][u].known => InHistory(c, tasks[c][u].packet)'
    BY <1>2, <2>1, <2>2 DEF Sound, Tracked, InHistory, Pending
  <2> QED BY <2>1, <2>5, <2>6, <2>7, KeepsSound
<1> QED BY <1>1, <1>3, <1>4 DEF SoundInv

LEMMA EndsSound ==
    ASSUME ChannelTypes, SoundInv, NEW c \in Channels, Ends(c) PROVE SoundInv'
<1>1. /\ \A s \in Slots : tasks'[c][s] = None
      /\ \A d \in Channels \ {c} : tasks'[d] = tasks[d] /\ hist'[d] = hist[d]
      /\ hist'[c] = <<>> /\ GoesOn(c, Slots \cup {None})
  BY DEF Ends
<1>2. HistoryBound'
  <2>1. Len(<<>>) = 0
    OBVIOUS
  <2> QED BY <1>1, <2>1, H2Assumption DEF SoundInv, HistoryBound
<1>3. \A d \in Channels \ {c} : Sound(d)'
  BY <1>1, OthersSound
<1>4. Sound(c)'
  <2>1. Sound(c)
    BY DEF SoundInv
  <2>2. Pending(c)' = {} /\ Replays(c)' = {}
    BY <1>1 DEF Pending, Replays
  <2>3. Cardinality(Replays(c)') = 0 /\ MaxReplays > 0
    BY <2>2, FS_EmptySet, H2Assumption
  <2>4. rec[c].slot \in Slots \cup {None}
    BY DEF ChannelTypes, H2TypeOK, PassRec
  <2>5. PassOK(c)'
    <3>1. CASE rec[c].of = c
      BY <1>1, <2>3, <2>4, <3>1 DEF GoesOn, PassOK
    <3>2. CASE rec[c].of # c
      <4>1. rec'[c] = rec[c]
        BY <1>1, <3>2 DEF GoesOn
      <4> QED BY <2>1, <2>3, <3>2, <4>1 DEF Sound, PassOK
    <3> QED BY <3>1, <3>2
  <2> QED BY <2>1, <2>2, <2>5, KeepsSound
<1> QED BY <1>2, <1>3, <1>4 DEF SoundInv

LEMMA SentSound ==
    ASSUME ChannelTypes, SoundInv, NEW c \in Channels, NEW p \in Packets, Sent(c, p) PROVE SoundInv'
<1>1. Submit(c, p) /\ rec' = rec /\ HistoryBound
  BY DEF Sent, SoundInv
<1>2. /\ HistoryBound' /\ \A d \in Channels \ {c} : hist'[d] = hist[d]
      /\ KeyOf[p] # NoKey => InHistory(c, p)'
      /\ \A q \in Packets : InHistory(c, q) /\ q \notin Lost(c, p) => InHistory(c, q)'
  BY <1>1, SendHistory
<1>3. PICK s \in Slots \ Pending(c) :
          /\ Made(c, s, p, FALSE, KeyOf[p] # NoKey) /\ Forgets(c, s, Lost(c, p))
          /\ \A d \in Channels \ {c} : tasks'[d] = tasks[d]
  BY <1>1, Submits DEF ChannelTypes
<1>4. ASSUME NEW d \in Channels \ {c} PROVE Sound(d)'
  BY <1>1, <1>2, <1>3, SameSound DEF SoundInv, SameRequest
<1>5. Sound(c)'
  <2>1. Sound(c)
    BY DEF SoundInv
  <2>2. Replays(c)' = Replays(c)
    BY <1>3 DEF Made, Forgets, Replays, Pending
  <2>3. PassOK(c)'
    BY <1>1, <2>1, <2>2 DEF Sound, PassOK
  <2>4. ASSUME NEW u \in Replays(c)'
        PROVE  /\ u \in Replays(c) /\ tasks'[c][u].packet = tasks[c][u].packet
               /\ tasks'[c][u].known => tasks[c][u].known
    BY <1>3, <2>2 DEF Forgets, Replays, Pending
  <2>5. ASSUME NEW u \in Pending(c)', tasks'[c][u].known PROVE InHistory(c, tasks[c][u].packet)'
    <3>1. CASE u = s
      BY <1>2, <1>3, <2>5, <3>1 DEF Made
    <3>2. CASE u # s
      <4>1. u \in Slots \ {s} /\ tasks[c][u] # None
        BY <1>3, <3>2 DEF Pending, Forgets
      <4>2. tasks[c][u].known /\ tasks[c][u].packet \notin Lost(c, p) /\ tasks'[c][u].packet = tasks[c][u].packet
        BY <1>3, <2>5, <4>1 DEF Forgets
      <4>3. InHistory(c, tasks[c][u].packet) /\ tasks[c][u].packet \in Packets
        BY <2>1, <4>1, <4>2 DEF Sound, Tracked, Pending, ChannelTypes, H2TypeOK, InHistory
      <4> QED BY <1>2, <4>2, <4>3
    <3> QED BY <3>1, <3>2
  <2> QED BY <2>1, <2>3, <2>4, <2>5, KeepsSound
<1> QED BY <1>2, <1>4, <1>5 DEF SoundInv

LEMMA SentAgainSound ==
    ASSUME ChannelTypes, SoundInv, NEW c \in Channels, NEW p \in Packets, SentAgain(c, p) PROVE SoundInv'
<1>1. /\ hist' = hist /\ InHistory(c, p) /\ Again(c, p) = {} /\ Resend(c, p)
      /\ Cardinality(Replays(c)) < MaxReplays \/ (rec[c].pc = "rotate" /\ rec[c].slot = None)
      /\ rec'[c].pc = "wait" /\ \A d \in Channels \ {c} : rec'[d] = rec[d]
  BY DEF SentAgain
<1>2. HistoryBound'
  BY <1>1 DEF SoundInv, HistoryBound
<1>3. PICK s \in Slots \ Pending(c) :
          /\ Made(c, s, p, TRUE, TRUE)
          /\ \A d \in Channels, u \in Slots : d # c \/ u # s => tasks'[d][u] = tasks[d][u]
  BY <1>1, Resends DEF ChannelTypes
<1>4. ASSUME NEW d \in Channels \ {c} PROVE Sound(d)'
  <2>1. \A u \in Slots : tasks'[d][u] = tasks[d][u]
    BY <1>3
  <2> QED BY <1>1, <2>1, SameSound DEF SoundInv, SameRequest
<1>5. Sound(c)'
  <2>1. Sound(c) /\ s \notin Replays(c)
    BY DEF SoundInv, Replays
  <2>2. Replays(c)' = Replays(c) \cup {s} /\ Pending(c)' = Pending(c) \cup {s}
    BY <1>3 DEF Made, Replays, Pending
  <2>3. IsFiniteSet(Replays(c)) /\ Cardinality(Replays(c)) \in Nat /\ MaxReplays \in Nat
    BY Finite, H2Assumption
  <2>4. Cardinality(Replays(c)) < MaxReplays
    BY <1>1, <2>1 DEF Sound, PassOK
  <2>5. Cardinality(Replays(c)') <= MaxReplays
    <3> DEFINE r == Replays(c)
    <3>1. IsFiniteSet(r) /\ Cardinality(r) \in Nat /\ s \notin r /\ Cardinality(r) < MaxReplays
      BY <2>1, <2>3, <2>4
    <3>2. Replays(c)' = r \cup {s}
      BY <2>2
    <3> HIDE DEF r
    <3>3. Cardinality(r \cup {s}) = Cardinality(r) + 1
      BY <3>1, FS_AddElement
    <3> QED BY <2>3, <3>1, <3>2, <3>3
  <2>6. PassOK(c)'
    BY <1>1 DEF PassOK
  <2>7. Tracked(c)'
    BY <1>1, <1>3, <2>1, <2>2 DEF Tracked, Sound, Made, InHistory, Pending
  <2>8. Once(c)'
    <3>1. ASSUME NEW q \in Packets \ {p} PROVE Again(c, q)' \subseteq Again(c, q)
      BY <1>3, <2>2 DEF Again, Made, Replays, Pending
    <3>2. Again(c, p)' \subseteq {s}
      BY <1>1, <1>3, <2>2 DEF Again, Made, Replays, Pending
    <3> QED BY <2>1, <3>1, <3>2 DEF Once, Sound
  <2> QED BY <2>5, <2>6, <2>7, <2>8 DEF Sound
<1> QED BY <1>2, <1>4, <1>5 DEF SoundInv

(* Every kind of step keeps what is sent again sound. *)
LEMMA SoundStep ==
    ASSUME ChannelTypes, SoundInv, Kind PROVE SoundInv'
<1>1. CASE Quiet
  <2>1. HistoryBound'
    BY <1>1 DEF Quiet, SoundInv, HistoryBound
  <2>2. ASSUME NEW d \in Channels PROVE Sound(d)'
    BY <1>1, SameSound DEF Quiet, Kin, SoundInv
  <2> QED BY <2>1, <2>2 DEF SoundInv
<1>2. CASE Elsewhere
  <2>1. HistoryBound'
    BY <1>2 DEF Elsewhere, SoundInv, HistoryBound
  <2>2. ASSUME NEW d \in Channels PROVE Sound(d)'
    BY <1>2, SameSound DEF Elsewhere, SameRequest, SoundInv
  <2> QED BY <2>1, <2>2 DEF SoundInv
<1> QED BY <1>1, <1>2, EndsSound, EndedSound, SentSound, SentAgainSound DEF Kind

-----------------------------------------------------------------------------
(* Theorems *)

ChannelInv == ChannelTypes /\ LastInv /\ Accounts /\ NoSleep /\ SoundInv

LEMMA ChannelsBegin ==
    ASSUME H2Init PROVE ChannelInv
<1> DEFINE idle == [pc |-> "read", packet |-> None, woken |-> FALSE]
           rest == [pc |-> "wait", packet |-> None, of |-> None, slot |-> None]
<1>1. /\ tasks = [c \in Channels |-> [s \in Slots |-> None]] /\ hist = [c \in Channels |-> <<>>]
      /\ entry = [c \in Channels |-> [p \in Packets |-> Fresh]] /\ key = [c \in Channels |-> NoKey]
      /\ ready = [c \in Channels |-> 0] /\ closed = [c \in Channels |-> FALSE]
      /\ transport = [c \in Channels |-> FALSE] /\ up = [c \in Channels |-> idle]
      /\ down = [c \in Channels |-> "get"] /\ rec = [c \in Channels |-> rest]
      /\ bridge = [c \in Channels |-> "none"] /\ closing = [c \in Channels |-> "no"]
      /\ inflight = 0 /\ others = 0 /\ laneClosed = FALSE
  BY DEF H2Init
<1>2. idle \in UpRec /\ idle.pc = "read" /\ rest \in PassRec /\ rest.pc = "wait"
  BY UpRecs, PassRecs
<1> HIDE DEF idle, rest
<1>3. Fresh \in EntryRec /\ 0 \in 0 .. MaxQueue /\ 0 \in 0 .. MaxOthers /\ <<>> \in Seq(Packets)
  BY H2Assumption DEF Fresh, EntryRec
<1>4. tasks \in TaskTable
  BY <1>1 DEF TaskTable
<1>5. ClientTypes /\ EntryTypes /\ HistoryTypes /\ LaneTypes
  <2>1. ClientTypes
    BY <1>1, <1>3 DEF ClientTypes
  <2>4. LaneTypes
    <3>1. inflight \in Int /\ others \in 0 .. MaxOthers
      BY <1>1, <1>3
    <3>2. laneClosed \in BOOLEAN
      BY <1>1
    <3> QED BY <3>1, <3>2 DEF LaneTypes
  <2>2. EntryTypes
    BY <1>1, <1>3 DEF EntryTypes
  <2>3. HistoryTypes
    BY <1>1, <1>3 DEF HistoryTypes
  <2> QED BY <2>1, <2>2, <2>3, <2>4
<1>6. LoopTypes
  BY <1>1, <1>2 DEF LoopTypes
<1>7. ChannelTypes
  BY <1>1, <1>2, <1>4, <1>5, <1>6, Parts DEF ChannelTypes, Waiting
<1>8. LastInv
  BY <1>1 DEF LastInv, LastOf
<1>9. InFlight = {} /\ \A c \in Channels : Pending(c) = {} /\ Replays(c) = {}
  BY <1>1 DEF InFlight, Pending, Replays
<1>10. Accounts
  BY <1>1, <1>9, FS_EmptySet, H2Assumption DEF Accounts
<1>11. NoSleep
  BY <1>1, <1>2 DEF NoSleep
<1>12. HistoryBound
  <2>1. Len(<<>>) = 0
    OBVIOUS
  <2> QED BY <1>1, <2>1, H2Assumption DEF HistoryBound
<1>13. ASSUME NEW c \in Channels PROVE Sound(c)
  <2>1. Pending(c) = {} /\ Replays(c) = {} /\ rec[c].pc = "wait"
    BY <1>1, <1>2, <1>9
  <2>2. Cardinality(Replays(c)) <= MaxReplays
    BY <2>1, FS_EmptySet, H2Assumption
  <2>3. Tracked(c) /\ Once(c) /\ PassOK(c)
    BY <2>1 DEF Tracked, Once, Again, PassOK
  <2> QED BY <2>2, <2>3 DEF Sound
<1> QED BY <1>7, <1>8, <1>10, <1>11, <1>12, <1>13 DEF ChannelInv, SoundInv

LEMMA ChannelsStep ==
    ASSUME ChannelInv, [H2Next]_hvars PROVE ChannelInv'
<1>1. ChannelTypes' /\ Kind
  BY StepKinds DEF ChannelInv
<1>2. LastInv'
  BY LastStep DEF ChannelInv
<1>3. Accounts' /\ NoSleep' /\ SoundInv'
  BY <1>1, AccountsStep, NoSleepStep, SoundStep DEF ChannelInv
<1> QED BY <1>1, <1>2, <1>3 DEF ChannelInv

(* The counts, the wake-ups, the history and the order of last words hold  *)
(* together, and every step of the channels of a lane keeps them.          *)
THEOREM ChannelsInvariant == H2Spec => []ChannelInv
<1>1. H2Init => ChannelInv
  BY ChannelsBegin
<1>2. ChannelInv /\ [H2Next]_hvars => ChannelInv'
  BY ChannelsStep
<1> QED BY <1>1, <1>2, PTL DEF H2Spec

(* Every state of the channels of a lane has its type. *)
THEOREM ChannelsTyped == H2Spec => []H2TypeOK
<1>1. ChannelInv => H2TypeOK
  BY DEF ChannelInv, ChannelTypes
<1> QED BY <1>1, ChannelsInvariant, PTL

(* The lane counts every request in flight once, and never more than it    *)
(* has room for (_reserve, _release, _finish_request, close).              *)
THEOREM LaneAccounts == H2Spec => []Accounts
<1>1. ChannelInv => Accounts
  BY DEF ChannelInv
<1> QED BY <1>1, ChannelsInvariant, PTL

(* No upload sleeps while there is room for its packet (send and the       *)
(* Conditions of the channel and the lane).                                *)
THEOREM UploadsAreWoken == H2Spec => []NoSleep
<1>1. ChannelInv => NoSleep
  BY DEF ChannelInv
<1> QED BY <1>1, ChannelsInvariant, PTL

LEMMA SoundReplays ==
    ASSUME ChannelInv PROVE ReplaysSound
<1>1. ASSUME NEW c \in Channels, NEW p \in Packets PROVE Cardinality(Again(c, p)) <= 1
  <2>1. Once(c)
    BY DEF ChannelInv, SoundInv, Sound
  <2>2. Again(c, p) = {} \/ \E s : Again(c, p) = {s}
    BY <2>1 DEF Once
  <2>3. CASE Again(c, p) = {}
    BY <2>3, FS_EmptySet
  <2>4. ASSUME NEW s, Again(c, p) = {s} PROVE Cardinality(Again(c, p)) <= 1
    <3>1. Cardinality({s}) = 1
      BY FS_Singleton
    <3> QED BY <2>4, <3>1
  <2> QED BY <2>2, <2>3, <2>4
<1>2. ASSUME NEW c \in Channels, NEW p \in Packets, Originals(c, p) \cup Again(c, p) # {} PROVE InHistory(c, p)
  <2>1. PICK s \in Pending(c) : tasks[c][s].known /\ tasks[c][s].packet = p
    BY <1>2 DEF Originals, Again, Replays
  <2> QED BY <2>1 DEF ChannelInv, SoundInv, Sound, Tracked
<1>3. \A c \in Channels : Cardinality(Replays(c)) <= MaxReplays
  BY DEF ChannelInv, SoundInv, Sound
<1> QED BY <1>1, <1>2, <1>3 DEF ReplaysSound

(* A packet that is sent again is one of the history, once at a time, and  *)
(* the replays of a channel stay within MAX_CHANNEL_REPLAYS (_recover).    *)
THEOREM ReplaysAreSound == H2Spec => []ReplaysSound
<1>1. ChannelInv => ReplaysSound
  BY SoundReplays
<1> QED BY <1>1, ChannelsInvariant, PTL

(* A channel that failed has nothing left for its client, and the error of *)
(* MTProto is reported before the channel is closed (_fail, bridge_h2).    *)
THEOREM LastWordHeard == H2Spec => []LastWord
<1>1. ChannelInv => LastWord
  BY DEF ChannelInv, LastInv, LastOf, LastWord
<1> QED BY <1>1, ChannelsInvariant, PTL

LEMMA RetiredStay ==
    ASSUME ChannelInv, [H2Next]_hvars, NEW c \in Channels, NEW p \in Packets, Kept(c, p), ~InHistory(c, p)'
    PROVE  key'[c] # key[c] \/ closing'[c] = "done" \/ \A q \in HistorySet(c) : Spared(c, q)
<1>1. ChannelTypes /\ HistoryBound /\ Kind /\ InHistory(c, p) /\ Spared(c, p)
  BY StepKinds DEF ChannelInv, SoundInv, Kept
<1>2. hist'[c] # hist[c]
  BY <1>1 DEF InHistory
<1>3. CASE Ends(c)
  BY <1>3 DEF Ends
<1>4. ASSUME NEW q \in Packets, Sent(c, q)
      PROVE  key'[c] # key[c] \/ closing'[c] = "done" \/ \A r \in HistorySet(c) : Spared(c, r)
  BY <1>1, <1>4, SendHistory DEF Sent
<1>5. ASSUME NEW d \in Channels \ {c}, NEW q \in Packets, Sent(d, q) PROVE FALSE
  BY <1>1, <1>2, <1>5, SendHistory DEF Sent
<1>6. ASSUME NEW d \in Channels \ {c}, Ends(d) PROVE FALSE
  BY <1>2, <1>6 DEF Ends
<1> QED BY <1>1, <1>2, <1>3, <1>4, <1>5, <1>6 DEF Kind, Quiet, Elsewhere, Ended, SentAgain

(* A retired packet leaves the history with another key, with the channel, *)
(* or for want of a packet that may go (_trim_history).                    *)
THEOREM RetiredPacketsStay == H2Spec => RetiredKept
<1> DEFINE Stays == \A c \in Channels : \A p \in Packets :
          Kept(c, p) /\ ~InHistory(c, p)' =>
              \/ key'[c] # key[c] \/ closing'[c] = "done"
              \/ \A q \in HistorySet(c) : Spared(c, q)
<1>1. ChannelInv /\ [H2Next]_hvars => [Stays]_hvars
  BY RetiredStay
<1>2. RetiredKept <=> [][Stays]_hvars
  BY DEF RetiredKept
<1> HIDE DEF Stays
<1> QED BY <1>1, <1>2, ChannelsInvariant, PTL DEF H2Spec
=============================================================================
