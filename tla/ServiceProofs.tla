---------------------------- MODULE ServiceProofs -----------------------------
(***************************************************************************)
(* Theorems about two services of the daemon, each a thread of its own.    *)
(*                                                                         *)
(* TgService: until a wait of the service ends early, the daemon holds     *)
(* every proxy that is alive, and takes no other for it.  TlsExclude:      *)
(* nothing is listed twice, and no report vanishes but by a step that      *)
(* fails.                                                                  *)
(***************************************************************************)
EXTENDS TgService, TlsExclude, TLAPS

-----------------------------------------------------------------------------
(* TgService *)

(* A step of a proxy thread keeps the types. *)
LEMMA ThreadTypes ==
    ASSUME GTypeOK, NEW t \in Threads, Runs(t) \/ SocketDies(t)
    PROVE  GTypeOK'
<1> USE TgAssumption DEF GTypeOK, OwnStep, holder, settings, To
<1>1. CASE Pair(t)
  BY <1>1 DEF Pair
<1>2. CASE Bind(t)
  <2>1. st' \in [Threads -> {"none", "boot", "paired", "up", "closing", "closed"}]
    BY <1>2 DEF Bind
  <2>2. port' \in [Threads -> Ports \cup {None}] /\ lastError' \in BOOLEAN
    BY <1>2 DEF Bind
  <2> QED BY <1>2, <2>1, <2>2 DEF Bind
<1>3. CASE Obey(t)
  BY <1>3 DEF Obey
<1>4. CASE SocketDies(t)
  <2>1. st' \in [Threads -> {"none", "boot", "paired", "up", "closing", "closed"}]
    BY <1>4 DEF SocketDies
  <2>2. port' \in [Threads -> Ports \cup {None}]
    BY <1>4 DEF SocketDies
  <2> QED BY <1>4, <2>1, <2>2 DEF SocketDies
<1>5. CASE Close(t)
  BY <1>5 DEF Close
<1>6. CASE End(t)
  BY <1>6 DEF End
<1> QED BY <1>1, <1>2, <1>3, <1>4, <1>5, <1>6 DEF Runs

(* A step of a proxy thread keeps the one proxy. *)
LEMMA ThreadStep ==
    ASSUME GTypeOK, OneProxy, NEW t \in Threads, Runs(t) \/ SocketDies(t)
    PROVE  OneProxy'
<1> USE TgAssumption DEF OneProxy, GTypeOK, Alive, OwnStep, holder, settings, To
<1>1. CASE Pair(t)
  BY <1>1 DEF Pair
<1>2. CASE Bind(t)
  <2>1. st[t] = "paired" /\ pair = t /\ t = thread
    BY <1>2 DEF Bind
  <2>2. CASE PortOpen(cfgPort)
    BY <1>2, <2>1, <2>2 DEF Bind
  <2>3. CASE ~PortOpen(cfgPort)
    BY <1>2, <2>1, <2>3 DEF Bind
  <2> QED BY <2>2, <2>3
<1>3. CASE Obey(t)
  BY <1>3 DEF Obey
<1>4. CASE SocketDies(t)
  <2>1. CASE UNCHANGED st
    BY <1>4, <2>1 DEF SocketDies
  <2>2. CASE st' = [st EXCEPT ![t] = "closing"] /\ port' = [port EXCEPT ![t] = None]
    BY <1>4, <2>2 DEF SocketDies
  <2> QED BY <1>4, <2>1, <2>2 DEF SocketDies
<1>5. CASE Close(t)
  BY <1>5 DEF Close
<1>6. CASE End(t)
  BY <1>6 DEF End
<1> QED BY <1>1, <1>2, <1>3, <1>4, <1>5, <1>6 DEF Runs

(* A step of the holder of the lock keeps the types. *)
LEMMA HolderTypes ==
    ASSUME GTypeOK, Holder
    PROVE  GTypeOK'
<1> USE TgAssumption DEF GTypeOK, Go, Return, settings, proxies
<1>1. CASE Stop
  BY <1>1 DEF Stop, Forget
<1>2. CASE Signal
  BY <1>2 DEF Signal
<1>3. CASE Join
  BY <1>3 DEF Join, Forget
<1>4. ASSUME NEW t \in Threads, Begin(t) PROVE GTypeOK'
  BY <1>4 DEF Begin
<1>5. CASE CheckError
  BY <1>5 DEF CheckError
<1>6. CASE CheckPort
  <2>1. slipped' \in BOOLEAN
    BY <1>6 DEF CheckPort
  <2> QED BY <1>6, <2>1 DEF CheckPort
<1>7. CASE CheckAlive
  BY <1>7 DEF CheckAlive
<1> QED BY <1>1, <1>2, <1>3, <1>4, <1>5, <1>6, <1>7 DEF Holder

(* _thread is forgotten only when no proxy thread is left. *)
LEMMA ForgetStep ==
    ASSUME GTypeOK, OneProxy, Forget, UNCHANGED <<proxies>>,
           \A t \in Threads : ~Alive(t), pair = None
    PROVE  OneProxy'
BY TgAssumption DEF OneProxy, GTypeOK, Alive, Forget, Go, Return, proxies

(* A step of the holder keeps the one proxy, or is a wait that ends early. *)
LEMMA HolderStep ==
    ASSUME GTypeOK, OneProxy, Holder, ~slipped'
    PROVE  OneProxy'
<1> USE TgAssumption DEF OneProxy, GTypeOK, Alive, Go, Return, settings, proxies
<1>1. CASE Stop
  <2>1. CASE pair # None /\ thread # None
    BY <1>1, <2>1 DEF Stop, Forget
  <2>2. CASE pair = None \/ thread = None
    <3>1. \A t \in Threads : ~Alive(t)
      BY <1>1, <2>2 DEF Stop
    <3>2. pair = None
      BY <2>2, <3>1
    <3> QED BY <1>1, <2>2, <3>1, <3>2, ForgetStep DEF Stop
  <2> QED BY <2>1, <2>2
<1>2. CASE Signal
  BY <1>2 DEF Signal
<1>3. CASE Join
  <2>1. (\A t \in Threads : ~Alive(t)) /\ pair = None
    BY <1>3 DEF Join
  <2> QED BY <1>3, <2>1, ForgetStep DEF Join
<1>4. ASSUME NEW t \in Threads, Begin(t) PROVE OneProxy'
  BY <1>4 DEF Begin
<1>5. CASE CheckError
  BY <1>5 DEF CheckError
<1>6. CASE CheckPort
  <2>1. CASE PortOpen(cfgPort)
    <3>1. OpenBy(thread, cfgPort) /\ place' = "free"
      BY <1>6, <2>1 DEF CheckPort
    <3>2. st[thread] = "up"
      BY <1>6, <3>1 DEF OpenBy, CheckPort
    <3> QED BY <1>6, <2>1, <3>2 DEF CheckPort
  <2>2. CASE ~PortOpen(cfgPort)
    BY <1>6, <2>2 DEF CheckPort
  <2> QED BY <2>1, <2>2
<1>7. CASE CheckAlive
  BY <1>7 DEF CheckAlive
<1> QED BY <1>1, <1>2, <1>3, <1>4, <1>5, <1>6, <1>7 DEF Holder

(* A wait that has ended early stays so. *)
LEMMA SlipsOnce ==
    ASSUME GTypeOK, [GNext]_gvars, slipped
    PROVE  slipped'
<1>1. CASE Holder
  BY <1>1 DEF Holder, Stop, Signal, Join, Begin, CheckError, CheckPort, CheckAlive
<1>2. CASE \E t \in Threads : Runs(t) \/ SocketDies(t)
  BY <1>2 DEF Runs, SocketDies, Pair, Bind, Obey, Close, End, OwnStep
<1> QED BY <1>1, <1>2 DEF GNext, Choose, Apply, Shutdown, Others, gvars

(* The inductive invariant. *)
THEOREM TgInvariant == GSpec => []GInv
<1>1. GInit => GInv
  BY TgAssumption DEF GInit, GInv, OneProxy, GTypeOK, Alive
<1>2. GInv /\ [GNext]_gvars => GInv'
  <2> SUFFICES ASSUME GInv, [GNext]_gvars PROVE GTypeOK' /\ (~slipped' => OneProxy')
    BY DEF GInv
  <2> USE TgAssumption DEF OneProxy, GTypeOK, Alive, settings, proxies, holder
  <2>0. GTypeOK /\ (~slipped' => OneProxy)
    BY SlipsOnce DEF GInv
  <2>1. ASSUME NEW e \in BOOLEAN, NEW p \in Ports \cup {BadPort}, Choose(e, p)
        PROVE  GTypeOK' /\ (~slipped' => OneProxy')
    BY <2>0, <2>1 DEF Choose
  <2>2. CASE Apply
    BY <2>0, <2>2 DEF Apply, Return
  <2>3. CASE Shutdown
    BY <2>0, <2>3 DEF Shutdown
  <2>4. CASE Holder
    BY <2>0, <2>4, HolderTypes, HolderStep
  <2>5. ASSUME NEW t \in Threads, Runs(t) \/ SocketDies(t)
        PROVE  GTypeOK' /\ (~slipped' => OneProxy')
    BY <2>0, <2>5, ThreadTypes, ThreadStep
  <2>6. ASSUME NEW p \in ForeignPorts, Others(p)
        PROVE  GTypeOK' /\ (~slipped' => OneProxy')
    BY <2>0, <2>6 DEF Others
  <2>7. CASE UNCHANGED gvars
    BY <2>0, <2>7 DEF gvars
  <2> QED
    BY <2>1, <2>2, <2>3, <2>4, <2>5, <2>6, <2>7 DEF GNext
<1> QED BY <1>1, <1>2, PTL DEF GSpec

(* Between commands, a proxy thread that is alive is the one the daemon    *)
(* holds, with the event that stops it: none is ever abandoned, until a    *)
(* wait ends early.                                                        *)
THEOREM NoneAbandoned == GSpec => []Owned
<1>1. GInv => Owned
  BY TgAssumption DEF GInv, OneProxy, GTypeOK, Owned, Held, Alive
<1> QED BY <1>1, TgInvariant, PTL

(* Until then, a start that reports success has its own proxy listening,   *)
(* or another program on the port.                                         *)
THEOREM ClaimsTrue == GSpec => Claimed
<1>1. GInv /\ [GNext]_gvars =>
        [place = "port" /\ place' = "free" /\ announced' = "up" /\ ~slipped
           => OpenBy(thread, cfgPort) \/ cfgPort \in foreign]_gvars
  <2> SUFFICES ASSUME GInv, GNext, place = "port", place' = "free", announced' = "up", ~slipped
               PROVE  OpenBy(thread, cfgPort) \/ cfgPort \in foreign
    OBVIOUS
  <2>1. CheckPort
    <3>1. \/ UNCHANGED holder
          \/ Apply \/ Shutdown \/ Holder
      BY DEF GNext, Choose, Runs, SocketDies, Others, Pair, Bind, Obey, Close, End, OwnStep
    <3>2. ~UNCHANGED holder /\ ~Apply /\ ~Shutdown
      BY DEF holder, Apply, Shutdown
    <3>3. ~Stop /\ ~Signal /\ ~Join /\ (\A t \in Threads : ~Begin(t)) /\ ~CheckError /\ ~CheckAlive
      BY DEF Stop, Signal, Join, Begin, CheckError, CheckAlive
    <3> QED BY <3>1, <3>2, <3>3 DEF Holder
  <2>2. PortOpen(cfgPort)
    BY <2>1 DEF CheckPort, Go
  <2>3. ASSUME NEW t \in Threads, OpenBy(t, cfgPort) PROVE t = thread
    BY <2>3, TgAssumption DEF OpenBy, GInv, GTypeOK, OneProxy, Alive
  <2> QED BY <2>2, <2>3 DEF PortOpen
<1> QED BY <1>1, TgInvariant, PTL DEF GSpec, Claimed
-----------------------------------------------------------------------------
(* TlsExclude *)

(* The types, kept by every step. *)
LEMMA TTypes == TSpec => []TTypeOK
<1>1. TInit => TTypeOK
  BY TlsAssumption DEF TInit, TTypeOK, Closed, Files, NoFile, File, In
<1>2. TTypeOK /\ [TNext]_tvars => TTypeOK'
  <2> SUFFICES ASSUME TTypeOK, [TNext]_tvars PROVE TTypeOK'
    OBVIOUS
  <2> USE TlsAssumption DEF TTypeOK, engine, daemon
  <2> /\ NoFile \in Files
      /\ \A f \in Files : In(f) \subseteq Reports
      /\ \A S \in SUBSET Reports : File(S) \in Files
    BY DEF NoFile, Files, File, In
  <2>1. ASSUME NEW r \in Reports, Open(r) PROVE TTypeOK'
    BY <2>1 DEF Open
  <2>2. CASE WriteLine
    <3>1. writing.report \in Reports
      BY <2>2 DEF WriteLine
    <3> QED BY <2>2, <3>1 DEF WriteLine, Closed
  <2>3. CASE EngineRestarts
    BY <2>3 DEF EngineRestarts, Closed
  <2>4. CASE Poll
    BY <2>4 DEF Poll
  <2>5. CASE Replace
    BY <2>5 DEF Replace, Now
  <2>6. CASE Read
    BY <2>6 DEF Read
  <2>7. CASE Unlink
    BY <2>7 DEF Unlink, Now
  <2>8. CASE Check
    BY <2>8 DEF Check
  <2>9. ASSUME NEW l \in Lists, ApplyReports(l) PROVE TTypeOK'
    BY <2>9 DEF ApplyReports, Appended
  <2>10. CASE Applied
    BY <2>10 DEF Applied
  <2>11. CASE Die
    BY <2>11 DEF Die
  <2>12. CASE Toggle
    BY <2>12 DEF Toggle
  <2>13. CASE UNCHANGED tvars
    BY <2>13 DEF tvars
  <2> QED
    BY <2>1, <2>2, <2>3, <2>4, <2>5, <2>6, <2>7, <2>8, <2>9, <2>10, <2>11, <2>12, <2>13
    DEF TNext, Watch
<1> QED BY <1>1, <1>2, PTL DEF TSpec

(* Only ApplyReports writes the lists, and it leaves out what they have: an *)
(* entry is in its list at most once, whatever fails or is reported again.  *)
THEOREM ListedOnce == TSpec => []NothingTwice
<1>1. TInit => NothingTwice
  BY DEF TInit, NothingTwice
<1>2. TTypeOK /\ NothingTwice /\ [TNext]_tvars => NothingTwice'
  <2> SUFFICES ASSUME TTypeOK, NothingTwice, [TNext]_tvars PROVE NothingTwice'
    OBVIOUS
  <2>1. ASSUME NEW l \in Lists, ApplyReports(l) PROVE NothingTwice'
    BY <2>1 DEF ApplyReports, Appended, NothingTwice, TTypeOK
  <2>2. CASE lines' = lines
    BY <2>2 DEF NothingTwice
  <2> QED
    BY <2>1, <2>2 DEF TNext, Watch, Open, WriteLine, EngineRestarts, Poll, Replace, Read,
        Unlink, Check, Applied, Die, Toggle, tvars, engine, daemon
<1> QED BY <1>1, <1>2, TTypes, PTL DEF TSpec

(* What a file holds, and when there is one. *)
LEMMA FileFacts ==
    /\ In(NoFile) = {}
    /\ \A S : In(File(S)) = S /\ File(S) # NoFile
BY DEF In, NoFile, File

(* The inductive invariant, if an open file cannot be moved: a step that   *)
(* takes reports from one place has them in the next, or has failed.       *)
THEOREM TlsInvariant == ReplaceBlocks /\ TSpec => []TInv
<1> SUFFICES ASSUME ReplaceBlocks PROVE TSpec => []TInv
  OBVIOUS
<1>1. TInit => TInv
  <2> SUFFICES ASSUME TInit PROVE TInv
    OBVIOUS
  <2>1. TTypeOK
    BY TlsAssumption DEF TInit, TTypeOK, Closed, Files, NoFile, File, In
  <2> QED BY <2>1, FileFacts DEF TInit, TInv, Accounted, NothingTwice, Closed
<1>2. TInv /\ TTypeOK' /\ NothingTwice' /\ [TNext]_tvars => TInv'
  <2> SUFFICES ASSUME TInv, TTypeOK', NothingTwice', [TNext]_tvars PROVE TInv'
    OBVIOUS
  <2> USE FileFacts DEF TInv, Accounted, engine, daemon
  <2>1. ASSUME NEW r \in Reports, Open(r) PROVE TInv'
    BY <2>1 DEF Open, Listed, TTypeOK
  <2>2. CASE WriteLine
    BY <2>2 DEF WriteLine, Closed, Listed, TTypeOK
  <2>3. CASE EngineRestarts
    BY <2>3 DEF EngineRestarts, Closed, Listed, TTypeOK
  <2>4. CASE Poll
    BY <2>4 DEF Poll, Listed
  <2>5. CASE Replace
    BY <2>5 DEF Replace, Now, Listed, TTypeOK
  <2>6. CASE Read
    BY <2>6 DEF Read, Listed
  <2>7. CASE Unlink
    BY <2>7 DEF Unlink, Now, Listed, TTypeOK
  <2>8. CASE Check
    BY <2>8 DEF Check, Listed
  <2>9. ASSUME NEW l \in Lists, ApplyReports(l) PROVE TInv'
    <3> DEFINE entries == {r \in text : ListOf[r] = l}
    <3>1. CASE lines' = Appended(entries) /\ text' = text \ entries /\ UNCHANGED <<pc, lost>>
      <4>1. Listed \cup entries \subseteq Listed'
        BY <2>9, <3>1 DEF Listed, Appended, Usable, TTypeOK
      <4> QED BY <2>9, <3>1, <4>1 DEF ApplyReports
    <3>2. CASE pc' = "idle" /\ text' = {} /\ lost' = lost \cup text /\ lines' = lines
      BY <2>9, <3>2 DEF ApplyReports, Listed
    <3> QED BY <2>9, <3>1, <3>2 DEF ApplyReports
  <2>10. CASE Applied
    BY <2>10 DEF Applied, Listed
  <2>11. CASE Die
    BY <2>11 DEF Die, Listed, TTypeOK
  <2>12. CASE Toggle
    BY <2>12 DEF Toggle, Listed
  <2>13. CASE UNCHANGED tvars
    BY <2>13 DEF tvars, Listed
  <2> QED
    BY <2>1, <2>2, <2>3, <2>4, <2>5, <2>6, <2>7, <2>8, <2>9, <2>10, <2>11, <2>12, <2>13
    DEF TNext, Watch
<1> QED BY <1>1, <1>2, TTypes, ListedOnce, PTL DEF TSpec

(* No report vanishes between the engine and the lists, though the engine  *)
(* writes and restarts at any moment: only a failed step loses any.        *)
THEOREM NoReportVanishes == ReplaceBlocks /\ TSpec => []Accounted
<1>1. TInv => Accounted
  BY DEF TInv
<1> QED BY <1>1, TlsInvariant, PTL
=============================================================================
