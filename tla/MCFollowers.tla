----------------------------- MODULE MCFollowers -----------------------------
(***************************************************************************)
(* Small instances of what follows the engine in the daemon: the monitor   *)
(* that keeps the status (Engine, with one starter at a time as in Daemon) *)
(* and the watcher that reads the engine's reports (TlsExclude, with one   *)
(* domain, and an address; either one report more names nothing usable, or *)
(* the engine or the daemon starts again once).  They share nothing; one   *)
(* run takes each in turn, under its own fairness.                         *)
(***************************************************************************)
EXTENDS Engine, TlsExclude, TLC

CONSTANTS d1, i1, private, Domains, Addresses

VARIABLE component

MCListOf == d1 :> Domains @@ i1 :> Addresses @@ private :> NoReport

Turn(part) == component = part
Watched == component \in {"watcher", "restarted"}

FollowersVars == <<vars, tvars, component>>

FollowersInit ==
    /\ Init /\ TInit
    /\ component \in {"monitor", "watcher", "restarted"}
    /\ Turn("monitor") => alerts = NoFile /\ ~auto
    /\ Watched => mon.pc = "off" /\ Alive = {}

FollowersNext ==
    /\ component' = component
    /\ \/ Turn("monitor") /\ Next /\ UNCHANGED tvars
       \/ /\ Watched /\ TNext /\ UNCHANGED vars
          /\ IF Turn("restarted") THEN private \notin reported' ELSE restarts' = 0

FollowersFairness ==
    /\ \A t \in Threads : SF_vars(Turn("monitor") /\ Step(t)) /\ WF_vars(Turn("monitor") /\ Return(t))
    /\ WF_vars(Turn("monitor") /\ MonitorStep)
    /\ WF_tvars(Watched /\ Watch) /\ WF_tvars(Watched /\ WriteLine)

FollowersSpec == FollowersInit /\ [][FollowersNext]_FollowersVars /\ FollowersFairness
=============================================================================
