------------------------------ MODULE MCDaemon ------------------------------
(***************************************************************************)
(* Small instances of Daemon: one or two command threads, the bootstrap    *)
(* and a test job of one or two strategies.                                *)
(***************************************************************************)
EXTENDS Daemon, TLC

Symmetric == Permutations(Uis) \cup Permutations(Strategies) \cup Permutations(Pids)

(* With a strategy selected, so that the bootstrap has something to launch. *)
LiveInit == DInit /\ selected # NoName
LiveSpec == LiveInit /\ [][DNext]_dvars /\ DFairness
=============================================================================
