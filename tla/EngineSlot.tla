----------------------------- MODULE EngineSlot -----------------------------
(***************************************************************************)
(* What the launcher promises about the machine, whatever its callers do:  *)
(* WinDivert has room for one engine.  The slot is empty or holds the      *)
(* strategy of the single winws2 process; an engine only ever enters an    *)
(* empty slot, so one strategy never replaces another in place and two     *)
(* engines never filter traffic together.                                  *)
(***************************************************************************)
CONSTANTS
    Names,   \* what an engine may have been started with
    Empty    \* no engine runs; not one of Names

VARIABLE slot

TypeOK == slot \in Names \cup {Empty}

Init == slot \in Names \cup {Empty}

Load(n) ==
    /\ slot = Empty
    /\ slot' = n

Unload ==
    /\ slot # Empty
    /\ slot' = Empty

Next == Unload \/ \E n \in Names : Load(n)

Spec == Init /\ [][Next]_slot
=============================================================================
