----------------------------- MODULE MCTgService -----------------------------
(***************************************************************************)
(* Small instances of TgService: two names for proxy threads, so that one   *)
(* may be abandoned while the other serves, and one port or two.           *)
(***************************************************************************)
EXTENDS TgService
=============================================================================
