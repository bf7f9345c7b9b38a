------------------------------ MODULE MCFolder ------------------------------
(***************************************************************************)
(* A small data folder: the user's own lists, a directory of two files,    *)
(* and the settings.                                                       *)
(***************************************************************************)
EXTENDS DataFolder

MCFilesOf == [i \in Items |->
                IF i = "custom" THEN {"list", "bin"} ELSE {"settings"}]
=============================================================================
