-------------------------------- MODULE Places --------------------------------
(***************************************************************************)
(* A loop over a list that keeps some of its elements, in their order.     *)
(* SelectSeq does the same, but takes an operator, of which nothing can be *)
(* proved here; the places that are kept are a set.                        *)
(***************************************************************************)
EXTENDS Naturals, Sequences

(* What is kept of the first n elements. *)
KeptOf(s, I) ==
    LET kept[n \in 0 .. Len(s)] ==
          IF n = 0 THEN <<>>
          ELSE IF n \in I THEN Append(kept[n - 1], s[n]) ELSE kept[n - 1]
    IN  kept

(* The elements of s at the places of I. *)
Picked(s, I) == KeptOf(s, I)[Len(s)]
=============================================================================
