------------------------------- MODULE Selection -------------------------------
(***************************************************************************)
(* What a loop over an array leaves of it when it keeps the elements of a  *)
(* set: SelectSeq for a set in place of a test, as a function that proofs  *)
(* can reason about.                                                       *)
(***************************************************************************)
EXTENDS Naturals, Sequences

(* The elements of s that are in S, in their order. *)
Among(s, S) ==
    LET kept[n \in 0 .. Len(s)] ==
            IF n = 0 THEN <<>>
            ELSE IF s[n] \in S THEN Append(kept[n - 1], s[n]) ELSE kept[n - 1]
    IN  kept[Len(s)]
================================================================================
