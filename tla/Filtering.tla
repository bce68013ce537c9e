------------------------------ MODULE Filtering ------------------------------
(***************************************************************************)
(* Iterator::filter: what is left of a sequence when only the elements of  *)
(* a set pass. It does what SelectSeq does, written as a recursive         *)
(* function: TLAPS has no definition of SelectSeq to reason from.          *)
(***************************************************************************)
EXTENDS Integers, Sequences

Elements(s) == {s[i] : i \in DOMAIN s}

Filter(s, S) ==
  LET kept[n \in 0 .. Len(s)] ==
        IF n = 0 THEN << >> ELSE IF s[n] \in S THEN Append(kept[n - 1], s[n]) ELSE kept[n - 1]
  IN  kept[Len(s)]

Indices(s) == [i \in 1 .. Len(s) |-> i]
=============================================================================
