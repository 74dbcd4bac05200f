------------------------------ MODULE Filtering ------------------------------
(***************************************************************************)
(* SelectSeq over a set, as a recursive function: the provers know nothing  *)
(* of SelectSeq, whose test is an operator.                                 *)
(***************************************************************************)
EXTENDS Integers, Sequences

\* s without its elements in gone, in order.
Without(s, gone) ==
  LET kept[i \in 0..Len(s)] ==
        IF i = 0 THEN <<>>
        ELSE IF s[i] \in gone THEN kept[i-1] ELSE Append(kept[i-1], s[i])
  IN kept[Len(s)]
=============================================================================
