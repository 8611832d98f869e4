---------------------------- MODULE Subsequences ----------------------------
(***************************************************************************)
(* The filter of a sequence as a recursive function, which can be proved   *)
(* about: SelectSeq of Sequences has no definition that the provers can    *)
(* expand.                                                                 *)
(***************************************************************************)
EXTENDS Integers, Sequences

\* The elements of s at the positions in I, in their order.
Picked(s, I) ==
  LET upTo[n \in 0..Len(s)] ==
        IF n = 0 THEN <<>>
        ELSE IF n \in I THEN Append(upTo[n - 1], s[n])
        ELSE upTo[n - 1]
  IN upTo[Len(s)]
=============================================================================
