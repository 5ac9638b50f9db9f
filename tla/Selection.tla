----------------------------- MODULE Selection ------------------------------
(***************************************************************************)
(* The elements of a sequence at given positions, in their order: what     *)
(* Vec::retain leaves. It is SelectSeq, by positions instead of a test,    *)
(* and as a recursive function, which can be reasoned about by induction.  *)
(***************************************************************************)
EXTENDS Integers, Sequences

Selected(s, kept) ==
    LET upto[n \in 0..Len(s)] ==
          IF n = 0 THEN <<>>
          ELSE IF n \in kept THEN Append(upto[n - 1], s[n]) ELSE upto[n - 1]
    IN  upto[Len(s)]
=============================================================================
