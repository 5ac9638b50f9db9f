--------------------------- MODULE MCAdminAccess ---------------------------
(***************************************************************************)
(* Instances of AdminAccess for TLC.                                       *)
(***************************************************************************)
EXTENDS AdminAccess, TLC

Threads == Permutations(Worker)

AllRequests == Kinds

Instants == 1..2

Local == {1}

\* 0..1 and the single address 2; 3 is refused.
Listed == {[net |-> 0, len |-> 1], [net |-> 2, len |-> 2]}
=============================================================================
