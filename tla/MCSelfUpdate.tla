---------------------------- MODULE MCSelfUpdate ----------------------------
(* SelfUpdate.tla by itself.                                               *)
EXTENDS SelfUpdate

Spec == Init /\ [][Next]_vars
=============================================================================
