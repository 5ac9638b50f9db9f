------------------------------ MODULE MCLedger ------------------------------
(* Ledger.tla on small sets of model values.                               *)
EXTENDS Ledger, TLC

\* Keys, commit ids, handlers and regions are interchangeable.
Symmetry == Permutations(Key) \cup Permutations(CommitId)
              \cup Permutations(Worker) \cup Permutations(Region)
=============================================================================
