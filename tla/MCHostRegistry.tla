--------------------------- MODULE MCHostRegistry ---------------------------
(* HostRegistry.tla on small sets of model values.                         *)
EXTENDS HostRegistry, TLC

\* Configurations, handlers and inodes are interchangeable.
Symmetry ==
    Permutations(Config) \cup Permutations(Worker) \cup Permutations(Inode)
=============================================================================
