---------------------------- MODULE MCCertStore ----------------------------
(* CertStore.tla on small sets of model values.                            *)
EXTENDS CertStore, TLC

\* Certificates, calls and inodes are interchangeable.
Symmetry == Permutations(Cert) \cup Permutations(Worker) \cup Permutations(Inode)
=============================================================================
