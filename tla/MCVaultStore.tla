---------------------------- MODULE MCVaultStore ----------------------------
(***************************************************************************)
(* VaultStore on small sets of callers, records and requests.              *)
(***************************************************************************)
EXTENDS VaultStore, TLC

\* Callers of the same kind and records are interchangeable.
Symmetry == Permutations(Readers) \union Permutations(Writers) \union Permutations(Records)
=============================================================================
