-------------------------- MODULE MCBackupRestore --------------------------
(***************************************************************************)
(* Model-checking instance of BackupRestore.                               *)
(***************************************************************************)
EXTENDS BackupRestore, TLC

\* Paths are interchangeable.
Symmetry == Permutations(Paths)
=============================================================================
