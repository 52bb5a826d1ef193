---------------------------- MODULE MCLedgerFile ----------------------------
(***************************************************************************)
(* Instances of LedgerFile for TLC.                                        *)
(***************************************************************************)
EXTENDS LedgerFile, TLC

Interchangeable == Permutations(Procs)
=============================================================================
