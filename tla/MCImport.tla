------------------------------ MODULE MCImport ------------------------------
(***************************************************************************)
(* Instances of Import for TLC.                                            *)
(***************************************************************************)
EXTENDS Import, TLC

MCSymmetry ==
  Permutations(Uris) \cup Permutations(Workers) \cup Permutations(Callers)
=============================================================================
