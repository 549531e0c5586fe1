--------------------------- MODULE MCRecordStore ---------------------------
(***************************************************************************)
(* Instances of RecordStore for TLC.                                       *)
(***************************************************************************)
EXTENDS RecordStore, TLC

MCSymmetry == Permutations(Uris) \cup Permutations(Callers) \cup Permutations(Batchers)
=============================================================================
