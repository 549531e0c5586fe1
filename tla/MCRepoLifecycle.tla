-------------------------- MODULE MCRepoLifecycle --------------------------
(***************************************************************************)
(* Instances of RepoLifecycle for TLC.  The processes of one kind are      *)
(* interchangeable, and so are the repositories, so the safety runs use    *)
(* their permutations as a symmetry set.                                   *)
(***************************************************************************)
EXTENDS RepoLifecycle, TLC

MCSymmetry ==
  Permutations(Dids) \cup Permutations(Workers) \cup Permutations(Clients \ Impatient)
=============================================================================
