------------------------ MODULE MCFirehosePipeline -------------------------
(***************************************************************************)
(* Instances of FirehosePipeline for TLC.                                  *)
(***************************************************************************)
EXTENDS FirehosePipeline, TLC

MCSymmetry == Permutations(Uris)
=============================================================================
