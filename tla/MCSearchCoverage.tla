------------------------- MODULE MCSearchCoverage --------------------------
(***************************************************************************)
(* Instances of SearchCoverage for TLC.                                    *)
(***************************************************************************)
EXTENDS SearchCoverage, TLC

CONSTANTS f1, f2

\* A start without ATPDB_SEARCH_FIELDS, and one with it
MCEnvironments == {Unset, {f1}}

MCSymmetry ==
  Permutations(Writers) \cup Permutations(Clients) \cup Permutations(Uris)
    \cup Permutations(Texts)
=============================================================================
