----------------------------- MODULE MCCrawler -----------------------------
(***************************************************************************)
(* Instances of Crawler for TLC.                                           *)
(***************************************************************************)
EXTENDS Crawler

CONSTANTS d1, d2

MCOrder == <<d1, d2>>
=============================================================================
