------------------------------ MODULE MCCached ------------------------------
(* The background source with competing runners and a few scrapers.        *)
EXTENDS Cached, TLC

Symmetry ==
  Permutations(Runs) \cup Permutations(Runners) \cup Permutations(Readers)
=============================================================================
