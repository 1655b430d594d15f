--------------------------- MODULE MCGpmRetention ---------------------------
(* Two GPUs with a GPU instance each.                                      *)
EXTENDS GpmRetention, TLC

CONSTANTS d1, d2, i1, j1

OneEachDeviceOf == (i1 :> d1) @@ (j1 :> d2)
Symmetry == Permutations(Handles)
=============================================================================
