------------------------------- MODULE MCLive -------------------------------
(* The live source with two scrapers and two collection runs; LiveProofs   *)
(* has the safety for any number of either.                                *)
EXTENDS Live
=============================================================================
