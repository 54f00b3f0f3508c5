---------------------------- MODULE MCTabRatings ----------------------------
(* One request about a tab at a time, beside one or two about its ratings.  *)
EXTENDS TabRatings, TabLifecycleSerial, TLC

Interchangeable == Permutations(Stamps) \cup Permutations(Raters)
=============================================================================
