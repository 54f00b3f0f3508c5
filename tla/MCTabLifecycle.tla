--------------------------- MODULE MCTabLifecycle ---------------------------
(* Small instances of TabLifecycle for the model checker.                  *)
EXTENDS TabLifecycle, TLC

\* Slots and instants are interchangeable.
Interchangeable ==
  Permutations(Requests) \cup Permutations(Stamps)
=============================================================================
