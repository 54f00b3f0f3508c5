----------------------------- MODULE MCCatalog ------------------------------
(* Slots, slugs and identifiers of a kind are interchangeable: no action and no *)
(* property tells two of them apart.                                            *)
EXTENDS Catalog, TLC

Interchangeable ==
  Permutations(Requests) \cup Permutations(Slugs) \cup Permutations(Artists)
    \cup Permutations(Genres) \cup Permutations(Songs)
=============================================================================
