----------------------------- MODULE MCSeeding ------------------------------
(* A song of an artist with a genre, beside a genre and a song that are no      *)
(* fixtures.  Runs are interchangeable.                                         *)
EXTENDS Seeding, TLC

CONSTANTS g1, a1, s1

MCFixtures == <<<<a1, s1>>>>

MCGenresOf == [a \in {a1} |-> <<g1>>]

Interchangeable == Permutations(Runs)
=============================================================================
