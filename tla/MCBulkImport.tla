---------------------------- MODULE MCBulkImport ----------------------------
(* Small instances of BulkImport for the model checker.                    *)
EXTENDS BulkImport, TLC

CONSTANTS k1, k2, c1, c2

SongOf(k, versions) == [song |-> k, versions |-> versions]

\* A batch that carries a content twice, which two importers may send.
OneSong == {<<SongOf(k1, <<c2, c1, c2>>)>>}

\* The same two songs in either order.
TwoSongs == {<<SongOf(k1, <<c1>>), SongOf(k2, <<c1>>)>>, <<SongOf(k2, <<c1>>), SongOf(k1, <<c1>>)>>}

Interchangeable == Permutations(Tabs) \cup Permutations(Importers)
=============================================================================
