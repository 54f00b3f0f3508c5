--------------------------- MODULE MCAdminListing ---------------------------
(* Three rows of up to three dates, pages of one and of two rows; the moderation *)
(* queue, the catalog with and without what is deleted, and the users of a role. *)
EXTENDS AdminListing, TLC

CONSTANTS i1, i2, i3, m1, m2

MCIds == {i1, i2, i3}
MCDates == 1..3
MCMarks == {m1, m2}
MCSizes == 1..2
MCQueries ==
  {[list |-> "tabs", includeDeleted |-> FALSE, filter |-> m1],
   [list |-> "artists", includeDeleted |-> TRUE, filter |-> UNDEF],
   [list |-> "songs", includeDeleted |-> TRUE, filter |-> m1],
   [list |-> "genres", includeDeleted |-> FALSE, filter |-> UNDEF],
   [list |-> "users", includeDeleted |-> FALSE, filter |-> m1]}

Symmetry == Permutations(MCIds)
=============================================================================
