----------------------------- MODULE MCListing ------------------------------
(* Three rows of which two or all may share a value of each sort column, pages *)
(* of one and of two rows: walks of one to three pages, or of more when rows   *)
(* appear or move behind the cursor.                                           *)
EXTENDS Listing

MCIds == 1..3
MCKeys == 1..2
MCLimits == 1..2
=============================================================================
