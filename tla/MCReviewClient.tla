--------------------------- MODULE MCReviewClient ---------------------------
(* A tab of the review UI for TLC. *)
EXTENDS ReviewClient

MCGens == {"a"}
MCValues == {"old", "new"}
=============================================================================
