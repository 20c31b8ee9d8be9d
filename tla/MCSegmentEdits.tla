--------------------------- MODULE MCSegmentEdits ---------------------------
(***************************************************************************)
(* An instance of SegmentEdits for TLC: four frames in up to three         *)
(* segments, so that a boundary has room on one side and none on the other.*)
(***************************************************************************)
EXTENDS SegmentEdits

CONSTANTS grasp, unlabeled, plain, failed, alice, none
=============================================================================
