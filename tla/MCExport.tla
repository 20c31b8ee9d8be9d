------------------------------ MODULE MCExport ------------------------------
(***************************************************************************)
(* Instances of Export for TLC: two episodes of two frames; a0 and a1 are  *)
(* runs of the first episode, b0 of the second.                            *)
(***************************************************************************)
EXTENDS Export

CONSTANTS a0, a1, b0, x1, x2, c1, grasp, unlabeled

MCAbout == [r \in {a0, a1, b0} |->
    [episode |-> IF r = b0 THEN 1 ELSE 0, config |-> c1, phase |-> 3, degraded |-> r = a1]]

MCSource == [aggregate |-> FALSE, pose |-> FALSE, action |-> TRUE]

Seg(first, last, phase) ==
    [first |-> first, last |-> last, phase |-> phase, reviewed |-> FALSE]

\* One leaves the first frame uncovered, one misses the last.
MCDrafts == {<<Seg(0, 0, unlabeled), Seg(1, 1, grasp)>>, <<Seg(0, 0, grasp)>>}
MCFirstSegs == (a0 :> <<Seg(1, 1, grasp)>>) @@ (b0 :> <<Seg(0, 0, unlabeled), Seg(1, 1, grasp)>>)

Plain == [gates |-> [reviewed |-> FALSE, intact |-> FALSE, labeled |-> TRUE],
          pose |-> FALSE, raw |-> FALSE, bare |-> FALSE]
\* Asked for with --require-reviewed --allow-unlabeled; with the two --allow options.
Strict == WithOverrides(
    [gates |-> [reviewed |-> FALSE, intact |-> TRUE, labeled |-> TRUE],
     pose |-> FALSE, raw |-> TRUE, bare |-> TRUE], TRUE, FALSE, TRUE)
Lenient == WithOverrides(Plain, FALSE, TRUE, TRUE)

Ask(inplace, force, names, profile) ==
    [inPlace |-> inplace, force |-> force, dry |-> FALSE, skip |-> TRUE, phase |-> 3,
     config |-> AnyConfig, runs |-> names, episodes |-> {0, 1}, profile |-> profile]

MCRequests == {
    Ask(FALSE, FALSE, << >>, Lenient), Ask(FALSE, TRUE, <<a0>>, Strict),
    Ask(TRUE, TRUE, << >>, Lenient), Ask(TRUE, FALSE, <<b0>>, Lenient)}

\* The exporters are alike.
ExporterSymmetry == Permutations({x1, x2})
=============================================================================
