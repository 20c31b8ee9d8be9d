------------------------------ MODULE MCHands -------------------------------
(* The hand pipeline of a video of four frames, for TLC. *)
EXTENDS HandRuns

\* The unit of these depths is fine enough for this video.
MCDepth == [f \in 0 .. 3 |-> CASE f = 0 -> 0 [] f = 1 -> 12 [] f = 2 -> 6 [] f = 3 -> 18]

ASSUME MCDepthAssumption == WholeSteps

\* No hand, a hand without depth at the wrist, and one with it beside another without.
MCRaws == {<< >>, [left |-> FALSE], [left |-> TRUE, right |-> FALSE]}
\* The cache of the model is explored in a shorter history than the files of a run.
MCCalls == [c \in {"unset", "file", "missing"} |-> IF c = "unset" THEN 1 ELSE 2]
MCTroubles == [c \in {"unset", "file", "missing"} |-> 1]
=============================================================================
