----------------------------- MODULE MCTracker ------------------------------
(* Episodes to be tracked, for TLC. *)
EXTENDS Tracker

MCSlug == [block |-> "block", bin |-> "bin", claw |-> "claw"]
MCQuarters == <<2, 1, 4>>
MCHalf == <<2>>

\* What Gemma may answer: nothing to move, one object, two, and an object that
\* is its own target beside a tool.
MCPlans ==
    {[object |-> << >>, target |-> <<"bin">>, tool |-> << >>],
     [object |-> <<"block">>, target |-> << >>, tool |-> << >>],
     [object |-> <<"block", "bin">>, target |-> << >>, tool |-> << >>],
     [object |-> <<"block">>, target |-> <<"block">>, tool |-> << >>],
     [object |-> <<"block">>, target |-> << >>, tool |-> <<"claw">>]}
MCOnePlan == {[object |-> <<"block">>, target |-> << >>, tool |-> << >>]}
=============================================================================
