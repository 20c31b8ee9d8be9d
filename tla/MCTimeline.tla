----------------------------- MODULE MCTimeline -----------------------------
(***************************************************************************)
(* An instance of Timeline for TLC: an episode of eight frames of four     *)
(* ticks with up to three cuts.                                            *)
(***************************************************************************)
EXTENDS Timeline

MCWeight == [gripper_transition |-> <<1, 2>>, gripper_zero_crossing |-> <<1, 1>>]

Event(time, source) == [time |-> time, source |-> source, score |-> One]

\* At the edges of the episode, and near enough to another to be merged.
Odd == {Event(2, "gripper_transition"), Event(10, "gripper_zero_crossing"),
        Event(30, "gripper_zero_crossing")}

\* Far enough apart for three cuts.
Core == {Event(4, "gripper_zero_crossing"), Event(12, "gripper_transition"),
         Event(22, "gripper_transition"), Event(27, "gripper_zero_crossing")}

MCEventSets == UNION {kSubset(k, Core \cup Odd) : k \in 0 .. 2}
                    \cup {Core \ {Event(4, "gripper_zero_crossing")}}

MCThreshold == <<1, 2>>
MCLabelset == <<"approach", "grasp">>
\* The last one is out of range and refused.
MCConfidences == {<<1, 4>>, One, <<3, 2>>}
MCForbidden == {<<"grasp", "approach">>}
MCLambda == <<1, 2>>
MCAlphaRank == [approach |-> 0, grasp |-> 1, unknown |-> 2]
=============================================================================
