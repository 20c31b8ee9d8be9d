------------------------------ MODULE HandGaps ------------------------------
(***************************************************************************)
(* The hands of a video as scripts/run_hand_estimation.py sees them.  Of   *)
(* each detected hand the depth of the wrist stands for the position, the  *)
(* joints, the rotation and the pinch, which are blended by the same       *)
(* weight.  An estimate of a frame is a function on the sides that were    *)
(* detected.                                                               *)
(***************************************************************************)
EXTENDS Integers, FiniteSets

CONSTANTS
    N,              \* frames of the video
    Sides,          \* the hands
    Depth,          \* Depth[f]: the distance of a wrist in frame f
    MaxGap,         \* --max-interp-gap
    MissPercent     \* --depth-miss-threshold

ASSUME HandGapsAssumption ==
    /\ N \in Nat \ {0} /\ MaxGap \in Nat /\ MissPercent \in 0 .. 100
    /\ Depth \in [0 .. N - 1 -> Nat]

Frames == 0 .. N - 1
NoDepth == -1       \* wrist_depth_m is None

NoHands == << >>

\* _apply_metric_depth, the depth and whether it is a filled one: raws[s] is whether the depth map shows anything at the wrist.
apply_metric_depth(raws, f) ==
    [s \in DOMAIN raws |-> [depth |-> IF raws[s] THEN Depth[f] ELSE NoDepth, filled |-> FALSE]]
passthrough_estimate(raws) == [s \in DOMAIN raws |-> [depth |-> NoDepth, filled |-> FALSE]]

Seen(est, s, f) == f \in DOMAIN est /\ s \in DOMAIN est[f]
Missing(est, s, f) == Seen(est, s, f) /\ est[f][s].depth = NoDepth
Measured(est, s, f) == Seen(est, s, f) /\ est[f][s].depth # NoDepth

\* The last frame before the gap of f, and the first after it.
Before(est, s, f) ==
    CHOOSE a \in -1 .. f - 1 :
        ~Missing(est, s, a) /\ \A g \in a + 1 .. f : Missing(est, s, g)
After(est, s, f) ==
    CHOOSE b \in f + 1 .. N :
        ~Missing(est, s, b) /\ \A g \in f .. b - 1 : Missing(est, s, g)

\* Mutant: the weights begin at the frame before the gap.
BlendLate(d0, d1, step, steps) ==
    [depth |-> d0 + ((d1 - d0) * (step - 1)) \div steps, filled |-> TRUE]

Blend(d0, d1, step, steps) ==
    [depth |-> d0 + ((d1 - d0) * step) \div steps, filled |-> TRUE]

\* _interpolate_side, both sides of a frame.
interpolate_side(est) ==
    [f \in DOMAIN est |-> [s \in DOMAIN est[f] |->
        LET a == Before(est, s, f)
            b == After(est, s, f)
        IN  IF /\ Missing(est, s, f)
               /\ b - a - 1 <= MaxGap
               /\ Measured(est, s, a) /\ Measured(est, s, b)
            THEN Blend(est[a][s].depth, est[b][s].depth, f - a, b - a)
            ELSE est[f][s]]]

Detections(est) == {d \in (DOMAIN est) \X Sides : d[2] \in DOMAIN est[d[1]]}
DepthMissing(est) == {d \in Detections(est) : Missing(est, d[2], d[1])}

check_depth_coverage(est) ==
    Cardinality(DepthMissing(est)) * 100 <= MissPercent * Cardinality(Detections(est))

\* Schema 3 has every frame and the position of each hand, schema 1 the frames with
\* a hand and whether its depth is known.
generate_signals(est, full) ==
    IF full
    THEN [schema |-> 3, frames |-> [f \in DOMAIN est |->
             [s \in DOMAIN est[f] |-> est[f][s].depth]]]
    ELSE [schema |-> 1, frames |-> [f \in {g \in DOMAIN est : DOMAIN est[g] # {}} |->
             [s \in DOMAIN est[f] |-> est[f][s].depth # NoDepth]]]
=============================================================================
