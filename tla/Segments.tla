------------------------------ MODULE Segments ------------------------------
(***************************************************************************)
(* The segments an annotation is made of, and how the detectors' events    *)
(* become the first ones: integrated_candidates (boundaries.py) groups the *)
(* events into boundary candidates, bracket_phase1_segments                *)
(* (bracketing.py) cuts the episode at them.                               *)
(*                                                                         *)
(* Times are integers: FrameTicks ticks are one frame, because a crossing  *)
(* of zero is interpolated between two frames and the median of a group    *)
(* may fall between two events.  Scores and confidences are rationals.  A  *)
(* candidate is named by its time: two groups never have the same median.  *)
(***************************************************************************)
EXTENDS Integers, Sequences, FiniteSetsExt, SequencesExt

CONSTANTS
    FrameTicks,         \* ticks of one frame, epsilon_sec of the bracketing
    Duration,           \* ticks of the episode
    Weight,             \* the weight of each source of events
    ScoreThreshold,     \* boundary.score_threshold
    MergeWindow,        \* boundary.merge_window_sec in ticks
    NoConfidence        \* vlm_confidence is None

\* resolve_fps refuses an episode with less than two frames.
ASSUME TicksAssumption ==
    FrameTicks \in Nat \ {0} /\ Duration \in Nat /\ Duration >= 2 * FrameTicks

ASSUME WindowAssumption == MergeWindow \in Nat

VARIABLES
    stage,      \* where annotate_episode or annotate_episode_phase3 is
    segments    \* its local variable segments

------------------------------------------------------------------------------
(* Rational numbers <<n, d>> with d > 0 in lowest terms. *)

Zero == <<0, 1>>
One == <<1, 1>>
Rational == Int \X (Nat \ {0})
Gcd[p \in Nat \X Nat] == IF p[1] = 0 THEN p[2] ELSE Gcd[<<p[2] % p[1], p[1]>>]
Reduced[q \in Rational] ==
    LET d == Gcd[<<IF q[1] < 0 THEN - q[1] ELSE q[1], q[2]>>]
    IN  <<q[1] \div d, q[2] \div d>>
\* Functions of the pair, so that TLC evaluates both once.
Sums[p \in Rational \X Rational] ==
    Reduced[<<p[1][1] * p[2][2] + p[2][1] * p[1][2], p[1][2] * p[2][2]>>]
Products[p \in Rational \X Rational] == Reduced[<<p[1][1] * p[2][1], p[1][2] * p[2][2]>>]
Plus(a, b) == Sums[<<a, b>>]
Times(a, b) == Products[<<a, b>>]
Less(a, b) == a[1] * b[2] < b[1] * a[2]
Lower(a, b) == IF Less(b, a) THEN b ELSE a

------------------------------------------------------------------------------
(* Orders. *)

\* The k-th of a finite set of integers, in their order.
Nth(T, k) == CHOOSE t \in T : Cardinality({u \in T : u < t}) = k - 1

\* A sequence without the elements at the positions that are not kept.
Keep(s, kept) == [k \in 1 .. Cardinality(kept) |-> s[Nth(kept, k)]]

------------------------------------------------------------------------------
(* Events to candidates.  An event is [time, source, score]. *)

\* The sliding anchor: an event joins the group of the event before it.
Linked(E, e, f) ==
    LET times == {g.time : g \in E}
    IN  \A t \in times : e.time <= t /\ t < f.time =>
            \E u \in times : t < u /\ u <= t + MergeWindow

GroupOf(E, e) == {f \in E : Linked(E, e, f) /\ Linked(E, f, e)}

SourcesOf(G) == {e.source : e \in G}

\* The best score of each source, weighted, summed and clipped to 1.
ScoreOf(G) ==
    LET best(src) == (CHOOSE e \in G : /\ e.source = src
                                       /\ \A f \in G : f.source = src => ~Less(e.score, f.score)
                     ).score
    IN  Lower(One, FoldSet(LAMBDA src, sum : Plus(Times(Weight[src], best(src)), sum),
                           Zero, SourcesOf(G)))

\* np.median of the times; the MC modules use even times, so that it is a tick.
MedianOf(G) ==
    LET upTo(t) == {e \in G : e.time <= t}
        ranked(k) == Min({t \in {e.time : e \in G} : k <= Cardinality(upTo(t))})
        n == Cardinality(G)
    IN  (ranked((n + 1) \div 2) + ranked(n \div 2 + 1)) \div 2

\* round(time * fps).  Halfway between two frames the error of the
\* floating-point product decides, alike for both segments at the boundary.
RoundedFrame(time, up) ==
    (2 * time + FrameTicks - (IF time \in up THEN 0 ELSE 1)) \div (2 * FrameTicks)

Boundary(time, sources, score, up) ==
    [time |-> time, frame |-> RoundedFrame(time, up), sources |-> sources, score |-> score]

\* The promoted candidates, in the order of their times.
Candidates(E, up) ==
    LET promoted == {G \in {GroupOf(E, e) : e \in E} : ~Less(ScoreOf(G), ScoreThreshold)}
        times == {MedianOf(G) : G \in promoted}
        at(t) == CHOOSE G \in promoted : MedianOf(G) = t
    IN  [k \in 1 .. Cardinality(times) |->
            LET G == at(Nth(times, k))
            IN  Boundary(MedianOf(G), SourcesOf(G), ScoreOf(G), up)]

------------------------------------------------------------------------------
(* Candidates to segments. *)

Larger(m, n) == IF m < n THEN n ELSE m

\* first, last: start_frame and end_frame, both in the segment.  The times of a
\* segment are those of its boundaries.  ops: the names in smoothing_ops.
NewSegment(left, right) ==
    [left |-> left, right |-> right,
     first |-> left.frame, last |-> Larger(right.frame - 1, left.frame),
     phase |-> "unlabeled", vlm |-> NoConfidence, ops |-> {}]

Length(seg) == seg.right.time - seg.left.time

\* Mutant: the end of the episode is no edge.
EdgesOpenEnd(E, up) == <<Boundary(0, {"episode_start"}, One, up)>> \o Candidates(E, up)

\* The edges of bracket_phase1_segments.
Edges(E, up) ==
    <<Boundary(0, {"episode_start"}, One, up)>> \o Candidates(E, up)
        \o <<Boundary(Duration, {"episode_end"}, One, up)>>

\* bracket_phase1_segments: the episode cut at the edges, without what is shorter
\* than a frame.
Bracket(edges) ==
    LET pieces == [i \in 1 .. Len(edges) - 1 |-> NewSegment(edges[i], edges[i + 1])]
    IN  Keep(pieces, {i \in DOMAIN pieces : Length(pieces[i]) >= FrameTicks})

------------------------------------------------------------------------------
(* Confidence. *)

Reserved == {"unlabeled", "unknown"}

\* boundary_confidence
BoundaryConfidence(seg) == Lower(seg.left.score, seg.right.score)

\* The square of overall_confidence, which orders segments alike.
OverallSquared(seg) ==
    IF seg.phase \in Reserved THEN Zero
    ELSE IF seg.vlm = NoConfidence
         THEN Times(BoundaryConfidence(seg), BoundaryConfidence(seg))
         ELSE Times(BoundaryConfidence(seg), seg.vlm)
=============================================================================
