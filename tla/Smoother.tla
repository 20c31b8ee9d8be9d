------------------------------ MODULE Smoother ------------------------------
(***************************************************************************)
(* apply_smoothing of smoother.py: segments of one label are merged (Op 1),*)
(* short ones are absorbed by a neighbour (Op 2), and Viterbi decoding     *)
(* replaces labels whose order is forbidden (Op 3).  One step is one merge,*)
(* one absorption, one pass over the list that finds nothing more, or the  *)
(* decoding.                                                               *)
(*                                                                         *)
(* Op 1 runs three times: first, after Op 2 if that absorbed anything, and *)
(* after Op 3 if that relabelled anything.                                 *)
(***************************************************************************)
EXTENDS Labeler

CONSTANTS
    Preserve,           \* merge_same_label_preserve_sources
    MinDuration,        \* min_segment_duration_sec in ticks
    ViterbiEnabled,     \* viterbi_enabled
    Forbidden,          \* forbidden_transitions
    Lambda,             \* lambda_forbidden
    AlphaRank           \* the place of each label in sorted(states)

ASSUME MinDurationAssumption == MinDuration \in Nat
ASSUME ViterbiAssumption == ViterbiEnabled \in BOOLEAN
ASSUME StatesAssumption ==
    /\ Labelset \in Seq(STRING)
    /\ Lambda \in Rational
    /\ \A q \in ToSet(Labelset) \cup {"unknown"} : AlphaRank[q] \in Nat

VARIABLES
    op,         \* the operator that runs
    pos,        \* its index i into the list
    changed,    \* this round or pass has merged or absorbed
    ever,       \* this run of the operator has
    dp          \* the columns of the Viterbi decoder

smootherVars == <<op, pos, changed, ever, dp>>

SmootherInit == op = "op1" /\ pos = 1 /\ changed = FALSE /\ ever = FALSE
                /\ dp = <<>>

Enter(next) == op' = next /\ pos' = 1 /\ changed' = FALSE /\ ever' = FALSE

Replace(s, k, seg) == SubSeq(s, 1, k - 1) \o <<seg>> \o SubSeq(s, k + 2, Len(s))

------------------------------------------------------------------------------
(* What a merge gives. *)

\* _weighted_mean_vlm
MeanConfidence(l, r) ==
    LET weighted(seg) == Times(<<Length(seg), 1>>, seg.vlm)
    IN  IF l.vlm = NoConfidence THEN r.vlm
        ELSE IF r.vlm = NoConfidence THEN l.vlm
        ELSE Times(Plus(weighted(l), weighted(r)), <<1, Length(l) + Length(r)>>)

\* The segment from the start of l to the end of r.
Join(l, r, phase, name) ==
    [left |-> l.left, right |-> r.right, first |-> l.first, last |-> r.last,
     phase |-> phase, vlm |-> MeanConfidence(l, r), ops |-> l.ops \cup r.ops \cup {name}]

\* _merge_pair_same_label: what it takes from the more confident side is left out.
MergePair(l, r) == Join(l, r, l.phase, "merge_same_label")

\* _absorb: the label is that of the segment that absorbs.
Absorb(l, r, into) ==
    Join(l, r, IF into = "left" THEN l.phase ELSE r.phase, "merge_short")

------------------------------------------------------------------------------
(* Op 1 *)

\* Mutant: nothing is preserved.
NeverPreserved(l, r) == FALSE

\* _boundary_is_preserved
Preserved(l, r) == (l.right.sources \cup r.left.sources) \cap Preserve # {}

\* Positions of a pair that Op 1 merges.
Mergeable(s) == {k \in 1 .. Len(s) - 1 : s[k].phase = s[k + 1].phase
                                         /\ ~Preserved(s[k], s[k + 1])}

From(S) == {k \in S : k >= pos}

\* The next pair of a round; what it gives is not merged again in this round.
MergeNext ==
    /\ op \in {"op1", "op1b", "op1c"}
    /\ From(Mergeable(segments)) # {}
    /\ LET k == Min(From(Mergeable(segments)))
       IN  /\ segments' = Replace(segments, k, MergePair(segments[k], segments[k + 1]))
           /\ pos' = k + 1
    /\ changed' = TRUE /\ ever' = TRUE
    /\ UNCHANGED op

AfterMerging == CASE op = "op1" -> "op2" [] op = "op1b" -> "op3" [] op = "op1c" -> "check"

\* Mutant: one round and no more.
EndRoundForGood ==
    /\ op \in {"op1", "op1b", "op1c"}
    /\ From(Mergeable(segments)) = {}
    /\ Enter(AfterMerging)
    /\ UNCHANGED segments

\* The end of a round: another one, unless it merged nothing.
EndRound ==
    /\ op \in {"op1", "op1b", "op1c"}
    /\ From(Mergeable(segments)) = {}
    /\ IF changed THEN pos' = 1 /\ changed' = FALSE /\ UNCHANGED <<op, ever>>
                  ELSE Enter(AfterMerging)
    /\ UNCHANGED segments

------------------------------------------------------------------------------
(* Op 2 *)

\* Positions of a short segment that has a neighbour.
Short(s) == {k \in 1 .. Len(s) : Len(s) > 1 /\ Length(s[k]) < MinDuration}

\* The side that absorbs segment k.  A tie goes left: the code compares one and
\* the same pair of labels for both sides, so forbidden transitions never decide.
AbsorbingSide(s, k) ==
    IF k = 1 THEN "right"
    ELSE IF k = Len(s) THEN "left"
    ELSE IF Less(OverallSquared(s[k - 1]), OverallSquared(s[k + 1])) THEN "right" ELSE "left"

\* The next short segment is absorbed; the pass goes on at the survivor.
AbsorbNext ==
    /\ op = "op2"
    /\ From(Short(segments)) # {}
    /\ LET k == Min(From(Short(segments)))
           side == AbsorbingSide(segments, k)
           l == IF side = "left" THEN k - 1 ELSE k
       IN  /\ segments' = Replace(segments, l, Absorb(segments[l], segments[l + 1], side))
           /\ pos' = l
    /\ changed' = TRUE /\ ever' = TRUE
    /\ UNCHANGED op

EndPass ==
    /\ op = "op2"
    /\ From(Short(segments)) = {}
    /\ IF changed THEN pos' = 1 /\ changed' = FALSE /\ UNCHANGED <<op, ever>>
                  ELSE Enter(IF ever THEN "op1b" ELSE "op3")
    /\ UNCHANGED segments

------------------------------------------------------------------------------
(* Op 3 *)

\* The labels of the label set in their order, and "unknown" last.
States == Append(Labelset, "unknown")

\* The key of a path, compared from left to right: the score, the labels it
\* keeps, and minus the ranks of its labels in two orders.
KeyLess(a, b) ==
    \/ Less(a[1], b[1])
    \/ /\ ~Less(b[1], a[1])
       /\ \/ a[2] < b[2]
          \/ a[2] = b[2] /\ a[3] < b[3]
          \/ a[2] = b[2] /\ a[3] = b[3] /\ a[4] < b[4]

\* What state q adds to the key at a segment.
Emission(seg, q) ==
    LET same == States[q] = seg.phase
    IN  <<IF same /\ seg.vlm # NoConfidence THEN seg.vlm ELSE Zero,
          IF same /\ seg.phase # "unknown" THEN 1 ELSE 0,
          1 - q,
          - AlphaRank[States[q]]>>

\* Mutant: the pair is looked up in the wrong order.
BackwardPenalty(p, q) ==
    IF <<States[q], States[p]>> \in Forbidden THEN <<- Lambda[1], Lambda[2]>> ELSE Zero

Penalty(p, q) ==
    IF <<States[p], States[q]>> \in Forbidden THEN <<- Lambda[1], Lambda[2]>> ELSE Zero

Extend(key, p, q, seg) ==
    LET e == Emission(seg, q)
    IN  <<Plus(key[1], Plus(e[1], Penalty(p, q))), key[2] + e[2], key[3] + e[3], key[4] + e[4]>>

Key == Rational \X Int \X Int \X Int

\* The first state whose key no other key exceeds.
FirstBest ==
    [keys \in [DOMAIN States -> Key] |->
        CHOOSE q \in DOMAIN keys :
            /\ \A r \in DOMAIN keys : ~KeyLess(keys[q], keys[r])
            /\ \A r \in DOMAIN keys : r < q => KeyLess(keys[r], keys[q])]

\* One column of dp: for each state the best key that ends there and the state
\* before it.
FirstColumn(seg) == [q \in DOMAIN States |-> [key |-> Emission(seg, q), prev |-> 0]]

NextColumn(column, seg) ==
    [q \in DOMAIN States |->
        LET keys == [p \in DOMAIN States |-> Extend(column[p].key, p, q, seg)]
            best == FirstBest[keys]
        IN  [key |-> keys[best], prev |-> best]]

\* The forward pass, a segment at a time.
ExtendColumns ==
    /\ op = "op3" /\ ViterbiEnabled /\ Len(segments) > 1
    /\ Len(dp) < Len(segments)
    /\ dp' = Append(dp, IF dp = <<>> THEN FirstColumn(segments[1])
                        ELSE NextColumn(Last(dp), segments[Len(dp) + 1]))
    /\ UNCHANGED <<segments, op, pos, changed, ever>>

\* The labels of the best path, found backwards.
Decoded ==
    LET final == FirstBest[[q \in DOMAIN States |-> Last(dp)[q].key]]
        path[k \in DOMAIN dp] == IF k = Len(dp) THEN final ELSE dp[k + 1][path[k + 1]].prev
    IN  [k \in DOMAIN dp |-> States[path[k]]]

\* _materialize_label
Relabelled(seg, phase) ==
    IF phase = seg.phase THEN seg
    ELSE [seg EXCEPT !.phase = phase, !.ops = @ \cup {"viterbi_relabel"}]

\* The backward pass and the new labels.
Relabel ==
    /\ op = "op3"
    /\ IF ViterbiEnabled /\ Len(segments) > 1
       THEN /\ Len(dp) = Len(segments)
            /\ \E labels \in {Decoded} :
                   segments' = [k \in DOMAIN segments |-> Relabelled(segments[k], labels[k])]
       ELSE UNCHANGED segments
    /\ Enter(IF segments' # segments THEN "op1c" ELSE "check")
    /\ dp' = <<>>

SmootherNext ==
    /\ \/ (MergeNext \/ EndRound \/ AbsorbNext \/ EndPass) /\ UNCHANGED dp
       \/ ExtendColumns
       \/ Relabel
    /\ UNCHANGED stage

------------------------------------------------------------------------------
(* _assert_segment_invariants: a boundary is named by its time.  The range of *)
(* the confidences is left out: the arithmetic of the model is exact.         *)

Adjoin(s) == \A k \in 1 .. Len(s) - 1 : s[k].right.time = s[k + 1].left.time

CheckInvariants(next) ==
    /\ op = "check"
    /\ stage' = IF Adjoin(segments) THEN next ELSE "aborted"
    /\ UNCHANGED <<segments, smootherVars>>
=============================================================================
