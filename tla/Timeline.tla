------------------------------ MODULE Timeline ------------------------------
(***************************************************************************)
(* How pipeline.py makes the segments of one annotation: annotate_episode  *)
(* for target phases 1 and 2, annotate_episode_phase3 for 3 and 4, and its *)
(* way out when no object is found, _degrade_to_phase3_objectless.  One    *)
(* process runs it from the events of the detectors to the annotation that *)
(* is handed to publish(), which RunStore models.  The detectors and the   *)
(* object tracker are external: their events and their success are inputs. *)
(***************************************************************************)
EXTENDS Smoother

CONSTANTS
    EventSets,      \* the sets of events the detectors may find
    Targets         \* the target phases asked for

ASSUME EventsAssumption ==
    \A E \in EventSets : IsFiniteSet(E) /\ \A e \in E : e.time \in Nat

VARIABLES
    target,     \* config.target_phase
    tracked     \* an object was grounded and tracked

vars == <<stage, segments, labelerVars, smootherVars, target, tracked>>

Init ==
    /\ target \in Targets
    /\ stage = IF target >= 3 THEN "track" ELSE "detect"
    /\ segments = <<>>
    /\ tracked = FALSE
    /\ LabelerInit
    /\ SmootherInit

\* Entity extraction, the load of SAM3 and grounding succeed, or one of them
\* does not and the run goes on without objects.
TrackObjects ==
    /\ stage = "track"
    /\ tracked' \in BOOLEAN
    /\ stage' = "detect"
    /\ UNCHANGED <<segments, labelerVars, smootherVars, target>>

DetectBoundaries ==
    /\ stage = "detect"
    /\ \E E \in EventSets : \E up \in SUBSET {MedianOf(GroupOf(E, e)) : e \in E} :
           \E edges \in {Edges(E, up)} : segments' = Bracket(edges)
    /\ baseline' = segments'
    /\ stage' = IF target = 1 THEN "done" ELSE "label"
    /\ UNCHANGED <<idx, attempt, faults, degraded, labelled, smootherVars, target, tracked>>

\* A run whose objects were not found is published as it was labelled.
AfterLabeling == IF target >= 4 /\ tracked THEN "smooth" ELSE "done"

LabelSegments ==
    /\ stage = "label"
    /\ \/ target = 2 /\ FactoryFails(AfterLabeling)
       \/ Answer
       \/ Reject
       \/ \E reason \in Faults : Fault(AfterLabeling, reason)
       \/ Propagate
       \/ LabelingEnds(AfterLabeling)
    /\ UNCHANGED <<smootherVars, target, tracked>>

SmoothSegments ==
    /\ stage = "smooth"
    /\ SmootherNext \/ CheckInvariants("done")
    /\ UNCHANGED <<labelerVars, target, tracked>>

Next == TrackObjects \/ DetectBoundaries \/ LabelSegments \/ SmoothSegments

Spec == Init /\ [][Next]_vars /\ WF_vars(Next)
------------------------------------------------------------------------------
(* Properties. *)

Smoothed == stage = "done" /\ op = "check"

\* What is published covers the episode frame by frame, but for less than a
\* frame at either end, whatever has been dropped, merged and absorbed; so the
\* post-condition of the smoother never fails, which would throw away a run whose
\* segments the model has labelled already.
CoversEpisode ==
    /\ stage # "aborted"
    /\ stage = "done" =>
          /\ segments # <<>>
          /\ segments[1].left.time < FrameTicks
          /\ Last(segments).right.time > Duration - FrameTicks
          /\ \A k \in 1 .. Len(segments) - 1 : segments[k].last + 1 = segments[k + 1].first

\* Smoothing reaches both its goals, though each step of one can undo the other:
\* no segment stays below the minimal duration, although Op 2 does not run again
\* after Op 1 and Op 3 (a single segment may be short), and no two neighbours of
\* one label that could have been merged, although each round of Op 1 merges
\* disjoint pairs only.
SmoothingReachesItsGoals ==
    Smoothed =>
        /\ Len(segments) > 1 => \A k \in DOMAIN segments : Length(segments[k]) >= MinDuration
        /\ Mergeable(segments) = {}

Within(part, seg) == seg.left.time <= part.left.time /\ part.right.time <= seg.right.time

\* A preserved boundary between two segments disappears only when a segment next
\* to it was too short: never by a merge of equal labels, also not one that
\* follows an absorption or a relabelling.
PreservedCutStays(cut) ==
    cut.sources \cap Preserve # {} =>
        \E seg \in ToSet(segments) :
            \/ seg.right = cut
            \/ /\ seg.left.time < cut.time /\ cut.time < seg.right.time
               /\ "merge_short" \in seg.ops

\* Only Viterbi decoding, which smoothing_ops then names, puts a label where the
\* model did not: otherwise the label of a published segment was the answer for a
\* part of it, and for every part that was long enough to stand alone.
LabelExplained(seg) ==
    LET parts == {part \in ToSet(labelled) : Within(part, seg)}
    IN  \/ "viterbi_relabel" \in seg.ops
        \/ /\ \E part \in parts : part.phase = seg.phase
           /\ \A part \in parts : Length(part) >= MinDuration => part.phase = seg.phase

\* However often confidences are averaged, the result lies between those of the
\* parts.
ConfidenceExplained(seg) ==
    LET given == {part.vlm : part \in {p \in ToSet(labelled) : Within(p, seg)}} \ {NoConfidence}
    IN  seg.vlm # NoConfidence =>
            /\ \E low \in given : ~Less(seg.vlm, low)
            /\ \E high \in given : ~Less(high, seg.vlm)

\* What smoothing removed and what it kept can be explained from what the model
\* labelled, in whatever order neighbours were merged and absorbed.
SmoothingExplained ==
    Smoothed =>
        /\ \A k \in 1 .. Len(labelled) - 1 : PreservedCutStays(labelled[k].right)
        /\ \A seg \in ToSet(segments) : LabelExplained(seg) /\ ConfidenceExplained(seg)

\* The labeler returns labels for every segment, or says that it is degraded and
\* returns none: no partial labels leak.
AllLabelsOrNone ==
    labelled # <<>> =>
        \A seg \in ToSet(labelled) : seg.phase = "unlabeled" <=> degraded # Nothing

\* The score of a labelling of the segments s: the confidence of the labels it
\* keeps, less Lambda for each forbidden transition.
ScoreOfLabels(s, labels) ==
    LET kept(k) == IF labels[k] = s[k].phase /\ s[k].vlm # NoConfidence THEN s[k].vlm ELSE Zero
        broken(k) == IF k > 1 /\ <<labels[k - 1], labels[k]>> \in Forbidden
                     THEN <<- Lambda[1], Lambda[2]>> ELSE Zero
        upTo[k \in 0 .. Len(s)] ==
            IF k = 0 THEN Zero ELSE Plus(upTo[k - 1], Plus(kept(k), broken(k)))
    IN  upTo[Len(s)]

\* Viterbi decoding finds a labelling of the greatest score there is, checked
\* against all of them.
ViterbiIsBest ==
    [][(op = "op3" /\ op' # "op3" /\ ViterbiEnabled /\ Len(segments) > 1) =>
            LET found == [k \in DOMAIN segments |-> segments'[k].phase]
            IN  \A labels \in [DOMAIN segments -> ToSet(States)] :
                    ~Less(ScoreOfLabels(segments, found), ScoreOfLabels(segments, labels))]_vars

\* Every annotation ends: the attempts at a segment, the rounds and the passes of
\* the smoother run out.
AnnotationEnds == <>(stage \in {"done", "aborted", "raised"})
=============================================================================
