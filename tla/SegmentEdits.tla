---------------------------- MODULE SegmentEdits ----------------------------
(***************************************************************************)
(* What the four PATCH operations do to the annotation of one run: relabel *)
(* (edit_repo.py), boundary (boundary_repo.py, boundary_lookup.py),        *)
(* reviewed (reviewed_repo.py) and labels (labels_repo.py), one accepted   *)
(* request at a time.  RunStore has the transaction around them; a request *)
(* that is refused there changes nothing here.                             *)
(*                                                                         *)
(* A segment is identified by its position: no edit adds, removes or moves *)
(* one.  Times are frames over fps and are left out.                       *)
(***************************************************************************)
EXTENDS Integers, Sequences, FiniteSetsExt

CONSTANTS
    NumFrames,      \* frames of the episode
    MaxSegments,    \* bound: segments of the run as published
    LabelSet,       \* the phases of the label set
    Reserved,       \* phases outside it that the pipeline may leave behind
    FieldValues,    \* values of (verb, object, target, failure_flags)
    Reviewers,      \* the server's MIMICANNO_REVIEWER ...
    NoReviewer,     \* ... or that it is not set
    MaxEdits        \* bound: edits of the run

ASSUME FramesAssumption == NumFrames \in Nat \ {0} /\ MaxSegments \in Nat \ {0}
ASSUME EditsBoundAssumption == MaxEdits \in Nat

VARIABLES
    segments,   \* annotation.segments
    history     \* annotation.history

vars == <<segments, history>>

Who == Reviewers \cup {NoReviewer}
Phases == LabelSet \cup Reserved

\* edited: "edited" is in smoothing_ops.  startBy, endBy: "human_edit" is the
\* source of the boundary on that side.
Segment == [start : Int, end : Int, phase : Phases, fields : FieldValues,
            reviewed : BOOLEAN, reviewer : Who, edited : BOOLEAN,
            startBy : {"auto", "human"}, endBy : {"auto", "human"}]

\* What old_value and new_value of an EditEvent range over.
EventValues(kind) ==
    CASE kind = "relabel" -> Phases
      [] kind = "boundary" -> Int
      [] kind = "reviewed" -> BOOLEAN
      [] kind = "labels" -> FieldValues

\* Mutant: the event names the list index instead of the segment.
LogByIndex(kind, i, old, new) ==
    history' = Append(history, [kind |-> kind, seg |-> i - 1, old |-> old, new |-> new])

\* build_edit_event and the append to annotation.history.
Log(kind, i, old, new) ==
    history' = Append(history, [kind |-> kind, seg |-> i, old |-> old, new |-> new])

\* Where the first segment may start: bracketing drops an interval shorter than a
\* frame, and one in front of a boundary late in frame 0 rounds to frame 1.
FirstFrames == {0, 1}

\* A published run: from its first frame on the segments tile the episode, cuts[i]
\* being the first frame after segment i, and no human has touched it.
Init ==
    /\ \E k \in 1 .. MaxSegments :
       \E cuts \in [0 .. k -> 0 .. NumFrames], phases \in [1 .. k -> Phases],
          fields \in [1 .. k -> FieldValues] :
          /\ cuts[0] \in FirstFrames /\ cuts[k] = NumFrames
          /\ \A i \in 1 .. k : cuts[i - 1] < cuts[i]
          /\ segments = [i \in 1 .. k |->
                [start |-> cuts[i - 1], end |-> cuts[i] - 1, phase |-> phases[i],
                 fields |-> fields[i], reviewed |-> FALSE, reviewer |-> NoReviewer,
                 edited |-> FALSE, startBy |-> "auto", endBy |-> "auto"]]
    /\ history = << >>

\* Every edit of a segment's content counts as a review of it.
MarkEdited(s, who) ==
    [s EXCEPT !.reviewed = TRUE, !.reviewer = who, !.edited = TRUE]

\* apply_edit.  Setting the phase the segment already has is accepted.
Relabel(i, phase, who) ==
    /\ phase \in LabelSet
    /\ segments' = [segments EXCEPT
                       ![i] = [MarkEdited(@, who) EXCEPT !.phase = phase]]
    /\ Log("relabel", i, segments[i].phase, phase)

\* derive_n_frames
DerivedFrames == Max({segments[i].end : i \in DOMAIN segments}) + 1

\* Mutant: the right segment may be dragged away.
ValidFrameLoose(i, frame) ==
    /\ frame # segments[i].start
    /\ frame >= 0 /\ frame < DerivedFrames
    /\ frame > segments[i - 1].start
    /\ frame <= segments[i].end + 1

\* validate_new_frame, for the boundary on the left of segment i.
ValidFrame(i, frame) ==
    /\ frame # segments[i].start
    /\ frame >= 0 /\ frame < DerivedFrames
    /\ frame > segments[i - 1].start
    /\ frame <= segments[i].end

\* Mutant: only the right segment gets the human boundary.
MoveBoundaryOneSided(i, frame, who) ==
    /\ i > 1
    /\ ValidFrame(i, frame)
    /\ segments' = [segments EXCEPT
          ![i - 1] = [MarkEdited(@, who) EXCEPT !.end = frame - 1],
          ![i] = [MarkEdited(@, who) EXCEPT !.start = frame, !.startBy = "human"]]
    /\ Log("boundary", i, segments[i - 1].end + 1, frame)

\* patch_boundary, with resolve_boundary: the boundary is named by the segment
\* on its right, and the first segment has none.
MoveBoundary(i, frame, who) ==
    /\ i > 1
    /\ ValidFrame(i, frame)
    /\ segments' = [segments EXCEPT
          ![i - 1] = [MarkEdited(@, who) EXCEPT !.end = frame - 1, !.endBy = "human"],
          ![i] = [MarkEdited(@, who) EXCEPT !.start = frame, !.startBy = "human"]]
    /\ Log("boundary", i, segments[i - 1].end + 1, frame)

\* Mutant: the reviewer stays when the mark is taken back.
SetReviewedKeepingName(i, reviewed, who) ==
    /\ segments[i].reviewed # reviewed
    /\ segments' = [segments EXCEPT ![i].reviewed = reviewed, ![i].reviewer = who]
    /\ Log("reviewed", i, segments[i].reviewed, reviewed)

\* patch_reviewed
SetReviewed(i, reviewed, who) ==
    /\ segments[i].reviewed # reviewed
    /\ segments' = [segments EXCEPT
          ![i].reviewed = reviewed,
          ![i].reviewer = IF reviewed THEN who ELSE NoReviewer]
    /\ Log("reviewed", i, segments[i].reviewed, reviewed)

\* Mutant: the old fields are read after the segment has been replaced.
SetLabelsLoggedLate(i, fields, who) ==
    /\ segments[i].fields # fields
    /\ segments' = [segments EXCEPT
          ![i].fields = fields, ![i].reviewed = TRUE, ![i].reviewer = who]
    /\ Log("labels", i, fields, fields)

\* patch_labels; smoothing_ops is left alone.
SetLabels(i, fields, who) ==
    /\ segments[i].fields # fields
    /\ segments' = [segments EXCEPT
          ![i].fields = fields, ![i].reviewed = TRUE, ![i].reviewer = who]
    /\ Log("labels", i, segments[i].fields, fields)

Next ==
    /\ Len(history) < MaxEdits
    /\ \E i \in DOMAIN segments, who \in Who :
          \/ \E phase \in LabelSet : Relabel(i, phase, who)
          \/ \E frame \in -1 .. NumFrames + 1 : MoveBoundary(i, frame, who)
          \/ \E reviewed \in BOOLEAN : SetReviewed(i, reviewed, who)
          \/ \E fields \in FieldValues : SetLabels(i, fields, who)

Spec == Init /\ [][Next]_vars

-----------------------------------------------------------------------------
\* The variables have their types.
TypeOK ==
    /\ segments \in Seq(Segment)
    /\ segments # << >>
    /\ \A e \in DOMAIN history :
          /\ history[e].kind \in {"relabel", "boundary", "reviewed", "labels"}
          /\ history[e].seg \in DOMAIN segments
          /\ {history[e].old, history[e].new} \subseteq EventValues(history[e].kind)

\* However boundaries are dragged, the segments cover the episode from their first
\* frame on without gap or overlap and each keeps a frame.  patch_boundary logs left.end_frame + 1 as the
\* old seam and checks new_frame against right.start_frame, relying on it.
Tiles ==
    /\ segments[1].start \in FirstFrames
    /\ segments[Len(segments)].end = NumFrames - 1
    /\ \A i \in DOMAIN segments : segments[i].start <= segments[i].end
    /\ \A i \in DOMAIN segments : i > 1 =>
          segments[i].start = segments[i - 1].end + 1

\* The value an event of this kind sets.
ValueNow(kind, i) ==
    CASE kind = "relabel" -> segments[i].phase
      [] kind = "boundary" -> segments[i].start
      [] kind = "labels" -> segments[i].fields

\* The audit trail of a field is a chain: each event starts from the value the
\* one before it set, and the last one set what is there now; and only a relabel
\* may be logged without changing anything.
AuditIsChain ==
    \A e \in DOMAIN history : history[e].kind # "reviewed" =>
        LET later == {f \in DOMAIN history :
                        /\ f > e
                        /\ history[f].kind = history[e].kind
                        /\ history[f].seg = history[e].seg}
        IN  /\ IF later = {} THEN history[e].new = ValueNow(history[e].kind, history[e].seg)
               ELSE history[Min(later)].old = history[e].new
            /\ history[e].kind # "relabel" => history[e].old # history[e].new

\* Which segments an event marks as reviewed or not.
Touches(e, i) ==
    \/ history[e].seg = i
    \/ history[e].kind = "boundary" /\ history[e].seg = i + 1

\* A segment is reviewed exactly if the last event that touched it was an edit of
\* its content or an explicit mark; an unreviewed one names no reviewer.
ReviewFollowsAudit ==
    \A i \in DOMAIN segments :
        LET touching == {e \in DOMAIN history : Touches(e, i)}
            last == history[Max(touching)]
        IN  /\ segments[i].reviewed <=>
                  touching # {} /\ (last.kind = "reviewed" => last.new = TRUE)
            /\ ~segments[i].reviewed => segments[i].reviewer = NoReviewer

\* A boundary a human has set is a human boundary of both its segments, and both
\* carry the mark of the edit.
HumanBoundaryOnBothSides ==
    \A i \in DOMAIN segments : i > 1 =>
        /\ segments[i].startBy = segments[i - 1].endBy
        /\ segments[i].startBy = "human" =>
              segments[i].edited /\ segments[i - 1].edited
=============================================================================
