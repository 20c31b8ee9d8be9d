------------------------- MODULE SegmentEditsProofs -------------------------
(***************************************************************************)
(* Theorems about SegmentEdits, for any number of frames, segments and     *)
(* edits.                                                                  *)
(***************************************************************************)
EXTENDS SegmentEdits, NaturalsInduction, WellFoundedInduction, TLAPS

Typed == segments \in Seq(Segment) /\ segments # << >>

\* Tiles needs the types to count with; the sources need neither, but every edit
\* touches all three.
Inv == Typed /\ Tiles /\ HumanBoundaryOnBothSides

-----------------------------------------------------------------------------
\* An edit of segment i that leaves frames and boundary sources alone.
SameBounds(s, t) ==
    /\ t.start = s.start /\ t.end = s.end
    /\ t.startBy = s.startBy /\ t.endBy = s.endBy
    /\ s.edited => t.edited

\* The frames of a segment are numbers.
LEMMA SegmentFrames ==
    ASSUME NEW s \in Segment
    PROVE  s.start \in Int /\ s.end \in Int
  BY DEF Segment

\* What a move of a boundary writes on its left: only the end is new.
LEMMA LeftSide ==
    ASSUME NEW s \in Segment, NEW who \in Who, NEW f \in Int, NEW t,
           t = [MarkEdited(s, who) EXCEPT !.end = f, !.endBy = "human"]
    PROVE  /\ t \in Segment
           /\ t.start = s.start /\ t.end = f
           /\ t.startBy = s.startBy /\ t.endBy = "human" /\ t.edited = TRUE
  BY DEF Segment, MarkEdited

\* What a move of a boundary writes on its right: only the start is new.
LEMMA RightSide ==
    ASSUME NEW s \in Segment, NEW who \in Who, NEW f \in Int, NEW t,
           t = [MarkEdited(s, who) EXCEPT !.start = f, !.startBy = "human"]
    PROVE  /\ t \in Segment
           /\ t.start = f /\ t.end = s.end
           /\ t.startBy = "human" /\ t.endBy = s.endBy /\ t.edited = TRUE
  BY DEF Segment, MarkEdited

\* What bracketing makes of an interval.
Fresh(a, b, ph, f) ==
    [start |-> a, end |-> b, phase |-> ph, fields |-> f, reviewed |-> FALSE,
     reviewer |-> NoReviewer, edited |-> FALSE, startBy |-> "auto", endBy |-> "auto"]

\* It is a segment with the frames of the interval, touched by nobody.
LEMMA FreshSegment ==
    ASSUME NEW a \in Int, NEW b \in Int, NEW ph \in Phases, NEW f \in FieldValues
    PROVE  /\ Fresh(a, b, ph, f) \in Segment
           /\ Fresh(a, b, ph, f).start = a /\ Fresh(a, b, ph, f).end = b
           /\ Fresh(a, b, ph, f).startBy = "auto" /\ Fresh(a, b, ph, f).endBy = "auto"
  <1>1. NoReviewer \in Who
    BY DEF Who
  <1> QED BY <1>1 DEF Segment, Fresh

\* Replacing one segment by one with the same bounds keeps the invariant.
LEMMA ContentEdit ==
    ASSUME Inv, NEW i \in DOMAIN segments, NEW t \in Segment,
           SameBounds(segments[i], t), segments' = [segments EXCEPT ![i] = t]
    PROVE  Inv'
  <1>1. /\ Len(segments) \in Nat /\ Len(segments) > 0
        /\ DOMAIN segments = 1 .. Len(segments)
    BY DEF Inv, Typed
  <1>2. /\ segments' \in Seq(Segment)
        /\ Len(segments') = Len(segments)
        /\ DOMAIN segments' = DOMAIN segments
        /\ segments' # << >>
    BY <1>1 DEF Inv, Typed
  <1>3. \A j \in DOMAIN segments : SameBounds(segments[j], segments'[j])
    BY <1>1, <1>2 DEF SameBounds, Inv, Typed
  <1>4. Tiles'
    BY <1>1, <1>2, <1>3 DEF Inv, Tiles, SameBounds
  <1>5. HumanBoundaryOnBothSides'
    <2>1. SUFFICES ASSUME NEW j \in DOMAIN segments, j > 1
                   PROVE  /\ segments'[j].startBy = segments'[j - 1].endBy
                          /\ segments'[j].startBy = "human" =>
                                segments'[j].edited /\ segments'[j - 1].edited
      BY <1>2 DEF HumanBoundaryOnBothSides
    <2>2. j - 1 \in DOMAIN segments
      BY <1>1, <2>1
    <2>3. SameBounds(segments[j], segments'[j]) /\ SameBounds(segments[j - 1], segments'[j - 1])
      BY <1>3, <2>2
    <2>4. /\ segments[j].startBy = segments[j - 1].endBy
          /\ segments[j].startBy = "human" => segments[j].edited /\ segments[j - 1].edited
      BY <2>1 DEF Inv, HumanBoundaryOnBothSides
    <2> QED
      BY <2>3, <2>4, Zenon DEF SameBounds
  <1> QED
    BY <1>2, <1>4, <1>5 DEF Inv, Typed

\* A move of a boundary writes the same frame and the same source on both sides,
\* and ValidFrame leaves each side a frame.
LEMMA BoundaryEdit ==
    ASSUME Inv, NEW i \in DOMAIN segments, NEW frame \in Int, NEW who \in Who,
           MoveBoundary(i, frame, who)
    PROVE  Inv'
  <1>1. /\ Len(segments) \in Nat /\ Len(segments) > 0
        /\ DOMAIN segments = 1 .. Len(segments)
        /\ i \in DOMAIN segments /\ i - 1 \in DOMAIN segments
    BY DEF Inv, Typed, MoveBoundary
  <1> DEFINE
        left == [MarkEdited(segments[i - 1], who) EXCEPT !.end = frame - 1, !.endBy = "human"]
        right == [MarkEdited(segments[i], who) EXCEPT !.start = frame, !.startBy = "human"]
  <1>2. segments[i] \in Segment /\ segments[i - 1] \in Segment
    BY <1>1 DEF Inv, Typed
  <1>3. /\ left \in Segment
        /\ left.start = segments[i - 1].start /\ left.end = frame - 1
        /\ left.startBy = segments[i - 1].startBy /\ left.endBy = "human"
        /\ left.edited = TRUE
    <2>1. frame - 1 \in Int
      OBVIOUS
    <2> QED BY <1>2, <2>1, LeftSide
  <1>4. /\ right \in Segment
        /\ right.start = frame /\ right.end = segments[i].end
        /\ right.startBy = "human" /\ right.endBy = segments[i].endBy
        /\ right.edited = TRUE
    BY <1>2, RightSide
  <1>5. segments' = [segments EXCEPT ![i - 1] = left, ![i] = right]
    BY DEF MoveBoundary
  <1>6. frame > segments[i - 1].start /\ frame <= segments[i].end
    BY DEF MoveBoundary, ValidFrame
  <1> HIDE DEF left, right
  <1>7. /\ segments' \in Seq(Segment)
        /\ Len(segments') = Len(segments)
        /\ DOMAIN segments' = DOMAIN segments
        /\ segments' # << >>
    BY <1>1, <1>3, <1>4, <1>5 DEF Inv, Typed
  <1>8. /\ segments'[i - 1] = left /\ segments'[i] = right
        /\ \A j \in DOMAIN segments : j # i /\ j # i - 1 => segments'[j] = segments[j]
    BY <1>1, <1>5 DEF Inv, Typed
  <1>9. \A j \in DOMAIN segments : segments[j].start \in Int /\ segments[j].end \in Int
    <2>1. \A j \in DOMAIN segments : segments[j] \in Segment
      BY <1>1 DEF Inv, Typed
    <2> QED BY <2>1, SegmentFrames
  <1>10. Tiles'
    <2>1. segments'[1].start \in FirstFrames
      <3>1. segments'[1].start = segments[1].start
        BY <1>1, <1>3, <1>8 DEF MoveBoundary
      <3> QED BY <3>1 DEF Inv, Tiles
    <2>2. segments'[Len(segments)].end = segments[Len(segments)].end
      BY <1>1, <1>4, <1>8
    <2>3. ASSUME NEW j \in DOMAIN segments
          PROVE  segments'[j].start <= segments'[j].end
      <3>1. segments[j].start <= segments[j].end
        BY DEF Inv, Tiles
      <3>2. CASE j = i
        BY <1>4, <1>6, <1>8, <3>2
      <3>3. CASE j = i - 1
        BY <1>1, <1>3, <1>6, <1>8, <1>9, <3>3
      <3>4. CASE j # i /\ j # i - 1
        BY <1>8, <3>1, <3>4
      <3> QED BY <3>2, <3>3, <3>4
    <2>4. ASSUME NEW j \in DOMAIN segments, j > 1
          PROVE  segments'[j].start = segments'[j - 1].end + 1
      <3>1. j - 1 \in DOMAIN segments /\ segments[j].start = segments[j - 1].end + 1
        BY <1>1, <2>4 DEF Inv, Tiles
      <3>2. CASE j = i
        BY <1>3, <1>4, <1>8, <3>2
      <3>3. CASE j = i - 1
        BY <1>1, <1>3, <1>8, <3>1, <3>3
      <3>4. CASE j = i + 1
        BY <1>1, <1>4, <1>8, <3>1, <3>4
      <3>5. CASE j \notin {i - 1, i, i + 1}
        BY <1>1, <1>8, <3>1, <3>5
      <3> QED BY <3>2, <3>3, <3>4, <3>5
    <2> QED
      BY <1>7, <2>1, <2>2, <2>3, <2>4 DEF Inv, Tiles
  <1>11. HumanBoundaryOnBothSides'
    <2>1. SUFFICES ASSUME NEW j \in DOMAIN segments, j > 1
                   PROVE  /\ segments'[j].startBy = segments'[j - 1].endBy
                          /\ segments'[j].startBy = "human" =>
                                segments'[j].edited /\ segments'[j - 1].edited
      BY <1>7 DEF HumanBoundaryOnBothSides
    <2>2. /\ j - 1 \in DOMAIN segments
          /\ segments[j].startBy = segments[j - 1].endBy
          /\ segments[j].startBy = "human" => segments[j].edited /\ segments[j - 1].edited
      BY <1>1, <2>1 DEF Inv, HumanBoundaryOnBothSides
    <2>3. CASE j = i
      BY <1>3, <1>4, <1>8, <2>3
    <2>4. CASE j = i - 1
      <3>1. segments'[j] = left /\ segments'[j - 1] = segments[j - 1]
        BY <1>1, <1>8, <2>2, <2>4
      <3> QED BY <1>3, <2>2, <2>4, <3>1
    <2>5. CASE j = i + 1
      <3>1. segments'[j] = segments[j] /\ segments'[j - 1] = right
        BY <1>1, <1>8, <2>2, <2>5
      <3>2. j - 1 = i
        BY <1>1, <2>5
      <3> QED BY <1>4, <2>2, <3>1, <3>2
    <2>6. CASE j \notin {i - 1, i, i + 1}
      <3>1. segments'[j] = segments[j] /\ segments'[j - 1] = segments[j - 1]
        BY <1>1, <1>8, <2>2, <2>6
      <3> QED BY <2>2, <3>1
    <2> QED
      BY <2>3, <2>4, <2>5, <2>6
  <1> QED
    BY <1>7, <1>10, <1>11 DEF Inv, Typed

\* Bracketing gives neighbours the same cut, and no human has been there yet.
LEMMA Published == Init => Inv
  <1> SUFFICES ASSUME Init PROVE Inv
    OBVIOUS
  <1>1. PICK k \in 1 .. MaxSegments :
          \E cuts \in [0 .. k -> 0 .. NumFrames], phases \in [1 .. k -> Phases],
             fields \in [1 .. k -> FieldValues] :
             /\ cuts[0] \in FirstFrames /\ cuts[k] = NumFrames
             /\ \A i \in 1 .. k : cuts[i - 1] < cuts[i]
             /\ segments = [i \in 1 .. k |->
                   [start |-> cuts[i - 1], end |-> cuts[i] - 1, phase |-> phases[i],
                    fields |-> fields[i], reviewed |-> FALSE, reviewer |-> NoReviewer,
                    edited |-> FALSE, startBy |-> "auto", endBy |-> "auto"]]
    BY Zenon DEF Init
  <1>2. PICK cuts \in [0 .. k -> 0 .. NumFrames], phases \in [1 .. k -> Phases],
             fields \in [1 .. k -> FieldValues] :
             /\ cuts[0] \in FirstFrames /\ cuts[k] = NumFrames
             /\ \A i \in 1 .. k : cuts[i - 1] < cuts[i]
             /\ segments = [i \in 1 .. k |->
                   [start |-> cuts[i - 1], end |-> cuts[i] - 1, phase |-> phases[i],
                    fields |-> fields[i], reviewed |-> FALSE, reviewer |-> NoReviewer,
                    edited |-> FALSE, startBy |-> "auto", endBy |-> "auto"]]
    BY <1>1, Zenon
  <1>3. k \in Nat /\ k > 0
    BY FramesAssumption DEF FramesAssumption
  <1>4. \A i \in 0 .. k : cuts[i] \in Int
    BY <1>2, <1>3, FramesAssumption DEF FramesAssumption
  <1>5. \A i \in 1 .. k :
           /\ i - 1 \in 0 .. k
           /\ segments[i] = Fresh(cuts[i - 1], cuts[i] - 1, phases[i], fields[i])
    BY <1>2, <1>3 DEF Fresh
  <1>6. \A i \in 1 .. k :
           /\ segments[i] \in Segment
           /\ segments[i].start = cuts[i - 1] /\ segments[i].end = cuts[i] - 1
           /\ segments[i].startBy = "auto" /\ segments[i].endBy = "auto"
    <2> TAKE i \in 1 .. k
    <2>1. cuts[i - 1] \in Int /\ cuts[i] - 1 \in Int
      BY <1>3, <1>4
    <2>2. phases[i] \in Phases /\ fields[i] \in FieldValues
      BY <1>2
    <2>3. PICK a \in Int, b \in Int : a = cuts[i - 1] /\ b = cuts[i] - 1
      BY <2>1
    <2>4. segments[i] = Fresh(a, b, phases[i], fields[i])
      BY <1>5, <2>3
    <2>5. PICK ph \in Phases, f \in FieldValues : ph = phases[i] /\ f = fields[i]
      BY <2>2
    <2>6. /\ Fresh(a, b, ph, f) \in Segment
          /\ Fresh(a, b, ph, f).start = a /\ Fresh(a, b, ph, f).end = b
          /\ Fresh(a, b, ph, f).startBy = "auto" /\ Fresh(a, b, ph, f).endBy = "auto"
      BY FreshSegment, SMTT(30)
    <2> QED
      BY <2>3, <2>4, <2>5, <2>6
  <1>7. segments \in [1 .. k -> Segment]
    BY <1>2, <1>6
  <1>8. segments \in Seq(Segment) /\ Len(segments) = k /\ DOMAIN segments = 1 .. k
    BY <1>3, <1>7
  <1>9. segments # << >>
    BY <1>3, <1>8
  <1>10. Tiles
    <2>1. segments[1].start \in FirstFrames /\ segments[k].end = NumFrames - 1
      BY <1>2, <1>3, <1>6
    <2>2. \A i \in 1 .. k : segments[i].start <= segments[i].end
      BY <1>2, <1>3, <1>4, <1>6
    <2>3. \A i \in 1 .. k : i > 1 => segments[i].start = segments[i - 1].end + 1
      <3> SUFFICES ASSUME NEW i \in 1 .. k, i > 1
                   PROVE  segments[i].start = segments[i - 1].end + 1
        OBVIOUS
      <3>1. i - 1 \in 1 .. k /\ cuts[i - 1] \in Int
        BY <1>3, <1>4
      <3>2. segments[i].start = cuts[i - 1] /\ segments[i - 1].end = cuts[i - 1] - 1
        BY <1>6, <3>1
      <3> QED BY <3>1, <3>2
    <2> QED
      BY <1>8, <2>1, <2>2, <2>3 DEF Tiles
  <1>11. HumanBoundaryOnBothSides
    <2> SUFFICES ASSUME NEW i \in 1 .. k, i > 1
                 PROVE  segments[i].startBy = "auto" /\ segments[i - 1].endBy = "auto"
      BY <1>8 DEF HumanBoundaryOnBothSides
    <2>1. i - 1 \in 1 .. k
      BY <1>3
    <2> QED
      BY <1>6, <2>1
  <1> QED
    BY <1>8, <1>9, <1>10, <1>11 DEF Inv, Typed

\* Every edit keeps the invariant.
LEMMA Preserved == Inv /\ [Next]_vars => Inv'
  <1> SUFFICES ASSUME Inv, [Next]_vars PROVE Inv'
    OBVIOUS
  <1>1. CASE UNCHANGED vars
    BY <1>1 DEF Inv, Typed, Tiles, HumanBoundaryOnBothSides, vars
  <1>2. CASE Next
    <2>1. PICK i \in DOMAIN segments, who \in Who :
             \/ \E phase \in LabelSet : Relabel(i, phase, who)
             \/ \E frame \in -1 .. NumFrames + 1 : MoveBoundary(i, frame, who)
             \/ \E reviewed \in BOOLEAN : SetReviewed(i, reviewed, who)
             \/ \E fields \in FieldValues : SetLabels(i, fields, who)
      BY <1>2, Zenon DEF Next
    <2>2. segments[i] \in Segment /\ NoReviewer \in Who
      BY DEF Inv, Typed, Who
    <2>3. ASSUME NEW phase \in LabelSet, Relabel(i, phase, who)
          PROVE  Inv'
      <3> DEFINE t == [MarkEdited(segments[i], who) EXCEPT !.phase = phase]
      <3>1. segments' = [segments EXCEPT ![i] = t]
        BY <2>3 DEF Relabel
      <3>2. t \in Segment /\ SameBounds(segments[i], t)
        BY <2>2 DEF Segment, MarkEdited, SameBounds, Phases
      <3> HIDE DEF t
      <3> QED BY <3>1, <3>2, ContentEdit
    <2>4. ASSUME NEW frame \in -1 .. NumFrames + 1, MoveBoundary(i, frame, who)
          PROVE  Inv'
      <3>1. frame \in Int
        BY FramesAssumption DEF FramesAssumption
      <3> QED BY <2>4, <3>1, BoundaryEdit
    <2>5. ASSUME NEW reviewed \in BOOLEAN, SetReviewed(i, reviewed, who)
          PROVE  Inv'
      <3> DEFINE t == [segments[i] EXCEPT
                          !.reviewed = reviewed,
                          !.reviewer = IF reviewed THEN who ELSE NoReviewer]
      <3>1. segments' = [segments EXCEPT ![i] = t]
        BY <2>2, <2>5 DEF SetReviewed, Inv, Typed, Segment
      <3>2. t \in Segment /\ SameBounds(segments[i], t)
        BY <2>2 DEF Segment, SameBounds
      <3> HIDE DEF t
      <3> QED BY <3>1, <3>2, ContentEdit
    <2>6. ASSUME NEW fields \in FieldValues, SetLabels(i, fields, who)
          PROVE  Inv'
      <3> DEFINE t == [segments[i] EXCEPT
                          !.fields = fields, !.reviewed = TRUE, !.reviewer = who]
      <3>1. segments' = [segments EXCEPT ![i] = t]
        BY <2>2, <2>6 DEF SetLabels, Inv, Typed, Segment
      <3>2. t \in Segment /\ SameBounds(segments[i], t)
        BY <2>2 DEF Segment, SameBounds
      <3> HIDE DEF t
      <3> QED BY <3>1, <3>2, ContentEdit
    <2> QED
      BY <2>1, <2>3, <2>4, <2>5, <2>6
  <1> QED
    BY <1>1, <1>2

\* The invariant holds in every state of every run.
THEOREM Invariance == Spec => []Inv
  BY Published, Preserved, PTL DEF Spec

\* However boundaries are dragged, the segments tile the episode: patch_boundary
\* may log left.end_frame + 1 as the seam and test only the right segment's start.
THEOREM TilingKept == Spec => []Tiles
  <1>1. Inv => Tiles
    BY DEF Inv
  <1> QED
    BY <1>1, Invariance, PTL

\* A boundary a human has set is one on both its sides, whatever edits follow.
THEOREM HumanBoundariesAgree == Spec => []HumanBoundaryOnBothSides
  <1>1. Inv => HumanBoundaryOnBothSides
    BY DEF Inv
  <1> QED
    BY <1>1, Invariance, PTL

-----------------------------------------------------------------------------
(* The audit trail. *)

\* Events as records, whatever their kind.
EventKinds == {"relabel", "boundary", "reviewed", "labels"}
Values == Phases \cup Int \cup BOOLEAN \cup FieldValues
Event == [kind : EventKinds, seg : Nat, old : Values, new : Values]

\* Two events of one field of one segment.
Same(e, f) == history[f].kind = history[e].kind /\ history[f].seg = history[e].seg

\* AuditIsChain without Min: the last event of a field set what is there now, and
\* every other one set what the next one starts from.
Chain ==
    \A e \in DOMAIN history : history[e].kind # "reviewed" =>
        /\ (\A f \in DOMAIN history : f > e => ~Same(e, f)) =>
              history[e].new = ValueNow(history[e].kind, history[e].seg)
        /\ \A f \in DOMAIN history :
              f > e /\ Same(e, f) /\ (\A g \in DOMAIN history : e < g /\ g < f => ~Same(e, g)) =>
                 history[f].old = history[e].new
        /\ history[e].kind # "relabel" => history[e].old # history[e].new

\* ReviewFollowsAudit without Max: what an event that is not followed by another
\* one of the segment leaves behind.
Reviews ==
    \A i \in DOMAIN segments :
        /\ (\A e \in DOMAIN history : ~Touches(e, i)) => ~segments[i].reviewed
        /\ \A e \in DOMAIN history :
              Touches(e, i) /\ (\A f \in DOMAIN history : f > e => ~Touches(f, i)) =>
                 (segments[i].reviewed <=>
                     (history[e].kind = "reviewed" => history[e].new = TRUE))
        /\ ~segments[i].reviewed => segments[i].reviewer = NoReviewer

\* The audit trail is a sequence of events with the types TypeOK gives them.
Logged ==
    /\ history \in Seq(Event)
    /\ \A e \in DOMAIN history :
          /\ history[e].seg \in DOMAIN segments
          /\ {history[e].old, history[e].new} \subseteq EventValues(history[e].kind)

\* The invariant of the audit trail.
AuditInv == Inv /\ Logged /\ Chain /\ Reviews


\* What an edit that logs one event does to the segments: the event goes from the
\* value before to the value after, no other field changes, and of the segments it
\* touches, and of no other, it changes the review.
LogsFaithfully(kind, i, old, new) ==
    /\ {old, new} \subseteq EventValues(kind)
    /\ kind # "reviewed" => old = ValueNow(kind, i) /\ new = ValueNow(kind, i)'
    /\ kind \notin {"relabel", "reviewed"} => old # new
    /\ \A k \in EventKinds \ {"reviewed"} : \A j \in DOMAIN segments :
          k # kind \/ j # i => ValueNow(k, j)' = ValueNow(k, j)
    /\ \A j \in DOMAIN segments :
          IF i = j \/ (kind = "boundary" /\ i = j + 1)
          THEN segments'[j].reviewed <=> (kind = "reviewed" => new = TRUE)
          ELSE segments'[j].reviewed = segments[j].reviewed
    /\ \A j \in DOMAIN segments :
          ~segments'[j].reviewed => segments'[j].reviewer = NoReviewer

\* Such an edit keeps the invariant of the audit trail.
LEMMA AppendedToTheTrail ==
    ASSUME AuditInv, Inv', NEW kind \in EventKinds, NEW i \in DOMAIN segments,
           NEW old, NEW new, Log(kind, i, old, new),
           DOMAIN segments' = DOMAIN segments, LogsFaithfully(kind, i, old, new)
    PROVE  AuditInv'
  <1> DEFINE event == [kind |-> kind, seg |-> i, old |-> old, new |-> new]
  <1>1. PICK n \in Nat : n = Len(history) /\ history \in Seq(Event) /\ DOMAIN history = 1 .. n
    BY DEF AuditInv, Logged
  <1>2. event \in Event
    <2>1. i \in Nat
      BY DEF AuditInv, Inv, Typed
    <2>2. EventValues(kind) \subseteq Values
      BY DEF EventValues, Values, EventKinds
    <2>3. old \in Values /\ new \in Values
      BY <2>2 DEF LogsFaithfully
    <2> QED
      BY <2>1, <2>3 DEF Event
  <1>3. /\ event.kind = kind /\ event.seg = i /\ event.old = old /\ event.new = new
    OBVIOUS
  <1>4. history' = Append(history, event)
    BY DEF Log
  <1> HIDE DEF event
  <1>5. /\ history' \in Seq(Event) /\ DOMAIN history' = 1 .. n + 1
        /\ \A e \in 1 .. n : history'[e] = history[e]
        /\ history'[n + 1] = event
    BY <1>1, <1>2, <1>4
  <1>6. \A e \in 1 .. n : e \in Int /\ history[e].seg \in DOMAIN segments /\ history[e].kind \in EventKinds
    <2>1. \A e \in 1 .. n : history[e] \in Event
      BY <1>1
    <2> QED BY <1>1, <2>1 DEF AuditInv, Logged, Event
  <1>7. Logged'
    <2>1. ASSUME NEW e \in 1 .. n + 1
          PROVE  /\ history'[e].seg \in DOMAIN segments
                 /\ {history'[e].old, history'[e].new} \subseteq EventValues(history'[e].kind)
      <3>1. CASE e = n + 1
        BY <1>3, <1>5, <3>1 DEF LogsFaithfully
      <3>2. CASE e # n + 1
        <4>1. e \in 1 .. n
          BY <1>1, <3>2
        <4> QED BY <1>1, <1>5, <4>1 DEF AuditInv, Logged
      <3> QED BY <3>1, <3>2
    <2> QED BY <1>5, <2>1 DEF Logged, EventValues, Phases
  <1>8. Chain'
    <2> SUFFICES ASSUME NEW e \in 1 .. n + 1, history'[e].kind # "reviewed"
                 PROVE  /\ (\A f \in 1 .. n + 1 : f > e => ~Same(e, f)') =>
                              history'[e].new = ValueNow(history[e].kind, history[e].seg)'
                        /\ \A f \in 1 .. n + 1 :
                              f > e /\ Same(e, f)' /\ (\A g \in 1 .. n + 1 : e < g /\ g < f => ~Same(e, g)') =>
                                 history'[f].old = history'[e].new
                        /\ history'[e].kind # "relabel" => history'[e].old # history'[e].new
      BY <1>5, Zenon DEF Chain
    <2>1. CASE e = n + 1
      <3>1. history'[e] = event
        BY <1>5, <2>1
      <3>2. \A f \in 1 .. n + 1 : ~(f > e)
        BY <1>1, <2>1
      <3>3. history'[e].new = ValueNow(history[e].kind, history[e].seg)'
        BY <1>3, <2>1, <3>1 DEF LogsFaithfully, ValueNow
      <3> QED
        BY <1>3, <3>1, <3>2, <3>3 DEF LogsFaithfully
    <2>2. CASE e \in 1 .. n
      <3>1. history'[e] = history[e]
        BY <1>5, <2>2
      <3>2. \A f \in 1 .. n : f \in 1 .. n + 1 /\ (Same(e, f)' <=> Same(e, f))
        BY <1>1, <1>5, <2>2 DEF Same
      <3>3. n + 1 \in 1 .. n + 1 /\ n + 1 > e
        BY <1>1, <2>2
      <3>4. Same(e, n + 1)' <=> (kind = history[e].kind /\ i = history[e].seg)
        BY <1>3, <1>5, <3>1 DEF Same
      <3>5. history[e].kind \in EventKinds \ {"reviewed"} /\ history[e].seg \in DOMAIN segments
        BY <1>6, <2>2, <3>1
      <3>6. /\ (\A f \in 1 .. n : f > e => ~Same(e, f)) =>
                  history[e].new = ValueNow(history[e].kind, history[e].seg)
            /\ \A f \in 1 .. n :
                  f > e /\ Same(e, f) /\ (\A g \in 1 .. n : e < g /\ g < f => ~Same(e, g)) =>
                     history[f].old = history[e].new
            /\ history[e].kind # "relabel" => history[e].old # history[e].new
        BY <1>1, <2>2, <3>1, Zenon DEF AuditInv, Chain
      <3>7. ASSUME \A f \in 1 .. n + 1 : f > e => ~Same(e, f)'
            PROVE  history'[e].new = ValueNow(history[e].kind, history[e].seg)'
        <4>1. \A f \in 1 .. n : f > e => ~Same(e, f)
          BY <3>2, <3>7
        <4>2. kind # history[e].kind \/ i # history[e].seg
          BY <3>3, <3>4, <3>7
        <4>3. history[e].new = ValueNow(history[e].kind, history[e].seg)
          BY <3>6, <4>1
        <4>4. PICK k \in EventKinds \ {"reviewed"}, j \in DOMAIN segments :
                 k = history[e].kind /\ j = history[e].seg
          BY <3>5
        <4>5. ValueNow(k, j)' = ValueNow(k, j)
          BY <4>2, <4>4 DEF LogsFaithfully
        <4>6. ValueNow(history[e].kind, history[e].seg)' = ValueNow(k, j)'
          BY <3>1, <4>4 DEF ValueNow
        <4> QED BY <3>1, <4>3, <4>4, <4>5, <4>6
      <3>8. ASSUME NEW f \in 1 .. n + 1, f > e, Same(e, f)',
                   \A g \in 1 .. n + 1 : e < g /\ g < f => ~Same(e, g)'
            PROVE  history'[f].old = history'[e].new
        <4>1. CASE f \in 1 .. n
          <5>1. \A g \in 1 .. n : e < g /\ g < f => ~Same(e, g)
            BY <3>2, <3>8
          <5>2. history'[f] = history[f] /\ Same(e, f)
            BY <1>5, <3>2, <3>8, <4>1
          <5> QED BY <3>1, <3>6, <3>8, <4>1, <5>1, <5>2
        <4>2. CASE f = n + 1
          <5>1. kind = history[e].kind /\ i = history[e].seg
            BY <3>4, <3>8, <4>2
          <5>2. \A g \in 1 .. n : g > e => ~Same(e, g)
            <6>1. \A g \in 1 .. n : g > e => e < g /\ g < f
              BY <1>1, <2>2, <4>2
            <6> QED BY <3>2, <3>8, <6>1
          <5>3. history[e].new = ValueNow(kind, i)
            BY <3>6, <5>1, <5>2
          <5>4. old = ValueNow(kind, i)
            BY <3>5, <5>1 DEF LogsFaithfully
          <5> QED BY <1>3, <1>5, <3>1, <4>2, <5>3, <5>4
        <4> QED BY <1>1, <4>1, <4>2
      <3> QED
        BY <3>1, <3>6, <3>7, <3>8
    <2> QED
      BY <1>1, <2>1, <2>2
  <1>9. Reviews'
    <2> SUFFICES ASSUME NEW j \in DOMAIN segments
                 PROVE  /\ (\A e \in 1 .. n + 1 : ~Touches(e, j)') => ~segments'[j].reviewed
                        /\ \A e \in 1 .. n + 1 :
                              Touches(e, j)' /\ (\A f \in 1 .. n + 1 : f > e => ~Touches(f, j)') =>
                                 (segments'[j].reviewed <=>
                                     (history'[e].kind = "reviewed" => history'[e].new = TRUE))
                        /\ ~segments'[j].reviewed => segments'[j].reviewer = NoReviewer
      BY <1>5, Zenon DEF Reviews
    <2>1. /\ (\A e \in 1 .. n : ~Touches(e, j)) => ~segments[j].reviewed
          /\ \A e \in 1 .. n :
                Touches(e, j) /\ (\A f \in 1 .. n : f > e => ~Touches(f, j)) =>
                   (segments[j].reviewed <=>
                       (history[e].kind = "reviewed" => history[e].new = TRUE))
      BY <1>1, Zenon DEF AuditInv, Reviews
    <2>2. ~segments'[j].reviewed => segments'[j].reviewer = NoReviewer
      BY DEF LogsFaithfully
    <2>3. \A e \in 1 .. n : e \in 1 .. n + 1 /\ e < n + 1 /\ (Touches(e, j)' <=> Touches(e, j))
      BY <1>1, <1>5 DEF Touches
    <2>4. n + 1 \in 1 .. n + 1
      BY <1>1
    <2>5. Touches(n + 1, j)' <=> (i = j \/ (kind = "boundary" /\ i = j + 1))
      BY <1>3, <1>5 DEF Touches
    <2>6. CASE i = j \/ (kind = "boundary" /\ i = j + 1)
      <3>1. segments'[j].reviewed <=> (kind = "reviewed" => new = TRUE)
        BY <2>6 DEF LogsFaithfully
      <3>2. ASSUME NEW e \in 1 .. n + 1, \A f \in 1 .. n + 1 : f > e => ~Touches(f, j)'
            PROVE  history'[e] = event
        <4>1. ~(n + 1 > e)
          BY <2>4, <2>5, <2>6, <3>2
        <4>2. e = n + 1
          BY <1>1, <4>1
        <4> QED BY <1>5, <4>2
      <3> QED
        BY <1>3, <2>2, <2>4, <2>5, <2>6, <3>1, <3>2
    <2>7. CASE ~(i = j \/ (kind = "boundary" /\ i = j + 1))
      <3>1. segments'[j].reviewed = segments[j].reviewed
        BY <2>7 DEF LogsFaithfully
      <3>2. (\A e \in 1 .. n + 1 : ~Touches(e, j)') => ~segments'[j].reviewed
        BY <2>1, <2>3, <3>1
      <3>3. ASSUME NEW e \in 1 .. n + 1, Touches(e, j)',
                   \A f \in 1 .. n + 1 : f > e => ~Touches(f, j)'
            PROVE  segments'[j].reviewed <=>
                      (history'[e].kind = "reviewed" => history'[e].new = TRUE)
        <4>1. e # n + 1
          BY <2>5, <2>7, <3>3
        <4>2. e \in 1 .. n
          BY <1>1, <4>1
        <4>3. Touches(e, j) /\ \A f \in 1 .. n : f > e => ~Touches(f, j)
          BY <2>3, <3>3, <4>2
        <4>4. history'[e] = history[e]
          BY <1>5, <4>2
        <4> QED BY <2>1, <3>1, <4>2, <4>3, <4>4
      <3> QED
        BY <2>2, <3>2, <3>3
    <2> QED
      BY <2>6, <2>7
  <1> QED
    BY <1>7, <1>8, <1>9 DEF AuditInv


\* A run is published with an empty trail and no segment reviewed.
LEMMA PublishedUnedited == Init => AuditInv
  <1> SUFFICES ASSUME Init PROVE AuditInv
    OBVIOUS
  <1>1. Inv
    BY Published
  <1>2. history = << >> /\ history \in Seq(Event) /\ DOMAIN history = {}
    BY DEF Init
  <1>3. \A i \in DOMAIN segments : segments[i].reviewed = FALSE /\ segments[i].reviewer = NoReviewer
    <2>1. PICK k \in 1 .. MaxSegments :
            \E cuts \in [0 .. k -> 0 .. NumFrames], phases \in [1 .. k -> Phases],
               fields \in [1 .. k -> FieldValues] :
               /\ cuts[0] \in FirstFrames /\ cuts[k] = NumFrames
               /\ \A i \in 1 .. k : cuts[i - 1] < cuts[i]
               /\ segments = [i \in 1 .. k |->
                     [start |-> cuts[i - 1], end |-> cuts[i] - 1, phase |-> phases[i],
                      fields |-> fields[i], reviewed |-> FALSE, reviewer |-> NoReviewer,
                      edited |-> FALSE, startBy |-> "auto", endBy |-> "auto"]]
      BY Zenon DEF Init
    <2> QED
      BY <2>1
  <1> QED
    BY <1>1, <1>2, <1>3 DEF AuditInv, Logged, Chain, Reviews

\* patch_boundary logs left.end_frame + 1, which is where the right segment starts.
LEMMA OldSeam ==
    ASSUME Inv, NEW i \in DOMAIN segments, i > 1
    PROVE  segments[i - 1].end + 1 = segments[i].start
  BY DEF Inv, Tiles

\* Every edit logs what it does.
LEMMA EditsAreLogged ==
    ASSUME AuditInv, Inv', [Next]_vars
    PROVE  AuditInv'
  <1>1. CASE UNCHANGED vars
    <2> USE <1>1 DEF vars
    <2>1. Logged'
      BY DEF AuditInv, Logged, EventValues, Phases
    <2>2. Chain'
      <3>1. \A e, f : Same(e, f)' <=> Same(e, f)
        BY DEF Same
      <3>2. \A e : ValueNow(history[e].kind, history[e].seg)' = ValueNow(history[e].kind, history[e].seg)
        BY DEF ValueNow
      <3> QED
        BY <3>1, <3>2, Zenon DEF AuditInv, Chain
    <2>3. Reviews'
      BY DEF AuditInv, Reviews, Touches
    <2> QED
      BY <2>1, <2>2, <2>3 DEF AuditInv
  <1>2. CASE Next
    <2>1. PICK i \in DOMAIN segments, who \in Who :
             \/ \E phase \in LabelSet : Relabel(i, phase, who)
             \/ \E frame \in -1 .. NumFrames + 1 : MoveBoundary(i, frame, who)
             \/ \E reviewed \in BOOLEAN : SetReviewed(i, reviewed, who)
             \/ \E fields \in FieldValues : SetLabels(i, fields, who)
      BY <1>2, Zenon DEF Next
    <2>2. /\ segments \in Seq(Segment) /\ Len(segments) \in Nat
          /\ DOMAIN segments = 1 .. Len(segments)
          /\ \A j \in DOMAIN segments : segments[j] \in Segment
      BY DEF AuditInv, Inv, Typed
    <2>3. \A j \in DOMAIN segments : ~segments[j].reviewed => segments[j].reviewer = NoReviewer
      BY DEF AuditInv, Reviews
    <2>4. ASSUME NEW phase \in LabelSet, Relabel(i, phase, who)
          PROVE  AuditInv'
      <3> DEFINE t == [MarkEdited(segments[i], who) EXCEPT !.phase = phase]
                 old == segments[i].phase
      <3>1. segments' = [segments EXCEPT ![i] = t] /\ Log("relabel", i, old, phase)
        BY <2>4 DEF Relabel
      <3>2. /\ t.phase = phase /\ t.fields = segments[i].fields
            /\ t.start = segments[i].start /\ t.reviewed = TRUE
        BY <2>2 DEF Segment, MarkEdited
      <3>3. old \in Phases /\ phase \in Phases
        BY <2>2 DEF Segment, Phases
      <3>4. segments'[i] = t /\ \A j \in DOMAIN segments : j # i => segments'[j] = segments[j]
        BY <3>1
      <3> HIDE DEF t
      <3>5. LogsFaithfully("relabel", i, old, phase)
        BY <2>3, <3>2, <3>3, <3>4 DEF LogsFaithfully, EventValues, EventKinds, ValueNow
      <3>6. DOMAIN segments' = DOMAIN segments
        BY <3>1
      <3> HIDE DEF old
      <3> QED BY <3>1, <3>5, <3>6, AppendedToTheTrail DEF EventKinds
    <2>5. ASSUME NEW frame \in -1 .. NumFrames + 1, MoveBoundary(i, frame, who)
          PROVE  AuditInv'
      <3> DEFINE
            left == [MarkEdited(segments[i - 1], who) EXCEPT !.end = frame - 1, !.endBy = "human"]
            right == [MarkEdited(segments[i], who) EXCEPT !.start = frame, !.startBy = "human"]
            old == segments[i - 1].end + 1
      <3>1. /\ segments' = [segments EXCEPT ![i - 1] = left, ![i] = right]
            /\ Log("boundary", i, old, frame) /\ i > 1 /\ frame # segments[i].start
        BY <2>5 DEF MoveBoundary, ValidFrame
      <3>2. i - 1 \in DOMAIN segments /\ i - 1 # i
        BY <2>2, <3>1
      <3>3. /\ right.phase = segments[i].phase /\ right.fields = segments[i].fields
            /\ right.start = frame /\ right.reviewed = TRUE
        BY <2>2 DEF Segment, MarkEdited
      <3>4. /\ left.phase = segments[i - 1].phase /\ left.fields = segments[i - 1].fields
            /\ left.start = segments[i - 1].start /\ left.reviewed = TRUE
        BY <2>2, <3>2 DEF Segment, MarkEdited
      <3>5. /\ segments'[i] = right /\ segments'[i - 1] = left
            /\ \A j \in DOMAIN segments : j # i /\ j # i - 1 => segments'[j] = segments[j]
            /\ DOMAIN segments' = DOMAIN segments
        BY <2>2, <3>1, <3>2
      <3>6. frame \in Int /\ old \in Int /\ old = segments[i].start
        <4>1. segments[i].start \in Int
          BY <2>2, SegmentFrames
        <4>2. frame \in Int
          BY FramesAssumption DEF FramesAssumption
        <4> QED BY <3>1, <4>1, <4>2, OldSeam DEF AuditInv
      <3> HIDE DEF left, right, old
      <3>7. \A j \in DOMAIN segments :
               /\ segments'[j].phase = segments[j].phase /\ segments'[j].fields = segments[j].fields
               /\ j # i => segments'[j].start = segments[j].start
               /\ IF i = j \/ i = j + 1 THEN segments'[j].reviewed = TRUE
                                        ELSE segments'[j] = segments[j]
        <4> TAKE j \in DOMAIN segments
        <4>1. j \in Int /\ i \in Int
          BY <2>2
        <4>2. CASE j = i
          BY <3>3, <3>5, <4>2
        <4>3. CASE j = i - 1
          BY <3>2, <3>4, <3>5, <4>1, <4>3
        <4>4. CASE j # i /\ j # i - 1
          <5>1. ~(i = j \/ i = j + 1)
            BY <4>1, <4>4
          <5> QED BY <3>5, <4>4, <5>1
        <4> QED BY <4>2, <4>3, <4>4
      <3>8. LogsFaithfully("boundary", i, old, frame)
        <4>1. /\ {old, frame} \subseteq EventValues("boundary")
              /\ old = ValueNow("boundary", i) /\ frame = ValueNow("boundary", i)'
              /\ old # frame
          BY <3>1, <3>3, <3>5, <3>6 DEF EventValues, ValueNow
        <4>2. \A k \in EventKinds \ {"reviewed"} : \A j \in DOMAIN segments :
                 k # "boundary" \/ j # i => ValueNow(k, j)' = ValueNow(k, j)
          BY <3>7 DEF EventKinds, ValueNow
        <4>3. \A j \in DOMAIN segments :
                 IF i = j \/ i = j + 1
                 THEN segments'[j].reviewed <=> ("boundary" = "reviewed" => frame = TRUE)
                 ELSE segments'[j].reviewed = segments[j].reviewed
          BY <3>7
        <4>4. \A j \in DOMAIN segments : ~segments'[j].reviewed => segments'[j].reviewer = NoReviewer
          BY <2>3, <3>7
        <4> QED BY <4>1, <4>2, <4>3, <4>4 DEF LogsFaithfully
      <3> QED BY <3>1, <3>5, <3>8, AppendedToTheTrail DEF EventKinds
    <2>6. ASSUME NEW reviewed \in BOOLEAN, SetReviewed(i, reviewed, who)
          PROVE  AuditInv'
      <3> DEFINE t == [segments[i] EXCEPT
                          !.reviewed = reviewed,
                          !.reviewer = IF reviewed THEN who ELSE NoReviewer]
                 old == segments[i].reviewed
      <3>1. segments' = [segments EXCEPT ![i] = t] /\ Log("reviewed", i, old, reviewed)
        BY <2>2, <2>6 DEF SetReviewed, Segment
      <3>2. /\ t.phase = segments[i].phase /\ t.fields = segments[i].fields
            /\ t.start = segments[i].start /\ t.reviewed = reviewed
            /\ ~reviewed => t.reviewer = NoReviewer
        BY <2>2 DEF Segment
      <3>3. old \in BOOLEAN
        BY <2>2 DEF Segment
      <3>4. segments'[i] = t /\ \A j \in DOMAIN segments : j # i => segments'[j] = segments[j]
        BY <3>1
      <3> HIDE DEF t
      <3>5. LogsFaithfully("reviewed", i, old, reviewed)
        BY <2>3, <3>2, <3>3, <3>4 DEF LogsFaithfully, EventValues, EventKinds, ValueNow
      <3>6. DOMAIN segments' = DOMAIN segments
        BY <3>1
      <3> HIDE DEF old
      <3> QED BY <3>1, <3>5, <3>6, AppendedToTheTrail DEF EventKinds
    <2>7. ASSUME NEW fields \in FieldValues, SetLabels(i, fields, who)
          PROVE  AuditInv'
      <3> DEFINE t == [segments[i] EXCEPT
                          !.fields = fields, !.reviewed = TRUE, !.reviewer = who]
                 old == segments[i].fields
      <3>1. /\ segments' = [segments EXCEPT ![i] = t] /\ Log("labels", i, old, fields)
            /\ old # fields
        BY <2>2, <2>7 DEF SetLabels, Segment
      <3>2. /\ t.phase = segments[i].phase /\ t.fields = fields
            /\ t.start = segments[i].start /\ t.reviewed = TRUE
        BY <2>2 DEF Segment
      <3>3. old \in FieldValues
        BY <2>2 DEF Segment
      <3>4. segments'[i] = t /\ \A j \in DOMAIN segments : j # i => segments'[j] = segments[j]
        BY <3>1
      <3> HIDE DEF t
      <3>5. LogsFaithfully("labels", i, old, fields)
        BY <2>3, <3>1, <3>2, <3>3, <3>4 DEF LogsFaithfully, EventValues, EventKinds, ValueNow
      <3>6. DOMAIN segments' = DOMAIN segments
        BY <3>1
      <3> HIDE DEF old
      <3> QED BY <3>1, <3>5, <3>6, AppendedToTheTrail DEF EventKinds
    <2> QED
      BY <2>1, <2>4, <2>5, <2>6, <2>7
  <1> QED
    BY <1>1, <1>2

\* The audit invariant holds in every state of every run.
THEOREM AuditInvariance == Spec => []AuditInv
  <1>1. Init => AuditInv
    BY PublishedUnedited
  <1>2. AuditInv /\ [Next]_vars => AuditInv'
    <2>1. AuditInv => Inv
      BY DEF AuditInv
    <2> QED
      BY <2>1, Preserved, EditsAreLogged
  <1> QED
    BY <1>1, <1>2, PTL DEF Spec

\* A nonempty set of positions has a first one ...
LEMMA FirstOf ==
    ASSUME NEW T \in SUBSET Nat, T # {}
    PROVE  Min(T) \in T /\ \A y \in T : Min(T) <= y
  <1> DEFINE R == OpToRel(<, Nat)
  <1>1. \A x, y \in Nat : <<x, y>> \in R <=> x < y
    BY DEF OpToRel
  <1>2. IsWellFoundedOn(R, Nat)
    BY NatLessThanWellFounded
  <1> HIDE DEF R
  <1>3. PICK x \in T : \A y \in T : ~(<<y, x>> \in R)
    BY <1>2, WFMin
  <1>4. \A y \in T : x <= y
    <2> TAKE y \in T
    <2>1. x \in Nat /\ y \in Nat
      OBVIOUS
    <2>2. ~(y < x)
      BY <1>1, <1>3, <2>1, Zenon
    <2> QED BY <2>1, <2>2
  <1> QED
    BY <1>4 DEF Min

\* ... and a bounded one a last one.
LEMMA LastOf ==
    ASSUME NEW n \in Nat, NEW T \in SUBSET (1 .. n), T # {}
    PROVE  Max(T) \in T /\ \A y \in T : Max(T) >= y
  <1> DEFINE D == {n - x : x \in T}
  <1>1. D \in SUBSET Nat /\ D # {}
    <2>1. \A x \in T : n - x \in Nat
      OBVIOUS
    <2>2. PICK x \in T : TRUE
      OBVIOUS
    <2> QED BY <2>1, <2>2
  <1>2. Min(D) \in D /\ \A y \in D : Min(D) <= y
    <2> HIDE DEF D
    <2> QED BY <1>1, FirstOf
  <1>3. PICK x \in T : Min(D) = n - x
    BY <1>2
  <1>4. \A y \in T : x >= y
    <2> TAKE y \in T
    <2>1. n - y \in D /\ x \in Int /\ y \in Int
      OBVIOUS
    <2>2. n - x <= n - y
      BY <1>2, <1>3, <2>1
    <2> QED BY <2>1, <2>2
  <1> QED
    BY <1>4 DEF Max

\* The variables keep their types: segments are never added or lost, and every
\* event names a segment of the run and values of the kind of field it edits.
THEOREM TypesKept == Spec => []TypeOK
  <1>1. AuditInv => TypeOK
    <2> SUFFICES ASSUME AuditInv, NEW e \in DOMAIN history
                 PROVE  /\ history[e].kind \in {"relabel", "boundary", "reviewed", "labels"}
                        /\ history[e].seg \in DOMAIN segments
                        /\ {history[e].old, history[e].new} \subseteq EventValues(history[e].kind)
      BY DEF TypeOK, AuditInv, Inv, Typed
    <2>1. history[e] \in Event
      BY DEF AuditInv, Logged
    <2> QED
      BY <2>1 DEF AuditInv, Logged, Event, EventKinds
  <1> QED
    BY <1>1, AuditInvariance, PTL

\* However edits of the four kinds follow one another, the events of a field form
\* a chain that ends in the value it has now, and only a relabel logs no change.
THEOREM AuditTrailIsAChain == Spec => []AuditIsChain
  <1>1. ASSUME AuditInv PROVE AuditIsChain
    <2> SUFFICES ASSUME NEW e \in DOMAIN history, history[e].kind # "reviewed"
                 PROVE  LET later == {f \in DOMAIN history :
                                        /\ f > e
                                        /\ history[f].kind = history[e].kind
                                        /\ history[f].seg = history[e].seg}
                        IN  /\ IF later = {} THEN history[e].new = ValueNow(history[e].kind, history[e].seg)
                               ELSE history[Min(later)].old = history[e].new
                            /\ history[e].kind # "relabel" => history[e].old # history[e].new
      BY Zenon DEF AuditIsChain
    <2> DEFINE later == {f \in DOMAIN history :
                           /\ f > e
                           /\ history[f].kind = history[e].kind
                           /\ history[f].seg = history[e].seg}
    <2>1. /\ (\A f \in DOMAIN history : f > e => ~Same(e, f)) =>
                history[e].new = ValueNow(history[e].kind, history[e].seg)
          /\ \A f \in DOMAIN history :
                f > e /\ Same(e, f) /\ (\A g \in DOMAIN history : e < g /\ g < f => ~Same(e, g)) =>
                   history[f].old = history[e].new
          /\ history[e].kind # "relabel" => history[e].old # history[e].new
      BY <1>1, Zenon DEF AuditInv, Chain
    <2>2. later \in SUBSET Nat /\ DOMAIN history \subseteq Nat
      BY <1>1 DEF AuditInv, Logged
    <2>3. \A f \in DOMAIN history : f \in later <=> (f > e /\ Same(e, f))
      BY DEF Same
    <2>4. later \subseteq DOMAIN history
      OBVIOUS
    <2> HIDE DEF later
    <2>5. ASSUME later # {} PROVE history[Min(later)].old = history[e].new
      <3>1. Min(later) \in later /\ \A y \in later : Min(later) <= y
        BY <2>2, <2>5, FirstOf
      <3>2. PICK f \in DOMAIN history : f = Min(later)
        BY <2>4, <3>1
      <3>3. \A g \in DOMAIN history : e < g /\ g < f => ~Same(e, g)
        <4> SUFFICES ASSUME NEW g \in DOMAIN history, e < g, g < f, Same(e, g)
                     PROVE  FALSE
          OBVIOUS
        <4>1. g \in later
          BY <2>2, <2>3
        <4> QED BY <2>2, <3>1, <3>2, <4>1
      <3> QED BY <2>1, <2>3, <3>1, <3>2, <3>3
    <2>6. ASSUME later = {} PROVE history[e].new = ValueNow(history[e].kind, history[e].seg)
      BY <2>1, <2>3, <2>6
    <2> QED
      BY <2>1, <2>5, <2>6 DEF later
  <1> QED
    BY <1>1, AuditInvariance, PTL

\* A segment is reviewed exactly if the last event that touched it says so, a move
\* of its right boundary included, which the trail files under its neighbour.
THEOREM ReviewsFollowTheTrail == Spec => []ReviewFollowsAudit
  <1>1. ASSUME AuditInv PROVE ReviewFollowsAudit
    <2> SUFFICES ASSUME NEW i \in DOMAIN segments
                 PROVE  LET touching == {e \in DOMAIN history : Touches(e, i)}
                            last == history[Max(touching)]
                        IN  /\ segments[i].reviewed <=>
                                  touching # {} /\ (last.kind = "reviewed" => last.new = TRUE)
                            /\ ~segments[i].reviewed => segments[i].reviewer = NoReviewer
      BY Zenon DEF ReviewFollowsAudit
    <2> DEFINE touching == {e \in DOMAIN history : Touches(e, i)}
    <2>1. /\ (\A e \in DOMAIN history : ~Touches(e, i)) => ~segments[i].reviewed
          /\ \A e \in DOMAIN history :
                Touches(e, i) /\ (\A f \in DOMAIN history : f > e => ~Touches(f, i)) =>
                   (segments[i].reviewed <=>
                       (history[e].kind = "reviewed" => history[e].new = TRUE))
          /\ ~segments[i].reviewed => segments[i].reviewer = NoReviewer
      BY <1>1, Zenon DEF AuditInv, Reviews
    <2>2. Len(history) \in Nat /\ DOMAIN history = 1 .. Len(history)
      BY <1>1 DEF AuditInv, Logged
    <2>3. touching \in SUBSET (1 .. Len(history))
      BY <2>2
    <2>4. \A e \in DOMAIN history : e \in touching <=> Touches(e, i)
      OBVIOUS
    <2> HIDE DEF touching
    <2>5. ASSUME touching # {}
          PROVE  segments[i].reviewed <=>
                    (history[Max(touching)].kind = "reviewed" => history[Max(touching)].new = TRUE)
      <3>1. Max(touching) \in touching /\ \A y \in touching : Max(touching) >= y
        BY <2>2, <2>3, <2>5, LastOf
      <3>2. PICK e \in DOMAIN history : e = Max(touching)
        BY <2>2, <2>3, <3>1
      <3>3. \A f \in DOMAIN history : f > e => ~Touches(f, i)
        <4> SUFFICES ASSUME NEW f \in DOMAIN history, f > e, Touches(f, i)
                     PROVE  FALSE
          OBVIOUS
        <4>1. e >= f
          BY <2>4, <3>1, <3>2
        <4> QED BY <2>2, <4>1
      <3> QED BY <2>1, <2>4, <3>1, <3>2, <3>3
    <2>6. ASSUME touching = {} PROVE ~segments[i].reviewed
      BY <2>1, <2>4, <2>6
    <2> QED
      BY <2>1, <2>5, <2>6 DEF touching
  <1> QED
    BY <1>1, AuditInvariance, PTL
=============================================================================
