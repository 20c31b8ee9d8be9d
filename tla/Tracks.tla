------------------------------- MODULE Tracks -------------------------------
(***************************************************************************)
(* What object_tracker makes of the sightings of one episode: the state    *)
(* machine that turns them into tracks (propagator.py) and the frames at   *)
(* which a track then has a signal (signals.py).  A box is the place it is *)
(* at, two boxes overlap enough when the place is the same; a low score    *)
(* and a lost track differ only in the reason they record, which is left   *)
(* out.                                                                    *)
(***************************************************************************)
EXTENDS Integers, Sequences, FiniteSets, SequencesExt

CONSTANTS
    NumFrames,      \* rows of the episode
    Stride,         \* effective_stride
    MaxGap,         \* effective_max_gap_frames
    Quarters,       \* grounding_retry_fractions, in quarters of the episode
    Places,         \* where a box may be
    Slug            \* what slugify makes of each prompt

ASSUME TracksAssumption ==
    /\ NumFrames \in Nat \ {0} /\ Stride \in Nat \ {0} /\ MaxGap \in Nat
    /\ Quarters \in Seq(0 .. 4)

Frames == 0 .. NumFrames - 1

\* _build_frame_iterator
ExpectedFrames == {f \in Frames : f % Stride = 0 \/ f = NumFrames - 1}

\* The frame of a fraction, as _compute_retry_frame_indices clips it.
RetryFrame(k) ==
    LET f == (Quarters[k] * NumFrames) \div 4
    IN  IF f < NumFrames THEN f ELSE NumFrames - 1

\* The frames from h to the end, and then back from b to the beginning.
Course(h, b) ==
    [k \in 1 .. NumFrames - h + b + 1 |->
        IF k <= NumFrames - h THEN h + k - 1 ELSE b - (k - (NumFrames - h)) + 1]

\* The frames SAM3 goes through from the anchor: to the end and, when the
\* anchor is not the first frame, back to the beginning; it may start the way
\* back with the anchor or with the frame before it.
SweepOrder(anchor, again) ==
    Course(anchor, IF anchor > 0 /\ again THEN anchor ELSE anchor - 1)

-----------------------------------------------------------------------------
(* _PerPromptState.  The last of "tracks" is current_track, and its last  *)
(* sample is last_sample; "pending" is pending_gap_reasons.               *)

NoTracks == [tracks |-> << >>, pending |-> {}]

NewTrack(key, index) ==
    [key |-> key, index |-> index, samples |-> << >>, gaps |-> {}]

\* _consolidate_gap
Consolidated(frames) ==
    CHOOSE gap \in frames \X frames : \A f \in frames : gap[1] <= f /\ f <= gap[2]

FlushPending(track, pending) ==
    IF pending = {} THEN track
    ELSE [track EXCEPT !.gaps = @ \cup {Consolidated(pending)}]

AddSample(track, frame, place) ==
    [track EXCEPT !.samples = Append(@, [frame |-> frame, place |-> place])]

\* The object is found again elsewhere after more than max_gap_frames.
IsAnother(track, pending, frame, place) ==
    /\ pending # {}
    /\ frame - Last(track.samples).frame > MaxGap
    /\ Last(track.samples).place # place

GoodSample(st, key, frame, place) ==
    IF st.tracks = << >>
    THEN [st EXCEPT !.tracks = <<AddSample(NewTrack(key, 0), frame, place)>>]
    ELSE LET n == Len(st.tracks)
             current == st.tracks[n]
             flushed == FlushPending(current, st.pending)
             opened == AddSample(NewTrack(key, current.index + 1), frame, place)
         IN  [tracks  |-> IF IsAnother(current, st.pending, frame, place)
                          THEN Append([st.tracks EXCEPT ![n] = flushed], opened)
                          ELSE [st.tracks EXCEPT ![n] = AddSample(flushed, frame, place)],
              pending |-> {}]

BadFrame(st, frame) == [st EXCEPT !.pending = @ \cup {frame}]

\* handle_good_sample or handle_bad_frame, as the sighting asks.
Observe(st, key, frame, sighting) ==
    IF sighting \in Places THEN GoodSample(st, key, frame, sighting) ELSE BadFrame(st, frame)

\* finalize
FinalTracks(st, key) ==
    LET opened == IF st.tracks = << >> THEN <<NewTrack(key, 0)>> ELSE st.tracks
        n == Len(opened)
        last == FlushPending(opened[n], st.pending)
        whole == IF last.samples = << >> /\ last.gaps = {}
                 THEN [last EXCEPT !.gaps = {<<0, NumFrames - 1>>}] ELSE last
    IN  [opened EXCEPT ![n] = whole]

-----------------------------------------------------------------------------
(* Primary tracks and signals.                                            *)

TrackId(track) == <<track.key[1], Slug[track.key[2]], track.index>>

\* The first prompt of the role, in the order of the plan, that was found.
IsPrimaryKey(wanted, found, key) ==
    LET first == SelectInSeq(wanted, LAMBDA k : k[1] = key[1] /\ k \in found)
    IN  first > 0 /\ wanted[first] = key

\* Without asking for the first track of the prompt.
AssignPrimaryToAll(tracks, wanted, found) ==
    {t \in tracks : IsPrimaryKey(wanted, found, t.key)}

\* _assign_primary
AssignPrimary(tracks, wanted, found) ==
    {t \in tracks : IsPrimaryKey(wanted, found, t.key) /\ t.index = 0}

SampledFrames(track) == {track.samples[k].frame : k \in DOMAIN track.samples}
InGap(track, f) == \E gap \in track.gaps : gap[1] <= f /\ f <= gap[2]

\* With the end of a gap left out of it.
CenterFramesGapOpen(track) ==
    IF track.samples = << >> THEN {}
    ELSE {f \in track.samples[1].frame .. Last(track.samples).frame :
             \A gap \in track.gaps : f < gap[1] \/ gap[2] <= f}

\* The frames where _interpolate_centers leaves a number.
CenterFrames(track) ==
    IF track.samples = << >> THEN {}
    ELSE {f \in track.samples[1].frame .. Last(track.samples).frame : ~InGap(track, f)}

\* object_center: of two tracks with one id the later is kept, in the order in
\* which the prompts are wanted.
CentersOf(tracks, wanted, id) ==
    LET same == {t \in tracks : TrackId(t) = id}
        place(t) == SelectInSeq(wanted, LAMBDA key : key = t.key)
    IN  CenterFrames(CHOOSE t \in same : \A u \in same : place(u) <= place(t))

\* The frames where _compute_speed leaves a number: at the ends both frames of
\* the one-sided difference are needed, between them one neighbour is enough.
SpeedFrames(centers) ==
    {f \in centers : LET near == {f - 1, f + 1} \cap Frames IN near \cap centers # {}}

\* gripper_object_distance
DistanceFrames(centers, gripper) == centers \cap gripper
=============================================================================
