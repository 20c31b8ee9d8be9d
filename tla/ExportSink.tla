----------------------------- MODULE ExportSink -----------------------------
(***************************************************************************)
(* What an export makes of the annotations it has loaded: the checks of    *)
(* exports/canonical.py and the files exports/sink_lerobot_v3.py writes.   *)
(* Poses, joint values and the other columns that are carried along are    *)
(* left out.                                                               *)
(***************************************************************************)
EXTENDS Integers, Sequences, FiniteSets, SequencesExt

CONSTANTS
    Episodes,       \* episode indices of the dataset
    NumFrames,      \* rows of each episode's parquet file
    Unlabeled,      \* the phase "unlabeled"
    Source          \* what the dataset is: [aggregate, pose, action]

ASSUME SinkAssumption ==
    /\ Episodes \subseteq Nat /\ IsFiniteSet(Episodes)
    /\ NumFrames \in Nat \ {0}
    /\ Source \in [aggregate : BOOLEAN, pose : BOOLEAN, action : BOOLEAN]

Frames == 0 .. NumFrames - 1

\* ExportProfile: its gates, whether it asks for poses and for the raw action, and
\* whether its list columns have bare names.
Gates == [reviewed : BOOLEAN, intact : BOOLEAN, labeled : BOOLEAN]
Profile == [gates : Gates, pose : BOOLEAN, raw : BOOLEAN, bare : BOOLEAN]

\* _apply_cli_gate_overrides
WithOverrides(profile, requireReviewed, allowDegraded, allowUnlabeled) ==
    [profile EXCEPT !.gates =
        [reviewed |-> @.reviewed \/ requireReviewed,
         intact |-> @.intact /\ ~allowDegraded,
         labeled |-> @.labeled /\ ~allowUnlabeled]]

\* Closed at both ends, as SubtaskSegment is.
Covering(segs, f) == {i \in DOMAIN segs : segs[i].first <= f /\ f <= segs[i].last}

\* _apply_gates
PassesGates(gates, degraded, segs) ==
    /\ gates.reviewed => \A i \in DOMAIN segs : segs[i].reviewed
    /\ gates.intact => ~degraded
    /\ gates.labeled => \A i \in DOMAIN segs : segs[i].phase # Unlabeled

\* _normalize_ee_pose, _resolve_raw_action: what the profile asks for is there.
PoseAvailable(profile) == profile.pose => Source.pose
ActionAvailable(profile) == profile.raw => Source.action

\* build_canonical_episode does not raise.
Canonical(profile, degraded, segs) ==
    /\ ~Source.aggregate
    /\ segs # << >>
    /\ Last(segs).last = NumFrames - 1
    /\ PassesGates(profile.gates, degraded, segs)
    /\ PoseAvailable(profile)
    /\ ActionAvailable(profile)

HasGaps(eps) ==
    \E e \in DOMAIN eps : \E f \in Frames : Covering(eps[e].segs, f) = {}

PhasesInOrder(eps) ==
    LET order == SetToSortSeq(DOMAIN eps, <)
    IN  FlattenSeq([k \in DOMAIN order |->
            [i \in DOMAIN eps[order[k]].segs |-> eps[order[k]].segs[i].phase]])

\* compute_subtasks_registry: the place in the sequence, less one, is the index.
Registry(eps) ==
    LET phases == FoldLeft(LAMBDA reg, p : IF Contains(reg, p) THEN reg ELSE Append(reg, p),
                           << >>, PhasesInOrder(eps))
    IN  IF HasGaps(eps) /\ ~Contains(phases, Unlabeled)
        THEN Append(phases, Unlabeled) ELSE phases

NoIndex == -1
IndexIn(reg, phase) ==
    IF Contains(reg, phase) THEN (CHOOSE k \in 1 .. Len(reg) : reg[k] = phase) - 1 ELSE NoIndex

\* _write_data_parquet: the column subtask_index of one episode.
Column(segs, reg) ==
    [f \in Frames |->
        LET hits == Covering(segs, f)
        IN  IndexIn(reg, IF hits = {} THEN Unlabeled ELSE segs[Min(hits)].phase)]

\* _write_episodes_metadata: one row for every episode of the source.
ListColumn(eps) ==
    [e \in Episodes |-> IF e \in DOMAIN eps THEN eps[e].segs ELSE << >>]

\* What a reader of the sidecar takes for the label of a frame.
LabelAt(segs, f) ==
    LET hits == Covering(segs, f) IN IF hits = {} THEN Unlabeled ELSE segs[Min(hits)].phase
=============================================================================
