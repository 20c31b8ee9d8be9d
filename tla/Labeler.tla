------------------------------ MODULE Labeler -------------------------------
(***************************************************************************)
(* Labelling of the segments by the VLM, label_run and                     *)
(* apply_phase3_labeling of vlm_labeler.py: one step per call of the       *)
(* model.  The two functions differ in the provenance they write, which is *)
(* left out, and in the factory: the Phase 3 pipeline hands over a model   *)
(* that is loaded already.  What the model answers and what a call of it   *)
(* raises are external: anything.                                          *)
(***************************************************************************)
EXTENDS Segments

CONSTANTS
    Labelset,           \* the ids of labels.yaml in declaration order
    Confidences,        \* what the model answers as vlm_confidence
    MaxRetries,         \* vlm.max_retries
    FaultThreshold      \* vlm.runtime_failure_threshold

ASSUME RetriesAssumption == MaxRetries \in Nat \ {0} /\ FaultThreshold \in Nat \ {0}
ASSUME ConfidencesAssumption == Confidences \subseteq Rational
ASSUME LabelsAssumption == Len(Labelset) > 0 /\ ToSet(Labelset) \cap Reserved = {}

VARIABLES
    baseline,   \* the deep copy of the segments the labeler was given
    idx,        \* the segment it is at
    attempt,    \* the attempt at it
    faults,     \* consecutive_runtime_failures
    degraded,   \* degrade_reason of the outcome, or Nothing
    labelled    \* what the labeler returned

labelerVars == <<baseline, idx, attempt, faults, degraded, labelled>>

Nothing == "none"

------------------------------------------------------------------------------
(* One call of the model: label_segment. *)

\* What the model may answer, fences stripped: no JSON, JSON of another shape than
\* a response, or a response with any label and confidence.
Unasked == "unasked"
Responses == [form : {"response"}, phase : ToSet(Labelset) \cup Reserved \cup {Unasked},
              confidence : Confidences]
Texts == [form : {"text", "json"}] \cup Responses

parse_and_validate(raw) ==
    IF raw.form = "text" THEN "json_parse_error"
    ELSE IF raw.form = "json" THEN "schema_violation"
    ELSE IF raw.phase \notin ToSet(Labelset) \cup {"unknown"} THEN "invalid_label"
    ELSE IF Less(raw.confidence, Zero) \/ Less(One, raw.confidence)
         THEN "out_of_range_confidence"
    ELSE "ok"

Accepted == {raw \in Texts : parse_and_validate(raw) = "ok"}
Refused == Texts \ Accepted

\* What a call may raise: its class and what its message speaks of.
Exceptions == [class : {"OutOfMemoryError", "TimeoutError", "ConnectionError", "RuntimeError",
                        "Exception"},
               speaks_of : {"connection", "device", Nothing}]

\* The order decides: out of memory and a timeout are that whatever they speak of.
raise_classified(e) ==
    IF e.class = "OutOfMemoryError" THEN "cuda_oom"
    ELSE IF e.class = "TimeoutError" THEN "inference_timeout"
    ELSE IF e.class = "ConnectionError" \/ e.speaks_of = "connection" THEN "model_unreachable"
    ELSE IF e.class = "RuntimeError" /\ e.speaks_of = "device" THEN "device_unavailable"
    ELSE "propagates"

Faults == {raise_classified(e) : e \in Exceptions} \ {"propagates"}

------------------------------------------------------------------------------
(* The loop over segments and attempts. *)

LabelerInit ==
    /\ baseline = <<>> /\ labelled = <<>>
    /\ idx = 1 /\ attempt = 1 /\ faults = 0
    /\ degraded = Nothing

\* label_run returns: the segments labelled, or the baseline and a reason.
Return(next, segs, reason) ==
    /\ stage' = next
    /\ segments' = segs
    /\ labelled' = segs
    /\ degraded' = reason

\* Mutant: a degraded run keeps the labels it has.
DegradePartly(next, reason) ==
    /\ Return(next, segments, reason)
    /\ UNCHANGED <<baseline, idx, attempt, faults>>

Degrade(next, reason) ==
    /\ Return(next, baseline, reason)
    /\ UNCHANGED <<baseline, idx, attempt, faults>>

\* labeler_factory raises; only the factory of Phase 2 loads anything.
FactoryFails(next) ==
    /\ idx = 1 /\ attempt = 1 /\ faults = 0
    /\ Degrade(next, "vlm_init_failed")

\* _merge_response
Respond(seg, phase, confidence) == [seg EXCEPT !.phase = phase, !.vlm = confidence]

\* A call that answers with something parse_and_validate accepts.
Answer ==
    /\ idx <= Len(segments)
    /\ \E raw \in Accepted :
           segments' = [segments EXCEPT ![idx] = Respond(@, raw.phase, raw.confidence)]
    /\ faults' = 0
    /\ idx' = idx + 1 /\ attempt' = 1
    /\ UNCHANGED <<stage, baseline, degraded, labelled>>

\* Mutant: after the last attempt it begins again.
RetryForever ==
    /\ attempt' = (attempt % MaxRetries) + 1
    /\ UNCHANGED <<segments, idx>>
    /\ UNCHANGED <<stage, baseline, degraded, labelled>>

\* The next attempt, or after the last one the fallback and the next segment.
RetryOrFallBack ==
    /\ IF attempt < MaxRetries
       THEN attempt' = attempt + 1 /\ UNCHANGED <<segments, idx>>
       ELSE /\ segments' = [segments EXCEPT ![idx] = Respond(@, "unknown", Zero)]
            /\ attempt' = 1 /\ idx' = idx + 1
    /\ UNCHANGED <<stage, baseline, degraded, labelled>>

\* A call that answers with something parse_and_validate refuses: LabelerError.
\* It leaves the count of runtime failures alone.
Reject ==
    /\ idx <= Len(segments)
    /\ Refused # {}
    /\ RetryOrFallBack
    /\ UNCHANGED faults

\* The first call of the run finds no model behind the labeler.
NeverReached(reason) ==
    idx = 1 /\ attempt = 1 /\ reason \in {"model_unreachable", "device_unavailable"}

\* A call that fails: LabelerRuntimeError, and whether it ends the run.
Fault(next, reason) ==
    /\ idx <= Len(segments)
    /\ \/ /\ NeverReached(reason)
          /\ Degrade(next, "vlm_unreachable")
       \/ /\ ~NeverReached(reason)
          /\ faults + 1 >= FaultThreshold
          /\ Degrade(next, "vlm_runtime_failed")
       \/ /\ ~NeverReached(reason)
          /\ faults + 1 < FaultThreshold
          /\ RetryOrFallBack
          /\ faults' = faults + 1

\* An exception that is none of the classified ones, a device assertion or a fault
\* of the code, leaves the labeler and ends the process.
Propagate ==
    /\ idx <= Len(segments)
    /\ \E e \in Exceptions : raise_classified(e) = "propagates"
    /\ stage' = "raised"
    /\ UNCHANGED <<segments, labelerVars>>

LabelingEnds(next) ==
    /\ idx > Len(segments)
    /\ Return(next, segments, Nothing)
    /\ UNCHANGED <<baseline, idx, attempt, faults>>
=============================================================================
