------------------------------ MODULE Tracker -------------------------------
(***************************************************************************)
(* Object tracking of one episode after another, as annotate_episode_phase3 *)
(* does it: the planner names the objects, SAM3 finds them on one frame    *)
(* and follows them through the video.  SAM3 and the planner's model are   *)
(* external: they may find anything, nothing, or raise.  A batch shares    *)
(* one SAM3 runtime between its episodes.                                  *)
(***************************************************************************)
EXTENDS Tracks

CONSTANTS
    Plans,          \* what the planner may answer: prompts per role
    MaxTries,       \* planner_max_retries
    Shared          \* whether the runtime is preloaded and shared by a batch

ASSUME TrackerAssumption == MaxTries \in Nat /\ Shared \subseteq BOOLEAN
ASSUME PlansAssumption ==
    LET lists == Seq(DOMAIN Slug)
    IN  Plans \subseteq [object : lists, target : lists, tool : lists]

Sightings == Places \cup {"low", "lost", "ended"}

VARIABLES
    shared,     \* the runtime is preloaded_sam3_runtime
    phase,      \* where annotate_episode_phase3 is
    tries,      \* answers of the planner turned down
    wanted,     \* all_prompts_with_role of the plan
    attempts,   \* grounding_attempts; the last is under way while grounding
    found,      \* initial_detections of the frame at hand: keys
    asked,      \* prompts of "wanted" already put to the frame
    sessions,   \* _open_sessions: SAM3 holds a video tensor for each
    streams,    \* prompt_streams of propagate
    todo,       \* frames the streams have still to give
    states,     \* per-prompt state machines, by key
    tracks,     \* what Propagator.run returned; a set, their order is that of their keys
    outcome     \* how the episode ended

vars == <<shared, phase, tries, wanted, attempts, found, asked, sessions, streams,
          todo, states, tracks, outcome>>
work == <<wanted, attempts, found, asked, streams, todo, states, tracks>>

At(p) == phase = p
Goto(p) == phase' = p

AllPrompts(plan) ==
    LET keys(role) == [k \in DOMAIN plan[role] |-> <<role, plan[role][k]>>]
    IN  keys("object") \o keys("target") \o keys("tool")
Grounded == SelectSeq(wanted, LAMBDA key : key \in found)
CountObjects == Cardinality({key \in found : key[1] = "object"})
Anchor == Last(attempts).frame
Untried == {k \in DOMAIN Quarters : \A i \in DOMAIN attempts : attempts[i].frame # RetryFrame(k)}
FreshSession == CHOOSE sid \in 1 .. Cardinality(sessions) + 1 : sid \notin sessions

Cleared ==
    /\ wanted' = << >> /\ attempts' = << >> /\ found' = {} /\ asked' = 0
    /\ streams' = << >> /\ todo' = << >> /\ states' = << >> /\ tracks' = {}

Init ==
    /\ shared \in Shared /\ phase = "idle" /\ tries = 0
    /\ wanted = << >> /\ attempts = << >> /\ found = {} /\ asked = 0
    /\ sessions = {} /\ streams = << >> /\ todo = << >> /\ states = << >>
    /\ tracks = {} /\ outcome = "none"

Begin ==
    /\ At("idle") /\ Goto("planning")
    /\ tries' = 0 /\ outcome' = "none"
    /\ UNCHANGED <<shared, sessions, work>>

-----------------------------------------------------------------------------
(* Step A: extract_entities, then the runtime.                            *)

\* The run is made without objects: no tracks.json, the reason in the manifest.
Degrade(reason) == Goto("releasing") /\ outcome' = reason
DegradeBeforeSam3(reason) == Goto("idle") /\ outcome' = reason

Plan ==
    /\ At("planning") /\ tries < MaxTries
    /\ \E plan \in Plans :
          IF plan.object = << >>
          THEN DegradeBeforeSam3("gemma_no_object_prompts") /\ UNCHANGED wanted
          ELSE Goto("loading") /\ wanted' = AllPrompts(plan) /\ UNCHANGED outcome
    /\ tries' = 0
    /\ UNCHANGED <<shared, attempts, found, asked, sessions, streams, todo, states, tracks>>

RejectPlan ==
    /\ At("planning") /\ tries < MaxTries
    /\ tries' = tries + 1
    /\ UNCHANGED <<shared, phase, outcome, sessions, work>>

GiveUpPlanning ==
    /\ At("planning") /\ tries = MaxTries
    /\ DegradeBeforeSam3("gemma_no_object_prompts") /\ tries' = 0
    /\ UNCHANGED <<shared, sessions, work>>

\* A fault other than a timeout is not retried.
PlannerFails ==
    /\ At("planning") /\ tries < MaxTries
    /\ Goto("idle") /\ outcome' = "failed" /\ tries' = 0
    /\ UNCHANGED <<shared, sessions, work>>

LoadSam3 ==
    /\ At("loading")
    /\ Goto("grounding")
    /\ attempts' = <<[frame |-> 0, adopted |-> FALSE]>>
    /\ UNCHANGED <<shared, tries, outcome, wanted, found, asked, sessions, streams, todo, states, tracks>>

Sam3InitFails ==
    /\ At("loading") /\ ~shared
    /\ DegradeBeforeSam3("sam3_init_failed")
    /\ Cleared /\ UNCHANGED <<shared, tries, sessions>>

-----------------------------------------------------------------------------
(* Step B: ground_initial_detections_with_retry.                          *)

\* An exception: propagate closes the sessions whose stream it had opened.
Raise ==
    /\ Goto("releasing") /\ outcome' = "failed"
    /\ sessions' = sessions \ {streams[i].sid : i \in DOMAIN streams}

\* ground_on_frame: the session is closed in its "finally".
GroundPrompt ==
    /\ At("grounding") /\ asked < Len(wanted)
    /\ asked' = asked + 1
    /\ found' \in {found, found \cup {wanted[asked + 1]}}
    /\ UNCHANGED <<shared, phase, tries, outcome, wanted, attempts, sessions, streams, todo, states, tracks>>

GroundingFails ==
    /\ At("grounding") /\ asked < Len(wanted)
    /\ Raise
    /\ UNCHANGED <<shared, tries, work>>

Adopt ==
    /\ At("grounding") /\ asked = Len(wanted) /\ CountObjects > 0
    /\ Goto("opening")
    /\ attempts' = [attempts EXCEPT ![Len(attempts)].adopted = TRUE]
    /\ UNCHANGED <<shared, tries, outcome, wanted, found, asked, sessions, streams, todo, states, tracks>>

\* The frame of the first fraction that has not been tried is read; one that
\* cannot be is skipped, and nothing is asked of it.
Retry ==
    /\ At("grounding") /\ CountObjects = 0
    /\ asked = Len(wanted) /\ Untried # {}
    /\ attempts' = Append(attempts, [frame |-> RetryFrame(Min(Untried)), adopted |-> FALSE])
    /\ asked' \in {0, Len(wanted)}
    /\ found' = {}
    /\ UNCHANGED <<shared, phase, tries, outcome, wanted, sessions, streams, todo, states, tracks>>

NothingFound ==
    /\ At("grounding") /\ asked = Len(wanted) /\ CountObjects = 0
    /\ Untried = {}
    /\ Degrade("sam3_no_initial_detection")
    /\ UNCHANGED <<shared, tries, sessions, work>>

-----------------------------------------------------------------------------
(* Step C: propagate and Propagator.run.                                  *)

OpenSession ==
    /\ At("opening") /\ Len(streams) < Len(Grounded)
    /\ LET sid == FreshSession
       IN  /\ sessions' = sessions \cup {sid}
           /\ streams' = Append(streams, [key |-> Grounded[Len(streams) + 1], sid |-> sid, live |-> TRUE])
    /\ UNCHANGED <<shared, phase, tries, outcome, wanted, attempts, found, asked, todo, states, tracks>>

StartSessionFails ==
    /\ At("opening") /\ Len(streams) < Len(Grounded)
    /\ Raise
    /\ UNCHANGED <<shared, tries, work>>

\* The session is listed, and its stream is not among prompt_streams yet.
AddPromptFails ==
    /\ At("opening") /\ Len(streams) < Len(Grounded)
    /\ Goto("releasing") /\ outcome' = "failed"
    /\ sessions' = (sessions \ {streams[i].sid : i \in DOMAIN streams}) \cup {FreshSession}
    /\ UNCHANGED <<shared, tries, work>>

StartStreams ==
    /\ At("opening") /\ Len(streams) = Len(Grounded)
    /\ Goto("streaming")
    /\ \E again \in BOOLEAN : todo' = SweepOrder(Anchor, again)
    /\ states' = [key \in found |-> NoTracks]
    /\ UNCHANGED <<shared, tries, outcome, wanted, attempts, found, asked, sessions, streams, tracks>>

\* A stream that has ended stays so; detections are kept by prompt, so of two
\* streams of one prompt the later speaks for both.
MaySee(i, sighting) == streams[i].live \/ sighting = "ended"
SpeaksFor(key) ==
    SelectLastInSeq(streams, LAMBDA s : s.key[2] = key[2])

\* One round of _merge_streams, and what Propagator.run makes of it.
Round ==
    /\ At("streaming") /\ todo # << >>
    /\ \E seen \in [DOMAIN streams -> Sightings] :
          /\ \A i \in DOMAIN streams : MaySee(i, seen[i])
          /\ \E i \in DOMAIN streams : seen[i] # "ended"
          /\ streams' = [i \in DOMAIN streams |-> [streams[i] EXCEPT !.live = seen[i] # "ended"]]
          /\ states' = IF Head(todo) \in ExpectedFrames
                       THEN [key \in found |->
                                Observe(states[key], key, Head(todo), seen[SpeaksFor(key)])]
                       ELSE states
    /\ todo' = Tail(todo)
    /\ UNCHANGED <<shared, phase, tries, outcome, wanted, attempts, found, asked, sessions, tracks>>

StreamFails ==
    /\ At("streaming") /\ todo # << >>
    /\ Raise
    /\ UNCHANGED <<shared, tries, work>>

\* Every stream is at its end: generator and state machines are finished.
Finish ==
    /\ At("streaming")
    /\ Goto("releasing")
    /\ sessions' = sessions \ {streams[i].sid : i \in DOMAIN streams}
    /\ tracks' = UNION {Range(FinalTracks(states[key], key)) : key \in found}
    /\ outcome' = "tracked"
    /\ streams' = << >> /\ todo' = << >> /\ states' = << >>
    /\ UNCHANGED <<shared, tries, wanted, attempts, found, asked>>

\* A shared runtime left as it is.
ReleaseOwnOnly ==
    /\ At("releasing")
    /\ Goto("idle")
    /\ sessions' = IF shared THEN sessions ELSE {}
    /\ Cleared
    /\ UNCHANGED <<shared, tries, outcome>>

\* The "finally" of annotate_episode_phase3: close(), or _close_all_sessions()
\* on a runtime that the next episode will use.
Release ==
    /\ At("releasing")
    /\ Goto("idle")
    /\ sessions' = {}
    /\ Cleared
    /\ UNCHANGED <<shared, tries, outcome>>

Next ==
    \/ Begin \/ Plan \/ RejectPlan \/ GiveUpPlanning \/ PlannerFails
    \/ LoadSam3 \/ Sam3InitFails
    \/ GroundPrompt \/ GroundingFails \/ Adopt \/ Retry \/ NothingFound
    \/ OpenSession \/ StartSessionFails \/ AddPromptFails
    \/ StartStreams \/ Round \/ StreamFails \/ Finish \/ Release

Spec == Init /\ [][Next]_vars

-----------------------------------------------------------------------------
(* Properties.                                                            *)

\* The runtime holds a session, and with it a video tensor, only for a stream
\* that is being followed: whatever was raised, and wherever, nothing is left
\* behind for the next episode of the batch.
NoStraySession ==
    ~At("releasing") => sessions = {streams[i].sid : i \in DOMAIN streams}

Tracked == At("releasing") /\ outcome = "tracked"
TracksOf(key) == {t \in tracks : t.key = key}
Gripper ==
    LET tool == {t \in AssignPrimary(tracks, wanted, found) : t.key[1] = "tool"}
    IN  UNION {CentersOf(tracks, wanted, TrackId(t)) : t \in tool}

\* Where the object was lost there is no signal: an expected frame at which no
\* good sample was taken has neither a center nor a speed nor a distance, on no
\* track of the prompt, however the losses, splits and sweeps follow each other.
LostFramesAreMasked ==
    Tracked => \A key \in found : \A t \in TracksOf(key) :
        LET centers == CentersOf(tracks, wanted, TrackId(t))
            lost == ExpectedFrames \ UNION {SampledFrames(u) : u \in TracksOf(key)}
        IN  lost \cap (centers \cup SpeedFrames(centers) \cup DistanceFrames(centers, Gripper)) = {}

\* Each role of which something was found has one primary track, however often
\* the object was lost and found elsewhere; _find_primary raises if it has two.
OnePrimaryPerRole ==
    Tracked => \A role \in {key[1] : key \in found} :
        Cardinality({t \in AssignPrimary(tracks, wanted, found) : t.key[1] = role}) = 1

\* A frame with a good sample has a center in the signals ("NaN where bbox is
\* missing at that frame").  The code does not keep to it.
SamplesHaveCenters ==
    Tracked => \A t \in tracks :
        SampledFrames(t) \subseteq CentersOf(tracks, wanted, TrackId(t))
=============================================================================
