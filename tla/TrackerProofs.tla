---------------------------- MODULE TrackerProofs ---------------------------
(***************************************************************************)
(* No session of SAM3 outlives its episode: NoStraySession of Tracker, for  *)
(* any plans, frames, retries and episodes, and whatever raises where.  And *)
(* what the tracks of an episode give: OnePrimaryPerRole, and, where the    *)
(* slugs of a role tell its prompts apart, LostFramesAreMasked.             *)
(***************************************************************************)
EXTENDS Tracker, SequenceTheorems, FiniteSetTheorems, WellFoundedInduction, TLAPS

Phases == {"idle", "planning", "loading", "grounding", "opening", "streaming", "releasing"}

\* Streams are opened after grounding and are gone with the episode.
StreamsInTheirPhases ==
    phase \in {"idle", "planning", "loading", "grounding"} => streams = << >>

\* Streams of some keys on some sessions.
StreamsAreTyped ==
    \E K, S : streams \in Seq([key : K, sid : S, live : BOOLEAN])

Inv == /\ phase \in Phases /\ StreamsInTheirPhases /\ StreamsAreTyped /\ NoStraySession

\* The sessions of a sequence of streams.
SessionsOf(s) == {s[i].sid : i \in DOMAIN s}

\* What OpenSession and Round make of the streams.
WithStream(s, k, sid) == Append(s, [key |-> k, sid |-> sid, live |-> TRUE])
AfterRound(s, seen) == [i \in DOMAIN s |-> [s[i] EXCEPT !.live = seen[i] # "ended"]]

\* A stream that is opened brings its session.
LEMMA Opened ==
    ASSUME NEW K, NEW S, NEW s \in Seq([key : K, sid : S, live : BOOLEAN]),
           NEW k, NEW sid
    PROVE  /\ \E L, R : WithStream(s, k, sid) \in Seq([key : L, sid : R, live : BOOLEAN])
           /\ SessionsOf(WithStream(s, k, sid)) = SessionsOf(s) \cup {sid}
<1> DEFINE t == WithStream(s, k, sid)
           e == [key |-> k, sid |-> sid, live |-> TRUE]
           L == K \cup {k}
           R == S \cup {sid}
           T == [key : L, sid : R, live : BOOLEAN]
<1>1. e \in T /\ e.sid = sid /\ \A x \in [key : K, sid : S, live : BOOLEAN] : x \in T
  OBVIOUS
<1>0. t = Append(s, e)
  BY DEF WithStream
<1> HIDE DEF e, t, T
<1>2. /\ DOMAIN s = 1 .. Len(s) /\ Len(s) \in Nat
      /\ \A i \in 1 .. Len(s) : s[i] \in [key : K, sid : S, live : BOOLEAN]
  BY LenProperties, ElementOfSeq
<1>3. s \in Seq(T)
  BY <1>1, <1>2, SeqDef
<1>4. /\ t \in Seq(T) /\ Len(t) = Len(s) + 1 /\ t[Len(s) + 1] = e
      /\ \A i \in 1 .. Len(s) : t[i] = s[i]
  BY <1>1, <1>3, <1>0, AppendProperties
<1>5. DOMAIN t = 1 .. Len(s) + 1
  BY <1>4, LenProperties
<1>6. SessionsOf(t) = SessionsOf(s) \cup {sid}
  <2>1. ASSUME NEW i \in DOMAIN t
        PROVE  t[i].sid \in SessionsOf(s) \cup {sid}
    <3>1. i = Len(s) + 1 \/ i \in 1 .. Len(s)
      BY <1>2, <1>5
    <3> QED
      BY <1>1, <1>2, <1>4, <3>1 DEF SessionsOf
  <2>2. ASSUME NEW i \in DOMAIN s
        PROVE  s[i].sid \in SessionsOf(t)
    <3>1. i \in DOMAIN t /\ t[i] = s[i]
      BY <1>2, <1>4, <1>5
    <3> QED
      BY <3>1 DEF SessionsOf
  <2>3. sid \in SessionsOf(t)
    BY <1>1, <1>2, <1>4, <1>5 DEF SessionsOf
  <2> QED
    BY <2>1, <2>2, <2>3 DEF SessionsOf
<1> QED
  BY <1>4, <1>6 DEF T, t

\* A stream that ends keeps its session until it is closed.
LEMMA Advanced ==
    ASSUME NEW K, NEW S, NEW s \in Seq([key : K, sid : S, live : BOOLEAN]),
           NEW seen
    PROVE  /\ AfterRound(s, seen) \in Seq([key : K, sid : S, live : BOOLEAN])
           /\ SessionsOf(AfterRound(s, seen)) = SessionsOf(s)
<1> DEFINE t == AfterRound(s, seen)
           T == [key : K, sid : S, live : BOOLEAN]
<1>0. t = [i \in DOMAIN s |-> [s[i] EXCEPT !.live = seen[i] # "ended"]]
  BY DEF AfterRound
<1> HIDE DEF t
<1>1. DOMAIN s = 1 .. Len(s) /\ Len(s) \in Nat /\ \A i \in 1 .. Len(s) : s[i] \in T
  BY LenProperties, ElementOfSeq
<1>2. ASSUME NEW i \in 1 .. Len(s)
      PROVE  t[i] \in T /\ t[i].sid = s[i].sid
  <2>1. s[i] \in T /\ t[i] = [s[i] EXCEPT !.live = seen[i] # "ended"]
    BY <1>1, <1>0
  <2>2. (seen[i] # "ended") \in BOOLEAN
    BY Zenon
  <2> QED
    BY <2>1, <2>2
<1>3. t \in [1 .. Len(s) -> T] /\ DOMAIN t = DOMAIN s
  BY <1>1, <1>2, <1>0
<1>4. t \in Seq(T)
  BY <1>1, <1>3, SeqDef
<1>5. SessionsOf(t) = SessionsOf(s)
  BY <1>1, <1>2, <1>3 DEF SessionsOf
<1> QED
  BY <1>4, <1>5 DEF t

-----------------------------------------------------------------------------
\* The steps before anything is streamed.
EarlySteps ==
    \/ Begin \/ Plan \/ RejectPlan \/ GiveUpPlanning \/ PlannerFails \/ LoadSam3
    \/ GroundPrompt \/ Adopt \/ Retry \/ NothingFound

\* A batch begins with no stream.
LEMMA InvInit == Init => Inv
<1> SUFFICES ASSUME Init
             PROVE  Inv
  OBVIOUS
<1>1. phase = "idle" /\ streams = << >> /\ sessions = {}
  BY DEF Init
<1>2. streams \in Seq([key : {}, sid : {}, live : BOOLEAN]) /\ SessionsOf(streams) = {}
  BY <1>1, EmptySeq DEF SessionsOf
<1> QED
  BY <1>1, <1>2 DEF Inv, Phases, StreamsInTheirPhases, StreamsAreTyped, NoStraySession,
     SessionsOf, At

\* A step after which the sessions are being released asks only for typed streams.
LEMMA OnRelease ==
    ASSUME phase' = "releasing", StreamsAreTyped'
    PROVE  Inv'
  BY DEF Inv, Phases, StreamsInTheirPhases, NoStraySession, At

\* Every step keeps sessions and streams together, or goes to the release.
LEMMA InvStep == ASSUME Inv, [Next]_vars PROVE Inv'
<1>1. CASE UNCHANGED vars
  BY <1>1 DEF vars, Inv, StreamsInTheirPhases, StreamsAreTyped, NoStraySession, At
<1>2. CASE EarlySteps
  <2>1. /\ UNCHANGED <<streams, sessions>> /\ phase # "releasing"
        /\ phase' \in Phases /\ (phase' = "opening" => phase = "grounding")
        /\ phase' # "streaming"
        /\ phase \in {"idle", "planning", "loading", "grounding"}
    BY <1>2 DEF EarlySteps, Begin, Plan, RejectPlan, GiveUpPlanning, PlannerFails, LoadSam3,
       GroundPrompt, Adopt, Retry, NothingFound, Degrade, DegradeBeforeSam3, Goto, At, work,
       Phases
  <2> QED
    BY <2>1 DEF Inv, StreamsInTheirPhases, StreamsAreTyped, NoStraySession, At
<1>3. CASE Sam3InitFails
  <2>1. streams = << >> /\ sessions = {} /\ streams' = << >> /\ sessions' = {} /\ phase' = "idle"
    <3>1. phase = "loading" /\ streams' = << >> /\ sessions' = sessions /\ phase' = "idle"
      BY <1>3 DEF Sam3InitFails, DegradeBeforeSam3, Goto, At, Cleared
    <3>2. streams = << >>
      BY <3>1 DEF Inv, StreamsInTheirPhases
    <3>3. sessions = SessionsOf(streams)
      BY <3>1 DEF Inv, NoStraySession, SessionsOf, At
    <3> QED
      BY <3>1, <3>2, <3>3 DEF SessionsOf
  <2> QED
    BY <2>1 DEF Inv, Phases, StreamsInTheirPhases, StreamsAreTyped, NoStraySession, At
<1>4. CASE GroundingFails \/ StartSessionFails \/ StreamFails \/ AddPromptFails
  <2>1. phase' = "releasing" /\ streams' = streams
    BY <1>4 DEF GroundingFails, StartSessionFails, StreamFails, AddPromptFails, Raise, Goto, work
  <2> QED
    BY <2>1, OnRelease DEF Inv, StreamsAreTyped
<1>5. CASE OpenSession
  <2>1. PICK K, S : streams \in Seq([key : K, sid : S, live : BOOLEAN])
    BY DEF Inv, StreamsAreTyped
  <2>2. PICK k, sid : /\ streams' = WithStream(streams, k, sid)
                      /\ sessions' = sessions \cup {sid}
    BY <1>5 DEF OpenSession, WithStream
  <2>3. phase = "opening" /\ phase' = "opening"
    BY <1>5 DEF OpenSession, At
  <2>4. /\ \E L, R : streams' \in Seq([key : L, sid : R, live : BOOLEAN])
        /\ SessionsOf(streams') = SessionsOf(streams) \cup {sid}
    BY <2>1, <2>2, Opened, Zenon
  <2>5. sessions = SessionsOf(streams)
    BY <2>3 DEF Inv, NoStraySession, SessionsOf, At
  <2> QED
    BY <2>2, <2>3, <2>4, <2>5
       DEF Inv, Phases, StreamsInTheirPhases, StreamsAreTyped, NoStraySession, SessionsOf, At
<1>6. CASE StartStreams
  <2>1. UNCHANGED <<streams, sessions>> /\ phase = "opening" /\ phase' = "streaming"
    BY <1>6 DEF StartStreams, At, Goto
  <2> QED
    BY <2>1 DEF Inv, Phases, StreamsInTheirPhases, StreamsAreTyped, NoStraySession, At
<1>7. CASE Round
  <2>1. PICK K, S : streams \in Seq([key : K, sid : S, live : BOOLEAN])
    BY DEF Inv, StreamsAreTyped
  <2>2. PICK seen : streams' = AfterRound(streams, seen)
    BY <1>7 DEF Round, AfterRound
  <2>3. phase = "streaming" /\ phase' = "streaming" /\ sessions' = sessions
    BY <1>7 DEF Round, At
  <2>4. /\ streams' \in Seq([key : K, sid : S, live : BOOLEAN])
        /\ SessionsOf(streams') = SessionsOf(streams)
    BY <2>1, <2>2, Advanced, Zenon
  <2>5. sessions = SessionsOf(streams)
    BY <2>3 DEF Inv, NoStraySession, SessionsOf, At
  <2> QED
    BY <2>3, <2>4, <2>5
       DEF Inv, Phases, StreamsInTheirPhases, StreamsAreTyped, NoStraySession, SessionsOf, At
<1>8. CASE Finish
  <2>1. phase' = "releasing" /\ streams' = << >>
    BY <1>8 DEF Finish, Goto
  <2>2. streams' \in Seq([key : {}, sid : {}, live : BOOLEAN])
    BY <2>1, EmptySeq
  <2> QED
    BY <2>1, <2>2, OnRelease DEF StreamsAreTyped
<1>9. CASE Release
  <2>1. phase' = "idle" /\ streams' = << >> /\ sessions' = {}
    BY <1>9 DEF Release, Goto, Cleared
  <2>2. /\ streams' \in Seq([key : {}, sid : {}, live : BOOLEAN])
        /\ SessionsOf(streams') = {}
    BY <2>1, EmptySeq DEF SessionsOf
  <2> QED
    BY <2>1, <2>2
       DEF Inv, Phases, StreamsInTheirPhases, StreamsAreTyped, NoStraySession, SessionsOf, At
<1> QED
  BY <1>1, <1>2, <1>3, <1>4, <1>5, <1>6, <1>7, <1>8, <1>9 DEF Next, EarlySteps

\* Outside the release of an episode SAM3 holds a session for each stream of the episode
\* at hand and no other: whatever was raised before, nothing of an earlier episode is left.
THEOREM NoSessionIsLeft == Spec => []NoStraySession
<1>1. Inv => NoStraySession
  BY DEF Inv
<1> QED
  BY <1>1, InvInit, InvStep, PTL DEF Spec

-----------------------------------------------------------------------------
(* What the tracks of one prompt are. *)

Sample == [frame : Frames, place : Places]
TrackOf(key) == [key : {key}, index : Nat, samples : Seq(Sample), gaps : SUBSET (Int \X Int)]
StateOf(key) == [tracks : Seq(TrackOf(key)), pending : SUBSET Frames]

FirstFrame(t) == t.samples[1].frame
LastFrame(t) == t.samples[Len(t.samples)].frame

\* A good sample was taken of the frame, or it is known to be lost.
Covered(t, f) == f \in SampledFrames(t) \/ InGap(t, f)

\* Every expected frame between the first and the last sample is.
Closed(t) ==
    \A f \in ExpectedFrames : FirstFrame(t) <= f /\ f <= LastFrame(t) => Covered(t, f)

\* The track a prompt is at, while the frames from h on and then back from b are
\* still to come.  One that was begun on the way to the end covers what came after
\* its first sample, but for the losses that are pending; one that was begun on the
\* way back has no frame between its first and its last sample.
Current(t, pending, h, b) ==
    \/ /\ LastFrame(t) < h
       /\ \A f \in ExpectedFrames :
             FirstFrame(t) <= f /\ f < h => Covered(t, f) \/ f \in pending
    \/ h = NumFrames /\ LastFrame(t) <= FirstFrame(t) /\ b <= LastFrame(t)

\* The tracks of a prompt are numbered in turn, each has a sample, and each but the
\* one it is at is closed.
StateOk(st, key, h, b) ==
    /\ st \in StateOf(key)
    /\ \A j \in 1 .. Len(st.tracks) : st.tracks[j].index = j - 1 /\ Len(st.tracks[j].samples) > 0
    /\ \A j \in 1 .. Len(st.tracks) - 1 : Closed(st.tracks[j])
    /\ Len(st.tracks) > 0 => Current(st.tracks[Len(st.tracks)], st.pending, h, b)

\* What becomes of it: the tracks are closed, and one is the first.
TracksOk(ts, key) ==
    /\ \A t \in ts : t \in TrackOf(key) /\ (Len(t.samples) > 0 => Closed(t))
    /\ \E t \in ts : t.index = 0 /\ \A u \in ts : u.index = 0 => u = t

-----------------------------------------------------------------------------
(* The episode. *)

Attempts == Seq([frame : Frames, adopted : BOOLEAN])

\* A plan is followed, and what was found is in it.
FoundIsWanted ==
    /\ wanted = << >> \/ \E plan \in Plans : wanted = AllPrompts(plan)
    /\ found \subseteq {wanted[i] : i \in 1 .. Len(wanted)}
    /\ asked \in Nat
    /\ phase \in {"idle", "planning", "loading"} => found = {}

\* SAM3 is put to frames of the episode.
AttemptsOk ==
    attempts \in Attempts /\ (phase \in {"grounding", "opening"} => Len(attempts) > 0)

\* While streams are followed, the prompts have their state machines, and when they
\* have ended their tracks.
StatesOk ==
    phase = "streaming" =>
        \E h \in 0 .. NumFrames, b \in -1 .. NumFrames - 1 :
            /\ todo = Course(h, b)
            /\ states = [key \in found |-> states[key]]
            /\ \A key \in found : StateOk(states[key], key, h, b)
ResultOk ==
    Tracked => /\ \A t \in tracks : t.key \in found
               /\ \A key \in found : TracksOk(TracksOf(key), key)

EpisodeInv == FoundIsWanted /\ AttemptsOk /\ StatesOk /\ ResultOk

-----------------------------------------------------------------------------
(* Lemmas about one track. *)

\* The least of some naturals is one of them, and no other is less.
LEMMA MinOf ==
    ASSUME NEW T \in SUBSET Nat, T # {}
    PROVE  Min(T) \in T /\ \A x \in T : Min(T) <= x
<1> DEFINE R == OpToRel(<, Nat)
<1>1. \A x, y \in Nat : <<x, y>> \in R <=> x < y
  BY DEF OpToRel
<1>2. IsWellFoundedOn(R, Nat)
  BY NatLessThanWellFounded
<1> HIDE DEF R
<1>3. PICK m \in T : \A y \in T : ~(<<y, m>> \in R)
  BY <1>2, WFMin
<1>4. \A y \in T : y \in Nat /\ ~(y < m)
  BY <1>1, <1>3, Zenon
<1>5. \A y \in T : m <= y
  BY <1>4
<1> QED
  BY <1>5 DEF Min

\* Naturals below a bound have a greatest one.
LEMMA Greatest ==
    ASSUME NEW n \in Nat, NEW T \in SUBSET (0 .. n), T # {}
    PROVE  \E x \in T : \A y \in T : y <= x
<1> DEFINE U == {n - x : x \in T}
<1>1. U \in SUBSET Nat /\ U # {}
  <2>1. \A x \in T : n - x \in Nat
    OBVIOUS
  <2> QED
    BY <2>1
<1>2. Min(U) \in U /\ \A y \in U : Min(U) <= y
  BY <1>1, MinOf, Zenon
<1>3. PICK x \in T : Min(U) = n - x
  BY <1>2
<1>4. \A y \in T : n - x <= n - y
  BY <1>2, <1>3
<1> QED
  BY <1>4

\* A gap reaches from the first to the last of the frames it is made of.
LEMMA ConsolidatedCovers ==
    ASSUME NEW T \in SUBSET Frames, T # {}
    PROVE  /\ Consolidated(T) \in Int \X Int
           /\ \A f \in T : Consolidated(T)[1] <= f /\ f <= Consolidated(T)[2]
<1>1. NumFrames \in Nat \ {0} /\ Frames = 0 .. NumFrames - 1
  BY TracksAssumption DEF Frames
<1>2. T \in SUBSET Nat /\ T \in SUBSET (0 .. NumFrames)
  BY <1>1
<1>3. PICK x \in T : \A f \in T : x <= f
  BY <1>2, MinOf
<1>4. PICK y \in T : \A f \in T : f <= y
  BY <1>1, <1>2, Greatest
<1> DEFINE Good(gap) == \A f \in T : gap[1] <= f /\ f <= gap[2]
<1>5. <<x, y>> \in T \X T /\ Good(<<x, y>>)
  BY <1>3, <1>4
<1>6. Consolidated(T) = CHOOSE gap \in T \X T : Good(gap)
  BY DEF Consolidated
<1>7. Consolidated(T) \in T \X T /\ Good(Consolidated(T))
  <2> HIDE DEF Good
  <2> QED
    BY <1>5, <1>6
<1> HIDE DEF Good
<1>8. Consolidated(T) \in Int \X Int
  <2>1. T \subseteq Int
    BY <1>2
  <2>2. T \X T \subseteq Int \X Int
    BY <2>1
  <2> QED
    BY <1>7, <2>2
<1> QED
  BY <1>7, <1>8 DEF Good

\* Flushing makes a gap of what is pending and leaves the rest of the track alone.
LEMMA FlushIs ==
    ASSUME NEW key, NEW t \in TrackOf(key), NEW T \in SUBSET Frames
    PROVE  /\ FlushPending(t, T) \in TrackOf(key)
           /\ FlushPending(t, T).key = t.key /\ FlushPending(t, T).index = t.index
           /\ FlushPending(t, T).samples = t.samples
           /\ \A f : Covered(t, f) \/ f \in T => Covered(FlushPending(t, T), f)
<1>1. CASE T = {}
  <2>1. FlushPending(t, T) = t
    BY <1>1 DEF FlushPending
  <2> QED
    BY <1>1, <2>1
<1>2. CASE T # {}
  <2> DEFINE g == Consolidated(T)
             u == [t EXCEPT !.gaps = @ \cup {g}]
  <2>1. FlushPending(t, T) = u
    BY <1>2 DEF FlushPending
  <2>2. g \in Int \X Int /\ \A f \in T : g[1] <= f /\ f <= g[2]
    BY <1>2, ConsolidatedCovers, Zenon
  <2> HIDE DEF g
  <2>3. /\ u \in TrackOf(key) /\ u.key = t.key /\ u.index = t.index
        /\ u.samples = t.samples /\ u.gaps = t.gaps \cup {g}
    BY <2>2 DEF TrackOf
  <2> HIDE DEF u
  <2>4. ASSUME NEW f, Covered(t, f) \/ f \in T
        PROVE  Covered(u, f)
    BY <2>2, <2>3, <2>4 DEF Covered, SampledFrames, InGap
  <2> QED
    BY <2>1, <2>3, <2>4
<1> QED
  BY <1>1, <1>2

\* A sample is added at the end, and its frame is covered from then on.
LEMMA AddSampleIs ==
    ASSUME NEW key, NEW t \in TrackOf(key), NEW f \in Frames, NEW p \in Places
    PROVE  /\ AddSample(t, f, p) \in TrackOf(key)
           /\ AddSample(t, f, p).key = t.key /\ AddSample(t, f, p).index = t.index
           /\ Len(AddSample(t, f, p).samples) > 0
           /\ LastFrame(AddSample(t, f, p)) = f
           /\ FirstFrame(AddSample(t, f, p)) =
                IF Len(t.samples) = 0 THEN f ELSE FirstFrame(t)
           /\ Covered(AddSample(t, f, p), f)
           /\ \A g : Covered(t, g) => Covered(AddSample(t, f, p), g)
<1> DEFINE e == [frame |-> f, place |-> p]
           s == t.samples
           r == Append(s, e)
           u == [t EXCEPT !.samples = r]
<1>1. e \in Sample /\ e.frame = f /\ s \in Seq(Sample)
  BY DEF Sample, TrackOf
<1>2. Len(s) \in Nat /\ DOMAIN s = 1 .. Len(s)
  BY <1>1, LenProperties
<1> HIDE DEF e
<1>3. /\ r \in Seq(Sample) /\ Len(r) = Len(s) + 1 /\ r[Len(s) + 1] = e
      /\ \A i \in 1 .. Len(s) : r[i] = s[i]
  BY <1>1, AppendProperties
<1>4. DOMAIN r = 1 .. Len(s) + 1
  BY <1>3, LenProperties
<1>5. AddSample(t, f, p) = u
  BY DEF AddSample, e
<1> HIDE DEF r
<1>6. /\ u \in TrackOf(key) /\ u.key = t.key /\ u.index = t.index
      /\ u.samples = r /\ u.gaps = t.gaps
  BY <1>3 DEF TrackOf
<1> HIDE DEF u
<1>7. LastFrame(u) = f
  BY <1>1, <1>3, <1>6 DEF LastFrame
<1>8. FirstFrame(u) = IF Len(s) = 0 THEN f ELSE FirstFrame(t)
  <2>1. CASE Len(s) = 0
    BY <1>1, <1>3, <1>6, <2>1 DEF FirstFrame
  <2>2. CASE Len(s) # 0
    BY <1>2, <1>3, <1>6, <2>2 DEF FirstFrame
  <2> QED
    BY <2>1, <2>2
<1>9. Covered(u, f)
  <2>1. Len(s) + 1 \in DOMAIN r
    BY <1>2, <1>4
  <2> QED
    BY <1>1, <1>3, <1>6, <2>1 DEF Covered, SampledFrames
<1>10. ASSUME NEW g, Covered(t, g)
       PROVE  Covered(u, g)
  <2>1. \A i \in DOMAIN s : i \in DOMAIN r /\ r[i] = s[i]
    BY <1>2, <1>3, <1>4
  <2> QED
    BY <1>6, <1>10, <2>1 DEF Covered, SampledFrames, InGap
<1>11. Len(u.samples) > 0
  BY <1>2, <1>3, <1>6
<1> QED
  BY <1>5, <1>6, <1>7, <1>8, <1>9, <1>10, <1>11

\* The frame that comes next, and what is to come after it.
Ahead(h, b) == h < NumFrames \/ 0 <= b
NextFrame(h, b) == IF h < NumFrames THEN h ELSE b
NextH(h) == IF h < NumFrames THEN h + 1 ELSE h
NextB(h, b) == IF h < NumFrames THEN b ELSE b - 1

\* The next frame is one of the episode.
LEMMA NextIsAFrame ==
    ASSUME NEW h \in 0 .. NumFrames, NEW b \in -1 .. NumFrames - 1, Ahead(h, b)
    PROVE  /\ NextFrame(h, b) \in Frames
           /\ NextH(h) \in 0 .. NumFrames /\ NextB(h, b) \in -1 .. NumFrames - 1
  BY TracksAssumption DEF Frames, Ahead, NextFrame, NextH, NextB

\* The frames of the samples of a track are frames of the episode.
LEMMA EndsAreFrames ==
    ASSUME NEW key, NEW t \in TrackOf(key), Len(t.samples) > 0
    PROVE  FirstFrame(t) \in Int /\ LastFrame(t) \in Int /\ LastFrame(t) < NumFrames
<1>1. t.samples \in Seq(Sample)
  BY DEF TrackOf
<1>2. Len(t.samples) \in Nat
  BY <1>1, LenProperties
<1>3. t.samples[1] \in Sample /\ t.samples[Len(t.samples)] \in Sample
  BY <1>1, <1>2, ElementOfSeq
<1> QED
  BY <1>3, TracksAssumption DEF Sample, Frames, FirstFrame, LastFrame

\* A frame between the first and the last sample of a track that goes nowhere is the
\* frame of its first sample.
LEMMA OneFrame ==
    ASSUME NEW key, NEW t \in TrackOf(key), Len(t.samples) > 0,
           LastFrame(t) <= FirstFrame(t)
    PROVE  Closed(t)
<1>1. FirstFrame(t) \in Int /\ LastFrame(t) \in Int
  BY EndsAreFrames
<1>2. FirstFrame(t) \in SampledFrames(t)
  <2>1. t.samples \in Seq(Sample)
    BY DEF TrackOf
  <2>2. 1 \in DOMAIN t.samples
    BY <2>1, LenProperties
  <2> QED
    BY <2>2 DEF FirstFrame, SampledFrames
<1> SUFFICES ASSUME NEW f \in ExpectedFrames, FirstFrame(t) <= f, f <= LastFrame(t)
             PROVE  f = FirstFrame(t)
  BY <1>2 DEF Closed, Covered
<1>3. f \in Int
  BY TracksAssumption DEF ExpectedFrames, Frames
<1> QED
  BY <1>1, <1>3

\* What is pending and what is covered closes the track, whenever that is.
LEMMA FlushCloses ==
    ASSUME NEW key, NEW t \in TrackOf(key), Len(t.samples) > 0,
           NEW T \in SUBSET Frames,
           NEW h \in 0 .. NumFrames, NEW b \in -1 .. NumFrames - 1,
           Current(t, T, h, b)
    PROVE  Closed(FlushPending(t, T))
<1> DEFINE u == FlushPending(t, T)
<1>1. /\ u \in TrackOf(key) /\ u.samples = t.samples
      /\ \A f : Covered(t, f) \/ f \in T => Covered(u, f)
  BY FlushIs
<1> HIDE DEF u
<1>2. FirstFrame(u) = FirstFrame(t) /\ LastFrame(u) = LastFrame(t)
  BY <1>1 DEF FirstFrame, LastFrame
<1>3. FirstFrame(t) \in Int /\ LastFrame(t) \in Int
  BY EndsAreFrames
<1>4. CASE LastFrame(t) <= FirstFrame(t)
  BY <1>1, <1>2, <1>4, OneFrame DEF u
<1>5. CASE /\ LastFrame(t) < h
           /\ \A f \in ExpectedFrames :
                 FirstFrame(t) <= f /\ f < h => Covered(t, f) \/ f \in T
  <2> SUFFICES ASSUME NEW f \in ExpectedFrames, FirstFrame(u) <= f, f <= LastFrame(u)
               PROVE  Covered(u, f)
    BY DEF Closed, u
  <2>1. f \in Int
    BY TracksAssumption DEF ExpectedFrames, Frames
  <2>2. f < h
    BY <1>2, <1>3, <1>5, <2>1
  <2> QED
    BY <1>1, <1>2, <1>5, <2>2
<1> QED
  BY <1>4, <1>5 DEF Current

\* The next frame is none that propagation reports on.
LEMMA CurrentSkips ==
    ASSUME NEW key, NEW t \in TrackOf(key), Len(t.samples) > 0,
           NEW T \in SUBSET Frames,
           NEW h \in 0 .. NumFrames, NEW b \in -1 .. NumFrames - 1,
           Current(t, T, h, b), NextFrame(h, b) \notin ExpectedFrames
    PROVE  Current(t, T, NextH(h), NextB(h, b))
<1>1. LastFrame(t) \in Int /\ FirstFrame(t) \in Int /\ NumFrames \in Nat
  BY EndsAreFrames, TracksAssumption
<1>2. CASE h < NumFrames
  <2>1. /\ LastFrame(t) < h
        /\ \A f \in ExpectedFrames :
              FirstFrame(t) <= f /\ f < h => Covered(t, f) \/ f \in T
    BY <1>2 DEF Current
  <2>2. LastFrame(t) < h + 1
    BY <1>1, <2>1
  <2>3. ASSUME NEW f \in ExpectedFrames, FirstFrame(t) <= f, f < h + 1
        PROVE  Covered(t, f) \/ f \in T
    <3>1. f \in Int /\ f # h
      BY <1>2, <1>1 DEF ExpectedFrames, Frames, NextFrame
    <3>2. f < h
      BY <2>3, <3>1
    <3> QED
      BY <2>1, <2>3, <3>2
  <2> QED
    BY <1>2, <2>2, <2>3 DEF Current, NextH, NextB
<1>3. CASE ~(h < NumFrames)
  <2>1. NextH(h) = h /\ NextB(h, b) = b - 1
    BY <1>3 DEF NextH, NextB
  <2>2. b <= LastFrame(t) => b - 1 <= LastFrame(t)
    BY <1>1
  <2> QED
    BY <2>1, <2>2 DEF Current
<1> QED
  BY <1>2, <1>3

\* The object is not seen in the next frame, which is pending then.
LEMMA CurrentWaits ==
    ASSUME NEW key, NEW t \in TrackOf(key), Len(t.samples) > 0,
           NEW T \in SUBSET Frames,
           NEW h \in 0 .. NumFrames, NEW b \in -1 .. NumFrames - 1,
           Current(t, T, h, b)
    PROVE  Current(t, T \cup {NextFrame(h, b)}, NextH(h), NextB(h, b))
<1>1. LastFrame(t) \in Int /\ FirstFrame(t) \in Int /\ NumFrames \in Nat
  BY EndsAreFrames, TracksAssumption
<1>2. CASE h < NumFrames
  <2>1. /\ LastFrame(t) < h
        /\ \A f \in ExpectedFrames :
              FirstFrame(t) <= f /\ f < h => Covered(t, f) \/ f \in T
    BY <1>2 DEF Current
  <2>2. LastFrame(t) < h + 1
    BY <1>1, <2>1
  <2>3. ASSUME NEW f \in ExpectedFrames, FirstFrame(t) <= f, f < h + 1
        PROVE  Covered(t, f) \/ f \in T \cup {h}
    <3>1. f \in Int
      BY <1>1 DEF ExpectedFrames, Frames
    <3>2. f < h \/ f = h
      BY <2>3, <3>1
    <3> QED
      BY <2>1, <2>3, <3>2
  <2>4. NextFrame(h, b) = h /\ NextH(h) = h + 1
    BY <1>2 DEF NextFrame, NextH
  <2> QED
    BY <2>2, <2>3, <2>4 DEF Current
<1>3. CASE ~(h < NumFrames)
  <2>1. NextH(h) = h /\ NextB(h, b) = b - 1
    BY <1>3 DEF NextH, NextB
  <2>2. b <= LastFrame(t) => b - 1 <= LastFrame(t)
    BY <1>1
  <2> QED
    BY <2>1, <2>2 DEF Current
<1> QED
  BY <1>2, <1>3

\* The object is seen in the next frame, and the track goes on.
LEMMA CurrentGoesOn ==
    ASSUME NEW key, NEW t \in TrackOf(key), Len(t.samples) > 0,
           NEW T \in SUBSET Frames,
           NEW h \in 0 .. NumFrames, NEW b \in -1 .. NumFrames - 1, Ahead(h, b),
           Current(t, T, h, b), NEW p \in Places
    PROVE  Current(AddSample(FlushPending(t, T), NextFrame(h, b), p), {}, NextH(h), NextB(h, b))
<1> DEFINE u == FlushPending(t, T)
           n == NextFrame(h, b)
           v == AddSample(u, n, p)
<1>1. /\ u \in TrackOf(key) /\ u.samples = t.samples
      /\ \A f : Covered(t, f) \/ f \in T => Covered(u, f)
  BY FlushIs
<1>2. n \in Frames
  BY NextIsAFrame
<1> HIDE DEF u, n
<1>3. /\ LastFrame(v) = n /\ FirstFrame(v) = FirstFrame(t)
      /\ Covered(v, n) /\ \A f : Covered(u, f) => Covered(v, f)
  <2>1. FirstFrame(v) = FirstFrame(u)
    BY <1>1, <1>2, AddSampleIs
  <2>2. FirstFrame(u) = FirstFrame(t)
    BY <1>1 DEF FirstFrame
  <2> QED
    BY <1>1, <1>2, <2>1, <2>2, AddSampleIs
<1> HIDE DEF v
<1>4. LastFrame(t) \in Int /\ FirstFrame(t) \in Int /\ NumFrames \in Nat /\ n \in Int
  BY EndsAreFrames, TracksAssumption, <1>2 DEF Frames
<1>5. CASE /\ LastFrame(t) < h
           /\ \A f \in ExpectedFrames :
                 FirstFrame(t) <= f /\ f < h => Covered(t, f) \/ f \in T
  <2>1. n < NextH(h) /\ (NextH(h) = h \/ (NextH(h) = n + 1 /\ n = h))
    <3>1. CASE h < NumFrames
      BY <3>1 DEF NextH, NextFrame, n
    <3>2. CASE ~(h < NumFrames)
      <4>1. h = NumFrames /\ NextH(h) = h
        BY <1>4, <3>2 DEF NextH
      <4>2. n < NumFrames
        BY <1>2, <1>4 DEF Frames
      <4> QED
        BY <4>1, <4>2
    <3> QED
      BY <3>1, <3>2
  <2>2. ASSUME NEW f \in ExpectedFrames, FirstFrame(v) <= f, f < NextH(h)
        PROVE  Covered(v, f)
    <3>1. f \in Int
      BY <1>4 DEF ExpectedFrames, Frames
    <3>2. f < h \/ f = n
      BY <1>4, <2>1, <2>2, <3>1
    <3> QED
      BY <1>1, <1>3, <1>5, <2>2, <3>2
  <2> QED
    BY <1>3, <2>1, <2>2 DEF Current, v, n, u
<1>6. CASE h = NumFrames /\ LastFrame(t) <= FirstFrame(t) /\ b <= LastFrame(t)
  <2>1. n = b /\ NextH(h) = NumFrames /\ NextB(h, b) = b - 1
    BY <1>4, <1>6 DEF n, NextFrame, NextH, NextB
  <2>2. n <= FirstFrame(t) /\ b - 1 <= n
    BY <1>4, <1>6, <2>1
  <2> QED
    BY <1>3, <2>1, <2>2 DEF Current, v, n, u
<1> QED
  BY <1>5, <1>6 DEF Current

\* A track that is begun has one sample.
LEMMA CurrentBegins ==
    ASSUME NEW key, NEW i \in Nat,
           NEW h \in 0 .. NumFrames, NEW b \in -1 .. NumFrames - 1, Ahead(h, b),
           NEW p \in Places
    PROVE  LET t == AddSample(NewTrack(key, i), NextFrame(h, b), p)
           IN  /\ t \in TrackOf(key) /\ t.index = i /\ Len(t.samples) > 0
               /\ Current(t, {}, NextH(h), NextB(h, b))
<1> DEFINE t == NewTrack(key, i)
           n == NextFrame(h, b)
           v == AddSample(t, n, p)
<1>1. t \in TrackOf(key) /\ t.index = i /\ Len(t.samples) = 0
  BY EmptySeq DEF NewTrack, TrackOf
<1>2. n \in Frames
  BY NextIsAFrame
<1> HIDE DEF t, n
<1>3. /\ v \in TrackOf(key) /\ v.index = i /\ Len(v.samples) > 0
      /\ LastFrame(v) = n /\ FirstFrame(v) = n /\ Covered(v, n)
  BY <1>1, <1>2, AddSampleIs
<1> HIDE DEF v
<1>4. NumFrames \in Nat /\ n \in Int
  BY TracksAssumption, <1>2 DEF Frames
<1>5. CASE h < NumFrames
  <2>1. n = h /\ NextH(h) = h + 1
    BY <1>5 DEF n, NextFrame, NextH
  <2>2. \A f \in ExpectedFrames : n <= f /\ f < h + 1 => f = n
    BY <1>4, <2>1 DEF ExpectedFrames, Frames
  <2>3. n < h + 1
    BY <1>4, <2>1
  <2> QED
    BY <1>3, <2>1, <2>2, <2>3 DEF Current, v, n, t
<1>6. CASE ~(h < NumFrames)
  <2>1. n = b /\ NextH(h) = NumFrames /\ NextB(h, b) = b - 1
    BY <1>4, <1>6 DEF n, NextFrame, NextH, NextB
  <2>2. n <= n /\ b - 1 <= n
    BY <1>4, <2>1
  <2> QED
    BY <1>3, <2>1, <2>2 DEF Current, v, n, t
<1> QED
  BY <1>5, <1>6

-----------------------------------------------------------------------------
(* Lemmas about the tracks of one prompt. *)

\* The facts a state machine's tracks give about each of them.
LEMMA TheirTracks ==
    ASSUME NEW key, NEW h, NEW b, NEW st, StateOk(st, key, h, b)
    PROVE  /\ st.tracks \in Seq(TrackOf(key)) /\ st.pending \in SUBSET Frames
           /\ Len(st.tracks) \in Nat /\ DOMAIN st.tracks = 1 .. Len(st.tracks)
           /\ \A j \in 1 .. Len(st.tracks) :
                 /\ st.tracks[j] \in TrackOf(key) /\ st.tracks[j].index = j - 1
                 /\ Len(st.tracks[j].samples) > 0
<1>1. st.tracks \in Seq(TrackOf(key)) /\ st.pending \in SUBSET Frames
  BY DEF StateOk, StateOf
<1>2. Len(st.tracks) \in Nat /\ DOMAIN st.tracks = 1 .. Len(st.tracks)
  BY <1>1, LenProperties
<1>3. \A j \in 1 .. Len(st.tracks) : st.tracks[j] \in TrackOf(key)
  BY <1>1, ElementOfSeq
<1> QED
  BY <1>1, <1>2, <1>3 DEF StateOk

\* A state machine begins with no track.
LEMMA StateBegins ==
    ASSUME NEW key, NEW h, NEW b
    PROVE  StateOk(NoTracks, key, h, b)
<1>1. NoTracks.tracks = << >> /\ NoTracks.pending = {}
  BY DEF NoTracks
<1>2. << >> \in Seq(TrackOf(key)) /\ Len(<< >>) = 0
  BY EmptySeq
<1>3. NoTracks \in StateOf(key)
  BY <1>2 DEF NoTracks, StateOf
<1> QED
  BY <1>1, <1>2, <1>3 DEF StateOk

\* A frame that propagation does not report on.
LEMMA StateSkips ==
    ASSUME NEW key, NEW st,
           NEW h \in 0 .. NumFrames, NEW b \in -1 .. NumFrames - 1,
           StateOk(st, key, h, b), NextFrame(h, b) \notin ExpectedFrames
    PROVE  StateOk(st, key, NextH(h), NextB(h, b))
<1> DEFINE n == Len(st.tracks)
<1>1. /\ st.pending \in SUBSET Frames /\ n \in Nat
      /\ \A j \in 1 .. n : st.tracks[j] \in TrackOf(key) /\ Len(st.tracks[j].samples) > 0
  BY TheirTracks
<1>2. n > 0 => Current(st.tracks[n], st.pending, h, b)
  BY DEF StateOk
<1>3. n > 0 => Current(st.tracks[n], st.pending, NextH(h), NextB(h, b))
  BY <1>1, <1>2, CurrentSkips
<1> QED
  BY <1>3 DEF StateOk

\* A frame in which the object is not seen.
LEMMA StateWaits ==
    ASSUME NEW key, NEW st,
           NEW h \in 0 .. NumFrames, NEW b \in -1 .. NumFrames - 1, Ahead(h, b),
           StateOk(st, key, h, b)
    PROVE  StateOk(BadFrame(st, NextFrame(h, b)), key, NextH(h), NextB(h, b))
<1> DEFINE n == Len(st.tracks)
           f == NextFrame(h, b)
           s == BadFrame(st, f)
<1>1. /\ st.pending \in SUBSET Frames /\ n \in Nat /\ st \in StateOf(key)
      /\ \A j \in 1 .. n : st.tracks[j] \in TrackOf(key) /\ Len(st.tracks[j].samples) > 0
  BY TheirTracks DEF StateOk
<1>2. n > 0 => Current(st.tracks[n], st.pending, h, b)
  BY DEF StateOk
<1>3. n > 0 => Current(st.tracks[n], st.pending \cup {f}, NextH(h), NextB(h, b))
  BY <1>1, <1>2, CurrentWaits
<1>4. f \in Frames
  BY NextIsAFrame
<1> HIDE DEF f
<1>5. s \in StateOf(key) /\ s.tracks = st.tracks /\ s.pending = st.pending \cup {f}
  BY <1>1, <1>4 DEF BadFrame, StateOf
<1> HIDE DEF s
<1>6. StateOk(s, key, NextH(h), NextB(h, b))
  BY <1>3, <1>5 DEF StateOk
<1> QED
  BY <1>6 DEF s, f

\* A frame in which it is seen: the track goes on, or it is closed and another begun.
LEMMA StateSees ==
    ASSUME NEW key, NEW st,
           NEW h \in 0 .. NumFrames, NEW b \in -1 .. NumFrames - 1, Ahead(h, b),
           StateOk(st, key, h, b), NEW p \in Places
    PROVE  StateOk(GoodSample(st, key, NextFrame(h, b), p), key, NextH(h), NextB(h, b))
<1> DEFINE n == Len(st.tracks)
           f == NextFrame(h, b)
           hh == NextH(h)
           bb == NextB(h, b)
           begun(i) == AddSample(NewTrack(key, i), f, p)
<1>1. /\ st.tracks \in Seq(TrackOf(key)) /\ st.pending \in SUBSET Frames /\ n \in Nat
      /\ \A j \in 1 .. n :
            /\ st.tracks[j] \in TrackOf(key) /\ st.tracks[j].index = j - 1
            /\ Len(st.tracks[j].samples) > 0
  BY TheirTracks
<1>2. \A j \in 1 .. n - 1 : Closed(st.tracks[j])
  BY DEF StateOk
<1>3. f \in Frames
  BY NextIsAFrame
<1>4. \A i \in Nat : /\ begun(i) \in TrackOf(key) /\ begun(i).index = i
                     /\ Len(begun(i).samples) > 0 /\ Current(begun(i), {}, hh, bb)
  BY CurrentBegins
<1>5. CASE st.tracks = << >>
  <2> DEFINE u == begun(0)
             s == [st EXCEPT !.tracks = <<u>>]
  <2>1. GoodSample(st, key, f, p) = s
    BY <1>5 DEF GoodSample
  <2>2. /\ u \in TrackOf(key) /\ u.index = 0 /\ Len(u.samples) > 0 /\ Current(u, {}, hh, bb)
    BY <1>4
  <2> HIDE DEF u, f, hh, bb
  <2>3. <<u>> \in Seq(TrackOf(key)) /\ Len(<<u>>) = 1 /\ <<u>>[1] = u
    BY <2>2
  <2>4. s \in StateOf(key) /\ s.tracks = <<u>> /\ s.pending = st.pending
    BY <1>1, <2>3 DEF StateOk, StateOf
  <2> HIDE DEF s
  <2>5. Current(u, s.pending, hh, bb)
    BY <2>2 DEF Current
  <2>6. StateOk(s, key, hh, bb)
    BY <2>2, <2>3, <2>4, <2>5 DEF StateOk
  <2> QED
    BY <2>1, <2>6 DEF f, hh, bb
<1>6. CASE st.tracks # << >>
  <2>0. n \in 1 .. n
    BY <1>1, <1>6, EmptySeq
  <2> DEFINE t == st.tracks[n]
             c == FlushPending(t, st.pending)
             v == AddSample(c, f, p)
             o == begun(t.index + 1)
             r == [st.tracks EXCEPT ![n] = c]
             w == [st.tracks EXCEPT ![n] = v]
             x == Append(r, o)
  <2>1. /\ t \in TrackOf(key) /\ t.index = n - 1 /\ Len(t.samples) > 0
        /\ Current(t, st.pending, h, b)
    BY <1>1, <2>0 DEF StateOk
  <2>2. /\ c \in TrackOf(key) /\ c.index = n - 1 /\ c.samples = t.samples
        /\ Len(c.samples) > 0
    BY <1>1, <2>1, FlushIs
  <2>3. Closed(c)
    BY <1>1, <2>1, FlushCloses
  <2>4. /\ v \in TrackOf(key) /\ v.index = n - 1 /\ Len(v.samples) > 0
    BY <1>3, <2>2, AddSampleIs
  <2>5. Current(v, {}, hh, bb)
    BY <1>1, <2>1, CurrentGoesOn
  <2>6. /\ o \in TrackOf(key) /\ o.index = n /\ Len(o.samples) > 0
        /\ Current(o, {}, hh, bb)
    <3>1. t.index + 1 \in Nat /\ t.index + 1 = n
      BY <1>1, <2>0, <2>1
    <3> QED
      BY <1>4, <3>1
  <2>7. GoodSample(st, key, f, p) =
          [tracks |-> IF IsAnother(t, st.pending, f, p) THEN x ELSE w, pending |-> {}]
    BY <1>6 DEF GoodSample
  <2> HIDE DEF t, c, v, o, f, hh, bb
  <2>8. /\ r \in Seq(TrackOf(key)) /\ Len(r) = n
        /\ \A j \in 1 .. n : r[j] = IF j = n THEN c ELSE st.tracks[j]
    BY <1>1, <2>0, <2>2, ExceptSeq
  <2>9. /\ w \in Seq(TrackOf(key)) /\ Len(w) = n
        /\ \A j \in 1 .. n : w[j] = IF j = n THEN v ELSE st.tracks[j]
    BY <1>1, <2>0, <2>4, ExceptSeq
  <2> HIDE DEF r
  <2>10. /\ x \in Seq(TrackOf(key)) /\ Len(x) = n + 1 /\ x[n + 1] = o
         /\ \A j \in 1 .. n : x[j] = r[j]
    BY <2>6, <2>8, AppendProperties
  <2> HIDE DEF x, w
  <2> DEFINE sx == [tracks |-> x, pending |-> {}]
             sw == [tracks |-> w, pending |-> {}]
  <2>11. StateOk(sw, key, hh, bb)
    <3>1. sw \in StateOf(key) /\ sw.tracks = w /\ sw.pending = {}
      BY <2>9 DEF StateOf
    <3> HIDE DEF sw
    <3>2. \A j \in 1 .. n : w[j].index = j - 1 /\ Len(w[j].samples) > 0
      BY <1>1, <2>4, <2>9
    <3>3. \A j \in 1 .. n - 1 : Closed(w[j])
      <4> SUFFICES ASSUME NEW j \in 1 .. n - 1 PROVE Closed(w[j])
        OBVIOUS
      <4>1. j \in 1 .. n /\ j # n
        BY <1>1
      <4> QED
        BY <1>2, <2>9, <4>1
    <3>4. w[n] = v
      BY <2>0, <2>9
    <3> QED
      BY <2>5, <2>9, <3>1, <3>2, <3>3, <3>4 DEF StateOk
  <2>12. StateOk(sx, key, hh, bb)
    <3>1. sx \in StateOf(key) /\ sx.tracks = x /\ sx.pending = {}
      BY <2>10 DEF StateOf
    <3> HIDE DEF sx
    <3>2. \A j \in 1 .. n + 1 : x[j].index = j - 1 /\ Len(x[j].samples) > 0
      <4> SUFFICES ASSUME NEW j \in 1 .. n + 1
                   PROVE  x[j].index = j - 1 /\ Len(x[j].samples) > 0
        OBVIOUS
      <4>1. CASE j = n + 1
        BY <1>1, <2>6, <2>10, <4>1
      <4>2. CASE j = n
        BY <2>0, <2>2, <2>8, <2>10, <4>2
      <4>3. CASE j # n /\ j # n + 1
        <5>1. j \in 1 .. n
          BY <1>1, <4>3
        <5>2. x[j] = st.tracks[j]
          BY <2>8, <2>10, <4>3, <5>1
        <5> QED
          BY <1>1, <5>1, <5>2
      <4> QED
        BY <4>1, <4>2, <4>3
    <3>3. \A j \in 1 .. (n + 1) - 1 : Closed(x[j])
      <4> SUFFICES ASSUME NEW j \in 1 .. n PROVE Closed(x[j])
        BY <1>1
      <4>1. CASE j = n
        BY <2>0, <2>3, <2>8, <2>10, <4>1
      <4>2. CASE j # n
        <5>1. j \in 1 .. n - 1
          BY <1>1, <4>2
        <5>2. x[j] = st.tracks[j]
          BY <2>8, <2>10, <4>2
        <5> QED
          BY <1>2, <5>1, <5>2
      <4> QED
        BY <4>1, <4>2
    <3> QED
      BY <2>6, <2>10, <3>1, <3>2, <3>3 DEF StateOk
  <2> QED
    BY <2>7, <2>11, <2>12 DEF f, hh, bb
<1> QED
  BY <1>5, <1>6

\* When all frames have been seen the tracks are closed, and one is the first.
LEMMA StateEnds ==
    ASSUME NEW key, NEW st,
           NEW h \in 0 .. NumFrames, NEW b \in -1 .. NumFrames - 1,
           StateOk(st, key, h, b)
    PROVE  TracksOk(Range(FinalTracks(st, key)), key)
<1> DEFINE n == Len(st.tracks)
<1>1. /\ st.tracks \in Seq(TrackOf(key)) /\ st.pending \in SUBSET Frames /\ n \in Nat
      /\ \A j \in 1 .. n :
            /\ st.tracks[j] \in TrackOf(key) /\ st.tracks[j].index = j - 1
            /\ Len(st.tracks[j].samples) > 0
  BY TheirTracks
<1>2. \A j \in 1 .. n - 1 : Closed(st.tracks[j])
  BY DEF StateOk
<1>3. CASE st.tracks = << >>
  <2> DEFINE o == NewTrack(key, 0)
             c == FlushPending(o, st.pending)
             w == IF c.samples = << >> /\ c.gaps = {}
                  THEN [c EXCEPT !.gaps = {<<0, NumFrames - 1>>}] ELSE c
  <2>1. o \in TrackOf(key) /\ o.index = 0 /\ o.samples = << >>
    BY EmptySeq DEF NewTrack, TrackOf
  <2> HIDE DEF o
  <2>2. c \in TrackOf(key) /\ c.index = 0 /\ c.samples = << >>
    BY <1>1, <2>1, FlushIs
  <2> HIDE DEF c
  <2>3. <<0, NumFrames - 1>> \in Int \X Int
    BY TracksAssumption
  <2>4. w \in TrackOf(key) /\ w.index = 0 /\ w.samples = << >>
    BY <2>2, <2>3 DEF TrackOf
  <2>5. FinalTracks(st, key) = [<<o>> EXCEPT ![1] = w]
    BY <1>3 DEF FinalTracks, o, c
  <2> HIDE DEF w
  <2>6. FinalTracks(st, key) = <<w>>
    BY <2>5
  <2>7. Range(<<w>>) = {w}
    BY DEF Range
  <2>8. Len(w.samples) = 0
    BY <2>4, EmptySeq
  <2> QED
    BY <2>4, <2>6, <2>7, <2>8 DEF TracksOk
<1>4. CASE st.tracks # << >>
  <2>0. n \in 1 .. n
    BY <1>1, <1>4, EmptySeq
  <2> DEFINE t == st.tracks[n]
             c == FlushPending(t, st.pending)
             w == IF c.samples = << >> /\ c.gaps = {}
                  THEN [c EXCEPT !.gaps = {<<0, NumFrames - 1>>}] ELSE c
             r == [st.tracks EXCEPT ![n] = w]
  <2>1. /\ t \in TrackOf(key) /\ t.index = n - 1 /\ Len(t.samples) > 0
        /\ Current(t, st.pending, h, b)
    BY <1>1, <2>0 DEF StateOk
  <2>2. /\ c \in TrackOf(key) /\ c.index = n - 1 /\ c.samples = t.samples
    BY <1>1, <2>1, FlushIs
  <2>3. Closed(c)
    BY <1>1, <2>1, FlushCloses
  <2>4. FinalTracks(st, key) = r
    BY <1>4 DEF FinalTracks
  <2> HIDE DEF t, c
  <2>5. c.samples # << >>
    BY <2>1, <2>2, EmptySeq
  <2>6. w = c
    BY <2>5
  <2> HIDE DEF w
  <2>7. /\ r \in Seq(TrackOf(key)) /\ Len(r) = n
        /\ \A j \in 1 .. n : r[j] = IF j = n THEN c ELSE st.tracks[j]
    BY <1>1, <2>0, <2>2, <2>6, ExceptSeq
  <2> HIDE DEF r
  <2>8. DOMAIN r = 1 .. n
    BY <2>7, LenProperties
  <2>9. ASSUME NEW j \in 1 .. n
        PROVE  r[j] \in TrackOf(key) /\ r[j].index = j - 1 /\ Closed(r[j])
    <3>1. CASE j = n
      BY <2>2, <2>3, <2>7, <3>1
    <3>2. CASE j # n
      <4>1. j \in 1 .. n - 1
        BY <1>1, <3>2
      <4>2. r[j] = st.tracks[j]
        BY <2>7, <3>2
      <4> QED
        BY <1>1, <1>2, <4>1, <4>2
    <3> QED
      BY <3>1, <3>2
  <2>10. Range(r) = {r[j] : j \in 1 .. n}
    BY <2>8 DEF Range
  <2>11. \A u \in Range(r) : u \in TrackOf(key) /\ (Len(u.samples) > 0 => Closed(u))
    BY <2>9, <2>10
  <2>12. r[1] \in Range(r) /\ r[1].index = 0
    <3>1. 1 \in 1 .. n
      BY <1>1, <2>0
    <3> QED
      BY <2>9, <2>10, <3>1
  <2>13. ASSUME NEW u \in Range(r), u.index = 0
         PROVE  u = r[1]
    <3>1. PICK j \in 1 .. n : u = r[j]
      BY <2>10
    <3>2. j - 1 = 0
      BY <2>9, <2>13, <3>1
    <3>3. j = 1
      BY <1>1, <3>2
    <3> QED
      BY <3>1, <3>3
  <2>14. TracksOk(Range(r), key)
    BY <2>11, <2>12, <2>13 DEF TracksOk
  <2> QED
    BY <2>4, <2>14
<1> QED
  BY <1>3, <1>4

\* What is to come, a frame at a time.
LEMMA CourseIs ==
    ASSUME NEW h \in 0 .. NumFrames, NEW b \in -1 .. NumFrames - 1,
           Course(h, b) # << >>
    PROVE  /\ Ahead(h, b) /\ Head(Course(h, b)) = NextFrame(h, b)
           /\ Tail(Course(h, b)) = Course(NextH(h), NextB(h, b))
<1> DEFINE m == NumFrames - h + b + 1
           c == Course(h, b)
           e(k) == IF k <= NumFrames - h THEN h + k - 1 ELSE b - (k - (NumFrames - h)) + 1
<1>1. NumFrames \in Nat /\ m \in Nat
  BY TracksAssumption
<1>2. c = [k \in 1 .. m |-> e(k)]
  BY DEF Course
<1>3. \A k \in 1 .. m : e(k) \in Int
  BY <1>1
<1> HIDE DEF e, m, c
<1>4. c \in Seq(Int) /\ Len(c) = m /\ \A k \in 1 .. m : c[k] = e(k)
  <2>1. c \in [1 .. m -> Int]
    BY <1>2, <1>3
  <2> QED
    BY <1>1, <1>2, <2>1, SeqDef
<1>5. m > 0
  BY <1>1, <1>4, EmptySeq DEF c
<1>6. Ahead(h, b)
  BY <1>1, <1>5 DEF Ahead, m
<1>7. Head(c) = NextFrame(h, b)
  <2>1. Head(c) = e(1)
    BY <1>1, <1>4, <1>5
  <2>2. e(1) = NextFrame(h, b)
    BY <1>1 DEF e, NextFrame
  <2> QED
    BY <2>1, <2>2
<1> DEFINE d == Course(NextH(h), NextB(h, b))
           e2(k) == IF k <= NumFrames - NextH(h) THEN NextH(h) + k - 1
                    ELSE NextB(h, b) - (k - (NumFrames - NextH(h))) + 1
<1>8. /\ Tail(c) \in Seq(Int) /\ Len(Tail(c)) = m - 1
      /\ \A k \in 1 .. m - 1 : Tail(c)[k] = c[k + 1]
  BY <1>1, <1>4, <1>5, HeadTailProperties DEF c
<1>9. d = [k \in 1 .. m - 1 |-> e2(k)]
  <2>1. NumFrames - NextH(h) + NextB(h, b) + 1 = m - 1
    BY <1>1, <1>6 DEF NextH, NextB, m
  <2> QED
    BY <2>1 DEF Course
<1>10. ASSUME NEW k \in 1 .. m - 1
       PROVE  e2(k) = e(k + 1) /\ e2(k) \in Int /\ k + 1 \in 1 .. m
  <2>1. k + 1 \in 1 .. m /\ k \in Int
    BY <1>1
  <2>2. CASE h < NumFrames
    BY <1>1, <2>1, <2>2 DEF e, NextH, NextB
  <2>3. CASE ~(h < NumFrames)
    BY <1>1, <2>1, <2>3 DEF e, NextH, NextB
  <2> QED
    BY <2>1, <2>2, <2>3
<1> HIDE DEF d, e2
<1>11. d \in Seq(Int) /\ Len(d) = m - 1
  <2>1. m - 1 \in Nat
    BY <1>1, <1>5
  <2>2. d \in [1 .. m - 1 -> Int]
    BY <1>9, <1>10
  <2> QED
    BY <1>9, <2>1, <2>2, SeqDef
<1>12. \A k \in 1 .. m - 1 : Tail(c)[k] = d[k]
  BY <1>4, <1>8, <1>9, <1>10
<1>13. Tail(c) = d
  BY <1>8, <1>11, <1>12, SeqEqual
<1> QED
  BY <1>6, <1>7, <1>13 DEF c, d

\* A retry is put to a frame of the episode.
LEMMA RetryIsAFrame ==
    ASSUME NEW k \in DOMAIN Quarters
    PROVE  RetryFrame(k) \in Frames
<1>1. Quarters[k] \in 0 .. 4 /\ NumFrames \in Nat \ {0}
  BY TracksAssumption, LenProperties, ElementOfSeq
<1> DEFINE x == Quarters[k] * NumFrames
<1>2. x \in Nat
  BY <1>1
<1>3. RetryFrame(k) = IF x \div 4 < NumFrames THEN x \div 4 ELSE NumFrames - 1
  BY DEF RetryFrame
<1> HIDE DEF x
<1>4. x \div 4 \in Nat
  BY <1>2
<1> QED
  BY <1>1, <1>3, <1>4 DEF Frames

\* The prompts of a plan, each with its role.
RoleNames == {"object", "target", "tool"}
PromptsOf(plan) ==
    {key \in RoleNames \X DOMAIN Slug :
        \E k \in DOMAIN plan[key[1]] : plan[key[1]][k] = key[2]}
KeysOf(plan, role) == [k \in DOMAIN plan[role] |-> <<role, plan[role][k]>>]

\* All prompts of a plan are prompts of one of its roles.
LEMMA PromptsAre ==
    ASSUME NEW plan \in Plans
    PROVE  AllPrompts(plan) \in Seq(PromptsOf(plan))
<1> DEFINE K == PromptsOf(plan)
<1>1. plan \in [object : Seq(DOMAIN Slug), target : Seq(DOMAIN Slug), tool : Seq(DOMAIN Slug)]
  BY PlansAssumption
<1>2. ASSUME NEW role \in RoleNames
      PROVE  KeysOf(plan, role) \in Seq(K)
  <2>1. plan[role] \in Seq(DOMAIN Slug)
    BY <1>1 DEF RoleNames
  <2> DEFINE s == plan[role]
  <2>2. DOMAIN s = 1 .. Len(s) /\ Len(s) \in Nat /\ \A k \in 1 .. Len(s) : s[k] \in DOMAIN Slug
    BY <2>1, LenProperties, ElementOfSeq
  <2>3. KeysOf(plan, role) \in [1 .. Len(s) -> K]
    <3>1. \A k \in 1 .. Len(s) : <<role, s[k]>> \in K
      BY <2>2 DEF PromptsOf
    <3> QED
      BY <2>2, <3>1 DEF KeysOf
  <2> QED
    BY <2>2, <2>3, SeqDef
<1>3. AllPrompts(plan) = KeysOf(plan, "object") \o KeysOf(plan, "target") \o KeysOf(plan, "tool")
  BY DEF AllPrompts, KeysOf
<1> QED
  BY <1>2, <1>3, ConcatProperties DEF RoleNames

-----------------------------------------------------------------------------
(* The steps of an episode. *)

\* An episode begins with nothing wanted and nothing found.
LEMMA EpisodeInit == Init => EpisodeInv
<1> SUFFICES ASSUME Init
             PROVE  EpisodeInv
  OBVIOUS
<1>1. phase = "idle" /\ wanted = << >> /\ found = {} /\ asked = 0 /\ attempts = << >>
  BY DEF Init
<1>2. << >> \in Attempts
  BY EmptySeq DEF Attempts
<1> QED
  BY <1>1, <1>2 DEF EpisodeInv, FoundIsWanted, AttemptsOk, StatesOk, ResultOk, Tracked, At

\* What is wanted is a sequence.
LEMMA WantedIsASeq ==
    ASSUME FoundIsWanted
    PROVE  \E K : wanted \in Seq(K)
<1>1. CASE wanted = << >>
  BY <1>1, EmptySeq
<1>2. CASE \E plan \in Plans : wanted = AllPrompts(plan)
  BY <1>2, PromptsAre
<1> QED
  BY <1>1, <1>2 DEF FoundIsWanted

\* Nothing is found that the plan does not want.
LEMMA FoundStep == ASSUME FoundIsWanted, [Next]_vars PROVE FoundIsWanted'
<1>1. CASE Sam3InitFails \/ Release
  <2>1. wanted' = << >> /\ found' = {} /\ asked' = 0
    BY <1>1 DEF Sam3InitFails, Release, Cleared
  <2> QED
    BY <2>1 DEF FoundIsWanted
<1>2. CASE Plan
  <2>1. /\ phase = "planning" /\ found' = found /\ asked' = asked
        /\ wanted' = wanted \/ \E plan \in Plans : wanted' = AllPrompts(plan)
    BY <1>2 DEF Plan, At
  <2>2. found = {}
    BY <2>1 DEF FoundIsWanted
  <2> QED
    BY <2>1, <2>2 DEF FoundIsWanted
<1>3. CASE GroundPrompt
  <2>1. /\ phase = "grounding" /\ phase' = "grounding" /\ wanted' = wanted
        /\ asked < Len(wanted) /\ asked' = asked + 1
        /\ found' \subseteq found \cup {wanted[asked + 1]}
    BY <1>3 DEF GroundPrompt, At
  <2>2. Len(wanted) \in Nat
    BY WantedIsASeq, LenProperties
  <2>3. asked \in Nat /\ asked + 1 \in 1 .. Len(wanted)
    BY <2>1, <2>2 DEF FoundIsWanted
  <2> QED
    BY <2>1, <2>3 DEF FoundIsWanted
<1>4. CASE Retry
  <2>1. /\ phase = "grounding" /\ phase' = "grounding" /\ wanted' = wanted
        /\ found' = {} /\ asked' \in {0, Len(wanted)}
    BY <1>4 DEF Retry, At
  <2>2. Len(wanted) \in Nat
    BY WantedIsASeq, LenProperties
  <2> QED
    BY <2>1, <2>2 DEF FoundIsWanted
<1>5. CASE \/ Begin \/ RejectPlan \/ GiveUpPlanning \/ PlannerFails \/ LoadSam3
           \/ GroundingFails \/ Adopt \/ NothingFound \/ OpenSession \/ StartSessionFails
           \/ AddPromptFails \/ StartStreams \/ Round \/ StreamFails \/ Finish
           \/ UNCHANGED vars
  <2>1. /\ wanted' = wanted /\ found' = found /\ asked' = asked
        /\ phase' \in {"idle", "planning", "loading"} =>
              phase \in {"idle", "planning", "loading"}
    BY <1>5 DEF Begin, RejectPlan, GiveUpPlanning, PlannerFails, LoadSam3, GroundingFails,
       Adopt, NothingFound, OpenSession, StartSessionFails, AddPromptFails, StartStreams,
       Round, StreamFails, Finish, vars, work, Degrade, DegradeBeforeSam3, Raise, Goto, At
  <2> QED
    BY <2>1 DEF FoundIsWanted
<1> QED
  BY <1>1, <1>2, <1>3, <1>4, <1>5 DEF Next

\* An attempt at grounding is made on a frame of the episode.
LEMMA AttemptsStep == ASSUME AttemptsOk, [Next]_vars PROVE AttemptsOk'
<1> DEFINE A == [frame : Frames, adopted : BOOLEAN]
<1>0. attempts \in Seq(A) /\ Len(attempts) \in Nat
  BY LenProperties DEF AttemptsOk, Attempts
<1>1. CASE Sam3InitFails \/ Release
  <2>1. attempts' = << >> /\ phase' = "idle"
    BY <1>1 DEF Sam3InitFails, Release, Cleared, DegradeBeforeSam3, Goto
  <2>2. << >> \in Attempts
    BY EmptySeq DEF Attempts
  <2> QED
    BY <2>1, <2>2 DEF AttemptsOk
<1>2. CASE LoadSam3
  <2>1. attempts' = <<[frame |-> 0, adopted |-> FALSE]>>
    BY <1>2 DEF LoadSam3
  <2>2. 0 \in Frames
    BY TracksAssumption DEF Frames
  <2>3. attempts' \in Seq(A) /\ Len(attempts') = 1
    BY <2>1, <2>2
  <2> QED
    BY <2>3 DEF AttemptsOk, Attempts
<1>3. CASE Adopt
  <2> DEFINE n == Len(attempts)
             e == [attempts[n] EXCEPT !.adopted = TRUE]
  <2>1. attempts' = [attempts EXCEPT ![n] = e]
    BY <1>3 DEF Adopt
  <2>2. n \in 1 .. n
    <3>1. phase = "grounding"
      BY <1>3 DEF Adopt, At
    <3>2. n > 0
      BY <3>1 DEF AttemptsOk
    <3> QED
      BY <1>0, <3>2
  <2>3. e \in A
    <3>1. attempts[n] \in A
      BY <1>0, <2>2, ElementOfSeq
    <3> QED
      BY <3>1
  <2> HIDE DEF e
  <2>4. attempts' \in Seq(A) /\ Len(attempts') = n
    BY <1>0, <2>1, <2>2, <2>3, ExceptSeq
  <2> QED
    BY <2>2, <2>4 DEF AttemptsOk, Attempts
<1>4. CASE Retry
  <2> DEFINE k == Min(Untried)
             e == [frame |-> RetryFrame(k), adopted |-> FALSE]
  <2>1. Untried # {} /\ attempts' = Append(attempts, e)
    BY <1>4 DEF Retry
  <2>2. Untried \in SUBSET DOMAIN Quarters /\ DOMAIN Quarters \in SUBSET Nat
    BY TracksAssumption, LenProperties DEF Untried
  <2>3. k \in DOMAIN Quarters
    BY <2>1, <2>2, MinOf
  <2>4. e \in A
    BY <2>3, RetryIsAFrame
  <2> HIDE DEF e
  <2>5. attempts' \in Seq(A) /\ Len(attempts') = Len(attempts) + 1
    BY <1>0, <2>1, <2>4, AppendProperties
  <2> QED
    BY <1>0, <2>5 DEF AttemptsOk, Attempts
<1>5. CASE \/ Begin \/ Plan \/ RejectPlan \/ GiveUpPlanning \/ PlannerFails
           \/ GroundPrompt \/ GroundingFails \/ NothingFound \/ OpenSession
           \/ StartSessionFails \/ AddPromptFails \/ StartStreams \/ Round \/ StreamFails
           \/ Finish \/ UNCHANGED vars
  <2>1. /\ attempts' = attempts
        /\ phase' \in {"grounding", "opening"} => phase \in {"grounding", "opening"}
    BY <1>5 DEF Begin, Plan, RejectPlan, GiveUpPlanning, PlannerFails, GroundPrompt,
       GroundingFails, NothingFound, OpenSession, StartSessionFails, AddPromptFails,
       StartStreams, Round, StreamFails, Finish, vars, work, Degrade, DegradeBeforeSam3,
       Raise, Goto, At
  <2> QED
    BY <2>1 DEF AttemptsOk
<1> QED
  BY <1>1, <1>2, <1>3, <1>4, <1>5 DEF Next

\* The state machines keep to what is still to come.
LEMMA StatesStep == ASSUME AttemptsOk, StatesOk, [Next]_vars PROVE StatesOk'
<1>1. CASE StartStreams
  <2>1. PICK again \in BOOLEAN : todo' = SweepOrder(Anchor, again)
    BY <1>1 DEF StartStreams
  <2>2. /\ phase = "opening" /\ states' = [key \in found |-> NoTracks] /\ found' = found
    BY <1>1 DEF StartStreams, At
  <2>3. Anchor \in Frames
    <3>1. attempts \in Seq([frame : Frames, adopted : BOOLEAN]) /\ Len(attempts) > 0
      BY <2>2 DEF AttemptsOk, Attempts
    <3>2. Len(attempts) \in 1 .. Len(attempts)
      BY <3>1, LenProperties
    <3>3. attempts[Len(attempts)] \in [frame : Frames, adopted : BOOLEAN]
      BY <3>1, <3>2, ElementOfSeq
    <3> QED
      BY <3>3 DEF Anchor, Last
  <2> DEFINE b == IF Anchor > 0 /\ again THEN Anchor ELSE Anchor - 1
  <2>4. todo' = Course(Anchor, b)
    BY <2>1 DEF SweepOrder
  <2>5. Anchor \in 0 .. NumFrames /\ b \in -1 .. NumFrames - 1
    BY <2>3, TracksAssumption DEF Frames
  <2> HIDE DEF b
  <2>6. /\ states' = [key \in found' |-> states'[key]]
        /\ \A key \in found' : states'[key] = NoTracks
    BY <2>2
  <2>7. \A key \in found' : StateOk(states'[key], key, Anchor, b)
    BY <2>6, StateBegins
  <2> QED
    BY <2>4, <2>5, <2>6, <2>7 DEF StatesOk
<1>2. CASE Round
  <2>1. phase = "streaming" /\ todo # << >> /\ todo' = Tail(todo) /\ found' = found
    BY <1>2 DEF Round, At
  <2>2. PICK h \in 0 .. NumFrames, b \in -1 .. NumFrames - 1 :
            /\ todo = Course(h, b)
            /\ states = [key \in found |-> states[key]]
            /\ \A key \in found : StateOk(states[key], key, h, b)
    BY <2>1 DEF StatesOk
  <2> DEFINE f == NextFrame(h, b)
             hh == NextH(h)
             bb == NextB(h, b)
  <2>3. Ahead(h, b) /\ Head(todo) = f /\ Tail(todo) = Course(hh, bb)
    BY <2>1, <2>2, CourseIs
  <2>4. hh \in 0 .. NumFrames /\ bb \in -1 .. NumFrames - 1
    BY <2>3, NextIsAFrame
  <2>5. PICK seen :
            states' = IF Head(todo) \in ExpectedFrames
                      THEN [key \in found |->
                               Observe(states[key], key, Head(todo), seen[SpeaksFor(key)])]
                      ELSE states
    BY <1>2 DEF Round
  <2>6. /\ states' = [key \in found' |-> states'[key]]
        /\ \A key \in found' : StateOk(states'[key], key, hh, bb)
    <3>1. CASE f \in ExpectedFrames
      <4>1. states' = [key \in found |-> Observe(states[key], key, f, seen[SpeaksFor(key)])]
        BY <2>3, <2>5, <3>1
      <4>2. ASSUME NEW key \in found, NEW s
            PROVE  StateOk(Observe(states[key], key, f, s), key, hh, bb)
        <5>1. CASE s \in Places
          BY <2>2, <2>3, <5>1, StateSees DEF Observe
        <5>2. CASE s \notin Places
          BY <2>2, <2>3, <5>2, StateWaits DEF Observe
        <5> QED
          BY <5>1, <5>2
      <4> HIDE DEF f, hh, bb
      <4> QED
        BY <2>1, <4>1, <4>2
    <3>2. CASE f \notin ExpectedFrames
      BY <2>1, <2>2, <2>3, <2>5, <3>2, StateSkips
    <3> QED
      BY <3>1, <3>2
  <2> HIDE DEF f, hh, bb
  <2> QED
    BY <2>1, <2>3, <2>4, <2>6 DEF StatesOk
<1>3. CASE UNCHANGED vars
  BY <1>3 DEF vars, StatesOk
<1>4. CASE ~(StartStreams \/ Round \/ UNCHANGED vars)
  <2>1. phase' # "streaming"
    BY <1>4 DEF Next, Begin, Plan, RejectPlan, GiveUpPlanning, PlannerFails, LoadSam3,
       Sam3InitFails, GroundPrompt, GroundingFails, Adopt, Retry, NothingFound, OpenSession,
       StartSessionFails, AddPromptFails, StreamFails, Finish, Release, Degrade,
       DegradeBeforeSam3, Raise, Goto, At
  <2> QED
    BY <2>1 DEF StatesOk
<1> QED
  BY <1>1, <1>2, <1>3, <1>4

\* What propagation returns are the tracks its state machines end with.
LEMMA ResultStep == ASSUME StatesOk, ResultOk, [Next]_vars PROVE ResultOk'
<1>1. CASE Finish
  <2>1. /\ phase = "streaming" /\ found' = found
        /\ tracks' = UNION {Range(FinalTracks(states[key], key)) : key \in found}
    BY <1>1 DEF Finish, At
  <2> DEFINE R(key) == Range(FinalTracks(states[key], key))
  <2>2. \A key \in found : TracksOk(R(key), key)
    BY <2>1, StateEnds DEF StatesOk
  <2>3. tracks' = UNION {R(key) : key \in found}
    BY <2>1
  <2>4. \A key \in found : \A t \in R(key) : t.key = key
    BY <2>2 DEF TracksOk, TrackOf
  <2> HIDE DEF R
  <2>5. \A t \in tracks' : t.key \in found
    BY <2>3, <2>4
  <2>6. \A key \in found : {t \in tracks' : t.key = key} = R(key)
    BY <2>3, <2>4
  <2> QED
    BY <2>1, <2>2, <2>5, <2>6 DEF ResultOk, TracksOf
<1>2. CASE UNCHANGED vars
  BY <1>2 DEF vars, ResultOk, Tracked, TracksOf, At
<1>3. CASE ~(Finish \/ UNCHANGED vars)
  <2>1. ~(phase' = "releasing" /\ outcome' = "tracked")
    BY <1>3 DEF Next, Begin, Plan, RejectPlan, GiveUpPlanning, PlannerFails, LoadSam3,
       Sam3InitFails, GroundPrompt, GroundingFails, Adopt, Retry, NothingFound, OpenSession,
       StartSessionFails, AddPromptFails, StartStreams, Round, StreamFails, Release, Degrade,
       DegradeBeforeSam3, Raise, Goto, At
  <2> QED
    BY <2>1 DEF ResultOk, Tracked, At
<1> QED
  BY <1>1, <1>2, <1>3

\* Every step keeps the invariant of the episode.
LEMMA EpisodeStep == ASSUME EpisodeInv, [Next]_vars PROVE EpisodeInv'
  BY FoundStep, AttemptsStep, StatesStep, ResultStep DEF EpisodeInv

-----------------------------------------------------------------------------
(* The properties. *)

\* The first prompt of a role that was found, in the order of the plan.
LEMMA FirstFound ==
    ASSUME FoundIsWanted, NEW key \in found
    PROVE  \E first \in found :
              /\ first[1] = key[1]
              /\ \A k : k[1] = key[1] => (IsPrimaryKey(wanted, found, k) <=> k = first)
<1> DEFINE I == {i \in 1 .. Len(wanted) : wanted[i][1] = key[1] /\ wanted[i] \in found}
           m == Min(I)
<1>1. Len(wanted) \in Nat
  BY WantedIsASeq, LenProperties
<1>2. I # {} /\ I \in SUBSET Nat
  BY <1>1 DEF FoundIsWanted
<1>3. m \in I
  BY <1>2, MinOf
<1>4. m > 0 /\ wanted[m] \in found /\ wanted[m][1] = key[1]
  BY <1>1, <1>3
<1>5. ASSUME NEW k, k[1] = key[1]
      PROVE  IsPrimaryKey(wanted, found, k) <=> wanted[m] = k
  <2>1. SelectInSeq(wanted, LAMBDA x : x[1] = k[1] /\ x \in found) = m
    BY <1>2, <1>5 DEF SelectInSeq
  <2> QED
    BY <1>4, <2>1 DEF IsPrimaryKey
<1> HIDE DEF m
<1> QED
  BY <1>4, <1>5

\* Of the tracks with one id the signals take one.
LEMMA CentersOfOne ==
    ASSUME FoundIsWanted, NEW ts, NEW t \in ts
    PROVE  \E u \in ts : /\ TrackId(u) = TrackId(t)
                         /\ CentersOf(ts, wanted, TrackId(t)) = CenterFrames(u)
<1> DEFINE same == {u \in ts : TrackId(u) = TrackId(t)}
           place(u) == SelectInSeq(wanted, LAMBDA key : key = u.key)
           T == {place(u) : u \in same}
<1>1. Len(wanted) \in Nat
  BY WantedIsASeq, LenProperties
<1>2. ASSUME NEW u
      PROVE  place(u) \in 0 .. Len(wanted)
  <2> DEFINE I == {i \in 1 .. Len(wanted) : wanted[i] = u.key}
  <2>1. place(u) = IF I # {} THEN Min(I) ELSE 0
    BY DEF SelectInSeq
  <2>2. I \in SUBSET Nat
    BY <1>1
  <2>3. I # {} => Min(I) \in I
    BY <2>2, MinOf
  <2> QED
    BY <1>1, <2>1, <2>3
<1> HIDE DEF place
<1>3. T \in SUBSET (0 .. Len(wanted)) /\ T # {}
  BY <1>2
<1>4. PICK m \in T : \A y \in T : y <= m
  BY <1>1, <1>3, Greatest
<1>5. PICK w \in same : m = place(w)
  BY <1>4
<1>6. \A u \in same : place(u) <= place(w)
  BY <1>4, <1>5
<1> DEFINE c == CHOOSE x \in same : \A u \in same : place(u) <= place(x)
<1>7. c \in same
  BY <1>5, <1>6
<1>8. CentersOf(ts, wanted, TrackId(t)) = CenterFrames(c)
  BY DEF CentersOf, place
<1> HIDE DEF c
<1> QED
  BY <1>7, <1>8

\* The slug of a prompt tells it from the others of its role.
SlugsTell ==
    \A plan \in Plans : \A role \in RoleNames : \A i, j \in DOMAIN plan[role] :
        Slug[plan[role][i]] = Slug[plan[role][j]] => plan[role][i] = plan[role][j]

\* Then tracks with one id are of one prompt.
LEMMA SameIdSameKey ==
    ASSUME FoundIsWanted, SlugsTell, NEW t, NEW u,
           t.key \in found, u.key \in found, TrackId(t) = TrackId(u)
    PROVE  t.key = u.key
<1>1. PICK plan \in Plans : wanted = AllPrompts(plan)
  <2>1. wanted # << >>
    <3>1. \E i \in 1 .. Len(wanted) : wanted[i] = t.key
      BY DEF FoundIsWanted
    <3>2. Len(<< >>) = 0
      BY EmptySeq
    <3> QED
      BY <3>1, <3>2
  <2> QED
    BY <2>1 DEF FoundIsWanted
<1>2. wanted \in Seq(PromptsOf(plan))
  BY <1>1, PromptsAre
<1>3. \A key \in found : key \in PromptsOf(plan)
  BY <1>2, ElementOfSeq DEF FoundIsWanted
<1>4. t.key \in PromptsOf(plan) /\ u.key \in PromptsOf(plan)
  BY <1>3
<1> DEFINE k == t.key
           l == u.key
<1>5. k[1] = l[1] /\ Slug[k[2]] = Slug[l[2]]
  BY DEF TrackId
<1> HIDE DEF k, l
<1>6. PICK i \in DOMAIN plan[k[1]] : plan[k[1]][i] = k[2]
  BY <1>4 DEF PromptsOf, k
<1>7. PICK j \in DOMAIN plan[l[1]] : plan[l[1]][j] = l[2]
  BY <1>4 DEF PromptsOf, l
<1>8. k \in RoleNames \X DOMAIN Slug /\ l \in RoleNames \X DOMAIN Slug
  BY <1>4 DEF PromptsOf, k, l
<1>9. k[1] \in RoleNames
  BY <1>8
<1>10. k[2] = l[2]
  BY <1>5, <1>6, <1>7, <1>9 DEF SlugsTell
<1>11. k = l
  BY <1>5, <1>8, <1>10
<1> QED
  BY <1>11 DEF k, l

\* Each role of which something was found has one primary track.
LEMMA OnePrimaryHolds == EpisodeInv => OnePrimaryPerRole
<1> SUFFICES ASSUME EpisodeInv, Tracked, NEW role \in {key[1] : key \in found}
             PROVE  Cardinality({t \in AssignPrimary(tracks, wanted, found) : t.key[1] = role}) = 1
  BY DEF OnePrimaryPerRole
<1>1. FoundIsWanted /\ \A key \in found : TracksOk(TracksOf(key), key)
  BY DEF EpisodeInv, ResultOk
<1>2. PICK key \in found : key[1] = role
  OBVIOUS
<1>3. PICK first \in found :
          /\ first[1] = role
          /\ \A k : k[1] = role => (IsPrimaryKey(wanted, found, k) <=> k = first)
  BY <1>1, <1>2, FirstFound
<1>4. PICK t \in TracksOf(first) :
          t.index = 0 /\ \A u \in TracksOf(first) : u.index = 0 => u = t
  BY <1>1 DEF TracksOk
<1>5. {u \in AssignPrimary(tracks, wanted, found) : u.key[1] = role} = {t}
  BY <1>3, <1>4 DEF AssignPrimary, TracksOf
<1> QED
  BY <1>5, FS_Singleton

\* Where the object was lost its signals have no number.
LEMMA LostMaskedHolds == SlugsTell /\ EpisodeInv => LostFramesAreMasked
<1> SUFFICES ASSUME SlugsTell, EpisodeInv, Tracked, NEW key \in found, NEW t \in TracksOf(key),
                    NEW f \in ExpectedFrames \ UNION {SampledFrames(u) : u \in TracksOf(key)},
                    f \in CentersOf(tracks, wanted, TrackId(t))
             PROVE  FALSE
  BY DEF LostFramesAreMasked, SpeedFrames, DistanceFrames
<1>1. /\ FoundIsWanted
      /\ \A u \in tracks : u.key \in found
      /\ TracksOk(TracksOf(key), key)
  BY DEF EpisodeInv, ResultOk
<1>2. t \in tracks /\ t.key = key
  BY DEF TracksOf
<1>3. PICK u \in tracks : /\ TrackId(u) = TrackId(t)
                          /\ CentersOf(tracks, wanted, TrackId(t)) = CenterFrames(u)
  BY <1>1, <1>2, CentersOfOne
<1>4. u.key = key
  BY <1>1, <1>2, <1>3, SameIdSameKey
<1>5. /\ u \in TracksOf(key) /\ u \in TrackOf(key) /\ (Len(u.samples) > 0 => Closed(u))
  BY <1>1, <1>4 DEF TracksOk, TracksOf
<1>6. /\ u.samples # << >> /\ ~InGap(u, f)
      /\ FirstFrame(u) <= f /\ f <= LastFrame(u)
  <2>1. f \in CenterFrames(u)
    BY <1>3
  <2>2. u.samples # << >>
    BY <2>1 DEF CenterFrames
  <2>3. Len(u.samples) > 0
    BY <1>5, <2>2, EmptySeq DEF TrackOf
  <2>4. FirstFrame(u) \in Int /\ LastFrame(u) \in Int
    BY <1>5, <2>3, EndsAreFrames
  <2>5. f \in FirstFrame(u) .. LastFrame(u) /\ ~InGap(u, f)
    BY <2>1, <2>2 DEF CenterFrames, FirstFrame, LastFrame, Last
  <2> QED
    BY <2>2, <2>4, <2>5
<1>7. Len(u.samples) > 0
  BY <1>5, <1>6, EmptySeq DEF TrackOf
<1>8. f \in SampledFrames(u)
  BY <1>5, <1>6, <1>7 DEF Closed, Covered
<1> QED
  BY <1>5, <1>8

\* However often an object is lost and found elsewhere, and whichever prompts are found on
\* whichever frame, each role of which something was found has one primary track:
\* _find_primary never raises.
THEOREM OnePrimary == Spec => []OnePrimaryPerRole
  BY EpisodeInit, EpisodeStep, OnePrimaryHolds, PTL DEF Spec

\* If no two prompts that the planner names for a role have one slug, an expected frame at
\* which no good sample was taken has no center, no speed and no distance on any track of
\* its prompt: for any plan, any frames and any way the streams lose and find the objects.
THEOREM LostMasked ==
    ASSUME SlugsTell
    PROVE  Spec => []LostFramesAreMasked
<1>1. EpisodeInv => LostFramesAreMasked
  BY LostMaskedHolds
<1> QED
  BY <1>1, EpisodeInit, EpisodeStep, PTL DEF Spec
=============================================================================
