--------------------------- MODULE HandRunsProofs ---------------------------
(***************************************************************************)
(* Safety properties of the hand pipeline, for a video of any length and   *)
(* any number of calls, troubles and processes.                            *)
(*                                                                         *)
(* ResolvedModelStays: ModelInv is inductive for HandModel.  That a        *)
(* process past the flock holds it is what keeps two from deleting and     *)
(* installing at once, and that only a file which is not good is deleted   *)
(* is what keeps a resolved one.  Every step of HandRuns is a step of      *)
(* HandModel or leaves the model alone.                                    *)
(*                                                                         *)
(* CountedDepthIsThere: the number that reaches the meta.json of phase B   *)
(* has gone through the loop of phase A, its meta.json and phase B.  The   *)
(* invariant follows it: done + skipped is at most the frames passed, and  *)
(* equal only when each of them has its file; files never go away.         *)
(*                                                                         *)
(* PassedOverIsDone: from the claim that pass 1 is complete to             *)
(* signals.json the run is open; what pass 2 writes is what it has in      *)
(* memory, and signals.json is made of that.                               *)
(*                                                                         *)
(* ResumedAsIfAtOnce: on disk there is at all times what pass 1 saw, with  *)
(* some of the gaps filled (PartlyFilled).  What a gap is filled with lies *)
(* on the line between its ends, and what is left of a gap that was partly *)
(* filled lies between points of the same line, so that filling it again   *)
(* comes to the same (FillingResumed).                                     *)
(***************************************************************************)
EXTENDS HandRuns, NaturalsInduction, WellFoundedInduction, TLAPS

-----------------------------------------------------------------------------
(* The shared model file. *)

ModelInv == ModelTypeOK /\ OneDownloader /\ ResolvedModelStays

\* Nobody is at the cache when the first process starts (_MP_LANDMARKER is None).
LEMMA ModelInvInit == ModelInit => ModelInv
  BY HandModelAssumption
  DEF ModelInit, ModelInv, ModelTypeOK, OneDownloader, ResolvedModelStays, Places, Holding, Assets

\* The steps before the lock: the landmarker is asked for, the environment and the
\* size of the cached file are looked at, the lock is taken.
LEMMA ApproachKeepsInv ==
    ASSUME ModelInv, NEW p \in Procs,
           get_mediapipe_hands(p) \/ FromEnvironment(p) \/ FastPath(p) \/ Acquire(p)
    PROVE  ModelInv'
<1> USE HandModelAssumption
    DEF ModelInv, ModelTypeOK, OneDownloader, ResolvedModelStays, Places, Holding, Move
<1>1. CASE get_mediapipe_hands(p)
  BY <1>1 DEF get_mediapipe_hands
<1>2. CASE FromEnvironment(p)
  BY <1>2 DEF FromEnvironment
<1>3. CASE FastPath(p)
  BY <1>3 DEF FastPath
<1>4. CASE Acquire(p)
  BY <1>4 DEF Acquire
<1> QED
  BY <1>1, <1>2, <1>3, <1>4

\* The steps under the lock: only the holder changes the file, and it deletes
\* none that is good.
LEMMA LockedKeepsInv ==
    ASSUME ModelInv, NEW p \in Procs, Recheck(p) \/ Download(p) \/ Install(p)
    PROVE  ModelInv'
<1> USE HandModelAssumption
    DEF ModelInv, ModelTypeOK, OneDownloader, ResolvedModelStays, Places, Holding, Assets,
        Move, Release, Size
<1>1. CASE Recheck(p)
  BY <1>1 DEF Recheck
<1>2. CASE Download(p)
  BY <1>2 DEF Download
<1>3. CASE Install(p)
  BY <1>3 DEF Install
<1> QED
  BY <1>1, <1>2, <1>3

\* The model is opened, asked for again after a failure, or the process ends.
LEMMA LeavingKeepsInv ==
    ASSUME ModelInv, NEW p \in Procs, OpenModel(p) \/ Retry(p) \/ Gone(p)
    PROVE  ModelInv'
<1> USE HandModelAssumption
    DEF ModelInv, ModelTypeOK, OneDownloader, ResolvedModelStays, Places, Holding, Assets, Move
<1>1. CASE OpenModel(p)
  BY <1>1 DEF OpenModel
<1>2. CASE Retry(p)
  BY <1>2 DEF Retry
<1>3. CASE Gone(p)
  BY <1>3 DEF Gone
<1> QED
  BY <1>1, <1>2, <1>3

\* Every step of every process keeps the invariant.
LEMMA ModelInvStep == ModelInv /\ [ModelNext]_modelVars => ModelInv'
<1> SUFFICES ASSUME ModelInv, [ModelNext]_modelVars
             PROVE  ModelInv'
  OBVIOUS
<1>1. CASE UNCHANGED modelVars
  BY <1>1 DEF modelVars, ModelInv, ModelTypeOK, OneDownloader, ResolvedModelStays
<1>2. CASE ModelNext
  <2> PICK p \in Procs : get_mediapipe_hands(p) \/ Resolving(p) \/ Retry(p) \/ Gone(p)
    BY <1>2 DEF ModelNext
  <2> QED
    BY ApproachKeepsInv, LockedKeepsInv, LeavingKeepsInv DEF Resolving
<1> QED
  BY <1>1, <1>2

\* For any number of processes that download, fail and are killed in any order, the
\* flock excludes and a path that was resolved names a whole model until it is opened.
THEOREM ModelSafe == ModelSpec => []ModelInv
<1> QED
  BY ModelInvInit, ModelInvStep, PTL DEF ModelSpec

\* Every step resolves the model as HandModel does, or leaves it alone.
LEMMA ModelRefined == ASSUME [Next]_vars PROVE [ModelNext]_modelVars
<1> USE HandRunsAssumption
<1>1. CASE UNCHANGED vars
  BY <1>1 DEF vars
<1>2. CASE \E overwrite \in Modes : Call(overwrite)
  BY <1>2 DEF Call
<1>3. CASE phase_a \/ SkipDepth \/ ComputeDepth \/ EndDepth
  BY <1>3 DEF phase_a, SkipDepth, ComputeDepth, EndDepth
<1>4. CASE phase_b \/ LoadHands \/ DeclarePass1 \/ Rewrite \/ Interrupt
  BY <1>4 DEF phase_b, LoadHands, DeclarePass1, Rewrite, Interrupt
<1>5. CASE NeedModel
  BY <1>5 DEF NeedModel, ModelNext
<1>6. CASE DetectHands
  BY <1>6 DEF DetectHands
<1>7. CASE FrameFailed \/ SaveFails
  BY <1>7 DEF FrameFailed, SaveFails, ModelNext
<1>8. CASE EndPass1 \/ Stats \/ WriteSignals \/ Kill
  BY <1>8 DEF EndPass1, Stats, WriteSignals, Kill, Exit, ModelNext
<1>9. CASE \E full \in BOOLEAN : run_signals_only(full)
  BY <1>9 DEF run_signals_only
<1>10. CASE ModelStep
  BY <1>10 DEF ModelStep, ModelNext
<1> QED
  BY <1>1, <1>2, <1>3, <1>4, <1>5, <1>6, <1>7, <1>8, <1>9, <1>10 DEF Next

\* The runs of phase B share the model with other processes as HandModel says.
THEOREM ModelImplemented == Spec => ModelSpec
<1>1. Init => ModelInit
  BY DEF Init
<1>2. [Next]_vars => [ModelNext]_modelVars
  BY ModelRefined
<1> QED
  BY <1>1, <1>2, PTL DEF Spec, ModelSpec

\* A model path that phase B has resolved names a whole file until it is opened,
\* whatever other processes download, delete, or leave when they are killed.
THEOREM ResolvedStays == Spec => []ResolvedModelStays
<1>1. ModelInv => ResolvedModelStays
  BY DEF ModelInv
<1> QED
  BY <1>1, ModelImplemented, ModelSafe, PTL

-----------------------------------------------------------------------------
(* The depth files that meta.json counts. *)

DepthFiles == [Frames -> {"none", "ok", "torn"}]
Pcs == {"idle", "phaseA", "phaseB", "depth", "depthEnd", "hands", "pass1", "complete",
        "rewrite", "stats", "signals"}
JobType == [pc : Pcs, overwrite : BOOLEAN, k : Nat, done : Nat, skipped : Nat,
            failures : SUBSET Nat, unsaved : BOOLEAN, sigint : BOOLEAN, cut : BOOLEAN,
            counted : Nat]

There(f) == depth[f] # "none"
AllThere == \A f \in Frames : There(f)

\* What is counted has been passed, and if all that was passed is counted, it is there.
PassedAreCounted ==
    job.pc \in {"depth", "depthEnd"} =>
        /\ job.done + job.skipped <= job.k
        /\ job.k <= N
        /\ job.done + job.skipped = job.k => \A f \in Frames : f < job.k => There(f)

DepthMetaTrue ==
    Readable(depthMeta) =>
        /\ depthMeta.counted \in Nat
        /\ depthMeta.counted = N => AllThere
JobTrue == job.counted = N => AllThere
MetaTrue == Readable(meta) => (meta.counted = N => AllThere)

CountInv ==
    /\ depth \in DepthFiles /\ job \in JobType
    /\ PassedAreCounted /\ DepthMetaTrue /\ JobTrue /\ MetaTrue

\* No process is a process at rest.
LEMMA NoJobType ==
    NoJob \in JobType /\ NoJob.counted = 0 /\ NoJob.pc \notin {"depth", "depthEnd"}
  BY DEF NoJob, JobType, Pcs

\* The fields of a job.
LEMMA JobFields ==
    ASSUME CountInv
    PROVE  /\ job.pc \in Pcs /\ job.overwrite \in BOOLEAN
           /\ job.k \in Nat /\ job.done \in Nat /\ job.skipped \in Nat /\ job.counted \in Nat
           /\ job.k + 1 \in Nat /\ job.done + 1 \in Nat /\ job.skipped + 1 \in Nat
           /\ job.failures \in SUBSET Nat /\ job.failures \cup {job.k} \in SUBSET Nat
           /\ job.unsaved \in BOOLEAN /\ job.sigint \in BOOLEAN /\ job.cut \in BOOLEAN
<1>1. /\ job.pc \in Pcs /\ job.overwrite \in BOOLEAN
      /\ job.k \in Nat /\ job.done \in Nat /\ job.skipped \in Nat /\ job.counted \in Nat
      /\ job.failures \in SUBSET Nat
      /\ job.unsaved \in BOOLEAN /\ job.sigint \in BOOLEAN /\ job.cut \in BOOLEAN
  BY DEF CountInv, JobType
<1> QED
  BY <1>1

\* No call has been made, and no file is there.
LEMMA CountInvInit == Init => CountInv
  BY NoJobType, HandGapsAssumption
  DEF Init, CountInv, DepthFiles, JobType, PassedAreCounted, DepthMetaTrue, JobTrue,
      MetaTrue, AllThere, There, Readable

\* A depth file that is there stays there, torn or not: no step unlinks one.
LEMMA FilesStay ==
    ASSUME CountInv, [Next]_vars
    PROVE  depth' \in DepthFiles /\ \A f \in Frames : There(f) => There(f)'
<1> USE DEF CountInv, DepthFiles, There
<1>1. CASE UNCHANGED depth
  BY <1>1
<1>2. CASE ComputeDepth
  <2>1. job.k \in Frames
    BY <1>2, HandGapsAssumption DEF ComputeDepth, JobType, Frames
  <2>2. CASE DepthDone
    BY <2>1, <2>2 DEF DepthDone
  <2>3. CASE DepthFailed
    BY <2>1, <2>3 DEF DepthFailed
  <2> QED
    BY <1>2, <2>2, <2>3 DEF ComputeDepth
<1>3. CASE Kill
  BY <1>3 DEF Kill
<1>4. Next => ComputeDepth \/ Kill \/ UNCHANGED depth
  BY DEF Next, Call, phase_a, SkipDepth, EndDepth, phase_b, LoadHands, NeedModel, DetectHands,
         FrameFailed, SaveFails, EndPass1, DeclarePass1, Rewrite, Stats, WriteSignals, run_signals_only,
         Interrupt, ModelStep, disk, runVars
<1> QED
  BY <1>1, <1>2, <1>3, <1>4 DEF vars, runVars, disk

\* One frame further, counted only if it is there.
LEMMA PassOne ==
    ASSUME CountInv, job.pc = "depth", job.k \in Frames,
           \A f \in Frames : There(f) => There(f)',
           job'.k = job.k + 1,
           \/ job'.done + job'.skipped = job.done + job.skipped
           \/ job'.done + job'.skipped = job.done + job.skipped + 1 /\ depth'[job.k] # "none"
    PROVE  PassedAreCounted'
<1> DEFINE n == job.done + job.skipped
           m == job'.done + job'.skipped
<1>0. job.done \in Nat /\ job.skipped \in Nat
  BY JobFields
<1>1. n \in Nat /\ (m = n \/ (m = n + 1 /\ depth'[job.k] # "none"))
  <2>1. n \in Nat
    BY <1>0
  <2>2. m = n \/ (m = n + 1 /\ depth'[job.k] # "none")
    OBVIOUS
  <2> QED
    BY <2>1, <2>2
<1> USE JobFields, HandGapsAssumption DEF Frames
<1>2. n <= job.k /\ (n = job.k => \A f \in Frames : f < job.k => There(f))
  BY DEF CountInv, PassedAreCounted
<1> HIDE DEF n, m
<1>3. m <= job'.k /\ job'.k <= N
  BY <1>1, <1>2, SMTT(30)
<1>4. ASSUME m = job'.k, NEW f \in Frames, f < job'.k
      PROVE  There(f)'
  <2>1. n = job.k /\ depth'[job.k] # "none"
    <3>1. job.k \in Nat /\ n \in Nat /\ n <= job.k /\ m = job.k + 1
      BY <1>1, <1>2, <1>4
    <3>2. m # n
      BY <3>1
    <3> QED
      BY <1>1, <3>1, <3>2
  <2>2. f < job.k \/ f = job.k
    BY <1>4
  <2> QED
    BY <1>2, <2>1, <2>2 DEF There
<1> QED
  BY <1>3, <1>4 DEF PassedAreCounted, n, m

\* The loop of phase A: a frame that is skipped was there, one that is counted is there
\* now, one that failed is not counted.
LEMMA LoopCounts ==
    ASSUME CountInv, SkipDepth \/ ComputeDepth, depth' \in DepthFiles,
           \A f \in Frames : There(f) => There(f)'
    PROVE  CountInv'
<1>0. /\ job.done \in Nat /\ job.skipped \in Nat
      /\ job.done + (job.skipped + 1) = job.done + job.skipped + 1
  BY JobFields
<1> USE NoJobType, JobFields, HandGapsAssumption DEF CountInv, At, Frames, Pcs
<1>1. job'.counted = job.counted /\ job' \in JobType /\ PassedAreCounted'
  <2>1. CASE SkipDepth
    <3>1. job.pc = "depth" /\ job.k \in Frames /\ There(job.k) /\ depth' = depth
      BY <2>1 DEF SkipDepth, There, disk
    <3>2. job' = [job EXCEPT !.k = job.k + 1, !.skipped = job.skipped + 1]
      BY <2>1 DEF SkipDepth
    <3>3. /\ job' \in JobType /\ job'.counted = job.counted
          /\ job'.k = job.k + 1 /\ job'.done = job.done /\ job'.skipped = job.skipped + 1
      BY <3>2 DEF JobType
    <3>4. job'.done + job'.skipped = job.done + job.skipped + 1
      BY <1>0, <3>3
    <3>5. depth'[job.k] # "none"
      BY <3>1 DEF There
    <3> HIDE DEF There
    <3> QED
      BY <3>1, <3>3, <3>4, <3>5, PassOne
  <2>2. CASE ComputeDepth /\ DepthDone
    <3>1. job.k \in Frames /\ job.pc = "depth" /\ depth'[job.k] = "ok"
      BY <2>2 DEF ComputeDepth, DepthDone, DepthFiles, JobType
    <3>2. /\ job' = [job EXCEPT !.done = job.done + 1, !.k = job.k + 1, !.cut = job.sigint,
                               !.pc = IF job.sigint THEN "depthEnd" ELSE "depth"]
      BY <2>2 DEF DepthDone, AfterDepth, JobType
    <3>3. /\ job' \in JobType /\ job'.counted = job.counted
          /\ job'.k = job.k + 1 /\ job'.done = job.done + 1 /\ job'.skipped = job.skipped
      BY <3>2, ZenonT(30) DEF JobType
    <3>4. job'.done + job'.skipped = job.done + job.skipped + 1
      BY <1>0, <3>3
    <3>5. depth'[job.k] # "none"
      BY <3>1
    <3> HIDE DEF There
    <3> QED
      BY <3>1, <3>3, <3>4, <3>5, PassOne
  <2>3. CASE ComputeDepth /\ DepthFailed
    <3>1. job.k \in Frames /\ job.pc = "depth"
      BY <2>3 DEF ComputeDepth, JobType
    <3>2. /\ job' = [job EXCEPT !.failures = job.failures \cup {job.k}, !.k = job.k + 1,
                               !.cut = job.sigint,
                               !.pc = IF job.sigint THEN "depthEnd" ELSE "depth"]
      BY <2>3 DEF DepthFailed, AfterDepth, JobType
    <3>3. /\ job' \in JobType /\ job'.counted = job.counted
          /\ job'.k = job.k + 1 /\ job'.done = job.done /\ job'.skipped = job.skipped
      BY <3>2, ZenonT(30) DEF JobType
    <3> HIDE DEF There
    <3> QED
      BY <3>1, <3>3, PassOne
  <2> QED
    BY <2>1, <2>2, <2>3 DEF ComputeDepth
<1>2. UNCHANGED <<depthMeta, meta>>
  BY DEF SkipDepth, ComputeDepth, disk
<1> QED
  BY <1>1, <1>2 DEF DepthMetaTrue, JobTrue, MetaTrue, AllThere, Readable

\* The end of phase A, where the count becomes that of a file: when it is N, every
\* frame was passed and counted.
LEMMA EndCounts ==
    ASSUME CountInv, EndDepth
    PROVE  CountInv'
<1> USE NoJobType, JobFields, HandGapsAssumption DEF CountInv, At, Frames, Pcs
<1>1. UNCHANGED <<depth, meta>>
  BY DEF EndDepth
<1>2. /\ job' \in JobType /\ job'.counted = 0
      /\ job'.pc \notin {"depth", "depthEnd"}
  <2>1. PICK pc \in {"phaseB", "idle"} :
            job' = [NoJob EXCEPT !.pc = pc, !.overwrite = job.overwrite]
    BY DEF EndDepth, NextPhase
  <2> QED
    BY <2>1 DEF JobType
<1>3. DepthMetaTrue'
  <2>1. CASE UNCHANGED depthMeta
    BY <1>1, <2>1 DEF DepthMetaTrue, AllThere, There, Readable
  <2>2. CASE depthMeta' = SavedDepthMeta
    <3>1. job.pc \in {"depth", "depthEnd"}
      BY DEF EndDepth
    <3>2. job.done + job.skipped = N => AllThere
      BY <3>1 DEF PassedAreCounted, JobType, AllThere
    <3>3. depthMeta'.counted = job.done + job.skipped /\ depthMeta'.counted \in Nat
      <4>1. job.done \in Nat /\ job.skipped \in Nat
        BY JobFields
      <4> QED
        BY <2>2, <4>1 DEF SavedDepthMeta
    <3>4. AllThere' = AllThere
      BY <1>1 DEF AllThere, There
    <3> QED
      BY <3>2, <3>3, <3>4 DEF DepthMetaTrue
  <2> QED
    BY <2>1, <2>2 DEF EndDepth
<1> QED
  BY <1>1, <1>2, <1>3 DEF PassedAreCounted, JobTrue, MetaTrue, AllThere, There, Readable

\* Where phase B takes the count over from the meta.json of phase A.
LEMMA StartCounts ==
    ASSUME CountInv, phase_b
    PROVE  CountInv'
<1> USE NoJobType, JobFields, HandGapsAssumption DEF CountInv, Pcs
<1>1. UNCHANGED <<depth, depthMeta, meta>>
  BY DEF phase_b, disk
<1>2. /\ job' \in JobType /\ job'.pc \notin {"depth", "depthEnd"}
      /\ job'.counted = N => AllThere
  <2>1. CASE job' = NoJob
    BY <2>1 DEF JobType
  <2>2. CASE job' = run(job.overwrite) /\ depthMeta # Torn
    <3>1. CASE depthMeta = NoFile
      <4>1. job' = [NoJob EXCEPT !.pc = "hands", !.overwrite = job.overwrite, !.counted = 0]
        BY <2>2, <3>1 DEF run
      <4>2. job' \in JobType /\ job'.pc = "hands" /\ job'.counted = 0
        BY <4>1 DEF JobType
      <4> QED
        BY <4>2
    <3>2. CASE depthMeta # NoFile
      BY <2>2, <3>2, ZenonT(30) DEF run, JobType, DepthMetaTrue, Readable
    <3> QED
      BY <3>1, <3>2
  <2> QED
    BY <2>1, <2>2 DEF phase_b
<1> QED
  BY <1>1, <1>2 DEF PassedAreCounted, DepthMetaTrue, JobTrue, MetaTrue, AllThere, There, Readable

\* Where the count reaches the meta.json of phase B.
LEMMA SaveCounts ==
    ASSUME CountInv, EndPass1 \/ DeclarePass1
    PROVE  CountInv'
<1> USE NoJobType, JobFields, HandGapsAssumption DEF CountInv, Pcs
<1>1. UNCHANGED <<depth, depthMeta>>
  BY DEF EndPass1, DeclarePass1
<1>2. /\ job' \in JobType /\ job'.pc \notin {"depth", "depthEnd"}
      /\ job'.counted = N => job.counted = N
  <2>1. CASE EndPass1
    <3>1. job' = NoJob \/ job' = [job EXCEPT !.pc = "complete"]
      BY <2>1 DEF EndPass1, Exit, Goto
    <3> QED
      BY <3>1, ZenonT(30) DEF JobType
  <2>2. CASE DeclarePass1
    BY <2>2, ZenonT(30) DEF DeclarePass1, JobType
  <2> QED
    BY <2>1, <2>2
<1>3. meta' = SavedMeta(FALSE) \/ meta' = SavedMeta(TRUE)
  BY DEF EndPass1, DeclarePass1
<1>4. meta'.counted = job.counted
  BY <1>3 DEF SavedMeta
<1> QED
  BY <1>1, <1>2, <1>4 DEF PassedAreCounted, DepthMetaTrue, JobTrue, MetaTrue, AllThere, There, Readable

\* A kill loses the job, and can make a meta.json unreadable.
LEMMA KillCounts ==
    ASSUME CountInv, Kill, depth' \in DepthFiles, \A f \in Frames : There(f) => There(f)'
    PROVE  CountInv'
<1>1. job' = NoJob
  BY DEF Kill, Exit
<1>2. depthMeta' \in {depthMeta, Torn} /\ meta' \in {meta, Torn}
  BY DEF Kill
<1> QED
  BY <1>1, <1>2, NoJobType, HandGapsAssumption
  DEF CountInv, JobType, PassedAreCounted, DepthMetaTrue, JobTrue, MetaTrue, AllThere, Readable

\* The other steps leave the depth files, both meta.json and the count of the job
\* alone, and neither enter nor leave the loop of phase A, but for its start.
LEMMA OthersCount ==
    ASSUME CountInv,
           \/ \E overwrite \in Modes : Call(overwrite)
           \/ phase_a \/ LoadHands \/ NeedModel \/ DetectHands \/ FrameFailed \/ SaveFails
           \/ Rewrite \/ Stats \/ WriteSignals
           \/ \E full \in BOOLEAN : run_signals_only(full)
           \/ Interrupt \/ ModelStep
    PROVE  CountInv'
<1> USE NoJobType, JobFields, HandGapsAssumption, HandRunsAssumption DEF CountInv, Pcs
<1>1. UNCHANGED <<depth, depthMeta, meta>>
  BY DEF Call, phase_a, LoadHands, NeedModel, DetectHands, FrameFailed, SaveFails, Rewrite,
         Stats, WriteSignals, run_signals_only, Interrupt, ModelStep, disk, runVars
<1>2. /\ job' \in JobType /\ job'.counted \in {0, job.counted}
      /\ PassedAreCounted'
  <2>1. CASE \E overwrite \in Modes : Call(overwrite)
    <3>1. PICK overwrite \in BOOLEAN, pc \in {"phaseA", "phaseB"} :
              job' = [NoJob EXCEPT !.pc = pc, !.overwrite = overwrite]
      BY <2>1 DEF Call
    <3>2. /\ job' \in JobType /\ job'.counted = 0
          /\ job'.pc \notin {"depth", "depthEnd"}
      BY <3>1 DEF JobType
    <3> QED
      BY <3>2 DEF PassedAreCounted
  <2>2. CASE phase_a
    <3>1. \/ job' = [job EXCEPT !.pc = "phaseB"]
          \/ job' = [NoJob EXCEPT !.pc = "depth", !.overwrite = job.overwrite]
      BY <2>2 DEF phase_a, precompute
    <3>2. CASE job' = [job EXCEPT !.pc = "phaseB"]
      BY <3>2 DEF JobType, PassedAreCounted
    <3>3. CASE job' = [NoJob EXCEPT !.pc = "depth", !.overwrite = job.overwrite]
      <4>1. /\ job' \in JobType /\ job'.counted = 0
            /\ job'.k = NoJob.k /\ job'.done = NoJob.done /\ job'.skipped = NoJob.skipped
        BY <3>3 DEF JobType
      <4> QED
        BY <4>1 DEF NoJob, PassedAreCounted, Frames
    <3> QED
      BY <3>1, <3>2, <3>3
  <2>3. CASE LoadHands \/ DetectHands \/ FrameFailed \/ SaveFails
    <3>1. job.pc = "hands"
      BY <2>3 DEF LoadHands, DetectHands, FrameFailed, SaveFails, Computing, At
    <3>2. /\ job' \in JobType /\ job'.counted = job.counted
          /\ job'.pc \notin {"depth", "depthEnd"}
      <4>1. CASE LoadHands
        BY <3>1, <4>1 DEF LoadHands, JobType
      <4> DEFINE pc1 == IF job.sigint THEN "pass1" ELSE "hands"
      <4>2. pc1 \in {"pass1", "hands"}
        BY Zenon
      <4>3. CASE DetectHands
        <5>1. job' = [job EXCEPT !.k = job.k + 1, !.cut = job.sigint, !.pc = pc1]
          BY <4>3 DEF DetectHands, AfterHands
        <5> HIDE DEF pc1
        <5> QED
          BY <4>2, <5>1 DEF JobType
      <4>4. CASE FrameFailed
        <5>1. job' = [[job EXCEPT !.failures = job.failures \cup {job.k}]
                        EXCEPT !.k = job.k + 1, !.cut = job.sigint, !.pc = pc1]
          BY <4>4 DEF FrameFailed, AfterHands, JobType
        <5> HIDE DEF pc1
        <5> QED
          BY <4>2, <5>1 DEF JobType
      <4>5. CASE SaveFails
        <5>1. job' = [[job EXCEPT !.failures = job.failures \cup {job.k}, !.unsaved = TRUE]
                        EXCEPT !.k = job.k + 1, !.cut = job.sigint, !.pc = pc1]
          BY <4>5 DEF SaveFails, AfterHands, JobType
        <5> HIDE DEF pc1
        <5> QED
          BY <4>2, <5>1 DEF JobType
      <4> QED
        BY <2>3, <4>1, <4>3, <4>4, <4>5
    <3> QED
      BY <3>2 DEF PassedAreCounted
  <2>4. CASE Rewrite
    <3>1. PICK pc \in {"stats", "rewrite"} : job' = [job EXCEPT !.k = job.k + 1, !.pc = pc]
      <4>1. (IF job.k = N - 1 THEN "stats" ELSE "rewrite") \in {"stats", "rewrite"}
        BY Zenon
      <4> QED
        BY <2>4, <4>1 DEF Rewrite
    <3>2. /\ job' \in JobType /\ job'.counted = job.counted
          /\ job'.pc \notin {"depth", "depthEnd"}
      BY <3>1 DEF JobType
    <3> QED
      BY <3>2 DEF PassedAreCounted
  <2>5. CASE Stats \/ WriteSignals
    <3>1. job' = NoJob \/ job' = [job EXCEPT !.pc = "signals"]
      BY <2>5 DEF Stats, WriteSignals, Goto, Exit
    <3>2. /\ job' \in JobType /\ job'.counted \in {0, job.counted}
          /\ job'.pc \notin {"depth", "depthEnd"}
      <4>1. CASE job' = NoJob
        BY <4>1
      <4>2. CASE job' = [job EXCEPT !.pc = "signals"]
        BY <4>2 DEF JobType
      <4> QED
        BY <3>1, <4>1, <4>2
    <3> QED
      BY <3>2 DEF PassedAreCounted
  <2>6. CASE Interrupt
    <3>1. job' = [job EXCEPT !.sigint = TRUE]
      BY <2>6 DEF Interrupt
    <3>2. /\ job' \in JobType /\ job'.counted = job.counted /\ job'.pc = job.pc
          /\ job'.k = job.k /\ job'.done = job.done /\ job'.skipped = job.skipped
      BY <3>1 DEF JobType
    <3> QED
      BY <1>1, <3>2 DEF PassedAreCounted, There
  <2>7. CASE \/ NeedModel \/ ModelStep \/ \E full \in BOOLEAN : run_signals_only(full)
    BY <1>1, <2>7 DEF NeedModel, ModelStep, run_signals_only, runVars, PassedAreCounted, There
  <2> QED
    BY <2>1, <2>2, <2>3, <2>4, <2>5, <2>6, <2>7
<1> QED
  BY <1>1, <1>2 DEF DepthMetaTrue, JobTrue, MetaTrue, AllThere, There, Readable

\* Every step keeps the count.
LEMMA CountInvStep == ASSUME CountInv, [Next]_vars PROVE CountInv'
<1>1. CASE UNCHANGED vars
  BY <1>1 DEF vars, runVars, disk, CountInv, PassedAreCounted, DepthMetaTrue, JobTrue, MetaTrue,
              AllThere, There, Readable
<1>2. CASE Next
  BY <1>2, FilesStay, LoopCounts, EndCounts, StartCounts, SaveCounts, KillCounts, OthersCount
  DEF Next
<1> QED
  BY <1>1, <1>2

\* For a video of any length, however often its two phases fail, are interrupted, killed
\* and called again: the server calls a depth video ready only when every frame has
\* its depth file.
THEOREM CountedIsThere == Spec => []CountedDepthIsThere
<1>1. CountInv => CountedDepthIsThere
  BY DEF CountInv, MetaTrue, CountedDepthIsThere, frames_ok, AllThere, There
<1> QED
  BY <1>1, CountInvInit, CountInvStep, PTL DEF Spec

-----------------------------------------------------------------------------
(* The frames of a gap, and what filling one makes. *)

\* A set of numbers that is bounded has a last one.
LEMMA LastOf ==
    ASSUME NEW m \in Int, NEW T \in SUBSET Int, T # {}, \A x \in T : x <= m
    PROVE  \E i \in T : \A j \in T : j <= i
<1> DEFINE R == OpToRel(<, Nat)
           D == {m - x : x \in T}
<1>1. \A x, y \in Nat : <<x, y>> \in R <=> x < y
  BY DEF OpToRel
<1>2. IsWellFoundedOn(R, Nat)
  BY NatLessThanWellFounded
<1>3. D \in SUBSET Nat /\ D # {}
  <2>1. \A x \in T : m - x \in Nat
    OBVIOUS
  <2>2. PICK x \in T : TRUE
    OBVIOUS
  <2> QED
    BY <2>1, <2>2
<1> HIDE DEF R
<1>4. PICK d \in D : \A y \in D : ~(<<y, d>> \in R)
  <2> HIDE DEF D
  <2> QED
    BY <1>2, <1>3, WFMin
<1>5. PICK i \in T : d = m - i
  OBVIOUS
<1>6. ASSUME NEW j \in T PROVE j <= i
  <2>1. m - j \in D /\ m - j \in Nat /\ m - i \in Nat /\ i \in Int /\ j \in Int
    OBVIOUS
  <2>2. ~(m - j < m - i)
    BY <1>1, <1>4, <1>5, <2>1, Zenon
  <2> QED
    BY <2>1, <2>2
<1> QED
  BY <1>6

\* A gap has a frame before it and a frame after it, or the ends of the video.
LEMMA GapBounds ==
    ASSUME NEW est, DOMAIN est = Frames, NEW s, NEW f \in Frames, Missing(est, s, f)
    PROVE  /\ Before(est, s, f) \in -1 .. f - 1 /\ ~Missing(est, s, Before(est, s, f))
           /\ \A g \in Before(est, s, f) + 1 .. f : Missing(est, s, g)
           /\ After(est, s, f) \in f + 1 .. N /\ ~Missing(est, s, After(est, s, f))
           /\ \A g \in f .. After(est, s, f) - 1 : Missing(est, s, g)
<1>0. N \in Nat \ {0} /\ f \in Int /\ 0 <= f /\ f <= N - 1
  BY HandGapsAssumption DEF Frames
<1>1. ~Missing(est, s, -1) /\ ~Missing(est, s, N)
  BY <1>0 DEF Missing, Seen, Frames
<1>2. \E a \in -1 .. f - 1 : ~Missing(est, s, a) /\ \A g \in a + 1 .. f : Missing(est, s, g)
  <2> DEFINE T == {a \in -1 .. f - 1 : ~Missing(est, s, a)}
  <2>1. T \in SUBSET Int /\ -1 \in T /\ \A x \in T : x <= f
    BY <1>0, <1>1
  <2>2. PICK a \in T : \A j \in T : j <= a
    <3> HIDE DEF T
    <3> QED
      BY <1>0, <2>1, LastOf
  <2>3. ASSUME NEW g \in a + 1 .. f PROVE Missing(est, s, g)
    <3>1. CASE g = f
      BY <3>1
    <3>2. CASE g # f /\ ~Missing(est, s, g)
      <4>1. g \in T /\ ~(g <= a)
        BY <1>0, <3>2
      <4> QED
        BY <2>2, <4>1
    <3> QED
      BY <3>1, <3>2
  <2> QED
    BY <2>2, <2>3
<1>3. \E b \in f + 1 .. N : ~Missing(est, s, b) /\ \A g \in f .. b - 1 : Missing(est, s, g)
  <2> DEFINE B == {b \in f + 1 .. N : ~Missing(est, s, b)}
             T == {0 - b : b \in B}
  <2>1. T \in SUBSET Int /\ 0 - N \in T /\ \A x \in T : x <= 0 - f
    BY <1>0, <1>1
  <2>2. PICK a \in T : \A j \in T : j <= a
    <3>1. 0 - f \in Int /\ T # {}
      BY <1>0, <2>1
    <3> HIDE DEF T
    <3> QED
      BY <2>1, <3>1, LastOf
  <2>3. PICK b \in B : a = 0 - b
    OBVIOUS
  <2>4. \A g \in B : b <= g
    <3> SUFFICES ASSUME NEW g \in B PROVE b <= g
      OBVIOUS
    <3>1. 0 - g \in T /\ g \in Int /\ b \in Int
      BY <1>0
    <3>2. 0 - g <= 0 - b
      BY <2>2, <2>3, <3>1
    <3> QED
      BY <3>1, <3>2
  <2>5. ASSUME NEW g \in f .. b - 1 PROVE Missing(est, s, g)
    <3>1. CASE g = f
      BY <3>1
    <3>2. CASE g # f /\ ~Missing(est, s, g)
      <4>1. g \in B /\ ~(b <= g)
        BY <1>0, <3>2
      <4> QED
        BY <2>4, <4>1
    <3> QED
      BY <3>1, <3>2
  <2> QED
    BY <2>3, <2>5
<1>4. /\ Before(est, s, f) \in -1 .. f - 1 /\ ~Missing(est, s, Before(est, s, f))
      /\ \A g \in Before(est, s, f) + 1 .. f : Missing(est, s, g)
  BY <1>2 DEF Before
<1>5. /\ After(est, s, f) \in f + 1 .. N /\ ~Missing(est, s, After(est, s, f))
      /\ \A g \in f .. After(est, s, f) - 1 : Missing(est, s, g)
  BY <1>3 DEF After
<1> QED
  BY <1>4, <1>5
\* What MediaPipe and the depth map give, and what a failed frame gets, are estimates.
LEMMA EstimatesType ==
    ASSUME NEW raws \in Raws, NEW f \in Frames
    PROVE  Estimates(raws, f) \in Estimate /\ NoHands \in Estimate
<1>1. PICK S \in SUBSET Sides : raws \in [S -> BOOLEAN]
  BY HandRunsAssumption
<1>2. Depth[f] \in Int /\ NoDepth \in Int
  BY HandGapsAssumption DEF Frames, NoDepth
<1>3. apply_metric_depth(raws, f) \in [S -> [depth : Int, filled : BOOLEAN]]
  BY <1>1, <1>2 DEF apply_metric_depth
<1>4. passthrough_estimate(raws) \in [S -> [depth : Int, filled : BOOLEAN]]
  BY <1>1, <1>2 DEF passthrough_estimate
<1>5. Estimates(raws, f) \in [S -> [depth : Int, filled : BOOLEAN]]
  BY <1>3, <1>4 DEF Estimates
<1>6. NoHands \in [{} -> [depth : Int, filled : BOOLEAN]]
  BY DEF NoHands
<1> QED
  BY <1>5, <1>6 DEF Estimate

\* Filling the gaps of a video's estimates gives estimates.
LEMMA FilledType ==
    ASSUME NEW est \in [Frames -> Estimate]
    PROVE  interpolate_side(est) \in [Frames -> Estimate]
<1> DEFINE Hand == [depth : Int, filled : BOOLEAN]
<1>1. ASSUME NEW f \in Frames
      PROVE  interpolate_side(est)[f] \in Estimate
  <2>1. PICK S \in SUBSET Sides : est[f] \in [S -> Hand]
    BY DEF Estimate
  <2>2. ASSUME NEW g, NEW s, Measured(est, s, g)
        PROVE  est[g][s].depth \in Int
    <3>1. g \in Frames /\ s \in DOMAIN est[g]
      BY <2>2 DEF Measured, Seen
    <3>2. PICK S2 \in SUBSET Sides : est[g] \in [S2 -> Hand]
      BY <3>1 DEF Estimate
    <3> QED
      BY <3>1, <3>2
  <2> DEFINE at1(s) == Before(est, s, f)
             to(s) == After(est, s, f)
             value(s) == IF /\ Missing(est, s, f)
                            /\ to(s) - at1(s) - 1 <= MaxGap
                            /\ Measured(est, s, at1(s)) /\ Measured(est, s, to(s))
                         THEN Blend(est[at1(s)][s].depth, est[to(s)][s].depth, f - at1(s), to(s) - at1(s))
                         ELSE est[f][s]
  <2>3. ASSUME NEW s \in S
        PROVE  value(s) \in Hand
    <3>1. CASE /\ Missing(est, s, f)
               /\ Measured(est, s, at1(s)) /\ Measured(est, s, to(s))
      <4>1. PICK a \in Int : a = at1(s) /\ a < f
        BY <3>1, GapBounds, HandGapsAssumption DEF Frames
      <4>2. PICK b \in Int : b = to(s) /\ f < b
        BY <3>1, GapBounds, HandGapsAssumption DEF Frames
      <4>3. est[a][s].depth \in Int /\ est[b][s].depth \in Int
        BY <2>2, <3>1, <4>1, <4>2
      <4>4. f - a \in Int /\ b - a \in Nat \ {0}
        BY <4>1, <4>2 DEF Frames
      <4>5. \A d0, d1, n \in Int, m \in Nat \ {0} : d0 + ((d1 - d0) * n) \div m \in Int
        OBVIOUS
      <4>6. Blend(est[a][s].depth, est[b][s].depth, f - a, b - a) \in Hand
        BY <4>3, <4>4, <4>5 DEF Blend
      <4> HIDE DEF at1, to
      <4>7. est[f][s] \in Hand
        BY <2>1
      <4> QED
        BY <4>1, <4>2, <4>6, <4>7
    <3>2. CASE ~(/\ Missing(est, s, f)
                 /\ Measured(est, s, at1(s)) /\ Measured(est, s, to(s)))
      BY <2>1, <3>2
    <3> QED
      BY <3>1, <3>2
  <2>4. interpolate_side(est)[f] = [s \in S |-> value(s)]
    BY <2>1 DEF interpolate_side
  <2> HIDE DEF value
  <2>5. interpolate_side(est)[f] \in [S -> Hand]
    BY <2>3, <2>4
  <2> QED
    BY <2>5 DEF Estimate
<1>2. interpolate_side(est) = [f \in Frames |-> interpolate_side(est)[f]]
  BY DEF interpolate_side
<1> QED
  BY <1>1, <1>2

\* What generate_signals makes of a video's estimates is a file that is there.
LEMMA SignalsReadable ==
    ASSUME NEW est \in [Frames -> Estimate], NEW full \in BOOLEAN
    PROVE  /\ Readable(generate_signals(est, full))
           /\ generate_signals(est, full).schema = IF full THEN 3 ELSE 1
<1>1. ASSUME NEW f \in Frames
      PROVE  /\ [s \in DOMAIN est[f] |-> est[f][s].depth] \in Signal
             /\ [s \in DOMAIN est[f] |-> est[f][s].depth # NoDepth] \in Signal
  <2>1. PICK S \in SUBSET Sides : est[f] \in [S -> [depth : Int, filled : BOOLEAN]]
    BY DEF Estimate
  <2>2. /\ [s \in DOMAIN est[f] |-> est[f][s].depth] \in [S -> Int \cup BOOLEAN]
        /\ [s \in DOMAIN est[f] |-> est[f][s].depth # NoDepth] \in [S -> Int \cup BOOLEAN]
    BY <2>1
  <2> QED
    BY <2>2 DEF Signal
<1> DEFINE File(F) == [schema : {1, 3}, frames : [F -> Signal]]
<1>2. PICK F \in SUBSET Frames : generate_signals(est, full) \in File(F)
  <2>1. CASE full
    <3>1. generate_signals(est, full) \in File(Frames)
      BY <1>1, <2>1 DEF generate_signals
    <3> QED
      BY <3>1
  <2>2. CASE ~full
    <3> DEFINE F == {g \in Frames : DOMAIN est[g] # {}}
    <3>1. generate_signals(est, full) \in File(F)
      BY <1>1, <2>2 DEF generate_signals
    <3> QED
      BY <3>1
  <2> QED
    BY <2>1, <2>2
<1>3. generate_signals(est, full) \notin {NoFile, Torn}
  BY <1>2, FilesAssumption
<1>4. generate_signals(est, full).schema = IF full THEN 3 ELSE 1
  BY DEF generate_signals
<1> QED
  BY <1>3, <1>4 DEF Readable

-----------------------------------------------------------------------------
(* What is passed over is done. *)

\* signals.json is that of all the frames there are.
SignalsOfAll ==
    /\ \A f \in Frames : pkl[f] # NoFile
    /\ \E full \in BOOLEAN : signals = generate_signals(pkl, full)

\* What phase B has in memory.
Buffered ==
    /\ job.pc = "hands" =>
          /\ job.k <= N /\ ~job.cut
          /\ IF job.k = 0 THEN DOMAIN buffer = {} ELSE buffer \in [0 .. job.k - 1 -> Estimate]
    /\ job.pc = "pass1" => job.cut
    /\ job.pc \in {"complete", "rewrite", "stats", "signals"} => buffer \in [Frames -> Estimate]

\* Pass 2 has written the frames up to k, and then all of them.
Rewritten ==
    /\ job.pc = "rewrite" => job.k \in Frames /\ \A f \in Frames : f < job.k => pkl[f] = buffer[f]
    /\ job.pc \in {"stats", "signals"} => pkl = buffer

\* A run that may change the frames of one that is done is open.
Opened ==
    /\ job.pc \in {"hands", "pass1", "complete"} /\ ~open => ~phase_b_done
    /\ job.pc \in {"rewrite", "stats", "signals"} => open
    /\ phase_b_done /\ ~open => SignalsOfAll

DoneInv ==
    /\ pkl \in [Frames -> Estimate \cup {NoFile}] /\ open \in BOOLEAN
    /\ Buffered /\ Rewritten /\ Opened

\* It holds of a video nothing has run on.
LEMMA DoneInvInit == Init => DoneInv
<1> SUFFICES ASSUME Init PROVE DoneInv
  OBVIOUS
<1>1. job.pc = "idle" /\ open = FALSE /\ ~phase_b_done
  BY DEF Init, NoJob, phase_b_done, Readable
<1>2. pkl \in [Frames -> Estimate \cup {NoFile}]
  BY DEF Init
<1> QED
  BY <1>1, <1>2 DEF DoneInv, Buffered, Rewritten, Opened

\* A step that leaves phase B and its files alone.
LEMMA DoneAside ==
    ASSUME DoneInv, UNCHANGED <<pkl, meta, signals, open>>,
           job'.pc \in {"idle", "phaseA", "phaseB", "depth", "depthEnd"}
    PROVE  DoneInv'
<1>1. DoneInv
  OBVIOUS
<1> QED
  BY <1>1 DEF DoneInv, Buffered, Rewritten, Opened, SignalsOfAll, phase_b_done, Readable

\* phase_b passes over a run that is done, and an --overwrite opens it.
LEMMA DoneStart == ASSUME CountInv, DoneInv, phase_b PROVE DoneInv'
<1>1. CASE job' = NoJob /\ UNCHANGED past
  <2>1. job'.pc = "idle" /\ UNCHANGED <<pkl, meta, signals, open>>
    BY <1>1 DEF phase_b, NoJob, disk, past
  <2> QED
    BY <2>1, DoneAside
<1>2. CASE /\ job' = run(job.overwrite) /\ open' = (open \/ job.overwrite)
           /\ ~(phase_b_done /\ ~job.overwrite)
  <2>1. /\ UNCHANGED <<pkl, meta, signals>> /\ buffer' = << >>
        /\ job.overwrite \in BOOLEAN /\ open \in BOOLEAN
    BY JobFields DEF phase_b, disk, DoneInv
  <2>2. /\ job'.pc = "hands" /\ job'.k = 0 /\ job'.cut = FALSE
    BY <1>2 DEF run, NoJob
  <2>3. 0 .. 0 - 1 = {}
    OBVIOUS
  <2>4. Buffered'
    BY <2>1, <2>2, <2>3, HandGapsAssumption DEF Buffered
  <2>5. Rewritten' /\ Opened'
    BY <1>2, <2>1, <2>2 DEF DoneInv, Rewritten, Opened, SignalsOfAll, phase_b_done, Readable
  <2> QED
    BY <1>2, <2>1, <2>4, <2>5 DEF DoneInv
<1> QED
  BY <1>1, <1>2 DEF phase_b

\* Pass 1, one frame further: h is what is put in memory for it, and what is saved,
\* if anything is.
LEMMA DoneFrame ==
    ASSUME CountInv, DoneInv, job.pc = "hands", job.k < N, NEW h \in Estimate,
           buffer' = Put(job.k, h), UNCHANGED <<meta, signals, open>>,
           \/ pkl' = pkl
           \/ pkl' = [pkl EXCEPT ![job.k] = h],
           job'.k = job.k + 1,
           \/ job'.pc = "hands" /\ ~job'.cut
           \/ job'.pc = "pass1" /\ job'.cut
    PROVE  DoneInv'
<1>1. job.k \in Frames /\ job.k \in Nat /\ N \in Nat
  BY JobFields, HandGapsAssumption DEF Frames
<1>2. /\ DOMAIN buffer = 0 .. job.k - 1
      /\ \A f \in 0 .. job.k - 1 : buffer[f] \in Estimate
      /\ pkl \in [Frames -> Estimate \cup {NoFile}] /\ open \in BOOLEAN
  <2>1. job.k = 0 => 0 .. job.k - 1 = {}
    OBVIOUS
  <2> QED
    BY <2>1 DEF DoneInv, Buffered
<1>3. 0 .. job'.k - 1 = (0 .. job.k - 1) \cup {job.k}
  BY <1>1
<1>4. buffer' \in [0 .. job'.k - 1 -> Estimate] /\ job'.k # 0
  <2>1. \A g \in 0 .. job'.k - 1 : g # job.k => g \in 0 .. job.k - 1
    BY <1>3
  <2> QED
    BY <1>1, <1>2, <1>3, <2>1 DEF Put
<1>5. Buffered'
  BY <1>1, <1>4 DEF Buffered
<1>6. pkl' \in [Frames -> Estimate \cup {NoFile}]
  BY <1>1, <1>2
<1>7. phase_b_done' = phase_b_done
  BY DEF phase_b_done, Readable
<1>8. Rewritten' /\ Opened'
  BY <1>7 DEF DoneInv, Rewritten, Opened
<1> QED
  BY <1>2, <1>5, <1>6, <1>8 DEF DoneInv

\* A frame of pass 1: its file is there, its hands are detected, or it fails.
LEMMA DonePass1 ==
    ASSUME CountInv, DoneInv, LoadHands \/ DetectHands \/ FrameFailed \/ SaveFails
    PROVE  DoneInv'
<1>t. job \in JobType /\ job.k \in Nat
  BY JobFields DEF CountInv
<1>1. job.pc = "hands" /\ job.k < N /\ job.k \in Frames /\ UNCHANGED <<meta, signals, open>>
  BY <1>t, HandGapsAssumption
  DEF LoadHands, DetectHands, FrameFailed, SaveFails, Computing, At, Frames, disk, past
<1>2. ASSUME NEW job1, job1 \in JobType, job1.k = job.k, AfterHands(job1)
      PROVE  /\ job'.k = job.k + 1
             /\ \/ job'.pc = "hands" /\ ~job'.cut
                \/ job'.pc = "pass1" /\ job'.cut
  <2>1. job.sigint \in BOOLEAN
    BY <1>t DEF JobType
  <2>2. CASE job.sigint
    <3>1. job' = [job1 EXCEPT !.k = @ + 1, !.cut = TRUE, !.pc = "pass1"]
      BY <1>2, <2>1, <2>2 DEF AfterHands
    <3> QED
      BY <1>2, <3>1 DEF JobType
  <2>3. CASE ~job.sigint
    <3>1. job' = [job1 EXCEPT !.k = @ + 1, !.cut = FALSE, !.pc = "hands"]
      BY <1>2, <2>1, <2>3 DEF AfterHands
    <3> QED
      BY <1>2, <3>1 DEF JobType
  <2> QED
    BY <2>1, <2>2, <2>3
<1>3. CASE LoadHands
  <2>1. /\ pkl[job.k] # NoFile /\ buffer' = Put(job.k, pkl[job.k]) /\ pkl' = pkl
        /\ job' = [job EXCEPT !.k = @ + 1]
    BY <1>3 DEF LoadHands, disk
  <2>2. pkl[job.k] \in Estimate /\ ~job.cut
    BY <1>1, <2>1 DEF DoneInv, Buffered
  <2>3. job'.k = job.k + 1 /\ job'.pc = "hands" /\ ~job'.cut
    BY <1>t, <1>1, <2>1, <2>2 DEF JobType
  <2> QED
    BY <1>1, <2>1, <2>2, <2>3, DoneFrame
<1>4. CASE DetectHands
  <2>1. PICK raws \in Raws :
            LET hands == Estimates(raws, job.k)
            IN  buffer' = Put(job.k, hands) /\ save_pkl_atomic(job.k, hands)
    BY <1>4 DEF DetectHands
  <2>2. Estimates(raws, job.k) \in Estimate
    BY <1>1, EstimatesType
  <2>3. AfterHands(job)
    BY <1>4 DEF DetectHands
  <2>4. pkl' = [pkl EXCEPT ![job.k] = Estimates(raws, job.k)]
    BY <2>1 DEF save_pkl_atomic
  <2> QED
    BY <1>t, <1>1, <1>2, <2>1, <2>2, <2>3, <2>4, DoneFrame
<1>5. CASE FrameFailed
  <2> DEFINE job1 == [job EXCEPT !.failures = @ \cup {job.k}]
  <2>1. buffer' = Put(job.k, NoHands) /\ pkl' = pkl /\ AfterHands(job1)
    BY <1>5 DEF FrameFailed, disk
  <2>2. NoHands \in Estimate
    <3>1. NoHands \in [{} -> [depth : Int, filled : BOOLEAN]]
      BY DEF NoHands
    <3> QED
      BY <3>1 DEF Estimate
  <2>3. job1 \in JobType /\ job1.k = job.k
    BY <1>t, JobFields DEF JobType
  <2> HIDE DEF job1
  <2> QED
    BY <1>1, <1>2, <2>1, <2>2, <2>3, DoneFrame
<1>6. CASE SaveFails
  <2> DEFINE job1 == [job EXCEPT !.failures = @ \cup {job.k}, !.unsaved = TRUE]
  <2>1. PICK raws \in Raws : buffer' = Put(job.k, Estimates(raws, job.k))
    BY <1>6 DEF SaveFails
  <2>2. pkl' = pkl /\ AfterHands(job1)
    BY <1>6 DEF SaveFails, disk
  <2>3. Estimates(raws, job.k) \in Estimate
    BY <1>1, EstimatesType
  <2>4. job1 \in JobType /\ job1.k = job.k
    BY <1>t, JobFields DEF JobType
  <2> HIDE DEF job1
  <2> QED
    BY <1>1, <1>2, <2>1, <2>2, <2>3, <2>4, DoneFrame
<1> QED
  BY <1>3, <1>4, <1>5, <1>6

\* The end of pass 1 takes back what an earlier run declared.
LEMMA DoneEndPass1 == ASSUME CountInv, DoneInv, EndPass1 PROVE DoneInv'
<1>1. UNCHANGED <<pkl, signals, open>> /\ ~phase_b_done'
  BY DEF EndPass1, past, phase_b_done, SavedMeta
<1>2. CASE job' = NoJob
  BY <1>1, <1>2 DEF DoneInv, Buffered, Rewritten, Opened, NoJob
<1>3. CASE ~job.cut /\ Goto("complete") /\ buffer' = buffer
  <2>1. job'.pc = "complete"
    BY <1>3 DEF Goto, CountInv, JobType
  <2>2. job.pc = "hands" /\ job.k = N
    BY <1>3 DEF EndPass1, At, DoneInv, Buffered
  <2>3. buffer \in [Frames -> Estimate]
    BY <2>2, HandGapsAssumption DEF DoneInv, Buffered, Frames
  <2> QED
    BY <1>1, <1>3, <2>1, <2>3 DEF DoneInv, Buffered, Rewritten, Opened
<1> QED
  BY <1>2, <1>3 DEF EndPass1, Exit

\* Pass 2 fills the gaps in memory; from here to signals.json the run is open.
LEMMA DoneDeclare == ASSUME CountInv, DoneInv, DeclarePass1 PROVE DoneInv'
<1>1. /\ job.pc = "complete" /\ buffer' = interpolate_side(buffer) /\ open' = TRUE
      /\ UNCHANGED <<pkl, signals>>
      /\ job' = [job EXCEPT !.pc = "rewrite", !.k = 0, !.sigint = FALSE]
  BY DEF DeclarePass1, At
<1>2. job'.pc = "rewrite" /\ job'.k = 0 /\ 0 \in Frames
  BY <1>1, HandGapsAssumption DEF CountInv, JobType, Frames
<1>3. buffer' \in [Frames -> Estimate]
  <2>1. buffer \in [Frames -> Estimate]
    BY <1>1 DEF DoneInv, Buffered
  <2> QED
    BY <1>1, <2>1, FilledType
<1>4. \A f \in Frames : ~(f < 0)
  BY HandGapsAssumption DEF Frames
<1> QED
  BY <1>1, <1>2, <1>3, <1>4 DEF DoneInv, Buffered, Rewritten, Opened

\* Pass 2 writes one more frame, and after the last one the files are what is in memory.
LEMMA DoneRewrite == ASSUME CountInv, DoneInv, Rewrite PROVE DoneInv'
<1>1. /\ job.pc = "rewrite" /\ pkl' = [pkl EXCEPT ![job.k] = buffer[job.k]]
      /\ UNCHANGED <<signals, buffer, meta, open>>
      /\ job' = [job EXCEPT !.k = @ + 1, !.pc = IF job.k = N - 1 THEN "stats" ELSE "rewrite"]
  BY DEF Rewrite, At, save_pkl_atomic
<1>2. /\ job.k \in Frames /\ \A f \in Frames : f < job.k => pkl[f] = buffer[f]
      /\ buffer \in [Frames -> Estimate] /\ open = TRUE
      /\ pkl \in [Frames -> Estimate \cup {NoFile}]
  BY <1>1 DEF DoneInv, Buffered, Rewritten, Opened
<1>3. /\ job.k \in Nat /\ N \in Nat \ {0}
      /\ job'.k = job.k + 1 /\ job'.pc = IF job.k = N - 1 THEN "stats" ELSE "rewrite"
  BY <1>1, HandGapsAssumption DEF CountInv, JobType
<1>4. /\ pkl' \in [Frames -> Estimate \cup {NoFile}]
      /\ \A f \in Frames : f < job.k + 1 => pkl'[f] = buffer[f]
  BY <1>1, <1>2, <1>3 DEF Frames
<1>5. CASE job.k = N - 1
  <2>1. \A f \in Frames : pkl'[f] = buffer[f]
    BY <1>3, <1>4, <1>5 DEF Frames
  <2>2. pkl' = buffer'
    BY <1>1, <1>2, <1>4, <2>1
  <2> QED
    BY <1>1, <1>2, <1>3, <1>4, <1>5, <2>2 DEF DoneInv, Buffered, Rewritten, Opened
<1>6. CASE job.k # N - 1
  <2>1. job'.k \in Frames /\ job'.pc = "rewrite"
    BY <1>2, <1>3, <1>6 DEF Frames
  <2> QED
    BY <1>1, <1>2, <1>3, <1>4, <2>1 DEF DoneInv, Buffered, Rewritten, Opened
<1> QED
  BY <1>5, <1>6

\* signals.json is made of what is in memory, which is what the files hold.
LEMMA DoneFinish == ASSUME CountInv, DoneInv, Stats \/ WriteSignals PROVE DoneInv'
<1>1. CASE Stats /\ Goto("signals") /\ buffer' = buffer
  <2>1. /\ job.pc = "stats" /\ UNCHANGED <<pkl, meta, signals, open>>
    BY <1>1 DEF Stats, At, disk, past
  <2>2. job'.pc = "signals"
    BY <1>1 DEF Goto, CountInv, JobType
  <2> QED
    BY <1>1, <2>1, <2>2
    DEF DoneInv, Buffered, Rewritten, Opened, SignalsOfAll, phase_b_done, Readable
<1>2. CASE Stats /\ Exit
  <2>1. job'.pc = "idle" /\ UNCHANGED <<pkl, meta, signals, open>>
    BY <1>2 DEF Stats, Exit, NoJob, disk, past
  <2> QED
    BY <2>1, DoneAside
<1>3. CASE WriteSignals
  <2>1. /\ job.pc = "signals" /\ signals' = generate_signals(buffer, TRUE) /\ open' = FALSE
        /\ job'.pc = "idle" /\ UNCHANGED <<pkl, meta>>
    BY <1>3 DEF WriteSignals, At, Exit, NoJob
  <2>2. buffer \in [Frames -> Estimate] /\ pkl = buffer
    BY <2>1 DEF DoneInv, Buffered, Rewritten
  <2>3. NoFile \notin Estimate
    BY FilesAssumption DEF Estimate
  <2>4. SignalsOfAll'
    BY <2>1, <2>2, <2>3 DEF SignalsOfAll
  <2> QED
    BY <2>1, <2>4 DEF DoneInv, Buffered, Rewritten, Opened
<1> QED
  BY <1>1, <1>2, <1>3 DEF Stats

\* --signals-only of a run that is done makes signals.json of all its frames.
LEMMA DoneSignalsOnly ==
    ASSUME DoneInv, NEW full \in BOOLEAN, run_signals_only(full)
    PROVE  DoneInv'
<1> DEFINE there == {f \in Frames : pkl[f] # NoFile}
<1>1. /\ job.pc = "idle" /\ signals' = generate_signals([f \in there |-> pkl[f]], full)
      /\ UNCHANGED <<pkl, meta, job, buffer, open>>
  BY DEF run_signals_only, At, past
<1>2. ASSUME phase_b_done, ~open PROVE SignalsOfAll'
  <2>1. there = Frames
    BY <1>2 DEF DoneInv, Opened, SignalsOfAll
  <2>2. [f \in there |-> pkl[f]] = pkl
    BY <2>1 DEF DoneInv
  <2> QED
    BY <1>1, <1>2, <2>2 DEF DoneInv, Opened, SignalsOfAll
<1>3. phase_b_done' = phase_b_done
  BY <1>1 DEF phase_b_done, Readable
<1> QED
  BY <1>1, <1>2, <1>3 DEF DoneInv, Buffered, Rewritten, Opened

\* What a kill tears is what an open run, or one that is not done, was writing.
LEMMA DoneKill == ASSUME DoneInv, Kill PROVE DoneInv'
<1>1. job'.pc = "idle" /\ UNCHANGED <<pkl, open>> /\ meta' \in {meta, Torn}
  BY DEF Kill, Exit, NoJob, past
<1>2. ASSUME phase_b_done', ~open PROVE SignalsOfAll'
  <2>1. meta' = meta
    BY <1>1, <1>2 DEF phase_b_done, Readable
  <2>2. phase_b_done
    BY <1>2, <2>1 DEF phase_b_done, Readable
  <2>3. job.pc # "signals" /\ SignalsOfAll
    BY <1>2, <2>2 DEF DoneInv, Opened
  <2>4. signals' = signals
    BY <2>3 DEF Kill, At
  <2> QED
    BY <1>1, <2>3, <2>4 DEF SignalsOfAll
<1> QED
  BY <1>1, <1>2 DEF DoneInv, Buffered, Rewritten, Opened

\* Around phase B no step enters it but phase_b.
LEMMA AroundPhaseB ==
    ASSUME CountInv,
           \/ \E overwrite \in Modes : Call(overwrite)
           \/ phase_a \/ SkipDepth \/ ComputeDepth \/ EndDepth
    PROVE  job'.pc \in {"idle", "phaseA", "phaseB", "depth", "depthEnd"}
<1>t. job \in JobType /\ NoJob \in JobType
  BY NoJobType DEF CountInv
<1>1. CASE \E overwrite \in Modes : Call(overwrite)
  BY <1>1, <1>t DEF Call, JobType
<1>2. CASE phase_a
  BY <1>2, <1>t DEF phase_a, precompute, JobType
<1>3. CASE SkipDepth
  BY <1>3, <1>t DEF SkipDepth, At, JobType
<1>4. CASE ComputeDepth
  <2> DEFINE pc1 == IF job.sigint THEN "depthEnd" ELSE "depth"
  <2>1. pc1 \in {"depthEnd", "depth"}
    BY Zenon
  <2>2. \E job1 \in JobType : AfterDepth(job1)
    <3>1. [job EXCEPT !.done = @ + 1] \in JobType
      BY <1>t DEF JobType
    <3>2. [job EXCEPT !.failures = @ \cup {job.k}] \in JobType
      BY <1>t DEF JobType
    <3> QED
      BY <1>4, <3>1, <3>2 DEF ComputeDepth, DepthDone, DepthFailed
  <2>3. PICK job1 \in JobType : job' = [job1 EXCEPT !.k = @ + 1, !.cut = job.sigint, !.pc = pc1]
    BY <2>2 DEF AfterDepth
  <2> HIDE DEF pc1
  <2> QED
    BY <2>1, <2>3 DEF JobType
<1>5. CASE EndDepth
  BY <1>5, <1>t DEF EndDepth, NextPhase, JobType
<1> QED
  BY <1>1, <1>2, <1>3, <1>4, <1>5

\* Every step keeps it.
LEMMA DoneInvStep == ASSUME CountInv, DoneInv, [Next]_vars PROVE DoneInv'
<1>1. CASE \/ \E overwrite \in Modes : Call(overwrite)
           \/ phase_a \/ SkipDepth \/ ComputeDepth \/ EndDepth
  <2>1. UNCHANGED <<pkl, meta, signals, open>>
    BY <1>1 DEF Call, phase_a, SkipDepth, ComputeDepth, EndDepth, disk, past
  <2>2. job'.pc \in {"idle", "phaseA", "phaseB", "depth", "depthEnd"}
    BY <1>1, AroundPhaseB
  <2> QED
    BY <2>1, <2>2, DoneAside
<1>2. CASE Interrupt
  <2>1. /\ UNCHANGED <<pkl, meta, signals, open, buffer>>
        /\ job' = [job EXCEPT !.sigint = TRUE]
    BY <1>2 DEF Interrupt, disk, past
  <2>2. job'.pc = job.pc /\ job'.k = job.k /\ job'.cut = job.cut
    BY <2>1 DEF CountInv, JobType
  <2> QED
    BY <2>1, <2>2 DEF DoneInv, Buffered, Rewritten, Opened, SignalsOfAll, phase_b_done, Readable
<1>3. CASE NeedModel \/ ModelStep \/ UNCHANGED vars
  <2>1. UNCHANGED <<pkl, meta, signals, open, buffer, job>>
    BY <1>3 DEF NeedModel, ModelStep, vars, runVars, disk, past
  <2> QED
    BY <2>1 DEF DoneInv, Buffered, Rewritten, Opened, SignalsOfAll, phase_b_done, Readable
<1> QED
  BY <1>1, <1>2, <1>3, DoneStart, DonePass1, DoneEndPass1, DoneDeclare, DoneRewrite,
     DoneFinish, DoneSignalsOnly, DoneKill DEF Next

\* What run_all_pipeline.sh takes for done and passes over has the signals of all the
\* frames of the video, whatever failed, was interrupted, killed or called again.
THEOREM PassedOver == Spec => []PassedOverIsDone
<1>1. DoneInv => PassedOverIsDone
  <2> SUFFICES ASSUME DoneInv, phase_b_done, ~open
               PROVE  Readable(signals) /\ signals = generate_signals(pkl, signals.schema = 3)
    BY DEF PassedOverIsDone
  <2>1. PICK full \in BOOLEAN : signals = generate_signals(pkl, full)
    BY DEF DoneInv, Opened, SignalsOfAll
  <2>2. pkl \in [Frames -> Estimate]
    BY DEF DoneInv, Opened, SignalsOfAll
  <2>3. Readable(signals) /\ signals.schema = IF full THEN 3 ELSE 1
    BY <2>1, <2>2, SignalsReadable
  <2>4. (signals.schema = 3) = full
    BY <2>3
  <2> QED
    BY <2>1, <2>3, <2>4
<1>2. CountInv /\ DoneInv /\ [Next]_vars => CountInv' /\ DoneInv'
  BY CountInvStep, DoneInvStep
<1> QED
  BY <1>1, <1>2, CountInvInit, DoneInvInit, PTL DEF Spec
-----------------------------------------------------------------------------
(* Pass 2 over frames of which some were filled before. *)

\* The frames from a to b are a gap that is filled, between two measured ones.
Gap(S, s, a, b) ==
    /\ a \in Frames /\ b \in Frames /\ a < b /\ b - a <= MaxGap + 1
    /\ Measured(S, s, a) /\ Measured(S, s, b)
    /\ \A g \in a + 1 .. b - 1 : Missing(S, s, g)

\* What is put there for f: the point of the line from a to b.
OnLine(f, a, b) == (Depth[a] * (b - f) + Depth[b] * (f - a)) \div (b - a)
Line(f, a, b) == [filled |-> TRUE, depth |-> OnLine(f, a, b)]

\* S holds the estimates of some frames as pass 1 makes them.
Originals(S) ==
    /\ DOMAIN S \subseteq Frames
    /\ \A f \in DOMAIN S : \A s \in DOMAIN S[f] : S[f][s].depth \in {NoDepth, Depth[f]}

\* M is S with some of the gaps filled.
PartlyFilled(M, S) ==
    /\ DOMAIN M = DOMAIN S
    /\ \A f \in DOMAIN S :
          /\ M[f] = [s \in DOMAIN S[f] |-> M[f][s]]
          /\ \A s \in DOMAIN S[f] :
                \/ M[f][s] = S[f][s]
                \/ \E a, b \in Frames :
                      a < f /\ f < b /\ Gap(S, s, a, b) /\ M[f][s] = Line(f, a, b)

\* The frames that have a file, and what pass 1 has made of them all.
Kept(files) == [f \in {g \in Frames : files[g] # NoFile} |-> files[f]]
First == [f \in Frames |-> IF f \in job.failures THEN NoHands ELSE seen[f]]

\* Pass 1 has loaded what there was of frame f, or saved it, or failed.  Nothing is
\* said of the failed ones once a file could not be saved.
Taken(f) ==
    IF f \in job.failures
    THEN ~job.unsaved => buffer[f] = NoHands /\ (~job.overwrite => pkl[f] = NoFile)
    ELSE seen[f] # NoFile /\ buffer[f] = (IF job.overwrite THEN seen[f] ELSE pkl[f])

SeenTrue ==
    /\ seen \in [Frames -> Estimate \cup {NoFile}]
    /\ Originals(Kept(seen))
    /\ \A f \in Frames : pkl[f] = NoFile <=> seen[f] = NoFile

\* An --overwrite mixes the files until its last frame, a file that was not saved for
\* longer.
Overwriting ==
    job.pc \in {"hands", "complete", "rewrite"} /\ (job.overwrite \/ job.unsaved) => mixed

InPass1 ==
    /\ job.pc = "hands" =>
          /\ \A f \in job.failures : f < job.k
          /\ \A f \in Frames : f < job.k => Taken(f)
    /\ job.pc = "complete" => \A f \in Frames : Taken(f)

InPass2 ==
    job.pc = "rewrite" =>
        /\ \A f \in Frames \ job.failures : seen[f] # NoFile
        /\ ~job.unsaved /\ (job.overwrite \/ ~mixed) =>
              /\ buffer = Filled(First)
              /\ \A f \in Frames \cap job.failures :
                    /\ f < job.k => seen[f] = NoHands
                    /\ f >= job.k /\ ~job.overwrite => pkl[f] = NoFile

ResumeInv ==
    /\ SeenTrue /\ mixed \in BOOLEAN
    /\ ~mixed => PartlyFilled(Kept(pkl), Kept(seen))
    /\ Overwriting /\ InPass1 /\ InPass2
    /\ ResumedAsIfAtOnce

\* What a division without remainder gives.
LEMMA WholeQuotient ==
    ASSUME NEW d \in Int, NEW n \in Nat \ {0}, d % n = 0
    PROVE  \E q \in Int : d = n * q
<1>1. d = n * (d \div n) /\ d \div n \in Int
  BY Z3
<1> QED
  BY <1>1

\* Dividing a multiple.
LEMMA DivideMultiple ==
    ASSUME NEW n \in Nat \ {0}, NEW y \in Int
    PROVE  (n * y) \div n = y
<1> QED
  BY Z3

\* The points of a line that is divided into whole steps of q.
LEMMA PointOfLine ==
    ASSUME NEW x \in Int, NEW q \in Int, NEW n \in Nat \ {0}, NEW m \in Int
    PROVE  (x * (n - m) + (x + n * q) * m) \div n = x + q * m
<1> DEFINE y == x + q * m
<1>1. y \in Int
  OBVIOUS
<1>2. x * (n - m) + (x + n * q) * m = n * y
  BY Z3
<1> HIDE DEF y
<1>3. (n * y) \div n = y
  BY <1>1, DivideMultiple
<1>4. (x * (n - m) + (x + n * q) * m) \div n = y
  BY <1>2, <1>3
<1> QED
  BY <1>4 DEF y

\* Between two points of the line a blend finds a point of the line.
LEMMA BlendOnLine ==
    ASSUME NEW x \in Int, NEW q \in Int, NEW u \in Int, NEW v \in Int, NEW w \in Int, u < v
    PROVE  (x + q * u) + (((x + q * v) - (x + q * u)) * (w - u)) \div (v - u) = x + q * w
<1> DEFINE n == v - u
           y == q * (w - u)
<1>1. n \in Nat \ {0} /\ y \in Int
  OBVIOUS
<1>2. ((x + q * v) - (x + q * u)) * (w - u) = n * y
  BY Z3
<1>3. (x + q * u) + y = x + q * w
  BY Z3
<1> HIDE DEF n, y
<1>4. (n * y) \div n = y
  BY <1>1, DivideMultiple
<1>5. (x + q * u) + (((x + q * v) - (x + q * u)) * (w - u)) \div n = x + q * w
  BY <1>2, <1>3, <1>4
<1> QED
  BY <1>5 DEF n

\* Between two depths that are not negative no point of the line is.
LEMMA LineNotNegative ==
    ASSUME NEW x \in Nat, NEW q \in Int, NEW n \in Nat, x + n * q >= 0,
           NEW m \in 0 .. n
    PROVE  x + q * m \in Nat
<1>1. CASE q >= 0
  <2>1. q * m >= 0
    BY <1>1
  <2> QED
    BY <2>1
<1>2. CASE q < 0
  <2>1. (0 - q) * (n - m) >= 0
    BY <1>2
  <2>2. (0 - q) * (n - m) = q * m - n * q
    BY Z3
  <2>3. q * m \in Int /\ n * q \in Int
    OBVIOUS
  <2> QED
    BY <2>1, <2>2, <2>3
<1> QED
  BY <1>1, <1>2

\* The frames of a video are numbers, and each has its depth.
LEMMA FrameFacts ==
    /\ N \in Nat \ {0} /\ MaxGap \in Nat /\ NoDepth = -1
    /\ \A f \in Frames : f \in Nat /\ f <= N - 1 /\ Depth[f] \in Nat
    /\ \A f \in Int : 0 <= f /\ f <= N - 1 => f \in Frames
<1>1. N \in Nat \ {0} /\ MaxGap \in Nat /\ Depth \in [0 .. N - 1 -> Nat] /\ NoDepth = -1
  BY HandGapsAssumption DEF NoDepth
<1>2. \A f \in Frames : f \in Nat /\ f <= N - 1 /\ Depth[f] \in Nat
  BY <1>1 DEF Frames
<1>3. \A f \in Int : 0 <= f /\ f <= N - 1 => f \in Frames
  BY <1>1 DEF Frames
<1> QED
  BY <1>1, <1>2, <1>3

\* With whole steps there is a q for each gap, and the line is what it says.
LEMMA LineIs ==
    ASSUME WholeSteps, NEW a \in Frames, NEW b \in Frames, a < b, b - a <= MaxGap + 1
    PROVE  \E q \in Int :
              /\ \A f \in Frames : OnLine(f, a, b) = Depth[a] + q * (f - a)
              /\ \A f \in a .. b : Depth[a] + q * (f - a) \in Nat
              /\ Depth[b] = Depth[a] + q * (b - a)
<1>1. PICK q \in Int : Depth[b] - Depth[a] = (b - a) * q
  <2>1. (Depth[b] - Depth[a]) % (b - a) = 0
    BY DEF WholeSteps
  <2>2. Depth[b] - Depth[a] \in Int /\ b - a \in Nat \ {0}
    BY FrameFacts
  <2> QED
    BY <2>1, <2>2, WholeQuotient
<1> DEFINE x == Depth[a]
           n == b - a
<1>2. /\ x \in Nat /\ Depth[b] \in Nat /\ a \in Nat /\ b \in Nat /\ n \in Nat \ {0}
      /\ Depth[b] - x = n * q
  BY <1>1, FrameFacts
<1>3. Depth[b] = x + n * q
  <2> HIDE DEF x, n
  <2>1. n * q \in Int
    BY <1>2
  <2> QED
    BY <1>2, <2>1
<1>4. ASSUME NEW f \in Frames
      PROVE  OnLine(f, a, b) = x + q * (f - a)
  <2> DEFINE m == f - a
  <2>1. m \in Int /\ b - f = n - m
    BY <1>2, FrameFacts
  <2> HIDE DEF x, n, m
  <2>2. (x * (n - m) + (x + n * q) * m) \div n = x + q * m
    BY <1>2, <2>1, PointOfLine
  <2> QED
    BY <1>3, <2>1, <2>2 DEF OnLine, x, n, m
<1>5. ASSUME NEW f \in a .. b
      PROVE  x + q * (f - a) \in Nat
  <2> DEFINE m == f - a
  <2>1. m \in 0 .. n
    BY <1>2
  <2> HIDE DEF x, n, m
  <2>2. x + n * q >= 0
    BY <1>2, <1>3
  <2>3. x + q * m \in Nat
    BY <1>2, <2>1, <2>2, LineNotNegative
  <2> QED
    BY <2>3 DEF m
<1>6. n * q = q * n
  <2> HIDE DEF n
  <2> QED
    BY <1>2
<1> QED
  BY <1>3, <1>4, <1>5, <1>6

\* A point of the line of a gap is a depth.
LEMMA LineIsDepth ==
    ASSUME WholeSteps, NEW S, NEW s, NEW a, NEW b, NEW f, Gap(S, s, a, b), f \in a .. b
    PROVE  OnLine(f, a, b) \in Nat /\ OnLine(f, a, b) # NoDepth
<1>1. a \in Frames /\ b \in Frames /\ a < b /\ b - a <= MaxGap + 1
  BY DEF Gap
<1>2. PICK q \in Int :
          /\ \A g \in Frames : OnLine(g, a, b) = Depth[a] + q * (g - a)
          /\ \A g \in a .. b : Depth[a] + q * (g - a) \in Nat
  BY <1>1, LineIs
<1>3. f \in Frames
  BY <1>1, FrameFacts
<1>4. OnLine(f, a, b) \in Nat
  BY <1>2, <1>3
<1> QED
  BY <1>4, FrameFacts

\* Blending two points of the line of a gap gives a point of that line.
LEMMA BlendOfLine ==
    ASSUME WholeSteps, NEW S, NEW s, NEW a, NEW b, Gap(S, s, a, b),
           NEW u \in a .. b, NEW v \in a .. b, NEW f \in a .. b, u < v
    PROVE  Blend(OnLine(u, a, b), OnLine(v, a, b), f - u, v - u) = Line(f, a, b)
<1>1. a \in Frames /\ b \in Frames /\ a < b /\ b - a <= MaxGap + 1
  BY DEF Gap
<1>2. PICK q \in Int : \A g \in Frames : OnLine(g, a, b) = Depth[a] + q * (g - a)
  BY <1>1, LineIs
<1>3. /\ a \in Nat /\ b \in Nat /\ Depth[a] \in Nat
      /\ \A g \in a .. b : g \in Frames
  BY <1>1, FrameFacts
<1> DEFINE U == u - a
           V == v - a
           W == f - a
           x == Depth[a]
<1>4. U \in Int /\ V \in Int /\ W \in Int /\ U < V /\ x \in Int /\ W - U = f - u /\ V - U = v - u
  BY <1>3
<1>5. OnLine(u, a, b) = x + q * U /\ OnLine(v, a, b) = x + q * V /\ OnLine(f, a, b) = x + q * W
  BY <1>2, <1>3
<1> HIDE DEF U, V, W, x
<1>6. (x + q * U) + (((x + q * V) - (x + q * U)) * (W - U)) \div (V - U) = x + q * W
  BY <1>2, <1>4, BlendOnLine
<1>7. OnLine(u, a, b) + ((OnLine(v, a, b) - OnLine(u, a, b)) * (f - u)) \div (v - u)
      = OnLine(f, a, b)
  BY <1>4, <1>5, <1>6, Zenon
<1> QED
  BY <1>7 DEF Blend, Line

\* The ends of a line are the measured depths.
LEMMA LineEnds ==
    ASSUME WholeSteps, NEW S, NEW s, NEW a, NEW b, Gap(S, s, a, b), Originals(S)
    PROVE  /\ OnLine(a, a, b) = Depth[a] /\ S[a][s].depth = Depth[a]
           /\ OnLine(b, a, b) = Depth[b] /\ S[b][s].depth = Depth[b]
<1>1. a \in Frames /\ b \in Frames /\ a < b /\ b - a <= MaxGap + 1
  BY DEF Gap
<1>2. PICK q \in Int :
          /\ \A g \in Frames : OnLine(g, a, b) = Depth[a] + q * (g - a)
          /\ Depth[b] = Depth[a] + q * (b - a)
  BY <1>1, LineIs
<1>3. OnLine(b, a, b) = Depth[b]
  BY <1>1, <1>2
<1>4. OnLine(a, a, b) = Depth[a]
  <2>1. a - a = 0 /\ q * 0 = 0 /\ Depth[a] + 0 = Depth[a]
    BY <1>1, FrameFacts
  <2> QED
    BY <1>1, <1>2, <2>1
<1> QED
  BY <1>3, <1>4 DEF Gap, Measured, Seen, Originals

\* Two gaps with a frame in common are one.
LEMMA OneGap ==
    ASSUME NEW S, NEW s, NEW a, NEW b, NEW c, NEW d, NEW f \in Int,
           Gap(S, s, a, b), a < f, f < b, Gap(S, s, c, d), c < f, f < d
    PROVE  a = c /\ b = d
<1>1. a \in Nat /\ b \in Nat /\ c \in Nat /\ d \in Nat
  BY FrameFacts DEF Gap
<1>2. \A g : Measured(S, s, g) => ~Missing(S, s, g)
  BY DEF Measured, Missing
<1>3. /\ ~(a \in c + 1 .. d - 1) /\ ~(b \in c + 1 .. d - 1)
      /\ ~(c \in a + 1 .. b - 1) /\ ~(d \in a + 1 .. b - 1)
  BY <1>2 DEF Gap
<1> QED
  BY <1>1, <1>3

\* What filling changes is a hand without depth: whether a hand is seen stays, a hand
\* that is missing was missing, one that was measured is as it was.
LEMMA FilledKeeps ==
    ASSUME WholeSteps, NEW S, NEW M, Originals(S), PartlyFilled(M, S), NEW s, NEW g
    PROVE  /\ Seen(M, s, g) <=> Seen(S, s, g)
           /\ Missing(M, s, g) => Missing(S, s, g) /\ M[g][s] = S[g][s]
           /\ Measured(S, s, g) => Measured(M, s, g) /\ M[g][s] = S[g][s]
<1>1. Seen(M, s, g) <=> Seen(S, s, g)
  BY DEF Seen, PartlyFilled
<1>2. ASSUME Seen(S, s, g), M[g][s] # S[g][s]
      PROVE  Missing(S, s, g) /\ ~Missing(M, s, g)
  <2>1. PICK a, b \in Frames : a < g /\ g < b /\ Gap(S, s, a, b) /\ M[g][s] = Line(g, a, b)
    BY <1>2 DEF Seen, PartlyFilled
  <2>2. g \in Nat /\ a \in Nat /\ b \in Nat
    BY <1>2, FrameFacts DEF Seen, Originals
  <2>3. g \in a + 1 .. b - 1 /\ g \in a .. b
    BY <2>1, <2>2
  <2>4. M[g][s].depth # NoDepth
    BY <2>1, <2>3, LineIsDepth DEF Line
  <2> QED
    BY <2>1, <2>3, <2>4 DEF Gap, Missing
<1> QED
  BY <1>1, <1>2 DEF Missing, Measured

\* The depth a hand has in M is measured, or that of a line.
LEMMA FilledDepth ==
    ASSUME WholeSteps, NEW S, NEW M, Originals(S), PartlyFilled(M, S), NEW s, NEW g,
           Measured(M, s, g)
    PROVE  \/ Measured(S, s, g) /\ M[g][s] = S[g][s]
           \/ \E a, b \in Frames :
                 a < g /\ g < b /\ Gap(S, s, a, b) /\ M[g][s].depth = OnLine(g, a, b)
<1>1. Seen(S, s, g) /\ M[g][s].depth # NoDepth
  BY FilledKeeps DEF Measured
<1>2. CASE M[g][s] = S[g][s]
  BY <1>1, <1>2 DEF Measured
<1>3. CASE M[g][s] # S[g][s]
  <2>1. PICK a, b \in Frames : a < g /\ g < b /\ Gap(S, s, a, b) /\ M[g][s] = Line(g, a, b)
    BY <1>1, <1>3 DEF Seen, PartlyFilled
  <2> QED
    BY <2>1 DEF Line
<1> QED
  BY <1>2, <1>3

\* A gap that a pass finds in frames that were partly filled lies in one of the original
\* frames, and what is put there is on its line.
LEMMA FindsGap ==
    ASSUME WholeSteps, NEW S, NEW M, Originals(S), PartlyFilled(M, S), NEW s,
           NEW a \in Frames, NEW b \in Frames, NEW f \in Frames, a < f, f < b,
           b - a <= MaxGap + 1, Measured(M, s, a), Measured(M, s, b),
           \A g \in a + 1 .. b - 1 : Missing(M, s, g)
    PROVE  \E c, d \in Frames :
              /\ Gap(S, s, c, d) /\ c < f /\ f < d
              /\ Blend(M[a][s].depth, M[b][s].depth, f - a, b - a) = Line(f, c, d)
<1>0. a \in Nat /\ b \in Nat /\ f \in Nat /\ MaxGap \in Nat
  BY FrameFacts
<1>1. \A g \in a + 1 .. b - 1 : Missing(S, s, g) /\ ~Measured(S, s, g)
  BY FilledKeeps DEF Missing, Measured
<1>2. \E c, d \in Frames : Gap(S, s, c, d) /\ c <= a /\ b <= d
                           /\ M[a][s].depth = OnLine(a, c, d) /\ M[b][s].depth = OnLine(b, c, d)
  <2>1. CASE Measured(S, s, a) /\ Measured(S, s, b)
    <3>1. Gap(S, s, a, b)
      BY <1>0, <1>1, <2>1 DEF Gap
    <3>2. M[a][s] = S[a][s] /\ M[b][s] = S[b][s]
      BY <2>1, FilledKeeps
    <3>3. a <= a /\ b <= b
      BY <1>0
    <3> QED
      BY <3>1, <3>2, <3>3, LineEnds
  <2>2. CASE ~Measured(S, s, a)
    <3>1. PICK c, d \in Frames :
              c < a /\ a < d /\ Gap(S, s, c, d) /\ M[a][s].depth = OnLine(a, c, d)
      BY <2>2, FilledDepth
    <3>2. c \in Nat /\ d \in Nat
      BY FrameFacts
    <3>3. b <= d
      <4>1. Measured(S, s, d)
        BY <3>1 DEF Gap
      <4>2. ~(d \in a + 1 .. b - 1)
        BY <1>1, <4>1
      <4> QED
        BY <1>0, <3>1, <3>2, <4>2
    <3>4. CASE Measured(S, s, b)
      <4>1. ~(b \in c + 1 .. d - 1)
        BY <3>1, <3>4 DEF Gap, Missing, Measured
      <4>2. b = d
        BY <1>0, <3>1, <3>2, <3>3, <4>1
      <4>3. M[b][s].depth = OnLine(b, c, d)
        BY <3>1, <3>4, <4>2, FilledKeeps, LineEnds
      <4>4. c <= a
        BY <1>0, <3>1, <3>2
      <4> QED
        BY <3>1, <3>3, <4>3, <4>4
    <3>5. CASE ~Measured(S, s, b)
      <4>1. PICK k, l \in Frames :
                k < b /\ b < l /\ Gap(S, s, k, l) /\ M[b][s].depth = OnLine(b, k, l)
        BY <3>5, FilledDepth
      <4>2. k \in Nat /\ l \in Nat
        BY FrameFacts
      <4>3. k < f
        <5>1. Measured(S, s, k)
          BY <4>1 DEF Gap
        <5>2. ~(k \in a + 1 .. b - 1)
          BY <1>1, <5>1
        <5> QED
          BY <1>0, <4>1, <4>2, <5>2
      <4>4. c < f /\ f < d /\ f < l /\ c <= a
        BY <1>0, <3>1, <3>2, <3>3, <4>1, <4>2
      <4>5. k = c /\ l = d
        <5>1. f \in Int
          BY <1>0
        <5>2. Gap(S, s, k, l) /\ Gap(S, s, c, d)
          BY <3>1, <4>1, Zenon
        <5>3. k < f /\ f < l /\ c < f /\ f < d
          BY <4>3, <4>4
        <5> QED
          BY <5>1, <5>2, <5>3, OneGap, Zenon
      <4> QED
        BY <3>1, <3>3, <4>1, <4>4, <4>5
    <3> QED
      BY <3>4, <3>5
  <2>3. CASE Measured(S, s, a) /\ ~Measured(S, s, b)
    <3>1. PICK c, d \in Frames :
              c < b /\ b < d /\ Gap(S, s, c, d) /\ M[b][s].depth = OnLine(b, c, d)
      BY <2>3, FilledDepth
    <3>2. c \in Nat /\ d \in Nat
      BY FrameFacts
    <3>3. c <= a
      <4>1. Measured(S, s, c)
        BY <3>1 DEF Gap
      <4>2. ~(c \in a + 1 .. b - 1)
        BY <1>1, <4>1
      <4> QED
        BY <1>0, <3>1, <3>2, <4>2
    <3>4. ~(a \in c + 1 .. d - 1)
      BY <2>3, <3>1 DEF Gap, Missing, Measured
    <3>5. a = c /\ c <= a /\ b <= d
      BY <1>0, <3>1, <3>2, <3>3, <3>4
    <3>6. M[a][s].depth = OnLine(a, c, d)
      BY <2>3, <3>1, <3>5, FilledKeeps, LineEnds
    <3> QED
      BY <3>1, <3>5, <3>6
  <2> QED
    BY <2>1, <2>2, <2>3
<1>3. PICK c, d \in Frames :
          /\ Gap(S, s, c, d) /\ c <= a /\ b <= d
          /\ M[a][s].depth = OnLine(a, c, d) /\ M[b][s].depth = OnLine(b, c, d)
  BY <1>2
<1>4. c \in Nat /\ d \in Nat
  BY FrameFacts
<1>5. a \in c .. d /\ b \in c .. d /\ f \in c .. d /\ a < b /\ c < f /\ f < d
  BY <1>0, <1>3, <1>4
<1>6. Blend(OnLine(a, c, d), OnLine(b, c, d), f - a, b - a) = Line(f, c, d)
  BY <1>3, <1>5, BlendOfLine
<1> QED
  BY <1>3, <1>5, <1>6

\* What one run makes of the frames has the hands they have.
LEMMA FilledShape ==
    ASSUME NEW S
    PROVE  Filled(S) = [f \in Frames |-> [s \in DOMAIN S[f] |-> Filled(S)[f][s]]]
<1> DEFINE Ends(f, s) ==
              {e \in (0 .. f - 1) \X (f + 1 .. N - 1) :
                  /\ e[2] - e[1] <= MaxGap + 1
                  /\ Measured(S, s, e[1]) /\ Measured(S, s, e[2])
                  /\ \A g \in e[1] + 1 .. e[2] - 1 : Missing(S, s, g)}
           Point(f, s, e) ==
              [filled |-> TRUE,
               depth |-> (S[e[1]][s].depth * (e[2] - f) + S[e[2]][s].depth * (f - e[1]))
                         \div (e[2] - e[1])]
           hand(f, s) ==
              IF Ends(f, s) = {} THEN S[f][s]
              ELSE Point(f, s, CHOOSE e \in Ends(f, s) : TRUE)
<1>1. Filled(S) = [f \in Frames |-> [s \in DOMAIN S[f] |-> hand(f, s)]]
  BY DEF Filled
<1> HIDE DEF hand
<1> QED
  BY <1>1

\* What one run makes of a hand: a point of the line if it lies in a gap.
LEMMA FilledIs ==
    ASSUME WholeSteps, NEW S, Originals(S), NEW f \in Frames, NEW s \in DOMAIN S[f]
    PROVE  /\ \A a, b \in Frames :
                 Gap(S, s, a, b) /\ a < f /\ f < b => Filled(S)[f][s] = Line(f, a, b)
           /\ (\A a, b \in Frames : ~(Gap(S, s, a, b) /\ a < f /\ f < b))
                 => Filled(S)[f][s] = S[f][s]
<1> DEFINE Ends ==
            {e \in (0 .. f - 1) \X (f + 1 .. N - 1) :
                /\ e[2] - e[1] <= MaxGap + 1
                /\ Measured(S, s, e[1]) /\ Measured(S, s, e[2])
                /\ \A g \in e[1] + 1 .. e[2] - 1 : Missing(S, s, g)}
           Chosen == CHOOSE e \in Ends : TRUE
           Point(a, b) ==
            [filled |-> TRUE,
             depth |-> (S[a][s].depth * (b - f) + S[b][s].depth * (f - a)) \div (b - a)]
<1>1. Filled(S)[f][s] = IF Ends = {} THEN S[f][s] ELSE Point(Chosen[1], Chosen[2])
  BY DEF Filled
<1>2. \A a, b \in Frames : Gap(S, s, a, b) /\ a < f /\ f < b => <<a, b>> \in Ends
  BY FrameFacts DEF Gap
<1>3. ASSUME NEW e \in Ends
      PROVE  e[1] \in Frames /\ e[2] \in Frames /\ Gap(S, s, e[1], e[2]) /\ e[1] < f /\ f < e[2]
  BY FrameFacts DEF Gap
<1> HIDE DEF Ends
<1>4. ASSUME NEW a \in Frames, NEW b \in Frames, Gap(S, s, a, b), a < f, f < b
      PROVE  Filled(S)[f][s] = Line(f, a, b)
  <2>1. Chosen \in Ends
    BY <1>2, <1>4
  <2> HIDE DEF Chosen
  <2>2. Gap(S, s, Chosen[1], Chosen[2]) /\ Chosen[1] < f /\ f < Chosen[2]
    BY <1>3, <2>1
  <2>3. Chosen[1] = a /\ Chosen[2] = b
    <3>1. f \in Int
      BY FrameFacts
    <3>2. Gap(S, s, a, b) /\ a < f /\ f < b
      BY <1>4
    <3>3. ASSUME NEW c, NEW d, Gap(S, s, c, d), c < f, f < d
          PROVE  c = a /\ d = b
      BY <3>1, <3>2, <3>3, OneGap
    <3> QED
      BY <2>2, <3>3
  <2>4. Filled(S)[f][s] = Point(a, b)
    BY <1>1, <2>1, <2>3
  <2>5. S[a][s].depth = Depth[a] /\ S[b][s].depth = Depth[b]
    BY <1>4, LineEnds
  <2> QED
    BY <2>4, <2>5 DEF Line, OnLine
<1>5. ASSUME \A a, b \in Frames : ~(Gap(S, s, a, b) /\ a < f /\ f < b)
      PROVE  Filled(S)[f][s] = S[f][s]
  BY <1>1, <1>3, <1>5
<1> QED
  BY <1>4, <1>5

\* If a gap of the original frames lies around a hand that is still missing, the pass
\* finds what is left of it.
LEMMA GapIsFound ==
    ASSUME WholeSteps, NEW S, NEW M, Originals(S), PartlyFilled(M, S), DOMAIN S = Frames,
           NEW s, NEW f \in Frames, Missing(M, s, f),
           NEW c \in Frames, NEW d \in Frames, Gap(S, s, c, d), c < f, f < d
    PROVE  /\ Before(M, s, f) \in Frames /\ After(M, s, f) \in Frames
           /\ After(M, s, f) - Before(M, s, f) - 1 <= MaxGap
           /\ Measured(M, s, Before(M, s, f)) /\ Measured(M, s, After(M, s, f))
<1> DEFINE a == Before(M, s, f)
           b == After(M, s, f)
<1>1. /\ a \in -1 .. f - 1 /\ ~Missing(M, s, a) /\ \A g \in a + 1 .. f : Missing(M, s, g)
      /\ b \in f + 1 .. N /\ ~Missing(M, s, b) /\ \A g \in f .. b - 1 : Missing(M, s, g)
  BY GapBounds DEF PartlyFilled
<1>2. /\ c \in Nat /\ d \in Nat /\ f \in Nat /\ N \in Nat /\ MaxGap \in Nat
      /\ d <= N - 1 /\ d - c <= MaxGap + 1
  BY FrameFacts DEF Gap
<1>3. Measured(M, s, c) /\ Measured(M, s, d)
  BY FilledKeeps DEF Gap
<1>4. ~Missing(M, s, c) /\ ~Missing(M, s, d)
  BY <1>3 DEF Measured, Missing
<1>5. \A g \in c + 1 .. d - 1 : Seen(M, s, g)
  BY FilledKeeps DEF Gap, Missing
<1> HIDE DEF a, b
<1>6. ~(c \in a + 1 .. f) /\ ~(d \in f .. b - 1)
  BY <1>1, <1>4
<1>7. c <= a /\ b <= d
  BY <1>1, <1>2, <1>6
<1>8. Measured(M, s, a)
  <2>1. CASE a = c
    BY <1>3, <2>1
  <2>2. CASE a # c
    <3>1. a \in c + 1 .. d - 1
      BY <1>1, <1>2, <1>7, <2>2
    <3> QED
      BY <1>1, <1>5, <3>1 DEF Measured, Missing
  <2> QED
    BY <2>1, <2>2
<1>9. Measured(M, s, b)
  <2>1. CASE b = d
    BY <1>3, <2>1
  <2>2. CASE b # d
    <3>1. b \in c + 1 .. d - 1
      BY <1>1, <1>2, <1>7, <2>2
    <3> QED
      BY <1>1, <1>5, <3>1 DEF Measured, Missing
  <2> QED
    BY <2>1, <2>2
<1>10. a \in Frames /\ b \in Frames /\ b - a - 1 <= MaxGap
  BY <1>1, <1>2, <1>7, FrameFacts
<1> QED
  BY <1>8, <1>9, <1>10 DEF a, b

\* Filling frames that were partly filled before comes to what filling the original
\* ones comes to.
LEMMA FillingResumed ==
    ASSUME WholeSteps, NEW S, NEW M, Originals(S), PartlyFilled(M, S), DOMAIN S = Frames
    PROVE  interpolate_side(M) = Filled(S)
<1> DEFINE a(f, s) == Before(M, s, f)
           b(f, s) == After(M, s, f)
           found(f, s) == /\ Missing(M, s, f) /\ b(f, s) - a(f, s) - 1 <= MaxGap
                          /\ Measured(M, s, a(f, s)) /\ Measured(M, s, b(f, s))
           value(f, s) ==
              IF found(f, s)
              THEN Blend(M[a(f, s)][s].depth, M[b(f, s)][s].depth, f - a(f, s), b(f, s) - a(f, s))
              ELSE M[f][s]
<1>1. interpolate_side(M) = [f \in Frames |-> [s \in DOMAIN S[f] |-> value(f, s)]]
  <2>1. DOMAIN M = Frames /\ \A f \in Frames : DOMAIN M[f] = DOMAIN S[f]
    BY DEF PartlyFilled
  <2>2. interpolate_side(M) = [f \in DOMAIN M |-> [s \in DOMAIN M[f] |-> value(f, s)]]
    BY DEF interpolate_side
  <2> HIDE DEF value
  <2> QED
    BY <2>1, <2>2
<1>2. Filled(S) = [f \in Frames |-> [s \in DOMAIN S[f] |-> Filled(S)[f][s]]]
  BY FilledShape
<1>3. ASSUME NEW f \in Frames, NEW s \in DOMAIN S[f]
      PROVE  value(f, s) = Filled(S)[f][s]
  <2>0. Seen(S, s, f)
    BY <1>3 DEF Seen
  <2>1. CASE found(f, s)
    <3>1. /\ a(f, s) \in -1 .. f - 1 /\ \A g \in a(f, s) + 1 .. f : Missing(M, s, g)
          /\ b(f, s) \in f + 1 .. N /\ \A g \in f .. b(f, s) - 1 : Missing(M, s, g)
      BY <2>1, GapBounds DEF PartlyFilled
    <3>2. a(f, s) \in Frames /\ b(f, s) \in Frames
      BY <2>1 DEF Measured, Seen, PartlyFilled
    <3> DEFINE A == a(f, s)
               B == b(f, s)
    <3>3. value(f, s) = Blend(M[A][s].depth, M[B][s].depth, f - A, B - A)
      BY <2>1
    <3>4. B - A - 1 <= MaxGap /\ Measured(M, s, A) /\ Measured(M, s, B)
      BY <2>1
    <3> HIDE DEF A, B, a, b
    <3>5. A \in Frames /\ B \in Frames /\ A < f /\ f < B /\ B - A <= MaxGap + 1
      BY <3>1, <3>2, <3>4, FrameFacts DEF A, B
    <3>6. \A g \in A + 1 .. B - 1 : Missing(M, s, g)
      <4> SUFFICES ASSUME NEW g \in A + 1 .. B - 1 PROVE Missing(M, s, g)
        OBVIOUS
      <4>1. A \in Nat /\ B \in Nat /\ f \in Nat
        BY <3>5, FrameFacts
      <4>2. g \in A + 1 .. f \/ g \in f .. B - 1
        BY <4>1
      <4> QED
        BY <3>1, <4>2 DEF A, B
    <3>7. PICK c, d \in Frames :
              /\ Gap(S, s, c, d) /\ c < f /\ f < d
              /\ Blend(M[A][s].depth, M[B][s].depth, f - A, B - A) = Line(f, c, d)
      BY <3>4, <3>5, <3>6, FindsGap
    <3> HIDE DEF value
    <3> QED
      BY <3>3, <3>7, FilledIs
  <2>2. CASE ~found(f, s) /\ Missing(M, s, f)
    <3>1. \A c, d \in Frames : ~(Gap(S, s, c, d) /\ c < f /\ f < d)
      BY <2>2, GapIsFound
    <3>2. value(f, s) = M[f][s]
      BY <2>2
    <3>3. M[f][s] = S[f][s]
      BY <2>2, FilledKeeps
    <3> HIDE DEF value
    <3> QED
      BY <3>1, <3>2, <3>3, FilledIs
  <2>3. CASE ~Missing(M, s, f)
    <3>1. value(f, s) = M[f][s]
      BY <2>3
    <3>2. CASE M[f][s] = S[f][s]
      <4>1. ~Missing(S, s, f)
        BY <2>0, <2>3, <3>2, FilledKeeps DEF Missing
      <4>2. \A c, d \in Frames : ~(Gap(S, s, c, d) /\ c < f /\ f < d)
        <5> SUFFICES ASSUME NEW c \in Frames, NEW d \in Frames, Gap(S, s, c, d), c < f, f < d
                     PROVE  FALSE
          OBVIOUS
        <5>1. f \in c + 1 .. d - 1
          BY FrameFacts
        <5> QED
          BY <4>1, <5>1 DEF Gap
      <4> HIDE DEF value
      <4> QED
        BY <3>1, <3>2, <4>2, FilledIs
    <3>3. CASE M[f][s] # S[f][s]
      <4>1. PICK c, d \in Frames : c < f /\ f < d /\ Gap(S, s, c, d) /\ M[f][s] = Line(f, c, d)
        BY <3>3 DEF PartlyFilled
      <4> HIDE DEF value
      <4> QED
        BY <3>1, <4>1, FilledIs
    <3> QED
      BY <3>2, <3>3
  <2> QED
    BY <2>1, <2>2, <2>3
<1> HIDE DEF value
<1> QED
  BY <1>1, <1>2, <1>3

\* What pass 1 makes of a frame is what MediaPipe and the depth map show.
LEMMA EstimatesTrue ==
    ASSUME NEW raws, NEW f \in Frames, NEW s \in DOMAIN Estimates(raws, f)
    PROVE  Estimates(raws, f)[s].depth \in {NoDepth, Depth[f]}
  BY DEF Estimates, apply_metric_depth, passthrough_estimate

\* The estimates of a frame are a function of its hands, and a file that is there.
LEMMA EstimateShape ==
    ASSUME NEW e \in Estimate
    PROVE  e = [s \in DOMAIN e |-> e[s]] /\ e # NoFile
<1>1. PICK S \in SUBSET Sides : e \in [S -> [depth : Int, filled : BOOLEAN]]
  BY DEF Estimate
<1>2. e # NoFile
  BY <1>1, FilesAssumption
<1> QED
  BY <1>1, <1>2

\* A frame without hands is an estimate.
LEMMA NoHandsShape == NoHands \in Estimate /\ DOMAIN NoHands = {}
<1>1. NoHands \in [{} -> [depth : Int, filled : BOOLEAN]]
  BY DEF NoHands
<1> QED
  BY <1>1 DEF Estimate

\* The frames that have a file, all of them and one.
LEMMA KeptIs ==
    ASSUME NEW files
    PROVE  /\ DOMAIN Kept(files) = {f \in Frames : files[f] # NoFile}
           /\ \A f \in DOMAIN Kept(files) : Kept(files)[f] = files[f]
  BY DEF Kept

LEMMA KeptAt ==
    ASSUME NEW files, NEW f \in Frames, files[f] # NoFile
    PROVE  f \in DOMAIN Kept(files) /\ Kept(files)[f] = files[f]
  BY DEF Kept

\* A gap stays one when other frames come to it, and frames without hands make none.
LEMMA GapExtends ==
    ASSUME NEW S, NEW S1, DOMAIN S \subseteq DOMAIN S1, \A f \in DOMAIN S : S1[f] = S[f],
           NEW s, NEW a, NEW b
    PROVE  /\ Gap(S, s, a, b) => Gap(S1, s, a, b)
           /\ (\A f \in DOMAIN S1 \ DOMAIN S : DOMAIN S1[f] = {})
                 => (Gap(S1, s, a, b) => Gap(S, s, a, b))
<1>1. \A g : /\ Missing(S, s, g) => Missing(S1, s, g)
             /\ Measured(S, s, g) => Measured(S1, s, g)
  BY DEF Missing, Measured, Seen
<1>2. ASSUME \A f \in DOMAIN S1 \ DOMAIN S : DOMAIN S1[f] = {}
      PROVE  \A g : /\ Missing(S1, s, g) => Missing(S, s, g)
                    /\ Measured(S1, s, g) => Measured(S, s, g)
  BY <1>2 DEF Missing, Measured, Seen
<1> QED
  BY <1>1, <1>2 DEF Gap

\* Frames that come to it as pass 1 makes them leave what is filled filled.
LEMMA FillingGrows ==
    ASSUME NEW S, NEW M, NEW S1, NEW M1, PartlyFilled(M, S),
           DOMAIN S \subseteq DOMAIN S1, DOMAIN M1 = DOMAIN S1,
           \A f \in DOMAIN S : S1[f] = S[f] /\ M1[f] = M[f],
           \A f \in DOMAIN S1 \ DOMAIN S : M1[f] = S1[f] /\ S1[f] \in Estimate
    PROVE  PartlyFilled(M1, S1)
<1> SUFFICES ASSUME NEW f \in DOMAIN S1
             PROVE  /\ M1[f] = [s \in DOMAIN S1[f] |-> M1[f][s]]
                    /\ \A s \in DOMAIN S1[f] :
                          \/ M1[f][s] = S1[f][s]
                          \/ \E a, b \in Frames :
                                /\ a < f /\ f < b /\ Gap(S1, s, a, b)
                                /\ M1[f][s] = Line(f, a, b)
  BY DEF PartlyFilled
<1>1. CASE f \in DOMAIN S
  <2>1. S1[f] = S[f] /\ M1[f] = M[f]
    BY <1>1
  <2>2. M1[f] = [s \in DOMAIN S1[f] |-> M1[f][s]]
    BY <1>1, <2>1 DEF PartlyFilled
  <2>3. ASSUME NEW s \in DOMAIN S1[f], M1[f][s] # S1[f][s]
        PROVE  \E a, b \in Frames :
                  a < f /\ f < b /\ Gap(S1, s, a, b) /\ M1[f][s] = Line(f, a, b)
    <3>1. PICK a, b \in Frames :
              a < f /\ f < b /\ Gap(S, s, a, b) /\ M[f][s] = Line(f, a, b)
      BY <1>1, <2>1, <2>3 DEF PartlyFilled
    <3>2. Gap(S1, s, a, b)
      BY <3>1, GapExtends
    <3> QED
      BY <2>1, <3>1, <3>2
  <2> QED
    BY <2>2, <2>3
<1>2. CASE f \notin DOMAIN S
  BY <1>2, EstimateShape
<1> QED
  BY <1>1, <1>2

\* What one run makes of the frames is one way to fill them.
LEMMA FilledIsPartly ==
    ASSUME WholeSteps, NEW S, Originals(S), DOMAIN S = Frames
    PROVE  PartlyFilled(Filled(S), S)
<1>1. DOMAIN Filled(S) = Frames
  BY DEF Filled
<1>2. ASSUME NEW f \in Frames
      PROVE  Filled(S)[f] = [s \in DOMAIN S[f] |-> Filled(S)[f][s]]
  BY FilledShape
<1>3. ASSUME NEW f \in Frames, NEW s \in DOMAIN S[f], Filled(S)[f][s] # S[f][s]
      PROVE  \E a, b \in Frames :
                a < f /\ f < b /\ Gap(S, s, a, b) /\ Filled(S)[f][s] = Line(f, a, b)
  <2>1. PICK a, b \in Frames : Gap(S, s, a, b) /\ a < f /\ f < b
    BY <1>3, FilledIs
  <2>2. Filled(S)[f][s] = Line(f, a, b)
    BY <2>1, FilledIs
  <2> QED
    BY <2>1, <2>2
<1> QED
  BY <1>1, <1>2, <1>3 DEF PartlyFilled

-----------------------------------------------------------------------------
(* Every run ends with what one run makes of the frames. *)

\* A video nothing has run on.
LEMMA ResumeInit == Init => ResumeInv
<1> SUFFICES ASSUME Init PROVE ResumeInv
  OBVIOUS
<1>1. /\ job.pc = "idle" /\ mixed = FALSE
      /\ pkl = [f \in Frames |-> NoFile] /\ seen = [f \in Frames |-> NoFile]
  BY DEF Init, NoJob
<1>2. DOMAIN Kept(pkl) = {} /\ DOMAIN Kept(seen) = {}
  BY <1>1 DEF Kept
<1>3. SeenTrue /\ PartlyFilled(Kept(pkl), Kept(seen))
  BY <1>1, <1>2 DEF SeenTrue, Originals, PartlyFilled
<1> QED
  BY <1>1, <1>3 DEF ResumeInv, Overwriting, InPass1, InPass2, ResumedAsIfAtOnce

\* A step that leaves the frames of phase B alone, and is in none of its passes then.
LEMMA ResumeAside ==
    ASSUME ResumeInv, UNCHANGED <<pkl, seen, mixed>>,
           job'.pc \in {"idle", "phaseA", "phaseB", "depth", "depthEnd"}
    PROVE  ResumeInv'
<1>1. SeenTrue' /\ (~mixed' => PartlyFilled(Kept(pkl), Kept(seen))')
  BY DEF ResumeInv, SeenTrue
<1> QED
  BY <1>1 DEF ResumeInv, Overwriting, InPass1, InPass2, ResumedAsIfAtOnce

\* A step that leaves alone what phase B has of the frames, on disk and in memory.
LEMMA ResumeSame ==
    ASSUME ResumeInv, UNCHANGED <<pkl, seen, mixed, buffer>>,
           \/ job'.pc = job.pc
           \/ job.pc = "stats" /\ job'.pc = "signals",
           job'.k = job.k, job'.overwrite = job.overwrite, job'.failures = job.failures,
           job'.unsaved = job.unsaved
    PROVE  ResumeInv'
<1>1. SeenTrue' /\ (~mixed' => PartlyFilled(Kept(pkl), Kept(seen))')
  BY DEF ResumeInv, SeenTrue
<1>2. First' = First
  BY DEF First
<1>3. \A f \in Frames : Taken(f)' = Taken(f)
  BY DEF Taken
<1>4. InPass1' /\ InPass2'
  BY <1>2, <1>3 DEF ResumeInv, InPass1, InPass2
<1> QED
  BY <1>1, <1>4 DEF ResumeInv, Overwriting, ResumedAsIfAtOnce

\* phase_b begins: with --overwrite the files are mixed from here on.
LEMMA ResumeStart == ASSUME ResumeInv, CountInv, phase_b PROVE ResumeInv'
<1>1. UNCHANGED <<pkl, seen>>
  BY DEF phase_b, disk, past
<1>2. CASE job' = NoJob /\ UNCHANGED past
  BY <1>1, <1>2, ResumeAside DEF NoJob, past
<1>3. CASE job' = run(job.overwrite) /\ mixed' = (mixed \/ job.overwrite)
  <2>1. /\ job'.pc = "hands" /\ job'.k = 0 /\ job'.failures = {}
        /\ job'.overwrite = job.overwrite /\ ~job'.unsaved
    BY <1>3 DEF run, NoJob
  <2>2. job.overwrite \in BOOLEAN /\ mixed \in BOOLEAN
    BY JobFields DEF ResumeInv
  <2>3. \A f \in Frames : ~(f < 0)
    BY FrameFacts
  <2>4. InPass1' /\ InPass2'
    BY <2>1, <2>3 DEF InPass1, InPass2
  <2>5. SeenTrue' /\ (~mixed' => PartlyFilled(Kept(pkl), Kept(seen))')
    BY <1>1, <1>3, <2>2 DEF ResumeInv, SeenTrue
  <2> QED
    BY <1>3, <2>1, <2>2, <2>4, <2>5 DEF ResumeInv, Overwriting, ResumedAsIfAtOnce
<1> QED
  BY <1>2, <1>3 DEF phase_b

\* Pass 1, one frame further.
LEMMA ResumeTaken ==
    ASSUME ResumeInv, CountInv, DoneInv, job.pc = "hands",
           NEW k \in Frames, job.k = k, NEW h, buffer' = Put(k, h),
           job'.pc \in {"hands", "pass1"}, job'.k = job.k + 1,
           job'.overwrite = job.overwrite, job.unsaved => job'.unsaved,
           job'.failures \in {job.failures, job.failures \cup {job.k}},
           \A f \in Frames \ {k} : pkl'[f] = pkl[f] /\ seen'[f] = seen[f],
           Taken(k)'
    PROVE  InPass1' /\ InPass2'
<1>1. job.k \in Nat /\ \A f \in job.failures : f \in Nat
  BY JobFields
<1>2. DOMAIN buffer = 0 .. job.k - 1
  <2>1. 0 .. 0 - 1 = {}
    OBVIOUS
  <2> QED
    BY <2>1 DEF DoneInv, Buffered
<1>3. \A f \in job.failures : f < job.k
  BY DEF ResumeInv, InPass1
<1>4. ASSUME NEW f \in Frames, f < job.k
      PROVE  Taken(f)'
  <2>1. f # job.k /\ f \in DOMAIN buffer
    BY <1>1, <1>2, <1>4, FrameFacts
  <2>2. buffer'[f] = buffer[f] /\ pkl'[f] = pkl[f] /\ seen'[f] = seen[f]
    BY <2>1 DEF Put
  <2>3. f \in job'.failures <=> f \in job.failures
    BY <2>1
  <2>4. Taken(f)
    BY <1>4 DEF ResumeInv, InPass1
  <2> QED
    BY <2>2, <2>3, <2>4 DEF Taken
<1>5. ASSUME NEW f \in Frames, f < job.k + 1
      PROVE  f < job.k \/ f = job.k
  BY <1>1, <1>5, FrameFacts
<1>6. ASSUME NEW f \in job'.failures
      PROVE  f < job.k + 1
  BY <1>1, <1>3
<1>7. \A f \in Frames : f < job.k + 1 => Taken(f)'
  <2> SUFFICES ASSUME NEW f \in Frames, f < job.k + 1 PROVE Taken(f)'
    OBVIOUS
  <2>1. CASE f = job.k
    BY <2>1
  <2>2. CASE f < job.k
    BY <1>4, <2>2
  <2> QED
    BY <1>5, <2>1, <2>2
<1> QED
  BY <1>6, <1>7 DEF InPass1, InPass2

\* The file that is there, partly filled or not, is what pass 1 goes on with.
LEMMA ResumeLoad == ASSUME ResumeInv, CountInv, DoneInv, LoadHands PROVE ResumeInv'
<1>0. PICK k \in Frames : k = job.k
  BY JobFields, FrameFacts DEF LoadHands
<1>1. /\ job.pc = "hands" /\ pkl[k] # NoFile /\ ~job.overwrite
      /\ buffer' = Put(k, pkl[k]) /\ job' = [job EXCEPT !.k = @ + 1]
      /\ UNCHANGED <<pkl, seen, mixed>>
  BY <1>0 DEF LoadHands, At, disk, past
<1>2. /\ job'.pc = "hands" /\ job'.k = k + 1 /\ job'.overwrite = job.overwrite
      /\ job'.failures = job.failures /\ job'.unsaved = job.unsaved
  BY <1>0, <1>1 DEF CountInv, JobType
<1>3. k \notin job.failures
  BY <1>0, <1>1, FrameFacts DEF ResumeInv, InPass1
<1>4. Taken(k)'
  <2>1. buffer'[k] = pkl[k]
    BY <1>1 DEF Put
  <2>2. seen[k] # NoFile
    BY <1>1 DEF ResumeInv, SeenTrue
  <2> QED
    BY <1>1, <1>2, <1>3, <2>1, <2>2 DEF Taken
<1>5. InPass1' /\ InPass2'
  BY <1>0, <1>1, <1>2, <1>4, ResumeTaken
<1>6. SeenTrue' /\ (~mixed' => PartlyFilled(Kept(pkl), Kept(seen))')
  BY <1>1 DEF ResumeInv, SeenTrue
<1> QED
  BY <1>1, <1>2, <1>5, <1>6 DEF ResumeInv, Overwriting, ResumedAsIfAtOnce

\* Without --overwrite only a frame that has no file is computed, so what is saved is
\* new to the frames that are there.
LEMMA ResumeDetect == ASSUME ResumeInv, CountInv, DoneInv, DetectHands PROVE ResumeInv'
<1>0. PICK k \in Frames : k = job.k
  BY JobFields, FrameFacts DEF DetectHands, Computing
<1>1. PICK raws \in Raws :
          /\ buffer' = Put(k, Estimates(raws, k))
          /\ save_pkl_atomic(k, Estimates(raws, k))
          /\ seen' = [seen EXCEPT ![k] = Estimates(raws, k)]
  BY <1>0 DEF DetectHands
<1> DEFINE h == Estimates(raws, k)
<1>2. /\ h \in Estimate /\ h # NoFile
      /\ \A s \in DOMAIN h : h[s].depth \in {NoDepth, Depth[k]}
  BY EstimatesType, EstimatesTrue, EstimateShape
<1>3. buffer' = Put(k, h) /\ pkl' = [pkl EXCEPT ![k] = h] /\ seen' = [seen EXCEPT ![k] = h]
  BY <1>1 DEF save_pkl_atomic
<1> HIDE DEF h
<1>4. /\ job.pc = "hands" /\ (pkl[k] = NoFile \/ job.overwrite) /\ mixed' = mixed
      /\ job' = [job EXCEPT !.k = @ + 1, !.cut = job.sigint,
                            !.pc = IF job.sigint THEN "pass1" ELSE "hands"]
  BY <1>0 DEF DetectHands, Computing, At, AfterHands
<1>5. /\ job'.pc \in {"hands", "pass1"} /\ job'.k = k + 1 /\ job'.overwrite = job.overwrite
      /\ job'.failures = job.failures /\ job'.unsaved = job.unsaved
  <2>1. (IF job.sigint THEN "pass1" ELSE "hands") \in {"hands", "pass1"}
    BY Zenon
  <2> QED
    BY <1>0, <1>4, <2>1 DEF CountInv, JobType
<1>6. /\ seen \in [Frames -> Estimate \cup {NoFile}] /\ pkl \in [Frames -> Estimate \cup {NoFile}]
  BY DEF ResumeInv, SeenTrue, DoneInv
<1>7. /\ seen' \in [Frames -> Estimate \cup {NoFile}]
      /\ pkl'[k] = h /\ seen'[k] = h
      /\ \A f \in Frames \ {k} : pkl'[f] = pkl[f] /\ seen'[f] = seen[f]
  BY <1>2, <1>3, <1>6
<1>8. Taken(k)'
  <2>1. k \notin job.failures
    BY <1>0, <1>4, FrameFacts DEF ResumeInv, InPass1
  <2>2. buffer'[k] = h
    BY <1>3 DEF Put
  <2> QED
    BY <1>2, <1>5, <1>7, <2>1, <2>2 DEF Taken
<1>9. InPass1' /\ InPass2'
  BY <1>0, <1>3, <1>4, <1>5, <1>7, <1>8, ResumeTaken
<1>10. SeenTrue'
  <2>1. Originals(Kept(seen'))
    <3>1. ASSUME NEW f \in DOMAIN Kept(seen'), NEW s \in DOMAIN Kept(seen')[f]
          PROVE  Kept(seen')[f][s].depth \in {NoDepth, Depth[f]}
      <4>1. f \in Frames /\ seen'[f] # NoFile /\ Kept(seen')[f] = seen'[f]
        BY KeptIs
      <4>2. CASE f = k
        BY <1>2, <1>7, <3>1, <4>1, <4>2
      <4>3. CASE f # k
        <5>1. f \in DOMAIN Kept(seen) /\ Kept(seen)[f] = seen'[f]
          <6>1. seen'[f] = seen[f]
            BY <1>7, <4>1, <4>3
          <6> QED
            BY <4>1, <6>1, KeptAt
        <5> QED
          BY <3>1, <4>1, <5>1 DEF ResumeInv, SeenTrue, Originals
      <4> QED
        BY <4>2, <4>3
    <3> QED
      BY <3>1, KeptIs DEF Originals
  <2>2. ASSUME NEW f \in Frames PROVE pkl'[f] = NoFile <=> seen'[f] = NoFile
    BY <1>2, <1>7 DEF ResumeInv, SeenTrue
  <2> QED
    BY <1>7, <2>1, <2>2 DEF SeenTrue
<1>11. ASSUME ~mixed
       PROVE  PartlyFilled(Kept(pkl'), Kept(seen'))
  <2>1. pkl[k] = NoFile /\ seen[k] = NoFile
    BY <1>4, <1>11 DEF ResumeInv, Overwriting, SeenTrue
  <2>2. PartlyFilled(Kept(pkl), Kept(seen))
    BY <1>11 DEF ResumeInv
  <2>3. /\ DOMAIN Kept(seen) \subseteq DOMAIN Kept(seen')
        /\ DOMAIN Kept(pkl') = DOMAIN Kept(seen')
        /\ DOMAIN Kept(seen') \ DOMAIN Kept(seen) \subseteq {k}
        /\ DOMAIN Kept(pkl) = DOMAIN Kept(seen)
    <3>1. /\ DOMAIN Kept(seen) = {f \in Frames : seen[f] # NoFile}
          /\ DOMAIN Kept(pkl) = {f \in Frames : pkl[f] # NoFile}
          /\ DOMAIN Kept(seen') = {f \in Frames : seen'[f] # NoFile}
          /\ DOMAIN Kept(pkl') = {f \in Frames : pkl'[f] # NoFile}
      BY KeptIs
    <3>2. \A f \in Frames : pkl[f] = NoFile <=> seen[f] = NoFile
      BY DEF ResumeInv, SeenTrue
    <3>3. \A f \in Frames : pkl'[f] = NoFile <=> seen'[f] = NoFile
      BY <1>10 DEF SeenTrue
    <3>4. \A f \in Frames : seen[f] # NoFile => seen'[f] # NoFile
      BY <1>7, <2>1
    <3>5. \A f \in Frames : seen[f] = NoFile /\ seen'[f] # NoFile => f = k
      BY <1>7
    <3> QED
      BY <3>1, <3>2, <3>3, <3>4, <3>5
  <2>4. ASSUME NEW f \in DOMAIN Kept(seen)
        PROVE  Kept(seen')[f] = Kept(seen)[f] /\ Kept(pkl')[f] = Kept(pkl)[f]
    <3>1. f \in Frames \ {k} /\ seen[f] # NoFile /\ pkl[f] # NoFile
      BY <2>1, KeptIs DEF ResumeInv, SeenTrue
    <3>2. pkl'[f] = pkl[f] /\ seen'[f] = seen[f]
      BY <1>7, <3>1
    <3>3. Kept(seen)[f] = seen[f] /\ Kept(pkl)[f] = pkl[f]
      BY <3>1, KeptAt
    <3>4. Kept(seen')[f] = seen'[f] /\ Kept(pkl')[f] = pkl'[f]
      BY <3>1, <3>2, KeptAt
    <3> QED
      BY <3>2, <3>3, <3>4
  <2>5. ASSUME NEW f \in DOMAIN Kept(seen') \ DOMAIN Kept(seen)
        PROVE  Kept(pkl')[f] = Kept(seen')[f] /\ Kept(seen')[f] \in Estimate
    <3>1. f = k /\ f \in DOMAIN Kept(seen') /\ f \in DOMAIN Kept(pkl')
      BY <2>3
    <3>2. Kept(seen')[f] = seen'[f] /\ Kept(pkl')[f] = pkl'[f]
      BY <3>1, KeptIs
    <3> QED
      BY <1>2, <1>7, <3>1, <3>2
  <2> QED
    BY <2>2, <2>3, <2>4, <2>5, FillingGrows
<1> QED
  BY <1>4, <1>5, <1>9, <1>10, <1>11 DEF ResumeInv, Overwriting, ResumedAsIfAtOnce

\* A frame that fails has no file, unless an --overwrite leaves it the one it has.
LEMMA ResumeFailed == ASSUME ResumeInv, CountInv, DoneInv, FrameFailed PROVE ResumeInv'
<1>0. PICK k \in Frames : k = job.k
  BY JobFields, FrameFacts DEF FrameFailed, Computing
<1>1. /\ job.pc = "hands" /\ (pkl[k] = NoFile \/ job.overwrite)
      /\ buffer' = Put(k, NoHands) /\ UNCHANGED <<pkl, seen, mixed>>
  BY <1>0 DEF FrameFailed, Computing, At, disk, past
<1>2. /\ job'.pc \in {"hands", "pass1"} /\ job'.k = k + 1 /\ job'.overwrite = job.overwrite
      /\ job'.failures = job.failures \cup {k} /\ job'.unsaved = job.unsaved
  <2> DEFINE pc1 == IF job.sigint THEN "pass1" ELSE "hands"
  <2>1. pc1 \in {"hands", "pass1"}
    BY Zenon
  <2>2. job' = [[job EXCEPT !.failures = job.failures \cup {job.k}]
                 EXCEPT !.k = job.k + 1, !.cut = job.sigint, !.pc = pc1]
    BY DEF FrameFailed, AfterHands, CountInv, JobType
  <2> HIDE DEF pc1
  <2> QED
    BY <1>0, <2>1, <2>2 DEF CountInv, JobType
<1>3. Taken(k)'
  <2>1. buffer'[k] = NoHands
    BY <1>1 DEF Put
  <2> QED
    BY <1>1, <1>2, <2>1 DEF Taken
<1>4. InPass1' /\ InPass2'
  BY <1>0, <1>1, <1>2, <1>3, ResumeTaken
<1>5. SeenTrue' /\ (~mixed' => PartlyFilled(Kept(pkl), Kept(seen))')
  BY <1>1 DEF ResumeInv, SeenTrue
<1> QED
  BY <1>1, <1>2, <1>4, <1>5 DEF ResumeInv, Overwriting, ResumedAsIfAtOnce

\* A file that is not saved: from here on nothing is claimed of the failed frames.
LEMMA ResumeSaveFails == ASSUME ResumeInv, CountInv, DoneInv, SaveFails PROVE ResumeInv'
<1>0. PICK k \in Frames : k = job.k
  BY JobFields, FrameFacts DEF SaveFails, Computing
<1>1. /\ job.pc = "hands" /\ mixed' = TRUE /\ UNCHANGED <<pkl, seen>>
      /\ \E h : buffer' = Put(k, h)
  BY <1>0 DEF SaveFails, Computing, At, disk
<1>2. /\ job'.pc \in {"hands", "pass1"} /\ job'.k = k + 1 /\ job'.overwrite = job.overwrite
      /\ job'.failures = job.failures \cup {k} /\ job'.unsaved
  <2> DEFINE pc1 == IF job.sigint THEN "pass1" ELSE "hands"
  <2>1. pc1 \in {"hands", "pass1"}
    BY Zenon
  <2>2. job' = [[job EXCEPT !.failures = job.failures \cup {job.k}, !.unsaved = TRUE]
                 EXCEPT !.k = job.k + 1, !.cut = job.sigint, !.pc = pc1]
    BY DEF SaveFails, AfterHands, CountInv, JobType
  <2> HIDE DEF pc1
  <2> QED
    BY <1>0, <2>1, <2>2 DEF CountInv, JobType
<1>3. Taken(k)'
  BY <1>2 DEF Taken
<1>4. InPass1' /\ InPass2'
  BY <1>0, <1>1, <1>2, <1>3, ResumeTaken
<1>5. SeenTrue'
  BY <1>1 DEF ResumeInv, SeenTrue
<1> QED
  BY <1>1, <1>2, <1>4, <1>5 DEF ResumeInv, Overwriting, ResumedAsIfAtOnce

\* The end of pass 1: every frame has been taken.
LEMMA ResumeEndPass1 == ASSUME ResumeInv, CountInv, DoneInv, EndPass1 PROVE ResumeInv'
<1>1. UNCHANGED <<pkl, seen, mixed>>
  BY DEF EndPass1, past
<1>2. CASE job' = NoJob
  BY <1>1, <1>2, ResumeAside DEF NoJob
<1>3. CASE ~job.cut /\ Goto("complete") /\ buffer' = buffer
  <2>1. /\ job'.pc = "complete" /\ job'.overwrite = job.overwrite
        /\ job'.failures = job.failures /\ job'.unsaved = job.unsaved
    BY <1>3 DEF Goto, CountInv, JobType
  <2>2. job.pc = "hands" /\ job.k = N
    BY <1>3 DEF EndPass1, At, DoneInv, Buffered
  <2>3. \A f \in Frames : Taken(f)
    BY <2>2, FrameFacts DEF ResumeInv, InPass1
  <2>4. \A f \in Frames : Taken(f)'
    BY <1>1, <1>3, <2>1, <2>3 DEF Taken
  <2>5. SeenTrue' /\ (~mixed' => PartlyFilled(Kept(pkl), Kept(seen))')
    BY <1>1 DEF ResumeInv, SeenTrue
  <2> QED
    BY <1>1, <2>1, <2>2, <2>4, <2>5
    DEF ResumeInv, Overwriting, InPass1, InPass2, ResumedAsIfAtOnce
<1> QED
  BY <1>2, <1>3 DEF EndPass1, Exit

\* What pass 1 has made of all the frames.
LEMMA FirstIs ==
    ASSUME ResumeInv, \A f \in Frames \ job.failures : seen[f] # NoFile
    PROVE  /\ DOMAIN First = Frames /\ Originals(First)
           /\ \A f \in Frames : First[f] \in Estimate
           /\ \A f \in Frames \cap job.failures : First[f] = NoHands
           /\ \A f \in Frames \ job.failures :
                 First[f] = seen[f] /\ f \in DOMAIN Kept(seen) /\ Kept(seen)[f] = seen[f]
<1>1. /\ DOMAIN First = Frames
      /\ \A f \in Frames \cap job.failures : First[f] = NoHands
      /\ \A f \in Frames \ job.failures : First[f] = seen[f]
  BY DEF First
<1>2. \A f \in Frames \ job.failures : f \in DOMAIN Kept(seen) /\ Kept(seen)[f] = seen[f]
  BY KeptIs
<1>3. ASSUME NEW f \in Frames PROVE First[f] \in Estimate
  BY <1>1, NoHandsShape DEF ResumeInv, SeenTrue
<1>4. ASSUME NEW f \in Frames, NEW s \in DOMAIN First[f]
      PROVE  First[f][s].depth \in {NoDepth, Depth[f]}
  <2>1. f \notin job.failures
    BY <1>1, <1>4, NoHandsShape
  <2> QED
    BY <1>1, <1>2, <1>4, <2>1 DEF ResumeInv, SeenTrue, Originals
<1> QED
  BY <1>1, <1>2, <1>3, <1>4 DEF Originals

\* What pass 1 has in memory at its end: the frames as it made them, or partly filled
\* ones of an earlier run.
LEMMA BufferIsPartly ==
    ASSUME ResumeInv, CountInv, DoneInv, job.pc = "complete",
           ~job.unsaved, job.overwrite \/ ~mixed
    PROVE  PartlyFilled(buffer, First)
<1>1. \A f \in Frames : Taken(f)
  BY DEF ResumeInv, InPass1
<1>2. \A f \in Frames \ job.failures : seen[f] # NoFile
  BY <1>1 DEF Taken
<1>3. DOMAIN buffer = Frames
  BY DEF DoneInv, Buffered
<1>4. CASE job.overwrite
  <2>1. \A f \in Frames : buffer[f] = First[f]
    BY <1>1, <1>4 DEF Taken, First
  <2>2. DOMAIN First = Frames /\ \A f \in Frames : First[f] \in Estimate
    BY <1>2, FirstIs
  <2>3. ASSUME NEW f \in Frames
        PROVE  buffer[f] = [s \in DOMAIN First[f] |-> buffer[f][s]]
    <3>1. First[f] \in Estimate /\ buffer[f] = First[f]
      BY <2>1, <2>2
    <3> QED
      BY <3>1, EstimateShape
  <2> QED
    BY <1>3, <2>1, <2>2, <2>3 DEF PartlyFilled
<1>5. CASE ~job.overwrite
  <2>1. PartlyFilled(Kept(pkl), Kept(seen))
    BY <1>5 DEF ResumeInv
  <2>2. \A f \in Frames \cap job.failures : buffer[f] = NoHands /\ seen[f] = NoFile
    BY <1>1, <1>5 DEF Taken, ResumeInv, SeenTrue
  <2>3. \A f \in Frames \ job.failures : buffer[f] = pkl[f] /\ pkl[f] # NoFile
    BY <1>1, <1>2, <1>5 DEF Taken, ResumeInv, SeenTrue
  <2>4. DOMAIN Kept(seen) = Frames \ job.failures
    BY <1>2, <2>2, KeptIs
  <2>5. ASSUME NEW f \in DOMAIN Kept(seen)
        PROVE  First[f] = Kept(seen)[f] /\ buffer[f] = Kept(pkl)[f]
    BY <1>2, <2>3, <2>4, FirstIs, KeptIs
  <2>6. ASSUME NEW f \in DOMAIN First \ DOMAIN Kept(seen)
        PROVE  buffer[f] = First[f] /\ First[f] \in Estimate
    BY <1>2, <2>2, <2>4, FirstIs
  <2>7. DOMAIN Kept(seen) \subseteq DOMAIN First /\ DOMAIN buffer = DOMAIN First
    BY <1>2, <1>3, <2>4, FirstIs
  <2> QED
    BY <2>1, <2>5, <2>6, <2>7, FillingGrows
<1> QED
  BY <1>4, <1>5 DEF CountInv, JobType

\* Pass 2 begins with what one run makes of the frames.
LEMMA ResumeDeclare ==
    ASSUME WholeSteps, ResumeInv, CountInv, DoneInv, DeclarePass1
    PROVE  ResumeInv'
<1>1. /\ job.pc = "complete" /\ buffer' = interpolate_side(buffer)
      /\ UNCHANGED <<pkl, seen, mixed>>
      /\ job' = [job EXCEPT !.pc = "rewrite", !.k = 0, !.sigint = FALSE]
  BY DEF DeclarePass1, At
<1>2. /\ job'.pc = "rewrite" /\ job'.k = 0 /\ job'.overwrite = job.overwrite
      /\ job'.failures = job.failures /\ job'.unsaved = job.unsaved
  BY <1>1 DEF CountInv, JobType
<1>3. \A f \in Frames : Taken(f)
  BY <1>1 DEF ResumeInv, InPass1
<1>4. First' = First
  BY <1>1, <1>2 DEF First
<1>5. \A f \in Frames \ job.failures : seen[f] # NoFile
  BY <1>3 DEF Taken
<1>6. ~job.unsaved /\ (job.overwrite \/ ~mixed) => buffer' = Filled(First)
  <2> SUFFICES ASSUME ~job.unsaved, job.overwrite \/ ~mixed PROVE buffer' = Filled(First)
    OBVIOUS
  <2>1. PartlyFilled(buffer, First)
    BY <1>1, BufferIsPartly
  <2> QED
    BY <1>1, <1>5, <2>1, FirstIs, FillingResumed
<1>7. \A f \in Frames \cap job.failures :
          ~job.unsaved /\ ~job.overwrite => pkl[f] = NoFile
  BY <1>3 DEF Taken
<1>8. InPass2'
  <2>1. \A f \in Frames : ~(f < 0)
    BY FrameFacts
  <2> QED
    BY <1>1, <1>2, <1>4, <1>5, <1>6, <1>7, <2>1 DEF InPass2
<1>9. SeenTrue' /\ (~mixed' => PartlyFilled(Kept(pkl), Kept(seen))')
  BY <1>1 DEF ResumeInv, SeenTrue
<1> QED
  BY <1>1, <1>2, <1>8, <1>9 DEF ResumeInv, Overwriting, InPass1, ResumedAsIfAtOnce

\* Without --overwrite, pass 2 fills a frame that was there, or adds one without hands.
LEMMA RewriteOne ==
    ASSUME WholeSteps, ResumeInv, job.pc = "rewrite", ~mixed, ~job.overwrite,
           NEW k \in Frames, k = job.k, \A f \in Frames \ job.failures : seen[f] # NoFile,
           pkl'[k] = buffer[k], pkl'[k] # NoFile, seen'[k] = First[k], seen'[k] # NoFile,
           \A f \in Frames \ {k} : pkl'[f] = pkl[f] /\ seen'[f] = seen[f], SeenTrue'
    PROVE  PartlyFilled(Kept(pkl'), Kept(seen'))
<1> DEFINE S == Kept(seen)
           M == Kept(pkl)
           S1 == Kept(seen')
           M1 == Kept(pkl')
<1>0. /\ DOMAIN S = {f \in Frames : seen[f] # NoFile} /\ \A f \in DOMAIN S : S[f] = seen[f]
      /\ DOMAIN M = {f \in Frames : pkl[f] # NoFile} /\ \A f \in DOMAIN M : M[f] = pkl[f]
      /\ DOMAIN S1 = {f \in Frames : seen'[f] # NoFile} /\ \A f \in DOMAIN S1 : S1[f] = seen'[f]
      /\ DOMAIN M1 = {f \in Frames : pkl'[f] # NoFile} /\ \A f \in DOMAIN M1 : M1[f] = pkl'[f]
  <2>1. DOMAIN S = {f \in Frames : seen[f] # NoFile} /\ \A f \in DOMAIN S : S[f] = seen[f]
    BY KeptIs
  <2>2. DOMAIN M = {f \in Frames : pkl[f] # NoFile} /\ \A f \in DOMAIN M : M[f] = pkl[f]
    BY KeptIs
  <2>3. DOMAIN S1 = {f \in Frames : seen'[f] # NoFile} /\ \A f \in DOMAIN S1 : S1[f] = seen'[f]
    BY KeptIs
  <2>4. DOMAIN M1 = {f \in Frames : pkl'[f] # NoFile} /\ \A f \in DOMAIN M1 : M1[f] = pkl'[f]
    BY KeptIs
  <2> HIDE DEF S, M, S1, M1
  <2> QED
    BY <2>1, <2>2, <2>3, <2>4
<1>1. DOMAIN M = DOMAIN S /\ DOMAIN M1 = DOMAIN S1
  <2>1. \A f \in Frames : pkl[f] = NoFile <=> seen[f] = NoFile
    BY DEF ResumeInv, SeenTrue
  <2>2. \A f \in Frames : pkl'[f] = NoFile <=> seen'[f] = NoFile
    BY DEF SeenTrue
  <2> QED
    BY <1>0, <2>1, <2>2
<1>2. PartlyFilled(M, S)
  BY DEF ResumeInv
<1>3. /\ buffer = Filled(First)
      /\ \A f \in Frames \cap job.failures :
            /\ f < k => seen[f] = NoHands
            /\ f >= k => pkl[f] = NoFile /\ seen[f] = NoFile
  BY DEF ResumeInv, InPass2, SeenTrue, Overwriting
<1>4. /\ DOMAIN First = Frames /\ Originals(First)
      /\ \A f \in Frames : First[f] \in Estimate
      /\ \A f \in Frames \cap job.failures : First[f] = NoHands
      /\ \A f \in Frames \ job.failures : First[f] = seen[f]
  BY FirstIs
<1>5. PartlyFilled(Filled(First), First)
  BY <1>4, FilledIsPartly
<1> HIDE DEF S, M, S1, M1
<1>6. k \in DOMAIN S1 /\ k \in DOMAIN M1 /\ S1[k] = First[k] /\ M1[k] = Filled(First)[k]
  BY <1>0, <1>3
<1>7. CASE k \in job.failures
  <2>1. First[k] = NoHands /\ seen[k] = NoFile
    BY <1>3, <1>4, <1>7, FrameFacts
  <2>2. Filled(First)[k] = NoHands
    <3>1. Filled(First)[k] = [s \in DOMAIN First[k] |-> Filled(First)[k][s]]
      BY FilledShape
    <3>2. NoHands = [s \in DOMAIN NoHands |-> NoHands[s]] /\ DOMAIN NoHands = {}
      BY EstimateShape, NoHandsShape
    <3> QED
      BY <2>1, <3>1, <3>2
  <2>3. /\ DOMAIN S \subseteq DOMAIN S1 /\ DOMAIN S1 \ DOMAIN S \subseteq {k}
        /\ k \notin DOMAIN S
    BY <1>0, <2>1
  <2>4. \A f \in DOMAIN S : S1[f] = S[f] /\ M1[f] = M[f]
    <3> SUFFICES ASSUME NEW f \in DOMAIN S PROVE S1[f] = S[f] /\ M1[f] = M[f]
      OBVIOUS
    <3>1. f \in Frames \ {k} /\ f \in DOMAIN S1 /\ f \in DOMAIN M /\ f \in DOMAIN M1
      BY <1>0, <1>1, <2>3
    <3> QED
      BY <1>0, <3>1
  <2>5. \A f \in DOMAIN S1 \ DOMAIN S : M1[f] = S1[f] /\ S1[f] \in Estimate
    BY <1>6, <2>1, <2>2, <2>3, NoHandsShape
  <2> QED
    BY <1>1, <1>2, <2>3, <2>4, <2>5, FillingGrows DEF S1, M1
<1>8. CASE k \notin job.failures
  <2>1. DOMAIN S1 = DOMAIN S /\ \A f \in DOMAIN S : S1[f] = S[f]
    <3>1. First[k] = seen[k]
      BY <1>4, <1>8
    <3> QED
      BY <1>0, <3>1
  <2>2. ASSUME NEW s, NEW a, NEW b, Gap(First, s, a, b)
        PROVE  Gap(S1, s, a, b)
    <3>0. k \in Nat /\ \A f \in Frames : f \in Nat
      BY FrameFacts
    <3>1. ASSUME NEW f \in DOMAIN S1 PROVE First[f] = S1[f]
      <4>1. f \in Frames /\ seen[f] # NoFile /\ S1[f] = seen[f]
        BY <1>0, <2>1
      <4>2. CASE f \in job.failures
        <5>1. f < k
          BY <1>3, <3>0, <4>1, <4>2
        <5> QED
          BY <1>3, <1>4, <4>1, <4>2, <5>1
      <4>3. CASE f \notin job.failures
        BY <1>4, <4>1, <4>3
      <4> QED
        BY <4>2, <4>3
    <3>2. ASSUME NEW f \in DOMAIN First \ DOMAIN S1 PROVE DOMAIN First[f] = {}
      <4>1. f \in Frames \cap job.failures
        BY <1>0, <1>4, <2>1
      <4> QED
        BY <1>4, <4>1, NoHandsShape
    <3>3. DOMAIN S1 \subseteq DOMAIN First
      BY <1>0, <1>4
    <3> QED
      BY <2>2, <3>1, <3>2, <3>3, GapExtends
  <2>3. ASSUME NEW f \in DOMAIN S1
        PROVE  /\ M1[f] = [s \in DOMAIN S1[f] |-> M1[f][s]]
               /\ \A s \in DOMAIN S1[f] :
                     \/ M1[f][s] = S1[f][s]
                     \/ \E a, b \in Frames :
                           a < f /\ f < b /\ Gap(S1, s, a, b) /\ M1[f][s] = Line(f, a, b)
    <3>1. CASE f = k
      <4>1. /\ Filled(First)[k] = [s \in DOMAIN First[k] |-> Filled(First)[k][s]]
            /\ \A s \in DOMAIN First[k] :
                  \/ Filled(First)[k][s] = First[k][s]
                  \/ \E a, b \in Frames :
                        /\ a < k /\ k < b /\ Gap(First, s, a, b)
                        /\ Filled(First)[k][s] = Line(k, a, b)
        BY <1>4, <1>5 DEF PartlyFilled
      <4> QED
        BY <1>6, <2>2, <3>1, <4>1
    <3>2. CASE f # k
      <4>1. f \in DOMAIN S /\ f \in DOMAIN M /\ f \in DOMAIN M1 /\ f \in Frames \ {k}
        BY <1>0, <1>1, <2>1, <3>2
      <4>2. M1[f] = M[f] /\ S1[f] = S[f]
        BY <1>0, <2>1, <4>1
      <4>3. \A s, a, b : Gap(S, s, a, b) => Gap(S1, s, a, b)
        BY <2>1, GapExtends
      <4> QED
        BY <1>2, <4>1, <4>2, <4>3 DEF PartlyFilled
    <3> QED
      BY <3>1, <3>2
  <2> QED
    BY <1>1, <2>3 DEF PartlyFilled, S1, M1
<1> QED
  BY <1>7, <1>8

\* Pass 2 writes one more frame, and with the last one the files are what one run makes
\* of the frames; until then each is as it was, or filled.
LEMMA ResumeRewrite ==
    ASSUME WholeSteps, ResumeInv, CountInv, DoneInv, Rewrite
    PROVE  ResumeInv'
<1>0. PICK k \in Frames : k = job.k
  BY DEF Rewrite, At, DoneInv, Rewritten
<1>1. /\ job.pc = "rewrite" /\ pkl' = [pkl EXCEPT ![k] = buffer[k]] /\ buffer' = buffer
      /\ seen' = IF k \in job.failures THEN [seen EXCEPT ![k] = NoHands] ELSE seen
      /\ job' = [job EXCEPT !.k = @ + 1, !.pc = IF k = N - 1 THEN "stats" ELSE "rewrite"]
      /\ mixed' = (mixed /\ ~(job.overwrite /\ ~job.unsaved /\ k = N - 1))
  BY <1>0 DEF Rewrite, At, save_pkl_atomic
<1>2. /\ job'.pc = IF k = N - 1 THEN "stats" ELSE "rewrite"
      /\ job'.k = k + 1 /\ job'.overwrite = job.overwrite /\ job'.failures = job.failures
      /\ job'.unsaved = job.unsaved
  BY <1>0, <1>1 DEF CountInv, JobType
<1>3. /\ seen \in [Frames -> Estimate \cup {NoFile}] /\ pkl \in [Frames -> Estimate \cup {NoFile}]
      /\ buffer \in [Frames -> Estimate] /\ mixed \in BOOLEAN /\ job.overwrite \in BOOLEAN
      /\ mixed' \in BOOLEAN /\ job.unsaved \in BOOLEAN
  BY <1>1, JobFields DEF ResumeInv, SeenTrue, DoneInv, Buffered
<1>4. \A f \in Frames \ job.failures : seen[f] # NoFile
  BY <1>1 DEF ResumeInv, InPass2
<1>5. /\ seen' \in [Frames -> Estimate \cup {NoFile}]
      /\ pkl' \in [Frames -> Estimate \cup {NoFile}]
      /\ pkl'[k] = buffer[k] /\ pkl'[k] # NoFile
      /\ \A f \in Frames \ {k} : pkl'[f] = pkl[f] /\ seen'[f] = seen[f]
      /\ seen'[k] = First[k] /\ seen'[k] # NoFile
  <2>1. First[k] \in Estimate /\ First[k] = IF k \in job.failures THEN NoHands ELSE seen[k]
    BY <1>4, FirstIs DEF First
  <2>2. \A f \in Frames \ {k} : pkl'[f] = pkl[f] /\ seen'[f] = seen[f]
    BY <1>1, <1>3
  <2>3. seen'[k] = First[k] /\ pkl'[k] = buffer[k]
    BY <1>1, <1>3, <2>1
  <2>4. buffer[k] # NoFile /\ First[k] # NoFile
    BY <1>3, <2>1, EstimateShape
  <2>5. /\ seen' \in [Frames -> Estimate \cup {NoFile}]
        /\ pkl' \in [Frames -> Estimate \cup {NoFile}]
    BY <1>1, <1>3, NoHandsShape
  <2> QED
    BY <2>2, <2>3, <2>4, <2>5
<1>6. SeenTrue'
  <2>1. ASSUME NEW f \in DOMAIN Kept(seen'), NEW s \in DOMAIN Kept(seen')[f]
        PROVE  Kept(seen')[f][s].depth \in {NoDepth, Depth[f]}
    <3>1. f \in Frames /\ seen'[f] # NoFile /\ Kept(seen')[f] = seen'[f]
      BY KeptIs
    <3>2. CASE f = k
      <4>1. seen'[f] = First[f] /\ DOMAIN First = Frames /\ Originals(First)
        BY <1>4, <1>5, <3>2, FirstIs
      <4> QED
        BY <2>1, <3>1, <4>1 DEF Originals
    <3>3. CASE f # k
      <4>1. f \in DOMAIN Kept(seen) /\ Kept(seen)[f] = seen'[f]
        <5>1. seen'[f] = seen[f]
          BY <1>5, <3>1, <3>3
        <5> QED
          BY <3>1, <5>1, KeptAt
      <4> QED
        BY <2>1, <3>1, <4>1 DEF ResumeInv, SeenTrue, Originals
    <3> QED
      BY <3>2, <3>3
  <2>2. Originals(Kept(seen'))
    BY <2>1, KeptIs DEF Originals
  <2>3. ASSUME NEW f \in Frames PROVE pkl'[f] = NoFile <=> seen'[f] = NoFile
    BY <1>5 DEF ResumeInv, SeenTrue
  <2> QED
    BY <1>5, <2>2, <2>3 DEF SeenTrue
<1>7. First' = First
  <2>1. ASSUME NEW f \in Frames \ job.failures PROVE seen'[f] = seen[f]
    BY <1>1, <1>5
  <2> QED
    BY <1>2, <2>1 DEF First
<1>8. ASSUME ~job.unsaved, job.overwrite \/ ~mixed
      PROVE  /\ buffer = Filled(First) /\ \A f \in Frames : f <= k => seen'[f] = First[f]
             /\ \A f \in Frames \cap job.failures :
                   f > k /\ ~job.overwrite => pkl'[f] = NoFile
  <2>0. k \in Nat /\ \A f \in Frames : f \in Nat
    BY FrameFacts
  <2>1. /\ buffer = Filled(First)
        /\ \A f \in Frames \cap job.failures :
              /\ f < k => seen[f] = NoHands
              /\ f >= k /\ ~job.overwrite => pkl[f] = NoFile
    BY <1>0, <1>1, <1>8 DEF ResumeInv, InPass2
  <2>2. ASSUME NEW f \in Frames, f <= k PROVE seen'[f] = First[f]
    <3>1. f = k \/ (f < k /\ f # k)
      BY <2>0, <2>2
    <3> QED
      BY <1>5, <2>1, <3>1 DEF First
  <2>3. ASSUME NEW f \in Frames \cap job.failures, f > k, ~job.overwrite
        PROVE  pkl'[f] = NoFile
    <3>1. f # k /\ f >= k
      BY <2>0, <2>3
    <3> QED
      BY <1>5, <2>1, <2>3, <3>1
  <2> QED
    BY <2>1, <2>2, <2>3
<1>9. InPass2'
  <2>0. k \in Nat /\ \A f \in Frames : f \in Nat
    BY FrameFacts
  <2>1. \A f \in Frames \ job'.failures : seen'[f] # NoFile
    BY <1>2, <1>4, <1>5
  <2>2. ASSUME job'.pc = "rewrite", ~job'.unsaved, job'.overwrite \/ ~mixed'
        PROVE  /\ buffer' = Filled(First')
               /\ \A f \in Frames \cap job'.failures :
                     /\ f < job'.k => seen'[f] = NoHands
                     /\ f >= job'.k /\ ~job'.overwrite => pkl'[f] = NoFile
    <3>1. ~job.unsaved /\ (job.overwrite \/ ~mixed)
      BY <1>1, <1>2, <1>3, <2>2
    <3>2. ASSUME NEW f \in Frames \cap job.failures, f < k + 1 PROVE seen'[f] = NoHands
      <4>1. f <= k
        <5>1. f \in Nat /\ f < k + 1
          BY <2>0, <3>2
        <5> QED
          BY <2>0, <5>1
      <4> QED
        BY <1>8, <3>1, <4>1 DEF First
    <3>3. ASSUME NEW f \in Frames \cap job.failures, f >= k + 1, ~job.overwrite
          PROVE  pkl'[f] = NoFile
      <4>1. f > k
        BY <2>0, <3>3
      <4> QED
        BY <1>8, <3>1, <3>3, <4>1
    <3> QED
      BY <1>1, <1>2, <1>7, <1>8, <3>1, <3>2, <3>3
  <2> QED
    BY <2>1, <2>2 DEF InPass2
<1>10. ASSUME k = N - 1, ~mixed'
       PROVE  pkl' = Filled(First) /\ seen' = First
  <2>1. ~job.unsaved /\ (job.overwrite \/ ~mixed)
    BY <1>1, <1>3, <1>10 DEF ResumeInv, Overwriting
  <2>2. \A f \in Frames : f <= k
    BY <1>10, FrameFacts
  <2>3. \A f \in Frames : seen'[f] = First[f]
    BY <1>8, <2>1, <2>2
  <2>5. seen' = First
    BY <1>5, <2>3 DEF First
  <2>6. \A f \in Frames : f # k => f < k
    BY <2>2, FrameFacts
  <2>7. \A f \in Frames : f # k => pkl[f] = buffer[f]
    BY <1>0, <1>1, <2>6 DEF DoneInv, Rewritten
  <2>8. pkl' = buffer
    BY <1>1, <1>3, <1>5, <2>7
  <2> QED
    BY <1>8, <2>1, <2>5, <2>8
<1>11. CASE k = N - 1
  <2>1. job'.pc = "stats"
    BY <1>2, <1>11
  <2>2. ASSUME ~mixed' PROVE PartlyFilled(Kept(pkl'), Kept(seen')) /\ pkl' = Filled(seen')
    <3>1. pkl' = Filled(First) /\ seen' = First
      BY <1>10, <1>11, <2>2
    <3>2. /\ DOMAIN First = Frames /\ Originals(First)
          /\ \A f \in Frames : First[f] \in Estimate
      BY <1>4, FirstIs
    <3>3. PartlyFilled(pkl', seen')
      BY <3>1, <3>2, FilledIsPartly
    <3>4. Kept(pkl') = pkl' /\ Kept(seen') = seen'
      BY <1>3, <1>5, <1>6, <3>1, <3>2, EstimateShape DEF Kept, SeenTrue
    <3> QED
      BY <3>1, <3>3, <3>4
  <2> QED
    BY <1>3, <1>6, <1>9, <2>1, <2>2
    DEF ResumeInv, Overwriting, InPass1, ResumedAsIfAtOnce
<1>12. CASE k # N - 1
  <2>1. job'.pc = "rewrite" /\ mixed' = mixed
    BY <1>1, <1>2, <1>3, <1>12
  <2>2. ASSUME ~mixed PROVE PartlyFilled(Kept(pkl'), Kept(seen'))
    <3>1. ~job.overwrite
      BY <1>1, <2>2 DEF ResumeInv, Overwriting
    <3> QED
      BY <1>0, <1>1, <1>3, <1>4, <1>5, <1>6, <2>2, <3>1, RewriteOne
  <2> QED
    BY <1>1, <1>2, <1>3, <1>6, <1>9, <2>1, <2>2
    DEF ResumeInv, Overwriting, InPass1, ResumedAsIfAtOnce
<1> QED
  BY <1>11, <1>12

\* The other steps of phase B, and all those around it.
LEMMA ResumeInvStep ==
    ASSUME WholeSteps, ResumeInv, CountInv, DoneInv, [Next]_vars
    PROVE  ResumeInv'
<1>t. job \in JobType /\ NoJob \in JobType /\ NoJob.pc = "idle"
  BY NoJobType DEF CountInv, NoJob
<1>1. CASE \/ \E overwrite \in Modes : Call(overwrite)
           \/ phase_a \/ SkipDepth \/ ComputeDepth \/ EndDepth
  <2>1. UNCHANGED <<pkl, seen, mixed>>
    BY <1>1 DEF Call, phase_a, SkipDepth, ComputeDepth, EndDepth, disk, past
  <2>2. job'.pc \in {"idle", "phaseA", "phaseB", "depth", "depthEnd"}
    BY <1>1, AroundPhaseB
  <2> QED
    BY <2>1, <2>2, ResumeAside
<1>2. CASE WriteSignals \/ Kill \/ (Stats /\ Exit)
  <2>1. UNCHANGED <<pkl, seen, mixed>> /\ job' = NoJob
    BY <1>2 DEF WriteSignals, Kill, Stats, Exit, disk, past
  <2> QED
    BY <1>t, <2>1, ResumeAside
<1>3. CASE Stats /\ Goto("signals") /\ buffer' = buffer
  <2>1. UNCHANGED <<pkl, seen, mixed>> /\ job.pc = "stats"
    BY <1>3 DEF Stats, At, disk, past
  <2>2. /\ job'.pc = "signals" /\ job'.k = job.k /\ job'.overwrite = job.overwrite
        /\ job'.failures = job.failures /\ job'.unsaved = job.unsaved
    BY <1>t, <1>3 DEF Goto, JobType
  <2> QED
    BY <1>3, <2>1, <2>2, ResumeSame
<1>4. CASE Interrupt
  <2>1. UNCHANGED <<pkl, seen, mixed, buffer>> /\ job' = [job EXCEPT !.sigint = TRUE]
    BY <1>4 DEF Interrupt, disk, past
  <2>2. /\ job'.pc = job.pc /\ job'.k = job.k /\ job'.overwrite = job.overwrite
        /\ job'.failures = job.failures /\ job'.unsaved = job.unsaved
    BY <1>t, <2>1 DEF JobType
  <2> QED
    BY <2>1, <2>2, ResumeSame
<1>5. CASE \/ NeedModel \/ ModelStep \/ UNCHANGED vars
           \/ \E full \in BOOLEAN : run_signals_only(full)
  <2>1. UNCHANGED <<pkl, seen, mixed, buffer, job>>
    BY <1>5 DEF NeedModel, ModelStep, run_signals_only, vars, runVars, disk, past
  <2> QED
    BY <2>1, ResumeSame
<1> QED
  BY <1>1, <1>2, <1>3, <1>4, <1>5, ResumeStart, ResumeLoad, ResumeDetect, ResumeFailed,
     ResumeSaveFails, ResumeEndPass1, ResumeDeclare, ResumeRewrite DEF Next, Stats

\* However often phase B fails, is interrupted, killed in the middle of its second pass
\* and called again, for a video of any length: what it ends with is what one run would
\* have made of the frames as pass 1 saw them, if the unit of the depths is fine enough
\* for the points between two of them and no frame of pass 1 could not be saved.
THEOREM ResumedIsOneRun ==
    ASSUME WholeSteps
    PROVE  Spec => []ResumedAsIfAtOnce
<1>1. ResumeInv => ResumedAsIfAtOnce
  BY DEF ResumeInv
<1>2. CountInv /\ DoneInv /\ ResumeInv /\ [Next]_vars => CountInv' /\ DoneInv' /\ ResumeInv'
  BY CountInvStep, DoneInvStep, ResumeInvStep
<1> QED
  BY <1>1, <1>2, CountInvInit, DoneInvInit, ResumeInit, PTL DEF Spec
=============================================================================
