------------------------------ MODULE HandRuns ------------------------------
(***************************************************************************)
(* The hand pipeline of one video: scripts/precompute_depth.py (phase A),  *)
(* scripts/run_hand_estimation.py (phase B) and scripts/run_all_pipeline.sh *)
(* which runs them and passes over what it takes for done.  Both phases    *)
(* are resumed from their files, so the state that counts is on disk: any  *)
(* run may be interrupted, fail or be killed, and be followed by another,  *)
(* with or without --overwrite.                                            *)
(*                                                                         *)
(* UniDAC, MediaPipe and ffmpeg are external: they give some answer, or    *)
(* raise.  The estimates of a frame are those of HandGaps.                 *)
(***************************************************************************)
EXTENDS HandModel, HandGaps

CONSTANTS
    Runner,         \* the process of phase B, one of Procs
    Raws,           \* what MediaPipe and the depth map can show of a frame
    Modes,          \* whether --overwrite is given
    NoFile,         \* a file that is not there
    Torn,           \* a file whose writer was killed in write_text or np.save
    MaxCalls,       \* bound: calls of run_all_pipeline.sh and of --signals-only
    MaxTroubles     \* bound: frames or videos that raise, SIGINTs and kills

\* MediaPipe shows of a frame, for each hand it finds, whether there is depth at it.
ASSUME HandRunsAssumption ==
    /\ Runner \in Procs /\ Modes \subseteq BOOLEAN
    /\ Raws \subseteq UNION {[S -> BOOLEAN] : S \in SUBSET Sides}
    /\ MaxCalls \in [Configs -> Nat] /\ MaxTroubles \in [Configs -> Nat]

\* What a frame's .pkl and signals.json can hold is neither a missing file nor a torn one.
Estimate == UNION {[S -> [depth : Int, filled : BOOLEAN]] : S \in SUBSET Sides}
Signal == UNION {[S -> Int \cup BOOLEAN] : S \in SUBSET Sides}

ASSUME FilesAssumption ==
    /\ \A S \in SUBSET Sides : NoFile \notin [S -> [depth : Int, filled : BOOLEAN]]
    /\ \A F \in SUBSET Frames, file \in {NoFile, Torn} :
          file \notin [schema : {1, 3}, frames : [F -> Signal]]

VARIABLES
    depth,      \* depth[f]: frames/frame_<f>.npy of phase A
    depthMeta,  \* meta.json of phase A
    pkl,        \* pkl[f]: frames/frame_<f>.pkl of phase B, always whole
    meta,       \* meta.json of phase B
    signals,    \* signals.json
    job,        \* the process that is running, if any
    buffer,     \* left_estimates and right_estimates of phase B
    calls,      \* calls so far
    troubles,   \* troubles so far
    seen,       \* history: seen[f], what pass 1 saved last for f
    mixed,      \* history: an --overwrite has replaced some files, not all, or pass 1
                \* could not save one
    open        \* history: phase B has begun to replace results, signals.json waits

disk == <<depth, depthMeta, pkl, meta, signals>>
past == <<seen, mixed, open>>
runVars == <<disk, job, buffer, calls, troubles, past>>
vars == <<runVars, modelVars>>

NoJob == [pc |-> "idle", overwrite |-> FALSE, k |-> 0, done |-> 0, skipped |-> 0,
          failures |-> {}, unsaved |-> FALSE, sigint |-> FALSE, cut |-> FALSE,
          counted |-> 0]

Init ==
    /\ ModelInit
    /\ depth = [f \in Frames |-> "none"] /\ depthMeta = NoFile
    /\ pkl = [f \in Frames |-> NoFile] /\ meta = NoFile /\ signals = NoFile
    /\ job = NoJob /\ buffer = << >>
    /\ calls = 0 /\ troubles = 0
    /\ seen = [f \in Frames |-> NoFile] /\ mixed = FALSE /\ open = FALSE

At(pc) == job.pc = pc
Goto(pc) == job' = [job EXCEPT !.pc = pc]
Called == calls < MaxCalls[configured] /\ calls' = calls + 1
Trouble == troubles < MaxTroubles[configured] /\ troubles' = troubles + 1
Readable(file) == file \notin {NoFile, Torn}

-----------------------------------------------------------------------------
\* run_all_pipeline.sh

\* Phase A may be left out with --skip-phase-a.  A first call has nothing to overwrite.
Call(overwrite) ==
    /\ At("idle") /\ Called
    /\ overwrite => calls > 0
    /\ \E pc \in {"phaseA", "phaseB"} : job' = [NoJob EXCEPT !.pc = pc, !.overwrite = overwrite]
    /\ UNCHANGED <<disk, buffer, troubles, past, modelVars>>

phase_a_done == Readable(depthMeta) /\ ~depthMeta.interrupted

\* Mutant: any meta.json will do.
phase_b_started == Readable(meta)

phase_b_done == Readable(meta) /\ meta.complete /\ ~meta.interrupted

\* precompute and run up to their loops: nothing is counted, nothing has failed.
precompute(overwrite) == [NoJob EXCEPT !.pc = "depth", !.overwrite = overwrite]
run(overwrite) ==
    [NoJob EXCEPT !.pc = "hands", !.overwrite = overwrite,
                  !.counted = IF depthMeta = NoFile THEN 0 ELSE depthMeta.counted]

phase_a ==
    /\ At("phaseA")
    /\ job' = IF phase_a_done /\ ~job.overwrite
              THEN [job EXCEPT !.pc = "phaseB"] ELSE precompute(job.overwrite)
    /\ UNCHANGED <<disk, buffer, calls, troubles, past, modelVars>>

\* A phase that ends with an error ends the shell, unless its batch was the first.
NextPhase(clean) ==
    \E pc \in {"phaseB"} \cup (IF clean THEN {} ELSE {"idle"}) :
        job' = [NoJob EXCEPT !.pc = pc, !.overwrite = job.overwrite]

validate_depth_dir == \E f \in Frames : depth[f] # "none"

\* run raises without depth files, or when it cannot parse the meta.json of phase A.
phase_b ==
    /\ At("phaseB")
    /\ IF (phase_b_done /\ ~job.overwrite) \/ ~validate_depth_dir \/ depthMeta = Torn
       THEN job' = NoJob /\ UNCHANGED past
       ELSE /\ job' = run(job.overwrite)
            /\ mixed' = (mixed \/ job.overwrite)
            /\ open' = (open \/ job.overwrite)
            /\ UNCHANGED seen
    /\ buffer' = << >>
    /\ UNCHANGED <<disk, calls, troubles, modelVars>>

-----------------------------------------------------------------------------
\* precompute_depth.py

SkipDepth ==
    /\ At("depth") /\ job.k < N
    /\ depth[job.k] # "none" /\ ~job.overwrite
    /\ job' = [job EXCEPT !.k = @ + 1, !.skipped = @ + 1]
    /\ UNCHANGED <<disk, buffer, calls, troubles, past, modelVars>>

\* The flag of the SIGINT handler is read after a frame that was computed.
AfterDepth(job1) ==
    job' = [job1 EXCEPT !.k = @ + 1, !.cut = job.sigint,
                        !.pc = IF job.sigint THEN "depthEnd" ELSE "depth"]

DepthDone ==
    /\ depth' = [depth EXCEPT ![job.k] = "ok"]
    /\ AfterDepth([job EXCEPT !.done = @ + 1])
    /\ UNCHANGED troubles

\* Mutant: the frame is counted before np.save.
DepthFailedCounted ==
    /\ Trouble
    /\ \E file \in {depth[job.k], "torn", "ok"} : depth' = [depth EXCEPT ![job.k] = file]
    /\ AfterDepth([job EXCEPT !.done = @ + 1, !.failures = @ \cup {job.k}])

\* predict_frame raises, or np.save with the file begun, or the viz writers after it.
DepthFailed ==
    /\ Trouble
    /\ \E file \in {depth[job.k], "torn", "ok"} : depth' = [depth EXCEPT ![job.k] = file]
    /\ AfterDepth([job EXCEPT !.failures = @ \cup {job.k}])

ComputeDepth ==
    /\ At("depth") /\ job.k < N
    /\ depth[job.k] = "none" \/ job.overwrite
    /\ DepthDone \/ DepthFailed
    /\ UNCHANGED <<depthMeta, pkl, meta, signals, buffer, calls, past, modelVars>>

SavedDepthMeta == [counted |-> job.done + job.skipped, interrupted |-> job.cut]

\* The finally of precompute: a writer whose ffmpeg failed raises in release(), and
\* meta.json is not written.
EndDepth ==
    /\ At("depthEnd") \/ (At("depth") /\ job.k = N)
    /\ \/ /\ depthMeta' = SavedDepthMeta
          /\ NextPhase(job.failures = {} /\ ~job.cut)
          /\ UNCHANGED troubles
       \/ /\ Trouble
          /\ NextPhase(FALSE)
          /\ UNCHANGED depthMeta
    /\ UNCHANGED <<depth, pkl, meta, signals, buffer, calls, past, modelVars>>

-----------------------------------------------------------------------------
\* run_hand_estimation.py, pass 1

AfterHands(job1) ==
    job' = [job1 EXCEPT !.k = @ + 1, !.cut = job.sigint,
                        !.pc = IF job.sigint THEN "pass1" ELSE "hands"]

Put(f, hands) == [g \in DOMAIN buffer \cup {f} |-> IF g = f THEN hands ELSE buffer[g]]

\* The file of an earlier run, pass 2 of that run included; no look at the flag.
LoadHands ==
    /\ At("hands") /\ job.k < N
    /\ pkl[job.k] # NoFile /\ ~job.overwrite
    /\ buffer' = Put(job.k, pkl[job.k])
    /\ job' = [job EXCEPT !.k = @ + 1]
    /\ UNCHANGED <<disk, calls, troubles, past, modelVars>>

Computing == At("hands") /\ job.k < N /\ (pkl[job.k] = NoFile \/ job.overwrite)

NeedModel ==
    /\ Computing /\ get_mediapipe_hands(Runner)
    /\ UNCHANGED runVars

\* With a landmarker MediaPipe finds some hands, or none.
run_mediapipe(raws) == at[Runner] = "loaded" /\ raws \in Raws

\* A depth file that cannot be loaded is as good as none.
Estimates(raws, f) ==
    IF depth[f] = "ok" THEN apply_metric_depth(raws, f) ELSE passthrough_estimate(raws)

save_pkl_atomic(f, hands) == pkl' = [pkl EXCEPT ![f] = hands]

DetectHands ==
    /\ Computing
    /\ \E raws \in Raws :
          LET hands == Estimates(raws, job.k)
          IN  /\ run_mediapipe(raws)
              /\ buffer' = Put(job.k, hands)
              /\ save_pkl_atomic(job.k, hands)
              /\ seen' = [seen EXCEPT ![job.k] = hands]
    /\ AfterHands(job)
    /\ UNCHANGED <<depth, depthMeta, meta, signals, calls, troubles, mixed, open, modelVars>>

\* Any other exception costs the frame only, that of the model too: it is resolved
\* again for the next one.
FrameFailed ==
    /\ Computing
    /\ \/ Retry(Runner) /\ UNCHANGED troubles
       \/ at[Runner] = "loaded" /\ Trouble /\ UNCHANGED modelVars
    /\ buffer' = Put(job.k, NoHands)
    /\ AfterHands([job EXCEPT !.failures = @ \cup {job.k}])
    /\ UNCHANGED <<disk, calls, past>>

\* The file cannot be written.  The frame counts as failed, but what was detected is
\* in memory already and stays there for pass 2.
SaveFails ==
    /\ Computing /\ Trouble
    /\ \E raws \in Raws : run_mediapipe(raws) /\ buffer' = Put(job.k, Estimates(raws, job.k))
    /\ AfterHands([job EXCEPT !.failures = @ \cup {job.k}, !.unsaved = TRUE])
    /\ mixed' = TRUE
    /\ UNCHANGED <<disk, calls, seen, open, modelVars>>

SavedMeta(complete) ==
    [complete |-> complete, interrupted |-> job.cut, counted |-> job.counted]

\* The process ends, and with it the landmarker.
Exit == job' = NoJob /\ buffer' = << >> /\ Gone(Runner)

EndPass1 ==
    /\ At("pass1") \/ (At("hands") /\ job.k = N)
    /\ meta' = SavedMeta(FALSE)
    /\ IF job.cut
       THEN Exit
       ELSE Goto("complete") /\ UNCHANGED <<buffer, modelVars>>
    /\ UNCHANGED <<depth, depthMeta, pkl, signals, calls, troubles, past>>

-----------------------------------------------------------------------------
\* Pass 2

\* pass1_complete is saved first, and then the gaps are filled in memory.  The flag of
\* the SIGINT handler is not read again.
DeclarePass1 ==
    /\ At("complete")
    /\ meta' = SavedMeta(TRUE)
    /\ buffer' = interpolate_side(buffer)
    /\ job' = [job EXCEPT !.pc = "rewrite", !.k = 0, !.sigint = FALSE]
    /\ open' = TRUE
    /\ UNCHANGED <<depth, depthMeta, pkl, signals, calls, troubles, seen, mixed, modelVars>>

\* A frame that failed in pass 1 gets the file of a frame without hands.
Rewrite ==
    /\ At("rewrite")
    /\ save_pkl_atomic(job.k, buffer[job.k])
    /\ seen' = IF job.k \in job.failures THEN [seen EXCEPT ![job.k] = NoHands] ELSE seen
    /\ job' = [job EXCEPT !.k = @ + 1, !.pc = IF job.k = N - 1 THEN "stats" ELSE "rewrite"]
    /\ mixed' = (mixed /\ ~(job.overwrite /\ ~job.unsaved /\ job.k = N - 1))
    /\ UNCHANGED <<depth, depthMeta, meta, signals, buffer, calls, troubles, open, modelVars>>

Stats ==
    /\ At("stats")
    /\ IF check_depth_coverage(buffer)
       THEN Goto("signals") /\ UNCHANGED <<buffer, modelVars>>
       ELSE Exit
    /\ UNCHANGED <<disk, calls, troubles, past>>

\* signals.json; the overlay and the last meta.json have no other effect.
WriteSignals ==
    /\ At("signals")
    /\ signals' = generate_signals(buffer, TRUE)
    /\ open' = FALSE
    /\ Exit
    /\ UNCHANGED <<depth, depthMeta, pkl, meta, calls, troubles, seen, mixed>>

\* --signals-only.
run_signals_only(full) ==
    LET there == {f \in Frames : pkl[f] # NoFile}
    IN  /\ At("idle") /\ meta # NoFile /\ there # {} /\ Called
        /\ signals' = generate_signals([f \in there |-> pkl[f]], full)
        /\ UNCHANGED <<depth, depthMeta, pkl, meta, job, buffer, troubles, past, modelVars>>

-----------------------------------------------------------------------------
\* What hands_index makes of the two counters in the meta.json of phase A that the
\* meta.json of phase B holds.
frames_ok == Readable(meta) /\ meta.counted = N

-----------------------------------------------------------------------------
\* Interruptions

Interrupt ==
    /\ job.pc \in {"depth", "hands"} /\ ~job.sigint
    /\ Trouble
    /\ job' = [job EXCEPT !.sigint = TRUE]
    /\ UNCHANGED <<disk, buffer, calls, past, modelVars>>

\* What the process was writing with write_text or np.save may be left torn.
Kill ==
    /\ ~At("idle") /\ Trouble
    /\ depth' \in {depth} \cup
          (IF At("depth") /\ job.k < N /\ (depth[job.k] = "none" \/ job.overwrite)
           THEN {[depth EXCEPT ![job.k] = "torn"]} ELSE {})
    /\ depthMeta' \in {depthMeta} \cup
          (IF At("depthEnd") \/ (At("depth") /\ job.k = N) THEN {Torn} ELSE {})
    /\ meta' \in {meta} \cup
          (IF \/ job.pc \in {"pass1", "complete", "stats", "signals"}
              \/ At("hands") /\ job.k = N
           THEN {Torn} ELSE {})
    /\ signals' \in {signals} \cup (IF At("signals") THEN {Torn} ELSE {})
    /\ Exit
    /\ UNCHANGED <<pkl, calls, past>>

\* The other processes matter to this one while it resolves the model; what they do
\* at other times ends in one of the initial states of the cache.
ModelStep ==
    /\ Computing
    /\ \/ Resolving(Runner)
       \/ /\ at[Runner] \notin {"idle", "loaded", "failed"}
          /\ \E p \in Procs \ {Runner} : get_mediapipe_hands(p) \/ Resolving(p) \/ Gone(p)
    /\ UNCHANGED runVars

Next ==
    \/ \E overwrite \in Modes : Call(overwrite)
    \/ phase_a \/ SkipDepth \/ ComputeDepth \/ EndDepth
    \/ phase_b \/ LoadHands \/ NeedModel \/ DetectHands \/ FrameFailed \/ SaveFails
    \/ EndPass1 \/ DeclarePass1 \/ Rewrite \/ Stats \/ WriteSignals
    \/ \E full \in BOOLEAN : run_signals_only(full)
    \/ Interrupt \/ Kill \/ ModelStep

Spec == Init /\ [][Next]_vars

-----------------------------------------------------------------------------
\* What the frames of pass 1 come to when nothing interrupts pass 2: a hand without
\* depth that lies in a gap of at most MaxGap frames between two measured ones.
Filled(first) ==
    LET Ends(f, s) ==
            {e \in (0 .. f - 1) \X (f + 1 .. N - 1) :
                /\ e[2] - e[1] <= MaxGap + 1
                /\ Measured(first, s, e[1]) /\ Measured(first, s, e[2])
                /\ \A g \in e[1] + 1 .. e[2] - 1 : Missing(first, s, g)}
        Line(f, s, a, b) ==
            [filled |-> TRUE,
             depth |-> (first[a][s].depth * (b - f) + first[b][s].depth * (f - a)) \div (b - a)]
    IN  [f \in Frames |-> [s \in DOMAIN first[f] |->
            IF Ends(f, s) = {} THEN first[f][s]
            ELSE LET e == CHOOSE e \in Ends(f, s) : TRUE IN Line(f, s, e[1], e[2])]]

\* The depths of the code are floats.  Here they are numbers of a unit; it is fine
\* enough when the points of the line between the ends of a gap are whole as well.
WholeSteps ==
    \A a, b \in Frames :
        a < b /\ b - a <= MaxGap + 1 => (Depth[b] - Depth[a]) % (b - a) = 0

\* However often phase B was interrupted, killed in the middle of its second pass and
\* resumed from files that were partly filled, what it ends with is what one run would
\* have made of the frames as pass 1 saw them: a filled depth is never taken for a
\* measured one to any effect.  Excepted are an --overwrite that was not finished,
\* which leaves depths that were filled from estimates it has replaced, and, until an
\* --overwrite is finished, a pass 1 that could not save a frame: pass 2 writes the
\* frame as it was detected, which no file said before.
ResumedAsIfAtOnce ==
    ~mixed /\ job.pc \in {"stats", "signals"} => pkl = Filled(seen)

\* What run_all_pipeline.sh takes for done and passes over has the signals of the
\* frames that are there, unless a run ended between its first change of them (its
\* claim that pass 1 is complete, or an --overwrite) and signals.json.
PassedOverIsDone ==
    phase_b_done /\ ~open =>
        Readable(signals) /\ signals = generate_signals(pkl, signals.schema = 3)

\* The index of the server calls the depth video ready when the meta.json that phase
\* B copied counts every frame of the video: each has its depth file then, whatever
\* frames failed, were passed over, or were left by a run that was killed.
CountedDepthIsThere ==
    frames_ok => \A f \in Frames : depth[f] # "none"
=============================================================================
