# TLA+ verification of MimicAnno

MimicAnno annotates episodes of robot demonstrations with subtask segments.
`mimicanno annotate` computes the annotation of an episode and publishes it as
a directory under `runs/`; a review server lets people correct it over HTTP and
starts further annotate processes; `mimicanno export` turns reviewed runs into
a dataset. Beside it, a pipeline of scripts estimates the hands in a video. This directory holds the formal model of the parts of that system
where processes, requests and failures meet.

`PROJECT.json` has the exact inventory: components, runs, the source lines each
definition stands for, hazards, findings and theorems. This file explains them.

## 1. The system

| Component | Code | State it keeps | Operations |
|---|---|---|---|
| Publish transaction | `publish.py` | `runs/<name>`, `.tmp.<pid>`, `.bak.<pid>` | resolve a name, reuse, compute into tmp, replace under the lock, undo |
| Scavenger | `scavenger.py` | `.writer.json` of side directories | remove side directories that are a day old and whose writer is dead |
| Run index | `runindex.py`, `rundir.py` | `runs/index.json` | upsert by run hash, find the name of a run |
| File lock | `locks.py` | `runs/index.json.lock` | acquire with a time-out, release, release by death |
| Edit transaction | `server/*_repo.py`, `server/write_txn.py` | `annotation.json`, `manifest.json`, `index.json` | relabel, boundary, reviewed, labels |
| Boundary validation, edit events | `server/boundary_lookup.py`, `server/event_builder.py` | none | admissible frames, audit events |
| Annotate jobs | `server/job_runner.py`, `job_store.py`, job routes, `app.py` | job records on disk; queues, workers, handles and streams in memory | submit, cancel, delete, stream, run, recover |
| PATCH and read routes | `server/routes.py`, `runs_repo.py`, `errors.py` | none | parse, refuse or call an edit, serve a file |
| Review client | `RunViewer.tsx`, `SegmentTable.tsx`, `TimelineRuler.tsx` and the clients in `lib/` | the version held, the annotation shown, in-flight flags, a drag, the URL | load, edit with If-Match, time out, roll back, re-fetch |
| Annotate pipeline | `pipeline.py` and the phases below it | none between calls | candidates, bracketing, labels, tracking, smoothing |
| Smoother | `smoother.py` | none | merge equal neighbours, absorb short segments, Viterbi |
| Boundaries, bracketing | `boundaries.py`, `bracketing.py` | none | select candidates, tile the episode |
| VLM labeler | `vlm_labeler.py` | none | ask, validate, classify an exception, retry, degrade |
| Object tracker | `object_tracker/` | SAM3 sessions and streams, per-prompt tracking state | plan, ground, retry, propagate, lose, re-acquire, release |
| Exports | `exports/` | `OUT`, `OUT.tmp.<pid>`, `OUT.old.<pid>`, or the dataset itself and its backups | resolve runs, load them, test idempotency, write a tree, replace OUT |
| Hand pipeline | `scripts/precompute_depth.py`, `scripts/run_hand_estimation.py`, `run_all_pipeline.sh`, `hand_pipeline/` | per video: `frames/*.npy`, `frames/*.pkl`, two `meta.json`, `signals.json`; per user: the cached MediaPipe model | depth of each frame, hands of each frame, filling of gaps, signals, resumption |
| Hands routes | `server/hands_routes.py` | none | the index of hand videos, read from `meta.json` |
| Catalog, readers, schema, evaluation, masks, other scripts, pages | the rest | none | read-only scans, conversion, rendering, numerics |

### How the components interact

Annotate processes and the review server share no memory. Everything they know
of each other is in `runs/`; only `index.json.lock` orders their writes, and
neither the computation of a run nor any reader takes it. The server's handlers
run in a thread pool; its job runner is one asyncio loop that starts annotate
processes, which then publish like any other. Clients name the version they
edit by `run_hash`, sent as `If-Match`. An export reads runs like any client,
file by file and without the lock, and writes where other exports may write. A
batch annotates one episode after another in one process, with one SAM3 runtime
whose sessions outlive an episode unless somebody closes them. The two phases of
the hand pipeline meet in files: the second reads what the first left, each
resumes from its own, the shell script decides from the `meta.json` of both what
it passes over, and the server what it offers. All of its processes share the
cached model under a lock of its own.

### What is hard

- **Atomicity made of several writes.** A publication is two renames, an index
  write and a removal; a PATCH is three file writes. A kill can fall between
  any two of them.
- **Stale state.** The name of a run is chosen hours before it is published;
  clients hold versions; a job worker holds a record; the stream handler tests
  a record loaded in another task.
- **Process identity.** Side directories are named by process id, ids are
  reused, and a directory is stale by age and by the death of its writer.
- **Answers that are late.** The browser gives a PATCH up while the server goes
  on with it, fetches hash and annotation apart, and lets a drag end while
  another edit is in flight.
- **Exceptions in the middle.** SAM3, the planner, a sink or a rename may raise
  anywhere, and what was opened, moved aside or half written is left to
  `finally` clauses.
- **Ordering.** Audit events must be read before and appended after a change,
  in version order; jobs of a GPU start in submission order.
- **Resumption.** The hand pipeline rewrites in a second pass the files it
  resumes its first pass from, and declares the pass complete before it does.
- **Progress.** Everybody waits for one lock; streams wait for a sentinel.

### What makes each component correct

- Publish: nobody sees or overwrites a half-replaced run except as "absent"; a
  live publisher's directory is not scavenged; index and directories agree as
  long as nothing failed; every publication ends.
- Edits: no edit is lost or applied to a version its author has not seen; the
  audit trail only grows and accounts for what the annotation says; the
  segments keep tiling the episode; review marks follow the audit.
- Jobs: one process per GPU; first come, first served; a record that says
  running is being watched; an outcome is final; jobs and watched streams end.
- Annotate pipeline: the segments cover the episode; a degraded labelling leaks
  no labels; smoothing reaches its goals in whatever order it gets there, its
  post-condition never throws a labelled run away, the decoding is optimal, and
  the loops end.
- Exports: what is in OUT decodes, and agrees with itself; it is not older than
  the run hashes it records; the export before it is not lost; an export is
  reused only when its inputs are unchanged.
- Review client: nobody overwrites an edit he was not shown; a page at rest
  shows what it would edit; the controls always come back.
- Object tracker: no session is left behind; where an object was lost there is
  no signal, where it was seen there is one; one primary track for each role.
- Hand pipeline: however often it is interrupted and resumed, it ends with what
  one run would have made; what is passed over is finished; what is counted is
  there; a model that was found in the cache stays until it is opened.

## 2. Modules

| Module | What it models |
|---|---|
| `RunStore` | one episode's directories under `runs/`, annotate processes, PATCH handlers and their clients, the lock, kills, exceptions, the passing of days |
| `EditRegister` | the abstract specification: a run is a register with compare-and-append edits |
| `SegmentEdits` | what the four PATCH operations do to the annotation |
| `Jobs` | job records, queues, GPU workers, subprocesses, streams, kills of the server |
| `Segments` | events to boundary candidates to the first segments; confidences |
| `Labeler` | the labelling loops: what may be answered and raised, what is refused, how a fault is classified, degradation |
| `Smoother` | `apply_smoothing`: merges, absorptions, Viterbi decoding, post-condition |
| `Timeline` | the annotate pipeline that runs the three, and its properties |
| `ExportSink` | the checks and the files of an export as functions of its annotations |
| `Export` | `bulk_export` as a process: resolution, loading, writing, replacement, while runs change |
| `ReviewClient` | a browser tab, the routes that answer it, other reviewers, publications |
| `Tracks` | sightings to tracks to the frames that have a signal |
| `Tracker` | planning, grounding, sessions and streams of one episode after another |
| `HandModel` | the MediaPipe model in the cache that all processes of a user share |
| `HandGaps` | estimates of a frame, the filling of gaps, coverage, `signals.json` as functions |
| `HandRuns` | the two phases of one video and the script that calls them, on top of both |
| `MCRunStore`, `MCSegmentEdits`, `MCJobs`, `MCTimeline`, `MCExport`, `MCReviewClient`, `MCTracker`, `MCHands` | instances for TLC |
| `RunStoreProofs` | the inductive invariant of `RunStore` and the theorems from it, and what readers rely on: the audit trail, the index, and that `RunStore` implements `EditRegister` |
| `SegmentEditsProofs` | the tiling, the human boundaries, the audit trail and the review marks survive every edit |
| `JobsProofs` | GPUs, records, queues and outcomes, for any number of jobs, GPUs and kills |
| `ReviewClientProofs` | no edit overwrites what its reviewer has not been shown; at rest the table shows what the next edit would change; the URL names it but for review marks |
| `TimelineProofs` | for any events and answers: all labels or none, the cover of the episode, what smoothing reaches, that its result is accounted for, that decoding is optimal, and that no annotation goes on for ever |
| `TrackerProofs` | no session of SAM3 outlives its episode, a role has one primary track, lost frames have no signal |
| `HandRunsProofs` | the model cache is safe for any number of processes, `HandRuns` implements it, its counters are true, what it passes over is done, and a resumed run ends like one run |
| `ExportProofs` | the trees an export leaves are sound, whatever happens around it |

### RunStore and the code

`runs[n]` is the directory `runs/n` with the hash in its manifest (`man`) and
its annotation (`ann`); `tmps[n][p]` and `baks[n][p]` are `n.tmp.p` and
`n.bak.p`; `index` the rows of `index.json`; `pub[p]` the program counter and
locals of `publish()` under process id `p`; `ed[c]` a client and the handler of
its PATCH. There is one action per step of `publish()` that another process
could see or that can fail: `ResolveName`, `CheckReuse`, `MakeTmp`, `ClaimTmp`,
`WriteArtifacts`, `AcquirePublishLock`, `Scavenge`, `RecheckReuse`,
`HealIndex`, `BakeName`, `BackupFinal`, `ClaimBak`, `InstallFinal`,
`UpsertIndex`, `RemoveBak`. `GiveUp`, `BackupRefused` and `Fault` are its
exception paths with what `finally` and `except` remove; `CrashAnnotator` is a
kill, after which the kernel releases the lock and nothing is cleaned up.
`faults` counts the exceptions of publishers and of PATCH handlers together.

A PATCH is `SubmitEdit`, then `EditLockTimeout`, `RejectEdit` or `AcceptEdit`,
then the three writes of `write_run_atomically`. Each write is itself a rename
and therefore atomic. `EditFails` is an exception of any of them, or of a read
under the lock (a full disk): the transaction has no roll-back, so what was written
stays, the lock is released, the client gets a 500 and may send the PATCH again.
`CrashServer` is a kill of the server in the middle. A
client that gives up (the browser after 10 s) while its handler still waits for
the lock (up to 30 s) is in the model as a second client that holds the same
version.

Abstractions:
- A SHA-256 is what is hashed. Two hashes are equal exactly if their inputs are.
- `NoChange` with `checked` folds the validation of the four handlers: relabel
  accepts an edit that changes nothing, the other three refuse it.
- The age of a directory is a Boolean set by `DayPasses`, which happens only
  while no publisher is in its short steps: a `publish()` that stays between
  two file operations for 24 hours is left out, a computation that long is not.
- Process ids may be reused; process start times may not.
- The scavenger's sweep is one step. It runs under the lock, but a side
  directory can be removed by its owner during the sweep; see the hazards.

### SegmentEdits and the code

`segments` and `history` are the lists of the same names in `annotation.json`.
`Relabel`, `MoveBoundary`, `SetReviewed` and `SetLabels` are the mutations of
`edit_repo`, `boundary_repo`, `reviewed_repo` and `labels_repo`; `ValidFrame`
is `validate_new_frame`, `DerivedFrames` is `derive_n_frames`. Times are frames
over fps and are left out, as are the recomputed confidences.

The initial states are what a published run looks like: bracketing cuts the
episode at boundary candidates and gives neighbours the same rounded cut. It
drops intervals shorter than a frame. In front of a candidate late in frame 0
that leaves frame 0 uncovered, so the first segment starts at 0 or 1
(`FirstFrames`). Further in, it cannot happen while `merge_window_sec` (0.10 s
by default) is longer than a frame, which is assumed here; the last frame of
the episode is whatever the last segment ends with, as in `derive_n_frames`.

### Jobs and the code

`store` has the record files, `queue` and `active` the members of `JobQueue`,
`proc` the annotate subprocesses, `stream` the server-sent event connections. A
coroutine's code between two awaits is one action. `SaveProgress` and
`FinishJob` save the record the worker loaded when it started the job, which is
how a cancellation is overwritten. `KillServer` loses queues, workers, handles
and streams; subprocesses live on or not. `KillStarting` is a kill between the
two saves that start a job. `StartServer` is the startup hook with
`reclassify_stale_running_jobs`. `handles` is `JobRunner._procs`, by which a
`DELETE` finds the process.

Records and logs are files, and reading or writing one may raise; `faults` counts
these exceptions. The code has one `except` clause for everything from `Popen` to
the exit (`job_runner.py:291`), so an exception after `Popen` ends like one of
`Popen` itself: the record says failed, the handle is forgotten and the worker gives
the GPU back, while the process lives on (`StartBreaks` before the first line of the
log, `TailBreaks` after it). If the save in `finally` raises too, the record goes
on saying running and the streams are not told (`StartUnsettled`,
`FinishUnsettled`). A record that cannot be read, or not saved when it is first to
say running, takes the job out of its queue and leaves the record as it was
(`LoseStart`). `CancelBreaks` is a `DELETE` that has sent SIGTERM and cannot
record it, `StartServerFaulty` a startup that passes over a record it cannot read, or
ends at one it cannot write. `StartFails` is `Popen` raising, which costs nothing but
the job and is not counted. A `POST` whose first save raises is answered with a 500
and changes nothing.

A graceful stop of the server cancels the worker's task: `finally` then saves the
record it holds once more, still running, which is `SaveProgress` followed by
`KillServer`.

### Timeline and the code

`Timeline` is one annotate process from the events of the detectors to the
annotation it hands to `publish()`; `stage` is where `annotate_episode` or
`annotate_episode_phase3` is and `segments` its local variable. `Segments`,
`Labeler` and `Smoother` declare the state of their part, and each extends the
one before, as each phase works on what the previous one returns.

- `Segments`: `Candidates` is `integrated_candidates` (groups by the sliding
  anchor, best score of each source, promotion), `Edges` and `Bracket` are
  `bracket_phase1_segments`. The order of a list that the code has sorted is
  `Nth`, the k-th of a set of times, and not a sort: so it can be proved about.
  Times are integers, `FrameTicks` to a frame, so that events fall inside frames.
  Python rounds halves to even and the product
  with fps has an error: halfway between frames either frame is possible (`up`).
- `Labeler`: `Answer`, `Reject`, `Fault` and `Propagate` are the outcomes of a
  call of the model, in the loops over segments and attempts of `label_run` and
  `apply_phase3_labeling`. The model may answer anything in `Texts` and a call
  raise anything in `Exceptions`; `parse_and_validate` sorts the answers into
  `Accepted` and `Refused`, `raise_classified` the exceptions into the four
  reasons of a `LabelerRuntimeError` and those that end the process (stage
  "raised"; nothing was published by then). `faults` is the count of
  consecutive runtime failures, which a refusal leaves alone and an answer resets.
- `Smoother`: one action per merge (`MergeNext`), absorption (`AbsorbNext`), end
  of a round or pass, column of the decoder (`ExtendColumns`), relabelling
  (`Relabel`) and the final check. `op` and `pos` are where it is. Confidences
  are exact rationals where the code has floats.
- `Timeline`: `TrackObjects` chooses whether an object was grounded. Without
  one the run takes the way of `_degrade_to_phase3_objectless`, which labels
  but does not smooth.

Left out: verb, object, target and evidence, which follow the label, provenance
fields, and segment ids, which are renumbered.

### Export and the code

`run[r]` is `runs/r` with what its two files were made from (`made` for the
annotation, `hash` for the manifest; both are the number of the write), and
`ex[x]` one process in `bulk_export`. `ResolveRuns`, `LoadManifest`,
`LoadAnnotation`, `CheckExisting`, `PrepareLayout`, the four writes of the sink,
`Validate`, `WriteProvenance` and the renames of `finalize` are its steps, in
its order. A check that raises ends in the exception path, `Kill` anywhere
leaves what is on disk. An in-place export backs up what it is going to write and no
more (`Copy`): the data files of its own episodes, and of `meta/` the registry, the
sidecar and the episode rows, as they are at that moment, exports before it included.
`KillInBackup` leaves the files copied so far. A tree is what a reader takes from it: the registry of
phases, the `subtask_index` columns of each data file as numbers, the list
columns, the sidecar, the provenance. `Registry`, `Column` and `ListColumn` in
`ExportSink` compute them as the sink does, so that `TreesAreSound` can decode
the numbers again. In place, columns are appended to the dataset's own files:
a second export finds the first one's and may be refused by the reader
(`Doubled`), as pyarrow does depending on its version and schema.

The writers of the runs are reduced to what an unlocked reader can see: an edit
is `BeginEdit` (annotation) and `EndEdit` (manifest), a publication
`BeginPublish` and `EndPublish` with the gap between. `RunStore` has the rest.
Left out: pose and delta numerics, `info.json` (backed up with the rest of `meta/`),
symlinks of the layout. The provenance file is written in place without a backup,
but a dataset that was never exported to has none. A profile may rename the registry
and the sidecar, and `_files_to_back_up_for_inplace` knows their default names only:
the default names are assumed.

### HandRuns and the code

`depth` and `pkl` are the files of each frame, `depthMeta` and `meta` the
`meta.json` of the two phases, `signals` the file of that name, `job` the one
process that runs, with its program counter and locals, `buffer` the estimates
phase B holds in memory. A frame is a step: `SkipDepth`, `DepthDone` or
`DepthFailed` in phase A, `LoadHands`, `DetectHands` or `FrameFailed` in the
first pass of phase B, `Rewrite` in its second. `SaveFails` is a frame whose file
cannot be written: it counts as failed like one that raised before, but its estimates
are in memory by then and stay there for pass 2, which writes them after all. `EndDepth`, `EndPass1` and
`DeclarePass1` save `meta.json`; `Stats` is the coverage check that may end the
run; `WriteSignals` its last effect; `run_signals_only` the option that makes
`signals.json` from the files alone. `Call`, `phase_a` and `phase_b` are
`run_all_pipeline.sh` with the tests by which it passes over a video. `Interrupt`
sets the flag of the SIGINT handler, which is read only after a frame that was
computed, and never in pass 2. `Kill` may leave torn what is written with
`np.save` or `write_text`; the `.pkl` files are written aside and renamed.

`HandModel` is `_resolve_model_path` and `_get_mediapipe_hands` step by step:
the environment, the look without the lock, the flock, the second look, the
download to a file named by process id, its size, the rename, the opening. In
`HandRuns` other processes take its steps only while the runner resolves the
model: at other times nothing of theirs is read, and where they have got to is
one of the initial states of the cache.

Reductions: an estimate is a function from the sides detected to the depth of
the wrist and whether that depth was filled; joints, rotation and pinch are
blended by the same weight in the same place. Two hands of one side collapse to
the later one in the code, hence one entry for each side. The script runs one
video at a time here; batches, `--limit`, `--stride`, the overlay and the depth
video are left out, and so is phase C. `seen`, `mixed` and `open` are history: what
pass 1 saw last, whether an `--overwrite` is unfinished or a frame of pass 1 could
not be saved (until an `--overwrite` is finished), whether a run has begun
to change results whose `signals.json` waits.

### ReviewClient and the code

`page` is the state of `RunViewer`: `held` is the manifest in its state, whose
hash is the next If-Match, `shown` the annotation, `local` what the controls of
`SegmentTable` display before an answer, `drag` the pointer's drag in
`TimelineRuler`. `inFlight` has the four flags. `onPhaseEdit`,
`onReviewedToggle`, `onLabelsEdit`, `onPointerDown`, `onPointerUp` and
`onKeyDown` are the handlers up to their first await. A request then goes
through `Accept` and `Commit`, or `Refuse`, on the server, and `ReceiveOk`,
`ReceiveConflict`, `ReceiveRefusal` or `TimeOut` in the tab; after an accepted
edit `Refetch` and `Deliver`, or `RefetchFails`. The table is disabled while
anything is in flight or the page is stale; the ruler asks only when a drag
begins and not for staleness, which is why two edits can overlap. A reload or a
time-out forgets a request, not its effect. `patch_segment` and its three
siblings are the refusals of the routes in `routes.py`.

A version is the sequence of its edits, and its hash is the version. One field
of one segment stands for each of the four kinds of edit.

### Tracker and the code

`phase` is where `annotate_episode_phase3` is. `Plan`, `RejectPlan` and
`PlannerFails` are `EntityPlanner`; `GroundPrompt`, `Adopt`, `Retry` and
`NothingFound` are the grounding on frame 0 and on the retry frames;
`OpenSession`, `StartStreams` and `Round` are `SAM3Runtime.propagate` with
`_merge_streams`, and `Propagator.run` that consumes it. Every call of SAM3 may
raise (`StartSessionFails`, `AddPromptFails`, `StreamFails`, `GroundingFails`);
`Raise` is what `propagate`'s `finally` closes then, `Release` what the
pipeline's does. `sessions` is `_open_sessions`, what the runtime knows of: a
`close_session` that raises is logged and the id forgotten all the same
(`_close_session`, `sam3_runtime.py:668-680`), so that SAM3 itself may keep a session
that `NoStraySession` does not see, and nobody can close any more. `Tracks` has the state machine
of a prompt (`GoodSample`, `BadFrame`, `FinalTracks`), the primary tracks and,
as sets of frames, where centers, speeds and distances are numbers and not NaN.
SAM3 is external: it may see or lose anything, in any stream, on any frame, and
goes through the frames in the order of `SweepOrder`. Scores are good or low,
boxes overlap or do not. Masks and the values of the signals are left out.

## 3. Runs

| Run | Question | Instance |
|---|---|---|
| `run_store` | Does the lock exclude, is an edit ever lost, does the audit trail account for the run, how far apart are annotation and manifest, is a live publisher's directory safe, do index and directories agree? | 2 process ids, 2 clients, 2 publications, 1 edit per version, a relabel and a checked edit, 1 kill, 1 exception of a publisher or a PATCH |
| `run_store_live` | Does every publication and PATCH end? | 1 process id used for 3 publications, 1 client, 1 edit per version, 1 kill, 1 exception, under fairness |
| `segment_edits` | Do tiling, audit chain and review marks survive any edits? | up to 3 segments in 4 frames, 3 edits |
| `jobs` | One process per GPU, order, attendance, final outcomes, progress, and what do kills and exceptions cost? | 2 jobs, 2 GPUs, 1 stream, 1 kill of the server, 2 files that cannot be read or written, under fairness |
| `timeline` | Is the episode covered, does smoothing reach its goals and pass its post-condition, are labels explained and decoded optimally, does it end? | 8 frames of 4 ticks, up to 3 cuts, 2 labels, 2 confidences, 2 attempts, 2 faults, target phases 1, 2 and 4, under fairness |
| `export` | Does what is installed decode, is it as new as its hashes, is the export before it kept, is a reused one current? | 2 episodes of 2 frames, 3 runs, 2 processes, 2 exports, 1 write, 1 kill, four requests |
| `review_client` | Is an edit ever made blindly, is the view that of the version held, what does its URL lag behind by, do the controls come back? | 2 edits of the tab, 1 of another reviewer, 1 publication, 1 reload, under fairness |
| `hands` | Does resuming give what one run gives, is what is passed over done, is what is counted there, does a resolved model stay? | 4 frames, 2 sides, gaps of up to 2 frames, 2 calls, 1 trouble, a second process at the model cache |
| `tracker` | Is a session ever left behind, has a lost frame a signal, has a role one primary track? | 7 frames, stride 2, gap 2, three retry fractions, five plans, own and shared runtime |
| `run_store_retry`, `jobs_cancel`, `tracker_retry` | Documented claims the code does not keep (section 5) | the smallest instance that shows it |

**Bounds.** `MaxStarts`, `MaxCrashes`, `MaxFaults`, `MaxEdits` and
`MaxRestarts` are in the guards of the actions they limit. Two publishers and
two editors are every pair that can meet, since the lock lets one in at a time;
one kill and one exception on top of two publications reach every state a
cleanup can leave; an edit between two publications of one request reaches the
collision name; three publications under one process id, one of them killed,
reach a backup that is in the way of the next. Two names are all one request has (the
hash with 12 and with 16 digits). Four frames leave a boundary room on one side
and none on the other, and three edits let a third see what two have done to a
shared segment. Two jobs are the least that can be ordered or collide, and two
exceptions are what it takes to raise in the `except` path of another, or to lose both
jobs. The process ids and the clients are symmetric in the safety run; the liveness runs
use no symmetry. Runs stop at their bounds, hence `CHECK_DEADLOCK FALSE`; so does
`jobs` when both jobs are deleted and nobody streams.

In `timeline`, three cuts give four segments, of which two can be short side by
side and have a long neighbour on each side; two cuts that are not preserved
with 9 ticks or more around them need a second round of Op 1. Events lie in the
first and the last frame, halfway between frames, and close enough to share a
candidate. The two confidences are one below and one above the penalty for a
forbidden transition. Target phase 3 is 4 without the smoother, and so is 4
without objects. One of the confidences the model answers is out of range. The
runs stop when the annotation is done, or when an exception has ended the process.

In `export`, two exports are the least that can meet or follow each other, and
the second may reuse, replace or be refused over the first; one write falls
anywhere in their reads. The drafts leave the first or the last frame uncovered,
so that gaps, the "unlabeled" phase and the checks of the last frame come up; one
run is degraded and one is reviewed after an edit, so that each gate passes and
fails. The requests are a plain one, a forced one for a named run with the
strict gates and bare names, and two in place: one of all episodes, and one for a
named run, which writes the second episode only. Their backups differ, so that the
original of the dataset may be spread over two of them. The two processes are
symmetric.

In `review_client`, two edits are two answers, two re-fetches and two roll-backs
that can overlap, in every pair of kinds. One edit of somebody else, one
publication and one reload fall between any two of their steps. The page is
opened with a hash in its URL, which the reload of a stale page drops.

In `hands`, four frames with gaps of up to two have every gap that is filled
(inside, of one frame and of two) and every one that is not (at an edge, or
across a frame without hands); the depths make every blended value whole, so that
filling from filled values would show. Two calls are a run and its resumption, an
`--overwrite`, or `--signals-only` over a run; one trouble is a frame or video
that raises, a file that cannot be saved, a SIGINT or a kill, at any step of either. `MaxCalls` and
`MaxTroubles` depend on `configured`: the histories in which the model comes from
the shared cache have one call, in exchange for the second process at the cache.

In `tracker`, seven frames with stride 2 have four expected frames (the last
always is one), enough to be seen, lost for longer than the gap, found elsewhere
and lost again, and the three fractions give three retry frames, one clamped to
the last frame. The plans have no object, one, two, an object that is its own
target, and a tool beside an object. The run has no bound on episodes: the batch
goes on for ever, hence no exemption from the deadlock check.

**Fairness.** `RunStore`: weak fairness of every step a publisher or handler
takes of itself. The operating system schedules processes and the thread pool
schedules handlers; waiting for the lock is bounded by the time-out of
`index_lock` (30 s), which `GiveUp` and `EditLockTimeout` model. Nothing is
assumed of clients, of kills or of exceptions. `Jobs`: weak fairness of the
workers and of streams that are starting (the loop runs what is ready), of the
restart of the server, and of the end of each annotate process, which the code
does not guarantee by a time-out: progress of jobs is relative to it. Progress
lines, deletions and exceptions are not fair. `Timeline`: weak fairness of the one process;
that a call of the model comes back is assumed. `ReviewClient`: three parts, the first
from the code and the other two assumed. `TimerFires`: a PATCH whose headers do not
come is given up after ten seconds by every client of `lib/`. `BodiesEnd`: once the
headers are there the answer is read to its end, or the connection breaks; the timer
has been cleared by then (`editClient.ts:113`, before the body at `:126`).
`RefetchesEnd`: a re-fetch ends with an answer or an error; `fetchRetry` has neither
a time-out nor a signal. Nothing is assumed of the server's handlers, of other
reviewers or of the reviewer. Without any one of the three TLC finds
`ControlsComeBack` violated; section 5 says what the page does then.

`JobsEnd` is claimed for a server life without a kill and without an exception, and
`WatchedStreamEnds` without an exception. `OneProcessPerGpu` and `RecordsAreAttended`
say what exceptions cost: in the first life of the server there are at most as many
living processes that no worker tails as there were exceptions, and in any life at most
as many open records that nobody attends to; without an exception there are none.
What a restart leaves behind is in the hazards and in `RecordsAreAttended`.

## 4. Proofs

TLAPS proves, for every value of the constants that satisfies the named
assumptions (`NamesAssumption`, `EditsAssumption`, `DistinctAssumption`,
`SentinelAssumption`, `BoundsAssumption`, `FramesAssumption` in `SegmentEdits`,
`GpusAssumption`, `BoundsAssumption` and `IdleAssumption` in `Jobs`,
`ClientAssumption` and `VersionAssumption` in `ReviewClient`,
`TicksAssumption`, `WindowAssumption`, `ConfidencesAssumption`, `LabelsAssumption`,
`RetriesAssumption`, `MinDurationAssumption`, `ViterbiAssumption`, `StatesAssumption`
and `EventsAssumption` of the annotate pipeline, `TracksAssumption`, `TrackerAssumption`,
`PlansAssumption`,
`HandModelAssumption`, `HandGapsAssumption`, `HandRunsAssumption` and
`FilesAssumption` of the hand pipeline, `SinkAssumption`, `ExportAssumption` and
`FirstTreeAssumption` of the export). They give the constants their types, and say
that a sentinel (no file, a torn file, no tree) is no value that a file can hold.
`FirstTreeAssumption` says that the export OUT may begin with is one. `ResumedIsOneRun`
has a hypothesis of its own, `WholeSteps`, on the unit of the depths (see its argument
below). TLC evaluates every one of them on the instances of the runs:

| Theorem | Says |
|---|---|
| `RunStoreProofs!TypeCorrect` | every variable keeps its type |
| `RunStoreProofs!MutualExclusion` | publishers and handlers are in their transactions exactly while they hold the lock |
| `RunStoreProofs!AtMostOneAhead` | `annotation.json` is at the manifest's version or one edit past it, whatever is killed |
| `RunStoreProofs!ScavengerSparesTheLiving` | the directory a live publisher has claimed is never removed |
| `RunStoreProofs!AuditTrailExplains` | replaying the audit trail of a run gives its labels; until something is killed or raises the trail is the edits its hash was derived from |
| `RunStoreProofs!IndexListsTheRuns` | without kills and faults, index and directories agree whenever nobody is in a transaction |
| `RunStoreProofs!Refinement` | `RunStore` implements `EditRegister` |
| `SegmentEditsProofs!TilingKept` | however boundaries are moved, the segments tile the episode |
| `SegmentEditsProofs!HumanBoundariesAgree` | the two sides of a boundary agree on whether a human set it |
| `SegmentEditsProofs!TypesKept` | every edit keeps segments and audit trail of their types |
| `SegmentEditsProofs!AuditTrailIsAChain` | what an audit entry set is what the next one replaced, or what is there now |
| `SegmentEditsProofs!ReviewsFollowTheTrail` | a segment is reviewed exactly when the last entry that touched it says so |
| `JobsProofs!GpusAreExclusive` | until the server is killed a GPU runs one annotate process at a time, but for one at most that each exception lets go of |
| `JobsProofs!AttendedTo` | a record that says running or queued has somebody who attends to it, but for one at most per exception |
| `JobsProofs!SubmissionOrder` | the jobs of a GPU start in the order they were submitted |
| `JobsProofs!OutcomesAreFinal` | an outcome is never rewritten, by a cancellation or a startup either |
| `ReviewClientProofs!NothingBlind` | every edit of others in the version the tab sends as If-Match is one the page shows |
| `ReviewClientProofs!ShownAtRest` | with no request under way the annotation on the page has every edit of the version the tab sends as If-Match |
| `ReviewClientProofs!UrlInSync` | what the version held has more than the one in the URL is by others, or a review mark |
| `TimelineProofs!NoPartialLabels` | every segment the labeler returns has a label, or none has and the run is degraded |
| `TimelineProofs!PublishedCovers` | with a merge window of a frame or more, the segments cover the episode but for less than a frame at its ends, and no labelled run is thrown away |
| `TimelineProofs!GoalsReached` | smoothing ends with nothing to merge and with no short segment, unless it is the only one |
| `TimelineProofs!ResultExplained` | smoothed cuts, labels and confidences can be accounted for by what the model answered |
| `TimelineProofs!DecodingIsBest` | of all labellings of the segments, Viterbi decoding finds one of the greatest score |
| `TimelineProofs!AnnotationRunsOut` | every step of an annotation leaves fewer, so that none goes on for ever |
| `TrackerProofs!NoSessionIsLeft` | outside its release, an episode has a session for each of its streams and no other |
| `TrackerProofs!OnePrimary` | a role of which something was found has one primary track |
| `TrackerProofs!LostMasked` | where the slugs of a role tell its prompts apart, an expected frame without a good sample has no center, speed or distance |
| `HandRunsProofs!ModelSafe` | one process at a time downloads the model, and a path that was resolved names a whole file until it is opened |
| `HandRunsProofs!ModelImplemented` | `HandRuns` implements `HandModel` |
| `HandRunsProofs!ResolvedStays` | phase B opens the whole model it has resolved |
| `HandRunsProofs!CountedIsThere` | a video the server calls ready has all of its depth files |
| `HandRunsProofs!PassedOver` | what is passed over as done has the signals of the frames that are there, outside one window |
| `HandRunsProofs!ResumedIsOneRun` | phase B, killed and called again as often as one likes, ends with what one run would have made of the frames as pass 1 saw them, if it could save them |
| `ExportProofs!TreesSound` | OUT is missing or a complete export that decodes; so is a dataset exported in place once and to the end |
| `ExportProofs!HashIsNotNewer` | no exported annotation is older than the hash recorded for it |
| `ExportProofs!NothingLost` | after the first export, OUT or a stash holds a complete one; each file of a dataset that was changed in place has its original in some backup |
| `ExportProofs!OriginalsKept` | the same of the dataset, at every step, with what the exporters at work have backed up |
| `ExportProofs!ReuseIsRight` | an export answered as reused is what exporting again would write, if nobody wrote in between |

`RunStoreProofs` rests on one inductive invariant, `IInv`. None of its parts is
inductive alone:
- `TypeOK` gives the functions their domains.
- `LockHeld` says who is inside. Without it a publisher could replace a
  directory between a handler's reread and its first write.
- `TmpInv` says what a publisher's tmp directory holds at each step: that it
  exists and carries its writer's start time from the claim to the baking of
  the name, and a complete run from `artifacts` on. This is what the scavenger
  tests, and what `InstallFinal` needs to install a run and not a void.
- `BakInv` says the backup is there when its metadata are written.
- `FinalInv` says the final name is empty when tmp is renamed to it.
- `EdInv` says what a handler in its transaction has read is still on disk:
  the run exists, its manifest is the version the client sent, and what is
  about to be written is one edit past it.
- `AnnotationAtMostOneAhead` is carried along: a handler that finds a
  half-written run derives its hash from the manifest, so that even then it
  writes one edit past it.

Each action is shown to preserve each part it can disturb. The refinement maps
a name to the hash in its manifest. `WriteManifest` is the commit, since
the manifest is what clients compare with; `BackupFinal` withdraws,
`InstallFinal` installs, everything else stutters. Its key lemmas are that
at a commit the register holds what the client holds (from `EdInv`) and that
an installation finds the register empty (from `FinalInv`).

The audit trail and the index have invariants of their own on top of `IInv`
(second half of `RunStoreProofs`). `AuditInv` says of the annotations that are about to be
written what `AuditExplainsRun` says of those on disk, and that an annotation is
ahead of its manifest only while its handler is between the two writes: the next
handler appends to the trail it reads and derives its hash from the one it reads,
and the two stay one list only if both are of one version. An exception between the
two writes leaves them apart as a kill does, and the retry then records its edit
again; so this part of `AuditInv` (`AllTold`) is claimed while nothing has failed,
and the other (`AllExplained`, the labels are those the trail set last) always.
`IndexInv` says of every
moment what `IndexMatchesRuns` says of the quiet ones: a row whose run is away has a
publisher who is about to install one, and a run without a row has somebody who is
about to list it, or its request has another run (`OtherRun`). Listing a version
under one name drops the row it had under another, hence the last case, and hence a
property that speaks of the only run of a request. Its second half also needs
`NamesAreOwn`, since the proof failed without it: when the short names of two
requests are equal (the first twelve digits of their hashes), four publications
without any fault can leave a run that no row lists. TLC finds it in 59 steps on
an instance with such names; those of `run_store` have none.

In `SegmentEditsProofs` the invariant is typing, the tiling and the agreement
of sources together: only `MoveBoundary` touches frames, and its guard is
related to the neighbour's end through the tiling itself. The audit trail adds
`AuditInv`: `Chain` and `Reviews` are the two properties said of two entries with
none in between, instead of with the least or greatest of a set, so that appending
an entry has three cases: the entry is neither, the later or the earlier of the two.
What an edit has to do is then one lemma about all of them (`AppendedToTheTrail`):
it logs the value the field has and the one it gets, changes no other field, and sets
the review marks of the segments the entry touches and of no other. A boundary edit,
which touches two segments, is where this could fail.

The four properties of `JobsProofs` need one another and follow from one
invariant, `Inv`. A GPU has one process because a worker starts a job only when it
tails none, and because a living process has a worker; that
holds because what is taken from a queue has not run (`QueuedAreNew`), which holds
because no job is queued twice: a queue is in the order of submission
(`QueuesInOrder`), and numbers are given in turn (`NumbersInTurn`). Exceptions break
the middle link, and are counted: `ProcessesAccountedFor` says that the processes no
worker tails (`Unwatched`) are at most as many as the exceptions, which holds
because an action that raises adds one process to them at most and one that does not
raise adds none. `RecordsAccountedFor` is the same account of the open records
that nobody attends to (`Astray`). A job ends up in them without its worker
being touched, so that what holds of the workers and queues holds on. An outcome is
final because what a worker tails has none (`ActiveHaveNoOutcome`), so that no
worker is left to write over it: an exception that writes the outcome gives the GPU
back in the same step. Kills are in it: a server that is down has lost
queues and workers (`DownIsEmpty`), which is why the clauses about waiting and
living processes speak of the first life only.

`NoBlindEdit` compares the two versions the page has, which says nothing of those on
their way to it. `AllCovered` of `ReviewClientProofs` says it of all of them: every
version the tab holds, has sent, or is about to be answered (`Bases`) is covered by
every annotation it shows, is about to be delivered, or could fetch (`Shows`). A
version joins the first set only by a commit of the tab's own edit, which was
written on a version already in it (`WriterHasBase`: nothing moves the run between
annotation and manifest), and an edit of the tab asks for no more to be covered. A
version joins the second only as the run's current annotation, which covers all
before it. That the two sets are empty while a page loads (`ClosedIsEmpty`) and that
`annotation.json` is never behind `manifest.json` (`ManifestBehind`) starts it off.

`HeldIsShown` has an invariant of its own on top of `Inv`, `HeldInv`. While the run
is not replaced it only grows past what the tab has of it (`BasesWithin`), so that
whatever is fetched has what is held (`FetchedHasHeld`). What is shown has it too, or a
re-fetch is under way that will bring it (`ShownHasHeld`). That nobody is waited for
once the flags are clear is `OneAtATime`: a request that is awaited has its flag set,
and unless edits overlapped there is only one. Where two overlapped, the flag of one
is cleared with the other still under way, and the re-fetches can be delivered in the
wrong order; the property says nothing of that page.

`UrlInSync` is about the version in the URL, which only some of the handlers write.
Until a reload or a replacement,
`OneStepAhead` of `UrlInv` says why they may: an edit that is accepted is written on the
version the page holds and nothing else, so its answer is exactly one edit ahead of
that, and no two answers are ahead of it at once, overlapping or not. A handler that
puts its hash into the URL skips nothing, and one that leaves the URL alone leaves it
one review mark behind. Before the run is read the tab has written nothing
(`BeforeLoad`), so that the link the page was opened with lags by others only.

`TimelineProofs` is about data that four stages hand to each other, and its invariants
say of the list of segments at every step what the properties say of the last one.
`OrderInv` comes first: each segment ends at the very boundary the next begins at, in
time and in frames, whatever is dropped, merged, absorbed and relabelled. It holds for
any constants. `LabelInv` says that the segments the labeler is past have labels and that the copy
it may go back to has none, so that what it returns is all labelled or all reset.

`CoversEpisode` needs more than order: that bracketing drops nothing in the middle. An
event joins a group if it follows within the merge window, so the events of two groups,
hence their medians, are more than the window apart (`GroupsApart`, `MediansApart`,
`MedianBetween`), and a piece between two candidates is longer than the window
(`BracketCovers`). If the window is a frame or more, only the first and the last piece
can be dropped. `PublishedCovers` therefore states `MergeWindow >= FrameTicks`. This is
what the defaults give from 10 fps on (`merge_window_sec` is 0.10 s), and not a
convenience: with a window of half a frame TLC finds `CoversEpisode` violated
(section 5 says what then happens to the run).

`SmoothingReachesItsGoals` has a loop in it: Op 1 works in rounds over disjoint pairs,
Op 2 may make new equal neighbours, Op 3 relabels and Op 1 runs again. `GoalsInv` says
that each operator ends with a round or a pass that began at the first segment and
changed nothing, so that its goal is reached, and that what runs after it keeps the
goal: once Op 2 is over no segment is short, and joining and relabelling make none.

`SmoothingExplained` follows from `ExplainInv`, which says three things of the list of
any step. Cuts: each cut of the labelled list is still there, or was not preserved, or
lies within a segment that records the absorption. Labels: a segment that does not
record a relabelling has the label of a part, and that of each part which was long
enough to stand alone; two segments are only joined over a short one or if their labels
are equal, and a part that is not short is in one of them (`PartOfEither`).
Confidences: the weighted mean of two rationals lies between them (`MeanBetween`),
proved down to the integers: products, sums and reduction to lowest terms, which is
division by `Gcd`, which is a recursive function. That there is such a function, and
so that its equation may be used, is shown by naming one (the greatest common divisor,
`GcdEquation`). No theorem here goes through the induction theorems of the library
whose parameter is an operator: where an argument is by induction, it is the least
counterexample of a set of numbers (`MinOf`).

`ViterbiIsBest` compares the labelling that is found with every other. `DecoderInv`
says that the columns in `dp` are those of the segments so far, which nobody changes
while the decoder runs. The keys are compared by score first and then by three ranks,
and of every column the first greatest is taken. That there is one needs the order to be
a weak one (`KeyAsymmetric`, `KeyBetween`), which for the scores is the order of the
rationals. Then a path through the columns scores no more than the state it has come to,
since a sum grows with its summands (`PlusKeeps`), and the way back from a state scores
no less (`PathScores`). The score of a labelling and the way back are recursive
functions of any length; that there are such functions is shown by the first length
for which there would be none (`SumsExist`, `WayExists`). Nothing is assumed of the
penalty but that it is a number, nor of the labels that they differ.

`AnnotationRunsOut` names what a step uses up. `StagesLeft` counts the stages and
`StepsLeft` what is left in one: attempts at segments for the labeler, and for the
smoother its operators, the columns to compute, two for each segment and one for a
round or a pass that has changed something. The two are what pays for the loop: a
merge makes another round necessary, but there is one segment less. `CountInv` keeps
the counts numbers: the labeler is at most one segment past the last, and the decoder
has no more columns than segments. Both are 0 in the last stages, so that nothing
happens after them.

`NoStraySession` is inductive with the phases in which there are streams
(`StreamsInTheirPhases`): what raises goes to the release, from which no session
comes back.

`OnePrimaryPerRole` and `LostFramesAreMasked` follow from `EpisodeInv`, whose core is
`StateOk`: the tracks of a prompt are numbered in turn, each has a sample, and each but
the last is `Closed`, which means that every expected frame between its first and its
last sample is sampled or in a gap. The last one is `Current`, and that depends on the
frames to come, of which `Course` names two ends: those up to the end of the video and
those on the way back. A track begun on the way forward covers everything from its
first sample to the frame at hand, but for what is pending. It keeps that on the way
back, where samples go into frames it has covered. A track begun on the way back runs
backwards, so no frame lies between its first and its last sample. Either way flushing
what is pending closes the track (`FlushCloses`), which is what a split and `finalize`
do. That the track whose centers are taken is one of the same prompt needs the
hypothesis `SlugsTell` of `LostMasked`: the planner refuses prompts of a role that
differ in case only, while `slugify` drops all that is not alphanumeric. With two
prompts of a role and one slug TLC finds `LostFramesAreMasked` violated: the two have
one track id, and the signals of the later are kept for both.

`ModelInv` of `HandRunsProofs` is the type, the exclusion of the flock
(`OneDownloader`) and `ResolvedModelStays` together. The last needs the second: a
file of the right size is removed only by a process that saw a wrong size under
the lock, and the lock keeps everybody else from installing one in between. It holds
for any number of processes, each of which may be killed in a download. `HandRuns`
takes a step of `HandModel` or leaves its variables alone (`ModelRefined`), which
carries the theorem over.

`CountedIsThere` follows a number through four places: the counters of the loop
of phase A (`PassedAreCounted`: they are at most the frames passed, and equal
only when each has its file), its `meta.json` (`DepthMetaTrue`), the running phase
B (`JobTrue`) and the `meta.json` of phase B (`MetaTrue`). `CountInv` is their
conjunction. What makes it inductive is `FilesStay`: no step removes a depth
file, so that what was true when the counter was saved is true when it is read.

`PassedOverIsDone` rests on `DoneInv`: what phase B has in memory (`Buffered`), how
much of it pass 2 has written back (`Rewritten`), and that a run which may change the
frames of a finished one is open (`Opened`). Between the declaration of pass 1 and
`signals.json` a run is open, and an `--overwrite` from its start on. Every other run
is called by the script only for a video that is not done, so that until it declares
pass 1 complete there is nothing it could undo.

`ResumedAsIfAtOnce` compares the files with a function of all frames as pass 1 saw
them. `ResumeInv` says what they are on the way there: at every step, what is on disk
is what pass 1 saw with some of its gaps filled, each partly or as a whole
(`PartlyFilled`), and what is in memory is that too (`InPass1`, `InPass2`). A frame
whose file could not be saved is in memory and in no file: pass 2 fills its neighbours
from it, and a resumption may see it otherwise. From there on nothing is claimed
(`Overwriting`) until an `--overwrite` has gone through. Filling such
frames again gives what filling the original ones would have given (`FillingResumed`).
A gap that was filled in part is found as a shorter gap between the same ends or
points of the line between them (`FindsGap`, `GapIsFound`), and what lies on the line
between two points of a line lies on that line (`BlendOfLine`). The latter is true of
numbers and not of rounded ones: with depths 0 and 2 four frames apart, whole numbers
give 0 for the first frame between them and 1 for the second at once, but 0 for the
second where the first was on disk. The code computes in floats. The hypothesis
`WholeSteps` says that the unit of `Depth` is so fine that every point of a gap is a
whole number of it, which holds of any depths once they are counted in a fraction of
their unit that all lengths of gaps divide; the rounding of floats is not modelled. TLC
checks on its instance that it is satisfied (`MCDepthAssumption`).

The invariant of `ExportProofs` says what a process knows and what is on disk, each
at every step:
- `RunsTrue`: the hash in a manifest is never newer than the annotation, and neither
  is newer than the count of writes. Edits write the annotation first.
- `Processes`: what an exporter has in memory. It has read the hash of a run before
  the annotation, which can only have become newer in between; if no write has
  happened since it began (`asOf`), its annotations are the ones on disk.
- `OutTrue`: OUT and every stash are `Good` (sound, not older than their hashes, and
  what is on disk if nobody wrote since), and a staging tree has the files of the
  steps done so far (`Built`). A missing OUT has a stash that is not being dropped.
- `DatasetTrue`: the same of the dataset that is exported in place. With one export
  at work its files are `Built` up to the step of the one process that fills it; with
  a second one nothing is claimed.

A write elsewhere is shown to preserve each of them by one lemma about memories and
trees (a later count of writes makes the clause about `asOf` empty). The steps of
`write_all` are shown to turn a tree that is built up to one step into one that is
built up to the next, and the last one to make it `Good`. The registry of phases is
any function in these proofs: that it lists phases in order of first appearance is a
fold, which TLC evaluates. What the proofs need of it is that a column was computed
from the registry that is in the same tree.

`BackupsTrue` comes on top, for the second half of `PreviousKept`. No single backup need
have the whole original: the backup of a second export has what the first one has
changed, and originals of nothing else but what the first left alone. What holds is that
each file has its original in one of them, and it needs a clause about the exporters that
have made their backup and not written yet (`Covered`): of each file they are going to
write there is an original. That is so because at the backup the file either was the
original still, or had been changed before and had its own by `BackupsTrue`; and backups
are only added. A kill in the backup adds a partial one, and writes nothing.

**Only model-checked:** liveness under fairness, which is outside the prover: the end
of requests, jobs, streams and annotations, and the buttons of the page that come back.
Of `AnnotationEnds` a half is proved (`AnnotationRunsOut`): there is no infinite run of
steps. That an annotation also does not stop before its end takes ENABLED.
The violations of section 5 are counterexamples of TLC.

## 5. Where documents and code disagree

1. **A retried PATCH is not idempotent** (`run_store_retry`). After a kill
   between annotation and manifest, the retry reads its own edit back. A
   relabel is recorded twice; the other edits are refused as no change, and
   annotation and manifest stay apart. `server/README.md` calls the retry
   idempotent.
2. **A cancelled job does not stay cancelled** (`jobs_cancel`). Its worker
   saves the record it holds over the cancellation.
3. **Samples of a retry frame lose their centers** (`tracker_retry`). Grounded
   on a later frame, an object is followed to the end and then back. The signals
   take the first and the last sample for the bounds of the track, so most of
   what was seen has no center, speed or distance.

Others were met while modelling and are stated in the properties as conditions
or left to the code:

- `editClient.ts:14-15` says of the ten-second time-out that it "keeps the single-in-flight
  UI lock from wedging if the server hangs", and `RunViewer.tsx:142-143` of the flag that it
  is cleared "in a finally so a thrown error or aborted re-fetch can't wedge the UI". The
  timer is cleared when the headers are there, and the re-fetches (`RunViewer.tsx:209`,
  `322`, `389`, `473`) have none, nor a signal: a server that hangs in a body or in a
  re-fetch keeps the flag set and the controls locked until the page is reloaded, since the
  `finally` is behind the `await`. `ControlsComeBack` is checked under `BodiesEnd` and
  `RefetchesEnd`; a specification without either refutes it.
- An exception between `Popen` and the exit of an annotate process (`job_runner.py:291`)
  gives its GPU back while it lives, and forgets the handle by which `DELETE` could stop
  it; the next job starts beside it, where the design says "Two jobs on same GPU serialize
  (second waits for first)" (`2026-05-17-ua-1-catalog-jobs-design.md:176`). One in the save of `finally`
  (`:297`) leaves a record that says running for ever; `DELETE` of it does nothing.
  `OneProcessPerGpu` and `RecordsAreAttended` allow one of either for each exception.
- An exception between the first two files of a PATCH (a full disk) leaves what a kill
  leaves there: a retry records a relabel twice. `AuditExplainsRun` claims that the
  version tells the trail as long as nothing was killed and nothing raised.
- Three of the four handlers of the viewer bring `?hash=` in sync with the new hash
  (`syncUrlHash`), `onReviewedToggle` does not (`RunViewer.tsx:185-190`), and the
  reload after it finds no run. `UrlLagsByReviewsOnly` says that nothing else
  makes the URL lag.
- The comment of `run_hand_estimation.py:580-583` says that interpolation is skipped
  for frames loaded from their files, by a guard on `raw_k`. There is no such guard
  any more: pass 2 does run over files that an earlier pass 2 has filled.
  `ResumedAsIfAtOnce` shows that this changes nothing: what is filled again comes
  out as it would have at once, in a video of any length (`ResumedIsOneRun`).
- Pass 1 is declared complete before pass 2 has run (`DeclarePass1`), and the script
  takes that for done. After a kill in between, the video is passed over without
  signals. `PassedOverIsDone` excepts runs that end there.
- The files an `--overwrite` has not reached yet are those of the run before,
  filled depths included; a resumption without `--overwrite` takes them for seen.
  `ResumedAsIfAtOnce` excepts it until an overwrite has been finished.
- A kill between the two renames of a publication leaves an index row without a
  directory (`publish.py:185`); the design document calls a stale `.bak` harmless
  (`2026-04-25-mimicanno-design-brushup.md:657`). Nothing renames the backup
  back, and the scavenger removes it after a day. `IndexMatchesRuns` is therefore
  claimed as long as nothing failed.
- An edited run that is annotated again goes to its long name
  (`publish.py:116-121`); the same edit then derives the same hash for both
  ("One run per (episode_id, run_hash) pair", ibid. 637). `OnlyRunOf` excepts it.
- A stream that subscribes after its job has ended, or whose queued job is
  deleted, sends keep-alives for ever (`catalog_routes.py:394-412`, `:489`).
  `WatchedStreamEnds` starts when a worker has the job.
- Two candidates further apart than `merge_window_sec` and less than a frame
  (0.10 s and 5 fps) make the bracketing drop the segment between them, and the
  post-condition of the smoother then throws the labelled run away
  (`bracketing.py:61`, `smoother.py:555`). `CoversEpisode` is checked for a
  window of one frame and proved for any that is not shorter.
- Between the two renames of `finalize` OUT is missing, though the comment there
  says it never is (`output_layout.py:140-149`). `PreviousKept` says what holds:
  it is in the stash. A kill leaves it there.
- The idempotency test of an export compares run names and not run hashes
  (`bulk.py:258`): after an edit, the old export is answered as current.
  `ReusedIsCurrent` claims it for runs nobody wrote to since.
- An in-place export of an in-place export appends its columns a second time;
  whether that is noticed depends on the parquet reader.
- Two prompts of one role with one slug have equal track ids, and of their
  centers only the later are kept (`signals.py:162-166`). The instance's slugs
  differ.

Two more, met while the properties of `Timeline` were stated:

- The design document (`2026-04-25-mimicanno-design-brushup.md:1063`) says
  smoothing "never produces a forbidden transition with high
  `overall_confidence`". The penalty is soft: two neighbours the model is sure
  of keep their forbidden labels. `ViterbiIsBest` states what holds, and only
  of the decoding: the merge that follows it averages confidences.
- `label_run` promises that a degraded run has no labels (`AllLabelsOrNone`).
  With target phase 4 the pipeline smooths it all the same. Neighbours of label
  "unlabeled" are merged, and if preserved cuts leave two segments, decoding
  gives them the first label of the label set, with `smoothing_ops` as the only
  trace.

## 6. Not modelled, and why

- Numerics (values of signals, joints and rotations of hands, evaluation), parquet and video I/O,
  schema validation, configuration: data without interleaving; a model would be a
  transliteration.
- Model inference (VLM, SAM3, the planner's Gemma, UniDAC, MediaPipe): external, and
  free to answer anything or raise.
- Batches of videos in `run_all_pipeline.sh`, phase C, the overlay and the depth
  video: the videos share nothing but the model, and what is rendered is not read.
- The scavenger's sweep entry by entry, and lines of progress one by one: their
  effect on others is an exception or a delay, which the models have.
- Read-only routes, scans and pages: they change nothing; the races in what
  they read are listed as hazards.
- `msvcrt` branch of the lock: the same protocol on another system.
- Several episodes in one store: names, rows and hashes of different episodes
  never meet, and the lock they share is the same lock.

## 7. Plan

What is left, in the order it would be worth doing:

1. `Jobs` with `RunStore`: the duplicate test of `POST /api/jobs` against runs
   that are still being computed.
2. `Timeline` with `Tracker`: the status and notes a degraded run is published
   with, and its result as the initial states of `SegmentEdits`.
3. The merged index over run sets in `runs_repo.py`, and the catalog's scans.

Theorems to add: a window of half a frame shows that `CoversEpisode` needs its
hypothesis; how much of the episode is covered below it is not stated yet. In
`Tracker`, what the signals of two prompts with one slug are.
