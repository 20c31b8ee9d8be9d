-------------------------------- MODULE Jobs --------------------------------
(***************************************************************************)
(* Annotate jobs of the review server (server/job_runner.py, job_store.py, *)
(* the /api/jobs routes of catalog_routes.py, the startup hook of app.py). *)
(*                                                                         *)
(* The server is one asyncio loop: what a coroutine does between two       *)
(* awaits is one action.  Records are files and survive the server, the    *)
(* queues, workers, process handles and event streams are memory and do    *)
(* not; the annotate subprocesses run on their own.                        *)
(*                                                                         *)
(* A record or a log that cannot be read or written raises, or is as good  *)
(* as gone (JobStore.load); each such exception is counted in faults.      *)
(***************************************************************************)
EXTENDS Naturals, Sequences, FiniteSets

CONSTANTS
    JobIds,         \* jobs that are submitted, each once
    NumGpus,        \* GPUs of the server
    Streams,        \* SSE connections
    Idle,           \* a worker without a job
    MaxRestarts,    \* bound: kills of the server
    MaxFaults       \* bound: records and logs that cannot be read or written

ASSUME GpusAssumption == NumGpus \in Nat \ {0}
ASSUME BoundsAssumption == MaxRestarts \in Nat /\ MaxFaults \in Nat
ASSUME IdleAssumption == Idle \notin JobIds

Gpus == 0 .. NumGpus - 1

VARIABLES
    store,      \* store[j]: the record <jobs_dir>/j.json
    gpu,        \* gpu[j]: the GPU the record names
    number,     \* number[j]: the place of j among the jobs submitted
    queue,      \* queue[g]: JobQueue._queues
    active,     \* active[g]: JobQueue._active, the job the worker is tailing
    handles,    \* JobRunner._procs: jobs whose process DELETE can find
    proc,       \* proc[j]: the subprocess of j: none, living, or exited ok or bad
    stream,     \* stream[k]: an SSE connection: closed, loaded or subscribed
    up,         \* the server is running
    restarts,   \* kills of the server so far
    faults      \* exceptions of record and log files so far

vars == <<store, gpu, number, queue, active, handles, proc, stream, up, restarts, faults>>

\* A job that was not submitted yet; pid: the record names the subprocess.
NoRecord == [status |-> "unused", pid |-> FALSE]
Terminal == {"done", "failed", "cancelled"}

\* terminating: SIGTERM was sent.
Living == {"alive", "terminating"}

NoStream == [pc |-> "closed", job |-> CHOOSE j \in JobIds : TRUE, saw |-> "unused"]

Init ==
    /\ store = [j \in JobIds |-> NoRecord]
    /\ gpu = [j \in JobIds |-> 0]
    /\ number = [j \in JobIds |-> 0]
    /\ queue = [g \in Gpus |-> << >>]
    /\ active = [g \in Gpus |-> Idle]
    /\ handles = {}
    /\ proc = [j \in JobIds |-> "none"]
    /\ stream = [k \in Streams |-> NoStream]
    /\ up = TRUE
    /\ restarts = 0
    /\ faults = 0

Submitted == {j \in JobIds : number[j] > 0}
Save(j, status, pid) == store' = [store EXCEPT ![j] = [status |-> status, pid |-> pid]]

\* _publish_sse_done: the sentinel ends every subscribed stream of j.
CloseStreams(j) ==
    stream' = [k \in Streams |->
        IF stream[k].pc = "subscribed" /\ stream[k].job = j THEN NoStream ELSE stream[k]]

\* The finally clause of _run_job: the final record, the handle let go of, the
\* terminal event and the sentinel.
Settle(j, status, pid) ==
    /\ Save(j, status, pid)
    /\ handles' = handles \ {j}
    /\ CloseStreams(j)

\* n files could not be read or written.
Raised(n) == faults + n <= MaxFaults /\ faults' = faults + n

\* Load of a GPU as assign_gpu counts it.
Load(g) == Len(queue[g]) + (IF active[g] = Idle THEN 0 ELSE 1)

\* assign_gpu(None): the least loaded GPU, the lowest index among equals.
ShortestQueue ==
    CHOOSE g \in Gpus : \A h \in Gpus :
        Load(g) < Load(h) \/ (Load(g) = Load(h) /\ g <= h)

\* assign_gpu(g): any integer is taken round the GPUs there are.
Assign(g) == g % NumGpus

\* Mutant: the queue is a stack.
SubmitFirst(j, g) ==
    /\ up
    /\ store[j].status = "unused"
    /\ Save(j, "queued", FALSE)
    /\ gpu' = [gpu EXCEPT ![j] = g]
    /\ number' = [number EXCEPT ![j] = Cardinality(Submitted) + 1]
    /\ queue' = [queue EXCEPT ![g] = <<j>> \o @]
    /\ UNCHANGED <<active, handles, proc, stream, up, restarts, faults>>

\* POST /api/jobs, for a chosen GPU or for any.  A refused request (400, 409)
\* changes nothing.
Submit(j, g) ==
    /\ up
    /\ store[j].status = "unused"
    /\ Save(j, "queued", FALSE)
    /\ gpu' = [gpu EXCEPT ![j] = g]
    /\ number' = [number EXCEPT ![j] = Cardinality(Submitted) + 1]
    /\ queue' = [queue EXCEPT ![g] = Append(@, j)]
    /\ UNCHANGED <<active, handles, proc, stream, up, restarts, faults>>

\* run_gpu_worker dequeues a job whose record is gone or cancelled.
SkipJob(g) ==
    /\ up
    /\ active[g] = Idle
    /\ queue[g] # << >>
    /\ store[Head(queue[g])].status \in {"deleted", "cancelled"}
    /\ queue' = [queue EXCEPT ![g] = Tail(@)]
    /\ UNCHANGED <<store, gpu, number, active, handles, proc, stream, up, restarts, faults>>

\* The next job of g that is to run.
Runnable(g, j) ==
    /\ up
    /\ active[g] = Idle
    /\ queue[g] # << >>
    /\ j = Head(queue[g])
    /\ store[j].status \notin {"deleted", "cancelled"}

\* _run_job up to its first await: record, subprocess, record with pid.
StartJob(g, j) ==
    /\ Runnable(g, j)
    /\ queue' = [queue EXCEPT ![g] = Tail(@)]
    /\ active' = [active EXCEPT ![g] = j]
    /\ handles' = handles \cup {j}
    /\ proc' = [proc EXCEPT ![j] = "alive"]
    /\ Save(j, "running", TRUE)
    /\ UNCHANGED <<gpu, number, stream, up, restarts, faults>>

\* Popen raises: internal_error, and the worker goes on.
StartFails(g, j) ==
    /\ Runnable(g, j)
    /\ queue' = [queue EXCEPT ![g] = Tail(@)]
    /\ Settle(j, "failed", FALSE)
    /\ UNCHANGED <<gpu, number, active, proc, up, restarts, faults>>

\* The record cannot be read, or not be written when it is to say running: the
\* worker goes on to the next job and leaves the record as it is.
LoseStart(g, j) ==
    /\ Runnable(g, j)
    /\ Raised(1)
    /\ queue' = [queue EXCEPT ![g] = Tail(@)]
    /\ UNCHANGED <<store, gpu, number, active, handles, proc, stream, up, restarts>>

\* After Popen the record cannot be written or the log not be opened: the except
\* clause is that of Popen itself, the GPU is given back and the process lives.
StartBreaks(g, j) ==
    /\ Runnable(g, j)
    /\ Raised(1)
    /\ queue' = [queue EXCEPT ![g] = Tail(@)]
    /\ proc' = [proc EXCEPT ![j] = "alive"]
    /\ Settle(j, "failed", TRUE)
    /\ UNCHANGED <<gpu, number, active, up, restarts>>

\* The final record of a job that did not get going cannot be written either: the
\* exception leaves the finally clause, and the record says running.
StartUnsettled(g, j) ==
    /\ Runnable(g, j)
    /\ queue' = [queue EXCEPT ![g] = Tail(@)]
    /\ \/ /\ Raised(1)
          /\ Save(j, "running", FALSE)
          /\ UNCHANGED <<handles, proc>>
       \/ /\ Raised(2)
          /\ \E pid \in BOOLEAN : Save(j, "running", pid)
          /\ handles' = handles \cup {j}
          /\ proc' = [proc EXCEPT ![j] = "alive"]
    /\ UNCHANGED <<gpu, number, active, stream, up, restarts>>

\* A progress line: the worker saves the record it holds in memory, which it has
\* not read again since the job started.  The process may have exited since the
\* worker looked.
SaveProgress(g) ==
    /\ up
    /\ active[g] # Idle
    /\ Save(active[g], "running", TRUE)
    /\ UNCHANGED <<gpu, number, queue, active, handles, proc, stream, up, restarts, faults>>

\* The log cannot be read or the progress not be saved: the job failed, whether its
\* process has exited or not, and the GPU is given back.
TailBreaks(g) ==
    /\ up
    /\ active[g] # Idle
    /\ Raised(1)
    /\ Settle(active[g], "failed", TRUE)
    /\ active' = [active EXCEPT ![g] = Idle]
    /\ UNCHANGED <<gpu, number, queue, proc, up, restarts>>

\* The subprocess exits.  One that was sent SIGTERM may have been done already.
ProcExit(j) ==
    /\ proc[j] \in Living
    /\ \E code \in {"ok", "bad"} : proc' = [proc EXCEPT ![j] = code]
    /\ UNCHANGED <<store, gpu, number, queue, active, handles, stream, up, restarts, faults>>

Outcome(j) == IF proc[j] = "ok" THEN "done" ELSE "failed"

\* Mutant: the GPU is not given back.
FinishJobHoldingGpu(g) ==
    LET j == active[g] IN
    /\ up
    /\ j # Idle
    /\ proc[j] \in {"ok", "bad"}
    /\ Settle(j, Outcome(j), TRUE)
    /\ UNCHANGED <<gpu, number, queue, active, proc, up, restarts, faults>>

\* Mutant: the streams are not told.
FinishJobSilently(g) ==
    LET j == active[g] IN
    /\ up
    /\ j # Idle
    /\ proc[j] \in {"ok", "bad"}
    /\ Save(j, Outcome(j), TRUE)
    /\ handles' = handles \ {j}
    /\ active' = [active EXCEPT ![g] = Idle]
    /\ UNCHANGED <<gpu, number, queue, proc, stream, up, restarts, faults>>

\* The worker sees the exit: final record, terminal event and sentinel, mark_done.
FinishJob(g) ==
    LET j == active[g] IN
    /\ up
    /\ j # Idle
    /\ proc[j] \in {"ok", "bad"}
    /\ Settle(j, Outcome(j), TRUE)
    /\ active' = [active EXCEPT ![g] = Idle]
    /\ UNCHANGED <<gpu, number, queue, proc, up, restarts, faults>>

\* The final record cannot be written, after the exit or after an exception before
\* it: the handle and the streams stay, the GPU is given back.
FinishUnsettled(g) ==
    /\ up
    /\ active[g] # Idle
    /\ \/ proc[active[g]] \in {"ok", "bad"} /\ Raised(1)
       \/ Raised(2)
    /\ active' = [active EXCEPT ![g] = Idle]
    /\ UNCHANGED <<store, gpu, number, queue, handles, proc, stream, up, restarts>>

\* cancel_job finds the handle of a living process.
Cancellable(j) == j \in handles /\ proc[j] \in Living

\* Mutant: the GPU is given back at the cancellation.
CancelJobFreeingGpu(j) ==
    /\ up
    /\ store[j].status = "running"
    /\ Cancellable(j)
    /\ proc' = [proc EXCEPT ![j] = "terminating"]
    /\ Save(j, "cancelled", store[j].pid)
    /\ CloseStreams(j)
    /\ active' = [active EXCEPT ![gpu[j]] = Idle]
    /\ UNCHANGED <<gpu, number, queue, handles, up, restarts, faults>>

\* DELETE of a running job: SIGTERM, record, sentinel.  The worker keeps tailing.
CancelJob(j) ==
    /\ up
    /\ store[j].status = "running"
    /\ Cancellable(j)
    /\ proc' = [proc EXCEPT ![j] = "terminating"]
    /\ Save(j, "cancelled", store[j].pid)
    /\ CloseStreams(j)
    /\ UNCHANGED <<gpu, number, queue, active, handles, up, restarts, faults>>

\* SIGTERM is sent, and the record cannot be read (the sentinel is sent none the
\* less) or not be written.
CancelBreaks(j) ==
    /\ up
    /\ store[j].status = "running"
    /\ Cancellable(j)
    /\ Raised(1)
    /\ proc' = [proc EXCEPT ![j] = "terminating"]
    /\ CloseStreams(j) \/ UNCHANGED stream
    /\ UNCHANGED <<store, gpu, number, queue, active, handles, up, restarts>>

\* DELETE of any other job: the record and the log are removed.  (DELETE of a
\* running job without a living handle answers 204 and does nothing.)
DeleteJob(j) ==
    /\ up
    /\ store[j].status \notin {"unused", "deleted", "running"}
    /\ Save(j, "deleted", FALSE)
    /\ UNCHANGED <<gpu, number, queue, active, handles, proc, stream, up, restarts, faults>>

\* GET /api/jobs/j/stream: the record is loaded in the handler ...
OpenStream(k, j) ==
    /\ up
    /\ stream[k].pc = "closed"
    /\ store[j].status \notin {"unused", "deleted"}
    /\ stream' = [stream EXCEPT ![k] =
                     [pc |-> "loaded", job |-> j, saw |-> store[j].status]]
    /\ UNCHANGED <<store, gpu, number, queue, active, handles, proc, up, restarts, faults>>

\* ... and looked at when the response body starts, in another task.
StartStream(k) ==
    /\ up
    /\ stream[k].pc = "loaded"
    /\ stream' = [stream EXCEPT ![k] =
                     IF @.saw \in Terminal THEN NoStream
                     ELSE [@ EXCEPT !.pc = "subscribed", !.saw = "unused"]]
    /\ UNCHANGED <<store, gpu, number, queue, active, handles, proc, up, restarts, faults>>

\* The browser leaves; _event_generator unsubscribes.
LeaveStream(k) ==
    /\ stream[k].pc = "subscribed"
    /\ stream' = [stream EXCEPT ![k] = NoStream]
    /\ UNCHANGED <<store, gpu, number, queue, active, handles, proc, up, restarts, faults>>

\* What a kill of the server takes with it.
LoseMemory ==
    /\ restarts < MaxRestarts
    /\ restarts' = restarts + 1
    /\ up' = FALSE
    /\ queue' = [g \in Gpus |-> << >>]
    /\ active' = [g \in Gpus |-> Idle]
    /\ handles' = {}
    /\ stream' = [k \in Streams |-> NoStream]

\* The server is killed.  Its subprocesses may go with it or live on.
KillServer ==
    /\ up
    /\ LoseMemory
    /\ UNCHANGED <<store, gpu, number, proc, faults>>

\* It is killed between the two records that start a job.
KillStarting(g, j) ==
    /\ Runnable(g, j)
    /\ LoseMemory
    /\ Save(j, "running", FALSE)
    /\ \E p \in {"none", "alive"} : proc' = [proc EXCEPT ![j] = p]
    /\ UNCHANGED <<gpu, number, faults>>

\* Mutant: a record without a pid is left running.
ReclassifiedKnownPid(j) ==
    IF store[j].status = "running" /\ store[j].pid /\ proc[j] \notin Living
    THEN [store[j] EXCEPT !.status = "failed"]
    ELSE store[j]

\* Mutant: every record of a dead process is reclassified.
ReclassifiedAnyStatus(j) ==
    IF store[j].pid /\ proc[j] \notin Living
    THEN [store[j] EXCEPT !.status = "failed"]
    ELSE store[j]

\* reclassify_stale_running_jobs
Reclassified(j) ==
    IF store[j].status = "running" /\ ~(store[j].pid /\ proc[j] \in Living)
    THEN [store[j] EXCEPT !.status = "failed"]
    ELSE store[j]

\* Startup: the records are reclassified, the workers started with empty queues.
StartServer ==
    /\ ~up
    /\ up' = TRUE
    /\ store' = [j \in JobIds |-> Reclassified(j)]
    /\ UNCHANGED <<gpu, number, queue, active, handles, proc, stream, restarts, faults>>

\* A record that cannot be read is passed over; one that cannot be written ends
\* the startup.
StartServerFaulty ==
    /\ ~up
    /\ Raised(1)
    /\ \/ /\ up' = TRUE
          /\ \E j \in JobIds :
                store' = [i \in JobIds |-> IF i = j THEN store[i] ELSE Reclassified(i)]
       \/ /\ UNCHANGED up
          /\ \E some \in SUBSET JobIds :
                store' = [i \in JobIds |-> IF i \in some THEN Reclassified(i) ELSE store[i]]
    /\ UNCHANGED <<gpu, number, queue, active, handles, proc, stream, restarts>>

WorkerStep(g) ==
    \/ SkipJob(g)
    \/ \E j \in JobIds : StartJob(g, j) \/ StartFails(g, j)
    \/ FinishJob(g)

Next ==
    \/ \E j \in JobIds :
          \/ \E g \in 0 .. NumGpus : Submit(j, Assign(g))
          \/ Submit(j, ShortestQueue)
          \/ ProcExit(j) \/ CancelJob(j) \/ CancelBreaks(j) \/ DeleteJob(j)
          \/ \E k \in Streams : OpenStream(k, j)
    \/ \E g \in Gpus :
          \/ WorkerStep(g)
          \/ SaveProgress(g) \/ TailBreaks(g) \/ FinishUnsettled(g)
          \/ \E j \in JobIds :
                \/ LoseStart(g, j) \/ StartBreaks(g, j) \/ StartUnsettled(g, j)
                \/ KillStarting(g, j)
    \/ \E k \in Streams : StartStream(k) \/ LeaveStream(k)
    \/ KillServer
    \/ StartServer \/ StartServerFaulty

Spec == Init /\ [][Next]_vars

\* The loop keeps running what is ready, the server is started again, and an
\* annotate process ends.
Fairness ==
    /\ \A g \in Gpus : WF_vars(WorkerStep(g))
    /\ \A j \in JobIds : WF_vars(ProcExit(j))
    /\ \A k \in Streams : WF_vars(StartStream(k))
    /\ WF_vars(StartServer)

FairSpec == Spec /\ Fairness

-----------------------------------------------------------------------------
\* Processes other than the one that the worker of their GPU tails.
Unwatched == {j \in JobIds : proc[j] \in Living /\ active[gpu[j]] # j}

\* A GPU runs one annotate process at a time, a cancelled one included until it
\* has exited, as long as the server has not been killed; any further process was
\* let go of by an exception, and each exception lets go of one at most.
OneProcessPerGpu == restarts = 0 => Cardinality(Unwatched) <= faults

\* Open records that nobody attends to: one that says running has neither a worker
\* that watches the job nor, after a restart, a process of an earlier server life;
\* one that is queued, and not by an earlier server life, is not in the queue of
\* its GPU exactly once.
Unattended ==
    {j \in JobIds :
        \/ /\ store[j].status = "running"
           /\ active[gpu[j]] # j
           /\ ~(restarts > 0 /\ store[j].pid)
        \/ /\ store[j].status = "queued"
           /\ restarts = 0
           /\ Cardinality({i \in DOMAIN queue[gpu[j]] : queue[gpu[j]][i] = j}) # 1}

\* Somebody attends to every record that is open, but for those that an exception
\* left behind, each exception at most one.
RecordsAreAttended == up => Cardinality(Unattended) <= faults

\* The jobs of a GPU start in the order they were submitted.
FirstComeFirstServed ==
    \A i, j \in JobIds :
        /\ i \in Submitted /\ j \in Submitted
        /\ gpu[i] = gpu[j] /\ number[i] < number[j]
        /\ proc[j] # "none"
        => ~\E x \in DOMAIN queue[gpu[i]] : queue[gpu[i]][x] = i

\* The outcome of a job is never rewritten, only deleted.
OutcomeIsFinal ==
    [][\A j \in JobIds : store[j].status \in {"done", "failed"} =>
          store'[j].status \in {store[j].status, "deleted"}]_vars

\* A job that was submitted comes to an end while the server is not killed and its
\* files can be read and written.
JobsEnd ==
    \A j \in JobIds :
        store[j].status = "queued" ~>
            store[j].status \notin {"queued", "running"} \/ restarts > 0 \/ faults > 0

\* A stream that was subscribed while its job ran ends, by the terminal event, by
\* a cancellation or with the server, unless a file could not be read or written.
WatchedStreamEnds ==
    \A k \in Streams :
        stream[k].pc = "subscribed" /\ (\E g \in Gpus : active[g] = stream[k].job)
            ~> stream[k].pc = "closed" \/ faults > 0

-----------------------------------------------------------------------------
(***************************************************************************)
(* A claim of the documents that the code does not keep.                   *)
(***************************************************************************)
\* "DELETE /api/jobs/{id} running job -> cancelled" (U-A1 spec): a cancelled job
\* stays cancelled until it is deleted.  The worker still holds the record it
\* loaded at the start and saves it over the cancellation.
CancelledStays ==
    [][\A j \in JobIds : store[j].status = "cancelled" =>
          store'[j].status \in {"cancelled", "deleted"}]_vars
=============================================================================
