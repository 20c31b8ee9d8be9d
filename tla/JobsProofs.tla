----------------------------- MODULE JobsProofs -----------------------------
(***************************************************************************)
(* The safety properties of Jobs, for any number of GPUs, jobs, streams    *)
(* and kills of the server.                                                *)
(*                                                                         *)
(* They need one another: that a GPU has one process rests on what is in   *)
(* its queue not having run, which rests on a job being in one queue once, *)
(* which rests on the numbers jobs are given.  Inv is their conjunction    *)
(* with the types, each in the form a step preserves.                      *)
(***************************************************************************)
EXTENDS Jobs, FiniteSetTheorems, SequenceTheorems, WellFoundedInduction, TLAPS

Statuses == {"unused", "queued", "running", "done", "failed", "cancelled", "deleted"}
ProcStates == {"none", "alive", "terminating", "ok", "bad"}
Records == [status : Statuses, pid : BOOLEAN]

Typed ==
    /\ store \in [JobIds -> Records]
    /\ gpu \in [JobIds -> Gpus]
    /\ number \in [JobIds -> Nat]
    /\ queue \in [Gpus -> Seq(JobIds)]
    /\ active \in [Gpus -> JobIds \cup {Idle}]
    /\ handles \in SUBSET JobIds
    /\ proc \in [JobIds -> ProcStates]
    /\ up \in BOOLEAN /\ restarts \in Nat /\ faults \in Nat

\* A queue is in the order of submission.
QueuesInOrder ==
    \A g \in Gpus : \A x, y \in 1 .. Len(queue[g]) :
        x < y => number[queue[g][x]] < number[queue[g][y]]

\* What is in a queue belongs to its GPU and has not run.
QueuedAreNew ==
    \A g \in Gpus : \A x \in 1 .. Len(queue[g]) :
        /\ gpu[queue[g][x]] = g
        /\ store[queue[g][x]].status \in {"queued", "deleted"}
        /\ proc[queue[g][x]] = "none"

\* What a worker tails belongs to its GPU, has run and has no outcome yet.
ActiveHaveNoOutcome ==
    \A g \in Gpus : active[g] # Idle =>
        /\ gpu[active[g]] = g
        /\ proc[active[g]] # "none"
        /\ store[active[g]].status \in {"running", "cancelled", "deleted"}

\* A job gets its number and its record together.
UnusedAreUntouched ==
    \A j \in JobIds :
        /\ store[j].status = "unused" => number[j] = 0 /\ proc[j] = "none"
        /\ store[j].status # "unused" => number[j] > 0

\* Numbers are given in turn.
NumbersInTurn ==
    /\ IsFiniteSet(Submitted)
    /\ \A j \in JobIds : number[j] <= Cardinality(Submitted)

\* A server that was killed has lost its memory.
DownIsEmpty ==
    ~up => /\ restarts > 0
           /\ \A g \in Gpus : queue[g] = << >> /\ active[g] = Idle

\* In the first life of the server a process has a worker, or an exception let go
\* of it.
ProcessesAccountedFor ==
    restarts = 0 => IsFiniteSet(Unwatched) /\ Cardinality(Unwatched) <= faults

Waiting(j, g) == \E x \in 1 .. Len(queue[g]) : queue[g][x] = j

\* The open records that have neither a worker nor a place in a queue.
RunsAlone(j) ==
    /\ store[j].status = "running"
    /\ active[gpu[j]] # j
    /\ ~(restarts > 0 /\ store[j].pid)
QueuedNowhere(j) == store[j].status = "queued" /\ restarts = 0 /\ ~Waiting(j, gpu[j])
Astray == {j \in JobIds : RunsAlone(j) \/ QueuedNowhere(j)}

\* Each of them was left behind by an exception.
RecordsAccountedFor ==
    up => IsFiniteSet(Astray) /\ Cardinality(Astray) <= faults

StartedInOrder ==
    \A j \in JobIds : proc[j] # "none" =>
        \A x \in 1 .. Len(queue[gpu[j]]) : number[j] < number[queue[gpu[j]][x]]

Inv == /\ Typed
       /\ QueuesInOrder /\ QueuedAreNew /\ ActiveHaveNoOutcome
       /\ UnusedAreUntouched /\ NumbersInTurn /\ DownIsEmpty
       /\ ProcessesAccountedFor /\ RecordsAccountedFor /\ StartedInOrder

\* A nonempty set of numbers has a least one: shortest_queue has something to return.
LEMMA LeastNat ==
    ASSUME NEW T \in SUBSET Nat, T # {}
    PROVE  \E x \in T : \A y \in T : x <= y
<1> DEFINE R == OpToRel(<, Nat)
<1>1. \A x, y \in Nat : <<x, y>> \in R <=> x < y
  BY DEF OpToRel
<1>2. IsWellFoundedOn(R, Nat)
  BY NatLessThanWellFounded
<1> HIDE DEF R
<1>3. PICK x \in T : \A y \in T : ~(<<y, x>> \in R)
  BY <1>2, WFMin
<1>4. ASSUME NEW y \in T
      PROVE  x <= y
  <2>1. x \in Nat /\ y \in Nat
    OBVIOUS
  <2>2. ~(y < x)
    BY <1>1, <1>3, <2>1, Zenon
  <2> QED
    BY <2>1, <2>2
<1> QED
  BY <1>4

\* GPUs are numbered from zero and there is at least one.
LEMMA GpuNumbers == Gpus \in SUBSET Nat /\ 0 \in Gpus
  BY GpusAssumption DEF Gpus

\* assign_gpu returns a GPU there is, whatever it is asked for.
LEMMA Assigned ==
    ASSUME Typed
    PROVE  /\ \A g \in 0 .. NumGpus : Assign(g) \in Gpus
           /\ ShortestQueue \in Gpus
<1> USE GpuNumbers
<1>1. \A g \in 0 .. NumGpus : Assign(g) \in Gpus
  BY GpusAssumption DEF Assign, Gpus
<1>2. \A g \in Gpus : Load(g) \in Nat
  BY LenProperties DEF Typed, Load
<1>3. PICK l \in {Load(g) : g \in Gpus} : \A m \in {Load(g) : g \in Gpus} : l <= m
  <2>1. {Load(g) : g \in Gpus} \in SUBSET Nat /\ {Load(g) : g \in Gpus} # {}
    BY <1>2
  <2> QED
    BY <2>1, LeastNat
<1>4. PICK g \in {h \in Gpus : Load(h) = l} : \A h \in {h \in Gpus : Load(h) = l} : g <= h
  <2>1. {h \in Gpus : Load(h) = l} \in SUBSET Nat /\ {h \in Gpus : Load(h) = l} # {}
    BY <1>3
  <2> QED
    BY <2>1, LeastNat
<1>5. \A h \in Gpus : Load(g) < Load(h) \/ (Load(g) = Load(h) /\ g <= h)
  <2> TAKE h \in Gpus
  <2>1. Load(g) \in Nat /\ Load(h) \in Nat /\ Load(g) = l /\ l <= Load(h)
    BY <1>2, <1>3, <1>4
  <2>2. CASE Load(h) = l
    BY <1>4, <2>1, <2>2
  <2>3. CASE Load(h) # l
    BY <2>1, <2>3
  <2> QED
    BY <2>2, <2>3
<1> HIDE DEF Load
<1> QED
  BY <1>1, <1>4, <1>5 DEF ShortestQueue

\* What saving a record changes.
LEMMA Saved ==
    ASSUME Typed, NEW j \in JobIds, NEW status \in Statuses, NEW pid \in BOOLEAN,
           Save(j, status, pid)
    PROVE  /\ store' \in [JobIds -> Records]
           /\ store'[j].status = status /\ store'[j].pid = pid
           /\ \A i \in JobIds : i # j => store'[i] = store[i]
  BY DEF Typed, Save, Records

\* What taking the head of a queue changes.
LEMMA Taken ==
    ASSUME Typed, NEW g \in Gpus, queue[g] # << >>, queue' = [queue EXCEPT ![g] = Tail(@)]
    PROVE  /\ queue' \in [Gpus -> Seq(JobIds)]
           /\ Head(queue[g]) = queue[g][1] /\ 1 \in 1 .. Len(queue[g])
           /\ \A h \in Gpus : \A x \in 1 .. Len(queue'[h]) :
                 /\ h # g => queue'[h][x] = queue[h][x] /\ x \in 1 .. Len(queue[h])
                 /\ h = g => queue'[g][x] = queue[g][x + 1] /\ x + 1 \in 2 .. Len(queue[g])
           /\ \A h \in Gpus : \A x \in 1 .. Len(queue[h]) :
                 /\ h # g => x \in 1 .. Len(queue'[h]) /\ queue'[h][x] = queue[h][x]
                 /\ h = g /\ x > 1 =>
                       x - 1 \in 1 .. Len(queue'[g]) /\ queue'[g][x - 1] = queue[g][x]
<1>1. queue[g] \in Seq(JobIds) /\ Len(queue[g]) \in Nat \ {0}
  BY EmptySeq DEF Typed
<1>2. queue'[g] = Tail(queue[g]) /\ \A h \in Gpus : h # g => queue'[h] = queue[h]
  BY DEF Typed
<1>3. /\ Tail(queue[g]) \in Seq(JobIds)
      /\ Len(Tail(queue[g])) = Len(queue[g]) - 1
      /\ \A x \in 1 .. Len(Tail(queue[g])) : Tail(queue[g])[x] = queue[g][x + 1]
  BY <1>1, HeadTailProperties
<1>4. Head(queue[g]) = queue[g][1]
  BY <1>1
<1>5. queue' \in [Gpus -> Seq(JobIds)]
  BY <1>3 DEF Typed
<1>6. \A x \in 1 .. Len(queue'[g]) : queue'[g][x] = queue[g][x + 1] /\ x + 1 \in 2 .. Len(queue[g])
  <2> TAKE x \in 1 .. Len(queue'[g])
  <2>1. x \in 1 .. Len(Tail(queue[g])) /\ queue'[g][x] = Tail(queue[g])[x]
    BY <1>2
  <2> QED
    BY <1>1, <1>3, <2>1
<1>7. ASSUME NEW x \in 1 .. Len(queue[g]), x > 1
      PROVE  x - 1 \in 1 .. Len(queue'[g]) /\ queue'[g][x - 1] = queue[g][x]
  <2>1. x - 1 \in 1 .. Len(queue'[g])
    BY <1>1, <1>2, <1>3, <1>7
  <2>2. queue'[g][x - 1] = queue[g][(x - 1) + 1]
    BY <1>6, <2>1
  <2> QED
    BY <2>1, <2>2
<1> QED
  BY <1>1, <1>2, <1>4, <1>5, <1>6, <1>7

\* What the end of a queue gains.
LEMMA Enqueued ==
    ASSUME Typed, NEW g \in Gpus, NEW j \in JobIds, queue' = [queue EXCEPT ![g] = Append(@, j)]
    PROVE  /\ queue' \in [Gpus -> Seq(JobIds)]
           /\ \A h \in Gpus : h # g => queue'[h] = queue[h]
           /\ Len(queue[g]) \in Nat /\ Len(queue'[g]) = Len(queue[g]) + 1
           /\ \A x \in 1 .. Len(queue[g]) : queue'[g][x] = queue[g][x]
           /\ queue'[g][Len(queue[g]) + 1] = j
<1>1. queue[g] \in Seq(JobIds) /\ Len(queue[g]) \in Nat
  BY LenProperties DEF Typed
<1>2. queue'[g] = Append(queue[g], j) /\ \A h \in Gpus : h # g => queue'[h] = queue[h]
  BY DEF Typed
<1>3. /\ Append(queue[g], j) \in Seq(JobIds)
      /\ Len(Append(queue[g], j)) = Len(queue[g]) + 1
      /\ \A x \in 1 .. Len(queue[g]) : Append(queue[g], j)[x] = queue[g][x]
      /\ Append(queue[g], j)[Len(queue[g]) + 1] = j
  BY <1>1, AppendProperties
<1>4. queue' \in [Gpus -> Seq(JobIds)]
  BY <1>3 DEF Typed
<1> QED
  BY <1>1, <1>2, <1>3, <1>4

-----------------------------------------------------------------------------
(* Counting what the exceptions let go of. *)

\* A set that gains at most the element that the count gains.
LEMMA OneMore ==
    ASSUME NEW S, NEW T, NEW x, NEW m \in Nat, NEW n \in Nat,
           IsFiniteSet(S), Cardinality(S) <= m, m <= n,
           T \subseteq S \cup {x}, x \in T => x \in S \/ m < n
    PROVE  IsFiniteSet(T) /\ Cardinality(T) <= n
<1>1. Cardinality(S) \in Nat
  BY FS_CardinalityType
<1>2. CASE T \subseteq S
  <2>1. IsFiniteSet(T) /\ Cardinality(T) <= Cardinality(S)
    BY <1>2, FS_Subset
  <2>2. Cardinality(T) \in Nat
    BY <2>1, FS_CardinalityType
  <2> QED
    BY <1>1, <2>1, <2>2
<1>3. CASE ~(T \subseteq S)
  <2>1. x \in T /\ x \notin S
    BY <1>3
  <2>2. IsFiniteSet(S \cup {x}) /\ Cardinality(S \cup {x}) = Cardinality(S) + 1
    BY <2>1, FS_AddElement
  <2>3. IsFiniteSet(T) /\ Cardinality(T) <= Cardinality(S \cup {x})
    BY <2>2, FS_Subset
  <2>4. Cardinality(T) \in Nat
    BY <2>3, FS_CardinalityType
  <2>5. m < n
    BY <2>1
  <2> QED
    BY <1>1, <2>2, <2>3, <2>4, <2>5
<1> QED
  BY <1>2, <1>3

\* What a step does to the count.
LEMMA FaultsKept ==
    ASSUME Typed, faults' = faults
    PROVE  faults' \in Nat /\ faults <= faults'
  BY DEF Typed

LEMMA FaultsRaised ==
    ASSUME Typed, Raised(1) \/ Raised(2)
    PROVE  faults' \in Nat /\ faults < faults' /\ faults <= faults' /\ 1 <= faults'
  BY DEF Typed, Raised

\* A step that lets go of no process but that of j, and of that by an exception.
LEMMA ProcessesCounted ==
    ASSUME Inv, NEW j \in JobIds, faults' \in Nat, faults <= faults', restarts' = restarts,
           \A i \in JobIds : i # j /\ i \in Unwatched' => i \in Unwatched,
           j \in Unwatched' => j \in Unwatched \/ faults < faults'
    PROVE  ProcessesAccountedFor'
<1>1. Unwatched' \subseteq Unwatched \cup {j}
  BY DEF Unwatched
<1>2. faults \in Nat
  BY DEF Inv, Typed
<1>3. restarts = 0 => IsFiniteSet(Unwatched) /\ Cardinality(Unwatched) <= faults
  BY DEF Inv, ProcessesAccountedFor
<1> HIDE DEF Unwatched
<1>4. restarts = 0 => IsFiniteSet(Unwatched') /\ Cardinality(Unwatched') <= faults'
  BY <1>1, <1>2, <1>3, OneMore
<1> QED
  BY <1>4 DEF ProcessesAccountedFor

\* A step that leaves no record behind but that of j, and that by an exception.
LEMMA RecordsCounted ==
    ASSUME Inv, NEW j \in JobIds, faults' \in Nat, faults <= faults', up' => up,
           \A i \in JobIds : i # j /\ i \in Astray' => i \in Astray,
           j \in Astray' => j \in Astray \/ faults < faults'
    PROVE  RecordsAccountedFor'
<1>1. Astray' \subseteq Astray \cup {j}
  BY DEF Astray
<1>2. faults \in Nat
  BY DEF Inv, Typed
<1>3. up => IsFiniteSet(Astray) /\ Cardinality(Astray) <= faults
  BY DEF Inv, RecordsAccountedFor
<1> HIDE DEF Astray
<1>4. up => IsFiniteSet(Astray') /\ Cardinality(Astray') <= faults'
  BY <1>1, <1>2, <1>3, OneMore
<1> QED
  BY <1>4 DEF RecordsAccountedFor

-----------------------------------------------------------------------------
(* The steps. *)

\* Nothing has been submitted.
LEMMA InvInit == Init => Inv
<1> SUFFICES ASSUME Init PROVE Inv
  OBVIOUS
<1> USE DEF Init
<1>1. /\ \A j \in JobIds : store[j].status = "unused" /\ proc[j] = "none" /\ number[j] = 0
      /\ \A g \in Gpus : queue[g] = << >> /\ Len(queue[g]) = 0 /\ active[g] = Idle
  BY EmptySeq DEF NoRecord
<1>2. Typed
  <2>1. NoRecord \in Records
    BY DEF NoRecord, Records, Statuses
  <2>2. << >> \in Seq(JobIds)
    BY EmptySeq
  <2> QED
    BY <2>1, <2>2, GpuNumbers DEF Typed, ProcStates
<1>3. Submitted = {}
  BY <1>1 DEF Submitted
<1>4. NumbersInTurn
  BY <1>1, <1>3, FS_EmptySet DEF NumbersInTurn
<1>5. QueuesInOrder /\ QueuedAreNew /\ StartedInOrder
  BY <1>1, <1>2 DEF QueuesInOrder, QueuedAreNew, StartedInOrder, Typed
<1>6. ProcessesAccountedFor /\ RecordsAccountedFor
  <2>1. Unwatched = {} /\ Astray = {}
    BY <1>1 DEF Unwatched, Astray, RunsAlone, QueuedNowhere, Living
  <2> QED
    BY <2>1, FS_EmptySet DEF ProcessesAccountedFor, RecordsAccountedFor
<1> QED
  BY <1>1, <1>2, <1>4, <1>5, <1>6
  DEF Inv, ActiveHaveNoOutcome, UnusedAreUntouched, DownIsEmpty

\* A step that changes the record and the process of one job that has begun.
LEMMA RecordStep ==
    ASSUME Inv, NEW j \in JobIds,
           store' \in [JobIds -> Records], \A i \in JobIds : i # j => store'[i] = store[i],
           proc' \in [JobIds -> ProcStates], \A i \in JobIds : i # j => proc'[i] = proc[i],
           UNCHANGED <<gpu, number, queue, active, handles, up, restarts>>,
           faults' \in Nat, faults <= faults',
           store[j].status # "unused", store'[j].status # "unused",
           proc'[j] # "none" <=> proc[j] # "none",
           proc[j] = "none" => store'[j].status \in {"queued", "deleted"} \/ ~\E g \in Gpus : Waiting(j, g),
           (\E g \in Gpus : active[g] = j) => store'[j].status \in {"running", "cancelled", "deleted"},
           proc'[j] \in Living => proc[j] \in Living,
           \/ store'[j] = store[j]
           \/ store'[j].status \notin {"running", "queued"}
           \/ store'[j].status = "running" /\ active[gpu[j]] = j
    PROVE  Inv'
<1> USE DEF Inv
<1>1. Typed' /\ NumbersInTurn' /\ DownIsEmpty' /\ QueuesInOrder'
  BY DEF Typed, NumbersInTurn, Submitted, DownIsEmpty, QueuesInOrder
<1>2. \A g \in Gpus : \A x \in 1 .. Len(queue[g]) : queue[g][x] \in JobIds
  BY ElementOfSeq DEF Typed
<1>3. QueuedAreNew'
  <2> SUFFICES ASSUME NEW g \in Gpus, NEW x \in 1 .. Len(queue[g])
               PROVE  /\ gpu[queue[g][x]] = g
                      /\ store'[queue[g][x]].status \in {"queued", "deleted"}
                      /\ proc'[queue[g][x]] = "none"
    BY DEF QueuedAreNew
  <2>1. queue[g][x] \in JobIds /\ Waiting(queue[g][x], g)
    BY <1>2 DEF Waiting
  <2>2. /\ gpu[queue[g][x]] = g
        /\ store[queue[g][x]].status \in {"queued", "deleted"}
        /\ proc[queue[g][x]] = "none"
    BY DEF QueuedAreNew
  <2>3. CASE queue[g][x] = j
    BY <2>1, <2>2, <2>3 DEF Typed, ProcStates
  <2>4. CASE queue[g][x] # j
    BY <2>1, <2>2, <2>4
  <2> QED
    BY <2>3, <2>4
<1>4. ActiveHaveNoOutcome'
  <2> SUFFICES ASSUME NEW g \in Gpus, active[g] # Idle
               PROVE  /\ gpu[active[g]] = g
                      /\ proc'[active[g]] # "none"
                      /\ store'[active[g]].status \in {"running", "cancelled", "deleted"}
    BY DEF ActiveHaveNoOutcome
  <2>1. active[g] \in JobIds
    BY DEF Typed
  <2> QED
    BY <2>1 DEF ActiveHaveNoOutcome
<1>5. UnusedAreUntouched'
  BY DEF UnusedAreUntouched
<1>6. ProcessesAccountedFor'
  <2>1. \A i \in JobIds : i \in Unwatched' => i \in Unwatched
    BY DEF Unwatched
  <2> QED
    BY <2>1, ProcessesCounted
<1>7. RecordsAccountedFor'
  <2>1. \A i \in JobIds : i \in Astray' => i \in Astray
    BY DEF Astray, RunsAlone, QueuedNowhere, Waiting
  <2> QED
    BY <2>1, RecordsCounted
<1>8. StartedInOrder'
  BY DEF StartedInOrder
<1> QED
  BY <1>1, <1>3, <1>4, <1>5, <1>6, <1>7, <1>8

\* The worker and the client write the record of a job that has run, or a client
\* removes it; the process of the job ends.
LEMMA RecordSteps ==
    ASSUME Inv, NEW g \in Gpus, NEW j \in JobIds,
           SaveProgress(g) \/ ProcExit(j) \/ CancelJob(j) \/ CancelBreaks(j) \/ DeleteJob(j)
    PROVE  Inv'
<1>1. Typed
  BY DEF Inv
<1>2. \A i \in JobIds, h \in Gpus : proc[i] # "none" => ~Waiting(i, h)
  BY DEF Inv, QueuedAreNew, Waiting
<1>3. CASE SaveProgress(g)
  <2>1. active[g] \in JobIds /\ gpu[active[g]] = g /\ proc[active[g]] # "none"
    BY <1>1, <1>3 DEF SaveProgress, Typed, Inv, ActiveHaveNoOutcome
  <2>2. /\ store' \in [JobIds -> Records]
        /\ store'[active[g]].status = "running"
        /\ \A i \in JobIds : i # active[g] => store'[i] = store[i]
    BY <1>1, <1>3, <2>1, Saved DEF SaveProgress, Statuses
  <2>3. store[active[g]].status # "unused"
    BY <2>1 DEF Inv, UnusedAreUntouched
  <2>4. active[gpu[active[g]]] = active[g]
    BY <2>1
  <2> QED
    BY <1>1, <1>3, <2>1, <2>2, <2>3, <2>4, FaultsKept, RecordStep DEF SaveProgress, Typed
<1>4. CASE ProcExit(j)
  <2>1. /\ proc' \in [JobIds -> ProcStates] /\ proc'[j] \in {"ok", "bad"}
        /\ \A i \in JobIds : i # j => proc'[i] = proc[i]
        /\ proc[j] # "none" /\ proc'[j] # "none" /\ proc'[j] \notin Living
    BY <1>1, <1>4 DEF ProcExit, Typed, ProcStates, Living
  <2>2. store[j].status # "unused"
    BY <2>1 DEF Inv, UnusedAreUntouched
  <2>3. (\E h \in Gpus : active[h] = j) => store[j].status \in {"running", "cancelled", "deleted"}
    BY IdleAssumption DEF Inv, ActiveHaveNoOutcome
  <2>4. proc[j] \in Living
    BY <1>4 DEF ProcExit
  <2> QED
    BY <1>1, <1>4, <2>1, <2>2, <2>3, <2>4, FaultsKept, RecordStep DEF ProcExit, Typed
<1>5. CASE CancelJob(j)
  <2>1. /\ proc' \in [JobIds -> ProcStates] /\ proc'[j] = "terminating"
        /\ \A i \in JobIds : i # j => proc'[i] = proc[i]
        /\ proc[j] # "none" /\ proc[j] \in Living
    BY <1>1, <1>5 DEF CancelJob, Cancellable, Typed, ProcStates, Living
  <2>2. store[j].status = "running" /\ store[j].pid \in BOOLEAN
    BY <1>1, <1>5 DEF CancelJob, Typed, Records
  <2>3. /\ store' \in [JobIds -> Records]
        /\ store'[j].status = "cancelled"
        /\ \A i \in JobIds : i # j => store'[i] = store[i]
    BY <1>1, <1>5, <2>2, Saved DEF CancelJob, Statuses
  <2> QED
    BY <1>1, <1>5, <2>1, <2>2, <2>3, FaultsKept, RecordStep DEF CancelJob
<1>6. CASE DeleteJob(j)
  <2>1. /\ store' \in [JobIds -> Records]
        /\ store'[j].status = "deleted"
        /\ \A i \in JobIds : i # j => store'[i] = store[i]
    BY <1>1, <1>6, Saved DEF DeleteJob, Statuses
  <2>2. store[j].status # "unused"
    BY <1>6 DEF DeleteJob
  <2> QED
    BY <1>1, <1>6, <2>1, <2>2, FaultsKept, RecordStep DEF DeleteJob, Typed
<1>7. CASE CancelBreaks(j)
  <2>1. /\ proc' \in [JobIds -> ProcStates] /\ proc'[j] = "terminating"
        /\ \A i \in JobIds : i # j => proc'[i] = proc[i]
        /\ proc[j] # "none" /\ proc[j] \in Living
    BY <1>1, <1>7 DEF CancelBreaks, Cancellable, Typed, ProcStates, Living
  <2>2. store[j].status = "running" /\ store' = store
    BY <1>7 DEF CancelBreaks
  <2>3. faults' \in Nat /\ faults <= faults'
    BY <1>1, <1>7, FaultsRaised DEF CancelBreaks
  <2>4. (\E h \in Gpus : active[h] = j) => store'[j].status \in {"running", "cancelled", "deleted"}
    BY <2>2
  <2> QED
    BY <1>1, <1>7, <2>1, <2>2, <2>3, <2>4, RecordStep DEF CancelBreaks, Typed
<1> QED
  BY <1>3, <1>4, <1>5, <1>6, <1>7

\* POST: the new job is last in its queue and has the highest number.
LEMMA SubmitStep ==
    ASSUME Inv, NEW g \in Gpus, NEW j \in JobIds, Submit(j, g)
    PROVE  Inv'
<1>1. Typed /\ up /\ store[j].status = "unused" /\ number[j] = 0 /\ proc[j] = "none"
  BY DEF Inv, Submit, UnusedAreUntouched
<1>2. UNCHANGED <<active, handles, proc, up, restarts, faults>>
  BY DEF Submit
<1>3. /\ store' \in [JobIds -> Records] /\ store'[j].status = "queued"
      /\ \A i \in JobIds : i # j => store'[i] = store[i]
  BY <1>1, Saved DEF Submit, Statuses
<1> DEFINE n == Cardinality(Submitted)
<1>4. n \in Nat /\ \A i \in JobIds : number[i] <= n
  BY FS_CardinalityType DEF Inv, NumbersInTurn
<1>5. /\ gpu' \in [JobIds -> Gpus] /\ gpu'[j] = g
      /\ \A i \in JobIds : i # j => gpu'[i] = gpu[i]
  BY <1>1 DEF Submit, Typed
<1>6. /\ number' \in [JobIds -> Nat] /\ number'[j] = n + 1
      /\ \A i \in JobIds : i # j => number'[i] = number[i]
  BY <1>1, <1>4 DEF Submit, Typed
<1>7. /\ queue' \in [Gpus -> Seq(JobIds)]
      /\ \A h \in Gpus : h # g => queue'[h] = queue[h]
      /\ Len(queue[g]) \in Nat /\ Len(queue'[g]) = Len(queue[g]) + 1
      /\ \A x \in 1 .. Len(queue[g]) : queue'[g][x] = queue[g][x]
      /\ queue'[g][Len(queue[g]) + 1] = j
  BY <1>1, Enqueued DEF Submit
<1>8. NumbersInTurn'
  <2>1. Submitted' = Submitted \cup {j} /\ j \notin Submitted
    BY <1>1, <1>4, <1>6 DEF Submitted, Typed
  <2>2. IsFiniteSet(Submitted') /\ Cardinality(Submitted') = n + 1
    BY <2>1, FS_AddElement DEF Inv, NumbersInTurn
  <2>3. ASSUME NEW i \in JobIds
        PROVE  number'[i] <= n + 1
    <3> HIDE DEF n
    <3>1. CASE i = j
      BY <1>4, <1>6, <3>1
    <3>2. CASE i # j
      BY <1>1, <1>4, <1>6, <3>2 DEF Typed
    <3> QED
      BY <3>1, <3>2
  <2> QED
    BY <1>6, <2>2, <2>3 DEF NumbersInTurn
<1> HIDE DEF n
<1>9. Typed'
  BY <1>1, <1>2, <1>3, <1>5, <1>6, <1>7 DEF Typed
\* An old place of a queue has what it had; the only new one has j.
<1>10. \A h \in Gpus : \A x \in 1 .. Len(queue'[h]) :
          \/ /\ x \in 1 .. Len(queue[h]) /\ queue'[h][x] = queue[h][x]
             /\ queue[h][x] \in JobIds /\ queue[h][x] # j
          \/ h = g /\ x = Len(queue[g]) + 1 /\ queue'[h][x] = j
  <2> TAKE h \in Gpus
  <2> TAKE x \in 1 .. Len(queue'[h])
  <2>1. \/ x \in 1 .. Len(queue[h]) /\ queue'[h][x] = queue[h][x]
        \/ h = g /\ x = Len(queue[g]) + 1
    <3>1. CASE h # g
      BY <1>7, <3>1
    <3>2. CASE h = g
      BY <1>7, <3>2
    <3> QED
      BY <3>1, <3>2
  <2>2. ASSUME x \in 1 .. Len(queue[h])
        PROVE  queue[h][x] \in JobIds /\ queue[h][x] # j
    <3>1. queue[h] \in Seq(JobIds)
      BY <1>1 DEF Typed
    <3>2. store[queue[h][x]].status # "unused"
      BY <2>2 DEF Inv, QueuedAreNew
    <3> QED
      BY <1>1, <2>2, <3>1, <3>2, ElementOfSeq
  <2> QED
    BY <1>7, <2>1, <2>2
<1>11. QueuesInOrder'
  <2> SUFFICES ASSUME NEW h \in Gpus, NEW x \in 1 .. Len(queue'[h]),
                      NEW y \in 1 .. Len(queue'[h]), x < y
               PROVE  number'[queue'[h][x]] < number'[queue'[h][y]]
    BY DEF QueuesInOrder
  <2>1. ~(h = g /\ x = Len(queue[g]) + 1)
    <3>1. CASE h # g
      BY <3>1
    <3>2. CASE h = g
      BY <1>7, <3>2
    <3> QED
      BY <3>1, <3>2
  <2>2. /\ x \in 1 .. Len(queue[h]) /\ queue'[h][x] = queue[h][x]
        /\ queue[h][x] \in JobIds /\ queue[h][x] # j
    BY <1>10, <2>1
  <2>3. CASE y \in 1 .. Len(queue[h]) /\ queue'[h][y] = queue[h][y] /\ queue[h][y] # j /\ queue[h][y] \in JobIds
    BY <1>6, <2>2, <2>3 DEF Inv, QueuesInOrder
  <2>4. CASE queue'[h][y] = j
    <3>1. number'[queue'[h][x]] <= n /\ number'[queue'[h][x]] \in Nat
      BY <1>1, <1>4, <1>6, <2>2 DEF Typed
    <3> QED
      BY <1>4, <1>6, <2>4, <3>1
  <2> QED
    BY <1>10, <2>3, <2>4
<1>12. QueuedAreNew'
  <2> SUFFICES ASSUME NEW h \in Gpus, NEW x \in 1 .. Len(queue'[h])
               PROVE  /\ gpu'[queue'[h][x]] = h
                      /\ store'[queue'[h][x]].status \in {"queued", "deleted"}
                      /\ proc'[queue'[h][x]] = "none"
    BY DEF QueuedAreNew
  <2>1. CASE h = g /\ queue'[h][x] = j
    BY <1>1, <1>2, <1>3, <1>5, <2>1
  <2>2. CASE /\ x \in 1 .. Len(queue[h]) /\ queue'[h][x] = queue[h][x]
             /\ queue[h][x] \in JobIds /\ queue[h][x] # j
    BY <1>2, <1>3, <1>5, <2>2 DEF Inv, QueuedAreNew
  <2> QED
    BY <1>10, <2>1, <2>2
<1>13. ActiveHaveNoOutcome' /\ UnusedAreUntouched' /\ DownIsEmpty' /\ ProcessesAccountedFor'
  <2>1. \A h \in Gpus : active[h] # Idle => active[h] \in JobIds /\ active[h] # j
    BY <1>1 DEF Typed, Inv, ActiveHaveNoOutcome
  <2>2. ActiveHaveNoOutcome'
    BY <1>2, <1>3, <1>5, <2>1 DEF Inv, ActiveHaveNoOutcome
  <2>3. UnusedAreUntouched'
    BY <1>2, <1>3, <1>4, <1>6 DEF Inv, UnusedAreUntouched
  <2>4. DownIsEmpty'
    BY <1>1, <1>2 DEF DownIsEmpty
  <2>5. ProcessesAccountedFor'
    <3>1. \A i \in JobIds : i \in Unwatched' => i \in Unwatched
      BY <1>1, <1>2, <1>5 DEF Unwatched, Living
    <3> QED
      BY <1>1, <1>2, <3>1, FaultsKept, ProcessesCounted
  <2> QED
    BY <2>2, <2>3, <2>4, <2>5
\* Who was in his queue still is, and j is in his.
<1>14. ASSUME NEW i \in JobIds, i = j \/ Waiting(i, gpu[i])
       PROVE  \E x \in 1 .. Len(queue'[gpu'[i]]) : queue'[gpu'[i]][x] = i
  <2>1. CASE i = j
    <3>1. Len(queue[g]) + 1 \in 1 .. Len(queue'[g])
      BY <1>7
    <3>2. gpu'[i] = g /\ queue'[g][Len(queue[g]) + 1] = i
      BY <1>5, <1>7, <2>1
    <3> QED
      BY <3>1, <3>2, Zenon
  <2>2. CASE i # j
    <3>1. PICK x \in 1 .. Len(queue[gpu[i]]) : queue[gpu[i]][x] = i
      BY <1>14, <2>2 DEF Waiting
    <3>2. gpu[i] \in Gpus /\ gpu'[i] = gpu[i]
      BY <1>1, <1>5, <2>2 DEF Typed
    <3>3. \A h \in Gpus : \A y \in 1 .. Len(queue[h]) :
             y \in 1 .. Len(queue'[h]) /\ queue'[h][y] = queue[h][y]
      <4>1. ASSUME NEW h \in Gpus, h # g
            PROVE  queue'[h] = queue[h]
        BY <1>7, <4>1
      <4>2. ASSUME NEW y \in 1 .. Len(queue[g])
            PROVE  y \in 1 .. Len(queue'[g]) /\ queue'[g][y] = queue[g][y]
        BY <1>7
      <4> QED
        BY <4>1, <4>2, Zenon
    <3>4. x \in 1 .. Len(queue'[gpu[i]]) /\ queue'[gpu[i]][x] = i
      BY <3>1, <3>2, <3>3, Zenon
    <3> QED
      BY <3>2, <3>4, Zenon
  <2> QED
    BY <2>1, <2>2
<1>15. RecordsAccountedFor'
  <2>1. \A i \in JobIds : i \in Astray' => i \in Astray
    <3> SUFFICES ASSUME NEW i \in JobIds, RunsAlone(i)' \/ QueuedNowhere(i)'
                 PROVE  RunsAlone(i) \/ QueuedNowhere(i)
      BY DEF Astray
    <3>1. i # j
      BY <1>3, <1>14 DEF RunsAlone, QueuedNowhere, Waiting
    <3>2. QueuedNowhere(i)' => QueuedNowhere(i)
      BY <1>2, <1>3, <1>14, <3>1 DEF QueuedNowhere, Waiting
    <3>3. RunsAlone(i)' => RunsAlone(i)
      BY <1>2, <1>3, <1>5, <3>1 DEF RunsAlone
    <3> QED
      BY <3>2, <3>3
  <2> QED
    BY <1>1, <1>2, <2>1, FaultsKept, RecordsCounted
<1>16. StartedInOrder'
  <2> SUFFICES ASSUME NEW i \in JobIds, proc[i] # "none", NEW x \in 1 .. Len(queue'[gpu'[i]])
               PROVE  number'[i] < number'[queue'[gpu'[i]][x]]
    BY <1>2 DEF StartedInOrder
  <2>1. i # j /\ gpu'[i] = gpu[i] /\ gpu[i] \in Gpus /\ number'[i] = number[i] /\ number[i] \in Nat
    BY <1>1, <1>5, <1>6 DEF Typed
  <2>2. CASE queue'[gpu[i]][x] = j
    BY <1>4, <1>6, <2>1, <2>2
  <2>3. CASE /\ x \in 1 .. Len(queue[gpu[i]]) /\ queue'[gpu[i]][x] = queue[gpu[i]][x]
             /\ queue[gpu[i]][x] \in JobIds /\ queue[gpu[i]][x] # j
    BY <1>6, <2>1, <2>3 DEF Inv, StartedInOrder
  <2> QED
    BY <1>10, <2>1, <2>2, <2>3
<1> QED
  BY <1>8, <1>9, <1>11, <1>12, <1>13, <1>15, <1>16 DEF Inv

\* What QueuedAreNew says of one place in a queue.
LEMMA QueuedIsNew ==
    ASSUME Inv, NEW h \in Gpus, NEW y \in 1 .. Len(queue[h])
    PROVE  /\ gpu[queue[h][y]] = h
           /\ store[queue[h][y]].status \in {"queued", "deleted"}
           /\ proc[queue[h][y]] = "none"
  BY DEF Inv, QueuedAreNew

\* And what it takes for it to hold of the next state.
LEMMA QueuedAreNewNext ==
    ASSUME \A h \in Gpus : \A x \in 1 .. Len(queue'[h]) :
               /\ gpu'[queue'[h][x]] = h
               /\ store'[queue'[h][x]].status \in {"queued", "deleted"}
               /\ proc'[queue'[h][x]] = "none"
    PROVE  QueuedAreNew'
  BY DEF QueuedAreNew

\* A step in which a worker takes the head of its queue and either starts it, or
\* passes over it, or leaves it behind in an exception.
LEMMA HeadStep ==
    ASSUME Inv, NEW g \in Gpus, NEW j \in JobIds, up,
           queue[g] # << >>, j = Head(queue[g]), active[g] = Idle,
           queue' = [queue EXCEPT ![g] = Tail(@)],
           store' \in [JobIds -> Records], \A i \in JobIds : i # j => store'[i] = store[i],
           proc' \in [JobIds -> ProcStates], \A i \in JobIds : i # j => proc'[i] = proc[i],
           active' \in [Gpus -> JobIds \cup {Idle}],
           \A h \in Gpus : h # g => active'[h] = active[h],
           handles' \in SUBSET JobIds, faults' \in Nat, faults <= faults',
           UNCHANGED <<gpu, number, up, restarts>>,
           \/ /\ active'[g] = j /\ proc'[j] # "none" /\ store'[j].status = "running"
           \/ /\ active'[g] = Idle /\ proc'[j] = "none"
              /\ store'[j].status \in {"deleted", "cancelled", "failed"}
           \/ active'[g] = Idle /\ store'[j].status # "unused" /\ faults < faults'
    PROVE  Inv'
<1>1. Typed
  BY DEF Inv
<1>2. /\ queue' \in [Gpus -> Seq(JobIds)]
      /\ Head(queue[g]) = queue[g][1] /\ 1 \in 1 .. Len(queue[g])
      /\ \A h \in Gpus : \A x \in 1 .. Len(queue'[h]) :
            /\ h # g => queue'[h][x] = queue[h][x] /\ x \in 1 .. Len(queue[h])
            /\ h = g => queue'[g][x] = queue[g][x + 1] /\ x + 1 \in 2 .. Len(queue[g])
      /\ \A h \in Gpus : \A x \in 1 .. Len(queue[h]) :
            /\ h # g => x \in 1 .. Len(queue'[h]) /\ queue'[h][x] = queue[h][x]
            /\ h = g /\ x > 1 =>
                  x - 1 \in 1 .. Len(queue'[g]) /\ queue'[g][x - 1] = queue[g][x]
  BY <1>1, Taken
<1>3. \A h \in Gpus : Len(queue[h]) \in Nat /\ Len(queue'[h]) \in Nat
  BY <1>1, <1>2, LenProperties DEF Typed
<1>4. gpu[j] = g /\ proc[j] = "none" /\ number[j] \in Nat
  <2>1. j = queue[g][1] /\ 1 \in 1 .. Len(queue[g])
    BY <1>2
  <2>2. gpu[queue[g][1]] = g /\ proc[queue[g][1]] = "none"
    BY <2>1 DEF Inv, QueuedAreNew
  <2> QED
    BY <1>1, <2>1, <2>2 DEF Typed
<1>5. \A h \in Gpus : \A x \in 1 .. Len(queue[h]) : queue[h][x] \in JobIds
  BY <1>1, ElementOfSeq DEF Typed
\* The other jobs in the queues are later ones.
<1>6. ASSUME NEW h \in Gpus, NEW x \in 1 .. Len(queue[h]), ~(h = g /\ x = 1)
      PROVE  queue[h][x] # j /\ (h = g => number[j] < number[queue[h][x]])
  <2>1. CASE h = g
    <3>1. number[queue[g][1]] < number[queue[g][x]]
      BY <1>2, <1>3, <1>6, <2>1 DEF Inv, QueuesInOrder
    <3> QED
      BY <1>2, <1>4, <2>1, <3>1
  <2>2. CASE h # g
    BY <1>4, <2>2 DEF Inv, QueuedAreNew
  <2> QED
    BY <2>1, <2>2
\* What is left in a queue was in it, behind j if it is the queue of g.
<1>7. ASSUME NEW h \in Gpus, NEW x \in 1 .. Len(queue'[h])
      PROVE  \E y \in 1 .. Len(queue[h]) :
                /\ queue'[h][x] = queue[h][y] /\ queue[h][y] \in JobIds /\ queue[h][y] # j
                /\ h = g => number[j] < number[queue[h][y]]
  <2>1. CASE h # g
    BY <1>2, <1>5, <1>6, <2>1
  <2>2. CASE h = g
    <3>1. x + 1 \in 1 .. Len(queue[g]) /\ x + 1 # 1 /\ queue'[g][x] = queue[g][x + 1]
      BY <1>2, <1>3, <2>2
    <3> QED
      BY <1>5, <1>6, <2>2, <3>1
  <2> QED
    BY <2>1, <2>2
<1>8. Typed' /\ NumbersInTurn' /\ DownIsEmpty'
  BY <1>1, <1>2 DEF Inv, Typed, NumbersInTurn, Submitted, DownIsEmpty
<1>9. QueuesInOrder'
  <2> SUFFICES ASSUME NEW h \in Gpus, NEW x \in 1 .. Len(queue'[h]),
                      NEW y \in 1 .. Len(queue'[h]), x < y
               PROVE  number[queue'[h][x]] < number[queue'[h][y]]
    BY DEF QueuesInOrder
  <2>1. CASE h # g
    BY <1>2, <2>1 DEF Inv, QueuesInOrder
  <2>2. CASE h = g
    <3>1. /\ x + 1 \in 1 .. Len(queue[g]) /\ queue'[g][x] = queue[g][x + 1]
          /\ y + 1 \in 1 .. Len(queue[g]) /\ queue'[g][y] = queue[g][y + 1]
          /\ x + 1 < y + 1
      BY <1>2, <1>3, <2>2
    <3>2. number[queue[g][x + 1]] < number[queue[g][y + 1]]
      BY <3>1 DEF Inv, QueuesInOrder
    <3> QED
      BY <2>2, <3>1, <3>2
  <2> QED
    BY <2>1, <2>2
<1>10. QueuedAreNew'
  <2>1. ASSUME NEW h \in Gpus, NEW x \in 1 .. Len(queue'[h])
        PROVE  /\ gpu'[queue'[h][x]] = h
               /\ store'[queue'[h][x]].status \in {"queued", "deleted"}
               /\ proc'[queue'[h][x]] = "none"
    <3>1. PICK y \in 1 .. Len(queue[h]) :
              queue'[h][x] = queue[h][y] /\ queue[h][y] \in JobIds /\ queue[h][y] # j
      BY <1>7, ZenonT(30)
    <3>2. /\ gpu[queue[h][y]] = h
          /\ store[queue[h][y]].status \in {"queued", "deleted"}
          /\ proc[queue[h][y]] = "none"
      BY QueuedIsNew
    <3> QED
      BY <3>1, <3>2
  <2> QED
    BY <2>1, QueuedAreNewNext
<1>11. ActiveHaveNoOutcome'
  <2> SUFFICES ASSUME NEW h \in Gpus, active'[h] # Idle
               PROVE  /\ gpu[active'[h]] = h
                      /\ proc'[active'[h]] # "none"
                      /\ store'[active'[h]].status \in {"running", "cancelled", "deleted"}
    BY DEF ActiveHaveNoOutcome
  <2>1. CASE h = g
    BY <1>4, <2>1
  <2>2. CASE h # g
    <3>1. active[h] \in JobIds /\ active[h] # j /\ active'[h] = active[h]
      BY <1>1, <1>4, <2>2 DEF Typed, Inv, ActiveHaveNoOutcome
    <3> QED
      BY <3>1 DEF Inv, ActiveHaveNoOutcome
  <2> QED
    BY <2>1, <2>2
<1>12. UnusedAreUntouched'
  <2>1. store[j].status # "unused"
    BY <1>2, SMTT(30) DEF Inv, QueuedAreNew
  <2> QED
    BY <2>1 DEF Inv, UnusedAreUntouched
<1>13. /\ \A i \in JobIds : i # j /\ active[gpu[i]] = i => active'[gpu[i]] = i
       /\ active'[gpu[j]] = j \/ active'[g] = Idle
  BY <1>1, <1>4, IdleAssumption DEF Typed
\* The others keep their places.
<1>14. ASSUME NEW i \in JobIds, i # j, Waiting(i, gpu[i])
       PROVE  \E x \in 1 .. Len(queue'[gpu[i]]) : queue'[gpu[i]][x] = i
  <2>1. i # j /\ gpu[i] \in Gpus
    BY <1>1, <1>14 DEF Typed
  <2>2. PICK x \in 1 .. Len(queue[gpu[i]]) : queue[gpu[i]][x] = i
    BY <1>14 DEF Waiting
  <2>3. CASE gpu[i] # g
    BY <1>2, <2>1, <2>2, <2>3
  <2>4. CASE gpu[i] = g
    <3>1. x > 1
      BY <1>2, <1>3, <2>1, <2>2, <2>4
    <3>2. x - 1 \in 1 .. Len(queue'[g]) /\ queue'[g][x - 1] = i
      BY <1>2, <2>2, <2>4, <3>1
    <3> QED
      BY <2>4, <3>2
  <2> QED
    BY <2>3, <2>4
<1>15. ProcessesAccountedFor'
  <2>1. \A i \in JobIds : i # j /\ i \in Unwatched' => i \in Unwatched
    BY <1>13 DEF Unwatched
  <2>2. j \in Unwatched' => faults < faults'
    BY <1>4, <1>13 DEF Unwatched, Living
  <2> QED
    BY <2>1, <2>2, ProcessesCounted
<1>16. RecordsAccountedFor'
  <2>1. \A i \in JobIds : i # j /\ i \in Astray' => i \in Astray
    <3> SUFFICES ASSUME NEW i \in JobIds, i # j, RunsAlone(i)' \/ QueuedNowhere(i)'
                 PROVE  RunsAlone(i) \/ QueuedNowhere(i)
      BY DEF Astray
    <3>1. QueuedNowhere(i)' => QueuedNowhere(i)
      BY <1>14, ZenonT(30) DEF QueuedNowhere, Waiting
    <3>2. RunsAlone(i)' => RunsAlone(i)
      BY <1>13 DEF RunsAlone
    <3> QED
      BY <3>1, <3>2
  <2>2. j \in Astray' => faults < faults'
    BY <1>4, <1>13 DEF Astray, RunsAlone, QueuedNowhere
  <2> QED
    BY <2>1, <2>2, RecordsCounted
<1>17. StartedInOrder'
  <2>1. ASSUME NEW h \in Gpus, NEW x \in 1 .. Len(queue'[h])
        PROVE  \A i \in JobIds : gpu[i] = h /\ proc'[i] # "none" => number[i] < number[queue'[h][x]]
    <3>1. PICK y \in 1 .. Len(queue[h]) :
              /\ queue'[h][x] = queue[h][y]
              /\ h = g => number[j] < number[queue[h][y]]
      BY <1>7, ZenonT(30)
    <3>2. ASSUME NEW i \in JobIds, gpu[i] = h, proc'[i] # "none"
          PROVE  number[i] < number[queue[h][y]]
      <4>1. CASE i = j
        BY <1>4, <3>1, <3>2, <4>1
      <4>2. CASE i # j
        BY <3>2, <4>2 DEF Inv, StartedInOrder
      <4> QED
        BY <4>1, <4>2
    <3> QED
      BY <3>1, <3>2
  <2> QED
    BY <1>1, <2>1 DEF StartedInOrder, Typed
<1> QED
  BY <1>8, <1>9, <1>10, <1>11, <1>12, <1>15, <1>16, <1>17 DEF Inv

\* The ways of a worker with the head of its queue.
LEMMA HeadSteps ==
    ASSUME Inv, NEW g \in Gpus, NEW j \in JobIds,
           \/ SkipJob(g) \/ StartJob(g, j) \/ StartFails(g, j)
           \/ LoseStart(g, j) \/ StartBreaks(g, j) \/ StartUnsettled(g, j)
    PROVE  Inv'
<1>1. Typed
  BY DEF Inv
<1>2. /\ up /\ queue[g] # << >> /\ active[g] = Idle
      /\ queue' = [queue EXCEPT ![g] = Tail(@)]
      /\ UNCHANGED <<gpu, number, up, restarts>>
  BY DEF SkipJob, StartJob, StartFails, LoseStart, StartBreaks, StartUnsettled, Runnable
<1>3. PICK i \in JobIds : i = Head(queue[g])
  <2>1. queue[g] \in Seq(JobIds)
    BY <1>1 DEF Typed
  <2> QED
    BY <1>2, <2>1, HeadTailProperties
<1>4. /\ proc[i] = "none" /\ store[i].status \in {"queued", "deleted"}
  <2>1. Head(queue[g]) = queue[g][1] /\ 1 \in 1 .. Len(queue[g])
    BY <1>1, <1>2, Taken
  <2> QED
    BY <1>3, <2>1 DEF Inv, QueuedAreNew
<1>5. CASE SkipJob(g)
  <2>1. UNCHANGED <<store, proc, active, handles, faults>> /\ store[i].status = "deleted"
    BY <1>3, <1>4, <1>5 DEF SkipJob
  <2> QED
    BY <1>1, <1>2, <1>3, <1>4, <2>1, FaultsKept, HeadStep DEF Typed
<1>6. CASE StartJob(g, j)
  <2>1. i = j
    BY <1>3, <1>6 DEF StartJob, Runnable
  <2>2. /\ store' \in [JobIds -> Records] /\ store'[i].status = "running"
        /\ \A k \in JobIds : k # i => store'[k] = store[k]
    BY <1>1, <1>6, <2>1, Saved DEF StartJob, Statuses
  <2>3. /\ proc' \in [JobIds -> ProcStates] /\ proc'[i] = "alive"
        /\ \A k \in JobIds : k # i => proc'[k] = proc[k]
    BY <1>1, <1>6, <2>1 DEF StartJob, Typed, ProcStates
  <2>4. /\ active' \in [Gpus -> JobIds \cup {Idle}] /\ active'[g] = i
        /\ \A h \in Gpus : h # g => active'[h] = active[h]
    BY <1>1, <1>6, <2>1 DEF StartJob, Typed
  <2>5. handles' \in SUBSET JobIds /\ faults' = faults
    BY <1>1, <1>6 DEF StartJob, Typed
  <2> QED
    BY <1>1, <1>2, <1>3, <2>2, <2>3, <2>4, <2>5, FaultsKept, HeadStep
<1>7. CASE StartFails(g, j)
  <2>1. i = j /\ UNCHANGED <<proc, active, faults>> /\ handles' \in SUBSET JobIds
    BY <1>1, <1>3, <1>7 DEF StartFails, Settle, Runnable, Typed
  <2>2. /\ store' \in [JobIds -> Records] /\ store'[i].status = "failed"
        /\ \A k \in JobIds : k # i => store'[k] = store[k]
    BY <1>1, <1>7, <2>1, Saved DEF StartFails, Settle, Statuses
  <2> QED
    BY <1>1, <1>2, <1>3, <1>4, <2>1, <2>2, FaultsKept, HeadStep DEF Typed
<1>8. CASE LoseStart(g, j)
  <2>1. UNCHANGED <<store, proc, active, handles>> /\ store[i].status # "unused"
    BY <1>4, <1>8 DEF LoseStart
  <2>2. faults' \in Nat /\ faults < faults' /\ faults <= faults'
    BY <1>1, <1>8, FaultsRaised DEF LoseStart
  <2> QED
    BY <1>1, <1>2, <1>3, <1>4, <2>1, <2>2, HeadStep DEF Typed
<1>9. CASE StartBreaks(g, j)
  <2>1. i = j /\ UNCHANGED active /\ handles' \in SUBSET JobIds
    BY <1>1, <1>3, <1>9 DEF StartBreaks, Settle, Runnable, Typed
  <2>2. /\ store' \in [JobIds -> Records] /\ store'[i].status = "failed"
        /\ \A k \in JobIds : k # i => store'[k] = store[k]
    BY <1>1, <1>9, <2>1, Saved DEF StartBreaks, Settle, Statuses
  <2>3. /\ proc' \in [JobIds -> ProcStates]
        /\ \A k \in JobIds : k # i => proc'[k] = proc[k]
    BY <1>1, <1>9, <2>1 DEF StartBreaks, Typed, ProcStates
  <2>4. faults' \in Nat /\ faults < faults' /\ faults <= faults'
    BY <1>1, <1>9, FaultsRaised DEF StartBreaks
  <2> QED
    BY <1>1, <1>2, <1>3, <2>1, <2>2, <2>3, <2>4, HeadStep DEF Typed
<1>10. CASE StartUnsettled(g, j)
  <2>1. i = j /\ UNCHANGED active
    BY <1>3, <1>10 DEF StartUnsettled, Runnable
  <2>2. PICK pid \in BOOLEAN : Save(i, "running", pid)
    BY <1>10, <2>1 DEF StartUnsettled
  <2>3. /\ store' \in [JobIds -> Records] /\ store'[i].status = "running"
        /\ \A k \in JobIds : k # i => store'[k] = store[k]
    BY <1>1, <2>2, Saved DEF Statuses
  <2>4. /\ proc' \in [JobIds -> ProcStates] /\ handles' \in SUBSET JobIds
        /\ \A k \in JobIds : k # i => proc'[k] = proc[k]
    <3>1. \/ UNCHANGED <<handles, proc>>
          \/ handles' = handles \cup {j} /\ proc' = [proc EXCEPT ![j] = "alive"]
      BY <1>10 DEF StartUnsettled
    <3>2. CASE UNCHANGED <<handles, proc>>
      BY <1>1, <3>2 DEF Typed
    <3>3. CASE handles' = handles \cup {j} /\ proc' = [proc EXCEPT ![j] = "alive"]
      BY <1>1, <2>1, <3>3 DEF Typed, ProcStates
    <3> QED
      BY <3>1, <3>2, <3>3
  <2>5. faults' \in Nat /\ faults < faults' /\ faults <= faults'
    BY <1>1, <1>10, FaultsRaised DEF StartUnsettled
  <2> QED
    BY <1>1, <1>2, <1>3, <2>1, <2>3, <2>4, <2>5, HeadStep DEF Typed
<1> QED
  BY <1>5, <1>6, <1>7, <1>8, <1>9, <1>10

\* The worker sees the exit of its job, or an exception takes it from the job.
LEMMA FinishStep ==
    ASSUME Inv, NEW g \in Gpus, FinishJob(g) \/ TailBreaks(g) \/ FinishUnsettled(g)
    PROVE  Inv'
<1>1. Typed
  BY DEF Inv
<1>2. PICK j \in JobIds : j = active[g]
  BY <1>1 DEF FinishJob, TailBreaks, FinishUnsettled, Typed
<1>3. /\ up /\ j # Idle /\ proc[j] # "none" /\ active' = [active EXCEPT ![g] = Idle]
      /\ UNCHANGED <<gpu, number, queue, proc, up, restarts>>
  BY <1>2 DEF FinishJob, TailBreaks, FinishUnsettled, Inv, ActiveHaveNoOutcome
<1>4. /\ store' \in [JobIds -> Records] /\ store'[j].status # "unused"
      /\ handles' \in SUBSET JobIds /\ faults' \in Nat /\ faults <= faults'
      /\ \A i \in JobIds : i # j => store'[i] = store[i]
      /\ \/ faults < faults'
         \/ store'[j].status \in {"done", "failed"} /\ proc[j] \notin Living
  <2>1. CASE FinishJob(g)
    <3>1. Outcome(j) \in {"done", "failed"}
      BY Zenon DEF Outcome
    <3>2. /\ store' \in [JobIds -> Records] /\ store'[j].status = Outcome(j)
          /\ \A i \in JobIds : i # j => store'[i] = store[i]
      BY <1>1, <1>2, <2>1, <3>1, Saved DEF FinishJob, Settle, Statuses
    <3> QED
      BY <1>1, <1>2, <2>1, <3>1, <3>2 DEF FinishJob, Settle, Typed, Living
  <2>2. CASE TailBreaks(g)
    <3>1. /\ store' \in [JobIds -> Records] /\ store'[j].status = "failed"
          /\ \A i \in JobIds : i # j => store'[i] = store[i]
      BY <1>1, <1>2, <2>2, Saved DEF TailBreaks, Settle, Statuses
    <3> QED
      BY <1>1, <2>2, <3>1 DEF TailBreaks, Settle, Raised, Typed
  <2>3. CASE FinishUnsettled(g)
    <3>1. store[j].status # "unused"
      BY <1>2, <1>3 DEF Inv, ActiveHaveNoOutcome
    <3> QED
      BY <1>1, <2>3, <3>1 DEF FinishUnsettled, Raised, Typed
  <2> QED
    BY <2>1, <2>2, <2>3
<1>5. gpu[j] = g /\ store[j].status # "unused"
  BY <1>2, <1>3 DEF Inv, ActiveHaveNoOutcome
<1>6. /\ active' \in [Gpus -> JobIds \cup {Idle}] /\ active'[g] = Idle
      /\ \A h \in Gpus : h # g => active'[h] = active[h]
  BY <1>1, <1>3 DEF Typed
<1>7. Typed' /\ NumbersInTurn' /\ DownIsEmpty' /\ QueuesInOrder' /\ StartedInOrder'
  BY <1>1, <1>3, <1>4, <1>6
  DEF Inv, Typed, NumbersInTurn, Submitted, DownIsEmpty, QueuesInOrder, StartedInOrder
<1>8. QueuedAreNew'
  <2> SUFFICES ASSUME NEW h \in Gpus, NEW x \in 1 .. Len(queue[h])
               PROVE  /\ gpu[queue[h][x]] = h
                      /\ store'[queue[h][x]].status \in {"queued", "deleted"}
                      /\ proc[queue[h][x]] = "none"
    BY <1>3 DEF QueuedAreNew
  <2>1. queue[h][x] \in JobIds
    BY <1>1, ElementOfSeq DEF Typed
  <2>2. /\ gpu[queue[h][x]] = h
        /\ store[queue[h][x]].status \in {"queued", "deleted"}
        /\ proc[queue[h][x]] = "none"
    BY DEF Inv, QueuedAreNew
  <2> QED
    BY <1>3, <1>4, <2>1, <2>2
<1>9. ActiveHaveNoOutcome'
  <2> SUFFICES ASSUME NEW h \in Gpus, active'[h] # Idle
               PROVE  /\ gpu[active'[h]] = h
                      /\ proc[active'[h]] # "none"
                      /\ store'[active'[h]].status \in {"running", "cancelled", "deleted"}
    BY <1>3 DEF ActiveHaveNoOutcome
  <2>1. h # g /\ active'[h] = active[h] /\ active[h] \in JobIds
    BY <1>1, <1>6 DEF Typed
  <2>2. /\ gpu[active[h]] = h /\ proc[active[h]] # "none"
        /\ store[active[h]].status \in {"running", "cancelled", "deleted"}
    BY <2>1 DEF Inv, ActiveHaveNoOutcome
  <2> QED
    BY <1>4, <1>5, <2>1, <2>2
<1>10. UnusedAreUntouched'
  BY <1>3, <1>4, <1>5 DEF Inv, UnusedAreUntouched
<1>11. \A i \in JobIds : i # j /\ active[gpu[i]] = i => active'[gpu[i]] = i
  BY <1>1, <1>2, <1>6 DEF Typed
<1>12. ProcessesAccountedFor'
  <2>1. \A i \in JobIds : i # j /\ i \in Unwatched' => i \in Unwatched
    BY <1>3, <1>11 DEF Unwatched
  <2>2. j \in Unwatched' => faults < faults'
    BY <1>3, <1>4 DEF Unwatched
  <2> QED
    BY <1>3, <1>4, <2>1, <2>2, ProcessesCounted
<1>13. RecordsAccountedFor'
  <2>1. \A i \in JobIds : i # j /\ i \in Astray' => i \in Astray
    BY <1>3, <1>4, <1>11 DEF Astray, RunsAlone, QueuedNowhere, Waiting
  <2>2. j \in Astray' => faults < faults'
    BY <1>4 DEF Astray, RunsAlone, QueuedNowhere
  <2> QED
    BY <1>3, <1>4, <2>1, <2>2, RecordsCounted
<1> QED
  BY <1>7, <1>8, <1>9, <1>10, <1>12, <1>13 DEF Inv

\* A kill empties the memory; the record of a job may be half way to its start.
LEMMA KillSteps ==
    ASSUME Inv, KillServer \/ \E g \in Gpus, j \in JobIds : KillStarting(g, j)
    PROVE  Inv'
<1>1. Typed
  BY DEF Inv
<1>2. /\ queue' = [g \in Gpus |-> << >>] /\ active' = [g \in Gpus |-> Idle]
      /\ up' = FALSE /\ restarts' \in Nat /\ restarts' > 0 /\ handles' = {}
      /\ UNCHANGED <<gpu, number, faults>>
  <2>1. LoseMemory /\ UNCHANGED <<gpu, number, faults>>
    BY DEF KillServer, KillStarting
  <2> QED
    BY <1>1, <2>1 DEF LoseMemory, Typed
<1>3. /\ store' \in [JobIds -> Records] /\ proc' \in [JobIds -> ProcStates]
      /\ UnusedAreUntouched'
  <2>1. CASE KillServer
    BY <1>1, <2>1 DEF KillServer, Inv, UnusedAreUntouched, Typed
  <2>2. ASSUME NEW g \in Gpus, NEW j \in JobIds, KillStarting(g, j)
        PROVE  /\ store' \in [JobIds -> Records] /\ proc' \in [JobIds -> ProcStates]
               /\ UnusedAreUntouched'
    <3>1. j = queue[g][1] /\ 1 \in 1 .. Len(queue[g])
      <4>1. queue[g] \in Seq(JobIds) /\ queue[g] # << >> /\ j = Head(queue[g])
        BY <1>1, <2>2 DEF Typed, KillStarting, Runnable
      <4>2. Len(queue[g]) \in Nat \ {0}
        BY <4>1, EmptySeq
      <4> QED
        BY <4>1, <4>2
    <3>2. store[j].status # "unused"
      BY <3>1 DEF Inv, QueuedAreNew
    <3>3. /\ store' \in [JobIds -> Records] /\ store'[j].status = "running"
          /\ \A i \in JobIds : i # j => store'[i] = store[i]
      BY <1>1, <2>2, Saved DEF KillStarting, Statuses
    <3>4. /\ proc' \in [JobIds -> ProcStates]
          /\ \A i \in JobIds : i # j => proc'[i] = proc[i]
      BY <1>1, <2>2 DEF KillStarting, Typed, ProcStates
    <3> QED
      BY <1>2, <3>2, <3>3, <3>4 DEF Inv, UnusedAreUntouched
  <2> QED
    BY <2>1, <2>2
<1>4. \A g \in Gpus : queue'[g] = << >> /\ Len(queue'[g]) = 0 /\ active'[g] = Idle
  BY <1>2, EmptySeq
<1>5. Typed'
  <2>1. << >> \in Seq(JobIds)
    BY EmptySeq
  <2> QED
    BY <1>1, <1>2, <1>3, <2>1 DEF Typed
<1>6. QueuesInOrder' /\ QueuedAreNew' /\ StartedInOrder'
  BY <1>4, <1>5 DEF QueuesInOrder, QueuedAreNew, StartedInOrder, Typed
<1> QED
  BY <1>2, <1>3, <1>4, <1>5, <1>6
  DEF Inv, ActiveHaveNoOutcome, NumbersInTurn, Submitted, DownIsEmpty, ProcessesAccountedFor,
      RecordsAccountedFor

\* The startup gives up the records that nobody attends to, or all but the one it
\* cannot read, or some of them and ends.
LEMMA StartServerStep ==
    ASSUME Inv, StartServer \/ StartServerFaulty
    PROVE  Inv'
<1>1. /\ Typed /\ restarts > 0
      /\ \A g \in Gpus : queue[g] = << >> /\ Len(queue[g]) = 0 /\ active[g] = Idle
  BY EmptySeq DEF Inv, StartServer, StartServerFaulty, DownIsEmpty
<1>2. UNCHANGED <<gpu, number, queue, active, handles, proc, restarts>>
  BY DEF StartServer, StartServerFaulty
<1>3. ASSUME NEW j \in JobIds
      PROVE  /\ Reclassified(j) \in Records
             /\ Reclassified(j).status = "unused" <=> store[j].status = "unused"
             /\ Reclassified(j).status = "running" => Reclassified(j).pid
  <2>1. store[j] \in Records
    BY <1>1 DEF Typed
  <2> QED
    BY <2>1 DEF Reclassified, Records, Statuses
<1>4. /\ store' = [j \in JobIds |-> store'[j]]
      /\ \A j \in JobIds : store'[j] = store[j] \/ store'[j] = Reclassified(j)
  BY DEF StartServer, StartServerFaulty
<1>5. /\ up' \in BOOLEAN /\ faults' \in Nat
      /\ ~up' \/ (\A j \in JobIds : store'[j] = Reclassified(j))
              \/ /\ 1 <= faults'
                 /\ \E i \in JobIds : \A j \in JobIds : j # i => store'[j] = Reclassified(j)
  <2>1. CASE StartServer
    BY <1>1, <2>1 DEF StartServer, Typed
  <2>2. CASE StartServerFaulty
    <3>1. faults' \in Nat /\ 1 <= faults'
      BY <1>1, <2>2, FaultsRaised DEF StartServerFaulty
    <3>2. CASE UNCHANGED up
      <4>1. ~up'
        BY <2>2, <3>2, Zenon DEF StartServerFaulty
      <4>2. up' \in BOOLEAN
        BY <1>1, <3>2, Zenon DEF Typed
      <4> QED
        BY <3>1, <4>1, <4>2
    <3>3. ASSUME up' = TRUE, NEW i \in JobIds,
                 store' = [k \in JobIds |-> IF k = i THEN store[k] ELSE Reclassified(k)]
          PROVE  \A k \in JobIds : k # i => store'[k] = Reclassified(k)
      BY <3>3
    <3> QED
      BY <1>1, <2>2, <3>1, <3>2, <3>3 DEF StartServerFaulty, Typed
  <2> QED
    BY <2>1, <2>2
<1>6. Typed'
  <2>1. \A j \in JobIds : store'[j] \in Records
    BY <1>1, <1>3, <1>4 DEF Typed
  <2>2. store' \in [JobIds -> Records]
    BY <1>4, <2>1
  <2> QED
    BY <1>1, <1>2, <1>5, <2>2 DEF Typed
<1>7. QueuesInOrder' /\ QueuedAreNew' /\ StartedInOrder'
  BY <1>1, <1>2, <1>6 DEF QueuesInOrder, QueuedAreNew, StartedInOrder, Typed
<1>8. UnusedAreUntouched'
  BY <1>2, <1>3, <1>4 DEF Inv, UnusedAreUntouched
<1>9. RecordsAccountedFor'
  <2>1. ASSUME NEW j \in JobIds, store'[j] = Reclassified(j)
        PROVE  j \notin Astray'
    BY <1>1, <1>2, <1>3, <2>1 DEF Astray, RunsAlone, QueuedNowhere
  <2>2. CASE ~up'
    BY <2>2 DEF RecordsAccountedFor
  <2>3. CASE \A j \in JobIds : store'[j] = Reclassified(j)
    <3>1. Astray' = {}
      BY <2>1, <2>3 DEF Astray
    <3> QED
      BY <1>5, <3>1, FS_EmptySet DEF RecordsAccountedFor
  <2>4. ASSUME 1 <= faults', NEW i \in JobIds,
               \A j \in JobIds : j # i => store'[j] = Reclassified(j)
        PROVE  RecordsAccountedFor'
    <3>1. Astray' \subseteq {} \cup {i}
      BY <2>1, <2>4 DEF Astray
    <3>2. IsFiniteSet({}) /\ Cardinality({}) <= 0
      BY FS_EmptySet
    <3> HIDE DEF Astray
    <3>3. IsFiniteSet(Astray') /\ Cardinality(Astray') <= faults'
      BY <1>5, <2>4, <3>1, <3>2, OneMore
    <3> QED
      BY <3>3 DEF RecordsAccountedFor
  <2> QED
    BY <1>5, <2>2, <2>3, <2>4
<1> QED
  BY <1>1, <1>2, <1>6, <1>7, <1>8, <1>9
  DEF Inv, ActiveHaveNoOutcome, NumbersInTurn, Submitted, DownIsEmpty, ProcessesAccountedFor

\* The streams watch and change nothing.
LEMMA StreamSteps ==
    ASSUME Inv,
           UNCHANGED <<store, gpu, number, queue, active, handles, proc, up, restarts, faults>>
    PROVE  Inv'
  BY DEF Inv, Typed, QueuesInOrder, QueuedAreNew, ActiveHaveNoOutcome, UnusedAreUntouched,
         NumbersInTurn, Submitted, DownIsEmpty, ProcessesAccountedFor, Unwatched,
         RecordsAccountedFor, Astray, RunsAlone, QueuedNowhere, Waiting, StartedInOrder

\* Every step keeps the invariant.
LEMMA InvStep == ASSUME Inv, [Next]_vars PROVE Inv'
<1>1. CASE UNCHANGED vars
  BY <1>1, StreamSteps DEF vars
<1>2. CASE Next
  <2>1. ASSUME NEW j \in JobIds, NEW g \in 0 .. NumGpus, Submit(j, Assign(g))
        PROVE  Inv'
    BY <2>1, Assigned, SubmitStep DEF Inv
  <2>2. ASSUME NEW j \in JobIds, Submit(j, ShortestQueue)
        PROVE  Inv'
    BY <2>2, Assigned, SubmitStep DEF Inv
  <2>3. ASSUME NEW j \in JobIds, ProcExit(j) \/ CancelJob(j) \/ CancelBreaks(j) \/ DeleteJob(j)
        PROVE  Inv'
    BY <2>3, GpuNumbers, RecordSteps
  <2>4. ASSUME NEW g \in Gpus, SaveProgress(g)
        PROVE  Inv'
    <3>1. active[g] \in JobIds
      BY <2>4 DEF SaveProgress, Inv, Typed
    <3> QED
      BY <2>4, <3>1, RecordSteps
  <2>5. ASSUME NEW g \in Gpus, WorkerStep(g)
        PROVE  Inv'
    <3>1. CASE SkipJob(g)
      <4>1. Head(queue[g]) \in JobIds
        BY <3>1, HeadTailProperties DEF SkipJob, Inv, Typed
      <4> QED
        BY <3>1, <4>1, HeadSteps
    <3>2. CASE \E j \in JobIds : StartJob(g, j) \/ StartFails(g, j)
      BY <3>2, HeadSteps
    <3>3. CASE FinishJob(g)
      BY <3>3, FinishStep
    <3> QED
      BY <2>5, <3>1, <3>2, <3>3 DEF WorkerStep
  <2>6. CASE \/ \E j \in JobIds, k \in Streams : OpenStream(k, j)
             \/ \E k \in Streams : StartStream(k) \/ LeaveStream(k)
    <3>1. UNCHANGED <<store, gpu, number, queue, active, handles, proc, up, restarts, faults>>
      BY <2>6 DEF OpenStream, StartStream, LeaveStream
    <3> QED
      BY <3>1, StreamSteps
  <2>7. CASE KillServer \/ \E g \in Gpus, j \in JobIds : KillStarting(g, j)
    BY <2>7, KillSteps
  <2>8. CASE StartServer \/ StartServerFaulty
    BY <2>8, StartServerStep
  <2>9. ASSUME NEW g \in Gpus, TailBreaks(g) \/ FinishUnsettled(g)
        PROVE  Inv'
    BY <2>9, FinishStep
  <2>10. ASSUME NEW g \in Gpus, NEW j \in JobIds,
                LoseStart(g, j) \/ StartBreaks(g, j) \/ StartUnsettled(g, j)
         PROVE  Inv'
    BY <2>10, HeadSteps
  <2> QED
    BY <1>2, <2>1, <2>2, <2>3, <2>4, <2>5, <2>6, <2>7, <2>8, <2>9, <2>10 DEF Next
<1> QED
  BY <1>1, <1>2

\* The invariant holds in every state of every life of the server.
THEOREM Invariance == Spec => []Inv
  BY InvInit, InvStep, PTL DEF Spec

\* Until the server is killed every annotate process, a cancelled one included, is
\* the one that the worker of its GPU tails, but for one at most per exception, for
\* any number of GPUs, jobs and exceptions.
THEOREM GpusAreExclusive == Spec => []OneProcessPerGpu
<1>1. Inv => OneProcessPerGpu
  BY DEF Inv, ProcessesAccountedFor, OneProcessPerGpu
<1> QED
  BY <1>1, Invariance, PTL

\* Every record that says running or queued has somebody who attends to it, but for
\* one at most per exception.
THEOREM AttendedTo == Spec => []RecordsAreAttended
<1>1. ASSUME Inv
      PROVE  RecordsAreAttended
  <2>1. ASSUME NEW j \in JobIds, Waiting(j, gpu[j])
        PROVE  Cardinality({i \in DOMAIN queue[gpu[j]] : queue[gpu[j]][i] = j}) = 1
    <3>1. gpu[j] \in Gpus /\ queue[gpu[j]] \in Seq(JobIds) /\ number[j] \in Nat
      BY <1>1 DEF Inv, Typed
    <3>2. DOMAIN queue[gpu[j]] = 1 .. Len(queue[gpu[j]]) /\ Len(queue[gpu[j]]) \in Nat
      BY <3>1, LenProperties
    <3>3. PICK x \in 1 .. Len(queue[gpu[j]]) : queue[gpu[j]][x] = j
      BY <2>1 DEF Waiting
    <3>4. ASSUME NEW y \in 1 .. Len(queue[gpu[j]]), queue[gpu[j]][y] = j
          PROVE  y = x
      <4>1. ~(x < y) /\ ~(y < x)
        BY <1>1, <3>1, <3>3, <3>4 DEF Inv, QueuesInOrder
      <4> QED
        BY <3>2, <4>1
    <3>5. {i \in DOMAIN queue[gpu[j]] : queue[gpu[j]][i] = j} = {x}
      BY <3>2, <3>3, <3>4
    <3> QED
      BY <3>5, FS_Singleton
  <2>2. Unattended \subseteq Astray
    BY <2>1 DEF Unattended, Astray, RunsAlone, QueuedNowhere
  <2>3. ASSUME up
        PROVE  Cardinality(Unattended) <= faults
    <3>1. IsFiniteSet(Astray) /\ Cardinality(Astray) <= faults /\ faults \in Nat
      BY <1>1, <2>3 DEF Inv, RecordsAccountedFor, Typed
    <3> QED
      BY <2>2, <3>1, OneMore
  <2> QED
    BY <2>3 DEF RecordsAreAttended
<1> QED
  BY <1>1, Invariance, PTL

\* The jobs of a GPU start in the order they were submitted, whatever is cancelled,
\* deleted or killed in between.
THEOREM SubmissionOrder == Spec => []FirstComeFirstServed
<1>1. Inv => FirstComeFirstServed
  <2> SUFFICES ASSUME Inv, NEW i \in JobIds, NEW j \in JobIds,
                      gpu[i] = gpu[j], number[i] < number[j], proc[j] # "none",
                      NEW x \in DOMAIN queue[gpu[i]], queue[gpu[i]][x] = i
               PROVE  FALSE
    BY DEF FirstComeFirstServed
  <2>1. queue[gpu[j]] \in Seq(JobIds) /\ number[i] \in Nat /\ number[j] \in Nat
    BY DEF Inv, Typed
  <2>2. x \in 1 .. Len(queue[gpu[j]])
    BY <2>1, LenProperties
  <2>3. number[j] < number[i]
    BY <2>2 DEF Inv, StartedInOrder
  <2> QED
    BY <2>1, <2>3
<1> QED
  BY <1>1, Invariance, PTL

\* The outcome of a job is never rewritten: its worker has let go of it, and neither a
\* later cancellation nor the startup after a kill takes it up again.
THEOREM OutcomesAreFinal == Spec => OutcomeIsFinal
<1>1. ASSUME Inv, [Next]_vars, NEW j \in JobIds, store[j].status \in {"done", "failed"}
      PROVE  store'[j].status \in {store[j].status, "deleted"}
  <2>1. Typed
    BY <1>1 DEF Inv
  <2>2. CASE UNCHANGED store
    BY <1>1, <2>2
  <2>3. ASSUME NEW i \in JobIds, NEW status \in Statuses, NEW pid \in BOOLEAN,
               Save(i, status, pid), i # j \/ status = "deleted"
        PROVE  store'[j].status \in {store[j].status, "deleted"}
    BY <2>1, <2>3, Saved
  <2>4. ASSUME NEW g \in Gpus, queue[g] # << >>
        PROVE  Head(queue[g]) \in JobIds /\ Head(queue[g]) # j
    <3>1. queue[g] \in Seq(JobIds) /\ Len(queue[g]) \in Nat \ {0}
      BY <2>1, <2>4, EmptySeq DEF Typed
    <3>2. Head(queue[g]) = queue[g][1] /\ 1 \in 1 .. Len(queue[g])
      BY <3>1
    <3>3. queue[g][1] \in JobIds /\ store[queue[g][1]].status \in {"queued", "deleted"}
      BY <1>1, <3>1, <3>2, ElementOfSeq DEF Inv, QueuedAreNew
    <3> QED
      BY <1>1, <3>2, <3>3
  <2>5. ASSUME NEW g \in Gpus, active[g] # Idle
        PROVE  active[g] \in JobIds /\ active[g] # j
    BY <1>1, <2>1, <2>5, ZenonT(30) DEF Typed, Inv, ActiveHaveNoOutcome
  <2>6. CASE \E i \in JobIds, g \in Gpus : Submit(i, g)
    BY <1>1, <2>3, <2>6 DEF Submit, Statuses
  <2>7. CASE \E i \in JobIds : CancelJob(i) \/ DeleteJob(i)
    <3>1. ASSUME NEW i \in JobIds, CancelJob(i)
          PROVE  store'[j].status \in {store[j].status, "deleted"}
      <4>1. store[i].pid \in BOOLEAN /\ i # j
        BY <1>1, <2>1, <3>1 DEF CancelJob, Typed, Records
      <4> QED
        BY <2>3, <3>1, <4>1 DEF CancelJob, Statuses
    <3>2. ASSUME NEW i \in JobIds, DeleteJob(i)
          PROVE  store'[j].status \in {store[j].status, "deleted"}
      BY <2>3, <3>2 DEF DeleteJob, Statuses
    <3> QED
      BY <2>7, <3>1, <3>2
  <2>8. CASE \E g \in Gpus, i \in JobIds :
                \/ StartJob(g, i) \/ StartFails(g, i) \/ KillStarting(g, i)
                \/ StartBreaks(g, i) \/ StartUnsettled(g, i)
    BY <2>3, <2>4, <2>8, ZenonT(30)
    DEF StartJob, StartFails, KillStarting, StartBreaks, StartUnsettled, Settle, Runnable, Statuses
  <2>9. CASE \E g \in Gpus : SaveProgress(g) \/ FinishJob(g) \/ TailBreaks(g)
    <3>1. ASSUME NEW g \in Gpus, SaveProgress(g)
          PROVE  store'[j].status \in {store[j].status, "deleted"}
      BY <2>3, <2>5, <3>1 DEF SaveProgress, Statuses
    <3>2. ASSUME NEW g \in Gpus, FinishJob(g)
          PROVE  store'[j].status \in {store[j].status, "deleted"}
      <4>1. Outcome(active[g]) \in Statuses
        BY Zenon DEF Outcome, Statuses
      <4> QED
        BY <2>3, <2>5, <3>2, <4>1 DEF FinishJob, Settle
    <3>3. ASSUME NEW g \in Gpus, TailBreaks(g)
          PROVE  store'[j].status \in {store[j].status, "deleted"}
      BY <2>3, <2>5, <3>3 DEF TailBreaks, Settle, Statuses
    <3> QED
      BY <2>9, <3>1, <3>2, <3>3
  <2>10. CASE StartServer \/ StartServerFaulty
    <3>1. Reclassified(j) = store[j]
      BY <1>1 DEF Reclassified
    <3>2. store'[j] \in {store[j], Reclassified(j)}
      BY <2>10 DEF StartServer, StartServerFaulty
    <3> QED
      BY <3>1, <3>2
  <2> QED
    <3>1. \/ UNCHANGED store
          \/ \E i \in JobIds, g \in Gpus : Submit(i, g)
          \/ \E i \in JobIds : CancelJob(i) \/ DeleteJob(i)
          \/ \E g \in Gpus, i \in JobIds :
                \/ StartJob(g, i) \/ StartFails(g, i) \/ KillStarting(g, i)
                \/ StartBreaks(g, i) \/ StartUnsettled(g, i)
          \/ \E g \in Gpus : SaveProgress(g) \/ FinishJob(g) \/ TailBreaks(g)
          \/ StartServer \/ StartServerFaulty
      <4>1. CASE UNCHANGED vars
        BY <4>1 DEF vars
      <4>2. CASE Next
        BY <2>1, <4>2, Assigned
        DEF Next, WorkerStep, SkipJob, LoseStart, FinishUnsettled, CancelBreaks, ProcExit,
            OpenStream, StartStream, LeaveStream, KillServer
      <4> QED
        BY <1>1, <4>1, <4>2
    <3> QED
      BY <2>2, <2>6, <2>7, <2>8, <2>9, <2>10, <3>1
<1>2. ASSUME Inv, [Next]_vars
      PROVE  [\A j \in JobIds : store[j].status \in {"done", "failed"} =>
                 store'[j].status \in {store[j].status, "deleted"}]_vars
  BY <1>1, <1>2
<1> QED
  BY <1>2, Invariance, PTL DEF Spec, OutcomeIsFinal
=============================================================================
