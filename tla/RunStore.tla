------------------------------ MODULE RunStore ------------------------------
(***************************************************************************)
(* The run store of MimicAnno: the directory runs/, which annotate         *)
(* processes fill (publish.py, scavenger.py, rundir.py, runindex.py) and   *)
(* the review server's PATCH handlers edit in place (server/*_repo.py,     *)
(* server/write_txn.py).  They share no memory: everything they know of    *)
(* each other is on disk, and only runs/index.json.lock (locks.py) orders  *)
(* them.                                                                   *)
(*                                                                         *)
(* One episode is modelled; names, index rows and hashes of different      *)
(* episodes never meet.  A SHA-256 is modelled by what is hashed, so two   *)
(* hashes are equal only when their inputs are.                            *)
(***************************************************************************)
EXTENDS Naturals, Sequences

CONSTANTS
    Requests,       \* what can be annotated: one (config, input) pair each
    Names,          \* canonical run names
    ShortName,      \* request -> name with the 12-digit hash suffix
    LongName,       \* request -> name with the 16-digit collision suffix
    Annotators,     \* process ids that annotate processes run under
    Editors,        \* review clients, each with at most one PATCH in flight
    Segments,       \* segments of the annotation
    Values,         \* what an edit can set on a segment
    FirstValue,     \* what the pipeline labels every segment with
    Edits,          \* the PATCH bodies
    MaxEdits,       \* bound: edits on top of one published run
    MaxStarts,      \* bound: publications begun, over all process ids
    MaxCrashes,     \* bound: kills of an annotate process or of the server
    MaxFaults,      \* bound: exceptions raised while index.json.lock is held
    Absent,         \* no run directory under this name
    NoDir,          \* no such tmp/bak directory
    NoWriter,       \* the directory holds no .writer.json
    Free            \* nobody holds index.json.lock

ASSUME NamesAssumption ==
    /\ ShortName \in [Requests -> Names]
    /\ LongName \in [Requests -> Names]
    /\ Requests # {} /\ Names # {}

ASSUME EditsAssumption ==
    /\ Edits \subseteq [seg : Segments, val : Values, checked : BOOLEAN]
    /\ Edits # {}
    /\ FirstValue \in Values

ASSUME BoundsAssumption ==
    /\ MaxEdits \in Nat
    /\ MaxStarts \in Nat
    /\ MaxCrashes \in Nat
    /\ MaxFaults \in Nat

ASSUME DistinctAssumption ==
    /\ Annotators \cap Editors = {}
    /\ Free \notin Annotators \cup Editors

(***************************************************************************)
(* Versions.  run_hash of a published run is derived from the request      *)
(* alone; every PATCH hashes the hash it read together with its body.      *)
(***************************************************************************)
Hash == [req : Requests, edits : Seq(Edits)]
AutoHash(r) == [req |-> r, edits |-> << >>]
DeriveHash(h, e) == [req |-> h.req, edits |-> Append(h.edits, e)]

Annotation == [hash : Hash, labels : [Segments -> Values], history : Seq(Edits)]

\* A run directory: run_hash in manifest.json, and annotation.json.
Run == [man : Hash, ann : Annotation]

\* Mutant: the annotation is published before any segment is in it.
FreshRunWithoutSegments(r) ==
    [man |-> AutoHash(r),
     ann |-> [hash |-> AutoHash(r), labels |-> << >>, history |-> << >>]]

FreshRun(r) ==
    [man |-> AutoHash(r),
     ann |-> [hash |-> AutoHash(r),
              labels |-> [s \in Segments |-> FirstValue],
              history |-> << >>]]

\* Mutant: the audit event is not appended.
EditAnnotationUnlogged(a, e, h) ==
    [hash |-> h,
     labels |-> [a.labels EXCEPT ![e.seg] = e.val],
     history |-> a.history]

\* The PATCH handlers' mutation: set the value, append the audit event, stamp.
EditAnnotation(a, e, h) ==
    [hash |-> h,
     labels |-> [a.labels EXCEPT ![e.seg] = e.val],
     history |-> Append(a.history, e)]

\* reviewed, labels and boundary refuse an edit that changes nothing;
\* a relabel (checked = FALSE) does not look.
NoChange(a, e) == e.checked /\ a.labels[e.seg] = e.val

VARIABLES
    runs,       \* runs[n]: the published directory runs/n
    tmps,       \* tmps[n][p]: runs/n.tmp.p
    baks,       \* baks[n][p]: runs/n.bak.p
    index,      \* rows of index.json (their order by generated_at is left out)
    lock,       \* holder of index.json.lock
    pub,        \* pub[p]: the annotate process running under process id p
    ed,         \* ed[c]: the review client c and the handler of its PATCH
    clock,      \* publications begun so far: the start time of the next process
    crashes,    \* kills so far
    faults      \* exceptions under index.json.lock so far

vars == <<runs, tmps, baks, index, lock, pub, ed, clock, crashes, faults>>

\* old: at least stale_age_sec (24 h) old, by claimed_at or by mtime.
\* writer: the start time recorded in .writer.json.
SideDir == [run : Run \cup {Absent}, writer : Nat \cup {NoWriter}, old : BOOLEAN]

Row == [hash : Hash, name : Names]

ASSUME SentinelAssumption ==
    /\ Absent \notin Run \cup Hash
    /\ NoDir \notin SideDir
    /\ NoWriter \notin Nat

PubSteps == {"none", "resolve", "check", "mktmp", "claim", "artifacts",
             "acquire", "scavenge", "recheck", "heal", "bake", "backup",
             "bakmeta", "install", "upsert", "cleanup"}
\* The steps publish() takes while it holds the lock.
PubLocked == {"scavenge", "recheck", "heal", "bake", "backup", "bakmeta",
              "install", "upsert", "cleanup"}

EdSteps == {"idle", "submitted", "writeAnn", "writeMan", "writeIdx"}
EdLocked == {"writeAnn", "writeMan", "writeIdx"}

NewPub == [pc |-> "none", req |-> CHOOSE r \in Requests : TRUE, force |-> FALSE,
           name |-> CHOOSE n \in Names : TRUE, bak |-> FALSE, start |-> 0]

\* seen: the version the client holds (If-Match).  ann: what is being written.
NewEd == [pc |-> "idle", name |-> CHOOSE n \in Names : TRUE, seen |-> Absent,
             op |-> CHOOSE e \in Edits : TRUE,
             ann |-> FreshRun(CHOOSE r \in Requests : TRUE).ann]

Init ==
    /\ runs = [n \in Names |-> Absent]
    /\ tmps = [n \in Names |-> [p \in Annotators |-> NoDir]]
    /\ baks = [n \in Names |-> [p \in Annotators |-> NoDir]]
    /\ index = {}
    /\ lock = Free
    /\ pub = [p \in Annotators |-> NewPub]
    /\ ed = [c \in Editors |-> NewEd]
    /\ clock = 0
    /\ crashes = 0
    /\ faults = 0

-----------------------------------------------------------------------------
(***************************************************************************)
(* publish()                                                               *)
(***************************************************************************)
\* _existing_run_hash: the hash in a directory's manifest.
ExistingHash(dir) == IF dir = Absent THEN Absent ELSE dir.man

\* is_collision: the name is taken by a run with another hash.
IsCollision(n, r) == runs[n] # Absent /\ runs[n].man # AutoHash(r)

At(p, step) == pub[p].pc = step
Goto(p, step) == pub' = [pub EXCEPT ![p].pc = step]
\* The process ends; of what it knew only its start time is remembered, by the
\* .writer.json it may leave.
Exit(p) == pub' = [pub EXCEPT ![p] = [NewPub EXCEPT !.start = pub[p].start]]
TmpOf(p) == tmps[pub[p].name][p]
BakOf(p) == baks[pub[p].name][p]
SetTmp(p, d) == tmps' = [tmps EXCEPT ![pub[p].name][p] = d]
SetBak(p, d) == baks' = [baks EXCEPT ![pub[p].name][p] = d]

\* upsert_row, called with the hash the publisher computed: the row of that
\* hash is replaced, wherever it pointed.
UpsertRow(h, n) ==
    index' = {row \in index : row.hash # h} \cup {[hash |-> h, name |-> n]}

\* A new process with id p (possibly the id of a dead one) starts to publish r.
Start(p, r, force) ==
    /\ At(p, "none")
    /\ clock < MaxStarts
    /\ clock' = clock + 1
    /\ pub' = [pub EXCEPT ![p] = [@ EXCEPT !.pc = "resolve", !.req = r,
                                           !.force = force, !.bak = FALSE,
                                           !.start = clock + 1]]
    /\ UNCHANGED <<runs, tmps, baks, index, lock, ed, crashes, faults>>

\* The canonical name, chosen by what is on disk now and kept to the end.
ResolveName(p) ==
    /\ At(p, "resolve")
    /\ LET r == pub[p].req
           n == IF IsCollision(ShortName[r], r) THEN LongName[r] ELSE ShortName[r]
       IN  pub' = [pub EXCEPT ![p].name = n, ![p].pc = "check"]
    /\ UNCHANGED <<runs, tmps, baks, index, lock, ed, clock, crashes, faults>>

Reusable(p) ==
    /\ ~pub[p].force
    /\ ExistingHash(runs[pub[p].name]) = AutoHash(pub[p].req)

\* Lock-free reuse (REUSED_LOCK_FREE), or on to the computation.
CheckReuse(p) ==
    /\ At(p, "check")
    /\ IF Reusable(p) THEN Exit(p) ELSE Goto(p, "mktmp")
    /\ UNCHANGED <<runs, tmps, baks, index, lock, ed, clock, crashes, faults>>

\* mkdir(exist_ok=True): a directory left by a dead process of the same id
\* is taken over with its content, its .writer.json and its age.
MakeTmp(p) ==
    /\ At(p, "mktmp")
    /\ SetTmp(p, IF TmpOf(p) = NoDir
                 THEN [run |-> Absent, writer |-> NoWriter, old |-> FALSE]
                 ELSE TmpOf(p))
    /\ Goto(p, "claim")
    /\ UNCHANGED <<runs, baks, index, lock, ed, clock, crashes, faults>>

\* write_writer_metadata.  It raises when the directory has been removed since
\* (this is before the try block, so nothing is cleaned up).
ClaimTmp(p) ==
    /\ At(p, "claim")
    /\ \/ /\ TmpOf(p) = NoDir
          /\ Exit(p)
          /\ UNCHANGED tmps
       \/ /\ TmpOf(p) # NoDir
          /\ SetTmp(p, [TmpOf(p) EXCEPT !.writer = pub[p].start, !.old = FALSE])
          /\ Goto(p, "artifacts")
    /\ UNCHANGED <<runs, baks, index, lock, ed, clock, crashes, faults>>

\* write_artifacts: hours of computation, outside the lock.
WriteArtifacts(p) ==
    /\ At(p, "artifacts")
    /\ SetTmp(p, [TmpOf(p) EXCEPT !.run = FreshRun(pub[p].req)])
    /\ Goto(p, "acquire")
    /\ UNCHANGED <<runs, baks, index, lock, ed, clock, crashes, faults>>

\* The computation raises, or the lock is not had within 30 s: the except
\* clause removes the tmp directory and the process ends.
GiveUp(p) ==
    /\ At(p, "artifacts") \/ (At(p, "acquire") /\ lock # Free)
    /\ SetTmp(p, NoDir)
    /\ Exit(p)
    /\ UNCHANGED <<runs, baks, index, lock, ed, clock, crashes, faults>>

\* Mutant: publish without the lock.
AcquireNoLock(p) ==
    /\ At(p, "acquire")
    /\ Goto(p, "scavenge")
    /\ UNCHANGED <<runs, tmps, baks, index, lock, ed, clock, crashes, faults>>

AcquirePublishLock(p) ==
    /\ At(p, "acquire")
    /\ lock = Free
    /\ lock' = p
    /\ Goto(p, "scavenge")
    /\ UNCHANGED <<runs, tmps, baks, index, ed, clock, crashes, faults>>

\* is_pid_alive, and the start time recorded is that of the living process.
WriterAlive(d, q) == d.writer = pub[q].start /\ ~At(q, "none")
\* Mutant: a directory is stale by its age alone.
IsStaleByAge(d, q) == d # NoDir /\ d.old

IsStale(d, q) ==
    /\ d # NoDir
    /\ d.old
    /\ d.writer = NoWriter \/ ~WriterAlive(d, q)
SweepDirs(dirs) ==
    [n \in Names |-> [q \in Annotators |->
        IF IsStale(dirs[n][q], q) THEN NoDir ELSE dirs[n][q]]]

Scavenge(p) ==
    /\ At(p, "scavenge")
    /\ tmps' = SweepDirs(tmps)
    /\ baks' = SweepDirs(baks)
    /\ Goto(p, "recheck")
    /\ UNCHANGED <<runs, index, lock, ed, clock, crashes, faults>>

\* Reuse is checked again under the lock; the name is not resolved again.
RecheckReuse(p) ==
    /\ At(p, "recheck")
    /\ \/ /\ Reusable(p)
          /\ SetTmp(p, NoDir)
          /\ Goto(p, "heal")
       \/ /\ ~Reusable(p)
          /\ Goto(p, "bake")
          /\ UNCHANGED tmps
    /\ UNCHANGED <<runs, baks, index, lock, ed, clock, crashes, faults>>

\* _self_heal_index, then REUSED_LOCKED.
HealIndex(p) ==
    /\ At(p, "heal")
    /\ UpsertRow(AutoHash(pub[p].req), pub[p].name)
    /\ lock' = Free
    /\ Exit(p)
    /\ UNCHANGED <<runs, tmps, baks, ed, clock, crashes, faults>>

\* canonical_name goes into the manifest and .writer.json out of the directory.
BakeName(p) ==
    /\ At(p, "bake")
    /\ SetTmp(p, [TmpOf(p) EXCEPT !.writer = NoWriter, !.old = FALSE])
    /\ Goto(p, "backup")
    /\ UNCHANGED <<runs, baks, index, lock, ed, clock, crashes, faults>>

\* final -> bak.  The directory keeps its mtime, so it may look old at once.
BackupFinal(p) ==
    LET n == pub[p].name IN
    /\ At(p, "backup")
    /\ \/ /\ runs[n] = Absent
          /\ Goto(p, "install")
          /\ UNCHANGED <<runs, baks>>
       \/ /\ runs[n] # Absent
          /\ BakOf(p) = NoDir
          /\ \E aged \in BOOLEAN :
                SetBak(p, [run |-> runs[n], writer |-> NoWriter, old |-> aged])
          /\ runs' = [runs EXCEPT ![n] = Absent]
          /\ pub' = [pub EXCEPT ![p].pc = "bakmeta", ![p].bak = TRUE]
    /\ UNCHANGED <<tmps, index, lock, ed, clock, crashes, faults>>

\* rename() onto a bak directory that a dead process of the same id left: it
\* raises, the inner finally has nothing to do, the except clause removes tmp.
BackupRefused(p) ==
    /\ At(p, "backup")
    /\ runs[pub[p].name] # Absent
    /\ BakOf(p) # NoDir
    /\ SetTmp(p, NoDir)
    /\ lock' = Free
    /\ Exit(p)
    /\ UNCHANGED <<runs, baks, index, ed, clock, crashes, faults>>

ClaimBak(p) ==
    /\ At(p, "bakmeta")
    /\ SetBak(p, [BakOf(p) EXCEPT !.writer = pub[p].start, !.old = FALSE])
    /\ Goto(p, "install")
    /\ UNCHANGED <<runs, tmps, index, lock, ed, clock, crashes, faults>>

\* tmp -> final.
InstallFinal(p) ==
    /\ At(p, "install")
    /\ runs' = [runs EXCEPT ![pub[p].name] = TmpOf(p).run]
    /\ SetTmp(p, NoDir)
    /\ Goto(p, "upsert")
    /\ UNCHANGED <<baks, index, lock, ed, clock, crashes, faults>>

UpsertIndex(p) ==
    /\ At(p, "upsert")
    /\ UpsertRow(AutoHash(pub[p].req), pub[p].name)
    /\ Goto(p, "cleanup")
    /\ UNCHANGED <<runs, tmps, baks, lock, ed, clock, crashes, faults>>

\* The inner finally removes bak, the lock is released, PUBLISHED is returned.
RemoveBak(p) ==
    /\ At(p, "cleanup")
    /\ IF pub[p].bak THEN SetBak(p, NoDir) ELSE UNCHANGED baks
    /\ lock' = Free
    /\ Exit(p)
    /\ UNCHANGED <<runs, tmps, index, ed, clock, crashes, faults>>

\* An exception under the lock: the inner finally removes bak if this call made
\* it, the except clause removes tmp unless it was a KeyboardInterrupt, which
\* `except Exception` lets through.
Fault(p) ==
    /\ pub[p].pc \in PubLocked \ {"cleanup"}
    /\ faults < MaxFaults
    /\ faults' = faults + 1
    /\ \/ SetTmp(p, NoDir)
       \/ UNCHANGED tmps
    /\ IF pub[p].bak THEN SetBak(p, NoDir) ELSE UNCHANGED baks
    /\ lock' = Free
    /\ Exit(p)
    /\ UNCHANGED <<runs, index, ed, clock, crashes>>

\* The process is killed: the kernel releases its flock, nothing is cleaned up.
CrashAnnotator(p) ==
    /\ ~At(p, "none")
    /\ crashes < MaxCrashes
    /\ crashes' = crashes + 1
    /\ lock' = IF lock = p THEN Free ELSE lock
    /\ Exit(p)
    /\ UNCHANGED <<runs, tmps, baks, index, ed, clock, faults>>

\* A day goes by: every tmp and bak directory there is reaches stale_age_sec.
\* Of publish() only the computation can last that long.
AgeDirs(dirs) ==
    [n \in Names |-> [q \in Annotators |->
        IF dirs[n][q] = NoDir THEN NoDir ELSE [dirs[n][q] EXCEPT !.old = TRUE]]]
DayPasses ==
    /\ \A p \in Annotators : pub[p].pc \in {"none", "artifacts"}
    /\ tmps' = AgeDirs(tmps)
    /\ baks' = AgeDirs(baks)
    /\ UNCHANGED <<runs, index, lock, pub, ed, clock, crashes, faults>>

-----------------------------------------------------------------------------
(***************************************************************************)
(* The PATCH handlers.  apply_edit, patch_boundary, patch_reviewed and     *)
(* patch_labels are the same transaction around different mutations.  They *)
(* run in threads of one server process.                                   *)
(***************************************************************************)
EdAt(c, step) == ed[c].pc = step
EdGoto(c, step) == ed' = [ed EXCEPT ![c].pc = step]

\* GET manifest: the client learns the version (ETag) it will edit.
GetManifest(c, n) ==
    /\ EdAt(c, "idle")
    /\ runs[n] # Absent
    /\ ed' = [ed EXCEPT ![c].name = n, ![c].seen = runs[n].man]
    /\ UNCHANGED <<runs, tmps, baks, index, lock, pub, clock, crashes, faults>>

\* PATCH with If-Match: the version seen.  A client may send it again after an
\* answer it did not like or did not get.
SubmitEdit(c, e) ==
    /\ EdAt(c, "idle")
    /\ ed[c].seen # Absent
    /\ Len(ed[c].seen.edits) < MaxEdits
    /\ ed' = [ed EXCEPT ![c].pc = "submitted", ![c].op = e]
    /\ UNCHANGED <<runs, tmps, baks, index, lock, pub, clock, crashes, faults>>

\* LockTimeout after 30 s: 500.
EditLockTimeout(c) ==
    /\ EdAt(c, "submitted")
    /\ lock # Free
    /\ EdGoto(c, "idle")
    /\ UNCHANGED <<runs, tmps, baks, index, lock, pub, clock, crashes, faults>>

\* Mutant: If-Match is not compared again under the lock.
EditAdmissibleNoEtag(c) ==
    LET run == runs[ed[c].name] IN
    /\ run # Absent
    /\ ~NoChange(run.ann, ed[c].op)

\* With the lock: reread and validate.
EditAdmissible(c) ==
    LET run == runs[ed[c].name] IN
    /\ run # Absent                         \* else 404 run_not_found
    /\ run.man = ed[c].seen                 \* else 412 etag_mismatch
    /\ ~NoChange(run.ann, ed[c].op)         \* else 400 no_change / invalid_frame

\* Mutant: the handler waits for its precondition instead of answering 412.
RejectEditRetrying(c) ==
    /\ EdAt(c, "submitted")
    /\ lock = Free
    /\ ~EditAdmissible(c)
    /\ EdGoto(c, "submitted")
    /\ UNCHANGED <<runs, tmps, baks, index, lock, pub, clock, crashes, faults>>

\* The lock is taken and released again without a write.
RejectEdit(c) ==
    /\ EdAt(c, "submitted")
    /\ lock = Free
    /\ ~EditAdmissible(c)
    /\ EdGoto(c, "idle")
    /\ UNCHANGED <<runs, tmps, baks, index, lock, pub, clock, crashes, faults>>

\* Mutant: the transaction does not wait for the lock.
AcceptEditUnlocked(c) ==
    LET run == runs[ed[c].name]
        h == DeriveHash(run.man, ed[c].op)
    IN  /\ EdAt(c, "submitted")
        /\ EditAdmissible(c)
        /\ lock' = c
        /\ ed' = [ed EXCEPT ![c].pc = "writeAnn",
                            ![c].ann = EditAnnotation(run.ann, ed[c].op, h)]
        /\ UNCHANGED <<runs, tmps, baks, index, pub, clock, crashes, faults>>

\* Mutant: the new hash is derived from the annotation's.
AcceptEditOnAnnotation(c) ==
    LET run == runs[ed[c].name]
        h == DeriveHash(run.ann.hash, ed[c].op)
    IN  /\ EdAt(c, "submitted")
        /\ lock = Free
        /\ EditAdmissible(c)
        /\ lock' = c
        /\ ed' = [ed EXCEPT ![c].pc = "writeAnn",
                            ![c].ann = EditAnnotation(run.ann, ed[c].op, h)]
        /\ UNCHANGED <<runs, tmps, baks, index, pub, clock, crashes, faults>>

\* The lock is taken, the precondition holds, the new annotation is built from
\* the one on disk.
AcceptEdit(c) ==
    LET run == runs[ed[c].name]
        h == DeriveHash(run.man, ed[c].op)
    IN  /\ EdAt(c, "submitted")
        /\ lock = Free
        /\ EditAdmissible(c)
        /\ lock' = c
        /\ ed' = [ed EXCEPT ![c].pc = "writeAnn",
                            ![c].ann = EditAnnotation(run.ann, ed[c].op, h)]
        /\ UNCHANGED <<runs, tmps, baks, index, pub, clock, crashes, faults>>

\* write_run_atomically: annotation.json, then manifest.json, then index.json.
WriteAnnotation(c) ==
    /\ EdAt(c, "writeAnn")
    /\ runs' = [runs EXCEPT ![ed[c].name] = [@ EXCEPT !.ann = ed[c].ann]]
    /\ EdGoto(c, "writeMan")
    /\ UNCHANGED <<tmps, baks, index, lock, pub, clock, crashes, faults>>

WriteManifest(c) ==
    /\ EdAt(c, "writeMan")
    /\ runs' = [runs EXCEPT ![ed[c].name] = [@ EXCEPT !.man = ed[c].ann.hash]]
    /\ EdGoto(c, "writeIdx")
    /\ UNCHANGED <<tmps, baks, index, lock, pub, clock, crashes, faults>>

\* The row of the hash that was edited goes, the new row comes, the lock is
\* released and the client gets the new manifest with its ETag.
WriteIndex(c) ==
    /\ EdAt(c, "writeIdx")
    /\ index' = {row \in index : row.hash # ed[c].seen}
                    \cup {[hash |-> ed[c].ann.hash, name |-> ed[c].name]}
    /\ lock' = Free
    /\ ed' = [ed EXCEPT ![c] = [NewEd EXCEPT !.name = ed[c].name,
                                             !.seen = ed[c].ann.hash]]
    /\ UNCHANGED <<runs, tmps, baks, pub, clock, crashes, faults>>

\* An exception under the lock (a file that cannot be read or written, a full
\* disk), also between two of the three writes: the lock is released, what was
\* written stays, the answer is a 500 and the client keeps the version it holds.
EditFails(c) ==
    /\ (EdAt(c, "submitted") /\ lock = Free) \/ ed[c].pc \in EdLocked
    /\ faults < MaxFaults
    /\ faults' = faults + 1
    /\ lock' = Free
    /\ ed' = [ed EXCEPT ![c] = [NewEd EXCEPT !.name = ed[c].name,
                                             !.seen = ed[c].seen]]
    /\ UNCHANGED <<runs, tmps, baks, index, pub, clock, crashes>>

\* The server is killed: every handler with it, and its lock.  The clients keep
\* the version they hold, and can send the same PATCH again.
CrashServer ==
    /\ crashes < MaxCrashes
    /\ \E c \in Editors : ~EdAt(c, "idle")
    /\ crashes' = crashes + 1
    /\ lock' = IF lock \in Editors THEN Free ELSE lock
    /\ ed' = [c \in Editors |-> [NewEd EXCEPT !.name = ed[c].name,
                                                 !.seen = ed[c].seen]]
    /\ UNCHANGED <<runs, tmps, baks, index, pub, clock, faults>>

-----------------------------------------------------------------------------
PublishStep(p) ==
    \/ ResolveName(p) \/ CheckReuse(p) \/ MakeTmp(p) \/ ClaimTmp(p)
    \/ WriteArtifacts(p) \/ GiveUp(p) \/ AcquirePublishLock(p) \/ Scavenge(p)
    \/ RecheckReuse(p) \/ HealIndex(p) \/ BakeName(p) \/ BackupFinal(p)
    \/ BackupRefused(p) \/ ClaimBak(p) \/ InstallFinal(p) \/ UpsertIndex(p)
    \/ RemoveBak(p)

EditStep(c) ==
    \/ EditLockTimeout(c) \/ RejectEdit(c) \/ AcceptEdit(c)
    \/ WriteAnnotation(c) \/ WriteManifest(c) \/ WriteIndex(c)

Next ==
    \/ \E p \in Annotators :
          \/ \E r \in Requests, force \in BOOLEAN : Start(p, r, force)
          \/ PublishStep(p)
          \/ Fault(p)
          \/ CrashAnnotator(p)
    \/ \E c \in Editors :
          \/ \E n \in Names : GetManifest(c, n)
          \/ \E e \in Edits : SubmitEdit(c, e)
          \/ EditStep(c)
          \/ EditFails(c)
    \/ CrashServer
    \/ DayPasses

Spec == Init /\ [][Next]_vars

\* The operating system and the server's thread pool keep running what can run;
\* a wait for the lock ends in the lock or in its timeout.
Fairness ==
    /\ \A p \in Annotators : WF_vars(PublishStep(p))
    /\ \A c \in Editors : WF_vars(EditStep(c))

FairSpec == Spec /\ Fairness

-----------------------------------------------------------------------------
(***************************************************************************)
(* Properties                                                              *)
(***************************************************************************)
PubType == [pc : PubSteps, req : Requests, force : BOOLEAN, name : Names,
            bak : BOOLEAN, start : Nat]
EdType == [pc : EdSteps, name : Names, seen : Hash \cup {Absent}, op : Edits,
           ann : Annotation]

\* Every variable has its type.
TypeOK ==
    /\ runs \in [Names -> Run \cup {Absent}]
    /\ tmps \in [Names -> [Annotators -> SideDir \cup {NoDir}]]
    /\ baks \in [Names -> [Annotators -> SideDir \cup {NoDir}]]
    /\ index \in SUBSET Row
    /\ lock \in Annotators \cup Editors \cup {Free}
    /\ pub \in [Annotators -> PubType]
    /\ ed \in [Editors -> EdType]
    /\ clock \in Nat
    /\ crashes \in Nat
    /\ faults \in Nat

\* Whoever is between taking and releasing index.json.lock holds it, and nobody
\* else does: publish's replacement of a directory and a PATCH's three writes
\* never interleave, whatever is killed in between.
LockHeld ==
    /\ \A p \in Annotators : pub[p].pc \in PubLocked <=> lock = p
    /\ \A c \in Editors : ed[c].pc \in EdLocked <=> lock = c

\* annotation.json is at the version of manifest.json or exactly one edit past
\* it (a PATCH in flight, or stopped between its first two writes by a kill or an
\* exception), through any sequence of kills, exceptions, retries and later edits
\* of the half-written run.
AnnotationAtMostOneAhead ==
    \A n \in Names : runs[n] # Absent =>
        \/ runs[n].ann.hash = runs[n].man
        \/ \E e \in Edits : runs[n].ann.hash = DeriveHash(runs[n].man, e)

\* What the audit trail says was set last on a segment.
Replay(history) ==
    [s \in Segments |->
        LET touched == {i \in DOMAIN history : history[i].seg = s}
        IN  IF touched = {} THEN FirstValue
            ELSE history[CHOOSE i \in touched : \A j \in touched : j <= i].val]

\* The audit trail accounts for the run: the labels on disk are those it set last,
\* also after a kill or an exception; and until there is one of either the version
\* (the ETag) tells it, each edit that made the version recorded once and in order.
AuditExplainsRun ==
    \A n \in Names : runs[n] # Absent =>
        /\ runs[n].ann.labels = Replay(runs[n].ann.history)
        /\ crashes = 0 /\ faults = 0 => runs[n].ann.history = runs[n].ann.hash.edits

\* The only run of its request, as long as that has not been published under its
\* other name too.
OnlyRunOf(n) ==
    \A m \in Names \ {n} : runs[m] # Absent => runs[m].man.req # runs[n].man.req

\* A request is published under one of its two names, and no two requests share one
\* unless their hashes begin with the same twelve digits.
OwnName(r, n) == n \in {ShortName[r], LongName[r]}
NamesAreOwn ==
    \A r, s \in Requests, n \in Names : OwnName(r, n) /\ OwnName(s, n) => r = s

\* With nobody in a transaction and nothing failed so far, index.json and the
\* directories agree: no row points to a run that is not there, and the version
\* of a run is listed under its name, so a viewer can reach it.
IndexMatchesRuns ==
    lock = Free /\ crashes = 0 /\ faults = 0 =>
        /\ \A row \in index : runs[row.name] # Absent
        /\ NamesAreOwn =>
              \A n \in Names : runs[n] # Absent /\ OnlyRunOf(n) =>
                  [hash |-> runs[n].man, name |-> n] \in index

\* From the moment a live publisher has claimed its tmp directory until it bakes
\* the name under the lock, the directory is there and carries its claim: no
\* scavenger has taken it, however long the computation lasts.
LiveTmpKept ==
    \A p \in Annotators :
        pub[p].pc \in {"artifacts", "acquire", "scavenge", "recheck", "bake"} =>
            /\ TmpOf(p) # NoDir
            /\ TmpOf(p).writer = pub[p].start

\* The run store implements the register of EditRegister: what a name holds is
\* run_hash in its manifest, what a client holds is the If-Match it would send.
Register == INSTANCE EditRegister WITH
    Clients <- Editors,
    version <- [n \in Names |-> ExistingHash(runs[n])],
    held <- [c \in Editors |-> [name |-> ed[c].name, version |-> ed[c].seen]]

\* No edit is lost or applied to a version its client has not seen.
EditsAreCompareAndAppend == Register!Spec

\* Every publication and every PATCH comes to an end, whoever waits for whom on
\* the lock and whoever is killed holding it.
RequestsEnd ==
    /\ \A p \in Annotators : ~At(p, "none") ~> At(p, "none")
    /\ \A c \in Editors : EdAt(c, "submitted") ~> EdAt(c, "idle")

-----------------------------------------------------------------------------
(***************************************************************************)
(* A claim of the documents that the code does not keep.                   *)
(***************************************************************************)
\* "Recovery: rerun the same PATCH (idempotent ...)" (server/README.md): once
\* annotation and manifest agree again, each edit of the version was recorded
\* once.  After a kill between the two writes, the retry finds its own edit in
\* the annotation and records it a second time.
RetryIsIdempotent ==
    \A n \in Names : runs[n] # Absent /\ runs[n].ann.hash = runs[n].man =>
        runs[n].ann.history = runs[n].man.edits
=============================================================================
