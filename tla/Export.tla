------------------------------- MODULE Export -------------------------------
(***************************************************************************)
(* mimicanno export (exports/bulk.py, run_resolution.py, output_layout.py, *)
(* provenance.py): resolves a run for each episode, loads manifests and    *)
(* annotations without the lock, compares with an export that is there,    *)
(* writes a tree, and puts it in the place of OUT or into the dataset.     *)
(*                                                                         *)
(* The runs change meanwhile; RunStore has the detail of their writers,    *)
(* here a writer is one step at its beginning and one at its end.  Each    *)
(* exporter is a process id: it may be killed anywhere and used again.     *)
(***************************************************************************)
EXTENDS ExportSink, TLC

CONSTANTS
    Runs,           \* canonical names
    About,          \* About[r]: [episode, config, phase, degraded]
    Drafts,         \* segments a publication can hold
    Phases,         \* labels a reviewer can give
    FirstSegs,      \* the segments of the runs published at the beginning
    FirstProfile,   \* the profile of an export that may be there at the beginning
    Requests,       \* what the exporters may be asked for
    Exporters,      \* process ids
    AnyConfig,      \* no --config-hash
    Absent,         \* a file, directory or writer that is not there
    MaxWrites,      \* bound: edits and publications of runs
    MaxExports,     \* bound: exports started
    MaxKills        \* bound: exporters killed

ASSUME ExportAssumption ==
    /\ \A r \in Runs : About[r].episode \in Episodes
    /\ DOMAIN FirstSegs \subseteq Runs
    /\ MaxWrites \in Nat /\ MaxExports \in Nat /\ MaxKills \in Nat
    /\ AnyConfig \notin {About[r].config : r \in Runs}
    /\ Absent \notin Runs
    /\ Absent \notin Profile
    /\ FirstProfile \in Profile
    /\ \A req \in Requests : /\ req.profile \in Profile /\ req.inPlace \in BOOLEAN
                              /\ req.runs \in Seq(Runs)

VARIABLES
    run,        \* run[r]: runs/<r>, its annotation.json and manifest.json
    index,      \* index[r]: generated_at of the row of r, 0 without a row
    writer,     \* the run an edit or a publication is writing, or Absent
    writes,     \* edits and publications so far
    dataset,    \* the source dataset, which --in-place writes to
    backups,    \* its .mimicanno-backup-<ISO> directories
    out,        \* OUT
    staging,    \* staging[x]: OUT.tmp.<pid>
    stash,      \* stash[x]: OUT.old.<pid>
    ex,         \* ex[x]: the state of exporter x
    exports,    \* exports started so far
    kills,      \* exporters killed so far
    published,  \* history: an export was put in place of OUT
    inPlace     \* history: in-place exports that began, and finished, writing

runVars == <<run, index, writer, writes>>
treeVars == <<dataset, backups, out, staging, stash, published, inPlace>>
vars == <<runVars, treeVars, ex, exports, kills>>

\* A dataset directory: subtask registry, subtask_index columns of each data file,
\* list columns of the episode rows, sidecar, remaining meta files, provenance.
NoFiles == << >>
NoProvenance ==
    [profile |-> Absent, asOf |-> 0, subtasks |-> 0, hashes |-> NoFiles, used |-> NoFiles]
Original ==
    [reg |-> << >>, data |-> [e \in Episodes |-> << >>], lists |-> << >>,
     side |-> NoFiles, meta |-> TRUE, prov |-> NoProvenance]
EmptyTree ==
    [reg |-> << >>, data |-> NoFiles, lists |-> << >>,
     side |-> NoFiles, meta |-> FALSE, prov |-> NoProvenance]

NoRequest ==
    [inPlace |-> FALSE, force |-> FALSE, dry |-> FALSE, skip |-> FALSE, phase |-> 0,
     config |-> AnyConfig, runs |-> << >>, episodes |-> {}, profile |-> Absent]

Idle ==
    [pc |-> "idle", req |-> NoRequest, used |-> NoFiles, loaded |-> NoFiles,
     hashes |-> NoFiles, left |-> {}, asOf |-> 0]

Ended == {"idle", "done", "reused", "refused", "failed", "killed"}
\* The try block of bulk_export.
Writing == {"registry", "data", "lists", "side", "validate", "provenance",
            "swap", "stash", "install", "fresh", "drop"}
Running == {"resolve", "manifest", "annotation", "check", "prepare"} \cup Writing

\* A finished export of runs nobody has written since.
FirstTree ==
    LET eps == [e \in {About[r].episode : r \in DOMAIN FirstSegs} |->
                   [segs |-> FirstSegs[CHOOSE r \in DOMAIN FirstSegs : About[r].episode = e],
                    made |-> 0, hash |-> 0]]
    IN  [reg |-> Registry(eps), side |-> eps, meta |-> TRUE, lists |-> <<ListColumn(eps)>>,
         data |-> [e \in DOMAIN eps |-> <<Column(eps[e].segs, Registry(eps))>>],
         prov |-> [profile |-> FirstProfile, asOf |-> 0, subtasks |-> Len(Registry(eps)),
                   hashes |-> [e \in DOMAIN eps |-> 0],
                   used |-> [e \in DOMAIN eps |->
                       CHOOSE r \in DOMAIN FirstSegs : About[r].episode = e]]]

\* It was let through as every export is.
ASSUME FirstTreeAssumption ==
    \A e \in DOMAIN FirstTree.side :
        /\ \A f \in Frames : Last(FirstTree.data[e])[f] # NoIndex
        /\ PassesGates(FirstProfile.gates, About[FirstTree.prov.used[e]].degraded,
                       FirstTree.side[e].segs)

Init ==
    /\ run = [r \in Runs |->
          [there |-> r \in DOMAIN FirstSegs, made |-> 0, hash |-> 0,
           segs |-> IF r \in DOMAIN FirstSegs THEN FirstSegs[r] ELSE << >>]]
    /\ index = [r \in Runs |-> IF r \in DOMAIN FirstSegs THEN 1 ELSE 0]
    /\ writer = Absent
    /\ writes = 0
    /\ dataset = Original
    /\ backups = {}
    /\ out \in {Absent, FirstTree}
    /\ staging = [x \in Exporters |-> Absent]
    /\ stash = [x \in Exporters |-> Absent]
    /\ ex = [x \in Exporters |-> Idle]
    /\ exports = 0
    /\ kills = 0
    /\ published = (out # Absent)
    /\ inPlace = [began |-> 0, finished |-> 0]

-----------------------------------------------------------------------------
\* The writers of the runs, one at a time under index.json.lock.

Touched(segs) ==
    {[segs EXCEPT ![i].phase = p, ![i].reviewed = TRUE] : i \in DOMAIN segs, p \in Phases}

\* Mutant: the manifest goes first.
BeginEditManifestFirst(r) ==
    /\ writer = Absent /\ run[r].there /\ writes < MaxWrites
    /\ run' = [run EXCEPT ![r].hash = writes + 1]
    /\ writes' = writes + 1
    /\ writer' = r
    /\ UNCHANGED <<index, treeVars, ex, exports, kills>>

\* write_run_atomically: annotation.json of an edit is on disk ...
BeginEdit(r) ==
    /\ writer = Absent /\ run[r].there /\ writes < MaxWrites
    /\ \E segs \in Touched(run[r].segs) :
          run' = [run EXCEPT ![r].segs = segs, ![r].made = writes + 1]
    /\ writes' = writes + 1
    /\ writer' = r
    /\ UNCHANGED <<index, treeVars, ex, exports, kills>>

\* ... and its manifest.json.  generated_at stays.
EndEdit(r) ==
    /\ writer = r /\ run[r].there
    /\ run' = [run EXCEPT ![r].hash = run[r].made]
    /\ writer' = Absent
    /\ UNCHANGED <<index, writes, treeVars, ex, exports, kills>>

\* publish: the final directory is aside, or has never been there ...
BeginPublish(r) ==
    /\ writer = Absent /\ writes < MaxWrites
    /\ run' = [run EXCEPT ![r].there = FALSE]
    /\ writes' = writes + 1
    /\ writer' = r
    /\ UNCHANGED <<index, treeVars, ex, exports, kills>>

\* ... and the new one is in its place and in the index.
EndPublish(r) ==
    /\ writer = r /\ ~run[r].there
    /\ \E segs \in Drafts :
          run' = [run EXCEPT ![r] = [there |-> TRUE, segs |-> segs,
                                     made |-> writes, hash |-> writes]]
    /\ index' = [index EXCEPT ![r] = writes + 1]
    /\ writer' = Absent
    /\ UNCHANGED <<writes, treeVars, ex, exports, kills>>

\* The writer is killed in between.
AbandonWrite ==
    /\ writer # Absent /\ kills < MaxKills
    /\ writer' = Absent
    /\ kills' = kills + 1
    /\ UNCHANGED <<run, index, writes, treeVars, ex, exports>>

-----------------------------------------------------------------------------
At(x, pc) == ex[x].pc = pc
\* A process that ends leaves nothing but files and its outcome.
Goto(x, pc) ==
    ex' = [ex EXCEPT ![x] = IF pc \in Ended THEN [Idle EXCEPT !.pc = pc] ELSE [@ EXCEPT !.pc = pc]]
Quiet == UNCHANGED <<runVars, exports, kills>>
Req(x) == ex[x].req
\* A dictionary with the entry of e set.
Enter(d, e, v) == [a \in DOMAIN d \cup {e} |-> IF a = e THEN v ELSE d[a]]
NextEpisode(x) == Min(ex[x].left)
Eps(x) == ex[x].loaded

\* export_cmd
Start(x) ==
    /\ ex[x].pc \in Ended /\ exports < MaxExports
    /\ \E req \in Requests : ex' = [ex EXCEPT ![x] = [Idle EXCEPT !.pc = "resolve", !.req = req]]
    /\ exports' = exports + 1
    /\ UNCHANGED <<runVars, treeVars, kills>>

Listed == {r \in Runs : index[r] > 0}
Candidates(req, e) ==
    {r \in Listed : /\ About[r].episode = e /\ About[r].phase = req.phase
                    /\ req.config \in {AnyConfig, About[r].config}}
Configs(S) == {About[r].config : r \in S}
Newest(S) == CHOOSE r \in S : \A q \in S : index[q] <= index[r]
\* The config hashes of several candidates come from their manifests.
HashesReadable(req, e) ==
    (req.config # AnyConfig \/ Cardinality(Candidates(req, e)) > 1) =>
        \A r \in Candidates(req, e) : run[r].there

\* --run: the last one named for an episode.
NamedRuns(names) ==
    [e \in {About[r].episode : r \in ToSet(names)} |->
        names[Max({i \in DOMAIN names : About[names[i]].episode = e})]]

\* resolve_runs_for_episodes
ResolveRuns(x) ==
    /\ At(x, "resolve")
    /\ LET req == Req(x)
           found == {e \in req.episodes \cap Episodes : Candidates(req, e) # {}}
           resolved ==
               IF req.runs # << >> THEN ToSet(req.runs) \subseteq Listed
               ELSE /\ Listed # {}
                    /\ req.skip \/ req.episodes \cap Episodes \subseteq found
                    /\ \A e \in found : /\ HashesReadable(req, e)
                                        /\ Cardinality(Configs(Candidates(req, e))) = 1
           used == IF req.runs # << >> THEN NamedRuns(req.runs)
                   ELSE [e \in found |-> Newest(Candidates(req, e))]
       IN  IF resolved
           THEN ex' = [ex EXCEPT ![x].used = used, ![x].left = DOMAIN used, ![x].asOf = writes,
                                 ![x].pc = IF DOMAIN used = {} THEN "check" ELSE "manifest"]
           ELSE Goto(x, "refused")
    /\ UNCHANGED treeVars /\ Quiet

\* bulk_export, the preload: manifest.json of the next run.
LoadManifest(x) ==
    /\ At(x, "manifest")
    /\ LET e == NextEpisode(x)  r == ex[x].used[e]
       IN  IF run[r].there
           THEN ex' = [ex EXCEPT ![x].hashes = Enter(@, e, run[r].hash), ![x].pc = "annotation"]
           ELSE Goto(x, "refused")
    /\ UNCHANGED treeVars /\ Quiet

\* ... and its annotation.json.
LoadAnnotation(x) ==
    /\ At(x, "annotation")
    /\ LET e == NextEpisode(x)  r == ex[x].used[e]
       IN  IF run[r].there
           THEN ex' = [ex EXCEPT
                   ![x].loaded = Enter(@, e, [segs |-> run[r].segs, made |-> run[r].made]),
                   ![x].left = @ \ {e},
                   ![x].pc = IF ex[x].left = {e} THEN "check" ELSE "manifest"]
           ELSE Goto(x, "refused")
    /\ UNCHANGED treeVars /\ Quiet

\* The directory the request is about; write_all's out_dir.
Target(x) == IF Req(x).inPlace THEN dataset ELSE out
Place(x) == IF Req(x).inPlace THEN dataset ELSE staging[x]
Write(x, tree) ==
    IF Req(x).inPlace
    THEN dataset' = tree /\ UNCHANGED <<backups, out, staging, stash, published, inPlace>>
    ELSE /\ staging' = [staging EXCEPT ![x] = tree]
         /\ UNCHANGED <<dataset, backups, out, stash, published, inPlace>>

\* read_export_manifest
Existing(x) == IF Target(x) = Absent THEN NoProvenance ELSE Target(x).prov

\* Mutant: only the episodes are compared.
MatchesEpisodes(x) ==
    Existing(x).profile = Req(x).profile /\ DOMAIN Existing(x).used = DOMAIN ex[x].used

\* The idempotency test: profile and run names, but not the run hashes.
Matches(x) == Existing(x).profile = Req(x).profile /\ Existing(x).used = ex[x].used

\* bulk_export, steps 4 and 5, and the end of a dry run.
CheckExisting(x) ==
    /\ At(x, "check")
    /\ Goto(x, IF Req(x).force \/ Existing(x) = NoProvenance
               THEN IF Req(x).dry THEN "done" ELSE "prepare"
               ELSE IF Matches(x) THEN "reused" ELSE "refused")
    /\ UNCHANGED treeVars /\ Quiet

\* A backup directory: the data files of some episodes and, of the files of meta/ that
\* an export writes, those named.  A file the dataset does not have yet is empty here
\* and is not copied there.
MetaFiles == {"reg", "side", "lists"}
Copy(eps, names) ==
    [data |-> [e \in eps |-> dataset.data[e]],
     reg |-> IF "reg" \in names THEN dataset.reg ELSE Absent,
     side |-> IF "side" \in names THEN dataset.side ELSE Absent,
     lists |-> IF "lists" \in names THEN dataset.lists ELSE Absent]

\* Mutant: one backup has to do.
WithFirstBackup(x) ==
    IF backups = {} THEN {Copy(DOMAIN ex[x].used, MetaFiles)} ELSE backups

\* create_inplace_backup, with the files the export is going to write.
WithBackup(x) == backups \cup {Copy(DOMAIN ex[x].used, MetaFiles)}

\* prepare_layout, or the backup; then step 7,
\* build_canonical_episode for every episode.
PrepareLayout(x) ==
    /\ At(x, "prepare")
    /\ IF \A e \in DOMAIN Eps(x) :
             Canonical(Req(x).profile, About[ex[x].used[e]].degraded, Eps(x)[e].segs)
       THEN ex' = [ex EXCEPT ![x].left = DOMAIN ex[x].used, ![x].pc = "registry"]
       ELSE Goto(x, "failed")
    /\ IF Req(x).inPlace
       THEN backups' = WithBackup(x) /\ UNCHANGED staging
       ELSE staging' = [staging EXCEPT ![x] = EmptyTree] /\ UNCHANGED backups
    /\ UNCHANGED <<dataset, out, stash, published, inPlace>> /\ Quiet

\* All or nothing, if the process lives.
BackupFails(x) ==
    /\ At(x, "prepare") /\ Req(x).inPlace
    /\ Goto(x, "refused")
    /\ UNCHANGED treeVars /\ Quiet

\* Step 8, write_all, file by file.
WriteRegistry(x) ==
    /\ At(x, "registry")
    /\ Goto(x, IF ex[x].left = {} THEN "lists" ELSE "data")
    /\ LET tree == [Place(x) EXCEPT !.reg = Registry(Eps(x))]
       IN  IF Req(x).inPlace
           THEN /\ dataset' = tree
                /\ inPlace' = [inPlace EXCEPT !.began = @ + 1]
                /\ UNCHANGED <<backups, out, staging, stash, published>>
           ELSE Write(x, tree)
    /\ Quiet

\* Mutant: an episode's column counts the phases of that episode only.
WriteDataOwnRegistry(x) ==
    /\ At(x, "data")
    /\ LET e == NextEpisode(x)
           column == Column(Eps(x)[e].segs, Registry(e :> Eps(x)[e]))
       IN  /\ Write(x, [Place(x) EXCEPT !.data = Enter(@, e, Append(dataset.data[e], column))])
           /\ ex' = [ex EXCEPT ![x].left = @ \ {e},
                               ![x].pc = IF ex[x].left = {e} THEN "lists" ELSE "data"]
    /\ Quiet

\* The column is appended to the source's columns, whatever these are.
WriteData(x) ==
    /\ At(x, "data")
    /\ LET e == NextEpisode(x)
           column == Column(Eps(x)[e].segs, Registry(Eps(x)))
           columns == Append(dataset.data[e], column)
       IN  IF \E f \in Frames : column[f] = NoIndex
           THEN Goto(x, "failed") /\ UNCHANGED treeVars
           ELSE /\ Write(x, [Place(x) EXCEPT !.data = Enter(@, e, columns)])
                /\ ex' = [ex EXCEPT ![x].left = @ \ {e},
                                    ![x].pc = IF ex[x].left = {e} THEN "lists" ELSE "data"]
    /\ Quiet

\* Bare column names may collide with the source's; prefixed ones are not compared.
WriteLists(x) ==
    /\ At(x, "lists")
    /\ IF Req(x).profile.bare /\ dataset.lists # << >>
       THEN Goto(x, "failed") /\ UNCHANGED treeVars
       ELSE /\ Goto(x, "side")
            /\ Write(x, [Place(x) EXCEPT !.lists = Append(dataset.lists, ListColumn(Eps(x)))])
    /\ Quiet

\* SubtaskSegment.to_sidecar_row for the segments of an episode; made, the edit or
\* publication they come from, is history and not in the file.
SidecarRows(ep, hash) == [segs |-> ep.segs, made |-> ep.made, hash |-> hash]

\* info.json goes with it.
WriteSidecar(x) ==
    /\ At(x, "side")
    /\ Goto(x, "validate")
    /\ Write(x, [Place(x) EXCEPT !.side =
                    [e \in DOMAIN Eps(x) |-> SidecarRows(Eps(x)[e], ex[x].hashes[e])]])
    /\ Quiet

\* A parquet reader may refuse a file with two columns of one name.
Doubled(tree, eps) == Len(tree.lists) > 1 \/ \E e \in eps : Len(tree.data[e]) > 1

\* copy_meta_verbatim: what the sink has not written.
CopyMeta(tree) == [tree EXCEPT !.meta = TRUE]

\* _validate_output, then step 9.
Validate(x) ==
    /\ At(x, "validate")
    /\ \/ /\ Place(x).reg # << >>
          /\ Goto(x, "provenance")
          /\ Write(x, CopyMeta(Place(x)))
       \/ /\ Place(x).reg = << >> \/ Doubled(Place(x), DOMAIN ex[x].used)
          /\ Goto(x, "failed")
          /\ UNCHANGED treeVars
    /\ Quiet

\* Step 10: write_export_manifest.
WriteProvenance(x) ==
    /\ At(x, "provenance")
    /\ Goto(x, "swap")
    /\ Write(x, [Place(x) EXCEPT !.prov =
                    [profile |-> Req(x).profile, used |-> ex[x].used, hashes |-> ex[x].hashes,
                     subtasks |-> Len(Registry(Eps(x))), asOf |-> ex[x].asOf]])
    /\ Quiet

\* Mutant: the old OUT is deleted before the new one is installed.
SwapNaive(x) ==
    /\ At(x, "swap")
    /\ Goto(x, IF Req(x).inPlace THEN "done" ELSE "fresh")
    /\ out' = IF Req(x).inPlace THEN out ELSE Absent
    /\ UNCHANGED <<dataset, backups, staging, stash, published, inPlace>> /\ Quiet

\* Step 11, finalize: in place nothing is left to do; a stash of the same pid is dropped.
Swap(x) ==
    /\ At(x, "swap")
    /\ IF Req(x).inPlace
       THEN /\ Goto(x, "done")
            /\ inPlace' = [inPlace EXCEPT !.finished = @ + 1]
            /\ UNCHANGED stash
       ELSE /\ Goto(x, IF out = Absent THEN "fresh" ELSE "stash")
            /\ stash' = IF out = Absent THEN stash ELSE [stash EXCEPT ![x] = Absent]
            /\ UNCHANGED inPlace
    /\ UNCHANGED <<dataset, backups, out, staging, published>> /\ Quiet

\* os.replace(out, stash)
StashOut(x) ==
    /\ At(x, "stash")
    /\ IF out = Absent
       THEN Goto(x, "failed") /\ UNCHANGED <<out, stash>>
       ELSE /\ Goto(x, "install")
            /\ stash' = [stash EXCEPT ![x] = out]
            /\ out' = Absent
    /\ UNCHANGED <<dataset, backups, staging, published, inPlace>> /\ Quiet

\* os.replace(staging, out) raises without a source, and does not replace a directory
\* that has files.
Install(x) ==
    /\ ex[x].pc \in {"install", "fresh"}
    /\ IF out # Absent \/ staging[x] = Absent
       THEN Goto(x, "failed") /\ UNCHANGED <<out, staging, published>>
       ELSE /\ Goto(x, IF At(x, "install") THEN "drop" ELSE "done")
            /\ out' = staging[x]
            /\ staging' = [staging EXCEPT ![x] = Absent]
            /\ published' = TRUE
    /\ UNCHANGED <<dataset, backups, stash, inPlace>> /\ Quiet

\* The second rename fails for another reason: the old tree comes back.
RestoreOut(x) ==
    /\ At(x, "install") /\ out = Absent
    /\ Goto(x, "failed")
    /\ out' = stash[x]
    /\ stash' = [stash EXCEPT ![x] = Absent]
    /\ UNCHANGED <<dataset, backups, staging, published, inPlace>> /\ Quiet

DropStash(x) ==
    /\ At(x, "drop")
    /\ Goto(x, "done")
    /\ stash' = [stash EXCEPT ![x] = Absent]
    /\ UNCHANGED <<dataset, backups, out, staging, published, inPlace>> /\ Quiet

\* A kill; an exception in the try block leaves the same files.
Kill(x) ==
    /\ ex[x].pc \in Running /\ kills < MaxKills
    /\ Goto(x, "killed")
    /\ kills' = kills + 1
    /\ UNCHANGED <<runVars, treeVars, exports>>

\* A kill during the backup leaves the files copied so far: data files first, the
\* episode rows last.  A file that was cut short is as good as missing.
KillInBackup(x) ==
    /\ At(x, "prepare") /\ Req(x).inPlace /\ kills < MaxKills
    /\ \/ \E eps \in SUBSET DOMAIN ex[x].used : backups' = backups \cup {Copy(eps, {})}
       \/ \E names \in {{"reg"}, {"reg", "side"}} :
             backups' = backups \cup {Copy(DOMAIN ex[x].used, names)}
    /\ Goto(x, "killed")
    /\ kills' = kills + 1
    /\ UNCHANGED <<runVars, dataset, out, staging, stash, published, inPlace, exports>>

Proceed(x) ==
    \/ ResolveRuns(x) \/ LoadManifest(x) \/ LoadAnnotation(x) \/ CheckExisting(x)
    \/ PrepareLayout(x) \/ BackupFails(x)
    \/ WriteRegistry(x) \/ WriteData(x) \/ WriteLists(x) \/ WriteSidecar(x)
    \/ Validate(x) \/ WriteProvenance(x)
    \/ Swap(x) \/ StashOut(x) \/ Install(x) \/ RestoreOut(x) \/ DropStash(x)

Next ==
    \/ \E r \in Runs : BeginEdit(r) \/ EndEdit(r) \/ BeginPublish(r) \/ EndPublish(r)
    \/ AbandonWrite
    \/ \E x \in Exporters : Start(x) \/ Proceed(x) \/ Kill(x) \/ KillInBackup(x)

Spec == Init /\ [][Next]_vars

-----------------------------------------------------------------------------
\* An export that decodes: for every episode it names the newest subtask_index
\* column, read through subtasks.parquet, gives each frame the label the sidecar
\* gives it, the episode's lists are the sidecar's segments, the recorded hashes
\* and the count are those of the files, and the profile's gates hold.
Sound(tree) ==
    LET prov == tree.prov IN
    /\ prov # NoProvenance /\ tree.meta
    /\ DOMAIN tree.side = DOMAIN prov.used
    /\ Len(tree.reg) = prov.subtasks
    /\ \A e \in DOMAIN prov.used :
          LET segs == tree.side[e].segs IN
          /\ \A f \in Frames : tree.reg[Last(tree.data[e])[f] + 1] = LabelAt(segs, f)
          /\ Last(tree.lists)[e] = segs
          /\ tree.side[e].hash = prov.hashes[e]
          /\ PassesGates(prov.profile.gates, About[prov.used[e]].degraded, segs)

OneColumnEach(tree) ==
    Len(tree.lists) = 1 /\ \A e \in DOMAIN tree.side : Len(tree.data[e]) = 1

\* An in-place export is at work or was interrupted.
Torn == inPlace.began # inPlace.finished

\* Whatever exporters run, are killed or get in each other's way, OUT is missing or a
\* complete export that decodes (finalize's replacement of OUT by the staging tree);
\* so is a dataset that was exported in place once and to the end.
TreesAreSound ==
    /\ out # Absent => Sound(out) /\ (inPlace.began = 0 => OneColumnEach(out))
    /\ ~Torn /\ inPlace.began = 1 => Sound(dataset) /\ OneColumnEach(dataset)

\* The exporter reads without the lock, but the manifest first, and edits write it
\* last: what is exported is never older than the run hash that is recorded for it.
NotOlderThanHash ==
    out # Absent => \A e \in DOMAIN out.side : out.side[e].made >= out.side[e].hash

\* Some backup has the data file of e, or the files of meta/, of before all exports.
DataKept(e) ==
    \E copy \in backups : e \in DOMAIN copy.data /\ copy.data[e] = Original.data[e]
MetaKept ==
    \E copy \in backups :
        /\ copy.reg = Original.reg /\ copy.side = Original.side
        /\ copy.lists = Original.lists

\* finalize moves the old tree aside before it installs the new one, and an in-place
\* export copies the files it will change: once there was an export, OUT or a stash
\* holds a complete one, and of each file of the dataset that was written there is the
\* original in a backup, though no one backup need have them all.
PreviousKept ==
    /\ published => \E tree \in {out} \cup {stash[x] : x \in Exporters} :
                        tree # Absent /\ Sound(tree)
    /\ inPlace.began > 0 => MetaKept
    /\ \A e \in Episodes : dataset.data[e] # Original.data[e] => DataKept(e)

\* When an export is answered as reused, and no run was written since either of the
\* two was begun and no in-place export was cut short, what is there is what
\* exporting again would write (the idempotency test of bulk_export).
ReusedIsCurrent ==
    [][\A x \in Exporters :
          /\ At(x, "check") /\ ex'[x].pc = "reused"
          /\ Target(x).prov.asOf = writes /\ ex[x].asOf = writes
          /\ Req(x).inPlace => ~Torn /\ inPlace.began = 1
          => /\ Sound(Target(x))
             /\ \A e \in DOMAIN Eps(x) : Target(x).side[e].segs = Eps(x)[e].segs]_vars
=============================================================================
