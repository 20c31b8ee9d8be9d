----------------------------- MODULE HandModel ------------------------------
(***************************************************************************)
(* The MediaPipe model file of hand_pipeline/pipeline.py.  Each process    *)
(* that detects hands resolves it when it needs it first: from the path    *)
(* the environment names, or from ~/.cache/mimicanno, which all processes  *)
(* share and which the first of them fills by a download under a flock.    *)
(* The network is external: a download may be good, of a wrong size or     *)
(* raise.                                                                  *)
(***************************************************************************)
EXTENDS Naturals

CONSTANTS
    Procs,      \* processes that detect hands
    NoProc,     \* nobody
    Configs     \* what MIMICANNO_HAND_LANDMARKER_PATH may be

ASSUME HandModelAssumption ==
    /\ NoProc \notin Procs
    /\ Configs \subseteq {"unset", "file", "missing"}

\* A file as _size_ok sees it.
Assets == {"none", "bad", "good"}
Places == {"idle", "start", "waiting", "locked", "download", "check", "resolved",
           "loaded", "failed"}
Holding == {"locked", "download", "check"}

VARIABLES
    configured, \* the environment variable: unset, or names a file, or none
    asset,      \* hand_landmarker.task in the cache
    holder,     \* who has the flock on hand_landmarker.task.lock
    tmp,        \* tmp[p]: hand_landmarker.task.tmp.<pid of p>
    at          \* where p is in _get_mediapipe_hands

modelVars == <<configured, asset, holder, tmp, at>>

ModelInit ==
    /\ configured \in Configs
    /\ asset \in Assets
    /\ holder = NoProc
    /\ tmp = [p \in Procs |-> "none"]
    /\ at = [p \in Procs |-> "idle"]

ModelTypeOK ==
    /\ configured \in Configs
    /\ asset \in Assets
    /\ holder \in Procs \cup {NoProc}
    /\ tmp \in [Procs -> Assets]
    /\ at \in [Procs -> Places]

Move(p, from, to) == at[p] = from /\ at' = [at EXCEPT ![p] = to]
Release == holder' = NoProc
Size(p, f) == tmp' = [tmp EXCEPT ![p] = f]

\* _MP_LANDMARKER is None.
get_mediapipe_hands(p) ==
    Move(p, "idle", "start") /\ UNCHANGED <<configured, asset, holder, tmp>>

\* _resolve_model_path with the environment variable set: no cache, no network.
FromEnvironment(p) ==
    /\ configured # "unset"
    /\ Move(p, "start", IF configured = "file" THEN "resolved" ELSE "failed")
    /\ UNCHANGED <<configured, asset, holder, tmp>>

FastPath(p) ==
    /\ configured = "unset"
    /\ Move(p, "start", IF asset = "good" THEN "resolved" ELSE "waiting")
    /\ UNCHANGED <<configured, asset, holder, tmp>>

Acquire(p) ==
    /\ holder = NoProc /\ holder' = p
    /\ Move(p, "waiting", "locked")
    /\ UNCHANGED <<configured, asset, tmp>>

\* Mutant: what the fast path saw is not looked at again.
RecheckNothing(p) ==
    /\ Move(p, "locked", "download")
    /\ asset' = "none"
    /\ UNCHANGED <<configured, holder, tmp>>

\* Another process may have finished the download in the meantime.
Recheck(p) ==
    \/ /\ asset = "good"
       /\ Move(p, "locked", "resolved") /\ Release
       /\ UNCHANGED <<configured, asset, tmp>>
    \/ /\ asset # "good"
       /\ Move(p, "locked", "download")
       /\ asset' = "none"
       /\ UNCHANGED <<configured, holder, tmp>>

\* urlretrieve into the file of the pid; when it raises the finally clears it.
Download(p) ==
    \/ /\ Move(p, "download", "check")
       /\ \E f \in {"bad", "good"} : Size(p, f)
       /\ UNCHANGED <<configured, asset, holder>>
    \/ /\ Move(p, "download", "failed")
       /\ Size(p, "none") /\ Release
       /\ UNCHANGED <<configured, asset>>

Install(p) ==
    /\ Move(p, "check", IF tmp[p] = "good" THEN "resolved" ELSE "failed")
    /\ asset' = IF tmp[p] = "good" THEN "good" ELSE asset
    /\ Size(p, "none") /\ Release
    /\ UNCHANGED configured

\* HandLandmarker.create_from_options opens the path it was given.
OpenModel(p) ==
    /\ Move(p, "resolved", IF configured = "file" \/ asset = "good" THEN "loaded" ELSE "failed")
    /\ UNCHANGED <<configured, asset, holder, tmp>>

\* Whatever the failure was, the next frame asks for the landmarker again.
Retry(p) == Move(p, "failed", "idle") /\ UNCHANGED <<configured, asset, holder, tmp>>

\* The end of a process, wherever it is: the flock goes with it, its files stay.
Gone(p) ==
    /\ at' = [at EXCEPT ![p] = "idle"]
    /\ holder' = IF holder = p THEN NoProc ELSE holder
    /\ tmp' \in {tmp} \cup (IF at[p] = "download" THEN {[tmp EXCEPT ![p] = "bad"]} ELSE {})
    /\ UNCHANGED <<configured, asset>>

Resolving(p) ==
    \/ FromEnvironment(p) \/ FastPath(p) \/ Acquire(p) \/ Recheck(p)
    \/ Download(p) \/ Install(p) \/ OpenModel(p)

ModelNext == \E p \in Procs : get_mediapipe_hands(p) \/ Resolving(p) \/ Retry(p) \/ Gone(p)
ModelSpec == ModelInit /\ [][ModelNext]_modelVars

-----------------------------------------------------------------------------
\* A path that _resolve_model_path has returned from the cache names a whole model
\* until the landmarker has been built from it, whatever the other processes do:
\* fail, clear a file they take for corrupt, or be killed in a download.
ResolvedModelStays ==
    configured = "unset" => \A p \in Procs : at[p] = "resolved" => asset = "good"

\* One process at a time is between the flock and its release.
OneDownloader ==
    \A p \in Procs : at[p] \in Holding => holder = p
=============================================================================
