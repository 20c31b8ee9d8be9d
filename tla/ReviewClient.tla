---------------------------- MODULE ReviewClient ----------------------------
(***************************************************************************)
(* One browser tab of the review UI (frontend components/RunViewer.tsx,    *)
(* SegmentTable.tsx, TimelineRuler.tsx and their HTTP clients), the PATCH  *)
(* and GET routes that answer it, other reviewers, and publications that   *)
(* replace the run.                                                        *)
(*                                                                         *)
(* Every request has a life of its own: sent, accepted or refused by the   *)
(* server, answered, and after an accepted edit a re-fetch that is read    *)
(* and delivered.  Any of these can be late, lost or given up.  Of the     *)
(* toasts only the one that says the view may be stale is kept.  The       *)
(* server is the register of EditRegister, with the write of               *)
(* annotation.json and that of manifest.json apart.                        *)
(***************************************************************************)
EXTENDS Naturals, Sequences, FiniteSetsExt

CONSTANTS
    Gens,               \* automatic annotations a publication can install
    Values,             \* values a field can be given
    FirstValue,         \* the value of every field of an automatic annotation
    None,               \* no version, hash, drag or writer
    Other, Publisher,   \* writers that are not the tab
    Linked,             \* whether the page was opened with ?hash= in its URL
    MaxEdits,           \* bound: PATCH requests of the tab
    MaxOthers,          \* bound: edits of other reviewers
    MaxPublications,    \* bound: publications that replace the run
    MaxReloads          \* bound: reloads of the page

Ids == 1..MaxEdits

ASSUME ClientAssumption ==
    /\ FirstValue \in Values /\ Linked \subseteq BOOLEAN
    /\ MaxEdits \in Nat /\ MaxOthers \in Nat /\ MaxPublications \in Nat /\ MaxReloads \in Nat
    /\ None \notin Gens \cup Values /\ {None, Other, Publisher} \cap Ids = {}
    /\ None \notin {Other, Publisher} /\ Other # Publisher

\* One field of one segment for each of the four kinds of PATCH.
Kinds == {"phase", "boundary", "reviewed", "labels"}
\* Controls that show what was chosen before the server has answered.
Optimistic == Kinds \ {"boundary"}

Edit == [by : {"tab", "other"}, kind : Kinds, value : Values]
\* The hash of a version is the version: an automatic annotation and its edits.
Version == [gen : Gens, edits : Seq(Edit)]
Fresh(g) == [gen |-> g, edits |-> << >>]
After(v, e) == [v EXCEPT !.edits = Append(@, e)]

ASSUME VersionAssumption == None \notin Version

Value(v, k) ==
    LET of == {i \in DOMAIN v.edits : v.edits[i].kind = k}
    IN IF of = {} THEN FirstValue ELSE v.edits[Max(of)].value
Others(v) == {i \in DOMAIN v.edits : v.edits[i].by = "other"}

VARIABLES
    ann,        \* runs/<name>/annotation.json, or None in the gap of a publication
    man,        \* the version manifest.json names
    listed,     \* the version whose hash index.json lists
    writer,     \* who holds the lock: a request of the tab, Other, Publisher or None
    page,       \* what the tab has loaded and shows
    inFlight,   \* the four flags of RunViewer
    patch,      \* patch[i]: the i-th PATCH of the tab
    sent,       \* PATCHes sent so far
    others, publications, reloads,  \* counters of the bounds
    warned,     \* history: a re-fetch failed and none has succeeded since
    overlapped, \* history: an edit was sent while another was in flight
    replaced    \* history: the run was published again since the page was loaded

serverVars == <<ann, man, listed, writer, others, publications, replaced>>
tabVars == <<page, inFlight, patch, sent, reloads, warned, overlapped>>
vars == <<serverVars, tabVars>>

NewPage(url) ==
    [st |-> "loading", held |-> None, shown |-> None, url |-> url, stale |-> FALSE,
     local |-> [k \in Optimistic |-> FirstValue], drag |-> None]
\* What the four clients make of a response.
Results == {"ok", "conflict", "no_change", "invalid", "not_found"}
Refusals == {"no_change", "invalid", "not_found"}
\* A PATCH: what it sets, what the control goes back to, its If-Match, its ETag.
NoPatch == [st |-> "none", kind |-> "phase", value |-> FirstValue, old |-> FirstValue,
            base |-> None, got |-> None]
\* What is left of a request: nothing, or what the server may still have to do.
Gone == [NoPatch EXCEPT !.st = "gone"]
Abandoned(p) == [p EXCEPT !.st = "abandoned", !.old = FirstValue]

Init ==
    \E g \in Gens, withHash \in Linked :
    /\ ann = Fresh(g) /\ man = Fresh(g) /\ listed = Fresh(g)
    /\ writer = None
    /\ page = NewPage(IF withHash THEN Fresh(g) ELSE None)
    /\ inFlight = [k \in Kinds |-> FALSE]
    /\ patch = [i \in Ids |-> NoPatch]
    /\ sent = 0 /\ others = 0 /\ publications = 0 /\ reloads = 0
    /\ warned = FALSE /\ overlapped = FALSE /\ replaced = FALSE

-----------------------------------------------------------------------------
(* The server and the other writers of the run. *)

Unchanged(p) == Value(ann, p.kind) = p.value

\* apply_edit and its three siblings, under the lock: the checks, and annotation.json.
Accept(i) ==
    LET p == patch[i] IN
    /\ p.st \in {"sent", "abandoned"}
    /\ writer = None /\ man # None
    /\ man = p.base
    /\ p.kind # "phase" => ~Unchanged(p)
    /\ ann' = After(ann, [by |-> "tab", kind |-> p.kind, value |-> p.value])
    /\ writer' = i
    /\ UNCHANGED <<man, listed, others, publications, replaced, tabVars>>

\* manifest.json and index.json are written, and the new hash is the ETag.
Commit(i) ==
    /\ writer = i
    /\ man' = ann /\ listed' = ann
    /\ writer' = None
    /\ patch' = [patch EXCEPT ![i] = IF @.st = "sent" THEN [@ EXCEPT !.st = "ok", !.got = ann]
                                    ELSE Gone]
    /\ UNCHANGED <<ann, others, publications, replaced, page, inFlight, sent, reloads,
                   warned, overlapped>>

\* What a PATCH function raises; "unmet" is its own check.
Raised(p, unmet) ==
    CASE man = None -> {"not_found"}
      [] man \notin {None, p.base} -> {"conflict"}
      [] OTHER -> unmet
WhenUnchanged(p, answer) == IF Unchanged(p) THEN {answer} ELSE {}

\* The refusals of the four routes.  An edit that took more than ten minutes is
\* refused before the run is looked at; of a drag boundaryClient sends no duration,
\* and a frame that is the boundary's already is an invalid one.
patch_segment(p) == {"invalid"} \cup Raised(p, {})
patch_reviewed_route(p) == {"invalid"} \cup Raised(p, WhenUnchanged(p, "no_change"))
patch_labels_route(p) == {"invalid"} \cup Raised(p, WhenUnchanged(p, "no_change"))
patch_boundary_route(p) == Raised(p, WhenUnchanged(p, "invalid"))
Answers(p) ==
    CASE p.kind = "phase" -> patch_segment(p)
      [] p.kind = "reviewed" -> patch_reviewed_route(p)
      [] p.kind = "labels" -> patch_labels_route(p)
      [] p.kind = "boundary" -> patch_boundary_route(p)

Refuse(i) ==
    /\ patch[i].st \in {"sent", "abandoned"}
    /\ writer = None
    /\ \E a \in Answers(patch[i]) :
         patch' = [patch EXCEPT ![i] = IF @.st = "sent" THEN [@ EXCEPT !.st = a] ELSE Gone]
    /\ UNCHANGED <<serverVars, page, inFlight, sent, reloads, warned, overlapped>>

\* Another reviewer edits the current version.
OtherEdit(k, v) ==
    /\ writer = None /\ man # None
    /\ others < MaxOthers
    /\ Value(ann, k) # v
    /\ ann' = After(ann, [by |-> "other", kind |-> k, value |-> v])
    /\ writer' = Other
    /\ others' = others + 1
    /\ UNCHANGED <<man, listed, publications, replaced, tabVars>>

OtherCommits ==
    /\ writer = Other
    /\ man' = ann /\ listed' = ann
    /\ writer' = None
    /\ UNCHANGED <<ann, others, publications, replaced, tabVars>>

\* publish() takes the run away, puts another in its place, or dies in between.
Withdraw ==
    /\ writer = None /\ man # None
    /\ publications < MaxPublications
    /\ ann' = None /\ man' = None
    /\ writer' = Publisher
    /\ publications' = publications + 1
    /\ UNCHANGED <<listed, others, replaced, tabVars>>

Install(g) ==
    /\ writer = Publisher
    /\ ann' = Fresh(g) /\ man' = Fresh(g) /\ listed' = Fresh(g)
    /\ writer' = None
    /\ replaced' = TRUE
    /\ UNCHANGED <<others, publications, tabVars>>

PublisherDies ==
    /\ writer = Publisher
    /\ writer' = None
    /\ UNCHANGED <<ann, man, listed, others, publications, replaced, tabVars>>

-----------------------------------------------------------------------------
(* Loading the page. *)

\* The run whose short hash the URL has, or the newest.
selectRun == page.url \in {None, listed}
\* A GET tries again for a file that is missing, which bridges a short gap.
open_artifact(file) == file # None

LoadIndex ==
    /\ page.st = "loading"
    /\ page' = [page EXCEPT !.st = IF selectRun THEN "selected" ELSE "no-match"]
    /\ UNCHANGED <<serverVars, inFlight, patch, sent, reloads, warned, overlapped>>

\* manifest.json, whose request fetchRetry repeats as well.
LoadManifest ==
    /\ page.st = "selected"
    /\ open_artifact(man)
    /\ page' = [page EXCEPT !.st = "loaded", !.held = man]
    /\ UNCHANGED <<serverVars, inFlight, patch, sent, reloads, warned, overlapped>>

LoadManifestFails ==
    /\ page.st = "selected"
    /\ ~open_artifact(man)
    /\ page' = [page EXCEPT !.st = "error"]
    /\ UNCHANGED <<serverVars, inFlight, patch, sent, reloads, warned, overlapped>>

\* annotation.json, a request of its own and without retries.
ShowAnnotation(v) ==
    [page EXCEPT !.shown = v,
                 !.local = [k \in Optimistic |->
                              IF page.shown = None \/ Value(v, k) # Value(page.shown, k)
                              THEN Value(v, k) ELSE page.local[k]]]
LoadAnnotation ==
    /\ page.st = "loaded" /\ page.shown = None
    /\ page' = IF open_artifact(ann) THEN ShowAnnotation(ann)
               ELSE [page EXCEPT !.st = "slot-error"]
    /\ UNCHANGED <<serverVars, inFlight, patch, sent, reloads, warned, overlapped>>

\* F5 keeps the URL; the reload button of a stale page drops its ?hash.  The
\* server may go on with what was sent.
Reload(keepHash) ==
    /\ reloads < MaxReloads
    /\ ~keepHash => page.stale
    /\ page' = NewPage(IF keepHash THEN page.url ELSE None)
    /\ inFlight' = [k \in Kinds |-> FALSE]
    /\ patch' = [i \in Ids |-> CASE patch[i].st = "sent" -> Abandoned(patch[i])
                                    [] patch[i].st \in {"none", "abandoned"} -> patch[i]
                                    [] OTHER -> Gone]
    /\ reloads' = reloads + 1
    /\ warned' = FALSE /\ overlapped' = FALSE /\ replaced' = FALSE
    /\ UNCHANGED <<ann, man, listed, writer, others, publications, sent>>

-----------------------------------------------------------------------------
(* The reviewer. *)

Busy == \E k \in Kinds : inFlight[k]
Editable == page.st = "loaded" /\ page.shown # None
TableEnabled == Editable /\ ~Busy /\ ~page.stale

\* A handler of RunViewer up to its first await: the flag, and the PATCH with
\* the hash of the manifest that is loaded.  old is what a refusal rolls back to.
Send(k, v, old, drag) ==
    /\ sent < MaxEdits
    /\ sent' = sent + 1
    /\ patch' = [patch EXCEPT ![sent + 1] = [st |-> "sent", kind |-> k, value |-> v, old |-> old,
                                            base |-> page.held, got |-> None]]
    /\ inFlight' = [inFlight EXCEPT ![k] = TRUE]
    /\ page' = [page EXCEPT !.drag = drag,
                            !.local = IF k \in Optimistic THEN [@ EXCEPT ![k] = v] ELSE @]
    /\ overlapped' = (overlapped \/ Busy)
    /\ UNCHANGED <<serverVars, reloads, warned>>

onPhaseEdit(v) ==
    /\ TableEnabled
    /\ v # page.local["phase"] /\ v # Value(page.shown, "phase")
    /\ Send("phase", v, Value(page.shown, "phase"), page.drag)

onReviewedToggle(v) ==
    /\ TableEnabled
    /\ v # page.local["reviewed"]
    /\ Send("reviewed", v, page.local["reviewed"], page.drag)

onLabelsEdit(v) ==
    /\ TableEnabled
    /\ v # Value(page.shown, "labels")
    /\ Send("labels", v, Value(page.shown, "labels"), page.drag)

\* A drag begins only while nothing is in flight; where it ends nobody asks again.
\* A stale page disables the table, not the ruler.
onPointerDown ==
    /\ Editable /\ ~Busy
    /\ page.drag = None
    /\ page' = [page EXCEPT !.drag = Value(page.shown, "boundary")]
    /\ UNCHANGED <<serverVars, inFlight, patch, sent, reloads, warned, overlapped>>

onPointerUp(v) ==
    /\ page.drag # None
    /\ IF v # page.drag
       THEN Send("boundary", v, v, None)
       ELSE /\ page' = [page EXCEPT !.drag = None]
            /\ UNCHANGED <<serverVars, inFlight, patch, sent, reloads, warned, overlapped>>

onKeyDown(v) ==
    /\ Editable /\ ~Busy
    /\ v # Value(page.shown, "boundary")
    /\ Send("boundary", v, v, page.drag)

-----------------------------------------------------------------------------
(* Answers. *)

Settled(i) == inFlight' = [inFlight EXCEPT ![patch[i].kind] = FALSE]
Close(i) == patch' = [patch EXCEPT ![i] = Gone]
RolledBack(i) == IF patch[i].kind \in Optimistic
                 THEN [page.local EXCEPT ![patch[i].kind] = patch[i].old] ELSE page.local

\* A bug: only the handler of phases syncs the URL.
SyncUrlOfPhase(i) == IF page.url # None /\ patch[i].kind = "phase" THEN patch[i].got ELSE page.url
\* 200: the hash of the answer is the next If-Match and goes into the URL, which
\* onReviewedToggle leaves alone; the annotation is fetched again.
SyncUrl(i) == IF page.url # None /\ patch[i].kind # "reviewed" THEN patch[i].got ELSE page.url
\* A bug: the annotation is not fetched again.
ReceiveOkNoRefetch(i) ==
    /\ patch[i].st = "ok"
    /\ page' = [page EXCEPT !.held = patch[i].got, !.url = SyncUrl(i)]
    /\ Settled(i) /\ Close(i)
    /\ UNCHANGED <<serverVars, sent, reloads, warned, overlapped>>

ReceiveOk(i) ==
    /\ patch[i].st = "ok"
    /\ page' = [page EXCEPT !.held = patch[i].got, !.url = SyncUrl(i)]
    /\ patch' = [patch EXCEPT ![i].st = "refetch"]
    /\ UNCHANGED <<serverVars, inFlight, sent, reloads, warned, overlapped>>

\* 412: the page stays stale until it is reloaded.
\* A bug: the page takes the current hash and lets the reviewer try again.
ReceiveConflictAdopting(i) ==
    /\ patch[i].st = "conflict"
    /\ page' = [page EXCEPT !.held = IF man = None THEN @ ELSE man, !.local = RolledBack(i)]
    /\ Settled(i) /\ Close(i)
    /\ UNCHANGED <<serverVars, sent, reloads, warned, overlapped>>

ReceiveConflict(i) ==
    /\ patch[i].st = "conflict"
    /\ page' = [page EXCEPT !.stale = TRUE, !.local = RolledBack(i)]
    /\ Settled(i) /\ Close(i)
    /\ UNCHANGED <<serverVars, sent, reloads, warned, overlapped>>

\* Any other refusal; nothing is said of a no-op.
\* A bug: a handler that returns before its finally.
ReceiveRefusalNoFinally(i) ==
    /\ patch[i].st \in Refusals
    /\ page' = [page EXCEPT !.local = RolledBack(i)]
    /\ Close(i)
    /\ UNCHANGED <<serverVars, inFlight, sent, reloads, warned, overlapped>>

ReceiveRefusal(i) ==
    /\ patch[i].st \in Refusals
    /\ page' = [page EXCEPT !.local = RolledBack(i)]
    /\ Settled(i) /\ Close(i)
    /\ UNCHANGED <<serverVars, sent, reloads, warned, overlapped>>

\* Ten seconds without an answer, or the network fails.  The server may still
\* apply the edit.
TimeOut(i) ==
    /\ patch[i].st \in {"sent"} \cup Results
    /\ page' = [page EXCEPT !.local = RolledBack(i)]
    /\ patch' = [patch EXCEPT ![i] = IF @.st = "sent" THEN Abandoned(@) ELSE Gone]
    /\ Settled(i)
    /\ UNCHANGED <<serverVars, sent, reloads, warned, overlapped>>

\* The re-fetch reaches the server ...
Refetch(i) ==
    /\ patch[i].st = "refetch"
    /\ open_artifact(ann)
    /\ patch' = [patch EXCEPT ![i].st = "fetched", ![i].got = ann]
    /\ UNCHANGED <<serverVars, page, inFlight, sent, reloads, warned, overlapped>>

\* ... and its answer the page.
Deliver(i) ==
    /\ patch[i].st = "fetched"
    /\ page' = ShowAnnotation(patch[i].got)
    /\ warned' = FALSE
    /\ Settled(i) /\ Close(i)
    /\ UNCHANGED <<serverVars, sent, reloads, overlapped>>

\* The gap of a publication, an error of the server, the network.
RefetchFails(i) ==
    /\ patch[i].st \in {"refetch", "fetched"}
    /\ warned' = TRUE
    /\ Settled(i) /\ Close(i)
    /\ UNCHANGED <<serverVars, page, sent, reloads, overlapped>>

Receive(i) == ReceiveOk(i) \/ ReceiveConflict(i) \/ ReceiveRefusal(i) \/ TimeOut(i)
              \/ Refetch(i) \/ Deliver(i) \/ RefetchFails(i)

Next ==
    \/ \E i \in Ids : Accept(i) \/ Commit(i) \/ Refuse(i) \/ Receive(i)
    \/ \E k \in Kinds, v \in Values : OtherEdit(k, v)
    \/ OtherCommits \/ Withdraw \/ PublisherDies
    \/ \E g \in Gens : Install(g)
    \/ LoadIndex \/ LoadManifest \/ LoadManifestFails \/ LoadAnnotation
    \/ \E keep \in BOOLEAN : Reload(keep)
    \/ \E v \in Values : onPhaseEdit(v) \/ onReviewedToggle(v) \/ onLabelsEdit(v)
                         \/ onPointerUp(v) \/ onKeyDown(v)
    \/ onPointerDown

Spec == Init /\ [][Next]_vars

\* The timer of editClient and its siblings in lib/: a PATCH whose headers have not
\* come after ten seconds is given up.
TimerFires == \A i \in Ids : WF_vars(patch[i].st = "sent" /\ TimeOut(i))

\* Two assumptions about the network that no timer in the code enforces.  The one of
\* editClient is cleared when the headers are there (editClient.ts:113), before the
\* body is read (:126), and fetchRetry has none: without them a server that hangs
\* there keeps the flag set, since the finally of the handler is behind the await.
BodiesEnd ==
    \A i \in Ids :
        WF_vars(/\ patch[i].st \in Results
                /\ ReceiveOk(i) \/ ReceiveConflict(i) \/ ReceiveRefusal(i) \/ TimeOut(i))
RefetchesEnd == \A i \in Ids : WF_vars(Refetch(i) \/ Deliver(i) \/ RefetchFails(i))

FairSpec == Spec /\ TimerFires /\ BodiesEnd /\ RefetchesEnd
-----------------------------------------------------------------------------
(* Properties. *)

\* Nobody overwrites what he has not been shown: in the version whose hash the
\* tab sends as If-Match, every edit of another reviewer is one the page shows,
\* whatever was re-fetched, failed, overlapped or came late (RunViewer.tsx takes
\* hash and annotation from separate requests).
NoBlindEdit ==
    Editable /\ ~replaced =>
        \A n \in Others(page.held) :
            n \in DOMAIN page.shown.edits /\ page.shown.edits[n] = page.held.edits[n]

\* A page at rest shows all of the version it would edit, its own edits included,
\* unless it has said that its view may be stale or two edits overlapped.
HeldIsShown ==
    Editable /\ ~Busy /\ ~warned /\ ~overlapped /\ ~replaced =>
        \E n \in 0..Len(page.shown.edits) : page.held.edits = SubSeq(page.shown.edits, 1, n)

\* The controls come back: every flag that is set is cleared (the finally of the four
\* handlers), also when a PATCH is never answered, refused, or followed by a re-fetch
\* that fails, and however the edits overlap, as long as a body or a re-fetch that
\* has begun ends (BodiesEnd, RefetchesEnd).
ControlsComeBack == Busy ~> ~Busy

\* The URL of a page that was opened with ?hash= names the version the page would
\* edit, so that a reload finds the run: it lags behind by review marks, which
\* onReviewedToggle does not sync (and by what others wrote while the page was
\* loading), never by another edit of the tab, in whatever order edits are
\* answered, given up and refused (RunViewer.tsx:185-202).
UrlLagsByReviewsOnly ==
    page.st = "loaded" /\ page.url # None /\ ~replaced /\ reloads = 0 =>
        LET url == page.url.edits
            held == page.held.edits
        IN  /\ Len(url) <= Len(held)
            /\ url = SubSeq(held, 1, Len(url))
            /\ \A n \in Len(url) + 1 .. Len(held) :
                   held[n].by = "tab" => held[n].kind = "reviewed"
=============================================================================
