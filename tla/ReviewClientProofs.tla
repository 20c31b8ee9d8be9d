------------------------- MODULE ReviewClientProofs -------------------------
(***************************************************************************)
(* The promises of the review page, ReviewClient, for any number of edits, *)
(* reviewers, publications and reloads.                                    *)
(*                                                                         *)
(* NoBlindEdit: nobody overwrites what he has not been shown.  The         *)
(* property compares the two versions the page has; what carries it is a   *)
(* statement about all versions under way: whatever the tab may come to    *)
(* hold is covered by whatever it may come to show (Inv).                  *)
(*                                                                         *)
(* HeldIsShown: at rest the table shows what the next edit would change.   *)
(* HeldInv says that the run only grows past what the tab has of it, and   *)
(* that the page waits for one request at a time.                          *)
(*                                                                         *)
(* UrlLagsByReviewsOnly: the URL names the version held but for review     *)
(* marks.  UrlInv says that an answered edit is exactly one step ahead of  *)
(* the version held, so that a handler that puts its hash into the URL     *)
(* skips nothing.                                                          *)
(***************************************************************************)
EXTENDS ReviewClient, WellFoundedInduction, SequenceTheorems, TLAPS

MaybeVersion == Version \cup {None}
Stages == {"none", "gone", "sent", "abandoned", "refetch", "fetched"} \cup Results
Patches == [st : Stages, kind : Kinds, value : Values, old : Values,
            base : MaybeVersion, got : MaybeVersion]
PageStages == {"loading", "selected", "no-match", "error", "loaded", "slot-error"}
Pages == [st : PageStages, held : MaybeVersion, shown : MaybeVersion, url : MaybeVersion,
          stale : BOOLEAN, local : [Optimistic -> Values], drag : Values \cup {None}]

Typed ==
    /\ ann \in MaybeVersion /\ man \in MaybeVersion
    /\ page \in Pages
    /\ patch \in [Ids -> Patches]
    /\ sent \in 0 .. MaxEdits

\* What v has of other reviewers is in w, in the same place.
Covers(w, v) ==
    \A n \in Others(v) : n \in DOMAIN w.edits /\ w.edits[n] = v.edits[n]

\* The run has been read into the page.
Open == page.st \in {"loaded", "slot-error"}
\* Requests whose answer can still reach the page.
Live == {"sent", "ok", "refetch", "fetched"}

\* The versions the tab holds, has sent as If-Match, or is about to be answered.
Bases ==
    {page.held} \cup {patch[i].base : i \in {i \in Ids : patch[i].st = "sent"}}
                \cup {patch[i].got : i \in {i \in Ids : patch[i].st = "ok"}}
\* The annotations the tab shows, is about to be delivered, or could fetch.
Shows ==
    ({ann, page.shown} \cup {patch[i].got : i \in {i \in Ids : patch[i].st = "fetched"}})
        \ {None}
AllCovered == Open /\ ~replaced => \A v \in Bases, w \in Shows : Covers(w, v)

\* annotation.json is never behind manifest.json, and ahead of it only under the lock.
ManifestBehind ==
    /\ man # None => Covers(ann, man)
    /\ writer = None /\ man # None => ann = man
    /\ writer = Publisher => man = None

\* Who edits has written one edit of the tab past the version it was sent with.
WrittenOnBase(i) ==
    /\ patch[i].base \in Version
    /\ \E e \in Edit : e.by = "tab" /\ ann = After(patch[i].base, e)
WriterHasBase ==
    \A i \in Ids : writer = i => i <= sent /\ (patch[i].st = "sent" => WrittenOnBase(i))

SentInTurn == \A i \in Ids : i > sent => patch[i].st = "none"
FetchedIsThere == \A i \in Ids : patch[i].st = "fetched" => patch[i].got # None

\* Before the run is read nothing is shown, dragged or under way.
ClosedIsEmpty ==
    ~Open => page.shown = None /\ page.drag = None /\ \A i \in Ids : patch[i].st \notin Live

Inv == /\ Typed /\ ManifestBehind /\ WriterHasBase /\ SentInTurn /\ FetchedIsThere
       /\ ClosedIsEmpty /\ AllCovered

-----------------------------------------------------------------------------
(* Versions. *)

\* Replacing the edits of a version gives a version.
LEMMA WithEdits ==
    ASSUME NEW G, NEW S, NEW v \in [gen : G, edits : S], NEW x \in S
    PROVE  [v EXCEPT !.edits = x] \in [gen : G, edits : S] /\ [v EXCEPT !.edits = x].edits = x
  OBVIOUS

\* An edit is put behind those a version has.
LEMMA Edited ==
    ASSUME NEW v \in Version, NEW e \in Edit
    PROVE  /\ After(v, e) \in Version
           /\ DOMAIN v.edits = 1 .. Len(v.edits) /\ Len(v.edits) \in Nat
           /\ DOMAIN After(v, e).edits = 1 .. Len(v.edits) + 1
           /\ \A n \in 1 .. Len(v.edits) : After(v, e).edits[n] = v.edits[n]
           /\ After(v, e).edits[Len(v.edits) + 1] = e
<1> DEFINE s == v.edits
<1>1. s \in Seq(Edit)
  BY DEF Version
<1>3. Append(s, e) \in Seq(Edit)
  BY <1>1, AppendProperties
<1>4. After(v, e) \in Version /\ After(v, e).edits = Append(s, e)
  BY <1>3, WithEdits DEF After, Version
<1>5. /\ DOMAIN s = 1 .. Len(s) /\ Len(s) \in Nat
      /\ Len(Append(s, e)) = Len(s) + 1
      /\ \A n \in 1 .. Len(s) : Append(s, e)[n] = s[n]
      /\ Append(s, e)[Len(s) + 1] = e
  BY <1>1, AppendProperties, LenProperties
<1>6. DOMAIN Append(s, e) = 1 .. Len(s) + 1
  BY <1>3, <1>5, LenProperties
<1> HIDE DEF s
<1>7. \A n \in 1 .. Len(s) : After(v, e).edits[n] = s[n]
  BY <1>4, <1>5, Zenon
<1>8. After(v, e).edits[Len(s) + 1] = e /\ DOMAIN After(v, e).edits = 1 .. Len(s) + 1
  BY <1>4, <1>5, <1>6, Zenon
<1> QED
  BY <1>4, <1>5, <1>7, <1>8, Zenon DEF s

\* An automatic annotation is a version.
LEMMA FreshIsVersion ==
    ASSUME NEW g \in Gens
    PROVE  Fresh(g) \in Version
  BY EmptySeq DEF Fresh, Version

\* A version covers itself.
LEMMA CoversItself ==
    ASSUME NEW v
    PROVE  Covers(v, v)
  BY DEF Covers, Others

\* What was covered stays covered whatever is edited on top.
LEMMA CoversAfter ==
    ASSUME NEW w \in Version, NEW e \in Edit, NEW v, Covers(w, v)
    PROVE  Covers(After(w, e), v)
<1> SUFFICES ASSUME NEW n \in Others(v)
             PROVE  n \in DOMAIN After(w, e).edits /\ After(w, e).edits[n] = v.edits[n]
  BY DEF Covers
<1>1. n \in DOMAIN w.edits /\ w.edits[n] = v.edits[n]
  BY DEF Covers
<1>2. /\ DOMAIN w.edits = 1 .. Len(w.edits) /\ Len(w.edits) \in Nat
      /\ DOMAIN After(w, e).edits = 1 .. Len(w.edits) + 1
      /\ \A m \in 1 .. Len(w.edits) : After(w, e).edits[m] = w.edits[m]
  BY Edited, Zenon
<1>3. n \in 1 .. Len(w.edits) /\ n \in 1 .. Len(w.edits) + 1
  BY <1>1, <1>2
<1> QED
  BY <1>1, <1>2, <1>3, Zenon

\* An edit of the tab asks for no more to be covered.
LEMMA AfterIsCovered ==
    ASSUME NEW v \in Version, NEW e \in Edit, e.by = "tab", NEW w, Covers(w, v)
    PROVE  Covers(w, After(v, e))
<1> SUFFICES ASSUME NEW n \in Others(After(v, e))
             PROVE  n \in DOMAIN w.edits /\ w.edits[n] = After(v, e).edits[n]
  BY DEF Covers
<1>1. n \in 1 .. Len(v.edits) + 1 /\ After(v, e).edits[n].by = "other" /\ Len(v.edits) \in Nat
  BY Edited DEF Others
<1>2. n # Len(v.edits) + 1
  BY <1>1, Edited
<1>3. n \in 1 .. Len(v.edits)
  BY <1>1, <1>2
<1>4. n \in Others(v) /\ After(v, e).edits[n] = v.edits[n]
  BY <1>1, <1>3, Edited DEF Others
<1> QED
  BY <1>4 DEF Covers

\* A nonempty set of positions has a last one.
LEMMA LastOf ==
    ASSUME NEW n \in Nat, NEW T \in SUBSET (1 .. n), T # {}
    PROVE  Max(T) \in T
<1> DEFINE R == OpToRel(<, Nat)
           D == {n - x : x \in T}
<1>1. \A x, y \in Nat : <<x, y>> \in R <=> x < y
  BY DEF OpToRel
<1>2. IsWellFoundedOn(R, Nat)
  BY NatLessThanWellFounded
<1>3. D \in SUBSET Nat /\ D # {}
  <2>1. \A x \in T : n - x \in Nat
    OBVIOUS
  <2>2. PICK x \in T : TRUE
    OBVIOUS
  <2>3. n - x \in D
    BY <2>2
  <2> QED
    BY <2>1, <2>3
<1> HIDE DEF R
<1>4. PICK d \in D : \A y \in D : ~(<<y, d>> \in R)
  <2> HIDE DEF D
  <2> QED
    BY <1>2, <1>3, WFMin
<1>5. \A y \in D : y \in Nat /\ ~(y < d)
  BY <1>1, <1>3, <1>4, Zenon
<1>6. PICK x \in T : d = n - x
  OBVIOUS
<1>7. \A y \in T : x >= y
  <2> SUFFICES ASSUME NEW y \in T
               PROVE  x >= y
    OBVIOUS
  <2>1. n - y \in D /\ x \in Nat /\ y \in Nat
    OBVIOUS
  <2>2. ~(n - y < n - x)
    BY <1>5, <1>6, <2>1
  <2> QED
    BY <2>1, <2>2
<1> QED
  BY <1>7 DEF Max

\* A field of a version has a value.
LEMMA ValueIsValue ==
    ASSUME NEW v \in Version, NEW k
    PROVE  Value(v, k) \in Values
<1> DEFINE of == {i \in DOMAIN v.edits : v.edits[i].kind = k}
<1>1. v.edits \in Seq(Edit)
  BY DEF Version
<1>2. DOMAIN v.edits = 1 .. Len(v.edits) /\ Len(v.edits) \in Nat
  BY <1>1, LenProperties
<1>3. CASE of = {}
  BY <1>3, ClientAssumption DEF Value
<1>4. CASE of # {}
  <2>1. Max(of) \in of
    BY <1>2, <1>4, LastOf
  <2>2. v.edits[Max(of)] \in Edit
    BY <1>1, <1>2, <2>1, ElementOfSeq
  <2>3. Value(v, k) = v.edits[Max(of)].value
    BY <1>4 DEF Value
  <2> QED
    BY <2>2, <2>3 DEF Edit
<1> QED
  BY <1>3, <1>4

-----------------------------------------------------------------------------
(* Pages and requests. *)

\* The parts of a page the invariant speaks of.
SamePage(q, p) == q.st = p.st /\ q.held = p.held /\ q.shown = p.shown /\ q.drag = p.drag

\* What the handlers write into the page.
LEMMA PageWrites ==
    ASSUME NEW p \in Pages
    PROVE  /\ \A st \in PageStages :
                 /\ [p EXCEPT !.st = st] \in Pages /\ [p EXCEPT !.st = st].st = st
                 /\ [p EXCEPT !.st = st].held = p.held /\ [p EXCEPT !.st = st].shown = p.shown
                 /\ [p EXCEPT !.st = st].drag = p.drag
           /\ \A d \in Values \cup {None} :
                 /\ [p EXCEPT !.drag = d] \in Pages /\ [p EXCEPT !.drag = d].st = p.st
                 /\ [p EXCEPT !.drag = d].held = p.held /\ [p EXCEPT !.drag = d].shown = p.shown
                 /\ [p EXCEPT !.drag = d].drag = d
           /\ \A l \in [Optimistic -> Values] :
                 /\ [p EXCEPT !.local = l] \in Pages /\ SamePage([p EXCEPT !.local = l], p)
                 /\ [p EXCEPT !.stale = TRUE, !.local = l] \in Pages
                 /\ SamePage([p EXCEPT !.stale = TRUE, !.local = l], p)
  BY DEF Pages, SamePage

\* A new If-Match, and the URL with it.
LEMMA PageHolds ==
    ASSUME NEW p \in Pages, NEW v \in MaybeVersion, NEW u \in MaybeVersion
    PROVE  LET q == [p EXCEPT !.held = v, !.url = u]
           IN  q \in Pages /\ q.st = p.st /\ q.held = v /\ q.shown = p.shown /\ q.drag = p.drag
  BY DEF Pages

\* The manifest is there: the page can be shown.
LEMMA PageLoads ==
    ASSUME NEW p \in Pages, NEW v \in MaybeVersion
    PROVE  LET q == [p EXCEPT !.st = "loaded", !.held = v]
           IN  q \in Pages /\ q.st = "loaded" /\ q.held = v /\ q.shown = p.shown /\ q.drag = p.drag
  BY DEF Pages, PageStages

\* An annotation is shown, and the controls follow it where it changed.
LEMMA PageShows ==
    ASSUME page \in Pages, NEW v \in Version
    PROVE  LET q == ShowAnnotation(v)
           IN  q \in Pages /\ q.st = page.st /\ q.held = page.held /\ q.shown = v /\ q.drag = page.drag
<1> DEFINE l == [k \in Optimistic |->
                    IF page.shown = None \/ Value(v, k) # Value(page.shown, k)
                    THEN Value(v, k) ELSE page.local[k]]
<1>1. ASSUME NEW k \in Optimistic
      PROVE  l[k] \in Values
  <2>1. Value(v, k) \in Values /\ page.local[k] \in Values
    BY <1>1, ValueIsValue DEF Pages
  <2> QED
    BY <1>1, <2>1
<1>2. l \in [Optimistic -> Values]
  BY <1>1
<1>3. ShowAnnotation(v) = [page EXCEPT !.shown = v, !.local = l] /\ v \in MaybeVersion
  BY DEF ShowAnnotation, MaybeVersion
<1> HIDE DEF l
<1> QED
  BY <1>2, <1>3 DEF Pages

\* The page while an edit is under way.
Sending(p, k, v, d) ==
    [p EXCEPT !.drag = d, !.local = IF k \in Optimistic THEN [@ EXCEPT ![k] = v] ELSE @]

\* A control is optimistic about an edit, and a drag begins or ends with it.
LEMMA PageSends ==
    ASSUME NEW p \in Pages, NEW k, NEW v \in Values, NEW d \in Values \cup {None}
    PROVE  LET q == Sending(p, k, v, d)
           IN  q \in Pages /\ q.st = p.st /\ q.held = p.held /\ q.shown = p.shown /\ q.drag = d
<1> DEFINE l == IF k \in Optimistic THEN [p.local EXCEPT ![k] = v] ELSE p.local
<1>1. p.local \in [Optimistic -> Values]
  BY DEF Pages
<1>2. [p.local EXCEPT ![k] = v] \in [Optimistic -> Values]
  BY <1>1
<1>3. l \in [Optimistic -> Values]
  BY <1>1, <1>2, Zenon
<1>4. Sending(p, k, v, d) = [p EXCEPT !.drag = d, !.local = l]
  BY DEF Sending
<1> HIDE DEF l
<1> QED
  BY <1>3, <1>4 DEF Pages

\* A page that begins to load has nothing.
LEMMA PageIsNew ==
    ASSUME NEW u \in MaybeVersion
    PROVE  /\ NewPage(u) \in Pages
           /\ NewPage(u).st = "loading" /\ NewPage(u).shown = None /\ NewPage(u).drag = None
           /\ NewPage(u).held = None
<1>1. [k \in Optimistic |-> FirstValue] \in [Optimistic -> Values]
  BY ClientAssumption
<1> QED
  BY <1>1 DEF NewPage, Pages, PageStages, MaybeVersion

\* What becomes of a request.
LEMMA PatchWrites ==
    ASSUME NEW p \in Patches
    PROVE  /\ \A st \in Stages :
                 /\ [p EXCEPT !.st = st] \in Patches /\ [p EXCEPT !.st = st].st = st
                 /\ [p EXCEPT !.st = st].base = p.base /\ [p EXCEPT !.st = st].got = p.got
           /\ Gone \in Patches /\ Gone.st = "gone"
           /\ Abandoned(p) \in Patches /\ Abandoned(p).st = "abandoned"
           /\ NoPatch \in Patches /\ NoPatch.st = "none"
<1>1. NoPatch \in Patches /\ NoPatch.st = "none"
  BY ClientAssumption DEF NoPatch, Patches, Stages, Kinds, MaybeVersion
<1>2. Gone \in Patches /\ Gone.st = "gone"
  BY <1>1 DEF Gone, Patches, Stages
<1>3. Abandoned(p) \in Patches /\ Abandoned(p).st = "abandoned"
  BY ClientAssumption DEF Abandoned, Patches, Stages
<1>4. \A st \in Stages :
         /\ [p EXCEPT !.st = st] \in Patches /\ [p EXCEPT !.st = st].st = st
         /\ [p EXCEPT !.st = st].base = p.base /\ [p EXCEPT !.st = st].got = p.got
  BY DEF Patches
<1> QED
  BY <1>1, <1>2, <1>3, <1>4

\* A request gets a version: the ETag of its answer, or what it fetched.
LEMMA PatchGets ==
    ASSUME NEW p \in Patches, NEW st \in Stages, NEW v \in MaybeVersion
    PROVE  LET q == [p EXCEPT !.st = st, !.got = v]
           IN  q \in Patches /\ q.st = st /\ q.base = p.base /\ q.got = v
  BY DEF Patches

\* One request changes and the others do not.
LEMMA OnePatch ==
    ASSUME NEW f \in [Ids -> Patches], NEW i \in Ids, NEW x \in Patches
    PROVE  /\ [f EXCEPT ![i] = x] \in [Ids -> Patches] /\ [f EXCEPT ![i] = x][i] = x
           /\ \A j \in Ids : j # i => [f EXCEPT ![i] = x][j] = f[j]
  OBVIOUS

-----------------------------------------------------------------------------
(* The invariant. *)

\* A page that begins to load holds and shows nothing.
LEMMA InvInit == Init => Inv
<1> SUFFICES ASSUME NEW g \in Gens, NEW u \in MaybeVersion,
                    ann = Fresh(g), man = Fresh(g), writer = None, page = NewPage(u),
                    patch = [i \in Ids |-> NoPatch], sent = 0, ~replaced
             PROVE  Inv
  <2>1. \A g \in Gens : Fresh(g) \in MaybeVersion /\ None \in MaybeVersion
    BY FreshIsVersion DEF MaybeVersion
  <2> QED
    BY <2>1 DEF Init
<1>1. Fresh(g) \in MaybeVersion /\ \A i \in Ids : writer # i
  BY FreshIsVersion, ClientAssumption DEF MaybeVersion
<1>2. NoPatch \in Patches /\ NoPatch.st = "none"
  BY ClientAssumption DEF NoPatch, Patches, Stages, Kinds, MaybeVersion
<1>3. \A i \in Ids : patch[i].st = "none"
  BY <1>2
<1>4. Typed
  BY <1>1, <1>2, PageIsNew, ClientAssumption DEF Typed
<1>5. ManifestBehind
  BY ClientAssumption, CoversItself DEF ManifestBehind
<1>6. WriterHasBase /\ SentInTurn /\ FetchedIsThere
  BY <1>1, <1>3 DEF WriterHasBase, SentInTurn, FetchedIsThere
<1>7. ~Open /\ ClosedIsEmpty /\ AllCovered
  BY <1>3, PageIsNew DEF Open, ClosedIsEmpty, AllCovered, Live
<1> QED
  BY <1>4, <1>5, <1>6, <1>7 DEF Inv

\* What the tab makes of an answer, a time-out or a re-fetch: a request moves on and
\* the page takes what was under way to it.
LEMMA AnswerStep ==
    ASSUME Inv, NEW i \in Ids, Typed', UNCHANGED <<ann, man, writer, sent, replaced>>,
           page'.st = page.st, page'.drag = page.drag,
           page'.held \in Bases, page'.shown \in Shows \cup {page.shown},
           page'.shown # page.shown => patch[i].st \in Live,
           \A j \in Ids : j # i => patch'[j] = patch[j],
           patch[i].st # "none", patch'[i].st \notin {"none", "sent"},
           patch'[i].st = "ok" => patch[i].st = "ok" /\ patch'[i].got = patch[i].got,
           patch'[i].st = "fetched" => patch'[i].got \in Shows,
           patch'[i].st \in Live => patch[i].st \in Live
    PROVE  Inv'
<1>1. Open' <=> Open
  BY DEF Open
<1>2. ManifestBehind'
  BY DEF Inv, ManifestBehind
<1>3. SentInTurn'
  BY DEF Inv, SentInTurn
<1>4. WriterHasBase'
  <2> SUFFICES ASSUME NEW k \in Ids, writer = k
               PROVE  k <= sent /\ (patch'[k].st = "sent" => WrittenOnBase(k)')
    BY DEF WriterHasBase
  <2>1. k <= sent /\ (patch[k].st = "sent" => WrittenOnBase(k))
    BY DEF Inv, WriterHasBase
  <2>2. patch'[k].st = "sent" => patch'[k] = patch[k]
    OBVIOUS
  <2> QED
    BY <2>1, <2>2 DEF WrittenOnBase
<1>5. FetchedIsThere'
  BY DEF Inv, FetchedIsThere, Shows
<1>6. ClosedIsEmpty'
  BY <1>1 DEF Inv, ClosedIsEmpty
<1>7. Bases' \subseteq Bases
  BY DEF Bases
<1>8. Shows' \subseteq Shows
  BY DEF Shows
<1>9. AllCovered'
  BY <1>1, <1>7, <1>8 DEF Inv, AllCovered
<1> QED
  BY <1>2, <1>3, <1>4, <1>5, <1>6, <1>9 DEF Inv

\* An edit is written into annotation.json.
LEMMA WriteStep ==
    ASSUME Inv, NEW e \in Edit, writer = None, man # None, ann' = After(ann, e),
           writer' \notin {None, Publisher},
           UNCHANGED <<man, page, patch, sent, replaced>>,
           \A i \in Ids : writer' = i => i <= sent /\ (patch[i].st = "sent" => WrittenOnBase(i)')
    PROVE  Inv'
<1>1. ann = man /\ ann \in Version /\ After(ann, e) \in Version
  BY Edited DEF Inv, ManifestBehind, Typed, MaybeVersion
<1>2. Typed'
  BY <1>1 DEF Inv, Typed, MaybeVersion
<1>3. ManifestBehind'
  <2>1. Covers(ann', man)
    BY <1>1, CoversItself, CoversAfter
  <2> QED
    BY <2>1 DEF ManifestBehind
<1>4. WriterHasBase' /\ SentInTurn' /\ FetchedIsThere' /\ ClosedIsEmpty'
  BY DEF Inv, WriterHasBase, SentInTurn, FetchedIsThere, ClosedIsEmpty, Open
<1>5. AllCovered'
  <2> SUFFICES ASSUME Open, ~replaced, NEW v \in Bases, NEW w \in Shows'
               PROVE  Covers(w, v)
    BY DEF AllCovered, Open, Bases
  <2>1. CASE w = ann'
    <3>1. ann \in Shows
      BY <1>1 DEF Shows
    <3> QED
      BY <1>1, <2>1, <3>1, CoversAfter DEF Inv, AllCovered
  <2>2. CASE w \in Shows
    BY <2>2 DEF Inv, AllCovered
  <2> QED
    BY <2>1, <2>2 DEF Shows
<1> QED
  BY <1>2, <1>3, <1>4, <1>5 DEF Inv

\* The routes that accept an edit: the version it was sent with is the current one.
LEMMA AcceptStep ==
    ASSUME Inv, NEW i \in Ids, Accept(i)
    PROVE  Inv'
<1> DEFINE e == [by |-> "tab", kind |-> patch[i].kind, value |-> patch[i].value]
<1>1. patch[i] \in Patches /\ patch[i].st # "none"
  BY DEF Inv, Typed, Accept
<1>2. e \in Edit /\ e.by = "tab"
  BY <1>1 DEF Edit, Patches
<1>3. /\ writer = None /\ man # None /\ man = patch[i].base /\ ann' = After(ann, e) /\ writer' = i
      /\ UNCHANGED <<man, page, patch, sent, replaced>>
  BY DEF Accept, tabVars
<1> HIDE DEF e
<1>4. ann = man /\ man \in Version
  BY <1>3 DEF Inv, ManifestBehind, Typed, MaybeVersion
<1>5. writer' \notin {None, Publisher}
  BY <1>3, ClientAssumption
<1>6. i <= sent
  <2>1. i \in Nat /\ sent \in Nat
    BY ClientAssumption DEF Inv, Typed, Ids
  <2> QED
    BY <1>1, <2>1 DEF Inv, SentInTurn
<1>7. WrittenOnBase(i)'
  BY <1>2, <1>3, <1>4 DEF WrittenOnBase
<1>8. \A k \in Ids : writer' = k => k <= sent /\ (patch[k].st = "sent" => WrittenOnBase(k)')
  BY <1>3, <1>6, <1>7
<1> QED
  BY <1>2, <1>3, <1>5, <1>8, WriteStep

\* Another reviewer's edit.
LEMMA OtherEditStep ==
    ASSUME Inv, NEW k \in Kinds, NEW v \in Values, OtherEdit(k, v)
    PROVE  Inv'
<1> DEFINE e == [by |-> "other", kind |-> k, value |-> v]
<1>1. e \in Edit
  BY DEF Edit
<1>2. /\ writer = None /\ man # None /\ ann' = After(ann, e) /\ writer' = Other
      /\ UNCHANGED <<man, page, patch, sent, replaced>>
  BY DEF OtherEdit, tabVars
<1> HIDE DEF e
<1>3. writer' \notin {None, Publisher} /\ \A i \in Ids : writer' # i
  BY <1>2, ClientAssumption
<1> QED
  BY <1>1, <1>2, <1>3, WriteStep

\* The edit is complete, and its hash is the ETag: a version the tab may come to hold.
LEMMA CommitStep ==
    ASSUME Inv, NEW i \in Ids, Commit(i)
    PROVE  Inv'
<1>1. /\ writer = i /\ man' = ann /\ writer' = None
      /\ UNCHANGED <<ann, page, sent, replaced>>
      /\ \A j \in Ids : writer' # j
  BY ClientAssumption DEF Commit
<1>2. ann \in MaybeVersion /\ patch[i] \in Patches
  BY DEF Inv, Typed
<1> DEFINE x == IF patch[i].st = "sent" THEN [patch[i] EXCEPT !.st = "ok", !.got = ann] ELSE Gone
<1>3. patch' = [patch EXCEPT ![i] = x]
  BY DEF Commit
<1>4. x \in Patches
  <2>1. "ok" \in Stages
    BY DEF Stages, Results
  <2>2. [patch[i] EXCEPT !.st = "ok", !.got = ann] \in Patches
    BY <1>2, <2>1, PatchGets, Zenon
  <2>3. Gone \in Patches
    BY <1>2, PatchWrites, Zenon
  <2> QED
    BY <2>2, <2>3, Zenon
<1>5. x.st \in {"ok", "gone"} /\ (x.st = "ok" => patch[i].st = "sent" /\ x.got = ann)
  <2>1. CASE patch[i].st = "sent"
    <3>1. "ok" \in Stages
      BY DEF Stages, Results
    <3>2. x = [patch[i] EXCEPT !.st = "ok", !.got = ann]
      BY <2>1
    <3>3. /\ [patch[i] EXCEPT !.st = "ok", !.got = ann].st = "ok"
          /\ [patch[i] EXCEPT !.st = "ok", !.got = ann].got = ann
      BY <1>2 DEF Patches
    <3> QED
      BY <2>1, <3>3
  <2>2. CASE patch[i].st # "sent"
    <3>1. x = Gone
      BY <2>2
    <3>2. x.st = "gone"
      BY <1>2, <3>1, PatchWrites, Zenon
    <3> QED
      BY <3>2
  <2> QED
    BY <2>1, <2>2
<1> HIDE DEF x
<1>6. /\ patch' \in [Ids -> Patches] /\ patch'[i] = x
      /\ \A j \in Ids : j # i => patch'[j] = patch[j]
  BY <1>3, <1>4 DEF Inv, Typed
<1>7. i <= sent /\ (patch[i].st = "sent" => WrittenOnBase(i))
  BY <1>1 DEF Inv, WriterHasBase
<1>8. Typed'
  BY <1>1, <1>6 DEF Inv, Typed
<1>9. ManifestBehind'
  BY <1>1, CoversItself, ClientAssumption DEF ManifestBehind
<1>10. WriterHasBase'
  BY <1>1 DEF WriterHasBase
<1>11. SentInTurn'
  BY <1>1, <1>6, <1>7, ClientAssumption DEF Inv, SentInTurn, Typed, Ids
<1>12. FetchedIsThere' /\ Shows' \subseteq Shows
  BY <1>1, <1>5, <1>6 DEF Inv, FetchedIsThere, Shows
<1>13. ClosedIsEmpty'
  BY <1>1, <1>5, <1>6 DEF Inv, ClosedIsEmpty, Open, Live
<1>14. AllCovered'
  <2> SUFFICES ASSUME Open, ~replaced, NEW v \in Bases', NEW w \in Shows
               PROVE  Covers(w, v)
    BY <1>1, <1>12 DEF AllCovered, Open
  <2>1. CASE v \in Bases
    BY <2>1 DEF Inv, AllCovered
  <2>2. CASE patch[i].st = "sent" /\ v = ann
    <3>1. patch[i].base \in Bases
      BY <2>2 DEF Bases
    <3>2. Covers(w, patch[i].base)
      BY <3>1 DEF Inv, AllCovered
    <3> QED
      BY <1>7, <2>2, <3>2, AfterIsCovered DEF WrittenOnBase
  <2>3. v \in Bases \/ (patch[i].st = "sent" /\ v = ann)
    BY <1>1, <1>5, <1>6 DEF Bases
  <2> QED
    BY <2>1, <2>2, <2>3
<1> QED
  BY <1>8, <1>9, <1>10, <1>11, <1>12, <1>13, <1>14 DEF Inv

\* The other writers finish, and a publication takes the run away or puts one there.
LEMMA WriterSteps ==
    ASSUME Inv, OtherCommits \/ Withdraw \/ PublisherDies \/ \E g \in Gens : Install(g)
    PROVE  Inv'
<1>1. UNCHANGED <<page, patch, sent>>
  BY DEF OtherCommits, Withdraw, PublisherDies, Install, tabVars
<1>2. /\ ann' \in {ann, None} \/ replaced'
      /\ ~replaced' => ~replaced
      /\ \A i \in Ids : writer' # i
  BY ClientAssumption DEF OtherCommits, Withdraw, PublisherDies, Install
<1>3. ann' \in MaybeVersion /\ man' \in MaybeVersion
  BY FreshIsVersion
     DEF Inv, Typed, MaybeVersion, OtherCommits, Withdraw, PublisherDies, Install
<1>4. Typed'
  BY <1>1, <1>3 DEF Inv, Typed
<1>5. ManifestBehind'
  <2>1. CASE OtherCommits
    BY <2>1, CoversItself, ClientAssumption DEF ManifestBehind, OtherCommits
  <2>2. CASE Withdraw
    BY <2>2 DEF ManifestBehind, Withdraw
  <2>3. CASE PublisherDies
    BY <2>3, ClientAssumption DEF Inv, ManifestBehind, PublisherDies
  <2>4. CASE \E g \in Gens : Install(g)
    BY <2>4, CoversItself, ClientAssumption DEF ManifestBehind, Install
  <2> QED
    BY <2>1, <2>2, <2>3, <2>4
<1>6. WriterHasBase' /\ SentInTurn' /\ FetchedIsThere' /\ ClosedIsEmpty'
  BY <1>1, <1>2 DEF Inv, WriterHasBase, SentInTurn, FetchedIsThere, ClosedIsEmpty, Open
<1>7. AllCovered'
  <2> SUFFICES ASSUME Open, ~replaced'
               PROVE  \A v \in Bases, w \in Shows' : Covers(w, v)
    BY <1>1 DEF AllCovered, Open, Bases
  <2>1. Shows' \subseteq Shows
    BY <1>1, <1>2 DEF Shows
  <2> QED
    BY <1>2, <2>1 DEF Inv, AllCovered
<1> QED
  BY <1>4, <1>5, <1>6, <1>7 DEF Inv

\* The page is read: index, manifest and annotation, each at a moment of its own.
LEMMA LoadSteps ==
    ASSUME Inv, LoadIndex \/ LoadManifest \/ LoadManifestFails \/ LoadAnnotation
    PROVE  Inv'
<1>1. /\ UNCHANGED <<ann, man, writer, replaced, patch, sent>>
      /\ page \in Pages /\ ann \in MaybeVersion /\ man \in MaybeVersion
  BY DEF LoadIndex, LoadManifest, LoadManifestFails, LoadAnnotation, serverVars, Inv, Typed
<1>2. ManifestBehind' /\ SentInTurn' /\ FetchedIsThere'
  BY <1>1 DEF Inv, ManifestBehind, SentInTurn, FetchedIsThere
<1>3. WriterHasBase'
  BY <1>1 DEF Inv, WriterHasBase, WrittenOnBase
<1>4. SUFFICES page' \in Pages /\ ClosedIsEmpty' /\ AllCovered'
  BY <1>1, <1>2, <1>3 DEF Inv, Typed
<1>5. CASE LoadIndex \/ LoadManifestFails
  <2>1. PICK st \in {"selected", "no-match", "error"} : page' = [page EXCEPT !.st = st]
    <3>1. CASE LoadIndex
      <4>1. CASE selectRun
        BY <3>1, <4>1 DEF LoadIndex
      <4>2. CASE ~selectRun
        BY <3>1, <4>2 DEF LoadIndex
      <4> QED
        BY <4>1, <4>2
    <3>2. CASE LoadManifestFails
      BY <3>2 DEF LoadManifestFails
    <3> QED
      BY <1>5, <3>1, <3>2
  <2>2. st \in PageStages /\ st \notin {"loaded", "slot-error"}
    BY DEF PageStages
  <2>3. /\ page' \in Pages /\ page'.st = st /\ page'.shown = page.shown /\ page'.drag = page.drag
    BY <1>1, <2>1, <2>2, PageWrites, Zenon
  <2>4. ~Open /\ ~Open'
    BY <1>5, <2>2, <2>3 DEF Open, LoadIndex, LoadManifestFails
  <2> QED
    BY <1>1, <2>3, <2>4 DEF Inv, ClosedIsEmpty, AllCovered
<1>6. CASE LoadManifest
  <2>1. ~Open /\ man # None /\ page' = [page EXCEPT !.st = "loaded", !.held = man]
    BY <1>6 DEF LoadManifest, Open, open_artifact
  <2>2. page' \in Pages /\ page'.st = "loaded" /\ page'.held = man /\ page'.shown = page.shown
    BY <1>1, <2>1, PageLoads, Zenon
  <2>3. page.shown = None /\ \A i \in Ids : patch[i].st \notin Live
    BY <2>1 DEF Inv, ClosedIsEmpty
  <2>4. Open' /\ Bases' \subseteq {man} /\ Shows' \subseteq {ann}
    BY <1>1, <2>2, <2>3 DEF Open, Bases, Shows, Live
  <2>5. Covers(ann, man)
    BY <2>1 DEF Inv, ManifestBehind
  <2> QED
    BY <2>2, <2>4, <2>5 DEF ClosedIsEmpty, AllCovered
<1>7. CASE LoadAnnotation
  <2>1. /\ page' \in Pages /\ Open /\ Open' /\ page'.held = page.held
        /\ page'.shown \in {page.shown} \cup ({ann} \ {None})
    <3>1. CASE ann # None
      <4>1. ann \in Version /\ page' = ShowAnnotation(ann) /\ Open
        BY <1>1, <1>7, <3>1 DEF LoadAnnotation, open_artifact, MaybeVersion, Open
      <4>2. /\ page' \in Pages /\ page'.st = page.st /\ page'.held = page.held
            /\ page'.shown = ann
        BY <1>1, <4>1, PageShows
      <4> QED
        BY <3>1, <4>1, <4>2 DEF Open
    <3>2. CASE ann = None
      <4>1. page' = [page EXCEPT !.st = "slot-error"] /\ Open /\ "slot-error" \in PageStages
        BY <1>7, <3>2 DEF LoadAnnotation, open_artifact, Open, PageStages
      <4>2. /\ page' \in Pages /\ page'.st = "slot-error" /\ page'.held = page.held
            /\ page'.shown = page.shown
        BY <1>1, <4>1, PageWrites, Zenon
      <4> QED
        BY <4>1, <4>2 DEF Open
    <3> QED
      BY <3>1, <3>2
  <2>2. Bases' = Bases /\ Shows' \subseteq Shows
    BY <1>1, <2>1 DEF Bases, Shows
  <2> QED
    BY <1>1, <2>1, <2>2 DEF Inv, ClosedIsEmpty, AllCovered
<1> QED
  BY <1>5, <1>6, <1>7

\* A reload forgets everything; what was sent may still be applied.
LEMMA ReloadStep ==
    ASSUME Inv, NEW keep \in BOOLEAN, Reload(keep)
    PROVE  Inv'
<1>1. /\ UNCHANGED <<ann, man, writer, sent>> /\ page \in Pages /\ patch \in [Ids -> Patches]
      /\ page' = NewPage(IF keep THEN page.url ELSE None)
  BY DEF Reload, Inv, Typed
<1>2. (IF keep THEN page.url ELSE None) \in MaybeVersion
  <2>1. page.url \in MaybeVersion /\ None \in MaybeVersion
    BY <1>1 DEF Pages, MaybeVersion
  <2> QED
    BY <2>1
<1>3. page' \in Pages /\ page'.st = "loading" /\ page'.shown = None /\ page'.drag = None
  BY <1>1, <1>2, PageIsNew
<1> DEFINE x(i) == CASE patch[i].st = "sent" -> Abandoned(patch[i])
                     [] patch[i].st \in {"none", "abandoned"} -> patch[i]
                     [] OTHER -> Gone
<1>4. patch' = [i \in Ids |-> x(i)]
  BY DEF Reload
<1>5. ASSUME NEW i \in Ids
      PROVE  /\ x(i) \in Patches /\ x(i).st \in {"none", "gone", "abandoned"}
             /\ patch[i].st = "none" => x(i).st = "none"
  <2>1. patch[i] \in Patches
    BY <1>1
  <2>2. /\ Abandoned(patch[i]) \in Patches /\ Abandoned(patch[i]).st = "abandoned"
        /\ Gone \in Patches /\ Gone.st = "gone"
    BY <2>1, PatchWrites, Zenon
  <2>3. CASE patch[i].st = "sent"
    BY <2>2, <2>3
  <2>4. CASE patch[i].st \in {"none", "abandoned"}
    BY <2>1, <2>4
  <2>5. CASE patch[i].st \notin {"sent", "none", "abandoned"}
    BY <2>2, <2>5
  <2> QED
    BY <2>3, <2>4, <2>5
<1> HIDE DEF x
<1>6. /\ patch' \in [Ids -> Patches]
      /\ \A i \in Ids : /\ patch'[i].st \in {"none", "gone", "abandoned"}
                        /\ patch[i].st = "none" => patch'[i].st = "none"
  BY <1>4, <1>5
<1>7. Typed' /\ ManifestBehind'
  BY <1>1, <1>3, <1>6 DEF Inv, Typed, ManifestBehind
<1>8. WriterHasBase' /\ SentInTurn' /\ FetchedIsThere'
  BY <1>1, <1>6 DEF Inv, WriterHasBase, SentInTurn, FetchedIsThere
<1>9. ClosedIsEmpty' /\ AllCovered'
  BY <1>3, <1>6 DEF ClosedIsEmpty, AllCovered, Open, Live
<1> QED
  BY <1>7, <1>8, <1>9 DEF Inv

\* A handler sends an edit with what the page holds as its If-Match.
LEMMA SendStep ==
    ASSUME Inv, Open, NEW k \in Kinds, NEW v \in Values, NEW old \in Values,
           NEW drag \in Values \cup {None}, Send(k, v, old, drag)
    PROVE  Inv'
<1> DEFINE x == [st |-> "sent", kind |-> k, value |-> v, old |-> old,
                 base |-> page.held, got |-> None]
           n == sent + 1
<1>1. /\ UNCHANGED <<ann, man, writer, replaced>> /\ sent' = n
      /\ page \in Pages /\ patch \in [Ids -> Patches]
      /\ patch' = [patch EXCEPT ![n] = x]
      /\ page' = Sending(page, k, v, drag)
  BY DEF Send, Sending, Inv, Typed, serverVars
<1>2. n \in Ids /\ sent \in Nat /\ n \in 0 .. MaxEdits /\ Ids \subseteq Nat
  BY ClientAssumption DEF Send, Inv, Typed, Ids
<1>3. x \in Patches /\ x.st = "sent" /\ x.base = page.held
  BY <1>1 DEF Patches, Stages, Pages, MaybeVersion
<1> DEFINE q == Sending(page, k, v, drag)
<1>4. /\ page' \in Pages /\ page'.st = page.st /\ page'.held = page.held
      /\ page'.shown = page.shown
  <2>1. q \in Pages /\ q.st = page.st /\ q.held = page.held /\ q.shown = page.shown
    BY <1>1, PageSends, SMT
  <2>2. page' = q
    BY <1>1
  <2> HIDE DEF q
  <2> QED
    BY <2>1, <2>2
<1> HIDE DEF x, n
<1>5. /\ patch' \in [Ids -> Patches] /\ patch'[n] = x
      /\ \A j \in Ids : j # n => patch'[j] = patch[j]
  BY <1>1, <1>2, <1>3, OnePatch
<1>6. Typed'
  BY <1>1, <1>2, <1>4, <1>5 DEF Inv, Typed
<1>7. ManifestBehind'
  BY <1>1 DEF Inv, ManifestBehind
<1>8. \A i \in Ids : i <= sent => i # n /\ i <= n
  BY <1>2 DEF n
<1>9. WriterHasBase'
  <2> SUFFICES ASSUME NEW i \in Ids, writer = i
               PROVE  i <= n /\ (patch'[i].st = "sent" => WrittenOnBase(i)')
    BY <1>1 DEF WriterHasBase
  <2>1. i <= sent /\ (patch[i].st = "sent" => WrittenOnBase(i))
    BY DEF Inv, WriterHasBase
  <2>2. patch'[i] = patch[i] /\ i <= n
    BY <1>5, <1>8, <2>1
  <2> QED
    BY <1>1, <2>1, <2>2 DEF WrittenOnBase
<1>10. SentInTurn'
  <2> SUFFICES ASSUME NEW i \in Ids, i > n
               PROVE  patch'[i].st = "none"
    BY <1>1 DEF SentInTurn
  <2>1. i > sent /\ i # n
    BY <1>2 DEF n
  <2> QED
    BY <1>5, <2>1 DEF Inv, SentInTurn
<1>11. FetchedIsThere'
  BY <1>3, <1>5 DEF Inv, FetchedIsThere
<1>12. Open' /\ ClosedIsEmpty'
  BY <1>4 DEF Open, ClosedIsEmpty
<1>13. Bases' \subseteq Bases
  BY <1>3, <1>4, <1>5 DEF Bases
<1>14. Shows' \subseteq Shows
  BY <1>1, <1>3, <1>4, <1>5 DEF Shows
<1>15. AllCovered'
  BY <1>1, <1>13, <1>14 DEF Inv, AllCovered
<1> QED
  BY <1>6, <1>7, <1>9, <1>10, <1>11, <1>12, <1>15 DEF Inv

\* The pointer goes down on a boundary, or comes up where it was.
LEMMA DragStep ==
    ASSUME Inv, Open, NEW d \in Values \cup {None}, page' = [page EXCEPT !.drag = d],
           UNCHANGED <<ann, man, writer, replaced, patch, sent>>
    PROVE  Inv'
<1>1. page \in Pages
  BY DEF Inv, Typed
<1>2. page' \in Pages /\ page'.st = page.st /\ page'.held = page.held /\ page'.shown = page.shown
  BY <1>1, PageWrites, Zenon
<1>3. Typed' /\ ManifestBehind' /\ SentInTurn' /\ FetchedIsThere'
  BY <1>2 DEF Inv, Typed, ManifestBehind, SentInTurn, FetchedIsThere
<1>4. WriterHasBase'
  BY DEF Inv, WriterHasBase, WrittenOnBase
<1>5. Open' /\ Bases' = Bases /\ Shows' = Shows
  BY <1>2 DEF Open, Bases, Shows
<1> QED
  BY <1>3, <1>4, <1>5 DEF Inv, ClosedIsEmpty, AllCovered

\* The five ways to edit, all of a page that is open.
LEMMA ReviewerSteps ==
    ASSUME Inv,
           \/ onPointerDown
           \/ \E v \in Values : onPhaseEdit(v) \/ onReviewedToggle(v) \/ onLabelsEdit(v)
                                \/ onPointerUp(v) \/ onKeyDown(v)
    PROVE  Inv'
<1>1. /\ page \in Pages /\ page.local \in [Optimistic -> Values]
      /\ page.drag \in Values \cup {None} /\ page.shown \in MaybeVersion
      /\ {"phase", "reviewed", "labels"} \subseteq Kinds \cap Optimistic /\ "boundary" \in Kinds
  BY DEF Inv, Typed, Pages, Kinds, Optimistic
<1>2. Editable => Open /\ page.shown \in Version
  BY <1>1 DEF Editable, Open, MaybeVersion
<1>3. Editable => \A k \in Kinds : Value(page.shown, k) \in Values
  BY <1>2, ValueIsValue
<1>4. CASE onPointerDown
  <2>1. /\ Editable /\ page' = [page EXCEPT !.drag = Value(page.shown, "boundary")]
        /\ UNCHANGED <<ann, man, writer, replaced, patch, sent>>
    BY <1>4 DEF onPointerDown, serverVars
  <2> QED
    BY <1>1, <1>2, <1>3, <2>1, DragStep
<1>5. ASSUME NEW v \in Values, onPhaseEdit(v)
      PROVE  Inv'
  BY <1>1, <1>2, <1>3, <1>5, SendStep DEF onPhaseEdit, TableEnabled
<1>6. ASSUME NEW v \in Values, onReviewedToggle(v)
      PROVE  Inv'
  BY <1>1, <1>2, <1>6, SendStep DEF onReviewedToggle, TableEnabled
<1>7. ASSUME NEW v \in Values, onLabelsEdit(v)
      PROVE  Inv'
  BY <1>1, <1>2, <1>3, <1>7, SendStep DEF onLabelsEdit, TableEnabled
<1>8. ASSUME NEW v \in Values, onPointerUp(v)
      PROVE  Inv'
  <2>1. Open
    BY <1>8 DEF onPointerUp, Inv, ClosedIsEmpty
  <2>2. CASE v # page.drag
    BY <1>1, <1>8, <2>1, <2>2, SendStep DEF onPointerUp
  <2>3. CASE v = page.drag
    <3>1. /\ page' = [page EXCEPT !.drag = None]
          /\ UNCHANGED <<ann, man, writer, replaced, patch, sent>>
      BY <1>8, <2>3 DEF onPointerUp, serverVars
    <3> QED
      BY <2>1, <3>1, DragStep
  <2> QED
    BY <2>2, <2>3
<1>9. ASSUME NEW v \in Values, onKeyDown(v)
      PROVE  Inv'
  BY <1>1, <1>2, <1>9, SendStep DEF onKeyDown
<1> QED
  BY <1>4, <1>5, <1>6, <1>7, <1>8, <1>9

\* The routes refuse with one of four errors.
LEMMA AnswersAreRefusals ==
    ASSUME NEW p \in Patches
    PROVE  Answers(p) \subseteq {"conflict", "no_change", "invalid", "not_found"}
<1>1. ASSUME NEW unmet
      PROVE  Raised(p, unmet) \subseteq {"not_found", "conflict"} \cup unmet
  <2>1. CASE man = None
    BY <2>1 DEF Raised
  <2>2. CASE man \notin {None, p.base}
    BY <2>2 DEF Raised
  <2>3. CASE man # None /\ man = p.base
    BY <2>3 DEF Raised
  <2> QED
    BY <2>1, <2>2, <2>3
<1>2. \A answer : WhenUnchanged(p, answer) \subseteq {answer}
  BY DEF WhenUnchanged
<1>3. /\ patch_segment(p) \subseteq {"invalid", "not_found", "conflict"}
      /\ patch_boundary_route(p) \subseteq {"invalid", "not_found", "conflict"}
  BY <1>1, <1>2 DEF patch_segment, patch_boundary_route
<1>4. LET all == {"conflict", "no_change", "invalid", "not_found"}
      IN  /\ patch_reviewed_route(p) \subseteq all
          /\ patch_labels_route(p) \subseteq all
  BY <1>1, <1>2 DEF patch_reviewed_route, patch_labels_route
<1>5. p.kind \in Kinds
  BY DEF Patches
<1>6. CASE p.kind = "phase"
  BY <1>3, <1>6 DEF Answers
<1>7. CASE p.kind = "reviewed"
  BY <1>4, <1>7 DEF Answers
<1>8. CASE p.kind = "labels"
  BY <1>4, <1>8 DEF Answers
<1>9. CASE p.kind = "boundary"
  BY <1>3, <1>9 DEF Answers
<1> QED
  BY <1>5, <1>6, <1>7, <1>8, <1>9 DEF Kinds

\* An answer, a time-out or a re-fetch is an AnswerStep.
LEMMA RequestSteps ==
    ASSUME Inv, NEW i \in Ids, Refuse(i) \/ Receive(i)
    PROVE  Inv'
<1>1. /\ UNCHANGED <<ann, man, writer, replaced, sent>>
      /\ page \in Pages /\ patch \in [Ids -> Patches] /\ patch[i] \in Patches
      /\ ann \in MaybeVersion /\ page.local \in [Optimistic -> Values]
      /\ page.url \in MaybeVersion
  BY DEF Inv, Typed, Pages, Refuse, Receive, ReceiveOk, ReceiveConflict, ReceiveRefusal,
         TimeOut, Refetch, Deliver, RefetchFails, serverVars
<1>2. /\ Gone \in Patches /\ Gone.st = "gone"
      /\ Abandoned(patch[i]) \in Patches /\ Abandoned(patch[i]).st = "abandoned"
  BY <1>1, PatchWrites, Zenon
<1>3. RolledBack(i) \in [Optimistic -> Values]
  <2>1. patch[i].old \in Values
    BY <1>1 DEF Patches
  <2> QED
    BY <1>1, <2>1 DEF RolledBack
<1>4. page.held \in Bases /\ page.shown \in Shows \cup {page.shown}
  BY DEF Bases
\* The request moves on to x and the page to q.
<1>5. ASSUME NEW x \in Patches, patch' = [patch EXCEPT ![i] = x], x.st \notin {"none", "sent"},
             x.st = "ok" => patch[i].st = "ok" /\ x.got = patch[i].got,
             x.st = "fetched" => x.got \in Shows,
             x.st \in Live => patch[i].st \in Live,
             patch[i].st # "none",
             page' \in Pages, page'.st = page.st, page'.drag = page.drag,
             page'.held \in Bases, page'.shown \in Shows \cup {page.shown},
             page'.shown # page.shown => patch[i].st \in Live
      PROVE  Inv'
  <2>1. /\ patch' \in [Ids -> Patches] /\ patch'[i] = x
        /\ \A j \in Ids : j # i => patch'[j] = patch[j]
    BY <1>1, <1>5, OnePatch
  <2>2. Typed'
    BY <1>1, <1>5, <2>1 DEF Inv, Typed
  <2> QED
    BY <1>1, <1>5, <2>1, <2>2, AnswerStep
<1>6. CASE Refuse(i)
  <2>1. PICK a \in Answers(patch[i]) :
           patch' = [patch EXCEPT ![i] = IF @.st = "sent" THEN [@ EXCEPT !.st = a] ELSE Gone]
    BY <1>6 DEF Refuse
  <2>2. /\ page' = page /\ patch[i].st \in {"sent", "abandoned"}
        /\ a \in {"conflict", "no_change", "invalid", "not_found"} /\ a \in Stages
    <3>1. Answers(patch[i]) \subseteq {"conflict", "no_change", "invalid", "not_found"}
      BY <1>1, AnswersAreRefusals
    <3>2. patch[i].st \in {"sent", "abandoned"} /\ page' = page
      BY <1>6 DEF Refuse
    <3> QED
      BY <2>1, <3>1, <3>2 DEF Stages, Results
  <2>3. [patch[i] EXCEPT !.st = a] \in Patches /\ [patch[i] EXCEPT !.st = a].st = a
    BY <1>1, <2>2, PatchWrites, Zenon
  <2>4. CASE patch[i].st = "sent"
    <3>1. patch' = [patch EXCEPT ![i] = [patch[i] EXCEPT !.st = a]]
      BY <2>1, <2>4
    <3> DEFINE x == [patch[i] EXCEPT !.st = a]
    <3>2. x \in Patches /\ x.st = a /\ patch' = [patch EXCEPT ![i] = x]
      BY <2>3, <3>1
    <3> HIDE DEF x
    <3> QED
      BY <1>1, <1>4, <1>5, <2>2, <3>2 DEF Live
  <2>5. CASE patch[i].st = "abandoned"
    <3>1. patch' = [patch EXCEPT ![i] = Gone]
      BY <2>1, <2>5
    <3> QED
      BY <1>1, <1>2, <1>4, <1>5, <2>2, <3>1 DEF Live
  <2> QED
    BY <2>2, <2>4, <2>5
<1>7. CASE ReceiveOk(i)
  <2>1. /\ patch[i].st = "ok" /\ page' = [page EXCEPT !.held = patch[i].got, !.url = SyncUrl(i)]
        /\ patch' = [patch EXCEPT ![i] = [patch[i] EXCEPT !.st = "refetch"]]
    BY <1>1, <1>7 DEF ReceiveOk
  <2>2. patch[i].got \in MaybeVersion /\ patch[i].got \in Bases
    BY <1>1, <2>1 DEF Patches, Bases
  <2>3. SyncUrl(i) \in MaybeVersion /\ "refetch" \in Stages
    BY <1>1, <2>2 DEF SyncUrl, Stages
  <2>4. /\ page' \in Pages /\ page'.st = page.st /\ page'.held = patch[i].got
        /\ page'.shown = page.shown /\ page'.drag = page.drag
    <3> DEFINE q == [page EXCEPT !.held = patch[i].got, !.url = SyncUrl(i)]
    <3>1. /\ q \in Pages /\ q.st = page.st /\ q.held = patch[i].got
          /\ q.shown = page.shown /\ q.drag = page.drag
      BY <1>1, <2>2, <2>3 DEF Pages
    <3>2. page' = q
      BY <2>1
    <3> HIDE DEF q
    <3> QED
      BY <3>1, <3>2
  <2> DEFINE x == [patch[i] EXCEPT !.st = "refetch"]
  <2>5. x \in Patches /\ x.st = "refetch"
    BY <1>1, <2>3, PatchWrites, Zenon
  <2>6. patch' = [patch EXCEPT ![i] = x]
    BY <2>1
  <2> HIDE DEF x
  <2> QED
    BY <1>4, <1>5, <2>1, <2>2, <2>4, <2>5, <2>6 DEF Live
<1>8. CASE ReceiveConflict(i)
  <2>1. /\ patch[i].st = "conflict" /\ patch' = [patch EXCEPT ![i] = Gone]
        /\ page' = [page EXCEPT !.stale = TRUE, !.local = RolledBack(i)]
    BY <1>8 DEF ReceiveConflict, Close
  <2>2. page' \in Pages /\ SamePage(page', page)
    BY <1>1, <1>3, <2>1, PageWrites, Zenon
  <2> QED
    BY <1>2, <1>4, <1>5, <2>1, <2>2 DEF SamePage, Live
<1>9. CASE ReceiveRefusal(i)
  <2>1. /\ patch[i].st \in Refusals /\ patch' = [patch EXCEPT ![i] = Gone]
        /\ page' = [page EXCEPT !.local = RolledBack(i)]
    BY <1>9 DEF ReceiveRefusal, Close
  <2>2. page' \in Pages /\ SamePage(page', page)
    BY <1>1, <1>3, <2>1, PageWrites, Zenon
  <2> QED
    BY <1>2, <1>4, <1>5, <2>1, <2>2 DEF SamePage, Live, Refusals
<1>10. CASE TimeOut(i)
  <2>1. /\ patch[i].st \in {"sent"} \cup Results
        /\ page' = [page EXCEPT !.local = RolledBack(i)]
        /\ patch' = [patch EXCEPT ![i] = IF @.st = "sent" THEN Abandoned(@) ELSE Gone]
    BY <1>10 DEF TimeOut
  <2>2. page' \in Pages /\ SamePage(page', page)
    BY <1>1, <1>3, <2>1, PageWrites, Zenon
  <2>3. PICK x \in {Gone, Abandoned(patch[i])} : patch' = [patch EXCEPT ![i] = x]
    <3>1. CASE patch[i].st = "sent"
      BY <1>1, <2>1, <3>1
    <3>2. CASE patch[i].st # "sent"
      BY <1>1, <2>1, <3>2
    <3> QED
      BY <3>1, <3>2
  <2>4. x \in Patches /\ x.st \in {"gone", "abandoned"}
    BY <1>2
  <2> QED
    BY <1>4, <1>5, <2>1, <2>2, <2>3, <2>4 DEF SamePage, Live, Results
<1>11. CASE Refetch(i)
  <2>1. /\ patch[i].st = "refetch" /\ ann # None /\ page' = page
        /\ patch' = [patch EXCEPT ![i] = [patch[i] EXCEPT !.st = "fetched", !.got = ann]]
    BY <1>1, <1>11 DEF Refetch, open_artifact
  <2>2. "fetched" \in Stages /\ ann \in Shows
    BY <2>1 DEF Stages, Shows
  <2> DEFINE x == [patch[i] EXCEPT !.st = "fetched", !.got = ann]
  <2>3. x \in Patches
    BY <1>1, <2>2, PatchGets, Zenon
  <2>4. x.st = "fetched" /\ x.got = ann
    BY <1>1 DEF Patches
  <2>5. patch' = [patch EXCEPT ![i] = x]
    BY <2>1
  <2> HIDE DEF x
  <2> QED
    BY <1>1, <1>4, <1>5, <2>1, <2>2, <2>3, <2>4, <2>5 DEF Live
<1>12. CASE Deliver(i)
  <2>1. /\ patch[i].st = "fetched" /\ patch' = [patch EXCEPT ![i] = Gone]
        /\ page' = ShowAnnotation(patch[i].got)
    BY <1>12 DEF Deliver, Close
  <2>2. patch[i].got \in Version /\ patch[i].got \in Shows
    BY <1>1, <2>1 DEF Inv, FetchedIsThere, Patches, MaybeVersion, Shows
  <2>3. /\ page' \in Pages /\ page'.st = page.st /\ page'.held = page.held
        /\ page'.shown = patch[i].got /\ page'.drag = page.drag
    BY <1>1, <2>1, <2>2, PageShows, Zenon
  <2> QED
    BY <1>2, <1>4, <1>5, <2>1, <2>2, <2>3 DEF Live
<1>13. CASE RefetchFails(i)
  <2>1. /\ patch[i].st \in {"refetch", "fetched"} /\ patch' = [patch EXCEPT ![i] = Gone]
        /\ page' = page
    BY <1>13 DEF RefetchFails, Close
  <2> QED
    BY <1>1, <1>2, <1>4, <1>5, <2>1 DEF Live
<1> QED
  BY <1>6, <1>7, <1>8, <1>9, <1>10, <1>11, <1>12, <1>13 DEF Receive

\* Every step of the tab, the server and the other writers keeps the invariant.
LEMMA InvStep == ASSUME Inv, [Next]_vars PROVE Inv'
<1>1. CASE UNCHANGED vars
  <2>1. UNCHANGED <<ann, man, writer, page, patch, sent, replaced>>
    BY <1>1 DEF vars, serverVars, tabVars
  <2> QED
    BY <2>1 DEF Inv, Typed, ManifestBehind, WriterHasBase, WrittenOnBase, SentInTurn,
                FetchedIsThere, ClosedIsEmpty, AllCovered, Open, Bases, Shows
<1>2. ASSUME NEW i \in Ids, Accept(i) \/ Commit(i) \/ Refuse(i) \/ Receive(i)
      PROVE  Inv'
  BY <1>2, AcceptStep, CommitStep, RequestSteps
<1>3. ASSUME NEW k \in Kinds, NEW v \in Values, OtherEdit(k, v)
      PROVE  Inv'
  BY <1>3, OtherEditStep
<1>4. CASE OtherCommits \/ Withdraw \/ PublisherDies \/ \E g \in Gens : Install(g)
  BY <1>4, WriterSteps
<1>5. CASE LoadIndex \/ LoadManifest \/ LoadManifestFails \/ LoadAnnotation
  BY <1>5, LoadSteps
<1>6. ASSUME NEW keep \in BOOLEAN, Reload(keep)
      PROVE  Inv'
  BY <1>6, ReloadStep
<1>7. CASE \/ onPointerDown
           \/ \E v \in Values : onPhaseEdit(v) \/ onReviewedToggle(v) \/ onLabelsEdit(v)
                                \/ onPointerUp(v) \/ onKeyDown(v)
  BY <1>7, ReviewerSteps
<1> QED
  BY <1>1, <1>2, <1>3, <1>4, <1>5, <1>6, <1>7 DEF Next

\* Whatever is re-fetched, lost, late or overlapping, and whoever else edits: until the
\* run is published again, every edit of another reviewer in the version the tab sends
\* as If-Match is one the page shows.
THEOREM NothingBlind == Spec => []NoBlindEdit
<1>1. Inv => NoBlindEdit
  <2> SUFFICES ASSUME Inv, Editable, ~replaced, NEW n \in Others(page.held)
               PROVE  n \in DOMAIN page.shown.edits /\ page.shown.edits[n] = page.held.edits[n]
    BY DEF NoBlindEdit
  <2>1. Open /\ page.held \in Bases /\ page.shown \in Shows
    BY DEF Editable, Open, Bases, Shows
  <2>2. Covers(page.shown, page.held)
    BY <2>1 DEF Inv, AllCovered
  <2> QED
    BY <2>2 DEF Covers
<1> QED
  BY <1>1, InvInit, InvStep, PTL DEF Spec

-----------------------------------------------------------------------------
(* What the page holds is what it shows. *)

\* The edits of w begin with those of v.
Within(v, w) ==
    /\ Len(v.edits) <= Len(w.edits)
    /\ \A n \in 1 .. Len(v.edits) : v.edits[n] = w.edits[n]

\* The run only grows under its lock.
ManifestWithin == man # None => ann # None /\ Within(man, ann)

\* The tab has no version that the run has left behind, unless it was replaced.
BasesWithin ==
    Open => /\ None \notin Bases
            /\ ~replaced /\ ann # None => \A v \in Bases : Within(v, ann)

\* Requests a handler is waiting for: its flag is set.  Without overlaps there is one.
Awaited == {"sent", "refetch", "fetched"} \cup Results
OneAtATime ==
    /\ inFlight \in [Kinds -> BOOLEAN]
    /\ ~overlapped =>
          \A i \in Ids : patch[i].st \in Awaited =>
              /\ inFlight[patch[i].kind]
              /\ \A j \in Ids : patch[j].st \in Awaited => j = i

\* What was fetched has what the page holds, and so has what it shows, unless a
\* re-fetch is under way or has failed.
FetchedHasHeld ==
    Open /\ ~replaced /\ ~overlapped =>
        \A i \in Ids : patch[i].st = "fetched" => Within(page.held, patch[i].got)
ShownHasHeld ==
    Open /\ ~replaced /\ ~overlapped /\ ~warned /\ page.shown # None =>
        \/ Within(page.held, page.shown)
        \/ \E i \in Ids : patch[i].st \in {"refetch", "fetched"}

\* The server is at work on an edit that it has not answered.
WriterUnanswered == \A i \in Ids : writer = i => patch[i].st \in {"sent", "abandoned"}

HeldInv == /\ ManifestWithin /\ BasesWithin /\ OneAtATime /\ WriterUnanswered
           /\ FetchedHasHeld /\ ShownHasHeld

-----------------------------------------------------------------------------
(* Versions within versions. *)

\* The edits of a version are numbered.
LEMMA EditsAreNumbered ==
    ASSUME NEW v \in Version
    PROVE  v.edits \in Seq(Edit) /\ Len(v.edits) \in Nat /\ DOMAIN v.edits = 1 .. Len(v.edits)
<1>1. v.edits \in Seq(Edit)
  BY DEF Version
<1> QED
  BY <1>1, LenProperties

\* A version is within itself ...
LEMMA WithinItself ==
    ASSUME NEW v \in Version
    PROVE  Within(v, v)
<1>1. Len(v.edits) \in Nat
  BY EditsAreNumbered
<1> QED
  BY <1>1 DEF Within

\* ... and within whatever a version that it is within is within.
LEMMA WithinTransitive ==
    ASSUME NEW u \in Version, NEW v \in Version, NEW w \in Version, Within(u, v), Within(v, w)
    PROVE  Within(u, w)
<1>1. Len(u.edits) \in Nat /\ Len(v.edits) \in Nat /\ Len(w.edits) \in Nat
  BY EditsAreNumbered
<1>2. Len(u.edits) <= Len(v.edits) /\ Len(v.edits) <= Len(w.edits)
  BY DEF Within
<1>3. ASSUME NEW n \in 1 .. Len(u.edits)
      PROVE  u.edits[n] = w.edits[n]
  <2>1. n \in 1 .. Len(v.edits)
    BY <1>1, <1>2
  <2> QED
    BY <2>1 DEF Within
<1> QED
  BY <1>1, <1>2, <1>3 DEF Within

\* An edit is written behind what a version has.
LEMMA WithinAfter ==
    ASSUME NEW v \in Version, NEW e \in Edit
    PROVE  /\ After(v, e) \in Version /\ Within(v, After(v, e))
           /\ Len(After(v, e).edits) = Len(v.edits) + 1
<1>1. /\ After(v, e) \in Version /\ Len(v.edits) \in Nat
      /\ DOMAIN After(v, e).edits = 1 .. Len(v.edits) + 1
      /\ \A n \in 1 .. Len(v.edits) : After(v, e).edits[n] = v.edits[n]
  BY Edited, Zenon
<1>2. Len(After(v, e).edits) \in Nat
      /\ DOMAIN After(v, e).edits = 1 .. Len(After(v, e).edits)
  BY <1>1, EditsAreNumbered, Zenon
<1>3. Len(After(v, e).edits) = Len(v.edits) + 1
  <2> DEFINE m == Len(After(v, e).edits)
             k == Len(v.edits)
  <2>1. m \in Nat /\ k \in Nat /\ 1 .. m = 1 .. k + 1
    BY <1>1, <1>2
  <2> HIDE DEF m, k
  <2>2. k + 1 \in 1 .. k + 1 /\ (m > 0 => m \in 1 .. m)
    BY <2>1
  <2>3. k + 1 <= m /\ m <= k + 1
    BY <2>1, <2>2
  <2>4. m = k + 1
    BY <2>1, <2>3
  <2> QED
    BY <2>4 DEF m, k
<1>4. Within(v, After(v, e))
  <2> DEFINE w == After(v, e)
  <2>1. Len(v.edits) <= Len(w.edits)
    BY <1>1, <1>3
  <2>2. \A n \in 1 .. Len(v.edits) : v.edits[n] = w.edits[n]
    BY <1>1
  <2> HIDE DEF w
  <2>3. Within(v, w)
    BY <2>1, <2>2 DEF Within
  <2> QED
    BY <2>3 DEF w
<1> QED
  BY <1>1, <1>3, <1>4

\* Within, said of sequences.
LEMMA WithinIsPrefix ==
    ASSUME NEW v \in Version, NEW w \in Version, Within(v, w)
    PROVE  v.edits = SubSeq(w.edits, 1, Len(v.edits))
<1> DEFINE s == v.edits
           t == w.edits
<1>1. /\ s \in Seq(Edit) /\ Len(s) \in Nat /\ t \in Seq(Edit) /\ Len(t) \in Nat
      /\ DOMAIN t = 1 .. Len(t)
  BY EditsAreNumbered
<1>2. Len(s) <= Len(t) /\ \A n \in 1 .. Len(s) : s[n] = t[n]
  BY DEF Within
<1> HIDE DEF s, t
<1>3. \A n \in 1 .. Len(s) : t[n] \in Edit
  BY <1>1, <1>2, ElementOfSeq
<1> DEFINE q == SubSeq(t, 1, Len(s))
<1>4. /\ q \in Seq(Edit)
      /\ Len(q) = IF 1 <= Len(s) THEN Len(s) - 1 + 1 ELSE 0
      /\ \A n \in 1 .. Len(s) - 1 + 1 : q[n] = t[1 + n - 1]
  BY <1>1, <1>3, SubSeqProperties
<1> HIDE DEF q
<1>5. Len(s) = Len(q) /\ \A n \in 1 .. Len(s) : s[n] = q[n]
  <2>1. Len(q) = Len(s)
    BY <1>1, <1>4
  <2>2. ASSUME NEW n \in 1 .. Len(s)
        PROVE  s[n] = q[n]
    <3>1. n \in 1 .. Len(s) - 1 + 1 /\ 1 + n - 1 = n
      BY <1>1
    <3> QED
      BY <1>2, <1>4, <3>1
  <2> QED
    BY <2>1, <2>2
<1>6. s = q
  BY <1>1, <1>4, <1>5, SeqEqual
<1> QED
  BY <1>6 DEF s, t, q

-----------------------------------------------------------------------------
(* What the steps of a request do to the page, the request and the flags. *)

\* Both pages hold and show the same, under the same URL.
SameView(q, p) == q.st = p.st /\ q.held = p.held /\ q.shown = p.shown /\ q.url = p.url

\* The writes of a page that leave its view.
LEMMA ViewKept ==
    ASSUME NEW p \in Pages, NEW l \in [Optimistic -> Values], NEW d \in Values \cup {None}
    PROVE  /\ SameView([p EXCEPT !.local = l], p)
           /\ SameView([p EXCEPT !.stale = TRUE, !.local = l], p)
           /\ SameView([p EXCEPT !.drag = d], p)
           /\ SameView([p EXCEPT !.drag = d, !.local = l], p)
  BY DEF Pages, SameView

\* A new state, or a new version, of a request leaves the rest of it.
LEMMA RequestKept ==
    ASSUME NEW p \in Patches, NEW st, NEW v
    PROVE  /\ [p EXCEPT !.st = st].st = st /\ [p EXCEPT !.st = st].kind = p.kind
           /\ [p EXCEPT !.st = st].base = p.base /\ [p EXCEPT !.st = st].got = p.got
           /\ [p EXCEPT !.st = st, !.got = v].st = st
           /\ [p EXCEPT !.st = st, !.got = v].kind = p.kind
           /\ [p EXCEPT !.st = st, !.got = v].base = p.base
           /\ [p EXCEPT !.st = st, !.got = v].got = v
           /\ Abandoned(p).st = "abandoned" /\ Abandoned(p).base = p.base
  BY DEF Patches, Abandoned

\* Every other request stays as it is.
OnlyRequest(i) == \A j \in Ids : j # i => patch'[j] = patch[j]
Kept(i) == patch'[i].kind = patch[i].kind /\ patch'[i].base = patch[i].base

\* A refusal under way to the page; nobody waits for that of an abandoned request.
LEMMA RefuseEffects ==
    ASSUME Inv, NEW i \in Ids, Refuse(i)
    PROVE  /\ UNCHANGED <<serverVars, page, inFlight, sent, reloads, warned, overlapped>>
           /\ OnlyRequest(i) /\ writer = None /\ patch[i].st \in {"sent", "abandoned"}
           /\ \/ patch'[i].st = "gone"
              \/ /\ patch[i].st = "sent" /\ Kept(i)
                 /\ patch'[i].st \in {"conflict", "no_change", "invalid", "not_found"}
<1>1. patch \in [Ids -> Patches] /\ patch[i] \in Patches /\ Gone.st = "gone"
  BY PatchWrites DEF Inv, Typed
<1>2. PICK a \in {"conflict", "no_change", "invalid", "not_found"} :
         patch' = [patch EXCEPT ![i] = IF @.st = "sent" THEN [@ EXCEPT !.st = a] ELSE Gone]
  BY <1>1, AnswersAreRefusals DEF Refuse
<1> DEFINE x == IF patch[i].st = "sent" THEN [patch[i] EXCEPT !.st = a] ELSE Gone
<1>3. patch' = [patch EXCEPT ![i] = x]
  BY <1>2
<1>4. \/ x.st = "gone"
      \/ /\ patch[i].st = "sent" /\ x.st = a
         /\ x.kind = patch[i].kind /\ x.base = patch[i].base
  <2>1. CASE patch[i].st = "sent"
    <3>1. x = [patch[i] EXCEPT !.st = a]
      BY <2>1
    <3>2. LET y == [patch[i] EXCEPT !.st = a]
          IN  y.st = a /\ y.kind = patch[i].kind /\ y.base = patch[i].base
      BY <1>1, RequestKept, Zenon
    <3> QED
      BY <2>1, <3>1, <3>2
  <2>2. CASE patch[i].st # "sent"
    BY <1>1, <2>2
  <2> QED
    BY <2>1, <2>2
<1> HIDE DEF x
<1>5. patch'[i] = x /\ OnlyRequest(i)
  BY <1>1, <1>3 DEF OnlyRequest
<1>6. /\ UNCHANGED <<serverVars, page, inFlight, sent, reloads, warned, overlapped>>
      /\ writer = None /\ patch[i].st \in {"sent", "abandoned"}
  BY DEF Refuse
<1> QED
  BY <1>2, <1>4, <1>5, <1>6 DEF Kept

\* An error or a time-out: the control is rolled back and the flag cleared.
LEMMA RollBackEffects ==
    ASSUME Inv, NEW i \in Ids, ReceiveConflict(i) \/ ReceiveRefusal(i) \/ TimeOut(i)
    PROVE  /\ UNCHANGED <<serverVars, sent, reloads, warned, overlapped>>
           /\ SameView(page', page)
           /\ Settled(i) /\ OnlyRequest(i)
           /\ patch[i].st \in {"sent"} \cup Results
           /\ patch[i].st = "sent" => patch'[i].st = "abandoned" /\ patch'[i].base = patch[i].base
           /\ patch[i].st # "sent" => patch'[i].st = "gone"
<1>1. /\ patch \in [Ids -> Patches] /\ patch[i] \in Patches /\ page \in Pages
      /\ Gone.st = "gone" /\ page.drag \in Values \cup {None}
  BY PatchWrites DEF Inv, Typed, Pages
<1>2. RolledBack(i) \in [Optimistic -> Values]
  <2>1. patch[i].old \in Values /\ page.local \in [Optimistic -> Values]
    BY <1>1 DEF Patches, Pages
  <2> QED
    BY <2>1 DEF RolledBack
<1>3. SameView(page', page)
  <2>1. \/ page' = [page EXCEPT !.stale = TRUE, !.local = RolledBack(i)]
        \/ page' = [page EXCEPT !.local = RolledBack(i)]
    BY DEF ReceiveConflict, ReceiveRefusal, TimeOut
  <2>2. /\ SameView([page EXCEPT !.stale = TRUE, !.local = RolledBack(i)], page)
        /\ SameView([page EXCEPT !.local = RolledBack(i)], page)
    BY <1>1, <1>2, ViewKept
  <2> QED
    BY <2>1, <2>2
<1>4. PICK x \in {Gone, Abandoned(patch[i])} :
         /\ patch' = [patch EXCEPT ![i] = x]
         /\ x = (IF patch[i].st = "sent" THEN Abandoned(patch[i]) ELSE Gone)
  <2>1. CASE ReceiveConflict(i) \/ ReceiveRefusal(i)
    BY <2>1 DEF ReceiveConflict, ReceiveRefusal, Close, Refusals
  <2>2. CASE TimeOut(i)
    <3>1. patch' = [patch EXCEPT ![i] = IF patch[i].st = "sent" THEN Abandoned(patch[i]) ELSE Gone]
      BY <1>1, <2>2 DEF TimeOut
    <3>2. CASE patch[i].st = "sent"
      BY <3>1, <3>2
    <3>3. CASE patch[i].st # "sent"
      BY <3>1, <3>3
    <3> QED
      BY <3>2, <3>3
  <2> QED
    BY <2>1, <2>2
<1>5. patch'[i] = x /\ OnlyRequest(i)
  BY <1>1, <1>4 DEF OnlyRequest
<1>6. /\ patch[i].st = "sent" => x.st = "abandoned" /\ x.base = patch[i].base
      /\ patch[i].st # "sent" => x.st = "gone"
  <2>1. Abandoned(patch[i]).st = "abandoned" /\ Abandoned(patch[i]).base = patch[i].base
    BY <1>1, RequestKept
  <2> QED
    BY <1>1, <1>4, <2>1
<1>7. /\ UNCHANGED <<serverVars, sent, reloads, warned, overlapped>> /\ Settled(i)
      /\ patch[i].st \in {"sent"} \cup Results
  BY DEF ReceiveConflict, ReceiveRefusal, TimeOut, Results, Refusals
<1> QED
  BY <1>1, <1>3, <1>5, <1>6, <1>7

\* An accepted edit: its hash is held and, but for review marks, put into the URL.
LEMMA ReceiveOkEffects ==
    ASSUME Inv, NEW i \in Ids, ReceiveOk(i)
    PROVE  /\ UNCHANGED <<serverVars, inFlight, sent, reloads, warned, overlapped>>
           /\ page'.st = page.st /\ page'.held = patch[i].got /\ page'.shown = page.shown
           /\ page'.url = SyncUrl(i)
           /\ OnlyRequest(i) /\ Kept(i)
           /\ patch[i].st = "ok" /\ patch'[i].st = "refetch"
<1>1. patch \in [Ids -> Patches] /\ patch[i] \in Patches /\ page \in Pages
  BY DEF Inv, Typed
<1>2. page' = [page EXCEPT !.held = patch[i].got, !.url = SyncUrl(i)]
  BY DEF ReceiveOk
<1>3. ASSUME NEW h, NEW u, page' = [page EXCEPT !.held = h, !.url = u]
      PROVE  page'.st = page.st /\ page'.held = h /\ page'.shown = page.shown /\ page'.url = u
  BY <1>1, <1>3 DEF Pages
<1> DEFINE x == [patch[i] EXCEPT !.st = "refetch"]
<1>4. x.st = "refetch" /\ x.kind = patch[i].kind /\ x.base = patch[i].base
  BY <1>1, RequestKept, ZenonT(30)
<1>5. patch' = [patch EXCEPT ![i] = x]
  BY <1>1 DEF ReceiveOk
<1> HIDE DEF x
<1>6. patch'[i] = x /\ OnlyRequest(i)
  BY <1>1, <1>5 DEF OnlyRequest
<1>7. /\ UNCHANGED <<serverVars, inFlight, sent, reloads, warned, overlapped>>
      /\ patch[i].st = "ok"
  BY DEF ReceiveOk
<1> QED
  BY <1>2, <1>3, <1>4, <1>6, <1>7 DEF Kept

\* A re-fetch reads the annotation of the moment.
LEMMA RefetchEffects ==
    ASSUME Inv, NEW i \in Ids, Refetch(i)
    PROVE  /\ UNCHANGED <<serverVars, page, inFlight, sent, reloads, warned, overlapped>>
           /\ OnlyRequest(i) /\ Kept(i)
           /\ patch[i].st = "refetch" /\ patch'[i].st = "fetched"
           /\ ann # None /\ patch'[i].got = ann
<1>1. patch \in [Ids -> Patches] /\ patch[i] \in Patches
  BY DEF Inv, Typed
<1> DEFINE x == [patch[i] EXCEPT !.st = "fetched", !.got = ann]
<1>2. x.st = "fetched" /\ x.kind = patch[i].kind /\ x.base = patch[i].base /\ x.got = ann
  BY <1>1 DEF Patches
<1>3. patch' = [patch EXCEPT ![i] = x]
  BY <1>1 DEF Refetch
<1> HIDE DEF x
<1>4. patch'[i] = x /\ OnlyRequest(i)
  BY <1>1, <1>3 DEF OnlyRequest
<1>5. /\ UNCHANGED <<serverVars, page, inFlight, sent, reloads, warned, overlapped>>
      /\ patch[i].st = "refetch" /\ ann # None
  BY DEF Refetch, open_artifact
<1> QED
  BY <1>2, <1>4, <1>5 DEF Kept

\* What was fetched is shown.
LEMMA ViewShows ==
    ASSUME page \in Pages, NEW v
    PROVE  LET q == ShowAnnotation(v)
           IN  q.st = page.st /\ q.held = page.held /\ q.shown = v /\ q.url = page.url
<1> DEFINE l == [k \in Optimistic |->
                    IF page.shown = None \/ Value(v, k) # Value(page.shown, k)
                    THEN Value(v, k) ELSE page.local[k]]
<1>1. ShowAnnotation(v) = [page EXCEPT !.shown = v, !.local = l]
  BY DEF ShowAnnotation
<1> HIDE DEF l
<1> QED
  BY <1>1 DEF Pages

\* A re-fetch comes to its end, with an annotation or without.
LEMMA DeliverEffects ==
    ASSUME Inv, NEW i \in Ids, Deliver(i) \/ RefetchFails(i)
    PROVE  /\ UNCHANGED <<serverVars, sent, reloads, overlapped>>
           /\ page'.st = page.st /\ page'.held = page.held /\ page'.url = page.url
           /\ Settled(i) /\ OnlyRequest(i) /\ patch'[i].st = "gone"
           /\ patch[i].st \in {"refetch", "fetched"}
           /\ \/ patch[i].st = "fetched" /\ page'.shown = patch[i].got
              \/ warned' /\ page'.shown = page.shown
<1>1. /\ patch \in [Ids -> Patches] /\ patch[i] \in Patches /\ page \in Pages
      /\ Gone.st = "gone"
  BY PatchWrites DEF Inv, Typed
<1>2. patch' = [patch EXCEPT ![i] = Gone]
  BY DEF Deliver, RefetchFails, Close
<1>3. patch'[i].st = "gone" /\ OnlyRequest(i)
  BY <1>1, <1>2 DEF OnlyRequest
<1>4. /\ UNCHANGED <<serverVars, sent, reloads, overlapped>> /\ Settled(i)
      /\ patch[i].st \in {"refetch", "fetched"}
  BY DEF Deliver, RefetchFails
<1>5. CASE Deliver(i)
  <2>1. patch[i].st = "fetched" /\ page' = ShowAnnotation(patch[i].got)
    BY <1>5 DEF Deliver
  <2>2. /\ page'.st = page.st /\ page'.held = page.held /\ page'.shown = patch[i].got
        /\ page'.url = page.url
    BY <1>1, <2>1, ViewShows
  <2> QED
    BY <1>3, <1>4, <2>1, <2>2
<1>6. CASE RefetchFails(i)
  BY <1>3, <1>4, <1>6 DEF RefetchFails
<1> QED
  BY <1>5, <1>6

-----------------------------------------------------------------------------
(* Every step keeps HeldInv. *)

\* The versions of an open page are versions.
LEMMA BasesAreVersions ==
    ASSUME Inv, BasesWithin, Open
    PROVE  Bases \subseteq Version
<1>1. page.held \in MaybeVersion
  BY DEF Inv, Typed, Pages
<1>2. \A i \in Ids : patch[i].base \in MaybeVersion /\ patch[i].got \in MaybeVersion
  BY DEF Inv, Typed, Patches
<1>3. Bases \subseteq MaybeVersion
  BY <1>1, <1>2 DEF Bases
<1> QED
  BY <1>3 DEF BasesWithin, MaybeVersion

\* A page that begins to load.
LEMMA HeldInvInit == Init => HeldInv
<1> SUFFICES ASSUME Init PROVE HeldInv
  OBVIOUS
<1>1. PICK g \in Gens : ann = Fresh(g) /\ man = Fresh(g)
  BY DEF Init
<1>2. Within(ann, ann)
  BY <1>1, FreshIsVersion, WithinItself
<1>3. ~Open
  <2>1. PICK u : page = NewPage(u)
    BY DEF Init
  <2> QED
    BY <2>1 DEF Open, NewPage
<1>4. \A i \in Ids : patch[i].st = "none"
  BY DEF Init, NoPatch
<1>5. inFlight \in [Kinds -> BOOLEAN]
  BY DEF Init
<1>6. \A i \in Ids : writer # i
  BY ClientAssumption DEF Init
<1> QED
  BY <1>1, <1>2, <1>3, <1>4, <1>5, <1>6
     DEF HeldInv, ManifestWithin, BasesWithin, OneAtATime, WriterUnanswered, FetchedHasHeld,
         ShownHasHeld, Awaited, Results

\* A step of one request: it moves on, or is over and its flag is cleared.
LEMMA HeldRequestStep ==
    ASSUME Inv, HeldInv, NEW i \in Ids,
           UNCHANGED <<ann, man, writer, replaced, overlapped>>, page'.st = page.st,
           writer = i => patch'[i].st = "abandoned",
           Bases' \subseteq Bases, OnlyRequest(i),
           inFlight' = inFlight \/ (Settled(i) /\ patch[i].st \in Awaited),
           patch'[i].st \in Awaited =>
               patch[i].st \in Awaited /\ Kept(i) /\ inFlight' = inFlight,
           FetchedHasHeld', ShownHasHeld'
    PROVE  HeldInv'
<1>1. ManifestWithin'
  BY DEF HeldInv, ManifestWithin
<1>2. BasesWithin'
  <2>1. Open' <=> Open
    BY DEF Open
  <2> QED
    BY <2>1 DEF HeldInv, BasesWithin
<1>3. OneAtATime'
  <2>1. inFlight \in [Kinds -> BOOLEAN]
    BY DEF HeldInv, OneAtATime
  <2>2. inFlight' \in [Kinds -> BOOLEAN]
    BY <2>1 DEF Settled
  <2> SUFFICES ASSUME ~overlapped, NEW j \in Ids, patch'[j].st \in Awaited
               PROVE  /\ inFlight'[patch'[j].kind]
                      /\ \A k \in Ids : patch'[k].st \in Awaited => k = j
    BY <2>2 DEF OneAtATime
  <2>3. \A k \in Ids : patch'[k].st \in Awaited => patch[k].st \in Awaited
    BY DEF OnlyRequest
  <2>4. inFlight[patch[j].kind] /\ \A k \in Ids : patch[k].st \in Awaited => k = j
    BY <2>3 DEF HeldInv, OneAtATime
  <2>5. inFlight' = inFlight
    BY <2>4 DEF OnlyRequest
  <2>6. patch'[j].kind = patch[j].kind
    BY DEF OnlyRequest, Kept
  <2> QED
    BY <2>3, <2>4, <2>5, <2>6
<1>4. WriterUnanswered'
  BY DEF HeldInv, WriterUnanswered, OnlyRequest
<1> QED
  BY <1>1, <1>2, <1>3, <1>4 DEF HeldInv

\* Requests that are not fetched, on a page that keeps what it holds and shows.
LEMMA NothingFetched ==
    ASSUME HeldInv, NEW i \in Ids, OnlyRequest(i), UNCHANGED <<replaced, overlapped>>,
           page'.st = page.st, page'.held = page.held, page'.shown = page.shown,
           ~warned' => ~warned,
           patch[i].st \in {"refetch", "fetched"} => warned',
           patch'[i].st # "fetched"
    PROVE  FetchedHasHeld' /\ ShownHasHeld'
<1>1. Open' <=> Open
  BY DEF Open
<1>2. FetchedHasHeld'
  BY <1>1 DEF HeldInv, FetchedHasHeld, OnlyRequest
<1>3. ShownHasHeld'
  BY <1>1 DEF HeldInv, ShownHasHeld, OnlyRequest
<1> QED
  BY <1>2, <1>3

\* The steps of requests.
LEMMA HeldRequestSteps ==
    ASSUME Inv, HeldInv, NEW i \in Ids, Refuse(i) \/ Receive(i)
    PROVE  HeldInv'
<1>1. CASE Refuse(i)
  <2>1. FetchedHasHeld' /\ ShownHasHeld'
    BY <1>1, RefuseEffects, NothingFetched DEF serverVars
  <2>2. Bases' \subseteq Bases
    BY <1>1, RefuseEffects DEF Bases, OnlyRequest
  <2>3. writer # i
    BY <1>1, RefuseEffects, ClientAssumption
  <2> QED
    BY <1>1, <2>1, <2>2, <2>3, RefuseEffects, HeldRequestStep DEF serverVars, Awaited, Results
<1>2. CASE ReceiveConflict(i) \/ ReceiveRefusal(i) \/ TimeOut(i)
  <2>1. /\ UNCHANGED <<ann, man, writer, replaced, warned, overlapped>>
        /\ SameView(page', page)
        /\ Settled(i) /\ OnlyRequest(i)
        /\ patch[i].st \in {"sent"} \cup Results
        /\ patch'[i].st = IF patch[i].st = "sent" THEN "abandoned" ELSE "gone"
    BY <1>2, RollBackEffects DEF serverVars
  <2>2. FetchedHasHeld' /\ ShownHasHeld'
    BY <2>1, NothingFetched DEF SameView, Results
  <2>3. Bases' \subseteq Bases
    BY <2>1 DEF Bases, OnlyRequest, SameView
  <2>4. writer = i => patch'[i].st = "abandoned"
    BY <2>1 DEF HeldInv, WriterUnanswered, Results
  <2> QED
    BY <2>1, <2>2, <2>3, <2>4, HeldRequestStep DEF SameView, Awaited, Results
<1>3. CASE ReceiveOk(i)
  <2>1. /\ UNCHANGED <<ann, man, writer, replaced, inFlight, warned, overlapped>>
        /\ page'.st = page.st /\ page'.held = patch[i].got /\ page'.shown = page.shown
        /\ OnlyRequest(i) /\ Kept(i)
        /\ patch[i].st = "ok" /\ patch'[i].st = "refetch"
    BY <1>3, ReceiveOkEffects DEF serverVars
  <2>2. Bases' \subseteq Bases
    BY <2>1 DEF Bases, OnlyRequest
  <2>3. FetchedHasHeld'
    <3> SUFFICES ASSUME ~overlapped, NEW j \in Ids, patch'[j].st = "fetched"
                 PROVE  FALSE
      BY <2>1 DEF FetchedHasHeld
    <3>1. j # i /\ patch[j].st \in Awaited /\ patch[i].st \in Awaited
      BY <2>1 DEF OnlyRequest, Awaited, Results
    <3> QED
      BY <3>1 DEF HeldInv, OneAtATime
  <2>4. ShownHasHeld'
    BY <2>1 DEF ShownHasHeld
  <2>5. writer # i
    BY <2>1 DEF HeldInv, WriterUnanswered
  <2> QED
    BY <2>1, <2>2, <2>3, <2>4, <2>5, HeldRequestStep DEF Awaited, Results
<1>4. CASE Refetch(i)
  <2>1. /\ UNCHANGED <<ann, man, writer, replaced, page, inFlight, warned, overlapped>>
        /\ OnlyRequest(i) /\ Kept(i)
        /\ patch[i].st = "refetch" /\ patch'[i].st = "fetched"
        /\ ann # None /\ patch'[i].got = ann
    BY <1>4, RefetchEffects DEF serverVars
  <2>2. Bases' \subseteq Bases
    BY <2>1 DEF Bases, OnlyRequest
  <2>3. FetchedHasHeld'
    <3> SUFFICES ASSUME Open, ~replaced, ~overlapped, NEW j \in Ids, patch'[j].st = "fetched"
                 PROVE  Within(page.held, patch'[j].got)
      BY <2>1 DEF FetchedHasHeld, Open
    <3>1. CASE j = i
      BY <2>1, <3>1 DEF HeldInv, BasesWithin, Bases
    <3>2. CASE j # i
      BY <2>1, <3>2 DEF HeldInv, FetchedHasHeld, OnlyRequest
    <3> QED
      BY <3>1, <3>2
  <2>4. ShownHasHeld'
    BY <2>1 DEF ShownHasHeld
  <2>5. writer # i
    BY <2>1 DEF HeldInv, WriterUnanswered
  <2> QED
    BY <2>1, <2>2, <2>3, <2>4, <2>5, HeldRequestStep DEF Awaited, Results
<1>5. CASE Deliver(i) \/ RefetchFails(i)
  <2>1. /\ UNCHANGED <<ann, man, writer, replaced, overlapped>>
        /\ page'.st = page.st /\ page'.held = page.held
        /\ Settled(i) /\ OnlyRequest(i) /\ patch'[i].st = "gone"
        /\ patch[i].st \in {"refetch", "fetched"}
        /\ \/ patch[i].st = "fetched" /\ page'.shown = patch[i].got
           \/ warned' /\ page'.shown = page.shown
    BY <1>5, DeliverEffects DEF serverVars
  <2>2. Bases' \subseteq Bases /\ (Open' <=> Open)
    BY <2>1 DEF Bases, OnlyRequest, Open
  <2>3. FetchedHasHeld'
    BY <2>1, <2>2 DEF HeldInv, FetchedHasHeld, OnlyRequest
  <2>4. ShownHasHeld'
    <3>1. CASE patch[i].st = "fetched" /\ page'.shown = patch[i].got
      BY <2>1, <2>2, <3>1 DEF HeldInv, FetchedHasHeld, ShownHasHeld
    <3>2. CASE warned'
      BY <3>2 DEF ShownHasHeld
    <3> QED
      BY <2>1, <3>1, <3>2
  <2>5. writer # i
    BY <2>1 DEF HeldInv, WriterUnanswered
  <2> QED
    BY <2>1, <2>2, <2>3, <2>4, <2>5, HeldRequestStep DEF Awaited, Results
<1> QED
  BY <1>1, <1>2, <1>3, <1>4, <1>5 DEF Receive

\* An edit is written into annotation.json.
LEMMA HeldWriteStep ==
    ASSUME Inv, HeldInv, NEW e \in Edit, writer = None, man # None, ann' = After(ann, e),
           UNCHANGED <<man, replaced, tabVars>>,
           \A i \in Ids : writer' = i => patch[i].st \in {"sent", "abandoned"}
    PROVE  HeldInv'
<1>1. ann = man /\ ann \in Version
  BY DEF Inv, ManifestBehind, Typed, MaybeVersion
<1>2. ann' \in Version /\ ann' # None /\ Within(ann, ann')
  BY <1>1, WithinAfter, VersionAssumption
<1>3. ManifestWithin'
  BY <1>1, <1>2 DEF ManifestWithin
<1>4. BasesWithin'
  <2> SUFFICES ASSUME Open
               PROVE  /\ None \notin Bases
                      /\ ~replaced => \A v \in Bases : Within(v, ann')
    BY DEF BasesWithin, Open, Bases, tabVars
  <2>1. None \notin Bases
    BY DEF HeldInv, BasesWithin
  <2>2. ASSUME ~replaced, NEW v \in Bases
        PROVE  Within(v, ann')
    <3>1. Within(v, ann)
      BY <1>1, <2>2 DEF HeldInv, BasesWithin
    <3>2. v \in Version
      BY BasesAreVersions DEF HeldInv
    <3> QED
      BY <1>1, <1>2, <3>1, <3>2, WithinTransitive
  <2> QED
    BY <2>1, <2>2
<1>5. OneAtATime' /\ WriterUnanswered' /\ FetchedHasHeld' /\ ShownHasHeld'
  BY DEF HeldInv, OneAtATime, WriterUnanswered, FetchedHasHeld, ShownHasHeld, Open, tabVars
<1> QED
  BY <1>3, <1>4, <1>5 DEF HeldInv

\* The edit is complete: what the tab is answered is the run as it is.
LEMMA CommitEffects ==
    ASSUME Inv, NEW i \in Ids, Commit(i)
    PROVE  /\ UNCHANGED <<ann, replaced, page, inFlight, sent, reloads, warned, overlapped>>
           /\ writer = i /\ man' = ann /\ writer' = None
           /\ OnlyRequest(i)
           /\ \/ patch'[i].st = "gone"
              \/ /\ patch[i].st = "sent" /\ patch'[i].st = "ok" /\ patch'[i].got = ann
                 /\ Kept(i)
<1>1. patch \in [Ids -> Patches] /\ patch[i] \in Patches /\ Gone.st = "gone"
  BY PatchWrites DEF Inv, Typed
<1>2. patch' = [patch EXCEPT ![i] = IF patch[i].st = "sent"
                                    THEN [patch[i] EXCEPT !.st = "ok", !.got = ann] ELSE Gone]
  BY <1>1 DEF Commit
<1>3. /\ UNCHANGED <<ann, replaced, page, inFlight, sent, reloads, warned, overlapped>>
      /\ writer = i /\ man' = ann /\ writer' = None
  BY DEF Commit
<1>4. CASE patch[i].st = "sent"
  <2> DEFINE x == [patch[i] EXCEPT !.st = "ok", !.got = ann]
  <2>1. x.st = "ok" /\ x.kind = patch[i].kind /\ x.base = patch[i].base /\ x.got = ann
    BY <1>1 DEF Patches
  <2>2. patch' = [patch EXCEPT ![i] = x]
    BY <1>2, <1>4
  <2> HIDE DEF x
  <2>3. patch'[i] = x /\ OnlyRequest(i)
    BY <1>1, <2>2 DEF OnlyRequest
  <2> QED
    BY <1>3, <1>4, <2>1, <2>3 DEF Kept
<1>5. CASE patch[i].st # "sent"
  <2>1. patch' = [patch EXCEPT ![i] = Gone]
    BY <1>2, <1>5
  <2>2. patch'[i].st = "gone" /\ OnlyRequest(i)
    BY <1>1, <2>1 DEF OnlyRequest
  <2> QED
    BY <1>3, <2>2
<1> QED
  BY <1>4, <1>5

\* A commit answers the writer with the version it wrote.
LEMMA HeldCommitStep ==
    ASSUME Inv, HeldInv, NEW i \in Ids, Commit(i)
    PROVE  HeldInv'
<1>1. /\ UNCHANGED <<ann, replaced, page, inFlight, warned, overlapped>>
      /\ writer = i /\ man' = ann /\ OnlyRequest(i)
  BY CommitEffects
<1>2. patch[i].st = "sent" => ann \in Version
  BY <1>1, Edited DEF Inv, WriterHasBase, WrittenOnBase
<1>3. ManifestWithin'
  <2> SUFFICES ASSUME ann # None
               PROVE  Within(ann, ann)
    BY <1>1 DEF ManifestWithin
  <2> QED
    BY WithinItself DEF Inv, Typed, MaybeVersion
<1>4. Bases' \subseteq Bases \cup (IF patch[i].st = "sent" THEN {ann} ELSE {})
  BY <1>1, CommitEffects DEF Bases, OnlyRequest
<1>5. BasesWithin'
  BY <1>1, <1>2, <1>4, WithinItself, VersionAssumption DEF HeldInv, BasesWithin, Open
<1>6. \A j \in Ids : patch'[j].st \in Awaited =>
          patch[j].st \in Awaited /\ patch'[j].kind = patch[j].kind
  <2> SUFFICES ASSUME NEW j \in Ids, patch'[j].st \in Awaited
               PROVE  patch[j].st \in Awaited /\ patch'[j].kind = patch[j].kind
    OBVIOUS
  <2>1. CASE j = i
    BY <2>1, CommitEffects DEF Kept, Awaited, Results
  <2>2. CASE j # i
    BY <1>1, <2>2 DEF OnlyRequest
  <2> QED
    BY <2>1, <2>2
<1>7. OneAtATime'
  BY <1>1, <1>6 DEF HeldInv, OneAtATime
<1>8. \A j \in Ids : patch'[j].st \in {"refetch", "fetched"} => j # i
  BY CommitEffects
<1>9. \A j \in Ids : patch[j].st \in {"refetch", "fetched"} => j # i
  BY <1>1 DEF HeldInv, WriterUnanswered
<1>10. WriterUnanswered'
  BY CommitEffects, ClientAssumption DEF WriterUnanswered
<1>11. FetchedHasHeld' /\ ShownHasHeld'
  BY <1>1, <1>8, <1>9 DEF HeldInv, FetchedHasHeld, ShownHasHeld, Open, OnlyRequest
<1> QED
  BY <1>3, <1>5, <1>7, <1>10, <1>11 DEF HeldInv

\* The other writers finish, and a publication takes the run away or puts one there.
LEMMA HeldWriterSteps ==
    ASSUME Inv, HeldInv, OtherCommits \/ Withdraw \/ PublisherDies \/ \E g \in Gens : Install(g)
    PROVE  HeldInv'
<1>1. UNCHANGED tabVars
  BY DEF OtherCommits, Withdraw, PublisherDies, Install
<1>2. \A i \in Ids : writer' # i
  BY ClientAssumption DEF OtherCommits, Withdraw, PublisherDies, Install
<1>3. /\ ann' \in {ann, None} \/ replaced'
      /\ ~replaced' => ~replaced
  BY DEF OtherCommits, Withdraw, PublisherDies, Install
<1>4. ManifestWithin'
  <2>1. CASE OtherCommits
    <3>1. ann # None => Within(ann, ann)
      BY WithinItself DEF Inv, Typed, MaybeVersion
    <3> QED
      BY <2>1, <3>1 DEF ManifestWithin, OtherCommits
  <2>2. CASE Withdraw
    BY <2>2 DEF ManifestWithin, Withdraw
  <2>3. CASE PublisherDies
    BY <2>3 DEF HeldInv, ManifestWithin, PublisherDies
  <2>4. CASE \E g \in Gens : Install(g)
    <3>1. PICK g \in Gens : ann' = Fresh(g) /\ man' = Fresh(g)
      BY <2>4 DEF Install
    <3>2. Within(ann', ann')
      BY <3>1, FreshIsVersion, WithinItself
    <3> QED
      BY <3>1, <3>2 DEF ManifestWithin
  <2> QED
    BY <2>1, <2>2, <2>3, <2>4
<1>5. BasesWithin'
  BY <1>1, <1>3 DEF HeldInv, BasesWithin, Bases, Open, tabVars
<1>6. OneAtATime' /\ WriterUnanswered' /\ FetchedHasHeld' /\ ShownHasHeld'
  BY <1>1, <1>2, <1>3
     DEF HeldInv, OneAtATime, WriterUnanswered, FetchedHasHeld, ShownHasHeld, Open, tabVars
<1> QED
  BY <1>4, <1>5, <1>6 DEF HeldInv

\* The page is read: what it comes to hold and to show is the run of that moment.
LEMMA LoadEffects ==
    ASSUME Inv, LoadIndex \/ LoadManifest \/ LoadManifestFails \/ LoadAnnotation
    PROVE  /\ UNCHANGED <<serverVars, inFlight, patch, sent, reloads, warned, overlapped>>
           /\ page'.url = page.url
           /\ \/ page'.st \notin {"loaded", "slot-error"} /\ ~Open
              \/ /\ ~Open /\ man # None /\ page'.st = "loaded" /\ page'.held = man
                 /\ page'.shown = page.shown
              \/ /\ page.st = "loaded" /\ page.shown = None /\ page'.held = page.held
                 /\ \/ ann # None /\ page'.st = "loaded" /\ page'.shown = ann
                    \/ page'.st = "slot-error" /\ page'.shown = page.shown
<1>1. page \in Pages
  BY DEF Inv, Typed
<1>2. UNCHANGED <<serverVars, inFlight, patch, sent, reloads, warned, overlapped>>
  BY DEF LoadIndex, LoadManifest, LoadManifestFails, LoadAnnotation
<1>3. page.st = "selected" \/ page.st = "loading" => ~Open
  BY DEF Open
<1>4. ASSUME NEW st, page' = [page EXCEPT !.st = st]
      PROVE  /\ page'.st = st /\ page'.held = page.held /\ page'.shown = page.shown
             /\ page'.url = page.url
  BY <1>1, <1>4 DEF Pages
<1>5. CASE LoadIndex
  <2>1. PICK st \in {"selected", "no-match"} : page' = [page EXCEPT !.st = st]
    <3>1. CASE selectRun
      BY <1>5, <3>1 DEF LoadIndex
    <3>2. CASE ~selectRun
      BY <1>5, <3>2 DEF LoadIndex
    <3> QED
      BY <3>1, <3>2
  <2>2. page'.st \notin {"loaded", "slot-error"} /\ page'.url = page.url
    BY <1>4, <2>1
  <2> QED
    BY <1>2, <1>3, <1>5, <2>2 DEF LoadIndex
<1>6. CASE LoadManifestFails
  BY <1>2, <1>3, <1>4, <1>6 DEF LoadManifestFails
<1>7. CASE LoadManifest
  <2>1. page' = [page EXCEPT !.st = "loaded", !.held = man] /\ man # None /\ ~Open
    BY <1>3, <1>7 DEF LoadManifest, open_artifact
  <2>2. /\ page'.st = "loaded" /\ page'.held = man /\ page'.shown = page.shown
        /\ page'.url = page.url
    BY <1>1, <2>1 DEF Pages
  <2> QED
    BY <1>2, <1>3, <2>1, <2>2
<1>8. CASE LoadAnnotation
  <2>1. page.st = "loaded" /\ page.shown = None
    BY <1>8 DEF LoadAnnotation
  <2>2. CASE ann # None
    <3>1. page' = ShowAnnotation(ann)
      BY <1>8, <2>2 DEF LoadAnnotation, open_artifact
    <3>2. /\ page'.st = page.st /\ page'.held = page.held /\ page'.shown = ann
          /\ page'.url = page.url
      BY <1>1, <3>1, ViewShows
    <3> QED
      BY <1>2, <1>3, <2>1, <2>2, <3>2
  <2>3. CASE ann = None
    <3>1. page' = [page EXCEPT !.st = "slot-error"]
      BY <1>8, <2>3 DEF LoadAnnotation, open_artifact
    <3> QED
      BY <1>2, <1>3, <1>4, <2>1, <3>1
  <2> QED
    BY <2>2, <2>3
<1> QED
  BY <1>5, <1>6, <1>7, <1>8

\* Loading keeps it: the page holds what the manifest names.
LEMMA HeldLoadSteps ==
    ASSUME Inv, HeldInv, LoadIndex \/ LoadManifest \/ LoadManifestFails \/ LoadAnnotation
    PROVE  HeldInv'
<1>1. UNCHANGED <<ann, man, writer, replaced, inFlight, patch, warned, overlapped>>
  BY LoadEffects DEF serverVars
<1>2. ManifestWithin' /\ OneAtATime' /\ WriterUnanswered'
  BY <1>1 DEF HeldInv, ManifestWithin, OneAtATime, WriterUnanswered
<1>3. CASE page'.st \notin {"loaded", "slot-error"}
  BY <1>2, <1>3 DEF HeldInv, BasesWithin, FetchedHasHeld, ShownHasHeld, Open
<1>4. CASE ~Open /\ man # None /\ page'.st = "loaded" /\ page'.held = man /\ page'.shown = page.shown
  <2>1. page.shown = None /\ \A i \in Ids : patch[i].st \notin {"sent", "ok", "refetch", "fetched"}
    BY <1>4 DEF Inv, ClosedIsEmpty, Live
  <2>2. Bases' \subseteq {man}
    BY <1>1, <1>4, <2>1 DEF Bases
  <2>3. Within(man, ann)
    BY <1>4 DEF HeldInv, ManifestWithin
  <2>4. BasesWithin'
    BY <1>1, <1>4, <2>2, <2>3 DEF BasesWithin
  <2>5. FetchedHasHeld' /\ ShownHasHeld'
    BY <1>1, <1>4, <2>1 DEF FetchedHasHeld, ShownHasHeld
  <2> QED
    BY <1>2, <2>4, <2>5 DEF HeldInv
<1>5. CASE /\ page.st = "loaded" /\ page.shown = None /\ page'.held = page.held
           /\ \/ ann # None /\ page'.st = "loaded" /\ page'.shown = ann
              \/ page'.st = "slot-error" /\ page'.shown = page.shown
  <2>1. Open /\ Open' /\ Bases' = Bases /\ page.held \in Bases
    BY <1>1, <1>5 DEF Open, Bases
  <2>2. BasesWithin'
    BY <1>1, <2>1 DEF HeldInv, BasesWithin
  <2>3. FetchedHasHeld'
    BY <1>1, <1>5, <2>1 DEF HeldInv, FetchedHasHeld
  <2>4. ShownHasHeld'
    BY <1>1, <1>5, <2>1 DEF HeldInv, BasesWithin, ShownHasHeld
  <2> QED
    BY <1>2, <2>2, <2>3, <2>4 DEF HeldInv
<1> QED
  BY <1>3, <1>4, <1>5, LoadEffects

\* A reload forgets everything; what was sent may still be applied.
LEMMA ReloadEffects ==
    ASSUME Inv, NEW keep \in BOOLEAN, Reload(keep)
    PROVE  /\ UNCHANGED <<ann, man, writer, sent>> /\ reloads' = reloads + 1
           /\ page'.st = "loading" /\ inFlight' = [k \in Kinds |-> FALSE]
           /\ \A i \in Ids : /\ patch'[i].st \in {"none", "gone", "abandoned"}
                             /\ patch[i].st \in {"sent", "abandoned"} => patch'[i].st = "abandoned"
<1>1. patch \in [Ids -> Patches]
  BY DEF Inv, Typed
<1> DEFINE x(i) == CASE patch[i].st = "sent" -> Abandoned(patch[i])
                     [] patch[i].st \in {"none", "abandoned"} -> patch[i]
                     [] OTHER -> Gone
<1>2. patch' = [i \in Ids |-> x(i)]
  BY DEF Reload
<1>3. ASSUME NEW i \in Ids
      PROVE  /\ x(i).st \in {"none", "gone", "abandoned"}
             /\ patch[i].st \in {"sent", "abandoned"} => x(i).st = "abandoned"
  <2>1. patch[i] \in Patches
    BY <1>1
  <2>2. Abandoned(patch[i]).st = "abandoned" /\ Gone.st = "gone"
    BY <2>1, PatchWrites, Zenon
  <2>3. CASE patch[i].st = "sent"
    BY <2>2, <2>3
  <2>4. CASE patch[i].st \in {"none", "abandoned"}
    BY <2>1, <2>4
  <2>5. CASE patch[i].st \notin {"sent", "none", "abandoned"}
    BY <2>2, <2>5
  <2> QED
    BY <2>3, <2>4, <2>5
<1> HIDE DEF x
<1>4. \A i \in Ids : patch'[i] = x(i)
  BY <1>2
<1>5. page'.st = "loading"
  BY DEF Reload, NewPage
<1>6. /\ UNCHANGED <<ann, man, writer, sent>> /\ reloads' = reloads + 1
      /\ inFlight' = [k \in Kinds |-> FALSE]
  BY DEF Reload
<1> QED
  BY <1>3, <1>4, <1>5, <1>6

\* A reload forgets the page, and what is still sent is awaited no more.
LEMMA HeldReloadStep ==
    ASSUME Inv, HeldInv, NEW keep \in BOOLEAN, Reload(keep)
    PROVE  HeldInv'
<1>1. ManifestWithin' /\ WriterUnanswered'
  BY ReloadEffects DEF HeldInv, ManifestWithin, WriterUnanswered
<1>2. OneAtATime'
  BY ReloadEffects DEF OneAtATime, Awaited, Results
<1>3. ~Open'
  BY ReloadEffects DEF Open
<1> QED
  BY <1>1, <1>2, <1>3 DEF HeldInv, BasesWithin, FetchedHasHeld, ShownHasHeld

\* A handler sends an edit, with what the page holds as its If-Match.
LEMMA SendEffects ==
    ASSUME Inv, NEW k \in Kinds, NEW v \in Values, NEW old \in Values,
           NEW drag \in Values \cup {None}, Send(k, v, old, drag)
    PROVE  /\ UNCHANGED <<serverVars, reloads, warned>>
           /\ overlapped' = (overlapped \/ Busy) /\ inFlight' = [inFlight EXCEPT ![k] = TRUE]
           /\ SameView(page', page)
           /\ sent + 1 \in Ids /\ sent \in Nat /\ sent' = sent + 1
           /\ OnlyRequest(sent + 1) /\ patch[sent + 1].st = "none"
           /\ patch'[sent + 1].st = "sent" /\ patch'[sent + 1].kind = k
           /\ patch'[sent + 1].base = page.held
<1> DEFINE x == [st |-> "sent", kind |-> k, value |-> v, old |-> old,
                 base |-> page.held, got |-> None]
<1>1. page \in Pages /\ patch \in [Ids -> Patches]
  BY DEF Inv, Typed
<1>2. sent + 1 \in Ids /\ sent \in Nat
  BY ClientAssumption DEF Send, Inv, Typed, Ids
<1>3. x.st = "sent" /\ x.kind = k /\ x.base = page.held
  OBVIOUS
<1>4. patch' = [patch EXCEPT ![sent + 1] = x]
  BY DEF Send
<1> HIDE DEF x
<1>5. patch'[sent + 1] = x /\ OnlyRequest(sent + 1)
  BY <1>1, <1>2, <1>4 DEF OnlyRequest
<1>6. patch[sent + 1].st = "none"
  BY <1>2 DEF Inv, SentInTurn
<1> DEFINE l == IF k \in Optimistic THEN [page.local EXCEPT ![k] = v] ELSE page.local
<1>7. l \in [Optimistic -> Values]
  <2>1. page.local \in [Optimistic -> Values]
    BY <1>1 DEF Pages
  <2>2. [page.local EXCEPT ![k] = v] \in [Optimistic -> Values]
    BY <2>1
  <2> QED
    BY <2>1, <2>2, Zenon
<1>8. page' = [page EXCEPT !.drag = drag, !.local = l]
  BY DEF Send
<1> HIDE DEF l
<1>9. SameView(page', page)
  BY <1>1, <1>7, <1>8, ViewKept, Zenon
<1>10. /\ UNCHANGED <<serverVars, reloads, warned>> /\ sent' = sent + 1
       /\ overlapped' = (overlapped \/ Busy) /\ inFlight' = [inFlight EXCEPT ![k] = TRUE]
  BY DEF Send
<1> QED
  BY <1>2, <1>3, <1>5, <1>6, <1>9, <1>10

\* An edit is sent with the version that is held.
LEMMA HeldSendStep ==
    ASSUME Inv, HeldInv, NEW k \in Kinds, NEW v \in Values, NEW old \in Values,
           NEW drag \in Values \cup {None}, Send(k, v, old, drag)
    PROVE  HeldInv'
<1> DEFINE n == sent + 1
<1>1. /\ UNCHANGED <<ann, man, writer, replaced, warned>> /\ SameView(page', page)
      /\ overlapped' = (overlapped \/ Busy) /\ inFlight' = [inFlight EXCEPT ![k] = TRUE]
      /\ n \in Ids /\ OnlyRequest(n) /\ patch[n].st = "none"
      /\ patch'[n].st = "sent" /\ patch'[n].kind = k /\ patch'[n].base = page.held
  BY SendEffects DEF serverVars
<1> HIDE DEF n
<1>2. ManifestWithin'
  BY <1>1 DEF HeldInv, ManifestWithin
<1>3. Bases' \subseteq Bases /\ (Open' <=> Open)
  BY <1>1 DEF Bases, OnlyRequest, SameView, Open
<1>4. BasesWithin'
  BY <1>1, <1>3 DEF HeldInv, BasesWithin
<1>5. WriterUnanswered'
  BY <1>1 DEF HeldInv, WriterUnanswered, OnlyRequest
<1>6. OneAtATime'
  <2>1. inFlight \in [Kinds -> BOOLEAN]
    BY DEF HeldInv, OneAtATime
  <2>2. inFlight' \in [Kinds -> BOOLEAN] /\ inFlight'[k]
    BY <1>1, <2>1
  <2> SUFFICES ASSUME ~overlapped'
               PROVE  \A i \in Ids : patch'[i].st \in Awaited => i = n
    BY <1>1, <2>2 DEF OneAtATime
  <2>3. ~overlapped /\ ~Busy
    BY <1>1
  <2> SUFFICES ASSUME NEW i \in Ids, patch'[i].st \in Awaited, i # n
               PROVE  FALSE
    OBVIOUS
  <2>4. patch[i].st \in Awaited
    BY <1>1 DEF OnlyRequest
  <2>5. inFlight[patch[i].kind] /\ patch[i].kind \in Kinds
    BY <2>3, <2>4 DEF HeldInv, OneAtATime, Inv, Typed, Patches
  <2> QED
    BY <2>3, <2>5 DEF Busy
<1>7. FetchedHasHeld'
  BY <1>1, <1>3 DEF HeldInv, FetchedHasHeld, OnlyRequest, SameView
<1>8. ShownHasHeld'
  BY <1>1, <1>3 DEF HeldInv, ShownHasHeld, OnlyRequest, SameView
<1> QED
  BY <1>2, <1>4, <1>5, <1>6, <1>7, <1>8 DEF HeldInv

\* The reviewer sends an edit, or moves a boundary that nothing has been sent for.
ByReviewer ==
    \/ onPointerDown
    \/ \E v \in Values : onPhaseEdit(v) \/ onReviewedToggle(v) \/ onLabelsEdit(v)
                         \/ onPointerUp(v) \/ onKeyDown(v)

\* What any of them does.
LEMMA ReviewerEffects ==
    ASSUME Inv, ByReviewer
    PROVE  /\ Open
           /\ \/ \E k \in Kinds, v \in Values, old \in Values, drag \in Values \cup {None} :
                    Send(k, v, old, drag)
              \/ /\ UNCHANGED <<serverVars, inFlight, patch, sent, reloads, warned, overlapped>>
                 /\ SameView(page', page)
<1>1. /\ page \in Pages /\ page.local \in [Optimistic -> Values]
      /\ page.drag \in Values \cup {None} /\ page.shown \in MaybeVersion
      /\ {"phase", "reviewed", "labels"} \subseteq Kinds \cap Optimistic /\ "boundary" \in Kinds
  BY DEF Inv, Typed, Pages, Kinds, Optimistic
<1>2. Editable => Open /\ \A k \in Kinds : Value(page.shown, k) \in Values
  BY <1>1, ValueIsValue DEF Editable, Open, MaybeVersion
<1>3. CASE onPointerDown
  <2>1. /\ Editable /\ page' = [page EXCEPT !.drag = Value(page.shown, "boundary")]
        /\ UNCHANGED <<serverVars, inFlight, patch, sent, reloads, warned, overlapped>>
    BY <1>3 DEF onPointerDown
  <2>2. page.local \in [Optimistic -> Values] /\ Value(page.shown, "boundary") \in Values \cup {None}
    BY <1>1, <1>2, <2>1
  <2>3. SameView(page', page)
    BY <1>1, <2>1, <2>2, ViewKept, Zenon
  <2> QED
    BY <1>2, <2>1, <2>3
<1>4. ASSUME NEW v \in Values, onPointerUp(v), v = page.drag
      PROVE  /\ UNCHANGED <<serverVars, inFlight, patch, sent, reloads, warned, overlapped>>
             /\ SameView(page', page)
  <2>1. /\ page' = [page EXCEPT !.drag = None]
        /\ UNCHANGED <<serverVars, inFlight, patch, sent, reloads, warned, overlapped>>
    BY <1>4 DEF onPointerUp
  <2>2. None \in Values \cup {None}
    OBVIOUS
  <2>3. SameView(page', page)
    BY <1>1, <2>1, <2>2, ViewKept, Zenon
  <2> QED
    BY <2>1, <2>3
<1>5. ASSUME NEW v \in Values,
             onPhaseEdit(v) \/ onReviewedToggle(v) \/ onLabelsEdit(v) \/ onKeyDown(v)
             \/ (onPointerUp(v) /\ v # page.drag)
      PROVE  \E k \in Kinds, w \in Values, old \in Values, drag \in Values \cup {None} :
                Send(k, w, old, drag)
  <2>1. CASE onPhaseEdit(v)
    BY <1>1, <1>2, <2>1 DEF onPhaseEdit, TableEnabled
  <2>2. CASE onReviewedToggle(v)
    BY <1>1, <2>2 DEF onReviewedToggle
  <2>3. CASE onLabelsEdit(v)
    BY <1>1, <1>2, <2>3 DEF onLabelsEdit, TableEnabled
  <2>4. CASE onKeyDown(v)
    BY <1>1, <2>4 DEF onKeyDown
  <2>5. CASE onPointerUp(v) /\ v # page.drag
    BY <1>1, <2>5 DEF onPointerUp
  <2> QED
    BY <1>5, <2>1, <2>2, <2>3, <2>4, <2>5
<1>6. Open
  BY <1>2 DEF ByReviewer, onPointerDown, onPhaseEdit, onReviewedToggle, onLabelsEdit, onKeyDown,
              onPointerUp, TableEnabled, Inv, ClosedIsEmpty
<1> QED
  BY <1>3, <1>4, <1>5, <1>6 DEF ByReviewer

\* The reviewer keeps it.
LEMMA HeldReviewerSteps ==
    ASSUME Inv, HeldInv, ByReviewer
    PROVE  HeldInv'
<1>1. CASE \E k \in Kinds, v \in Values, old \in Values, drag \in Values \cup {None} :
              Send(k, v, old, drag)
  BY <1>1, HeldSendStep
<1>2. CASE /\ UNCHANGED <<serverVars, inFlight, patch, sent, reloads, warned, overlapped>>
           /\ SameView(page', page)
  BY <1>2 DEF HeldInv, ManifestWithin, BasesWithin, OneAtATime, WriterUnanswered,
              FetchedHasHeld, ShownHasHeld, Open, Bases, SameView, serverVars
<1> QED
  BY <1>1, <1>2, ReviewerEffects

\* The steps of the system, by what they do.
LEMMA StepKinds ==
    ASSUME [Next]_vars
    PROVE  \/ UNCHANGED vars
           \/ \E i \in Ids : Accept(i) \/ Commit(i) \/ Refuse(i) \/ Receive(i)
           \/ \E k \in Kinds, v \in Values : OtherEdit(k, v)
           \/ OtherCommits \/ Withdraw \/ PublisherDies \/ \E g \in Gens : Install(g)
           \/ LoadIndex \/ LoadManifest \/ LoadManifestFails \/ LoadAnnotation
           \/ \E keep \in BOOLEAN : Reload(keep)
           \/ ByReviewer
  BY DEF Next, ByReviewer

\* Every step keeps it.
LEMMA HeldInvStep == ASSUME Inv, HeldInv, [Next]_vars PROVE HeldInv'
<1>1. CASE UNCHANGED vars
  BY <1>1 DEF HeldInv, ManifestWithin, BasesWithin, OneAtATime, WriterUnanswered, FetchedHasHeld,
              ShownHasHeld, Open, Bases, vars, serverVars, tabVars
<1>2. ASSUME NEW i \in Ids, Accept(i)
      PROVE  HeldInv'
  <2> DEFINE e == [by |-> "tab", kind |-> patch[i].kind, value |-> patch[i].value]
  <2>1. e \in Edit
    BY DEF Edit, Inv, Typed, Patches
  <2>2. /\ writer = None /\ man # None /\ ann' = After(ann, e)
        /\ UNCHANGED <<man, replaced, tabVars>>
        /\ \A j \in Ids : writer' = j => patch[j].st \in {"sent", "abandoned"}
    BY <1>2 DEF Accept
  <2> HIDE DEF e
  <2> QED
    BY <2>1, <2>2, HeldWriteStep
<1>3. ASSUME NEW k \in Kinds, NEW v \in Values, OtherEdit(k, v)
      PROVE  HeldInv'
  <2> DEFINE e == [by |-> "other", kind |-> k, value |-> v]
  <2>1. e \in Edit
    BY DEF Edit
  <2>2. /\ writer = None /\ man # None /\ ann' = After(ann, e)
        /\ UNCHANGED <<man, replaced, tabVars>>
        /\ \A j \in Ids : writer' # j
    BY <1>3, ClientAssumption DEF OtherEdit
  <2> HIDE DEF e
  <2> QED
    BY <2>1, <2>2, HeldWriteStep
<1>4. ASSUME NEW i \in Ids, Commit(i)
      PROVE  HeldInv'
  BY <1>4, HeldCommitStep
<1>5. ASSUME NEW i \in Ids, Refuse(i) \/ Receive(i)
      PROVE  HeldInv'
  BY <1>5, HeldRequestSteps
<1>6. CASE OtherCommits \/ Withdraw \/ PublisherDies \/ \E g \in Gens : Install(g)
  BY <1>6, HeldWriterSteps
<1>7. CASE LoadIndex \/ LoadManifest \/ LoadManifestFails \/ LoadAnnotation
  BY <1>7, HeldLoadSteps
<1>8. ASSUME NEW keep \in BOOLEAN, Reload(keep)
      PROVE  HeldInv'
  BY <1>8, HeldReloadStep
<1>9. CASE ByReviewer
  BY <1>9, HeldReviewerSteps
<1> QED
  BY <1>1, <1>2, <1>3, <1>4, <1>5, <1>6, <1>7, <1>8, <1>9, StepKinds

\* A page at rest shows all of the version it would edit, its own edits included, unless
\* it has said that its view may be stale, two edits overlapped, or the run was
\* published again.
THEOREM ShownAtRest == Spec => []HeldIsShown
<1>1. Inv /\ HeldInv => HeldIsShown
  <2> SUFFICES ASSUME Inv, HeldInv, Editable, ~Busy, ~warned, ~overlapped, ~replaced
               PROVE  \E n \in 0 .. Len(page.shown.edits) :
                         page.held.edits = SubSeq(page.shown.edits, 1, n)
    BY DEF HeldIsShown
  <2>1. Open /\ page.shown # None /\ page.held \in Bases
    BY DEF Editable, Open, Bases
  <2>2. page.held \in Version /\ page.shown \in Version
    BY <2>1, BasesAreVersions DEF HeldInv, Inv, Typed, Pages, MaybeVersion
  <2>3. ASSUME NEW i \in Ids, patch[i].st \in {"refetch", "fetched"}
        PROVE  FALSE
    <3>1. inFlight[patch[i].kind] /\ patch[i].kind \in Kinds
      BY <2>3 DEF HeldInv, OneAtATime, Awaited, Inv, Typed, Patches
    <3> QED
      BY <3>1 DEF Busy
  <2>4. Within(page.held, page.shown)
    BY <2>1, <2>3 DEF HeldInv, ShownHasHeld
  <2>5. page.held.edits = SubSeq(page.shown.edits, 1, Len(page.held.edits))
    BY <2>2, <2>4, WithinIsPrefix
  <2>6. Len(page.held.edits) \in 0 .. Len(page.shown.edits)
    BY <2>2, <2>4, EditsAreNumbered DEF Within
  <2> QED
    BY <2>5, <2>6
<1>2. Inv /\ HeldInv /\ [Next]_vars => (Inv /\ HeldInv)'
  BY InvStep, HeldInvStep
<1> QED
  BY <1>1, <1>2, InvInit, HeldInvInit, PTL DEF Spec

-----------------------------------------------------------------------------
(* The URL names what the page would edit. *)

\* w is v with one more edit of the tab, of this kind.
Extends(v, w, kind) ==
    /\ Within(v, w) /\ Len(w.edits) = Len(v.edits) + 1
    /\ w.edits[Len(w.edits)].by = "tab" /\ w.edits[Len(w.edits)].kind = kind

\* What v has more than u is by others, or a review mark.
Lags(u, v) ==
    /\ Within(u, v)
    /\ \A n \in Len(u.edits) + 1 .. Len(v.edits) :
           v.edits[n].by = "tab" => v.edits[n].kind = "reviewed"

\* Until the page is read for the first time the tab has sent nothing.
BeforeLoad ==
    ~Open => /\ sent = 0
             /\ page.url # None => page.url.edits = << >>
             /\ ann # None => \A n \in 1 .. Len(ann.edits) : ann.edits[n].by # "tab"

\* What request i has to do with the version the page holds: it was sent with an
\* earlier one or that, and one edit past it is written or answered, and only one.
OneStepAhead(i) ==
    /\ patch[i].st \in {"sent", "abandoned"} =>
          patch[i].base \in Version /\ Within(patch[i].base, page.held)
    /\ patch[i].st = "ok" =>
          /\ Extends(page.held, patch[i].got, patch[i].kind)
          /\ man # None => Within(patch[i].got, man)
          /\ \A j \in Ids : patch[j].st = "ok" => j = i
    /\ writer = i /\ patch[i].st = "sent" =>
          man # None /\ Within(man, page.held) /\ Extends(page.held, ann, patch[i].kind)
UrlOfHeld ==
    Open => /\ page.url # None => Lags(page.url, page.held)
            /\ man # None => Within(page.held, man)
            /\ \A i \in Ids : OneStepAhead(i)

UrlInv == reloads \in Nat /\ (reloads = 0 /\ ~replaced => BeforeLoad /\ UrlOfHeld)

\* One more edit of the tab is put behind a version.
LEMMA ExtendsAfter ==
    ASSUME NEW v \in Version, NEW e \in Edit, e.by = "tab"
    PROVE  Extends(v, After(v, e), e.kind)
<1>1. /\ Within(v, After(v, e)) /\ Len(After(v, e).edits) = Len(v.edits) + 1
      /\ After(v, e).edits[Len(v.edits) + 1] = e
  BY WithinAfter, Edited, Zenon
<1> DEFINE w == After(v, e)
<1> HIDE DEF w
<1>2. Within(v, w) /\ Len(w.edits) = Len(v.edits) + 1 /\ w.edits[Len(w.edits)] = e
  BY <1>1, Zenon DEF w
<1>3. Extends(v, w, e.kind)
  BY <1>2 DEF Extends
<1> QED
  BY <1>3 DEF w

\* Of two versions that are within each other, what extends one extends the other.
LEMMA ExtendsTheSame ==
    ASSUME NEW u \in Version, NEW v \in Version, NEW w \in Version, NEW k,
           Within(u, v), Within(v, u), Extends(v, w, k)
    PROVE  Extends(u, w, k)
<1>1. Within(u, w)
  BY WithinTransitive DEF Extends
<1>2. Len(u.edits) = Len(v.edits)
  BY EditsAreNumbered DEF Within
<1> QED
  BY <1>1, <1>2 DEF Extends

\* What extends a version is not within it.
LEMMA ExtendedIsNotWithin ==
    ASSUME NEW v \in Version, NEW w \in Version, NEW x \in Version, NEW k,
           Extends(v, w, k), Within(w, x), Within(x, v)
    PROVE  FALSE
  BY EditsAreNumbered DEF Extends, Within

\* A version does not lag behind itself ...
LEMMA LagsItself ==
    ASSUME NEW v \in Version
    PROVE  Lags(v, v)
<1>1. Len(v.edits) \in Nat
  BY EditsAreNumbered
<1> QED
  BY <1>1, WithinItself DEF Lags

\* ... and lags by one more review mark as well.
LEMMA LagsByReview ==
    ASSUME NEW u \in Version, NEW v \in Version, NEW w \in Version,
           Lags(u, v), Extends(v, w, "reviewed")
    PROVE  Lags(u, w)
<1>1. Len(u.edits) \in Nat /\ Len(v.edits) \in Nat
  BY EditsAreNumbered
<1>2. Within(u, w)
  BY WithinTransitive DEF Lags, Extends
<1>3. ASSUME NEW n \in Len(u.edits) + 1 .. Len(w.edits), w.edits[n].by = "tab"
      PROVE  w.edits[n].kind = "reviewed"
  <2>1. Len(w.edits) = Len(v.edits) + 1
    BY DEF Extends
  <2>2. CASE n = Len(w.edits)
    BY <2>2 DEF Extends
  <2>3. CASE n # Len(w.edits)
    <3>1. n \in 1 .. Len(v.edits) /\ n \in Len(u.edits) + 1 .. Len(v.edits)
      BY <1>1, <2>1, <2>3
    <3>2. w.edits[n] = v.edits[n]
      BY <3>1 DEF Extends, Within
    <3> QED
      BY <1>3, <3>1, <3>2 DEF Lags
  <2> QED
    BY <2>2, <2>3
<1> QED
  BY <1>2, <1>3 DEF Lags

\* The page's version is one, and so are the answers to its edits.
LEMMA HeldIsVersion ==
    ASSUME Inv, HeldInv, Open
    PROVE  /\ page.held \in Version
           /\ \A i \in Ids : patch[i].st = "ok" => patch[i].got \in Version
<1>1. page.held \in Bases /\ \A i \in Ids : patch[i].st = "ok" => patch[i].got \in Bases
  BY DEF Bases
<1> QED
  BY <1>1, BasesAreVersions DEF HeldInv

\* A page that begins to load has a fresh version in its URL, or none.
LEMMA UrlInvInit == Init => UrlInv
<1> SUFFICES ASSUME Init PROVE UrlInv
  OBVIOUS
<1>1. PICK g \in Gens : /\ ann = Fresh(g)
                        /\ page = NewPage(Fresh(g)) \/ page = NewPage(None)
  BY DEF Init
<1>2. Fresh(g).edits = << >> /\ Len(<< >>) = 0
  BY DEF Fresh
<1>3. page.url \in {Fresh(g), None} /\ ~Open
  BY <1>1 DEF NewPage, Open
<1>4. page.url # None => page.url.edits = << >>
  BY <1>2, <1>3
<1>5. \A n \in 1 .. Len(ann.edits) : FALSE
  <2>1. ann = Fresh(g)
    BY <1>1
  <2>2. ann.edits = << >>
    BY <2>1 DEF Fresh
  <2>3. Len(ann.edits) = 0
    BY <2>2
  <2> QED
    BY <2>3
<1>6. reloads \in Nat /\ sent = 0
  BY DEF Init
<1> QED
  BY <1>3, <1>4, <1>5, <1>6 DEF UrlInv, BeforeLoad, UrlOfHeld

\* An edit is written into annotation.json, of the tab only on the version it holds.
LEMMA UrlWriteStep ==
    ASSUME Inv, HeldInv, UrlInv, NEW e \in Edit, writer = None, man # None,
           ann' = After(ann, e), UNCHANGED <<man, replaced, tabVars>>,
           e.by = "tab" => \E i \in Ids : patch[i].st \in {"sent", "abandoned"},
           \A i \in Ids : writer' = i =>
               /\ patch[i].st \in {"sent", "abandoned"} /\ man = patch[i].base
               /\ e.by = "tab" /\ e.kind = patch[i].kind
    PROVE  UrlInv'
<1>1. ann = man /\ ann \in Version
  BY DEF Inv, ManifestBehind, Typed, MaybeVersion
<1>2. UNCHANGED <<page, patch, sent, reloads>>
  BY DEF tabVars
<1> SUFFICES ASSUME reloads = 0, ~replaced PROVE BeforeLoad' /\ UrlOfHeld'
  BY <1>2 DEF UrlInv
<1>3. BeforeLoad /\ UrlOfHeld
  BY DEF UrlInv
<1>4. BeforeLoad'
  <2> SUFFICES ASSUME ~Open, NEW n \in 1 .. Len(ann'.edits)
               PROVE  ann'.edits[n].by # "tab"
    BY <1>2, <1>3 DEF BeforeLoad, Open
  <2>1. \A i \in Ids : patch[i].st = "none"
    <3>1. \A i \in Ids : i > 0
      BY ClientAssumption DEF Ids
    <3> QED
      BY <1>3, <3>1 DEF BeforeLoad, Inv, SentInTurn
  <2>2. e.by # "tab"
    BY <2>1
  <2>3. /\ Len(ann'.edits) = Len(ann.edits) + 1 /\ ann'.edits[Len(ann.edits) + 1] = e
        /\ Within(ann, ann')
    BY <1>1, WithinAfter, Edited, Zenon
  <2>4. CASE n = Len(ann.edits) + 1
    BY <2>2, <2>3, <2>4
  <2>5. CASE n # Len(ann.edits) + 1
    <3>1. n \in 1 .. Len(ann.edits)
      BY <1>1, <2>3, <2>5, EditsAreNumbered
    <3>2. ann'.edits[n] = ann.edits[n]
      BY <2>3, <3>1 DEF Within
    <3>3. ann # None
      BY <1>1, VersionAssumption
    <3> QED
      BY <1>3, <3>1, <3>2, <3>3 DEF BeforeLoad
  <2> QED
    BY <2>4, <2>5
<1>5. ASSUME Open, NEW i \in Ids
      PROVE  OneStepAhead(i)'
  <2>1. OneStepAhead(i) /\ Within(page.held, man) /\ page.held \in Version
    BY <1>3, <1>5, HeldIsVersion DEF UrlOfHeld
  <2>2. ASSUME writer' = i, patch[i].st = "sent"
        PROVE  man # None /\ Within(man, page.held) /\ Extends(page.held, ann', patch[i].kind)
    <3>1. Within(man, page.held)
      BY <2>1, <2>2 DEF OneStepAhead
    <3>2. Extends(ann, ann', patch[i].kind) /\ ann' \in Version
      BY <1>1, <2>2, ExtendsAfter, WithinAfter
    <3>3. Extends(page.held, ann', patch[i].kind)
      BY <1>1, <2>1, <3>1, <3>2, ExtendsTheSame
    <3> QED
      BY <3>1, <3>3
  <2> QED
    BY <1>2, <2>1, <2>2 DEF OneStepAhead
<1>6. UrlOfHeld'
  BY <1>2, <1>3, <1>5 DEF UrlOfHeld, Open
<1> QED
  BY <1>4, <1>6

\* manifest.json catches up: the edit of the tab is answered, and the only one that is.
LEMMA UrlCommitStep ==
    ASSUME Inv, HeldInv, UrlInv, NEW i \in Ids, Commit(i)
    PROVE  UrlInv'
<1>1. /\ UNCHANGED <<ann, replaced, page, sent, reloads>>
      /\ writer = i /\ man' = ann /\ writer' = None /\ OnlyRequest(i)
      /\ \/ patch'[i].st = "gone"
         \/ /\ patch[i].st = "sent" /\ patch'[i].st = "ok" /\ patch'[i].got = ann
            /\ Kept(i)
  BY CommitEffects
<1> SUFFICES ASSUME reloads = 0, ~replaced PROVE BeforeLoad' /\ UrlOfHeld'
  BY <1>1 DEF UrlInv
<1>2. BeforeLoad /\ UrlOfHeld
  BY DEF UrlInv
<1>3. BeforeLoad'
  BY <1>1, <1>2 DEF BeforeLoad, Open
<1> SUFFICES ASSUME Open PROVE UrlOfHeld'
  BY <1>1, <1>3 DEF UrlOfHeld, Open
<1>4. page.held \in Version /\ ann \in MaybeVersion /\ man \in MaybeVersion
  BY HeldIsVersion DEF Inv, Typed
<1>5. ann # None => \A v \in Bases : Within(v, ann)
  BY DEF HeldInv, BasesWithin
<1>6. patch[i].st = "sent" =>
          /\ Extends(page.held, ann, patch[i].kind)
          /\ \A j \in Ids : patch[j].st # "ok"
  <2> SUFFICES ASSUME patch[i].st = "sent"
               PROVE  /\ Extends(page.held, ann, patch[i].kind)
                      /\ \A j \in Ids : patch[j].st = "ok" => FALSE
    OBVIOUS
  <2>1. man # None /\ Within(man, page.held) /\ Extends(page.held, ann, patch[i].kind)
    BY <1>1, <1>2 DEF UrlOfHeld, OneStepAhead
  <2>2. ASSUME NEW j \in Ids, patch[j].st = "ok"
        PROVE  FALSE
    <3>1. Extends(page.held, patch[j].got, patch[j].kind) /\ Within(patch[j].got, man)
      BY <1>2, <2>1, <2>2 DEF UrlOfHeld, OneStepAhead
    <3>2. patch[j].got \in Version /\ man \in Version
      BY <1>4, <2>1, <2>2, HeldIsVersion DEF MaybeVersion
    <3> QED
      BY <1>4, <2>1, <3>1, <3>2, ExtendedIsNotWithin
  <2> QED
    BY <2>1, <2>2
<1>7. \A j \in Ids : patch[j].st = "ok" => patch[j].got \in Bases
  BY DEF Bases
<1>8. ASSUME NEW j \in Ids
      PROVE  OneStepAhead(j)'
  <2>1. OneStepAhead(j)
    BY <1>2 DEF UrlOfHeld
  <2>2. writer' # j
    BY <1>1, ClientAssumption
  <2>3. CASE j = i
    <3>1. CASE patch'[i].st = "gone"
      BY <2>2, <2>3, <3>1 DEF OneStepAhead
    <3>2. CASE /\ patch[i].st = "sent" /\ patch'[i].st = "ok" /\ patch'[i].got = ann
               /\ Kept(i)
      <4>1. ann # None => Within(ann, ann)
        BY <1>4, WithinItself DEF MaybeVersion
      <4>2. \A k \in Ids : patch'[k].st = "ok" => k = i
        BY <1>1, <1>6, <3>2 DEF OnlyRequest
      <4> QED
        BY <1>1, <1>6, <2>2, <2>3, <3>2, <4>1, <4>2 DEF OneStepAhead, Kept
    <3> QED
      BY <1>1, <3>1, <3>2
  <2>4. CASE j # i
    <3>1. patch'[j] = patch[j]
      BY <1>1, <2>4 DEF OnlyRequest
    <3>2. patch[j].st = "ok" => /\ man' # None => Within(patch[j].got, man')
                                /\ \A k \in Ids : patch'[k].st = "ok" => k = j
      BY <1>1, <1>5, <1>6, <1>7, <2>1 DEF OneStepAhead, OnlyRequest
    <3> QED
      BY <1>1, <2>1, <2>2, <3>1, <3>2 DEF OneStepAhead
  <2> QED
    BY <2>3, <2>4
<1>9. page.held \in Bases
  BY DEF Bases
<1> QED
  BY <1>1, <1>2, <1>5, <1>8, <1>9 DEF UrlOfHeld

\* The other writers finish, and a publication takes the run away or puts one there.
LEMMA UrlWriterSteps ==
    ASSUME Inv, HeldInv, UrlInv, OtherCommits \/ Withdraw \/ PublisherDies \/ \E g \in Gens : Install(g)
    PROVE  UrlInv'
<1>1. UNCHANGED <<page, patch, sent, reloads>>
  BY DEF OtherCommits, Withdraw, PublisherDies, Install, tabVars
<1>2. \A i \in Ids : writer' # i
  BY ClientAssumption DEF OtherCommits, Withdraw, PublisherDies, Install
<1>3. \/ replaced'
      \/ ~replaced /\ ann' \in {ann, None} /\ man' \in {ann, man, None}
  BY DEF OtherCommits, Withdraw, PublisherDies, Install
<1>4. ~replaced' => ~replaced
  BY DEF OtherCommits, Withdraw, PublisherDies, Install
<1> SUFFICES ASSUME reloads = 0, ~replaced, ~replaced' PROVE BeforeLoad' /\ UrlOfHeld'
  BY <1>1, <1>4 DEF UrlInv
<1>5. BeforeLoad /\ UrlOfHeld
  BY DEF UrlInv
<1>6. BeforeLoad'
  BY <1>1, <1>3, <1>5 DEF BeforeLoad, Open
<1>7. ASSUME Open, NEW v \in Bases, man # None => Within(v, man)
      PROVE  man' # None => Within(v, man')
  BY <1>3, <1>7 DEF HeldInv, BasesWithin
<1>8. page.held \in Bases /\ \A i \in Ids : patch[i].st = "ok" => patch[i].got \in Bases
  BY DEF Bases
<1>9. ASSUME Open, NEW i \in Ids
      PROVE  OneStepAhead(i)'
  <2>1. OneStepAhead(i)
    BY <1>5, <1>9 DEF UrlOfHeld
  <2>2. patch[i].st = "ok" => (man' # None => Within(patch[i].got, man'))
    BY <1>7, <1>8, <1>9, <2>1 DEF OneStepAhead
  <2> QED
    BY <1>1, <1>2, <2>1, <2>2 DEF OneStepAhead
<1>10. UrlOfHeld'
  BY <1>1, <1>5, <1>7, <1>8, <1>9 DEF UrlOfHeld, Open
<1> QED
  BY <1>6, <1>10

\* The page is read: what it holds is the run as it was published, and edits of others.
LEMMA UrlLoadSteps ==
    ASSUME Inv, HeldInv, UrlInv,
           LoadIndex \/ LoadManifest \/ LoadManifestFails \/ LoadAnnotation
    PROVE  UrlInv'
<1>1. /\ UNCHANGED <<ann, man, writer, replaced, patch, sent, reloads>>
      /\ page'.url = page.url
  BY LoadEffects DEF serverVars
<1> SUFFICES ASSUME reloads = 0, ~replaced PROVE BeforeLoad' /\ UrlOfHeld'
  BY <1>1 DEF UrlInv
<1>2. BeforeLoad /\ UrlOfHeld
  BY DEF UrlInv
<1>3. CASE page'.st \notin {"loaded", "slot-error"} /\ ~Open
  BY <1>1, <1>2, <1>3 DEF BeforeLoad, UrlOfHeld, Open
<1>4. CASE /\ ~Open /\ man # None /\ page'.st = "loaded" /\ page'.held = man
           /\ page'.shown = page.shown
  <2>1. \A i \in Ids : patch[i].st = "none"
    <3>1. \A i \in Ids : i > 0
      BY ClientAssumption DEF Ids
    <3> QED
      BY <1>2, <1>4, <3>1 DEF BeforeLoad, Inv, SentInTurn
  <2>2. man \in Version /\ ann \in Version /\ Within(man, ann)
    BY <1>4 DEF HeldInv, ManifestWithin, Inv, Typed, MaybeVersion
  <2>3. Len(man.edits) \in Nat /\ Len(ann.edits) \in Nat
    BY <2>2, EditsAreNumbered
  <2>4. \A n \in 1 .. Len(man.edits) : man.edits[n].by # "tab"
    <3> SUFFICES ASSUME NEW n \in 1 .. Len(man.edits)
                 PROVE  man.edits[n].by # "tab"
      OBVIOUS
    <3>1. n \in 1 .. Len(ann.edits) /\ man.edits[n] = ann.edits[n]
      BY <2>2, <2>3 DEF Within
    <3>2. ann # None
      BY <1>4 DEF HeldInv, ManifestWithin
    <3> QED
      BY <1>2, <1>4, <3>1, <3>2 DEF BeforeLoad
  <2>5. page.url # None => Lags(page.url, man)
    <3> SUFFICES ASSUME page.url # None
                 PROVE  Lags(page.url, man)
      OBVIOUS
    <3>1. page.url.edits = << >> /\ Len(<< >>) = 0
      BY <1>2, <1>4 DEF BeforeLoad
    <3>2. Len(page.url.edits) = 0
      BY <3>1, Zenon
    <3> QED
      BY <2>3, <2>4, <3>2 DEF Lags, Within
  <2>6. UrlOfHeld'
    BY <1>1, <1>4, <2>1, <2>2, <2>5, WithinItself DEF UrlOfHeld, OneStepAhead
  <2>7. BeforeLoad'
    BY <1>4 DEF BeforeLoad, Open
  <2> QED
    BY <2>6, <2>7
<1>5. CASE /\ page.st = "loaded" /\ page'.held = page.held
           /\ page'.st \in {"loaded", "slot-error"}
  <2>1. Open /\ Open'
    BY <1>5 DEF Open
  <2> QED
    BY <1>1, <1>2, <1>5, <2>1 DEF BeforeLoad, UrlOfHeld, OneStepAhead
<1> QED
  BY <1>3, <1>4, <1>5, LoadEffects

\* A page that keeps what it holds, and its URL, while requests move on.
LEMMA UrlRequestStep ==
    ASSUME Inv, UrlInv, NEW i \in Ids, UNCHANGED <<ann, man, writer, replaced, sent, reloads>>,
           page'.st = page.st, page'.held = page.held, page'.url = page.url, OnlyRequest(i),
           patch'[i].st \in {"sent", "ok"} => FALSE,
           patch'[i].st = "abandoned" =>
               patch[i].st = "sent" /\ patch'[i].base = patch[i].base
    PROVE  UrlInv'
<1> SUFFICES ASSUME reloads = 0, ~replaced PROVE BeforeLoad' /\ UrlOfHeld'
  BY DEF UrlInv
<1>1. BeforeLoad /\ UrlOfHeld /\ (Open' <=> Open)
  BY DEF UrlInv, Open
<1>2. ASSUME Open, NEW j \in Ids
      PROVE  OneStepAhead(j)'
  <2>1. OneStepAhead(j)
    BY <1>1, <1>2 DEF UrlOfHeld
  <2>2. CASE j = i
    BY <2>1, <2>2 DEF OneStepAhead
  <2>3. CASE j # i
    <3>1. patch'[j] = patch[j]
      BY <2>3 DEF OnlyRequest
    <3>2. \A k \in Ids : patch'[k].st = "ok" => patch[k].st = "ok"
      BY DEF OnlyRequest
    <3> QED
      BY <2>1, <3>1, <3>2 DEF OneStepAhead
  <2> QED
    BY <2>2, <2>3
<1>3. BeforeLoad'
  BY <1>1 DEF BeforeLoad
<1>4. UrlOfHeld'
  BY <1>1, <1>2 DEF UrlOfHeld
<1> QED
  BY <1>3, <1>4

\* The hash of the answer becomes the one the page holds: nothing else was one edit ahead.
LEMMA UrlReceiveOkStep ==
    ASSUME Inv, HeldInv, UrlInv, NEW i \in Ids, ReceiveOk(i)
    PROVE  UrlInv'
<1>1. /\ UNCHANGED <<ann, man, writer, replaced, sent, reloads>>
      /\ page'.st = page.st /\ page'.held = patch[i].got /\ page'.url = SyncUrl(i)
      /\ OnlyRequest(i) /\ patch[i].st = "ok" /\ patch'[i].st = "refetch"
  BY ReceiveOkEffects DEF serverVars
<1> SUFFICES ASSUME reloads = 0, ~replaced PROVE BeforeLoad' /\ UrlOfHeld'
  BY <1>1 DEF UrlInv
<1>2. BeforeLoad /\ UrlOfHeld /\ Open /\ Open'
  BY <1>1 DEF UrlInv, Open, Inv, ClosedIsEmpty, Live
<1>3. /\ Extends(page.held, patch[i].got, patch[i].kind)
      /\ man # None => Within(patch[i].got, man)
      /\ \A j \in Ids : patch[j].st = "ok" => j = i
  BY <1>1, <1>2 DEF UrlOfHeld, OneStepAhead
<1>4. page.held \in Version /\ patch[i].got \in Version
  BY <1>1, <1>2, HeldIsVersion
<1>5. ASSUME NEW j \in Ids
      PROVE  OneStepAhead(j)'
  <2>1. OneStepAhead(j)
    BY <1>2 DEF UrlOfHeld
  <2>2. CASE j = i
    BY <1>1, <2>1, <2>2 DEF HeldInv, WriterUnanswered, OneStepAhead
  <2>3. CASE j # i
    <3>1. patch'[j] = patch[j] /\ patch[j].st # "ok"
      BY <1>3, <2>3, <1>1 DEF OnlyRequest
    <3>2. ASSUME patch[j].st \in {"sent", "abandoned"}
          PROVE  patch[j].base \in Version /\ Within(patch[j].base, patch[i].got)
      BY <1>3, <1>4, <2>1, <3>2, WithinTransitive DEF OneStepAhead, Extends
    <3>3. ASSUME writer = j, patch[j].st = "sent"
          PROVE  FALSE
      <4>1. man # None /\ Within(man, page.held)
        BY <2>1, <3>3 DEF OneStepAhead
      <4>2. man \in Version
        BY <4>1 DEF Inv, Typed, MaybeVersion
      <4> QED
        BY <1>3, <1>4, <4>1, <4>2, ExtendedIsNotWithin
    <3> QED
      BY <1>1, <3>1, <3>2, <3>3 DEF OneStepAhead
  <2> QED
    BY <2>2, <2>3
<1>6. page'.url # None => Lags(page'.url, patch[i].got)
  <2>1. CASE page.url # None /\ patch[i].kind # "reviewed"
    BY <1>1, <1>4, <2>1, LagsItself DEF SyncUrl
  <2>2. CASE page.url # None /\ patch[i].kind = "reviewed"
    <3>1. page.url \in Version
      BY <2>2 DEF Inv, Typed, Pages, MaybeVersion
    <3> QED
      BY <1>1, <1>2, <1>3, <1>4, <2>2, <3>1, LagsByReview DEF SyncUrl, UrlOfHeld
  <2>3. CASE page.url = None
    BY <1>1, <2>3 DEF SyncUrl
  <2> QED
    BY <2>1, <2>2, <2>3
<1>7. UrlOfHeld'
  BY <1>1, <1>3, <1>5, <1>6 DEF UrlOfHeld
<1>8. BeforeLoad'
  BY <1>2 DEF BeforeLoad
<1> QED
  BY <1>7, <1>8

\* The steps of requests.
LEMMA UrlRequestSteps ==
    ASSUME Inv, HeldInv, UrlInv, NEW i \in Ids, Refuse(i) \/ Receive(i)
    PROVE  UrlInv'
<1>1. CASE Refuse(i)
  BY <1>1, RefuseEffects, UrlRequestStep DEF serverVars
<1>2. CASE ReceiveConflict(i) \/ ReceiveRefusal(i) \/ TimeOut(i)
  BY <1>2, RollBackEffects, UrlRequestStep DEF serverVars, SameView
<1>3. CASE ReceiveOk(i)
  BY <1>3, UrlReceiveOkStep
<1>4. CASE Refetch(i)
  BY <1>4, RefetchEffects, UrlRequestStep DEF serverVars
<1>5. CASE Deliver(i) \/ RefetchFails(i)
  BY <1>5, DeliverEffects, UrlRequestStep DEF serverVars
<1> QED
  BY <1>1, <1>2, <1>3, <1>4, <1>5 DEF Receive

\* The reviewer sends with what the page holds.
LEMMA UrlReviewerSteps ==
    ASSUME Inv, HeldInv, UrlInv, ByReviewer
    PROVE  UrlInv'
<1>1. Open
  BY ReviewerEffects
<1>2. CASE /\ UNCHANGED <<serverVars, inFlight, patch, sent, reloads, warned, overlapped>>
           /\ SameView(page', page)
  BY <1>2 DEF UrlInv, BeforeLoad, UrlOfHeld, OneStepAhead, Open, SameView, serverVars
<1>3. ASSUME NEW k \in Kinds, NEW v \in Values, NEW old \in Values,
             NEW drag \in Values \cup {None}, Send(k, v, old, drag)
      PROVE  UrlInv'
  <2> DEFINE n == sent + 1
  <2>1. /\ UNCHANGED <<ann, man, writer, replaced, reloads>> /\ SameView(page', page)
        /\ n \in Ids /\ OnlyRequest(n) /\ patch[n].st = "none"
        /\ patch'[n].st = "sent" /\ patch'[n].base = page.held
    BY <1>3, SendEffects DEF serverVars
  <2> HIDE DEF n
  <2> SUFFICES ASSUME reloads = 0, ~replaced PROVE BeforeLoad' /\ UrlOfHeld'
    BY <2>1 DEF UrlInv
  <2>2. UrlOfHeld /\ Open'
    BY <1>1, <2>1 DEF UrlInv, Open, SameView
  <2>3. page.held \in Version /\ Within(page.held, page.held)
    BY <1>1, HeldIsVersion, WithinItself
  <2>4. ASSUME NEW j \in Ids
        PROVE  OneStepAhead(j)'
    <3>1. OneStepAhead(j)
      BY <1>1, <2>2 DEF UrlOfHeld
    <3>2. CASE j = n
      <4>1. writer # n
        BY <2>1 DEF HeldInv, WriterUnanswered
      <4> QED
        BY <2>1, <2>3, <3>2, <4>1 DEF OneStepAhead, SameView
    <3>3. CASE j # n
      <4>1. patch'[j] = patch[j]
        BY <2>1, <3>3 DEF OnlyRequest
      <4>2. \A l \in Ids : patch'[l].st = "ok" => patch[l].st = "ok"
        BY <2>1 DEF OnlyRequest
      <4> QED
        BY <2>1, <3>1, <4>1, <4>2 DEF OneStepAhead, SameView
    <3> QED
      BY <3>2, <3>3
  <2> QED
    BY <1>1, <2>1, <2>2, <2>4 DEF BeforeLoad, UrlOfHeld, SameView
<1> QED
  BY <1>2, <1>3, ReviewerEffects

\* Every step keeps it.
LEMMA UrlInvStep == ASSUME Inv, HeldInv, UrlInv, [Next]_vars PROVE UrlInv'
<1>1. CASE UNCHANGED vars
  BY <1>1 DEF UrlInv, BeforeLoad, UrlOfHeld, OneStepAhead, Open, vars, serverVars, tabVars
<1>2. ASSUME NEW i \in Ids, Accept(i)
      PROVE  UrlInv'
  <2> DEFINE e == [by |-> "tab", kind |-> patch[i].kind, value |-> patch[i].value]
  <2>1. e \in Edit /\ e.by = "tab" /\ e.kind = patch[i].kind
    BY DEF Edit, Inv, Typed, Patches
  <2>2. /\ writer = None /\ man # None /\ man = patch[i].base /\ ann' = After(ann, e)
        /\ UNCHANGED <<man, replaced, tabVars>> /\ writer' = i
        /\ patch[i].st \in {"sent", "abandoned"}
    BY <1>2 DEF Accept
  <2> HIDE DEF e
  <2>3. \A j \in Ids : writer' = j =>
            /\ patch[j].st \in {"sent", "abandoned"} /\ man = patch[j].base
            /\ e.by = "tab" /\ e.kind = patch[j].kind
    BY <2>1, <2>2
  <2> QED
    BY <2>1, <2>2, <2>3, UrlWriteStep
<1>3. ASSUME NEW k \in Kinds, NEW v \in Values, OtherEdit(k, v)
      PROVE  UrlInv'
  <2> DEFINE e == [by |-> "other", kind |-> k, value |-> v]
  <2>1. e \in Edit /\ e.by # "tab"
    BY DEF Edit
  <2>2. /\ writer = None /\ man # None /\ ann' = After(ann, e)
        /\ UNCHANGED <<man, replaced, tabVars>>
        /\ \A j \in Ids : writer' # j
    BY <1>3, ClientAssumption DEF OtherEdit
  <2> HIDE DEF e
  <2> QED
    BY <2>1, <2>2, UrlWriteStep
<1>4. ASSUME NEW i \in Ids, Commit(i)
      PROVE  UrlInv'
  BY <1>4, UrlCommitStep
<1>5. ASSUME NEW i \in Ids, Refuse(i) \/ Receive(i)
      PROVE  UrlInv'
  BY <1>5, UrlRequestSteps
<1>6. CASE OtherCommits \/ Withdraw \/ PublisherDies \/ \E g \in Gens : Install(g)
  BY <1>6, UrlWriterSteps
<1>7. CASE LoadIndex \/ LoadManifest \/ LoadManifestFails \/ LoadAnnotation
  BY <1>7, UrlLoadSteps
<1>8. ASSUME NEW keep \in BOOLEAN, Reload(keep)
      PROVE  UrlInv'
  BY <1>8, ReloadEffects DEF UrlInv
<1>9. CASE ByReviewer
  BY <1>9, UrlReviewerSteps
<1> QED
  BY <1>1, <1>2, <1>3, <1>4, <1>5, <1>6, <1>7, <1>8, <1>9, StepKinds

\* The URL of a page that was opened with a hash falls behind what the page would edit
\* by review marks only, and by what others wrote while it was loading.
THEOREM UrlInSync == Spec => []UrlLagsByReviewsOnly
<1>1. Inv /\ HeldInv /\ UrlInv => UrlLagsByReviewsOnly
  <2> SUFFICES ASSUME Inv, HeldInv, UrlInv, page.st = "loaded", page.url # None, ~replaced,
                      reloads = 0
               PROVE  LET url == page.url.edits
                          held == page.held.edits
                      IN  /\ Len(url) <= Len(held)
                          /\ url = SubSeq(held, 1, Len(url))
                          /\ \A n \in Len(url) + 1 .. Len(held) :
                                 held[n].by = "tab" => held[n].kind = "reviewed"
    BY DEF UrlLagsByReviewsOnly
  <2>1. Open /\ Lags(page.url, page.held)
    BY DEF UrlInv, UrlOfHeld, Open
  <2>2. page.url \in Version /\ page.held \in Version
    BY <2>1, HeldIsVersion DEF Inv, Typed, Pages, MaybeVersion
  <2>3. page.url.edits = SubSeq(page.held.edits, 1, Len(page.url.edits))
    BY <2>1, <2>2, WithinIsPrefix DEF Lags
  <2> QED
    BY <2>1, <2>3 DEF Lags, Within
<1>2. Inv /\ HeldInv /\ UrlInv /\ [Next]_vars => (Inv /\ HeldInv /\ UrlInv)'
  BY InvStep, HeldInvStep, UrlInvStep
<1> QED
  BY <1>1, <1>2, InvInit, HeldInvInit, UrlInvInit, PTL DEF Spec
=============================================================================
