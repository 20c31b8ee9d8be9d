--------------------------- MODULE RunStoreProofs ---------------------------
(***************************************************************************)
(* Theorems about RunStore, for any requests, processes, clients, edits    *)
(* and bounds.  First what the directories, the lock and those inside it   *)
(* owe one another, the inductive invariant IInv.  Then what readers of    *)
(* the run store can rely on: the audit trail in a run accounts for it,    *)
(* the index lists it, and its version is the register of EditRegister, on *)
(* which an edit commits only if it is the version its client holds.       *)
(***************************************************************************)
EXTENDS RunStore, NaturalsInduction, WellFoundedInduction, TLAPS

\* What a publisher relies on in the tmp directory it fills: it has claimed it,
\* and from the end of the computation on it holds the run it is to publish.
PubClaimed == {"artifacts", "acquire", "scavenge", "recheck", "bake"}
PubFilled == {"acquire", "scavenge", "recheck", "bake", "backup", "bakmeta", "install"}
TmpKept(p) ==
    /\ pub[p].pc \in PubClaimed => TmpOf(p) # NoDir /\ TmpOf(p).writer = pub[p].start
    /\ pub[p].pc \in PubFilled => TmpOf(p) # NoDir /\ TmpOf(p).run = FreshRun(pub[p].req)
TmpInv == \A p \in Annotators : TmpKept(p)

\* The bak directory a publisher is about to claim is there.
BakInv == \A p \in Annotators : At(p, "bakmeta") => BakOf(p) # NoDir

\* What a PATCH relies on between its writes: nobody else has touched the run.
EdKept(c) ==
    LET run == runs[ed[c].name] IN
    /\ ed[c].pc \in {"writeAnn", "writeMan"} =>
          /\ run # Absent
          /\ run.man = ed[c].seen
          /\ ed[c].ann.hash = DeriveHash(run.man, ed[c].op)
    /\ EdAt(c, "writeMan") => run.ann = ed[c].ann
    /\ EdAt(c, "writeIdx") => run # Absent /\ run.man = ed[c].ann.hash
EdInv == \A c \in Editors : EdKept(c)

\* From final -> bak to tmp -> final nobody puts a run under the name.
FinalInv ==
    \A p \in Annotators :
        pub[p].pc \in {"bakmeta", "install"} => runs[pub[p].name] = Absent

IInv ==
    /\ TypeOK
    /\ LockHeld
    /\ TmpInv
    /\ BakInv
    /\ FinalInv
    /\ EdInv
    /\ AnnotationAtMostOneAhead

-----------------------------------------------------------------------------
\* A published run is a run at the version of its request, without edits.
LEMMA FreshRunFacts ==
    ASSUME NEW r \in Requests
    PROVE  /\ FreshRun(r) \in Run
           /\ FreshRun(r).man = AutoHash(r)
           /\ FreshRun(r).ann.hash = AutoHash(r)
           /\ FreshRun(r) # Absent
  <1>1. AutoHash(r) \in Hash
    BY DEF AutoHash, Hash
  <1>2. [s \in Segments |-> FirstValue] \in [Segments -> Values]
    BY EditsAssumption DEF EditsAssumption
  <1>3. FreshRun(r) \in Run
    BY <1>1, <1>2 DEF FreshRun, Run, Annotation
  <1>4. FreshRun(r).man = AutoHash(r) /\ FreshRun(r).ann.hash = AutoHash(r)
    BY DEF FreshRun
  <1>5. FreshRun(r) # Absent
    BY <1>3, SentinelAssumption DEF SentinelAssumption
  <1>6. QED
    BY <1>3, <1>4, <1>5

\* An edited hash is a hash.
LEMMA DeriveHashType ==
    ASSUME NEW h \in Hash, NEW e \in Edits
    PROVE  DeriveHash(h, e) \in Hash
  BY DEF DeriveHash, Hash

\* An edited annotation is an annotation.
LEMMA EditAnnotationType ==
    ASSUME NEW a \in Annotation, NEW e \in Edits, NEW h \in Hash
    PROVE  EditAnnotation(a, e, h) \in Annotation /\ EditAnnotation(a, e, h).hash = h
  <1>1. e.seg \in Segments /\ e.val \in Values
    BY EditsAssumption DEF EditsAssumption
  <1>2. QED
    BY <1>1 DEF EditAnnotation, Annotation

\* The state of a process that does not publish, and of a client that does not
\* edit, have their types.
LEMMA NewTypes == NewPub \in PubType /\ NewEd \in EdType
  <1>1. (CHOOSE r \in Requests : TRUE) \in Requests
    BY NamesAssumption DEF NamesAssumption
  <1>2. (CHOOSE n \in Names : TRUE) \in Names
    BY NamesAssumption DEF NamesAssumption
  <1>3. (CHOOSE e \in Edits : TRUE) \in Edits
    BY EditsAssumption DEF EditsAssumption
  <1>4. NewPub \in PubType
    BY <1>1, <1>2 DEF NewPub, PubType, PubSteps
  <1>5. FreshRun(CHOOSE r \in Requests : TRUE).ann \in Annotation
    BY <1>1, FreshRunFacts DEF Run
  <1>6. NewEd \in EdType
    BY <1>2, <1>3, <1>5 DEF NewEd, EdType, EdSteps
  <1>7. QED
    BY <1>4, <1>6

\* Initially nothing is published, claimed or locked.
LEMMA InitIInv == Init => IInv
  <1> SUFFICES ASSUME Init PROVE IInv
    OBVIOUS
  <1>1. TypeOK
    BY NewTypes DEF Init, TypeOK, Row
  <1>2. LockHeld
    BY DistinctAssumption DEF DistinctAssumption, Init, LockHeld, PubLocked, EdLocked, NewPub, NewEd
  <1>3. TmpInv /\ BakInv /\ FinalInv /\ EdInv
    BY DEF Init, TmpInv, TmpKept, PubClaimed, PubFilled, BakInv, FinalInv, EdInv, EdKept, At, EdAt, NewPub, NewEd
  <1>4. AnnotationAtMostOneAhead
    BY DEF Init, AnnotationAtMostOneAhead
  <1>5. QED
    BY <1>1, <1>2, <1>3, <1>4 DEF IInv

-----------------------------------------------------------------------------
(***************************************************************************)
(* Types.                                                                  *)
(***************************************************************************)
\* Writing one publisher's tmp or bak directory keeps their type.
LEMMA SetDirType ==
    ASSUME NEW dirs \in [Names -> [Annotators -> SideDir \cup {NoDir}]],
           NEW n \in Names, NEW p \in Annotators, NEW d \in SideDir \cup {NoDir}
    PROVE  [dirs EXCEPT ![n][p] = d] \in [Names -> [Annotators -> SideDir \cup {NoDir}]]
  OBVIOUS

\* A side directory with another content, claim or age is a side directory.
LEMMA SideDirUpdate ==
    ASSUME NEW d \in SideDir, NEW run \in Run, NEW w \in Nat \cup {NoWriter},
           NEW old \in BOOLEAN
    PROVE  /\ [d EXCEPT !.run = run] \in SideDir
           /\ [d EXCEPT !.writer = w, !.old = FALSE] \in SideDir
           /\ [d EXCEPT !.old = old] \in SideDir
           /\ [run |-> run, writer |-> w, old |-> old] \in SideDir
           /\ [run |-> Absent, writer |-> w, old |-> old] \in SideDir
  BY DEF SideDir

\* Sweeping and ageing keep the type of the side directories.
LEMMA SweepType ==
    ASSUME NEW dirs \in [Names -> [Annotators -> SideDir \cup {NoDir}]]
    PROVE  /\ SweepDirs(dirs) \in [Names -> [Annotators -> SideDir \cup {NoDir}]]
           /\ AgeDirs(dirs) \in [Names -> [Annotators -> SideDir \cup {NoDir}]]
  <1>1. SweepDirs(dirs) \in [Names -> [Annotators -> SideDir \cup {NoDir}]]
    BY DEF SweepDirs
  <1>2. ASSUME NEW n \in Names, NEW q \in Annotators, dirs[n][q] # NoDir
        PROVE  [dirs[n][q] EXCEPT !.old = TRUE] \in SideDir
    <2>1. dirs[n][q] \in SideDir
      BY <1>2
    <2>2. QED
      BY <2>1, SideDirUpdate DEF SideDir
  <1>3. AgeDirs(dirs) \in [Names -> [Annotators -> SideDir \cup {NoDir}]]
    BY <1>2 DEF AgeDirs
  <1>4. QED
    BY <1>1, <1>3

\* A publisher's state stays one whatever step it goes to.
LEMMA PubTypeStep ==
    ASSUME TypeOK, NEW p \in Annotators
    PROVE  /\ \A step \in PubSteps : Goto(p, step) => pub' \in [Annotators -> PubType]
           /\ Exit(p) => pub' \in [Annotators -> PubType]
  <1>1. pub \in [Annotators -> PubType] /\ NewPub \in PubType
    BY NewTypes DEF TypeOK
  <1>2. \A step \in PubSteps : [pub[p] EXCEPT !.pc = step] \in PubType
    BY <1>1 DEF PubType
  <1>3. [NewPub EXCEPT !.start = pub[p].start] \in PubType
    BY <1>1 DEF PubType
  <1>4. QED
    BY <1>1, <1>2, <1>3 DEF Goto, Exit

\* upsert_row leaves rows of the index.
LEMMA UpsertType ==
    ASSUME TypeOK, NEW r \in Requests, NEW n \in Names, UpsertRow(AutoHash(r), n)
    PROVE  index' \in SUBSET Row
  <1>1. [hash |-> AutoHash(r), name |-> n] \in Row
    BY DEF Row, AutoHash, Hash
  <1>2. QED
    BY <1>1 DEF TypeOK, UpsertRow

\* Every step of a publisher keeps the types.
LEMMA PublisherType ==
    ASSUME IInv, NEW p \in Annotators,
           (\E r \in Requests, force \in BOOLEAN : Start(p, r, force))
               \/ PublishStep(p) \/ Fault(p) \/ CrashAnnotator(p)
    PROVE  TypeOK'
  <1> USE DEF TypeOK
  <1>t. TypeOK /\ pub[p] \in PubType
    BY DEF IInv
  <1>g. \A step \in PubSteps : Goto(p, step) => pub' \in [Annotators -> PubType]
    BY <1>t, PubTypeStep
  <1>x. Exit(p) => pub' \in [Annotators -> PubType]
    BY <1>t, PubTypeStep
  <1>n. /\ pub[p].name \in Names /\ pub[p].req \in Requests /\ pub[p].start \in Nat
        /\ TmpOf(p) \in SideDir \cup {NoDir}
        /\ BakOf(p) \in SideDir \cup {NoDir}
    BY <1>t DEF PubType, TmpOf, BakOf
  <1>d. \A d \in SideDir \cup {NoDir} :
          /\ SetTmp(p, d) => tmps' \in [Names -> [Annotators -> SideDir \cup {NoDir}]]
          /\ SetBak(p, d) => baks' \in [Names -> [Annotators -> SideDir \cup {NoDir}]]
    <2> SUFFICES ASSUME NEW d \in SideDir \cup {NoDir}
                 PROVE  /\ SetTmp(p, d) => tmps' \in [Names -> [Annotators -> SideDir \cup {NoDir}]]
                        /\ SetBak(p, d) => baks' \in [Names -> [Annotators -> SideDir \cup {NoDir}]]
      OBVIOUS
    <2>1. [tmps EXCEPT ![pub[p].name][p] = d] \in [Names -> [Annotators -> SideDir \cup {NoDir}]]
      BY <1>t, <1>n, SetDirType
    <2>2. [baks EXCEPT ![pub[p].name][p] = d] \in [Names -> [Annotators -> SideDir \cup {NoDir}]]
      BY <1>t, <1>n, SetDirType
    <2>3. QED
      BY <2>1, <2>2 DEF SetTmp, SetBak
  <1>1. ASSUME NEW r \in Requests, NEW force \in BOOLEAN, Start(p, r, force)
        PROVE  TypeOK'
    <2> DEFINE new == [pub[p] EXCEPT !.pc = "resolve", !.req = r, !.force = force,
                                     !.bak = FALSE, !.start = clock + 1]
    <2>1. clock + 1 \in Nat
      BY <1>t
    <2>2. new \in PubType
      BY <2>1, <1>t DEF PubType, PubSteps
    <2>3. pub' = [pub EXCEPT ![p] = new] /\ clock' = clock + 1
      BY <1>1 DEF Start
    <2> HIDE DEF new
    <2>4. pub' \in [Annotators -> PubType]
      BY <2>2, <2>3, <1>t
    <2>5. QED
      BY <1>1, <1>t, <2>1, <2>3, <2>4 DEF Start
  <1>2. CASE ResolveName(p)
    BY <1>2, <1>t, <1>n, NamesAssumption DEF ResolveName, PubType, PubSteps, NamesAssumption
  <1>3. CASE CheckReuse(p)
    BY <1>3, <1>t, <1>g, <1>x DEF CheckReuse, PubSteps
  <1>4. CASE MakeTmp(p)
    BY <1>4, <1>t, <1>g, <1>n, <1>d DEF MakeTmp, PubSteps, SideDir
  <1>5. CASE ClaimTmp(p)
    BY <1>5, <1>t, <1>g, <1>x, <1>n, <1>d DEF ClaimTmp, PubSteps, SideDir
  <1>6. CASE WriteArtifacts(p)
    <2>1. TmpOf(p) \in SideDir
      BY <1>6, <1>n DEF WriteArtifacts, IInv, TmpInv, TmpKept, PubClaimed, PubFilled, At
    <2>2. [TmpOf(p) EXCEPT !.run = FreshRun(pub[p].req)] \in SideDir
      BY <2>1, <1>n, FreshRunFacts DEF SideDir
    <2>3. QED
      BY <1>6, <2>2, <1>t, <1>g, <1>d DEF WriteArtifacts, PubSteps
  <1>7. CASE GiveUp(p)
    BY <1>7, <1>t, <1>x, <1>d DEF GiveUp
  <1>8. CASE AcquirePublishLock(p)
    BY <1>8, <1>t, <1>g DEF AcquirePublishLock, PubSteps
  <1>9. CASE Scavenge(p)
    BY <1>9, <1>t, <1>g, SweepType DEF Scavenge, PubSteps
  <1>10. CASE RecheckReuse(p)
    BY <1>10, <1>t, <1>g, <1>d DEF RecheckReuse, PubSteps
  <1>11. CASE HealIndex(p)
    BY <1>11, <1>t, <1>x, <1>n, UpsertType DEF HealIndex
  <1>12. CASE BakeName(p)
    <2>1. TmpOf(p) \in SideDir
      BY <1>12, <1>n DEF BakeName, IInv, TmpInv, TmpKept, PubClaimed, PubFilled, At
    <2>2. [TmpOf(p) EXCEPT !.writer = NoWriter, !.old = FALSE] \in SideDir
      BY <2>1 DEF SideDir
    <2>3. QED
      BY <1>12, <2>2, <1>t, <1>g, <1>d DEF BakeName, PubSteps
  <1>13. CASE BackupFinal(p)
    <2>1. CASE runs[pub[p].name] = Absent
      BY <1>13, <2>1, <1>t, <1>g DEF BackupFinal, PubSteps
    <2>2. CASE runs[pub[p].name] # Absent
      <3>1. \A aged \in BOOLEAN :
               [run |-> runs[pub[p].name], writer |-> NoWriter, old |-> aged] \in SideDir
        BY <1>t, <1>n DEF SideDir
      <3>2. baks' \in [Names -> [Annotators -> SideDir \cup {NoDir}]]
        BY <1>13, <2>2, <3>1, <1>d DEF BackupFinal
      <3>3. [pub[p] EXCEPT !.pc = "bakmeta", !.bak = TRUE] \in PubType
        BY <1>t DEF PubType, PubSteps
      <3>4. pub' \in [Annotators -> PubType]
        BY <1>13, <2>2, <3>3, <1>t DEF BackupFinal
      <3>5. QED
        BY <1>13, <2>2, <3>2, <3>4, <1>t DEF BackupFinal
    <2>3. QED
      BY <2>1, <2>2
  <1>14. CASE BackupRefused(p)
    BY <1>14, <1>t, <1>x, <1>d DEF BackupRefused
  <1>15. CASE ClaimBak(p)
    <2>1. BakOf(p) \in SideDir
      BY <1>15, <1>n DEF ClaimBak, IInv, BakInv
    <2>2. [BakOf(p) EXCEPT !.writer = pub[p].start, !.old = FALSE] \in SideDir
      BY <2>1, <1>n DEF SideDir
    <2>3. QED
      BY <1>15, <2>2, <1>t, <1>g, <1>d DEF ClaimBak, PubSteps
  <1>16. CASE InstallFinal(p)
    BY <1>16, <1>t, <1>g, <1>n, <1>d, FreshRunFacts DEF InstallFinal, PubSteps, IInv, TmpInv, TmpKept, PubClaimed, PubFilled, At
  <1>17. CASE UpsertIndex(p)
    BY <1>17, <1>t, <1>g, <1>n, UpsertType DEF UpsertIndex, PubSteps
  <1>18. CASE RemoveBak(p)
    BY <1>18, <1>t, <1>x, <1>d DEF RemoveBak
  <1>19. CASE Fault(p)
    BY <1>19, <1>t, <1>x, <1>d DEF Fault
  <1>20. CASE CrashAnnotator(p)
    BY <1>20, <1>t, <1>x DEF CrashAnnotator
  <1>21. QED
    BY <1>1, <1>2, <1>3, <1>4, <1>5, <1>6, <1>7, <1>8, <1>9, <1>10, <1>11, <1>12, <1>13, <1>14, <1>15, <1>16, <1>17, <1>18, <1>19, <1>20 DEF PublishStep

\* Every step of a review client or of its handler keeps the types.
LEMMA EditorType ==
    ASSUME IInv, NEW c \in Editors,
           (\E n \in Names : GetManifest(c, n)) \/ (\E e \in Edits : SubmitEdit(c, e))
               \/ EditStep(c)
    PROVE  TypeOK'
  <1> USE DEF TypeOK
  <1>t. TypeOK /\ ed[c] \in EdType
    BY DEF IInv
  <1>n. /\ ed[c].name \in Names /\ ed[c].op \in Edits /\ ed[c].ann \in Annotation
        /\ runs[ed[c].name] \in Run \cup {Absent}
    BY <1>t DEF EdType
  <1>g. \A step \in EdSteps : EdGoto(c, step) => ed' \in [Editors -> EdType]
    <2>1. \A step \in EdSteps : [ed[c] EXCEPT !.pc = step] \in EdType
      BY <1>t DEF EdType
    <2>2. QED
      BY <1>t, <2>1 DEF EdGoto
  <1>1. ASSUME NEW n \in Names, GetManifest(c, n)
        PROVE  TypeOK'
    <2>1. runs[n].man \in Hash
      BY <1>1, <1>t DEF GetManifest, Run
    <2>2. [ed[c] EXCEPT !.name = n, !.seen = runs[n].man] \in EdType
      BY <2>1, <1>t DEF EdType
    <2>3. QED
      BY <1>1, <1>t, <2>2 DEF GetManifest
  <1>2. ASSUME NEW e \in Edits, SubmitEdit(c, e)
        PROVE  TypeOK'
    <2>1. [ed[c] EXCEPT !.pc = "submitted", !.op = e] \in EdType
      BY <1>t DEF EdType, EdSteps
    <2>2. QED
      BY <1>2, <1>t, <2>1 DEF SubmitEdit
  <1>3. CASE EditLockTimeout(c)
    BY <1>3, <1>t, <1>g DEF EditLockTimeout, EdSteps
  <1>4. CASE RejectEdit(c)
    BY <1>4, <1>t, <1>g DEF RejectEdit, EdSteps
  <1>5. CASE AcceptEdit(c)
    <2> DEFINE run == runs[ed[c].name]
               h == DeriveHash(run.man, ed[c].op)
               ann == EditAnnotation(run.ann, ed[c].op, h)
    <2>1. run \in Run
      BY <1>5, <1>n DEF AcceptEdit, EditAdmissible
    <2>2. ann \in Annotation
      BY <2>1, <1>n, DeriveHashType, EditAnnotationType DEF Run
    <2>3. ed' = [ed EXCEPT ![c].pc = "writeAnn", ![c].ann = ann] /\ lock' = c
      BY <1>5 DEF AcceptEdit
    <2> HIDE DEF ann
    <2>4. [ed[c] EXCEPT !.pc = "writeAnn", !.ann = ann] \in EdType
      BY <2>2, <1>t DEF EdType, EdSteps
    <2>5. ed' \in [Editors -> EdType]
      BY <2>3, <2>4, <1>t
    <2>6. QED
      BY <1>5, <2>3, <2>5, <1>t DEF AcceptEdit
  <1>6. CASE WriteAnnotation(c)
    <2>1. runs[ed[c].name] \in Run
      BY <1>6, <1>n DEF WriteAnnotation, IInv, EdInv, EdKept, EdAt
    <2>2. [runs[ed[c].name] EXCEPT !.ann = ed[c].ann] \in Run
      BY <2>1, <1>n DEF Run
    <2>3. QED
      BY <1>6, <2>2, <1>t, <1>n, <1>g DEF WriteAnnotation, EdSteps
  <1>7. CASE WriteManifest(c)
    <2>1. runs[ed[c].name] \in Run
      BY <1>7, <1>n DEF WriteManifest, IInv, EdInv, EdKept, EdAt
    <2>2. [runs[ed[c].name] EXCEPT !.man = ed[c].ann.hash] \in Run
      BY <2>1, <1>n DEF Run, Annotation
    <2>3. QED
      BY <1>7, <2>2, <1>t, <1>n, <1>g DEF WriteManifest, EdSteps
  <1>8. CASE WriteIndex(c)
    <2>1. ed[c].ann.hash \in Hash
      BY <1>n DEF Annotation
    <2>2. [NewEd EXCEPT !.name = ed[c].name, !.seen = ed[c].ann.hash] \in EdType
      BY <2>1, <1>n, NewTypes DEF EdType
    <2>3. [hash |-> ed[c].ann.hash, name |-> ed[c].name] \in Row
      BY <2>1, <1>n DEF Row
    <2>4. QED
      BY <1>8, <2>2, <2>3, <1>t DEF WriteIndex
  <1>9. QED
    BY <1>1, <1>2, <1>3, <1>4, <1>5, <1>6, <1>7, <1>8 DEF EditStep

\* A PATCH that raises under the lock ends idle, with the lock released and the
\* name and version its client held; nothing on disk changes.
LEMMA EditFailsFacts ==
    ASSUME TypeOK, NEW c \in Editors, EditFails(c)
    PROVE  /\ ed'[c].pc = "idle"
           /\ ed'[c].name = ed[c].name
           /\ ed'[c].seen = ed[c].seen
           /\ \A d \in Editors \ {c} : ed'[d] = ed[d]
           /\ ed' \in [Editors -> EdType]
           /\ (ed[c].pc = "submitted" /\ lock = Free) \/ ed[c].pc \in EdLocked
           /\ lock' = Free
           /\ faults' = faults + 1
           /\ UNCHANGED <<runs, tmps, baks, index, pub, clock, crashes>>
  <1> DEFINE after == [NewEd EXCEPT !.name = ed[c].name, !.seen = ed[c].seen]
  <1>t. ed \in [Editors -> EdType] /\ ed[c] \in EdType
    BY DEF TypeOK
  <1>1. after \in EdType
    BY <1>t, NewTypes DEF EdType
  <1>2. after.pc = "idle" /\ after.name = ed[c].name /\ after.seen = ed[c].seen
    BY NewTypes DEF NewEd, EdType
  <1>3. ed' = [ed EXCEPT ![c] = after]
    BY DEF EditFails
  <1> HIDE DEF after
  <1>4. /\ ed' \in [Editors -> EdType]
        /\ ed'[c] = after
        /\ \A d \in Editors \ {c} : ed'[d] = ed[d]
    BY <1>t, <1>1, <1>3
  <1>5. QED
    BY <1>2, <1>4 DEF EditFails, EdAt

\* Every step keeps the types.
LEMMA TypeStep == IInv /\ [Next]_vars => TypeOK'
  <1> SUFFICES ASSUME IInv, [Next]_vars PROVE TypeOK'
    OBVIOUS
  <1>1. TypeOK
    BY DEF IInv
  <1>2. CASE CrashServer
    <2> DEFINE after(c) == [NewEd EXCEPT !.name = ed[c].name, !.seen = ed[c].seen]
    <2>1. ASSUME NEW c \in Editors PROVE after(c) \in EdType
      <3>1. ed[c] \in EdType
        BY <1>1 DEF TypeOK
      <3>2. QED
        BY <3>1, NewTypes DEF EdType
    <2>a. ed' = [c \in Editors |-> after(c)]
      BY <1>2 DEF CrashServer
    <2> HIDE DEF after
    <2>2. ed' \in [Editors -> EdType]
      BY <2>a, <2>1
    <2>3. lock' \in Annotators \cup Editors \cup {Free} /\ crashes' \in Nat
      <3>1. /\ lock' = (IF lock \in Editors THEN Free ELSE lock)
            /\ crashes' = crashes + 1
        BY <1>2, Zenon DEF CrashServer
      <3>2. QED
        BY <3>1, <1>1 DEF TypeOK
    <2>4. UNCHANGED <<runs, tmps, baks, index, pub, clock, faults>>
      BY <1>2, Zenon DEF CrashServer
    <2>5. QED
      BY <1>1, <2>2, <2>3, <2>4 DEF TypeOK
  <1>3. CASE DayPasses
    BY <1>1, <1>3, SweepType DEF DayPasses, TypeOK
  <1>4. CASE UNCHANGED vars
    BY <1>1, <1>4 DEF vars, TypeOK
  <1>5. ASSUME NEW c \in Editors, EditFails(c) PROVE TypeOK'
    BY <1>1, <1>5, EditFailsFacts DEF TypeOK
  <1>6. QED
    BY <1>2, <1>3, <1>4, <1>5, PublisherType, EditorType DEF Next

-----------------------------------------------------------------------------
(***************************************************************************)
(* The lock.                                                               *)
(***************************************************************************)
\* A step of publisher p that does not touch the lock keeps LockHeld when it
\* stays on its side of the locked section; one that takes or releases the lock
\* keeps it when p enters or leaves the section.
LEMMA PublisherLock ==
    ASSUME IInv, NEW p \in Annotators, ed' = ed, pub' \in [Annotators -> PubType],
           \A q \in Annotators \ {p} : pub'[q] = pub[q],
           \/ lock' = lock /\ (pub'[p].pc \in PubLocked <=> pub[p].pc \in PubLocked)
           \/ lock = Free /\ lock' = p /\ pub'[p].pc \in PubLocked
           \/ lock = p /\ lock' = Free /\ pub'[p].pc \notin PubLocked
    PROVE  LockHeld'
  <1>1. LockHeld /\ TypeOK
    BY DEF IInv
  <1>2. p \notin Editors /\ p # Free /\ Free \notin Editors
    BY DistinctAssumption DEF DistinctAssumption
  <1>3. ASSUME NEW q \in Annotators PROVE pub'[q].pc \in PubLocked <=> lock' = q
    BY <1>1, <1>2, DistinctAssumption DEF LockHeld, DistinctAssumption
  <1>4. ASSUME NEW c \in Editors PROVE ed'[c].pc \in EdLocked <=> lock' = c
    BY <1>1, <1>2 DEF LockHeld
  <1>5. QED
    BY <1>3, <1>4 DEF LockHeld

\* The same for a step of editor c.
LEMMA EditorLock ==
    ASSUME IInv, NEW c \in Editors, pub' = pub, ed' \in [Editors -> EdType],
           \A d \in Editors \ {c} : ed'[d] = ed[d],
           \/ lock' = lock /\ (ed'[c].pc \in EdLocked <=> ed[c].pc \in EdLocked)
           \/ lock = Free /\ lock' = c /\ ed'[c].pc \in EdLocked
           \/ lock = c /\ lock' = Free /\ ed'[c].pc \notin EdLocked
    PROVE  LockHeld'
  <1>1. LockHeld /\ TypeOK
    BY DEF IInv
  <1>2. c \notin Annotators /\ c # Free /\ Free \notin Annotators
    BY DistinctAssumption DEF DistinctAssumption
  <1>3. ASSUME NEW q \in Annotators PROVE pub'[q].pc \in PubLocked <=> lock' = q
    BY <1>1, <1>2 DEF LockHeld
  <1>4. ASSUME NEW d \in Editors PROVE ed'[d].pc \in EdLocked <=> lock' = d
    BY <1>1, <1>2, DistinctAssumption DEF LockHeld, DistinctAssumption
  <1>5. QED
    BY <1>3, <1>4 DEF LockHeld

\* What Goto and Exit do to the publishers' states.
LEMMA PubMoves ==
    ASSUME TypeOK, NEW p \in Annotators
    PROVE  /\ \A step \in PubSteps : Goto(p, step) =>
                /\ pub'[p] = [pub[p] EXCEPT !.pc = step]
                /\ pub'[p].pc = step
                /\ \A q \in Annotators \ {p} : pub'[q] = pub[q]
           /\ Exit(p) =>
                /\ pub'[p].pc = "none"
                /\ \A q \in Annotators \ {p} : pub'[q] = pub[q]
  <1>1. pub \in [Annotators -> PubType] /\ NewPub \in PubType
    BY NewTypes DEF TypeOK
  <1>2. ASSUME NEW step \in PubSteps, Goto(p, step)
        PROVE  /\ pub'[p] = [pub[p] EXCEPT !.pc = step]
               /\ pub'[p].pc = step
               /\ \A q \in Annotators \ {p} : pub'[q] = pub[q]
    BY <1>1, <1>2 DEF Goto, PubType
  <1>3. ASSUME Exit(p)
        PROVE  /\ pub'[p].pc = "none"
               /\ \A q \in Annotators \ {p} : pub'[q] = pub[q]
    <2>1. pub' = [pub EXCEPT ![p] = [NewPub EXCEPT !.start = pub[p].start]]
      BY <1>3 DEF Exit
    <2>2. pub'[p] = [NewPub EXCEPT !.start = pub[p].start]
      BY <2>1, <1>1
    <2>3. pub'[p].pc = NewPub.pc
      BY <2>2, <1>1 DEF PubType
    <2>4. QED
      BY <2>1, <2>3, <1>1 DEF NewPub
  <1>4. QED
    BY <1>2, <1>3

\* What EdGoto does to the clients' states.
LEMMA EdMoves ==
    ASSUME TypeOK, NEW c \in Editors
    PROVE  \A step \in EdSteps : EdGoto(c, step) =>
                /\ ed'[c] = [ed[c] EXCEPT !.pc = step]
                /\ ed'[c].pc = step
                /\ \A d \in Editors \ {c} : ed'[d] = ed[d]
  BY DEF TypeOK, EdGoto, EdType

\* Every step keeps the lock with who is inside the locked section.
LEMMA PublisherLockStep ==
    ASSUME IInv, NEW p \in Annotators, TypeOK',
           (\E r \in Requests, force \in BOOLEAN : Start(p, r, force))
               \/ PublishStep(p) \/ Fault(p) \/ CrashAnnotator(p)
    PROVE  LockHeld'
  <1>t. TypeOK /\ LockHeld /\ pub' \in [Annotators -> PubType]
    BY DEF IInv, TypeOK
  <1>l. pub[p].pc \in PubLocked <=> lock = p
    BY <1>t DEF LockHeld
  <1>g. \A step \in PubSteps : Goto(p, step) =>
           pub'[p].pc = step /\ \A q \in Annotators \ {p} : pub'[q] = pub[q]
    BY <1>t, PubMoves
  <1>x. Exit(p) => pub'[p].pc = "none" /\ \A q \in Annotators \ {p} : pub'[q] = pub[q]
    BY <1>t, PubMoves
  <1> USE DEF At, PubSteps, PubLocked
  <1>1. ASSUME NEW r \in Requests, NEW force \in BOOLEAN, Start(p, r, force)
        PROVE  LockHeld'
    <2>1. pub'[p].pc = "resolve" /\ \A q \in Annotators \ {p} : pub'[q] = pub[q]
      BY <1>1, <1>t, ZenonT(30) DEF Start, TypeOK, PubType
    <2>2. lock' = lock /\ ed' = ed /\ pub[p].pc = "none"
      BY <1>1 DEF Start
    <2>3. QED
      BY <2>1, <2>2, <1>t, PublisherLock
  <1>2. CASE ResolveName(p)
    <2>1. pub'[p].pc = "check" /\ \A q \in Annotators \ {p} : pub'[q] = pub[q]
      BY <1>2, <1>t DEF ResolveName, TypeOK, PubType
    <2>2. lock' = lock /\ ed' = ed /\ pub[p].pc = "resolve"
      BY <1>2 DEF ResolveName
    <2>3. QED
      BY <2>1, <2>2, <1>t, PublisherLock
  <1>3. CASE CheckReuse(p)
    BY <1>3, <1>t, <1>l, <1>g, <1>x, PublisherLock DEF CheckReuse
  <1>4. CASE MakeTmp(p)
    BY <1>4, <1>t, <1>l, <1>g, <1>x, PublisherLock DEF MakeTmp
  <1>5. CASE ClaimTmp(p)
    BY <1>5, <1>t, <1>l, <1>g, <1>x, PublisherLock DEF ClaimTmp
  <1>6. CASE WriteArtifacts(p)
    BY <1>6, <1>t, <1>l, <1>g, <1>x, PublisherLock DEF WriteArtifacts
  <1>7. CASE GiveUp(p)
    BY <1>7, <1>t, <1>l, <1>g, <1>x, PublisherLock DEF GiveUp
  <1>8. CASE AcquirePublishLock(p)
    BY <1>8, <1>t, <1>l, <1>g, <1>x, PublisherLock DEF AcquirePublishLock
  <1>9. CASE Scavenge(p)
    BY <1>9, <1>t, <1>l, <1>g, <1>x, PublisherLock DEF Scavenge
  <1>10. CASE RecheckReuse(p)
    BY <1>10, <1>t, <1>l, <1>g, <1>x, PublisherLock DEF RecheckReuse
  <1>11. CASE HealIndex(p)
    BY <1>11, <1>t, <1>l, <1>g, <1>x, PublisherLock DEF HealIndex
  <1>12. CASE BakeName(p)
    BY <1>12, <1>t, <1>l, <1>g, <1>x, PublisherLock DEF BakeName
  <1>13. CASE BackupFinal(p)
    <2>1. pub'[p].pc \in {"install", "bakmeta"} /\ \A q \in Annotators \ {p} : pub'[q] = pub[q]
      BY <1>13, <1>g, <1>t DEF BackupFinal, TypeOK, PubType
    <2>2. lock' = lock /\ ed' = ed /\ pub[p].pc = "backup"
      BY <1>13 DEF BackupFinal
    <2>3. QED
      BY <2>1, <2>2, <1>t, PublisherLock
  <1>14. CASE BackupRefused(p)
    BY <1>14, <1>t, <1>l, <1>g, <1>x, PublisherLock DEF BackupRefused
  <1>15. CASE ClaimBak(p)
    BY <1>15, <1>t, <1>l, <1>g, <1>x, PublisherLock DEF ClaimBak
  <1>16. CASE InstallFinal(p)
    BY <1>16, <1>t, <1>l, <1>g, <1>x, PublisherLock DEF InstallFinal
  <1>17. CASE UpsertIndex(p)
    BY <1>17, <1>t, <1>l, <1>g, <1>x, PublisherLock DEF UpsertIndex
  <1>18. CASE RemoveBak(p)
    BY <1>18, <1>t, <1>l, <1>g, <1>x, PublisherLock DEF RemoveBak
  <1>19. CASE Fault(p)
    BY <1>19, <1>t, <1>l, <1>g, <1>x, PublisherLock DEF Fault
  <1>20. CASE CrashAnnotator(p)
    BY <1>20, <1>t, <1>l, <1>g, <1>x, PublisherLock DEF CrashAnnotator
  <1>21. QED
    BY <1>1, <1>2, <1>3, <1>4, <1>5, <1>6, <1>7, <1>8, <1>9, <1>10, <1>11, <1>12, <1>13, <1>14, <1>15, <1>16, <1>17, <1>18, <1>19, <1>20 DEF PublishStep

\* Every step of a client or of the handler of its PATCH keeps LockHeld.
LEMMA EditorLockStep ==
    ASSUME IInv, NEW c \in Editors, TypeOK',
           (\E n \in Names : GetManifest(c, n)) \/ (\E e \in Edits : SubmitEdit(c, e))
               \/ EditStep(c)
    PROVE  LockHeld'
  <1>t. TypeOK /\ LockHeld /\ ed' \in [Editors -> EdType]
    BY DEF IInv, TypeOK
  <1>l. ed[c].pc \in EdLocked <=> lock = c
    BY <1>t DEF LockHeld
  <1>g. \A step \in EdSteps : EdGoto(c, step) =>
           ed'[c].pc = step /\ \A d \in Editors \ {c} : ed'[d] = ed[d]
    BY <1>t, EdMoves
  <1> USE DEF EdAt, EdSteps, EdLocked
  <1>1. ASSUME NEW n \in Names, GetManifest(c, n)
        PROVE  LockHeld'
    <2>1. ed'[c].pc = ed[c].pc /\ \A d \in Editors \ {c} : ed'[d] = ed[d]
      BY <1>1, <1>t DEF GetManifest, TypeOK, EdType
    <2>2. lock' = lock /\ pub' = pub
      BY <1>1 DEF GetManifest
    <2>3. QED
      BY <2>1, <2>2, <1>t, EditorLock
  <1>2. ASSUME NEW e \in Edits, SubmitEdit(c, e)
        PROVE  LockHeld'
    <2>1. ed'[c].pc = "submitted" /\ \A d \in Editors \ {c} : ed'[d] = ed[d]
      BY <1>2, <1>t DEF SubmitEdit, TypeOK, EdType
    <2>2. lock' = lock /\ pub' = pub /\ ed[c].pc = "idle"
      BY <1>2 DEF SubmitEdit
    <2>3. QED
      BY <2>1, <2>2, <1>t, EditorLock
  <1>3. CASE EditLockTimeout(c)
    BY <1>3, <1>t, <1>l, <1>g, EditorLock DEF EditLockTimeout
  <1>4. CASE RejectEdit(c)
    BY <1>4, <1>t, <1>l, <1>g, EditorLock DEF RejectEdit
  <1>5. CASE AcceptEdit(c)
    <2>1. ed'[c].pc = "writeAnn" /\ \A d \in Editors \ {c} : ed'[d] = ed[d]
      BY <1>5, <1>t DEF AcceptEdit, TypeOK, EdType
    <2>2. lock = Free /\ lock' = c /\ pub' = pub
      BY <1>5 DEF AcceptEdit
    <2>3. QED
      BY <2>1, <2>2, <1>t, EditorLock
  <1>6. CASE WriteAnnotation(c)
    BY <1>6, <1>t, <1>l, <1>g, EditorLock DEF WriteAnnotation
  <1>7. CASE WriteManifest(c)
    BY <1>7, <1>t, <1>l, <1>g, EditorLock DEF WriteManifest
  <1>8. CASE WriteIndex(c)
    <2> DEFINE done == [NewEd EXCEPT !.name = ed[c].name, !.seen = ed[c].ann.hash]
    <2>1. done.pc = "idle"
      BY NewTypes DEF NewEd, EdType
    <2>2. ed' = [ed EXCEPT ![c] = done] /\ lock' = Free /\ pub' = pub /\ ed[c].pc = "writeIdx"
      BY <1>8 DEF WriteIndex
    <2> HIDE DEF done
    <2>3. ed'[c].pc = "idle" /\ \A d \in Editors \ {c} : ed'[d] = ed[d]
      BY <2>1, <2>2, <1>t DEF TypeOK
    <2>4. QED
      BY <2>2, <2>3, <1>t, <1>l, EditorLock
  <1>9. QED
    BY <1>1, <1>2, <1>3, <1>4, <1>5, <1>6, <1>7, <1>8 DEF EditStep

\* The server's death frees the lock if one of its handlers held it.
LEMMA CrashServerFacts ==
    ASSUME TypeOK, CrashServer
    PROVE  /\ \A c \in Editors : /\ ed'[c].pc = "idle"
                                 /\ ed'[c].name = ed[c].name
                                 /\ ed'[c].seen = ed[c].seen
           /\ lock' = IF lock \in Editors THEN Free ELSE lock
           /\ UNCHANGED <<runs, tmps, baks, index, pub, clock, faults>>
  <1> DEFINE after(c) == [NewEd EXCEPT !.name = ed[c].name, !.seen = ed[c].seen]
  <1>1. ASSUME NEW c \in Editors
        PROVE  after(c).pc = "idle" /\ after(c).name = ed[c].name /\ after(c).seen = ed[c].seen
    BY NewTypes DEF NewEd, EdType
  <1>2. ed' = [c \in Editors |-> after(c)]
    BY DEF CrashServer
  <1>3. /\ lock' = IF lock \in Editors THEN Free ELSE lock
        /\ UNCHANGED <<runs, tmps, baks, index, pub, clock, faults>>
    BY Zenon DEF CrashServer
  <1> HIDE DEF after
  <1>4. QED
    BY <1>1, <1>2, <1>3

\* Every step keeps LockHeld: kills and timeouts release the lock with its holder.
LEMMA LockStep == IInv /\ [Next]_vars => LockHeld'
  <1> SUFFICES ASSUME IInv, [Next]_vars PROVE LockHeld'
    OBVIOUS
  <1>1. TypeOK /\ LockHeld /\ TypeOK'
    BY TypeStep DEF IInv
  <1>2. CASE CrashServer
    BY <1>1, <1>2, CrashServerFacts, DistinctAssumption
    DEF LockHeld, EdLocked, DistinctAssumption
  <1>3. CASE DayPasses
    BY <1>1, <1>3 DEF DayPasses, LockHeld
  <1>4. CASE UNCHANGED vars
    BY <1>1, <1>4 DEF vars, LockHeld
  <1>5. ASSUME NEW c \in Editors, EditFails(c) PROVE LockHeld'
    <2>1. ed[c].pc \in EdLocked <=> lock = c
      BY <1>1 DEF LockHeld
    <2>2. ed'[c].pc = "idle" /\ lock' = Free /\ pub' = pub
          /\ \A d \in Editors \ {c} : ed'[d] = ed[d]
      BY <1>1, <1>5, EditFailsFacts
    <2>3. lock = c \/ lock = Free
      BY <1>1, <1>5, <2>1, EditFailsFacts
    <2>4. "idle" \notin EdLocked /\ ~("idle" \in EdLocked)
      BY DEF EdLocked
    <2>5. lock' # c
      BY <2>2, DistinctAssumption DEF DistinctAssumption
    <2>6. ASSUME NEW d \in Editors PROVE (ed[d].pc \in EdLocked <=> lock = d)'
      <3>1. CASE d = c
        BY <2>2, <2>4, <2>5, <3>1
      <3>2. CASE d # c
        <4>1. lock # d /\ lock' # d
          BY <2>2, <2>3, <3>2, DistinctAssumption DEF DistinctAssumption
        <4> QED
          BY <1>1, <2>2, <3>2, <4>1 DEF LockHeld
      <3> QED
        BY <3>1, <3>2
    <2>7. ASSUME NEW p \in Annotators PROVE (pub[p].pc \in PubLocked <=> lock = p)'
      <3>1. lock # p /\ lock' # p
        BY <2>2, <2>3, DistinctAssumption DEF DistinctAssumption
      <3> QED
        BY <1>1, <2>2, <3>1 DEF LockHeld
    <2> QED
      BY <2>6, <2>7 DEF LockHeld
  <1>6. QED
    BY <1>1, <1>2, <1>3, <1>4, <1>5, PublisherLockStep, EditorLockStep DEF Next

-----------------------------------------------------------------------------
(***************************************************************************)
(* The side directories.                                                   *)
(***************************************************************************)
\* A step of publisher p that changes no side directory but those of p cannot
\* disturb what another publisher relies on.
LEMMA OthersKeepTheirs ==
    ASSUME TmpInv, BakInv, NEW p \in Annotators,
           \A q \in Annotators \ {p} : pub'[q] = pub[q],
           \A n \in Names, q \in Annotators \ {p} :
              tmps'[n][q] = tmps[n][q] /\ baks'[n][q] = baks[n][q],
           pub \in [Annotators -> PubType],
           TmpKept(p)', (At(p, "bakmeta") => BakOf(p) # NoDir)'
    PROVE  TmpInv' /\ BakInv'
  <1>1. ASSUME NEW q \in Annotators \ {p} PROVE TmpOf(q)' = TmpOf(q) /\ BakOf(q)' = BakOf(q)
    BY DEF TmpOf, BakOf, PubType
  <1>2. ASSUME NEW q \in Annotators \ {p} PROVE TmpKept(q)'
    BY <1>1 DEF TmpInv, TmpKept
  <1>3. ASSUME NEW q \in Annotators \ {p} PROVE (At(q, "bakmeta") => BakOf(q) # NoDir)'
    BY <1>1 DEF BakInv, At
  <1>4. QED
    BY <1>2, <1>3 DEF TmpInv, BakInv

\* Writing p's tmp or bak directory leaves those of the others.
LEMMA SetDirFacts ==
    ASSUME TypeOK, NEW p \in Annotators, NEW d
    PROVE  /\ SetTmp(p, d) =>
                /\ tmps'[pub[p].name][p] = d
                /\ \A n \in Names, q \in Annotators \ {p} : tmps'[n][q] = tmps[n][q]
           /\ SetBak(p, d) =>
                /\ baks'[pub[p].name][p] = d
                /\ \A n \in Names, q \in Annotators \ {p} : baks'[n][q] = baks[n][q]
  <1>1. pub[p].name \in Names
    BY DEF TypeOK, PubType
  <1>2. ASSUME NEW dirs \in [Names -> [Annotators -> SideDir \cup {NoDir}]],
               NEW m \in Names
        PROVE  LET new == [dirs EXCEPT ![m][p] = d]
               IN  /\ new[m][p] = d
                   /\ \A n \in Names, q \in Annotators \ {p} : new[n][q] = dirs[n][q]
    OBVIOUS
  <1>3. /\ tmps \in [Names -> [Annotators -> SideDir \cup {NoDir}]]
        /\ baks \in [Names -> [Annotators -> SideDir \cup {NoDir}]]
    BY DEF TypeOK
  <1>4. SetTmp(p, d) =>
          /\ tmps'[pub[p].name][p] = d
          /\ \A n \in Names, q \in Annotators \ {p} : tmps'[n][q] = tmps[n][q]
    BY <1>1, <1>2, <1>3 DEF SetTmp
  <1>5. SetBak(p, d) =>
          /\ baks'[pub[p].name][p] = d
          /\ \A n \in Names, q \in Annotators \ {p} : baks'[n][q] = baks[n][q]
    BY <1>1, <1>2, <1>3 DEF SetBak
  <1>6. QED
    BY <1>4, <1>5

\* A directory that its living writer has claimed survives the scavenger, and
\* ageing changes neither its claim nor its content.
LEMMA SweepKeepsClaimed ==
    ASSUME NEW dirs \in [Names -> [Annotators -> SideDir \cup {NoDir}]],
           NEW n \in Names, NEW q \in Annotators,
           dirs[n][q] # NoDir
    PROVE  /\ dirs[n][q].writer = pub[q].start /\ ~At(q, "none") /\ pub[q].start \in Nat =>
                SweepDirs(dirs)[n][q] = dirs[n][q]
           /\ AgeDirs(dirs)[n][q] # NoDir
           /\ AgeDirs(dirs)[n][q].writer = dirs[n][q].writer
           /\ AgeDirs(dirs)[n][q].run = dirs[n][q].run
  <1>1. dirs[n][q] \in SideDir
    OBVIOUS
  <1>2. [dirs[n][q] EXCEPT !.old = TRUE] \in SideDir
    BY <1>1 DEF SideDir
  <1>3. /\ AgeDirs(dirs)[n][q] # NoDir
        /\ AgeDirs(dirs)[n][q].writer = dirs[n][q].writer
        /\ AgeDirs(dirs)[n][q].run = dirs[n][q].run
    <2>1. AgeDirs(dirs)[n][q] = [dirs[n][q] EXCEPT !.old = TRUE]
      BY DEF AgeDirs
    <2>2. QED
      BY <1>1, <1>2, <2>1, SentinelAssumption DEF SentinelAssumption, SideDir
  <1>4. ASSUME dirs[n][q].writer = pub[q].start, ~At(q, "none"), pub[q].start \in Nat
        PROVE  SweepDirs(dirs)[n][q] = dirs[n][q]
    <2>1. dirs[n][q].writer # NoWriter
      BY <1>4, SentinelAssumption DEF SentinelAssumption
    <2>2. ~IsStale(dirs[n][q], q)
      BY <1>4, <2>1 DEF IsStale, WriterAlive
    <2>3. QED
      BY <2>2 DEF SweepDirs
  <1>5. QED
    BY <1>3, <1>4

\* Every step of a publisher keeps what the publishers rely on.
LEMMA PublisherSideStep ==
    ASSUME IInv, TypeOK', NEW p \in Annotators,
           (\E r \in Requests, force \in BOOLEAN : Start(p, r, force))
               \/ PublishStep(p) \/ Fault(p) \/ CrashAnnotator(p)
    PROVE  TmpInv' /\ BakInv'
  <1>t. /\ TypeOK /\ LockHeld /\ TmpInv /\ BakInv /\ TmpKept(p)
        /\ pub \in [Annotators -> PubType] /\ pub[p].name \in Names
        /\ pub[p].req \in Requests /\ pub[p].start \in Nat
        /\ TmpOf(p) \in SideDir \cup {NoDir} /\ BakOf(p) \in SideDir \cup {NoDir}
    BY DEF IInv, TmpInv, TypeOK, PubType, TmpOf, BakOf
  <1>g. \A step \in PubSteps : Goto(p, step) =>
           /\ pub'[p] = [pub[p] EXCEPT !.pc = step]
           /\ pub'[p].pc = step
           /\ \A q \in Annotators \ {p} : pub'[q] = pub[q]
    BY <1>t, PubMoves
  <1>n. \A step \in PubSteps : Goto(p, step) =>
           /\ pub'[p].name = pub[p].name
           /\ pub'[p].req = pub[p].req
           /\ pub'[p].start = pub[p].start
    BY <1>t, <1>g DEF PubType
  <1>x. Exit(p) => pub'[p].pc = "none" /\ \A q \in Annotators \ {p} : pub'[q] = pub[q]
    BY <1>t, PubMoves
  <1>d. \A d : /\ SetTmp(p, d) =>
                    /\ tmps'[pub[p].name][p] = d
                    /\ \A m \in Names, q \in Annotators \ {p} : tmps'[m][q] = tmps[m][q]
               /\ SetBak(p, d) =>
                    /\ baks'[pub[p].name][p] = d
                    /\ \A m \in Names, q \in Annotators \ {p} : baks'[m][q] = baks[m][q]
    BY <1>t, SetDirFacts
  <1>o. /\ \A q \in Annotators \ {p} : pub'[q] = pub[q]
        /\ \A m \in Names, q \in Annotators \ {p} :
              tmps'[m][q] = tmps[m][q] /\ baks'[m][q] = baks[m][q]
        /\ TmpKept(p)' /\ (At(p, "bakmeta") => BakOf(p) # NoDir)'
        => TmpInv' /\ BakInv'
    BY <1>t, OthersKeepTheirs
  <1> USE DEF PubSteps, PubClaimed, PubFilled
  \* A process that computes nothing yet, or has just ended, relies on nothing.
  <1>q. ASSUME pub'[p].pc \notin PubClaimed \cup PubFilled
        PROVE  TmpKept(p)' /\ (At(p, "bakmeta") => BakOf(p) # NoDir)'
    BY <1>q DEF TmpKept, At
  \* A process that moves on to a step asking no more keeps its directories.
  <1>k. ASSUME NEW step \in PubSteps, Goto(p, step), tmps' = tmps, baks' = baks,
               step \in PubClaimed => pub[p].pc \in PubClaimed,
               step \in PubFilled => pub[p].pc \in PubFilled,
               step # "bakmeta"
        PROVE  TmpInv' /\ BakInv'
    <2>1. TmpOf(p)' = TmpOf(p)
      BY <1>k, <1>n DEF TmpOf
    <2>2. TmpKept(p)'
      BY <1>k, <1>t, <1>g, <1>n, <2>1 DEF TmpKept
    <2>3. (At(p, "bakmeta") => BakOf(p) # NoDir)'
      BY <1>k, <1>g DEF At
    <2>4. QED
      BY <1>k, <1>g, <1>o, <2>2, <2>3
  <1>1. ASSUME NEW r \in Requests, NEW force \in BOOLEAN, Start(p, r, force)
        PROVE  TmpInv' /\ BakInv'
    <2>1. pub'[p].pc = "resolve" /\ \A q \in Annotators \ {p} : pub'[q] = pub[q]
      BY <1>1, <1>t DEF Start, PubType
    <2>2. QED
      BY <1>1, <2>1, <1>q, <1>o DEF Start
  <1>2. CASE ResolveName(p)
    <2>1. pub'[p].pc = "check" /\ \A q \in Annotators \ {p} : pub'[q] = pub[q]
      BY <1>2, <1>t DEF ResolveName, PubType
    <2>2. QED
      BY <1>2, <2>1, <1>q, <1>o DEF ResolveName
  <1>3. CASE CheckReuse(p)
    BY <1>3, <1>g, <1>x, <1>q, <1>o DEF CheckReuse
  <1>4. CASE MakeTmp(p)
    BY <1>4, <1>g, <1>d, <1>q, <1>o DEF MakeTmp
  <1>5. CASE ClaimTmp(p)
    <2>1. CASE TmpOf(p) = NoDir
      BY <1>5, <2>1, <1>x, <1>q, <1>o DEF ClaimTmp
    <2>2. CASE TmpOf(p) # NoDir
      <3> DEFINE d == [TmpOf(p) EXCEPT !.writer = pub[p].start, !.old = FALSE]
      <3>1. d \in SideDir /\ d.writer = pub[p].start
        BY <2>2, <1>t DEF SideDir
      <3>2. SetTmp(p, d) /\ Goto(p, "artifacts") /\ baks' = baks
        BY <1>5, <2>2 DEF ClaimTmp
      <3> HIDE DEF d
      <3>3. TmpOf(p)' = d
        BY <3>2, <1>d, <1>n DEF TmpOf
      <3>4. TmpKept(p)'
        BY <3>1, <3>2, <3>3, <1>g, <1>n, SentinelAssumption DEF TmpKept, SentinelAssumption
      <3>5. QED
        BY <3>2, <3>4, <1>g, <1>d, <1>o DEF At
    <2>3. QED
      BY <2>1, <2>2
  <1>6. CASE WriteArtifacts(p)
    <2> DEFINE d == [TmpOf(p) EXCEPT !.run = FreshRun(pub[p].req)]
    <2>1. TmpOf(p) \in SideDir /\ TmpOf(p).writer = pub[p].start
      BY <1>6, <1>t DEF WriteArtifacts, TmpKept, At
    <2>2. d \in SideDir /\ d.writer = pub[p].start /\ d.run = FreshRun(pub[p].req)
      BY <2>1, <1>t, FreshRunFacts DEF SideDir
    <2>3. SetTmp(p, d) /\ Goto(p, "acquire") /\ baks' = baks
      BY <1>6 DEF WriteArtifacts
    <2> HIDE DEF d
    <2>4. TmpOf(p)' = d
      BY <2>3, <1>d, <1>n DEF TmpOf
    <2>5. TmpKept(p)'
      BY <2>2, <2>3, <2>4, <1>g, <1>n, SentinelAssumption DEF TmpKept, SentinelAssumption
    <2>6. QED
      BY <2>3, <2>5, <1>g, <1>d, <1>o DEF At
  <1>7. CASE GiveUp(p)
    BY <1>7, <1>x, <1>d, <1>q, <1>o DEF GiveUp
  <1>8. CASE AcquirePublishLock(p)
    BY <1>8, <1>k DEF AcquirePublishLock, At
  <1>9. CASE Scavenge(p)
    <2>1. /\ tmps' = SweepDirs(tmps) /\ baks' = SweepDirs(baks)
          /\ pub'[p].pc = "recheck" /\ pub'[p].name = pub[p].name
          /\ pub'[p].req = pub[p].req /\ pub'[p].start = pub[p].start
          /\ \A q \in Annotators \ {p} : pub'[q] = pub[q]
          /\ pub[p].pc = "scavenge" /\ lock = p
      BY <1>9, <1>g, <1>n, <1>t DEF Scavenge, At, LockHeld, PubLocked
    \* Only p holds the lock, so every other directory somebody relies on is one
    \* whose writer is alive and in it.
    <2>2. ASSUME NEW q \in Annotators, pub'[q].pc \in PubClaimed \cup PubFilled
          PROVE  /\ pub[q].pc \in PubClaimed
                 /\ pub[q].pc # "none"
                 /\ pub'[q].name = pub[q].name /\ pub'[q].start = pub[q].start
                 /\ pub'[q].req = pub[q].req
                 /\ pub'[q].pc \in PubFilled => pub[q].pc \in PubFilled
      <3>1. CASE q = p
        BY <2>1, <3>1
      <3>2. CASE q # p
        BY <2>1, <2>2, <3>2, <1>t DEF LockHeld, PubLocked
      <3>3. QED
        BY <3>1, <3>2
    <2>3. ASSUME NEW q \in Annotators, pub'[q].pc \in PubClaimed \cup PubFilled
          PROVE  TmpKept(q)'
      <3>1. TmpKept(q) /\ pub[q].name \in Names /\ pub[q].start \in Nat
        BY <1>t DEF TmpInv, PubType
      <3>2. TmpOf(q) # NoDir /\ TmpOf(q).writer = pub[q].start
        BY <2>2, <2>3, <3>1 DEF TmpKept
      <3>3. SweepDirs(tmps)[pub[q].name][q] = tmps[pub[q].name][q]
        BY <2>2, <2>3, <3>1, <3>2, <1>t, SweepKeepsClaimed DEF TmpOf, At, TypeOK
      <3>4. TmpOf(q)' = TmpOf(q)
        BY <2>1, <2>2, <2>3, <3>3 DEF TmpOf
      <3>5. QED
        BY <2>2, <2>3, <3>1, <3>4 DEF TmpKept
    <2>4. ASSUME NEW q \in Annotators PROVE pub'[q].pc # "bakmeta"
      BY <2>1, <1>t DEF LockHeld, PubLocked
    <2>5. QED
      BY <2>3, <2>4 DEF TmpInv, TmpKept, BakInv, At
  <1>10. CASE RecheckReuse(p)
    <2>1. CASE Reusable(p)
      BY <1>10, <2>1, <1>g, <1>d, <1>q, <1>o DEF RecheckReuse
    <2>2. CASE ~Reusable(p)
      BY <1>10, <2>2, <1>k DEF RecheckReuse, At
    <2>3. QED
      BY <2>1, <2>2
  <1>11. CASE HealIndex(p)
    BY <1>11, <1>x, <1>q, <1>o DEF HealIndex
  <1>12. CASE BakeName(p)
    <2> DEFINE d == [TmpOf(p) EXCEPT !.writer = NoWriter, !.old = FALSE]
    <2>1. TmpOf(p) \in SideDir /\ TmpOf(p).run = FreshRun(pub[p].req)
      BY <1>12, <1>t DEF BakeName, TmpKept, At
    <2>2. d \in SideDir /\ d.run = FreshRun(pub[p].req)
      BY <2>1 DEF SideDir
    <2>3. SetTmp(p, d) /\ Goto(p, "backup") /\ baks' = baks
      BY <1>12 DEF BakeName
    <2> HIDE DEF d
    <2>4. TmpOf(p)' = d
      BY <2>3, <1>d, <1>n DEF TmpOf
    <2>5. TmpKept(p)'
      BY <2>2, <2>3, <2>4, <1>g, <1>n, SentinelAssumption DEF TmpKept, SentinelAssumption
    <2>6. QED
      BY <2>3, <2>5, <1>g, <1>d, <1>o DEF At
  <1>13. CASE BackupFinal(p)
    <2>1. CASE runs[pub[p].name] = Absent
      BY <1>13, <2>1, <1>k DEF BackupFinal, At
    <2>2. CASE runs[pub[p].name] # Absent
      <3>1. PICK aged \in BOOLEAN :
               SetBak(p, [run |-> runs[pub[p].name], writer |-> NoWriter, old |-> aged])
        BY <1>13, <2>2 DEF BackupFinal
      <3>2. [run |-> runs[pub[p].name], writer |-> NoWriter, old |-> aged] \in SideDir
        BY <1>t DEF TypeOK, SideDir
      <3>3. /\ pub' = [pub EXCEPT ![p].pc = "bakmeta", ![p].bak = TRUE]
            /\ tmps' = tmps /\ pub[p].pc = "backup"
        BY <1>13, <2>2 DEF BackupFinal, At
      <3>4. /\ pub'[p].pc = "bakmeta" /\ pub'[p].name = pub[p].name
            /\ pub'[p].req = pub[p].req
            /\ \A q \in Annotators \ {p} : pub'[q] = pub[q]
        BY <3>3, <1>t DEF PubType
      <3>5. TmpKept(p)'
        BY <3>3, <3>4, <1>t DEF TmpKept, TmpOf
      <3>6. BakOf(p)' # NoDir
        BY <3>1, <3>2, <3>4, <1>d, SentinelAssumption DEF BakOf, SentinelAssumption
      <3>7. QED
        BY <3>1, <3>3, <3>4, <3>5, <3>6, <1>d, <1>o
    <2>3. QED
      BY <2>1, <2>2
  <1>14. CASE BackupRefused(p)
    BY <1>14, <1>x, <1>d, <1>q, <1>o DEF BackupRefused
  <1>15. CASE ClaimBak(p)
    <2>1. TmpKept(p)'
      BY <1>15, <1>g, <1>n, <1>t DEF ClaimBak, TmpKept, TmpOf, At
    <2>2. QED
      BY <1>15, <2>1, <1>g, <1>d, <1>o DEF ClaimBak, At
  <1>16. CASE InstallFinal(p)
    BY <1>16, <1>g, <1>d, <1>q, <1>o DEF InstallFinal
  <1>17. CASE UpsertIndex(p)
    BY <1>17, <1>k DEF UpsertIndex, At
  <1>18. CASE RemoveBak(p)
    BY <1>18, <1>x, <1>d, <1>q, <1>o DEF RemoveBak
  <1>19. CASE Fault(p)
    BY <1>19, <1>x, <1>d, <1>q, <1>o DEF Fault
  <1>20. CASE CrashAnnotator(p)
    BY <1>20, <1>x, <1>q, <1>o DEF CrashAnnotator
  <1>21. QED
    BY <1>1, <1>2, <1>3, <1>4, <1>5, <1>6, <1>7, <1>8, <1>9, <1>10, <1>11, <1>12, <1>13, <1>14, <1>15, <1>16, <1>17, <1>18, <1>19, <1>20 DEF PublishStep

\* Every step keeps what publishers rely on in their tmp and bak directories.
LEMMA SideStep == IInv /\ [Next]_vars => TmpInv' /\ BakInv'
  <1> SUFFICES ASSUME IInv, [Next]_vars PROVE TmpInv' /\ BakInv'
    OBVIOUS
  <1>1. /\ TypeOK /\ TmpInv /\ BakInv /\ TypeOK'
        /\ pub \in [Annotators -> PubType]
    BY TypeStep DEF IInv, TypeOK
  <1> USE DEF TmpInv, TmpKept, BakInv, TmpOf, BakOf, At
  <1>2. CASE CrashServer
    BY <1>1, <1>2, CrashServerFacts
  <1>3. CASE DayPasses
    <2>1. tmps' = AgeDirs(tmps) /\ baks' = AgeDirs(baks) /\ pub' = pub
      BY <1>3 DEF DayPasses
    <2>2. ASSUME NEW p \in Annotators PROVE TmpKept(p)'
      <3>1. pub[p].name \in Names
        BY <1>1 DEF PubType
      <3>2. CASE TmpOf(p) = NoDir
        BY <1>1, <2>1, <3>2
      <3>3. CASE TmpOf(p) # NoDir
        <4>1. /\ AgeDirs(tmps)[pub[p].name][p] # NoDir
              /\ AgeDirs(tmps)[pub[p].name][p].writer = tmps[pub[p].name][p].writer
              /\ AgeDirs(tmps)[pub[p].name][p].run = tmps[pub[p].name][p].run
          BY <1>1, <3>1, <3>3, SweepKeepsClaimed, ZenonT(30) DEF TypeOK
        <4>2. QED
          BY <1>1, <2>1, <4>1
      <3>4. QED
        BY <3>2, <3>3
    <2>3. ASSUME NEW p \in Annotators PROVE (At(p, "bakmeta") => BakOf(p) # NoDir)'
      BY <1>3, <2>1 DEF DayPasses
    <2>4. QED
      BY <2>2, <2>3
  <1>4. CASE \E c \in Editors :
               (\E n \in Names : GetManifest(c, n)) \/ (\E e \in Edits : SubmitEdit(c, e))
                   \/ EditStep(c) \/ EditFails(c)
    <2>1. UNCHANGED <<tmps, baks, pub>>
      BY <1>4 DEF GetManifest, SubmitEdit, EditStep, EditLockTimeout, RejectEdit,
                  AcceptEdit, WriteAnnotation, WriteManifest, WriteIndex, EditFails
    <2>2. QED
      BY <1>1, <2>1
  <1>5. CASE UNCHANGED vars
    BY <1>1, <1>5 DEF vars
  <1>6. CASE \E p \in Annotators :
               (\E r \in Requests, force \in BOOLEAN : Start(p, r, force))
                   \/ PublishStep(p) \/ Fault(p) \/ CrashAnnotator(p)
    BY <1>1, <1>6, PublisherSideStep
  <1>7. QED
    BY <1>2, <1>3, <1>4, <1>5, <1>6 DEF Next

-----------------------------------------------------------------------------
(***************************************************************************)
(* The runs.                                                               *)
(***************************************************************************)
\* Only four steps write to a published directory, each holding the lock.
LEMMA WhoWritesRuns ==
    ASSUME IInv, [Next]_vars
    PROVE  \/ UNCHANGED runs
           \/ \E p \in Annotators : lock = p /\ (BackupFinal(p) \/ InstallFinal(p))
           \/ \E c \in Editors : lock = c /\ (WriteAnnotation(c) \/ WriteManifest(c))
  <1>1. LockHeld
    BY DEF IInv
  <1>2. ASSUME NEW p \in Annotators, BackupFinal(p) \/ InstallFinal(p)
        PROVE  lock = p
    BY <1>1, <1>2 DEF BackupFinal, InstallFinal, At, LockHeld, PubLocked
  <1>3. ASSUME NEW c \in Editors, WriteAnnotation(c) \/ WriteManifest(c)
        PROVE  lock = c
    BY <1>1, <1>3 DEF WriteAnnotation, WriteManifest, EdAt, LockHeld, EdLocked
  <1>4. ASSUME NEW p \in Annotators,
               \/ \E r \in Requests, force \in BOOLEAN : Start(p, r, force)
               \/ PublishStep(p) \/ Fault(p) \/ CrashAnnotator(p)
        PROVE  UNCHANGED runs \/ BackupFinal(p) \/ InstallFinal(p)
    BY <1>4 DEF Start, PublishStep, ResolveName, CheckReuse, MakeTmp, ClaimTmp,
                WriteArtifacts, GiveUp, AcquirePublishLock, Scavenge, RecheckReuse,
                HealIndex, BakeName, BackupRefused, ClaimBak, UpsertIndex,
                RemoveBak, Fault, CrashAnnotator
  <1>5. ASSUME NEW c \in Editors,
               \/ \E n \in Names : GetManifest(c, n)
               \/ \E e \in Edits : SubmitEdit(c, e)
               \/ EditStep(c) \/ EditFails(c)
        PROVE  UNCHANGED runs \/ WriteAnnotation(c) \/ WriteManifest(c)
    BY <1>5 DEF GetManifest, SubmitEdit, EditStep, EditLockTimeout, RejectEdit,
                AcceptEdit, WriteIndex, EditFails
  <1>6. CrashServer \/ DayPasses \/ UNCHANGED vars => UNCHANGED runs
    BY DEF CrashServer, DayPasses, vars
  <1>7. QED
    BY <1>2, <1>3, <1>4, <1>5, <1>6 DEF Next

\* final -> bak takes a run away and changes no other.
LEMMA BackupFacts ==
    ASSUME TypeOK, NEW p \in Annotators, BackupFinal(p)
    PROVE  /\ \A n \in Names : runs'[n] = runs[n] \/ runs'[n] = Absent
           /\ ed' = ed
  BY DEF TypeOK, BackupFinal

\* tmp -> final installs the complete run of the publisher's request.
LEMMA InstallFacts ==
    ASSUME TypeOK, TmpInv, NEW p \in Annotators, InstallFinal(p)
    PROVE  /\ \A n \in Names : \/ runs'[n] = runs[n]
                               \/ n = pub[p].name /\ runs'[n] = FreshRun(pub[p].req)
           /\ pub[p].name \in Names /\ pub[p].req \in Requests
           /\ ed' = ed
  <1>1. pub[p].name \in Names /\ pub[p].req \in Requests
    BY DEF TypeOK, PubType
  <1>2. TmpOf(p).run = FreshRun(pub[p].req)
    BY DEF InstallFinal, At, TmpInv, TmpKept, PubFilled
  <1>3. QED
    BY <1>1, <1>2 DEF TypeOK, InstallFinal

\* The first write of a PATCH leaves the manifest, and so the version, alone.
LEMMA WriteAnnotationFacts ==
    ASSUME TypeOK, EdInv, NEW c \in Editors, WriteAnnotation(c)
    PROVE  LET n == ed[c].name IN
           /\ n \in Names /\ runs[n] \in Run /\ runs'[n] \in Run
           /\ runs[n].man = ed[c].seen
           /\ ed[c].ann.hash = DeriveHash(runs[n].man, ed[c].op) /\ ed[c].op \in Edits
           /\ runs'[n].man = runs[n].man /\ runs'[n].ann = ed[c].ann
           /\ \A m \in Names \ {n} : runs'[m] = runs[m]
           /\ ed'[c] = [ed[c] EXCEPT !.pc = "writeMan"] /\ ed'[c].pc = "writeMan"
           /\ \A d \in Editors \ {c} : ed'[d] = ed[d]
  <1> DEFINE n == ed[c].name
             new == [runs[n] EXCEPT !.ann = ed[c].ann]
  <1>1. /\ n \in Names /\ ed[c].op \in Edits /\ ed[c].ann \in Annotation
        /\ ed[c].pc = "writeAnn" /\ EdGoto(c, "writeMan")
        /\ runs' = [runs EXCEPT ![n] = new]
    BY DEF TypeOK, EdType, WriteAnnotation, EdAt
  <1>2. /\ runs[n] \in Run
        /\ runs[n].man = ed[c].seen
        /\ ed[c].ann.hash = DeriveHash(runs[n].man, ed[c].op)
    BY <1>1 DEF EdInv, EdKept, TypeOK
  <1>3. new \in Run /\ new.man = runs[n].man /\ new.ann = ed[c].ann
    BY <1>1, <1>2 DEF Run
  <1> HIDE DEF new
  <1>4. runs'[n] = new /\ \A m \in Names \ {n} : runs'[m] = runs[m]
    BY <1>1 DEF TypeOK
  <1>5. /\ ed'[c] = [ed[c] EXCEPT !.pc = "writeMan"] /\ ed'[c].pc = "writeMan"
        /\ \A d \in Editors \ {c} : ed'[d] = ed[d]
    BY <1>1, EdMoves DEF EdSteps
  <1>6. QED
    BY <1>1, <1>2, <1>3, <1>4, <1>5

\* The second write brings the manifest to the annotation's version.
LEMMA WriteManifestFacts ==
    ASSUME TypeOK, EdInv, NEW c \in Editors, WriteManifest(c)
    PROVE  LET n == ed[c].name IN
           /\ n \in Names /\ runs[n] \in Run /\ runs'[n] \in Run
           /\ runs[n].man = ed[c].seen
           /\ ed[c].ann.hash = DeriveHash(runs[n].man, ed[c].op) /\ ed[c].op \in Edits
           /\ runs'[n].man = ed[c].ann.hash /\ runs'[n].ann = ed[c].ann
           /\ runs'[n].ann = runs[n].ann
           /\ \A m \in Names \ {n} : runs'[m] = runs[m]
           /\ ed'[c] = [ed[c] EXCEPT !.pc = "writeIdx"] /\ ed'[c].pc = "writeIdx"
           /\ \A d \in Editors \ {c} : ed'[d] = ed[d]
  <1> DEFINE n == ed[c].name
             new == [runs[n] EXCEPT !.man = ed[c].ann.hash]
  <1>1. /\ n \in Names /\ ed[c].op \in Edits /\ ed[c].ann \in Annotation
        /\ ed[c].pc = "writeMan" /\ EdGoto(c, "writeIdx")
        /\ runs' = [runs EXCEPT ![n] = new]
    BY DEF TypeOK, EdType, WriteManifest, EdAt
  <1>2. /\ runs[n] \in Run
        /\ runs[n].man = ed[c].seen
        /\ ed[c].ann.hash = DeriveHash(runs[n].man, ed[c].op)
        /\ runs[n].ann = ed[c].ann
    BY <1>1 DEF EdInv, EdKept, TypeOK, EdAt
  <1>3. new \in Run /\ new.man = ed[c].ann.hash /\ new.ann = runs[n].ann
    BY <1>1, <1>2 DEF Run, Annotation
  <1> HIDE DEF new
  <1>4. runs'[n] = new /\ \A m \in Names \ {n} : runs'[m] = runs[m]
    BY <1>1 DEF TypeOK
  <1>5. /\ ed'[c] = [ed[c] EXCEPT !.pc = "writeIdx"] /\ ed'[c].pc = "writeIdx"
        /\ \A d \in Editors \ {c} : ed'[d] = ed[d]
    BY <1>1, EdMoves DEF EdSteps
  <1>6. QED
    BY <1>1, <1>2, <1>3, <1>4, <1>5

\* A handler that does not move between two of its writes finds its run as it
\* left it: only the holder of the lock writes to runs, and that is this handler.
LEMMA OthersKeepTheirRun ==
    ASSUME IInv, [Next]_vars, NEW d \in Editors, ed'[d] = ed[d]
    PROVE  EdKept(d)'
  <1>1. TypeOK /\ EdInv /\ EdKept(d) /\ LockHeld /\ ed[d] \in EdType
    BY DEF IInv, EdInv, TypeOK
  <1>2. CASE ed[d].pc \notin EdLocked
    BY <1>2 DEF EdKept, EdAt, EdLocked
  <1>3. CASE ed[d].pc \in EdLocked
    <2>1. lock = d /\ d \notin Annotators
      BY <1>1, <1>3, DistinctAssumption DEF LockHeld, DistinctAssumption
    <2>2. ~WriteAnnotation(d)
      <3>1. WriteAnnotation(d) => ed'[d].pc = "writeMan" /\ ed[d].pc = "writeAnn"
        BY <1>1, WriteAnnotationFacts DEF WriteAnnotation, EdAt
      <3>2. QED
        BY <3>1
    <2>3. ~WriteManifest(d)
      <3>1. WriteManifest(d) => ed'[d].pc = "writeIdx" /\ ed[d].pc = "writeMan"
        BY <1>1, WriteManifestFacts DEF WriteManifest, EdAt
      <3>2. QED
        BY <3>1
    <2>4. UNCHANGED runs
      BY <2>1, <2>2, <2>3, WhoWritesRuns
    <2>5. QED
      BY <1>1, <2>4 DEF EdKept, EdAt
  <1>4. QED
    BY <1>2, <1>3

\* A handler's own step keeps what it relies on.
LEMMA EditorEdStep ==
    ASSUME IInv, NEW c \in Editors,
           (\E n \in Names : GetManifest(c, n)) \/ (\E e \in Edits : SubmitEdit(c, e))
               \/ EditStep(c)
    PROVE  EdKept(c)' /\ \A d \in Editors \ {c} : ed'[d] = ed[d]
  <1>t. TypeOK /\ EdInv /\ EdKept(c) /\ ed \in [Editors -> EdType] /\ ed[c] \in EdType
    BY DEF IInv, EdInv, TypeOK
  <1>g. \A step \in EdSteps : EdGoto(c, step) =>
           ed'[c].pc = step /\ \A d \in Editors \ {c} : ed'[d] = ed[d]
    BY <1>t, EdMoves
  <1> USE DEF EdAt, EdSteps
  <1>i. ASSUME ed'[c].pc \notin EdLocked PROVE EdKept(c)'
    BY <1>i DEF EdKept, EdLocked
  <1>1. ASSUME NEW n \in Names, GetManifest(c, n)
        PROVE  EdKept(c)' /\ \A d \in Editors \ {c} : ed'[d] = ed[d]
    <2>1. ed'[c].pc = "idle" /\ \A d \in Editors \ {c} : ed'[d] = ed[d]
      BY <1>1, <1>t DEF GetManifest, EdType
    <2>2. QED
      BY <2>1, <1>i DEF EdLocked
  <1>2. ASSUME NEW e \in Edits, SubmitEdit(c, e)
        PROVE  EdKept(c)' /\ \A d \in Editors \ {c} : ed'[d] = ed[d]
    <2>1. ed'[c].pc = "submitted" /\ \A d \in Editors \ {c} : ed'[d] = ed[d]
      BY <1>2, <1>t DEF SubmitEdit, EdType
    <2>2. QED
      BY <2>1, <1>i DEF EdLocked
  <1>3. CASE EditLockTimeout(c)
    BY <1>3, <1>g, <1>i DEF EditLockTimeout, EdLocked
  <1>4. CASE RejectEdit(c)
    BY <1>4, <1>g, <1>i DEF RejectEdit, EdLocked
  <1>5. CASE AcceptEdit(c)
    <2> DEFINE run == runs[ed[c].name]
               h == DeriveHash(run.man, ed[c].op)
               ann == EditAnnotation(run.ann, ed[c].op, h)
    <2>1. /\ run # Absent /\ run.man = ed[c].seen
          /\ ed' = [ed EXCEPT ![c].pc = "writeAnn", ![c].ann = ann] /\ runs' = runs
      BY <1>5 DEF AcceptEdit, EditAdmissible
    <2>2. ann.hash = h
      BY DEF EditAnnotation
    <2> HIDE DEF ann
    <2>3. /\ ed'[c].pc = "writeAnn" /\ ed'[c].ann = ann
          /\ ed'[c].name = ed[c].name /\ ed'[c].seen = ed[c].seen /\ ed'[c].op = ed[c].op
          /\ \A d \in Editors \ {c} : ed'[d] = ed[d]
      BY <2>1, <1>t DEF EdType
    <2>4. QED
      BY <2>1, <2>2, <2>3 DEF EdKept
  <1>6. CASE WriteAnnotation(c)
    <2> DEFINE n == ed[c].name
    <2>1. /\ runs[n].man = ed[c].seen
          /\ ed[c].ann.hash = DeriveHash(runs[n].man, ed[c].op)
          /\ runs'[n] \in Run /\ runs'[n].man = runs[n].man /\ runs'[n].ann = ed[c].ann
          /\ ed'[c] = [ed[c] EXCEPT !.pc = "writeMan"] /\ ed'[c].pc = "writeMan"
          /\ \A d \in Editors \ {c} : ed'[d] = ed[d]
      BY <1>6, <1>t, WriteAnnotationFacts
    <2>2. /\ ed'[c].name = n /\ ed'[c].seen = ed[c].seen
          /\ ed'[c].op = ed[c].op /\ ed'[c].ann = ed[c].ann
      BY <2>1, <1>t DEF EdType
    <2>3. runs'[n] # Absent
      BY <2>1, SentinelAssumption DEF SentinelAssumption
    <2>4. QED
      BY <2>1, <2>2, <2>3 DEF EdKept
  <1>7. CASE WriteManifest(c)
    <2> DEFINE n == ed[c].name
    <2>1. /\ runs'[n] \in Run /\ runs'[n].man = ed[c].ann.hash
          /\ ed'[c] = [ed[c] EXCEPT !.pc = "writeIdx"] /\ ed'[c].pc = "writeIdx"
          /\ \A d \in Editors \ {c} : ed'[d] = ed[d]
      BY <1>7, <1>t, WriteManifestFacts
    <2>2. ed'[c].name = n /\ ed'[c].ann = ed[c].ann
      BY <2>1, <1>t DEF EdType
    <2>3. runs'[n] # Absent
      BY <2>1, SentinelAssumption DEF SentinelAssumption
    <2>4. QED
      BY <2>1, <2>2, <2>3 DEF EdKept
  <1>8. CASE WriteIndex(c)
    <2> DEFINE done == [NewEd EXCEPT !.name = ed[c].name, !.seen = ed[c].ann.hash]
    <2>1. done.pc = "idle"
      BY NewTypes DEF NewEd, EdType
    <2>2. ed' = [ed EXCEPT ![c] = done]
      BY <1>8 DEF WriteIndex
    <2> HIDE DEF done
    <2>3. ed'[c].pc = "idle" /\ \A d \in Editors \ {c} : ed'[d] = ed[d]
      BY <2>1, <2>2, <1>t
    <2>4. QED
      BY <2>3, <1>i DEF EdLocked
  <1>9. QED
    BY <1>1, <1>2, <1>3, <1>4, <1>5, <1>6, <1>7, <1>8 DEF EditStep

\* Every step keeps what the handlers rely on.
LEMMA EdStep == IInv /\ [Next]_vars => EdInv'
  <1> SUFFICES ASSUME IInv, [Next]_vars PROVE EdInv'
    OBVIOUS
  <1>1. CASE CrashServer
    BY <1>1, CrashServerFacts DEF IInv, EdInv, EdKept, EdAt
  <1>2. CASE ed' = ed
    BY <1>2, OthersKeepTheirRun DEF EdInv
  <1>3. ASSUME NEW c \in Editors,
               (\E n \in Names : GetManifest(c, n)) \/ (\E e \in Edits : SubmitEdit(c, e))
                   \/ EditStep(c)
        PROVE  EdInv'
    BY <1>3, EditorEdStep, OthersKeepTheirRun DEF EdInv
  <1>4. ASSUME NEW p \in Annotators,
               (\E r \in Requests, force \in BOOLEAN : Start(p, r, force))
                   \/ PublishStep(p) \/ Fault(p) \/ CrashAnnotator(p)
        PROVE  ed' = ed
    BY <1>4 DEF Start, PublishStep, ResolveName, CheckReuse, MakeTmp, ClaimTmp,
                WriteArtifacts, GiveUp, AcquirePublishLock, Scavenge, RecheckReuse,
                HealIndex, BakeName, BackupFinal, BackupRefused, ClaimBak,
                InstallFinal, UpsertIndex, RemoveBak, Fault, CrashAnnotator
  <1>5. DayPasses \/ UNCHANGED vars => ed' = ed
    BY DEF DayPasses, vars
  <1>6. ASSUME NEW c \in Editors, EditFails(c)
        PROVE  EdInv'
    <2>1. ed'[c].pc = "idle" /\ \A d \in Editors \ {c} : ed'[d] = ed[d]
      BY <1>6, EditFailsFacts DEF IInv
    <2>2. EdKept(c)'
      BY <2>1 DEF EdKept, EdAt
    <2>3. QED
      BY <1>6, <2>1, <2>2, OthersKeepTheirRun DEF EdInv
  <1>7. QED
    BY <1>1, <1>2, <1>3, <1>4, <1>5, <1>6 DEF Next

\* Every step leaves the annotation at the manifest's version or one edit past it.
LEMMA AheadStep == IInv /\ [Next]_vars => AnnotationAtMostOneAhead'
  <1> SUFFICES ASSUME IInv, [Next]_vars, NEW n \in Names, runs'[n] # Absent
               PROVE  \/ runs'[n].ann.hash = runs'[n].man
                      \/ \E e \in Edits : runs'[n].ann.hash = DeriveHash(runs'[n].man, e)
    BY DEF AnnotationAtMostOneAhead
  <1>1. TypeOK /\ TmpInv /\ EdInv
    BY DEF IInv
  <1>2. CASE runs'[n] = runs[n]
    BY <1>2 DEF IInv, AnnotationAtMostOneAhead
  <1>3. ASSUME NEW p \in Annotators, BackupFinal(p)
        PROVE  runs'[n] = runs[n]
    BY <1>1, <1>3, BackupFacts
  <1>4. ASSUME NEW p \in Annotators, InstallFinal(p), runs'[n] # runs[n]
        PROVE  runs'[n].ann.hash = runs'[n].man
    BY <1>1, <1>4, InstallFacts, FreshRunFacts
  <1>5. ASSUME NEW c \in Editors, WriteAnnotation(c), runs'[n] # runs[n]
        PROVE  \E e \in Edits : runs'[n].ann.hash = DeriveHash(runs'[n].man, e)
    <2>1. n = ed[c].name
      BY <1>1, <1>5, WriteAnnotationFacts
    <2>2. /\ ed[c].op \in Edits
          /\ runs'[n].ann.hash = DeriveHash(runs'[n].man, ed[c].op)
      BY <1>1, <1>5, <2>1, WriteAnnotationFacts
    <2>3. QED
      BY <2>2
  <1>6. ASSUME NEW c \in Editors, WriteManifest(c), runs'[n] # runs[n]
        PROVE  runs'[n].ann.hash = runs'[n].man
    BY <1>1, <1>6, WriteManifestFacts, ZenonT(30)
  <1>7. QED
    BY <1>2, <1>3, <1>4, <1>5, <1>6, WhoWritesRuns

\* Every step leaves a name that is about to be installed free.
LEMMA FinalStep == IInv /\ [Next]_vars => FinalInv'
  <1> SUFFICES ASSUME IInv, [Next]_vars, NEW p \in Annotators,
                      pub'[p].pc \in {"bakmeta", "install"}
               PROVE  runs'[pub'[p].name] = Absent
    BY DEF FinalInv
  <1>1. /\ TypeOK /\ LockHeld /\ FinalInv /\ pub[p] \in PubType
        /\ pub \in [Annotators -> PubType]
    BY DEF IInv, TypeOK
  <1>2. CASE BackupFinal(p)
    <2>1. pub'[p].name = pub[p].name /\ pub[p].name \in Names
      BY <1>1, <1>2 DEF BackupFinal, Goto, PubType
    <2>2. runs'[pub[p].name] = Absent
      BY <1>1, <1>2, <2>1 DEF BackupFinal, TypeOK
    <2>3. QED
      BY <2>1, <2>2
  <1>3. CASE ClaimBak(p)
    <2>1. pub'[p].name = pub[p].name
      BY <1>1, <1>3, PubMoves DEF ClaimBak, Goto, PubType
    <2>2. QED
      BY <1>1, <1>3, <2>1 DEF ClaimBak, At, FinalInv
  <1>4. CASE pub'[p] = pub[p]
    <2>1. lock = p /\ p \notin Editors
      BY <1>1, <1>4, DistinctAssumption DEF LockHeld, PubLocked, DistinctAssumption
    <2>2. ~BackupFinal(p)
      BY <1>4, <1>1 DEF BackupFinal, At
    <2>3. ~InstallFinal(p)
      <3>1. InstallFinal(p) => pub'[p].pc = "upsert"
        BY <1>1, PubMoves DEF InstallFinal, PubSteps
      <3>2. QED
        BY <3>1
    <2>4. UNCHANGED runs
      BY <2>1, <2>2, <2>3, WhoWritesRuns
    <2>5. QED
      BY <1>1, <1>4, <2>4 DEF FinalInv
  <1>5. ASSUME pub'[p] # pub[p] PROVE BackupFinal(p) \/ ClaimBak(p)
    <2>g. \A step \in PubSteps : Goto(p, step) => pub'[p].pc = step
      BY <1>1, PubMoves
    <2>x. Exit(p) => pub'[p].pc = "none"
      BY <1>1, PubMoves
    <2>1. ASSUME NEW r \in Requests, NEW force \in BOOLEAN, Start(p, r, force)
          PROVE  pub'[p].pc = "resolve"
      BY <2>1, <1>1 DEF Start, PubType
    <2>2. ResolveName(p) => pub'[p].pc = "check"
      BY <1>1 DEF ResolveName, PubType
    <2>3. PublishStep(p) \/ Fault(p) \/ CrashAnnotator(p) => BackupFinal(p) \/ ClaimBak(p)
      BY <2>g, <2>x, <2>2
      DEF PublishStep, CheckReuse, MakeTmp, ClaimTmp, WriteArtifacts, GiveUp,
          AcquirePublishLock, Scavenge, RecheckReuse, HealIndex, BakeName,
          BackupRefused, InstallFinal, UpsertIndex, RemoveBak, Fault,
          CrashAnnotator, PubSteps
    <2>4. ASSUME NEW q \in Annotators \ {p},
                 (\E r \in Requests, force \in BOOLEAN : Start(q, r, force))
                     \/ PublishStep(q) \/ Fault(q) \/ CrashAnnotator(q)
          PROVE  pub'[p] = pub[p]
      BY <2>4, <1>1
      DEF Start, PublishStep, ResolveName, CheckReuse, MakeTmp, ClaimTmp,
          WriteArtifacts, GiveUp, AcquirePublishLock, Scavenge, RecheckReuse,
          HealIndex, BakeName, BackupFinal, BackupRefused, ClaimBak,
          InstallFinal, UpsertIndex, RemoveBak, Fault, CrashAnnotator, Goto, Exit
    <2>5. ASSUME NEW c \in Editors,
                 (\E n \in Names : GetManifest(c, n)) \/ (\E e \in Edits : SubmitEdit(c, e))
                     \/ EditStep(c) \/ EditFails(c)
          PROVE  pub' = pub
      BY <2>5 DEF GetManifest, SubmitEdit, EditStep, EditLockTimeout, RejectEdit,
                  AcceptEdit, WriteAnnotation, WriteManifest, WriteIndex, EditFails
    <2>6. CrashServer \/ DayPasses \/ UNCHANGED vars => pub' = pub
      BY DEF CrashServer, DayPasses, vars
    <2>7. QED
      BY <1>5, <2>1, <2>3, <2>4, <2>5, <2>6 DEF Next
  <1>6. QED
    BY <1>2, <1>3, <1>4, <1>5

\* The invariant is inductive.
LEMMA Inductive == IInv /\ [Next]_vars => IInv'
  BY TypeStep, LockStep, SideStep, FinalStep, EdStep, AheadStep DEF IInv

-----------------------------------------------------------------------------
(***************************************************************************)
(* Theorems.                                                               *)
(***************************************************************************)
\* What publishers and handlers rely on between their steps holds throughout.
THEOREM Invariance == Spec => []IInv
  <1>1. Init => IInv
    BY InitIInv
  <1>2. IInv /\ [Next]_vars => IInv'
    BY Inductive
  <1>3. QED
    BY <1>1, <1>2, PTL DEF Spec

\* Every variable keeps its type: in particular what publish installs is always
\* a complete run, never the empty directory a dead writer may have left.
THEOREM TypeCorrect == Spec => []TypeOK
  <1>1. IInv => TypeOK
    BY DEF IInv
  <1>2. QED
    BY <1>1, Invariance, PTL

\* index.json.lock is held by exactly the process that is inside publish's
\* locked section or a PATCH's three writes, whoever is killed: the two never
\* interleave.
THEOREM MutualExclusion == Spec => []LockHeld
  <1>1. IInv => LockHeld
    BY DEF IInv
  <1>2. QED
    BY <1>1, Invariance, PTL

\* annotation.json is never more than one edit away from manifest.json, whatever
\* is killed between the two writes and edited afterwards.
THEOREM AtMostOneAhead == Spec => []AnnotationAtMostOneAhead
  <1>1. IInv => AnnotationAtMostOneAhead
    BY DEF IInv
  <1>2. QED
    BY <1>1, Invariance, PTL

\* No scavenger removes the tmp directory of a live publisher that has claimed
\* it, however old the directory is.
THEOREM ScavengerSparesTheLiving == Spec => []LiveTmpKept
  <1>1. IInv => LiveTmpKept
    BY DEF IInv, TmpInv, TmpKept, PubClaimed, LiveTmpKept
  <1>2. QED
    BY <1>1, Invariance, PTL

-----------------------------------------------------------------------------
(* The audit trail. *)

\* The labels of an annotation are those its audit trail set last.
Explained(a) == a.labels = Replay(a.history)

\* The version of an annotation tells its audit trail.
Told(a) == a.history = a.hash.edits

\* Runs on disk, and annotations that are about to be written, are explained.
AllExplained ==
    /\ \A n \in Names : runs[n] # Absent => Explained(runs[n].ann)
    /\ \A c \in Editors : EdAt(c, "writeAnn") => Explained(ed[c].ann)

\* Nobody was killed and nothing was raised so far.
NothingFailed == crashes = 0 /\ faults = 0

\* Until something fails their versions tell them too: an annotation is ahead of its
\* manifest only while its handler is between the two writes.
AllTold ==
    NothingFailed =>
        /\ \A n \in Names : runs[n] # Absent =>
              /\ Told(runs[n].ann)
              /\ \/ runs[n].ann.hash = runs[n].man
                 \/ \E c \in Editors : EdAt(c, "writeMan") /\ ed[c].name = n
        /\ \A c \in Editors : EdAt(c, "writeAnn") => Told(ed[c].ann)

AuditInv == AllExplained /\ AllTold

-----------------------------------------------------------------------------
(* The index. *)

\* What publishers and handlers know of the run they list in the index.
ListedRuns ==
    /\ \A n \in Names : runs[n] # Absent => OwnName(runs[n].man.req, n)
    /\ \A p \in Annotators :
          /\ pub[p].pc \notin {"none", "resolve"} => OwnName(pub[p].req, pub[p].name)
          /\ pub[p].pc \in {"heal", "upsert"} =>
                /\ runs[pub[p].name] # Absent
                /\ runs[pub[p].name].man = AutoHash(pub[p].req)
    /\ \A c \in Editors : ed[c].pc \in EdLocked =>
          /\ ed[c].seen # Absent
          /\ ed[c].ann.hash.req = ed[c].seen.req

\* Publisher p has taken the run under n away to install its own.
Replacing(p, n) == pub[p].pc \in {"bakmeta", "install"} /\ pub[p].name = n

\* Request r has, or is about to have again, a run under another name than n.
OtherRun(r, n) ==
    \E m \in Names \ {n} :
        \/ runs[m] # Absent /\ runs[m].man.req = r
        \/ \E p \in Annotators : Replacing(p, m) /\ pub[p].req = r

\* Whoever changes a run is about to list it.
BeingListed(n) ==
    \/ \E p \in Annotators : At(p, "upsert") /\ pub[p].name = n
    \/ \E c \in Editors : EdAt(c, "writeIdx") /\ ed[c].name = n

Listed(n) == [hash |-> runs[n].man, name |-> n] \in index

\* No row leads nowhere: the run it names is there, or about to be again.
RowsLead ==
    \A row \in index :
        runs[row.name] # Absent \/ \E p \in Annotators : Replacing(p, row.name)

\* Every run is listed, or about to be, or its request has another run.
RunsListed ==
    NamesAreOwn =>
        \A n \in Names : runs[n] # Absent =>
            Listed(n) \/ BeingListed(n) \/ OtherRun(runs[n].man.req, n)

IndexInv == crashes = 0 /\ faults = 0 => RowsLead /\ RunsListed

-----------------------------------------------------------------------------
(***************************************************************************)
(* The audit trail accounts for the run.                                   *)
(***************************************************************************)
\* A nonempty set of positions has a last one.
LEMMA LastPosition ==
    ASSUME NEW n \in Nat, NEW T \in SUBSET (1 .. n), T # {}
    PROVE  \E i \in T : \A j \in T : j <= i
  <1> DEFINE R == OpToRel(<, Nat)
             D == {n - x : x \in T}
  <1>1. \A x, y \in Nat : <<x, y>> \in R <=> x < y
    BY DEF OpToRel
  <1>2. IsWellFoundedOn(R, Nat)
    BY NatLessThanWellFounded
  <1>3. D \in SUBSET Nat /\ D # {}
    <2>1. \A x \in T : n - x \in Nat
      OBVIOUS
    <2>2. PICK x \in T : TRUE
      OBVIOUS
    <2> QED
      BY <2>1, <2>2
  <1> HIDE DEF R
  <1>4. PICK d \in D : \A y \in D : ~(<<y, d>> \in R)
    <2> HIDE DEF D
    <2> QED
      BY <1>2, <1>3, WFMin
  <1>5. PICK i \in T : d = n - i
    OBVIOUS
  <1>6. ASSUME NEW j \in T PROVE j <= i
    <2>1. n - j \in D /\ n - j \in Nat /\ n - i \in Nat /\ i \in Nat /\ j \in Nat
      OBVIOUS
    <2>2. ~(n - j < n - i)
      BY <1>1, <1>4, <1>5, <2>1, Zenon
    <2> QED
      BY <2>1, <2>2
  <1> QED
    BY <1>6

\* Setting a value and appending the edit that set it: the labels stay those the
\* trail set last.
LEMMA ReplayAppend ==
    ASSUME NEW history \in Seq(Edits), NEW e \in Edits
    PROVE  Replay(Append(history, e)) = [Replay(history) EXCEPT ![e.seg] = e.val]
  <1> DEFINE n == Len(history)
             longer == Append(history, e)
             touched(s) == {i \in DOMAIN history : history[i].seg = s}
             touchedNow(s) == {i \in DOMAIN longer : longer[i].seg = s}
             last(T) == CHOOSE i \in T : \A j \in T : j <= i
  <1>1. /\ n \in Nat /\ DOMAIN history = 1 .. n /\ DOMAIN longer = 1 .. n + 1
        /\ \A i \in 1 .. n : longer[i] = history[i]
        /\ longer[n + 1] = e
        /\ e.seg \in Segments
    BY EditsAssumption DEF EditsAssumption
  <1>2. /\ Replay(longer) = [s \in Segments |->
              IF touchedNow(s) = {} THEN FirstValue ELSE longer[last(touchedNow(s))].val]
        /\ Replay(history) = [s \in Segments |->
              IF touched(s) = {} THEN FirstValue ELSE history[last(touched(s))].val]
    BY DEF Replay
  <1> HIDE DEF n, longer, last
  <1>3. ASSUME NEW s \in Segments, s # e.seg
        PROVE  Replay(longer)[s] = Replay(history)[s]
    <2>1. touchedNow(s) = touched(s)
      BY <1>1, <1>3
    <2>2. CASE touched(s) = {}
      BY <1>2, <2>1, <2>2
    <2>3. CASE touched(s) # {}
      <3>1. touched(s) \in SUBSET (1 .. n)
        BY <1>1
      <3> DEFINE T == touched(s)
      <3>2. T \in SUBSET (1 .. n) /\ T # {}
        BY <2>3, <3>1
      <3> HIDE DEF T
      <3>3. last(T) \in T
        <4>1. \E i \in T : \A j \in T : j <= i
          BY <1>1, <3>2, LastPosition
        <4> QED
          BY <4>1 DEF last
      <3>4. longer[last(T)] = history[last(T)]
        BY <1>1, <3>2, <3>3
      <3> QED
        BY <1>2, <2>1, <2>3, <3>4 DEF T
    <2> QED
      BY <2>2, <2>3
  <1>4. Replay(longer)[e.seg] = e.val
    <2> DEFINE T == touchedNow(e.seg)
    <2>1. n + 1 \in T /\ \A i \in T : i <= n + 1 /\ i \in Int
      BY <1>1
    <2> HIDE DEF T
    <2>2. last(T) = n + 1
      <3>1. \E i \in T : \A j \in T : j <= i
        BY <2>1
      <3>2. last(T) \in T /\ \A j \in T : j <= last(T)
        BY <3>1 DEF last
      <3> QED
        BY <1>1, <2>1, <3>2
    <2> QED
      BY <1>1, <1>2, <2>1, <2>2 DEF T
  <1>5. Replay(longer) = [Replay(history) EXCEPT ![e.seg] = e.val]
    <2>1. /\ Replay(longer) = [s \in Segments |-> Replay(longer)[s]]
          /\ Replay(history) = [s \in Segments |-> Replay(history)[s]]
      BY <1>2
    <2> QED
      BY <1>3, <1>4, <2>1
  <1> QED
    BY <1>5 DEF longer

\* A new run has an empty trail and the pipeline's labels.
LEMMA FreshExplained ==
    ASSUME NEW r \in Requests
    PROVE  Explained(FreshRun(r).ann) /\ Told(FreshRun(r).ann)
  <1>1. DOMAIN << >> = {}
    OBVIOUS
  <1>2. Replay(<< >>) = [s \in Segments |-> FirstValue]
    BY <1>1 DEF Replay
  <1> QED
    BY <1>2 DEF FreshRun, AutoHash, Explained, Told

\* An edit of an explained annotation, hashed on the version it is at, is
\* explained by the trail that the edit extends.
LEMMA EditExplained ==
    ASSUME NEW a \in Annotation, NEW e \in Edits, NEW h \in Hash, Explained(a)
    PROVE  /\ Explained(EditAnnotation(a, e, DeriveHash(h, e)))
           /\ Told(a) /\ a.hash = h => Told(EditAnnotation(a, e, DeriveHash(h, e)))
  <1>1. a.history \in Seq(Edits)
    BY DEF Annotation
  <1>2. Replay(Append(a.history, e)) = [a.labels EXCEPT ![e.seg] = e.val]
    BY <1>1, ReplayAppend DEF Explained
  <1> QED
    BY <1>2 DEF Explained, Told, EditAnnotation, DeriveHash

\* With the lock, a handler builds the new annotation from the one on disk.
LEMMA AcceptEditFacts ==
    ASSUME TypeOK, NEW c \in Editors, AcceptEdit(c)
    PROVE  LET n == ed[c].name IN
           /\ n \in Names /\ runs[n] \in Run /\ runs[n] # Absent
           /\ ed[c].op \in Edits /\ ed[c].seen = runs[n].man
           /\ ed'[c].pc = "writeAnn" /\ ed'[c].seen = ed[c].seen
           /\ ed'[c].ann = EditAnnotation(runs[n].ann, ed[c].op,
                                          DeriveHash(runs[n].man, ed[c].op))
           /\ \A d \in Editors \ {c} : ed'[d] = ed[d]
           /\ lock = Free /\ UNCHANGED <<runs, index, pub, crashes, faults>>
  <1> DEFINE n == ed[c].name
             ann == EditAnnotation(runs[n].ann, ed[c].op, DeriveHash(runs[n].man, ed[c].op))
  <1>1. ed \in [Editors -> EdType] /\ n \in Names /\ ed[c].op \in Edits
    BY DEF TypeOK, EdType
  <1>2. runs[n] \in Run /\ runs[n] # Absent /\ ed[c].seen = runs[n].man
    BY <1>1 DEF TypeOK, AcceptEdit, EditAdmissible
  <1>3. /\ ed' = [ed EXCEPT ![c].pc = "writeAnn", ![c].ann = ann]
        /\ lock = Free /\ UNCHANGED <<runs, index, pub, crashes, faults>>
    BY DEF AcceptEdit
  <1> HIDE DEF ann
  <1>4. /\ ed'[c].pc = "writeAnn" /\ ed'[c].ann = ann /\ ed'[c].seen = ed[c].seen
        /\ \A d \in Editors \ {c} : ed'[d] = ed[d]
    BY <1>1, <1>3 DEF EdType
  <1> QED
    BY <1>1, <1>2, <1>3, <1>4 DEF ann

\* A kill or an exception stays counted.
LEMMA FailuresCount ==
    ASSUME IInv, [Next]_vars
    PROVE  (crashes' = 0 => crashes = 0) /\ (faults' = 0 => faults = 0)
  <1>t. crashes \in Nat /\ faults \in Nat
    BY DEF IInv, TypeOK
  <1>1. ASSUME NEW p \in Annotators,
               (\E r \in Requests, force \in BOOLEAN : Start(p, r, force)) \/ PublishStep(p)
        PROVE  crashes' = crashes /\ faults' = faults
    BY <1>1 DEF Start, PublishStep, ResolveName, CheckReuse, MakeTmp, ClaimTmp,
                WriteArtifacts, GiveUp, AcquirePublishLock, Scavenge, RecheckReuse,
                HealIndex, BakeName, BackupFinal, BackupRefused, ClaimBak,
                InstallFinal, UpsertIndex, RemoveBak
  <1>2. ASSUME NEW p \in Annotators, Fault(p) \/ CrashAnnotator(p)
        PROVE  \/ crashes' = crashes /\ faults' = faults + 1
               \/ crashes' = crashes + 1 /\ faults' = faults
    BY <1>2 DEF Fault, CrashAnnotator
  <1>3. ASSUME NEW c \in Editors,
               (\E n \in Names : GetManifest(c, n)) \/ (\E e \in Edits : SubmitEdit(c, e))
                   \/ EditStep(c)
        PROVE  crashes' = crashes /\ faults' = faults
    BY <1>3 DEF GetManifest, SubmitEdit, EditStep, EditLockTimeout, RejectEdit,
                AcceptEdit, WriteAnnotation, WriteManifest, WriteIndex
  <1>4. CrashServer => crashes' = crashes + 1 /\ faults' = faults
    BY Zenon DEF CrashServer
  <1>5. DayPasses \/ UNCHANGED vars => crashes' = crashes /\ faults' = faults
    BY DEF DayPasses, vars
  <1>6. ASSUME NEW c \in Editors, EditFails(c)
        PROVE  crashes' = crashes /\ faults' = faults + 1
    BY <1>6 DEF EditFails
  <1>7. \/ crashes' = crashes /\ faults' = faults
        \/ crashes' = crashes /\ faults' = faults + 1
        \/ crashes' = crashes + 1 /\ faults' = faults
    BY <1>1, <1>2, <1>3, <1>4, <1>5, <1>6, Zenon DEF Next
  <1> QED
    BY <1>t, <1>7

\* Every other step leaves the annotations on disk and in the handlers alone, or
\* takes a run away, or is a kill or an exception.
Quiet ==
    /\ \A n \in Names : runs'[n] = runs[n] \/ runs'[n] = Absent
    /\ \A c \in Editors :
          /\ ed'[c].pc = "writeAnn" => ed'[c] = ed[c]
          /\ ed[c].pc = "writeMan" => ed'[c] = ed[c] \/ ~NothingFailed'
    /\ NothingFailed' => NothingFailed

\* Which steps write what an audit trail speaks of.
LEMMA WhoWritesAnnotations ==
    ASSUME IInv, [Next]_vars
    PROVE  \/ Quiet
           \/ \E p \in Annotators : InstallFinal(p)
           \/ \E c \in Editors : AcceptEdit(c) \/ WriteAnnotation(c) \/ WriteManifest(c)
  <1>t. TypeOK /\ ed \in [Editors -> EdType] /\ crashes \in Nat /\ faults \in Nat
    BY DEF IInv, TypeOK
  <1>g. \A c \in Editors, step \in EdSteps : EdGoto(c, step) =>
           ed'[c].pc = step /\ \A d \in Editors \ {c} : ed'[d] = ed[d]
    BY <1>t, EdMoves
  <1>0. NothingFailed' => NothingFailed
    BY FailuresCount DEF NothingFailed
  <1> USE <1>0 DEF Quiet
  <1>1. ASSUME NEW p \in Annotators,
               \/ \E r \in Requests, force \in BOOLEAN : Start(p, r, force)
               \/ PublishStep(p) \/ Fault(p) \/ CrashAnnotator(p),
               ~InstallFinal(p)
        PROVE  Quiet
    <2>1. ed' = ed
      BY <1>1 DEF Start, PublishStep, ResolveName, CheckReuse, MakeTmp, ClaimTmp,
                WriteArtifacts, GiveUp, AcquirePublishLock, Scavenge, RecheckReuse,
                HealIndex, BakeName, BackupFinal, BackupRefused, ClaimBak,
                UpsertIndex, RemoveBak, Fault, CrashAnnotator
    <2>2. runs' = runs \/ BackupFinal(p)
      BY <1>1 DEF Start, PublishStep, ResolveName, CheckReuse, MakeTmp, ClaimTmp,
                WriteArtifacts, GiveUp, AcquirePublishLock, Scavenge, RecheckReuse,
                HealIndex, BakeName, BackupRefused, ClaimBak,
                UpsertIndex, RemoveBak, Fault, CrashAnnotator
    <2>3. \A n \in Names : runs'[n] = runs[n] \/ runs'[n] = Absent
      BY <2>2, <1>t, BackupFacts
    <2> QED
      BY <2>1, <2>3, <1>t
  <1>2. ASSUME NEW c \in Editors, NEW n \in Names, GetManifest(c, n)
        PROVE  Quiet
    <2>1. ed'[c].pc = "idle" /\ ed[c].pc = "idle" /\ \A d \in Editors \ {c} : ed'[d] = ed[d]
      BY <1>2, <1>t DEF GetManifest, EdType, EdAt
    <2> QED
      BY <1>2, <2>1 DEF GetManifest
  <1>3. ASSUME NEW c \in Editors, NEW e \in Edits, SubmitEdit(c, e)
        PROVE  Quiet
    <2>1. ed'[c].pc = "submitted" /\ ed[c].pc = "idle" /\ \A d \in Editors \ {c} : ed'[d] = ed[d]
      BY <1>3, <1>t DEF SubmitEdit, EdType, EdAt
    <2> QED
      BY <1>3, <2>1 DEF SubmitEdit
  <1>4. ASSUME NEW c \in Editors, EditLockTimeout(c) \/ RejectEdit(c)
        PROVE  Quiet
    <2>1. EdGoto(c, "idle") /\ ed[c].pc = "submitted" /\ runs' = runs
      BY <1>4 DEF EditLockTimeout, RejectEdit, EdAt
    <2>2. ed'[c].pc = "idle" /\ \A d \in Editors \ {c} : ed'[d] = ed[d]
      BY <1>g, <2>1 DEF EdSteps
    <2> QED
      BY <2>1, <2>2
  <1>5. ASSUME NEW c \in Editors, WriteIndex(c)
        PROVE  Quiet
    <2> DEFINE done == [NewEd EXCEPT !.name = ed[c].name, !.seen = ed[c].ann.hash]
    <2>1. done.pc = "idle"
      BY NewTypes DEF NewEd, EdType
    <2>2. /\ ed' = [ed EXCEPT ![c] = done] /\ ed[c].pc = "writeIdx"
          /\ runs' = runs
      BY <1>5 DEF WriteIndex, EdAt
    <2> HIDE DEF done
    <2>3. ed'[c].pc = "idle" /\ \A d \in Editors \ {c} : ed'[d] = ed[d]
      BY <2>1, <2>2, <1>t
    <2> QED
      BY <2>2, <2>3
  <1>6. CASE CrashServer
    <2>1. crashes' = crashes + 1
      BY <1>6, Zenon DEF CrashServer
    <2>2. ~NothingFailed'
      BY <1>t, <2>1 DEF NothingFailed
    <2> QED
      BY <1>6, <1>t, <2>2, CrashServerFacts
  <1>7. CASE DayPasses \/ UNCHANGED vars
    BY <1>7 DEF DayPasses, vars
  <1>8. ASSUME NEW c \in Editors, EditFails(c)
        PROVE  Quiet
    <2>1. /\ ed'[c].pc = "idle" /\ \A d \in Editors \ {c} : ed'[d] = ed[d]
          /\ runs' = runs /\ faults' = faults + 1
      BY <1>8, <1>t, EditFailsFacts
    <2>2. ~NothingFailed'
      BY <1>t, <2>1 DEF NothingFailed
    <2> QED
      BY <2>1, <2>2
  <1> QED
    BY <1>1, <1>2, <1>3, <1>4, <1>5, <1>6, <1>7, <1>8, Zenon DEF Next, EditStep

\* Every step keeps the audit invariant.
LEMMA AuditStep ==
    ASSUME IInv, AuditInv, [Next]_vars
    PROVE  AuditInv'
  <1>t. /\ TypeOK /\ LockHeld /\ TmpInv /\ EdInv /\ AllExplained /\ AllTold
        /\ runs \in [Names -> Run \cup {Absent}] /\ ed \in [Editors -> EdType]
    BY DEF IInv, AuditInv, TypeOK
  <1>f. NothingFailed' => NothingFailed
    BY FailuresCount DEF NothingFailed
  <1> USE <1>f DEF EdAt
  <1>1. CASE Quiet
    <2>1. AllExplained'
      BY <1>1, <1>t DEF Quiet, AllExplained
    <2>2. AllTold'
      <3> SUFFICES ASSUME NothingFailed'
                   PROVE  /\ \A n \in Names : runs'[n] # Absent =>
                                /\ Told(runs'[n].ann)
                                /\ \/ runs'[n].ann.hash = runs'[n].man
                                   \/ \E c \in Editors : ed'[c].pc = "writeMan" /\ ed'[c].name = n
                          /\ \A c \in Editors : ed'[c].pc = "writeAnn" => Told(ed'[c].ann)
        BY Zenon DEF AllTold, EdAt, Told
      <3>1. NothingFailed
        BY <1>1 DEF Quiet
      <3>2. ASSUME NEW n \in Names, runs'[n] # Absent
            PROVE  /\ Told(runs'[n].ann)
                   /\ \/ runs'[n].ann.hash = runs'[n].man
                      \/ \E c \in Editors : ed'[c].pc = "writeMan" /\ ed'[c].name = n
        <4>1. runs'[n] = runs[n]
          BY <1>1, <3>2 DEF Quiet
        <4>2. /\ Told(runs[n].ann)
              /\ \/ runs[n].ann.hash = runs[n].man
                 \/ \E c \in Editors : ed[c].pc = "writeMan" /\ ed[c].name = n
          BY <1>t, <3>1, <3>2, <4>1 DEF AllTold
        <4>3. \A c \in Editors : ed[c].pc = "writeMan" => ed'[c] = ed[c]
          BY <1>1 DEF Quiet
        <4> QED
          BY <4>1, <4>2, <4>3, Zenon
      <3>3. ASSUME NEW c \in Editors, ed'[c].pc = "writeAnn"
            PROVE  Told(ed'[c].ann)
        <4>1. ed'[c] = ed[c]
          BY <1>1, <3>3 DEF Quiet
        <4> QED
          BY <1>t, <3>1, <3>3, <4>1 DEF AllTold
      <3> QED
        BY <3>2, <3>3
    <2> QED
      BY <2>1, <2>2 DEF AuditInv
  <1>2. ASSUME NEW p \in Annotators, InstallFinal(p)
        PROVE  AuditInv'
    <2>1. /\ \A n \in Names : \/ runs'[n] = runs[n]
                              \/ n = pub[p].name /\ runs'[n] = FreshRun(pub[p].req)
          /\ pub[p].req \in Requests /\ ed' = ed
      BY <1>2, <1>t, InstallFacts DEF InstallFinal
    <2>2. /\ Explained(FreshRun(pub[p].req).ann) /\ Told(FreshRun(pub[p].req).ann)
          /\ FreshRun(pub[p].req).ann.hash = FreshRun(pub[p].req).man
      BY <2>1, FreshExplained, FreshRunFacts
    <2>3. AllExplained'
      BY <1>t, <2>1, <2>2 DEF AllExplained
    <2>4. AllTold'
      BY <1>t, <2>1, <2>2 DEF AllTold
    <2> QED
      BY <2>3, <2>4 DEF AuditInv
  <1>3. ASSUME NEW c \in Editors, AcceptEdit(c)
        PROVE  AuditInv'
    <2> DEFINE n == ed[c].name
               ann == EditAnnotation(runs[n].ann, ed[c].op, DeriveHash(runs[n].man, ed[c].op))
    <2>1. /\ n \in Names /\ runs[n] \in Run /\ runs[n] # Absent /\ ed[c].op \in Edits
          /\ ed'[c].pc = "writeAnn" /\ ed'[c].ann = ann
          /\ \A d \in Editors \ {c} : ed'[d] = ed[d]
          /\ lock = Free /\ runs' = runs
      BY <1>3, <1>t, AcceptEditFacts
    <2>2. \A d \in Editors : ed[d].pc \notin EdLocked
      BY <1>t, <2>1, DistinctAssumption DEF LockHeld, DistinctAssumption
    <2>3. runs[n].ann \in Annotation /\ runs[n].man \in Hash
      BY <2>1 DEF Run
    <2>4. Explained(runs[n].ann)
      BY <1>t, <2>1 DEF AllExplained
    <2>5. Explained(ann)
      BY <2>1, <2>3, <2>4, EditExplained
    <2>6. ASSUME NothingFailed PROVE Told(ann)
      <3>1. Told(runs[n].ann) /\ runs[n].ann.hash = runs[n].man
        BY <1>t, <2>1, <2>2, <2>6 DEF AllTold, EdLocked
      <3> QED
        BY <2>1, <2>3, <2>4, <3>1, EditExplained
    <2> HIDE DEF ann
    <2>7. AllExplained'
      BY <1>t, <2>1, <2>5 DEF AllExplained
    <2>8. AllTold'
      <3>1. \A d \in Editors : ed[d].pc # "writeMan" /\ (ed'[d].pc = "writeAnn" => d = c \/ ed'[d] = ed[d])
        BY <2>1, <2>2 DEF EdLocked
      <3> QED
        BY <1>t, <2>1, <2>6, <3>1 DEF AllTold
    <2> QED
      BY <2>7, <2>8 DEF AuditInv
  <1>4. ASSUME NEW c \in Editors, WriteAnnotation(c)
        PROVE  AuditInv'
    <2> DEFINE n == ed[c].name
    <2>1. /\ n \in Names /\ ed[c].ann = runs'[n].ann
          /\ \A m \in Names \ {n} : runs'[m] = runs[m]
          /\ ed'[c] = [ed[c] EXCEPT !.pc = "writeMan"] /\ ed'[c].pc = "writeMan"
          /\ \A d \in Editors \ {c} : ed'[d] = ed[d]
      BY <1>4, <1>t, WriteAnnotationFacts
    <2>2. ed[c].pc = "writeAnn" /\ ed'[c].name = n
      BY <1>4, <1>t, <2>1 DEF WriteAnnotation, EdType
    <2>3. Explained(ed[c].ann) /\ (NothingFailed => Told(ed[c].ann))
      BY <1>t, <2>2 DEF AllExplained, AllTold
    <2>4. AllExplained'
      BY <1>t, <2>1, <2>3 DEF AllExplained
    <2>5. AllTold'
      <3> SUFFICES ASSUME NothingFailed
                   PROVE  /\ \A m \in Names : runs'[m] # Absent =>
                                /\ Told(runs'[m].ann)
                                /\ \/ runs'[m].ann.hash = runs'[m].man
                                   \/ \E d \in Editors : ed'[d].pc = "writeMan" /\ ed'[d].name = m
                          /\ \A d \in Editors : ed'[d].pc = "writeAnn" => Told(ed'[d].ann)
        BY <2>2, Zenon DEF AllTold, EdAt, Told
      <3>1. \A m \in Names \ {n} : runs[m] # Absent =>
               /\ Told(runs[m].ann)
               /\ \/ runs[m].ann.hash = runs[m].man
                  \/ \E d \in Editors \ {c} : ed[d].pc = "writeMan" /\ ed[d].name = m
        BY <1>t, <2>2 DEF AllTold
      <3>2. \A d \in Editors \ {c} : ed[d].pc = "writeAnn" => Told(ed[d].ann)
        BY <1>t DEF AllTold
      <3>3. Told(runs'[n].ann)
        BY <2>1, <2>3
      <3>4. ASSUME NEW m \in Names \ {n}, runs'[m] # Absent
            PROVE  /\ Told(runs'[m].ann)
                   /\ \/ runs'[m].ann.hash = runs'[m].man
                      \/ \E d \in Editors : ed'[d].pc = "writeMan" /\ ed'[d].name = m
        <4>1. runs'[m] = runs[m]
          BY <2>1
        <4>2. /\ Told(runs[m].ann)
              /\ \/ runs[m].ann.hash = runs[m].man
                 \/ \E d \in Editors \ {c} : ed[d].pc = "writeMan" /\ ed[d].name = m
          BY <3>1, <3>4, <4>1
        <4>3. ASSUME NEW d \in Editors \ {c}, ed[d].pc = "writeMan", ed[d].name = m
              PROVE  ed'[d].pc = "writeMan" /\ ed'[d].name = m
          BY <2>1, <4>3
        <4> QED
          BY <4>1, <4>2, <4>3
      <3> QED
        BY <2>1, <2>2, <3>2, <3>3, <3>4
    <2> QED
      BY <2>4, <2>5 DEF AuditInv
  <1>5. ASSUME NEW c \in Editors, WriteManifest(c)
        PROVE  AuditInv'
    <2> DEFINE n == ed[c].name
    <2>1. /\ n \in Names /\ runs[n] \in Run /\ runs'[n].ann = runs[n].ann
          /\ runs'[n].man = ed[c].ann.hash /\ runs'[n].ann = ed[c].ann
          /\ \A m \in Names \ {n} : runs'[m] = runs[m]
          /\ ed'[c].pc = "writeIdx"
          /\ \A d \in Editors \ {c} : ed'[d] = ed[d]
      BY <1>5, <1>t, WriteManifestFacts
    <2>2. ed[c].pc = "writeMan" /\ runs[n] # Absent
      BY <1>5, <2>1, SentinelAssumption DEF WriteManifest, SentinelAssumption
    <2>3. \A d \in Editors : ed[d].pc = "writeMan" => d = c
      BY <1>t, <2>2 DEF LockHeld, EdLocked
    <2>4. AllExplained'
      BY <1>t, <2>1, <2>2 DEF AllExplained
    <2>5. AllTold'
      <3> SUFFICES ASSUME NothingFailed
                   PROVE  /\ \A m \in Names : runs'[m] # Absent =>
                                Told(runs'[m].ann) /\ runs'[m].ann.hash = runs'[m].man
                          /\ \A d \in Editors : ed'[d].pc = "writeAnn" => Told(ed'[d].ann)
        BY <2>2, Zenon DEF AllTold, EdAt, Told
      <3>1. \A m \in Names \ {n} : runs[m] # Absent =>
               Told(runs[m].ann) /\ runs[m].ann.hash = runs[m].man
        BY <1>t, <2>3 DEF AllTold
      <3>2. \A d \in Editors \ {c} : ed[d].pc = "writeAnn" => Told(ed[d].ann)
        BY <1>t DEF AllTold
      <3>3. Told(runs[n].ann)
        BY <1>t, <2>1, <2>2 DEF AllTold
      <3> QED
        BY <2>1, <3>1, <3>2, <3>3
    <2> QED
      BY <2>4, <2>5 DEF AuditInv
  <1> QED
    BY <1>1, <1>2, <1>3, <1>4, <1>5, WhoWritesAnnotations

\* The audit trail of every run accounts for its labels, also after a kill; until
\* something is killed or raises, the version of the run tells it edit by edit.
THEOREM AuditTrailExplains == Spec => []AuditExplainsRun
  <1>1. Init => AuditInv
    <2> SUFFICES ASSUME Init PROVE AuditInv
      OBVIOUS
    <2>1. /\ \A n \in Names : runs[n] = Absent
          /\ \A c \in Editors : ed[c].pc = "idle"
      BY DEF Init, NewEd
    <2> QED
      BY <2>1 DEF AuditInv, AllExplained, AllTold, EdAt
  <1>2. IInv /\ AuditInv /\ [Next]_vars => AuditInv'
    BY AuditStep
  <1>3. AuditInv => AuditExplainsRun
    BY Zenon DEF AuditInv, AllExplained, AllTold, NothingFailed, AuditExplainsRun, Explained, Told
  <1> QED
    BY <1>1, <1>2, <1>3, Invariance, PTL DEF Spec
-----------------------------------------------------------------------------
(***************************************************************************)
(* The index lists the runs.                                               *)
(***************************************************************************)
\* Where a publisher's step can take it.
LEMMA PublisherMoves ==
    ASSUME IInv, [Next]_vars, NEW p \in Annotators
    PROVE  /\ \/ pub'[p].pc \in {"none", "resolve"}
              \/ /\ pub'[p].pc = "check" /\ OwnName(pub'[p].req, pub'[p].name)
              \/ /\ pub[p].pc \notin {"none", "resolve"}
                 /\ pub'[p].name = pub[p].name /\ pub'[p].req = pub[p].req
           /\ \/ pub'[p] = pub[p]
              \/ /\ pub'[p].pc = "heal" => RecheckReuse(p) /\ Reusable(p)
                 /\ pub'[p].pc = "upsert" => InstallFinal(p)
                 /\ pub[p].pc = "upsert" => UpsertIndex(p) \/ crashes' # 0 \/ faults' # 0
                 /\ pub[p].pc \in {"bakmeta", "install"} =>
                       \/ pub'[p].pc = "install"
                       \/ InstallFinal(p) \/ crashes' # 0 \/ faults' # 0
  <1>t. TypeOK /\ pub \in [Annotators -> PubType] /\ pub[p] \in PubType /\ crashes \in Nat /\ faults \in Nat
    BY DEF IInv, TypeOK
  <1>g. \A step \in PubSteps : Goto(p, step) =>
           pub'[p].pc = step /\ pub'[p].name = pub[p].name /\ pub'[p].req = pub[p].req
    <2> SUFFICES ASSUME NEW step \in PubSteps, Goto(p, step)
                 PROVE  pub'[p].pc = step /\ pub'[p].name = pub[p].name /\ pub'[p].req = pub[p].req
      OBVIOUS
    <2>1. pub'[p] = [pub[p] EXCEPT !.pc = step]
      BY <1>t, PubMoves
    <2> QED
      BY <2>1, <1>t DEF PubType
  <1>x. Exit(p) => pub'[p].pc = "none"
    BY <1>t, PubMoves
  <1> DEFINE Moves ==
        /\ \/ pub'[p].pc \in {"none", "resolve"}
           \/ /\ pub'[p].pc = "check" /\ OwnName(pub'[p].req, pub'[p].name)
           \/ /\ pub[p].pc \notin {"none", "resolve"}
              /\ pub'[p].name = pub[p].name /\ pub'[p].req = pub[p].req
        /\ \/ pub'[p] = pub[p]
           \/ /\ pub'[p].pc = "heal" => RecheckReuse(p) /\ Reusable(p)
              /\ pub'[p].pc = "upsert" => InstallFinal(p)
              /\ pub[p].pc = "upsert" => UpsertIndex(p) \/ crashes' # 0 \/ faults' # 0
              /\ pub[p].pc \in {"bakmeta", "install"} =>
                    \/ pub'[p].pc = "install"
                    \/ InstallFinal(p) \/ crashes' # 0 \/ faults' # 0
  <1> SUFFICES Moves
    OBVIOUS
  <1>1. CASE pub'[p] = pub[p]
    BY <1>1
  <1> USE DEF At, PubSteps
  <1>2. ASSUME NEW r \in Requests, NEW force \in BOOLEAN, Start(p, r, force)
        PROVE  Moves
    <2>1. pub'[p].pc = "resolve" /\ pub[p].pc = "none"
      BY <1>2, <1>t DEF Start, PubType
    <2> QED
      BY <2>1
  <1>3. CASE ResolveName(p)
    <2>1. /\ pub'[p].pc = "check" /\ pub[p].pc = "resolve" /\ pub'[p].req = pub[p].req
          /\ pub'[p].name \in {ShortName[pub[p].req], LongName[pub[p].req]}
      BY <1>3, <1>t DEF ResolveName, PubType
    <2> QED
      BY <2>1 DEF OwnName
  <1>4. CASE CheckReuse(p) \/ MakeTmp(p) \/ ClaimTmp(p) \/ WriteArtifacts(p)
             \/ GiveUp(p) \/ AcquirePublishLock(p) \/ Scavenge(p)
    BY <1>4, <1>g, <1>x
    DEF CheckReuse, MakeTmp, ClaimTmp, WriteArtifacts, GiveUp, AcquirePublishLock, Scavenge
  <1>5. CASE RecheckReuse(p)
    BY <1>5, <1>g DEF RecheckReuse
  <1>6. CASE HealIndex(p) \/ BakeName(p) \/ BackupRefused(p) \/ RemoveBak(p)
    BY <1>6, <1>g, <1>x DEF HealIndex, BakeName, BackupRefused, RemoveBak
  <1>7. CASE BackupFinal(p)
    <2>1. CASE Goto(p, "install") /\ pub[p].pc = "backup"
      BY <2>1, <1>g
    <2>2. CASE pub' = [pub EXCEPT ![p].pc = "bakmeta", ![p].bak = TRUE] /\ pub[p].pc = "backup"
      <3>1. pub'[p].pc = "bakmeta" /\ pub'[p].name = pub[p].name /\ pub'[p].req = pub[p].req
        BY <2>2, <1>t DEF PubType
      <3> QED
        BY <2>2, <3>1
    <2> QED
      BY <1>7, <2>1, <2>2 DEF BackupFinal
  <1>8. CASE ClaimBak(p) \/ InstallFinal(p) \/ UpsertIndex(p)
    BY <1>8, <1>g DEF ClaimBak, InstallFinal, UpsertIndex
  <1>9. CASE Fault(p)
    BY <1>9, <1>x, <1>t DEF Fault
  <1>10. CASE CrashAnnotator(p)
    BY <1>10, <1>x, <1>t DEF CrashAnnotator
  <1>11. ASSUME NEW q \in Annotators \ {p},
                \/ \E r \in Requests, force \in BOOLEAN : Start(q, r, force)
                \/ PublishStep(q) \/ Fault(q) \/ CrashAnnotator(q)
         PROVE  pub'[p] = pub[p]
    BY <1>11, <1>t
    DEF Start, PublishStep, ResolveName, CheckReuse, MakeTmp, ClaimTmp,
        WriteArtifacts, GiveUp, AcquirePublishLock, Scavenge, RecheckReuse,
        HealIndex, BakeName, BackupFinal, BackupRefused, ClaimBak,
        InstallFinal, UpsertIndex, RemoveBak, Fault, CrashAnnotator, Goto, Exit
  <1>12. ASSUME NEW c \in Editors,
                (\E n \in Names : GetManifest(c, n)) \/ (\E e \in Edits : SubmitEdit(c, e))
                    \/ EditStep(c) \/ EditFails(c)
         PROVE  pub' = pub
    BY <1>12 DEF GetManifest, SubmitEdit, EditStep, EditLockTimeout, RejectEdit,
                 AcceptEdit, WriteAnnotation, WriteManifest, WriteIndex, EditFails
  <1>13. CrashServer \/ DayPasses \/ UNCHANGED vars => pub' = pub
    BY DEF CrashServer, DayPasses, vars
  <1>14. PublishStep(p) => Moves
    BY <1>3, <1>4, <1>5, <1>6, <1>7, <1>8 DEF PublishStep
  <1> HIDE DEF Moves
  <1>15. (\E r \in Requests, force \in BOOLEAN : Start(p, r, force))
            \/ PublishStep(p) \/ Fault(p) \/ CrashAnnotator(p) => Moves
    BY <1>2, <1>9, <1>10, <1>14
  <1>16. pub'[p] = pub[p] => Moves
    BY <1>1
  <1> QED
    BY <1>11, <1>12, <1>13, <1>15, <1>16 DEF Next

\* Where a client's step can take the handler of its PATCH.
LEMMA EditorMoves ==
    ASSUME IInv, [Next]_vars, NEW c \in Editors
    PROVE  /\ ed'[c].pc \in EdLocked =>
                 \/ AcceptEdit(c)
                 \/ /\ ed[c].pc \in EdLocked /\ ed'[c].name = ed[c].name
                    /\ ed'[c].seen = ed[c].seen /\ ed'[c].ann = ed[c].ann
           /\ ed[c].pc = "writeIdx" => ed'[c] = ed[c] \/ WriteIndex(c) \/ crashes' # 0 \/ faults' # 0
  <1>t. TypeOK /\ EdInv /\ ed \in [Editors -> EdType] /\ ed[c] \in EdType 
        /\ crashes \in Nat /\ faults \in Nat
    BY DEF IInv, TypeOK
  <1>g. \A step \in EdSteps : EdGoto(c, step) =>
           /\ ed'[c].pc = step /\ ed'[c].name = ed[c].name
           /\ ed'[c].seen = ed[c].seen /\ ed'[c].ann = ed[c].ann
    <2> SUFFICES ASSUME NEW step \in EdSteps, EdGoto(c, step)
                 PROVE  /\ ed'[c].pc = step /\ ed'[c].name = ed[c].name
                        /\ ed'[c].seen = ed[c].seen /\ ed'[c].ann = ed[c].ann
      OBVIOUS
    <2>1. ed'[c] = [ed[c] EXCEPT !.pc = step]
      BY <1>t, EdMoves
    <2> QED
      BY <2>1, <1>t DEF EdType
  <1> DEFINE Moves ==
        /\ ed'[c].pc \in EdLocked =>
              \/ AcceptEdit(c)
              \/ /\ ed[c].pc \in EdLocked /\ ed'[c].name = ed[c].name
                 /\ ed'[c].seen = ed[c].seen /\ ed'[c].ann = ed[c].ann
        /\ ed[c].pc = "writeIdx" => ed'[c] = ed[c] \/ WriteIndex(c) \/ crashes' # 0 \/ faults' # 0
  <1> SUFFICES Moves
    OBVIOUS
  <1> USE DEF EdAt, EdSteps, EdLocked
  <1>1. ed'[c] = ed[c] => Moves
    OBVIOUS
  <1>2. ASSUME NEW n \in Names, GetManifest(c, n)
        PROVE  Moves
    <2>1. ed'[c].pc = "idle" /\ ed[c].pc = "idle"
      BY <1>2, <1>t DEF GetManifest, EdType
    <2> QED
      BY <2>1
  <1>3. ASSUME NEW e \in Edits, SubmitEdit(c, e)
        PROVE  Moves
    <2>1. ed'[c].pc = "submitted" /\ ed[c].pc = "idle"
      BY <1>3, <1>t DEF SubmitEdit, EdType
    <2> QED
      BY <2>1
  <1>4. EditLockTimeout(c) \/ RejectEdit(c) \/ WriteAnnotation(c) \/ WriteManifest(c) => Moves
    BY <1>g DEF EditLockTimeout, RejectEdit, WriteAnnotation, WriteManifest
  <1>5. AcceptEdit(c) => Moves
    BY DEF AcceptEdit
  <1>6. ASSUME WriteIndex(c) PROVE Moves
    <2> DEFINE done == [NewEd EXCEPT !.name = ed[c].name, !.seen = ed[c].ann.hash]
    <2>1. done.pc = "idle"
      BY NewTypes DEF NewEd, EdType
    <2>2. ed' = [ed EXCEPT ![c] = done]
      BY <1>6 DEF WriteIndex
    <2> HIDE DEF done
    <2>3. ed'[c].pc = "idle"
      BY <2>1, <2>2, <1>t
    <2> QED
      BY <1>6, <2>3
  <1>7. ASSUME CrashServer PROVE Moves
    <2>1. crashes' = crashes + 1
      BY <1>7, Zenon DEF CrashServer
    <2> QED
      BY <1>7, <1>t, <2>1, CrashServerFacts
  <1>8. ASSUME NEW d \in Editors \ {c},
               (\E n \in Names : GetManifest(d, n)) \/ (\E e \in Edits : SubmitEdit(d, e))
                   \/ EditStep(d) \/ EditFails(d)
        PROVE  ed'[c] = ed[c]
    BY <1>8, <1>t DEF GetManifest, SubmitEdit, EditStep, EditLockTimeout, RejectEdit,
                AcceptEdit, WriteAnnotation, WriteManifest, WriteIndex, EdGoto, EditFails
  <1>9. ASSUME NEW p \in Annotators,
               (\E r \in Requests, force \in BOOLEAN : Start(p, r, force))
                   \/ PublishStep(p) \/ Fault(p) \/ CrashAnnotator(p)
        PROVE  ed' = ed
    BY <1>9 DEF Start, PublishStep, ResolveName, CheckReuse, MakeTmp, ClaimTmp,
                WriteArtifacts, GiveUp, AcquirePublishLock, Scavenge, RecheckReuse,
                HealIndex, BakeName, BackupFinal, BackupRefused, ClaimBak,
                InstallFinal, UpsertIndex, RemoveBak, Fault, CrashAnnotator
  <1>10. DayPasses \/ UNCHANGED vars => ed' = ed
    BY DEF DayPasses, vars
  <1>12. ASSUME EditFails(c) PROVE Moves
    <2>1. ed'[c].pc = "idle" /\ faults' = faults + 1
      BY <1>12, <1>t, EditFailsFacts
    <2> QED
      BY <1>t, <2>1
  <1> HIDE DEF Moves
  <1>11. (\E n \in Names : GetManifest(c, n)) \/ (\E e \in Edits : SubmitEdit(c, e))
            \/ EditStep(c) => Moves
    BY <1>2, <1>3, <1>4, <1>5, <1>6 DEF EditStep
  <1> QED
    BY <1>1, <1>7, <1>8, <1>9, <1>10, <1>11, <1>12 DEF Next

\* Nothing else than the versions of the runs found under its names is listed.
LEMMA ListedRunsStep ==
    ASSUME IInv, ListedRuns, [Next]_vars
    PROVE  ListedRuns'
  <1>t. /\ TypeOK /\ LockHeld /\ TmpInv /\ EdInv
        /\ runs \in [Names -> Run \cup {Absent}]
        /\ pub \in [Annotators -> PubType] /\ ed \in [Editors -> EdType]
    BY DEF IInv, TypeOK
  <1>1. ASSUME NEW n \in Names, runs'[n] # Absent
        PROVE  OwnName(runs'[n].man.req, n)
    <2>1. runs[n] # Absent => OwnName(runs[n].man.req, n)
      BY DEF ListedRuns
    <2>2. CASE runs'[n] = runs[n]
      BY <1>1, <2>1, <2>2
    <2>3. ASSUME NEW p \in Annotators, InstallFinal(p), runs'[n] # runs[n]
          PROVE  OwnName(runs'[n].man.req, n)
      <3>1. n = pub[p].name /\ runs'[n] = FreshRun(pub[p].req) /\ pub[p].req \in Requests
        BY <1>t, <2>3, InstallFacts
      <3>2. runs'[n].man = AutoHash(pub[p].req)
        BY <3>1, FreshRunFacts
      <3>3. OwnName(pub[p].req, n)
        BY <2>3, <3>1 DEF InstallFinal, At, ListedRuns
      <3> QED
        BY <3>2, <3>3 DEF AutoHash
    <2>4. ASSUME NEW c \in Editors, WriteAnnotation(c) \/ WriteManifest(c), runs'[n] # runs[n]
          PROVE  OwnName(runs'[n].man.req, n)
      <3>1. CASE WriteAnnotation(c)
        <4>1. n = ed[c].name
          BY <1>t, <2>4, <3>1, WriteAnnotationFacts
        <4>2. runs[n] \in Run /\ runs'[n].man = runs[n].man
          BY <1>t, <3>1, <4>1, WriteAnnotationFacts
        <4> QED
          BY <2>1, <4>2, SentinelAssumption DEF SentinelAssumption
      <3>2. CASE WriteManifest(c)
        <4>1. n = ed[c].name
          BY <1>t, <2>4, <3>2, WriteManifestFacts
        <4>2. runs[n] \in Run /\ runs'[n].man = DeriveHash(runs[n].man, ed[c].op)
          BY <1>t, <3>2, <4>1, WriteManifestFacts
        <4>3. runs'[n].man.req = runs[n].man.req
          BY <4>2 DEF DeriveHash
        <4> QED
          BY <2>1, <4>2, <4>3, SentinelAssumption DEF SentinelAssumption
      <3> QED
        BY <2>4, <3>1, <3>2
    <2>5. ASSUME NEW p \in Annotators, BackupFinal(p)
          PROVE  runs'[n] = runs[n]
      BY <1>1, <1>t, <2>5, BackupFacts
    <2> QED
      BY <2>2, <2>3, <2>4, <2>5, WhoWritesRuns
  <1>2. ASSUME NEW p \in Annotators
        PROVE  /\ pub'[p].pc \notin {"none", "resolve"} => OwnName(pub'[p].req, pub'[p].name)
               /\ pub'[p].pc \in {"heal", "upsert"} =>
                     /\ runs'[pub'[p].name] # Absent
                     /\ runs'[pub'[p].name].man = AutoHash(pub'[p].req)
    <2>1. pub'[p].pc \notin {"none", "resolve"} => OwnName(pub'[p].req, pub'[p].name)
      BY PublisherMoves DEF ListedRuns
    <2>2. CASE pub'[p] = pub[p] /\ pub[p].pc \in {"heal", "upsert"}
      <3>1. lock = p /\ p \notin Editors
        BY <1>t, <2>2, DistinctAssumption DEF LockHeld, PubLocked, DistinctAssumption
      <3>2. ~BackupFinal(p) /\ ~InstallFinal(p)
        BY <2>2 DEF BackupFinal, InstallFinal, At
      <3>3. runs' = runs
        BY <3>1, <3>2, WhoWritesRuns
      <3> QED
        BY <2>1, <2>2, <3>3 DEF ListedRuns
    <2>3. CASE RecheckReuse(p) /\ Reusable(p)
      <3>1. /\ runs' = runs /\ pub'[p].name = pub[p].name /\ pub'[p].req = pub[p].req
            /\ pub[p].name \in Names /\ pub[p].req \in Requests
        <4>1. Goto(p, "heal") /\ runs' = runs
          BY <2>3 DEF RecheckReuse
        <4>2. pub'[p] = [pub[p] EXCEPT !.pc = "heal"]
          BY <1>t, <4>1, PubMoves DEF PubSteps
        <4> QED
          BY <1>t, <4>1, <4>2 DEF PubType
      <3>2. ExistingHash(runs[pub[p].name]) = AutoHash(pub[p].req)
        BY <2>3 DEF Reusable
      <3>3. AutoHash(pub[p].req) # Absent
        <4>1. AutoHash(pub[p].req) \in Hash
          BY <3>1 DEF AutoHash, Hash
        <4> QED
          BY <4>1, SentinelAssumption DEF SentinelAssumption
      <3>4. runs[pub[p].name] # Absent /\ runs[pub[p].name].man = AutoHash(pub[p].req)
        BY <3>2, <3>3 DEF ExistingHash
      <3> QED
        BY <2>1, <3>1, <3>4
    <2>4. CASE InstallFinal(p)
      <3>1. /\ pub'[p].name = pub[p].name /\ pub'[p].req = pub[p].req
            /\ pub[p].name \in Names /\ pub[p].req \in Requests
        <4>1. Goto(p, "upsert")
          BY <2>4 DEF InstallFinal
        <4>2. pub'[p] = [pub[p] EXCEPT !.pc = "upsert"]
          BY <1>t, <4>1, PubMoves DEF PubSteps
        <4> QED
          BY <1>t, <4>2 DEF PubType
      <3>2. runs'[pub[p].name] = FreshRun(pub[p].req)
        <4>1. TmpOf(p).run = FreshRun(pub[p].req)
          BY <1>t, <2>4 DEF InstallFinal, At, TmpInv, TmpKept, PubFilled
        <4> QED
          BY <1>t, <2>4, <3>1, <4>1 DEF InstallFinal
      <3> QED
        BY <2>1, <3>1, <3>2, FreshRunFacts
    <2> QED
      BY <2>1, <2>2, <2>3, <2>4, PublisherMoves
  <1>3. ASSUME NEW c \in Editors, ed'[c].pc \in EdLocked
        PROVE  ed'[c].seen # Absent /\ ed'[c].ann.hash.req = ed'[c].seen.req
    <2>1. CASE AcceptEdit(c)
      <3>1. /\ runs[ed[c].name] \in Run /\ ed[c].seen = runs[ed[c].name].man
            /\ ed'[c].seen = ed[c].seen
            /\ ed'[c].ann = EditAnnotation(runs[ed[c].name].ann, ed[c].op,
                                           DeriveHash(runs[ed[c].name].man, ed[c].op))
        BY <1>t, <2>1, AcceptEditFacts
      <3>2. ed[c].seen \in Hash
        BY <3>1 DEF Run
      <3>3. ed'[c].ann.hash = DeriveHash(runs[ed[c].name].man, ed[c].op)
        <4>1. \A a, e, h : EditAnnotation(a, e, h).hash = h
          BY DEF EditAnnotation
        <4> QED
          BY <3>1, <4>1
      <3>4. ed'[c].ann.hash.req = ed[c].seen.req
        <4>1. \A h, e : DeriveHash(h, e).req = h.req
          BY DEF DeriveHash
        <4> QED
          BY <3>1, <3>3, <4>1
      <3> QED
        BY <3>1, <3>2, <3>4, SentinelAssumption DEF SentinelAssumption
    <2>2. CASE /\ ed[c].pc \in EdLocked /\ ed'[c].seen = ed[c].seen /\ ed'[c].ann = ed[c].ann
      BY <2>2 DEF ListedRuns
    <2> QED
      BY <1>3, <2>1, <2>2, EditorMoves
  <1> QED
    BY <1>1, <1>2, <1>3 DEF ListedRuns

\* Three steps write to the index.
LEMMA WhoWritesIndex ==
    ASSUME [Next]_vars
    PROVE  \/ index' = index
           \/ \E p \in Annotators : UpsertIndex(p) \/ HealIndex(p)
           \/ \E c \in Editors : WriteIndex(c)
  <1>1. ASSUME NEW p \in Annotators,
               \/ \E r \in Requests, force \in BOOLEAN : Start(p, r, force)
               \/ PublishStep(p) \/ Fault(p) \/ CrashAnnotator(p),
               ~UpsertIndex(p), ~HealIndex(p)
        PROVE  index' = index
    BY <1>1 DEF Start, PublishStep, ResolveName, CheckReuse, MakeTmp, ClaimTmp,
                WriteArtifacts, GiveUp, AcquirePublishLock, Scavenge, RecheckReuse,
                BakeName, BackupFinal, BackupRefused, ClaimBak,
                InstallFinal, RemoveBak, Fault, CrashAnnotator
  <1>2. ASSUME NEW c \in Editors,
               (\E n \in Names : GetManifest(c, n)) \/ (\E e \in Edits : SubmitEdit(c, e))
                   \/ EditStep(c) \/ EditFails(c),
               ~WriteIndex(c)
        PROVE  index' = index
    BY <1>2 DEF GetManifest, SubmitEdit, EditStep, EditLockTimeout, RejectEdit,
                AcceptEdit, WriteAnnotation, WriteManifest, EditFails
  <1>3. CrashServer \/ DayPasses \/ UNCHANGED vars => index' = index
    BY DEF CrashServer, DayPasses, vars
  <1> QED
    BY <1>1, <1>2, <1>3, Zenon DEF Next

\* Whoever holds the lock is the only one that replaces a run or is to list one.
LEMMA OneAtATime ==
    ASSUME LockHeld
    PROVE  /\ \A p \in Annotators : lock = p =>
                 /\ \A q \in Annotators, n \in Names :
                       Replacing(q, n) => q = p
                 /\ \A n \in Names :
                       BeingListed(n) => pub[p].pc = "upsert" /\ n = pub[p].name
           /\ \A c \in Editors : lock = c =>
                 /\ \A q \in Annotators, n \in Names : ~Replacing(q, n)
                 /\ \A n \in Names :
                       BeingListed(n) => ed[c].pc = "writeIdx" /\ n = ed[c].name
  <1>1. /\ \A q \in Annotators, n \in Names : Replacing(q, n) => lock = q
        /\ \A n \in Names : BeingListed(n) =>
              \/ \E q \in Annotators : lock = q /\ pub[q].pc = "upsert" /\ n = pub[q].name
              \/ \E d \in Editors : lock = d /\ ed[d].pc = "writeIdx" /\ n = ed[d].name
    BY DEF LockHeld, Replacing, BeingListed, At, EdAt, PubLocked, EdLocked
  <1> QED
    BY <1>1, DistinctAssumption DEF DistinctAssumption

\* As long as nothing fails, who replaces or is to list a run goes on to do so.
LEMMA ListingGoesOn ==
    ASSUME IInv, [Next]_vars, crashes' = 0, faults' = 0,
           \A p \in Annotators : ~InstallFinal(p) /\ ~UpsertIndex(p),
           \A c \in Editors : ~WriteIndex(c)
    PROVE  /\ \A p \in Annotators, n \in Names :
                 Replacing(p, n) => Replacing(p, n)' /\ pub'[p].req = pub[p].req
           /\ \A n \in Names : BeingListed(n) => BeingListed(n)'
  <1>1. ASSUME NEW p \in Annotators, NEW n \in Names, Replacing(p, n)
        PROVE  /\ pub'[p].pc \in {"bakmeta", "install"} /\ pub'[p].name = n
               /\ pub'[p].req = pub[p].req
    <2>1. pub[p].pc \in {"bakmeta", "install"} /\ pub[p].name = n
      BY <1>1 DEF Replacing
    <2>2. \/ pub'[p] = pub[p]
          \/ pub'[p].pc = "install" /\ pub'[p].name = pub[p].name /\ pub'[p].req = pub[p].req
      BY <2>1, PublisherMoves
    <2> QED
      BY <2>1, <2>2
  <1>2. ASSUME NEW n \in Names, BeingListed(n)
        PROVE  \/ \E p \in Annotators : pub'[p].pc = "upsert" /\ pub'[p].name = n
               \/ \E c \in Editors : ed'[c].pc = "writeIdx" /\ ed'[c].name = n
    <2>1. \A p \in Annotators : pub[p].pc = "upsert" => pub'[p] = pub[p]
      BY PublisherMoves
    <2>2. \A c \in Editors : ed[c].pc = "writeIdx" => ed'[c] = ed[c]
      BY EditorMoves
    <2> QED
      BY <1>2, <2>1, <2>2 DEF BeingListed, At, EdAt
  <1> QED
    BY <1>1, <1>2 DEF Replacing, BeingListed, At, EdAt

\* final -> bak: the rows of the run lead to the publisher that replaces it.  The
\* run it takes away is one of its own request, unless two requests share a name.
LEMMA BackupIndexed ==
    ASSUME IInv, ListedRuns, RowsLead, RunsListed, [Next]_vars,
           crashes' = 0, faults' = 0, index' = index,
           NEW p \in Annotators, BackupFinal(p), runs[pub[p].name] # Absent
    PROVE  RowsLead' /\ RunsListed'
  <1> DEFINE n0 == pub[p].name
             r0 == pub[p].req
  <1>t. /\ TypeOK /\ LockHeld /\ n0 \in Names /\ r0 \in Requests
        /\ runs \in [Names -> Run \cup {Absent}] /\ pub \in [Annotators -> PubType]
    BY DEF IInv, TypeOK, PubType
  <1>1. /\ pub' = [pub EXCEPT ![p].pc = "bakmeta", ![p].bak = TRUE]
        /\ runs' = [runs EXCEPT ![n0] = Absent] /\ pub[p].pc = "backup"
    BY DEF BackupFinal, At
  <1>2. pub'[p].pc = "bakmeta" /\ pub'[p].name = n0 /\ pub'[p].req = r0
    BY <1>t, <1>1 DEF PubType
  <1>3. \A n \in Names \ {n0} : runs'[n] = runs[n]
    BY <1>t, <1>1
  <1>4. /\ \A q \in Annotators : ~InstallFinal(q) /\ ~UpsertIndex(q)
        /\ \A c \in Editors : ~WriteIndex(c)
    <2>1. lock = p /\ p \notin Editors
      BY <1>t, <1>1, DistinctAssumption DEF LockHeld, PubLocked, DistinctAssumption
    <2>2. \A q \in Annotators : pub[q].pc \in {"install", "upsert"} => q = p
      BY <1>t, <2>1 DEF LockHeld, PubLocked
    <2> QED
      BY <1>t, <1>1, <2>1, <2>2 DEF InstallFinal, UpsertIndex, WriteIndex, At, EdAt, LockHeld, EdLocked
  <1>5. /\ \A q \in Annotators, n \in Names :
              Replacing(q, n) => Replacing(q, n)' /\ pub'[q].req = pub[q].req
        /\ \A n \in Names : BeingListed(n) => BeingListed(n)'
    BY <1>4, ListingGoesOn
  <1>6. RowsLead'
    <2> SUFFICES ASSUME NEW row \in index
                 PROVE  runs'[row.name] # Absent \/ \E q \in Annotators : Replacing(q, row.name)'
      BY Zenon DEF RowsLead
    <2>1. row.name \in Names
      BY <1>t DEF TypeOK, Row
    <2>2. CASE row.name = n0
      BY <1>2, <2>2 DEF Replacing
    <2>3. CASE row.name # n0
      BY <1>3, <1>5, <2>1, <2>3 DEF RowsLead
    <2> QED
      BY <2>2, <2>3
  <1>7. RunsListed'
    <2> SUFFICES ASSUME NamesAreOwn, NEW n \in Names, runs'[n] # Absent
                 PROVE  Listed(n)' \/ BeingListed(n)' \/ OtherRun(runs[n].man.req, n)'
      BY Zenon DEF RunsListed, NamesAreOwn, OwnName
    <2>1. n # n0 /\ runs'[n] = runs[n]
      BY <1>t, <1>1, <1>3
    <2>2. CASE Listed(n)
      BY <2>1, <2>2 DEF Listed
    <2>3. CASE BeingListed(n)
      BY <1>5, <2>3
    <2>4. ASSUME NEW m \in Names \ {n}, runs[m] # Absent, runs[m].man.req = runs[n].man.req
          PROVE  OtherRun(runs[n].man.req, n)'
      <3>1. CASE m # n0
        BY <1>3, <2>1, <2>4, <3>1 DEF OtherRun
      <3>2. CASE m = n0
        <4>1. OwnName(runs[n0].man.req, n0) /\ OwnName(r0, n0)
          BY <1>t, <1>1 DEF ListedRuns
        <4>2. runs[n0].man.req \in Requests
          BY <1>t DEF Run, Hash
        <4>3. runs[n0].man.req = r0
          BY <1>t, <2>1, <4>1, <4>2 DEF NamesAreOwn
        <4> QED
          BY <1>2, <2>1, <2>4, <3>2, <4>3 DEF OtherRun, Replacing
      <3> QED
        BY <3>1, <3>2
    <2>5. ASSUME NEW m \in Names \ {n}, NEW q \in Annotators,
                 Replacing(q, m), pub[q].req = runs[n].man.req
          PROVE  OtherRun(runs[n].man.req, n)'
      BY <1>5, <2>1, <2>5 DEF OtherRun
    <2> QED
      BY <2>1, <2>2, <2>3, <2>4, <2>5 DEF RunsListed, OtherRun
  <1> QED
    BY <1>6, <1>7

\* tmp -> final: the publisher is about to list its run.
LEMMA InstallIndexed ==
    ASSUME IInv, RowsLead, RunsListed, NEW p \in Annotators, InstallFinal(p)
    PROVE  RowsLead' /\ RunsListed'
  <1> DEFINE n0 == pub[p].name
             r0 == pub[p].req
  <1>t. /\ TypeOK /\ LockHeld /\ TmpInv /\ FinalInv /\ n0 \in Names /\ r0 \in Requests
        /\ runs \in [Names -> Run \cup {Absent}] /\ pub \in [Annotators -> PubType]
    BY DEF IInv, TypeOK, PubType
  <1>1. pub[p].pc = "install" /\ Goto(p, "upsert") /\ index' = index
        /\ runs' = [runs EXCEPT ![n0] = TmpOf(p).run]
    BY DEF InstallFinal, At
  <1>2. runs[n0] = Absent /\ lock = p
    BY <1>t, <1>1 DEF FinalInv, LockHeld, PubLocked
  <1>3. /\ runs'[n0] # Absent /\ runs'[n0].man.req = r0
        /\ \A n \in Names \ {n0} : runs'[n] = runs[n]
    <2>1. TmpOf(p).run = FreshRun(r0)
      BY <1>t, <1>1 DEF TmpInv, TmpKept, PubFilled
    <2>2. FreshRun(r0) # Absent /\ FreshRun(r0).man.req = r0
      <3>1. FreshRun(r0) # Absent /\ FreshRun(r0).man = AutoHash(r0)
        BY <1>t, FreshRunFacts
      <3>2. AutoHash(r0).req = r0
        BY DEF AutoHash
      <3> QED
        BY <3>1, <3>2
    <2> QED
      BY <1>t, <1>1, <2>1, <2>2
  <1>4. pub'[p].pc = "upsert" /\ pub'[p].name = n0
    <2>1. pub'[p] = [pub[p] EXCEPT !.pc = "upsert"]
      BY <1>t, <1>1, PubMoves DEF PubSteps
    <2> QED
      BY <1>t, <2>1 DEF PubType
  <1>5. /\ \A q \in Annotators, n \in Names : Replacing(q, n) => q = p /\ n = n0
        /\ \A n \in Names : ~BeingListed(n)
    BY <1>t, <1>1, <1>2, OneAtATime DEF Replacing
  <1>6. RowsLead'
    <2> SUFFICES ASSUME NEW row \in index
                 PROVE  runs'[row.name] # Absent
      BY <1>1, Zenon DEF RowsLead
    <2>1. row.name \in Names
      BY <1>t DEF TypeOK, Row
    <2> QED
      BY <1>3, <1>5, <2>1 DEF RowsLead
  <1>7. RunsListed'
    <2> SUFFICES ASSUME NamesAreOwn, NEW n \in Names, runs'[n] # Absent
                 PROVE  Listed(n)' \/ BeingListed(n)' \/ OtherRun(runs[n].man.req, n)'
      BY Zenon DEF RunsListed, NamesAreOwn, OwnName
    <2>1. CASE n = n0
      BY <1>4, <2>1 DEF BeingListed, At
    <2>2. CASE n # n0
      <3>1. runs'[n] = runs[n] /\ ~BeingListed(n)
        BY <1>3, <1>5, <2>2
      <3>2. CASE Listed(n)
        BY <1>1, <3>1, <3>2 DEF Listed
      <3>3. ASSUME NEW m \in Names \ {n}, runs[m] # Absent, runs[m].man.req = runs[n].man.req
            PROVE  OtherRun(runs[n].man.req, n)'
        BY <1>2, <1>3, <3>1, <3>3 DEF OtherRun
      <3>4. ASSUME NEW m \in Names \ {n}, NEW q \in Annotators,
                   Replacing(q, m), pub[q].req = runs[n].man.req
            PROVE  OtherRun(runs[n].man.req, n)'
        BY <1>3, <1>5, <3>1, <3>4 DEF OtherRun
      <3> QED
        BY <2>2, <3>1, <3>2, <3>3, <3>4 DEF RunsListed, OtherRun
    <2> QED
      BY <2>1, <2>2
  <1> QED
    BY <1>6, <1>7

\* A row is written for the run under n0, which is at version h, in the place of
\* the rows of a version h0 of the same request: the runs that were listed by
\* those have another run of their request, the one under n0.
LEMMA RowWritten ==
    ASSUME TypeOK, RowsLead, RunsListed, NEW n0 \in Names, NEW h, NEW h0,
           runs' = runs, runs[n0] # Absent, runs[n0].man = h, h.req = h0.req,
           index' = {row \in index : row.hash # h0} \cup {[hash |-> h, name |-> n0]},
           \A q \in Annotators, n \in Names : ~Replacing(q, n),
           \A n \in Names : BeingListed(n) => n = n0
    PROVE  RowsLead' /\ RunsListed'
  <1>1. RowsLead'
    <2> SUFFICES ASSUME NEW row \in index'
                 PROVE  runs[row.name] # Absent
      BY Zenon DEF RowsLead
    <2>1. CASE row = [hash |-> h, name |-> n0]
      BY <2>1
    <2>2. CASE row \in index
      <3>1. row.name \in Names
        BY <2>2 DEF TypeOK, Row
      <3> QED
        BY <2>2, <3>1 DEF RowsLead
    <2> QED
      BY <2>1, <2>2
  <1>2. RunsListed'
    <2> SUFFICES ASSUME NamesAreOwn, NEW n \in Names, runs[n] # Absent
                 PROVE  Listed(n)' \/ OtherRun(runs[n].man.req, n)'
      BY Zenon DEF RunsListed, NamesAreOwn, OwnName
    <2>1. CASE n = n0
      BY <2>1 DEF Listed
    <2>2. ASSUME NEW m \in Names \ {n}, runs[m] # Absent, runs[m].man.req = runs[n].man.req
          PROVE  OtherRun(runs[n].man.req, n)'
      BY <2>2 DEF OtherRun
    <2>3. CASE n # n0 /\ Listed(n)
      <3>1. CASE runs[n].man = h0
        BY <2>2, <2>3, <3>1
      <3>2. CASE runs[n].man # h0
        BY <2>3, <3>2 DEF Listed
      <3> QED
        BY <3>1, <3>2
    <2> QED
      BY <2>1, <2>2, <2>3 DEF RunsListed, OtherRun
  <1> QED
    BY <1>1, <1>2

\* Every other step leaves the rows, which runs there are and their versions.
LEMMA NothingListed ==
    ASSUME IInv, RowsLead, RunsListed, [Next]_vars, crashes' = 0, faults' = 0,
           \A p \in Annotators : ~InstallFinal(p) /\ ~UpsertIndex(p),
           \A c \in Editors : ~WriteIndex(c),
           index' = index,
           \A n \in Names : (runs'[n] = Absent) = (runs[n] = Absent),
           \A n \in Names : \/ runs'[n].man = runs[n].man
                            \/ BeingListed(n)' /\ runs'[n].man.req = runs[n].man.req
    PROVE  RowsLead' /\ RunsListed'
  <1>1. /\ \A p \in Annotators, n \in Names :
              Replacing(p, n) => Replacing(p, n)' /\ pub'[p].req = pub[p].req
        /\ \A n \in Names : BeingListed(n) => BeingListed(n)'
    BY ListingGoesOn
  <1>2. RowsLead'
    <2> SUFFICES ASSUME NEW row \in index
                 PROVE  runs'[row.name] # Absent \/ \E p \in Annotators : Replacing(p, row.name)'
      BY Zenon DEF RowsLead
    <2>1. row.name \in Names
      BY DEF IInv, TypeOK, Row
    <2> QED
      BY <1>1, <2>1 DEF RowsLead
  <1>3. RunsListed'
    <2> SUFFICES ASSUME NamesAreOwn, NEW n \in Names, runs'[n] # Absent
                 PROVE  Listed(n)' \/ BeingListed(n)' \/ OtherRun(runs[n].man.req, n)'
      BY Zenon DEF RunsListed, NamesAreOwn, OwnName
    <2>1. CASE BeingListed(n)'
      BY <2>1
    <2>2. CASE runs'[n].man = runs[n].man
      <3>1. CASE Listed(n)
        BY <2>2, <3>1 DEF Listed
      <3>2. CASE BeingListed(n)
        BY <1>1, <3>2
      <3>3. ASSUME NEW m \in Names \ {n}, runs[m] # Absent, runs[m].man.req = runs[n].man.req
            PROVE  OtherRun(runs[n].man.req, n)'
        <4>1. runs'[m] # Absent /\ runs'[m].man.req = runs'[n].man.req
          BY <2>2, <3>3
        <4> QED
          BY <3>3, <4>1 DEF OtherRun
      <3>4. ASSUME NEW m \in Names \ {n}, NEW q \in Annotators,
                   Replacing(q, m), pub[q].req = runs[n].man.req
            PROVE  OtherRun(runs[n].man.req, n)'
        BY <1>1, <2>2, <3>4 DEF OtherRun
      <3> QED
        BY <3>1, <3>2, <3>3, <3>4 DEF RunsListed, OtherRun
    <2> QED
      BY <2>1, <2>2
  <1> QED
    BY <1>2, <1>3

\* Every step keeps the index invariant.
LEMMA IndexStep ==
    ASSUME IInv, ListedRuns, IndexInv, [Next]_vars
    PROVE  IndexInv'
  <1> SUFFICES ASSUME crashes' = 0, faults' = 0
               PROVE  RowsLead' /\ RunsListed'
    BY DEF IndexInv
  <1>t. /\ TypeOK /\ LockHeld /\ EdInv /\ RowsLead /\ RunsListed
        /\ runs \in [Names -> Run \cup {Absent}]
        /\ pub \in [Annotators -> PubType] /\ ed \in [Editors -> EdType]
    BY FailuresCount DEF IInv, TypeOK, IndexInv
  <1>1. ASSUME NEW p \in Annotators, InstallFinal(p)
        PROVE  RowsLead' /\ RunsListed'
    BY <1>1, <1>t, InstallIndexed
  <1>2. ASSUME NEW p \in Annotators, UpsertIndex(p) \/ HealIndex(p)
        PROVE  RowsLead' /\ RunsListed'
    <2> DEFINE n0 == pub[p].name
               h == AutoHash(pub[p].req)
    <2>1. /\ pub[p].pc \in {"heal", "upsert"} /\ runs' = runs
          /\ UpsertRow(AutoHash(pub[p].req), pub[p].name)
      BY <1>2 DEF UpsertIndex, HealIndex, At
    <2>2. n0 \in Names /\ runs[n0] # Absent /\ runs[n0].man = h
      BY <1>t, <2>1 DEF ListedRuns, PubType
    <2>3. /\ \A q \in Annotators, n \in Names : ~Replacing(q, n)
          /\ \A n \in Names : BeingListed(n) => n = n0
      <3>1. lock = p
        BY <1>t, <2>1 DEF LockHeld, PubLocked
      <3> QED
        BY <1>t, <2>1, <3>1, OneAtATime DEF Replacing
    <2>4. index' = {row \in index : row.hash # h} \cup {[hash |-> h, name |-> n0]}
      BY <2>1 DEF UpsertRow
    <2> HIDE DEF n0, h
    <2> QED
      BY <1>t, <2>1, <2>2, <2>3, <2>4, RowWritten
  <1>3. ASSUME NEW c \in Editors, WriteIndex(c)
        PROVE  RowsLead' /\ RunsListed'
    <2> DEFINE n0 == ed[c].name
               h == ed[c].ann.hash
               h0 == ed[c].seen
    <2>1. /\ ed[c].pc = "writeIdx" /\ runs' = runs
          /\ index' = {row \in index : row.hash # h0} \cup {[hash |-> h, name |-> n0]}
      BY <1>3 DEF WriteIndex, EdAt
    <2>2. n0 \in Names /\ runs[n0] # Absent /\ runs[n0].man = h /\ h.req = h0.req
      BY <1>t, <2>1 DEF EdInv, EdKept, EdAt, EdType, ListedRuns, EdLocked
    <2>3. /\ \A q \in Annotators, n \in Names : ~Replacing(q, n)
          /\ \A n \in Names : BeingListed(n) => n = n0
      <3>1. lock = c
        BY <1>t, <2>1 DEF LockHeld, EdLocked
      <3> QED
        BY <1>t, <3>1, OneAtATime
    <2> HIDE DEF n0, h, h0
    <2> QED
      BY <1>t, <2>1, <2>2, <2>3, RowWritten
  <1>4. ASSUME \A p \in Annotators : ~InstallFinal(p) /\ ~UpsertIndex(p) /\ ~HealIndex(p),
               \A c \in Editors : ~WriteIndex(c)
        PROVE  RowsLead' /\ RunsListed'
    <2>1. index' = index
      BY <1>4, WhoWritesIndex
    <2>2. ASSUME NEW p \in Annotators, BackupFinal(p), runs' # runs
          PROVE  RowsLead' /\ RunsListed'
      <3>1. runs[pub[p].name] # Absent
        BY <2>2 DEF BackupFinal
      <3> QED
        BY <1>t, <2>1, <2>2, <3>1, BackupIndexed
    <2>3. ASSUME NEW c \in Editors, WriteAnnotation(c)
          PROVE  RowsLead' /\ RunsListed'
      <3> DEFINE n0 == ed[c].name
      <3>1. /\ n0 \in Names /\ runs[n0] \in Run /\ runs'[n0] \in Run
            /\ runs'[n0].man = runs[n0].man
            /\ \A m \in Names \ {n0} : runs'[m] = runs[m]
        BY <1>t, <2>3, WriteAnnotationFacts
      <3>2. \A n \in Names : /\ (runs'[n] = Absent) = (runs[n] = Absent)
                             /\ runs'[n].man = runs[n].man
        BY <3>1, SentinelAssumption DEF SentinelAssumption
      <3> QED
        BY <1>t, <1>4, <2>1, <3>2, NothingListed
    <2>4. ASSUME NEW c \in Editors, WriteManifest(c)
          PROVE  RowsLead' /\ RunsListed'
      <3> DEFINE n0 == ed[c].name
      <3>1. /\ n0 \in Names /\ runs[n0] \in Run /\ runs'[n0] \in Run
            /\ runs'[n0].man = ed[c].ann.hash
            /\ ed[c].ann.hash = DeriveHash(runs[n0].man, ed[c].op)
            /\ \A m \in Names \ {n0} : runs'[m] = runs[m]
            /\ ed'[c] = [ed[c] EXCEPT !.pc = "writeIdx"]
        BY <1>t, <2>4, WriteManifestFacts
      <3>2. ed'[c].pc = "writeIdx" /\ ed'[c].name = n0
        BY <1>t, <3>1 DEF EdType
      <3>3. runs'[n0].man.req = runs[n0].man.req
        BY <3>1 DEF DeriveHash
      <3>4. ASSUME NEW n \in Names
            PROVE  /\ (runs'[n] = Absent) = (runs[n] = Absent)
                   /\ \/ runs'[n].man = runs[n].man
                      \/ BeingListed(n)' /\ runs'[n].man.req = runs[n].man.req
        <4>1. CASE n = n0
          BY <3>1, <3>2, <3>3, <4>1, SentinelAssumption
          DEF SentinelAssumption, BeingListed, EdAt
        <4>2. CASE n # n0
          BY <3>1, <4>2
        <4> QED
          BY <4>1, <4>2
      <3> QED
        BY <1>t, <1>4, <2>1, <3>4, NothingListed
    <2>5. CASE runs' = runs
      BY <1>t, <1>4, <2>1, <2>5, NothingListed
    <2> QED
      BY <1>4, <2>2, <2>3, <2>4, <2>5, WhoWritesRuns
  <1> QED
    BY <1>1, <1>2, <1>3, <1>4

\* As long as nothing is killed and nothing raises under the lock, index.json agrees
\* with the directories whenever the lock is free: no row points to a run that is
\* not there, and if no two requests share a name, the version of every run that
\* is the only one of its request is listed under its name.
THEOREM IndexListsTheRuns == Spec => []IndexMatchesRuns
  <1>1. Init => ListedRuns /\ IndexInv
    <2> SUFFICES ASSUME Init PROVE ListedRuns /\ IndexInv
      OBVIOUS
    <2>1. /\ \A n \in Names : runs[n] = Absent
          /\ \A p \in Annotators : pub[p].pc = "none"
          /\ \A c \in Editors : ed[c].pc = "idle"
          /\ index = {}
      BY DEF Init, NewEd, NewPub
    <2> QED
      BY <2>1 DEF ListedRuns, EdLocked, IndexInv, RowsLead, RunsListed
  <1>2. IInv /\ ListedRuns /\ IndexInv /\ [Next]_vars => ListedRuns' /\ IndexInv'
    BY ListedRunsStep, IndexStep
  <1>3. IInv /\ ListedRuns /\ IndexInv => IndexMatchesRuns
    <2> SUFFICES ASSUME IInv, ListedRuns, IndexInv, lock = Free, crashes = 0, faults = 0
                 PROVE  /\ \A row \in index : runs[row.name] # Absent
                        /\ NamesAreOwn =>
                              \A n \in Names : runs[n] # Absent /\ OnlyRunOf(n) => Listed(n)
      BY Zenon DEF IndexMatchesRuns, Listed
    <2>1. /\ RowsLead /\ RunsListed
          /\ index \in SUBSET Row
      BY DEF IndexInv, IInv, TypeOK
    <2>2. /\ \A p \in Annotators, n \in Names : ~Replacing(p, n)
          /\ \A n \in Names : ~BeingListed(n)
      BY DistinctAssumption DEF IInv, LockHeld, DistinctAssumption, Replacing,
         BeingListed, At, EdAt, PubLocked, EdLocked
    <2>3. \A row \in index : runs[row.name] # Absent
      BY <2>1, <2>2 DEF RowsLead, Row
    <2>4. ASSUME NamesAreOwn, NEW n \in Names, runs[n] # Absent, OnlyRunOf(n)
          PROVE  Listed(n)
      <3>1. ~OtherRun(runs[n].man.req, n)
        BY <2>2, <2>4 DEF OtherRun, OnlyRunOf
      <3> QED
        BY <2>1, <2>2, <2>4, <3>1 DEF RunsListed
    <2> QED
      BY <2>3, <2>4
  <1> QED
    BY <1>1, <1>2, <1>3, Invariance, PTL DEF Spec

-----------------------------------------------------------------------------
(***************************************************************************)
(* The run store implements EditRegister: an edit commits only on the      *)
(* version its client holds, for any number of clients and publishers and  *)
(* any kills.                                                              *)
(***************************************************************************)
\* The mapping of EditsAreCompareAndAppend.
VersionNow == [n \in Names |-> ExistingHash(runs[n])]
HeldNow == [c \in Editors |-> [name |-> ed[c].name, version |-> ed[c].seen]]

\* A name holds a version exactly when there is a run under it.
LEMMA VersionFacts ==
    ASSUME TypeOK, NEW n \in Names
    PROVE  /\ VersionNow[n] = ExistingHash(runs[n])
           /\ VersionNow[n] = Absent <=> runs[n] = Absent
           /\ runs[n] # Absent => VersionNow[n] = runs[n].man
  <1>1. runs[n] # Absent => runs[n].man \in Hash
    BY DEF TypeOK, Run
  <1>2. QED
    BY <1>1, SentinelAssumption DEF VersionNow, ExistingHash, SentinelAssumption

\* Clients that keep what they hold are the same in the register.
LEMMA HeldUnchanged ==
    ASSUME \A c \in Editors : ed'[c].name = ed[c].name /\ ed'[c].seen = ed[c].seen
    PROVE  UNCHANGED HeldNow
  BY DEF HeldNow

\* A client that learns the version of a run reads the register.
LEMMA HeldAfterRead ==
    ASSUME NEW c \in Editors, NEW n \in Names, NEW v,
           ed'[c].name = n, ed'[c].seen = v,
           \A d \in Editors \ {c} : ed'[d] = ed[d]
    PROVE  HeldNow' = [HeldNow EXCEPT ![c] = [name |-> n, version |-> v]]
  BY DEF HeldNow

\* Without a writer to runs, the versions stay.
LEMMA VersionUnchanged ==
    ASSUME \A n \in Names : ExistingHash(runs'[n]) = ExistingHash(runs[n])
    PROVE  UNCHANGED VersionNow
  BY DEF VersionNow, ExistingHash

\* One name gets another version.
LEMMA VersionAfterWrite ==
    ASSUME NEW n \in Names, \A m \in Names \ {n} : runs'[m] = runs[m]
    PROVE  VersionNow' = [VersionNow EXCEPT ![n] = ExistingHash(runs'[n])]
  BY DEF VersionNow, ExistingHash

-----------------------------------------------------------------------------
\* Initially nothing is published and nobody holds anything.
LEMMA RegisterInit == Init => Register!Init
  <1> SUFFICES ASSUME Init PROVE Register!Init
    OBVIOUS
  <1>1. VersionNow = [n \in Names |-> Absent]
    BY DEF Init, VersionNow, ExistingHash
  <1>2. \A c \in Editors : ed[c].name \in Names /\ ed[c].seen = Absent
    BY NewTypes DEF Init, NewEd, EdType
  <1>3. HeldNow \in [Editors -> [name : Names, version : {Absent}]]
    BY <1>2 DEF HeldNow
  <1>4. QED
    BY <1>1, <1>3 DEF Register!Init, VersionNow, HeldNow

\* A client's GET of a manifest, and the answer to its PATCH, read the register.
LEMMA ReadStep ==
    ASSUME TypeOK, NEW c \in Editors, NEW n \in Names, UNCHANGED runs,
           runs[n] # Absent, ed'[c].name = n, ed'[c].seen = runs[n].man,
           \A d \in Editors \ {c} : ed'[d] = ed[d]
    PROVE  Register!Next
  <1>1. VersionNow' = VersionNow
    BY VersionUnchanged
  <1>2. VersionNow[n] # Absent /\ VersionNow[n] = runs[n].man
    BY VersionFacts
  <1>3. HeldNow' = [HeldNow EXCEPT ![c] = [name |-> n, version |-> VersionNow[n]]]
    BY <1>2, HeldAfterRead
  <1>4. Register!Read(c, n)
    BY <1>1, <1>2, <1>3 DEF Register!Read, VersionNow, HeldNow
  <1>5. QED
    BY <1>4 DEF Register!Next

\* The manifest's write commits the edit.
LEMMA CommitStep ==
    ASSUME IInv, NEW c \in Editors, WriteManifest(c)
    PROVE  Register!Next
  <1> DEFINE n == ed[c].name
  <1>1. /\ TypeOK /\ ed[c] \in EdType
        /\ n \in Names /\ runs[n] \in Run /\ runs'[n] \in Run
        /\ runs[n].man = ed[c].seen
        /\ ed[c].ann.hash = DeriveHash(runs[n].man, ed[c].op) /\ ed[c].op \in Edits
        /\ runs'[n].man = ed[c].ann.hash
        /\ \A m \in Names \ {n} : runs'[m] = runs[m]
        /\ ed'[c] = [ed[c] EXCEPT !.pc = "writeIdx"]
        /\ \A d \in Editors \ {c} : ed'[d] = ed[d]
    BY WriteManifestFacts DEF IInv, TypeOK
  <1>2. runs[n] # Absent /\ runs'[n] # Absent
    BY <1>1, SentinelAssumption DEF SentinelAssumption
  <1>3. VersionNow[n] = runs[n].man /\ VersionNow[n] # Absent
    BY <1>1, <1>2, VersionFacts
  <1>4. ExistingHash(runs'[n]) = DeriveHash(VersionNow[n], ed[c].op)
    BY <1>1, <1>2, <1>3 DEF ExistingHash
  <1>5. VersionNow' = [VersionNow EXCEPT ![n] = DeriveHash(VersionNow[n], ed[c].op)]
    BY <1>1, <1>4, VersionAfterWrite
  <1>6. UNCHANGED HeldNow
    BY <1>1, HeldUnchanged DEF EdType
  <1>7. HeldNow[c].name = n /\ HeldNow[c].version = ed[c].seen
    BY DEF HeldNow
  <1>8. Register!Commit(c, ed[c].op)
    BY <1>1, <1>3, <1>5, <1>6, <1>7
    DEF Register!Commit, Register!Extend, DeriveHash, VersionNow, HeldNow
  <1>9. QED
    BY <1>1, <1>8 DEF Register!Next

\* final -> bak withdraws the run under a name, tmp -> final installs one.
LEMMA WithdrawStep ==
    ASSUME IInv, NEW p \in Annotators, BackupFinal(p), runs' # runs
    PROVE  Register!Next
  <1> DEFINE n == pub[p].name
  <1>1. TypeOK /\ n \in Names
    BY DEF IInv, TypeOK, PubType
  <1>2. runs[n] # Absent /\ runs' = [runs EXCEPT ![n] = Absent] /\ ed' = ed
    BY DEF BackupFinal
  <1>3. VersionNow[n] # Absent
    BY <1>1, <1>2, VersionFacts
  <1>4. runs'[n] = Absent /\ \A m \in Names \ {n} : runs'[m] = runs[m]
    BY <1>1, <1>2 DEF TypeOK
  <1>5. VersionNow' = [VersionNow EXCEPT ![n] = Absent]
    BY <1>1, <1>4, VersionAfterWrite DEF ExistingHash
  <1>6. UNCHANGED HeldNow
    BY <1>2, HeldUnchanged
  <1>7. Register!Withdraw(n)
    BY <1>3, <1>5, <1>6 DEF Register!Withdraw, VersionNow, HeldNow
  <1>8. QED
    BY <1>1, <1>7 DEF Register!Next

\* tmp -> final is the register's Install: it finds the register empty.
LEMMA InstallStep ==
    ASSUME IInv, NEW p \in Annotators, InstallFinal(p)
    PROVE  Register!Next
  <1> DEFINE n == pub[p].name
             r == pub[p].req
  <1>1. TypeOK /\ TmpInv /\ n \in Names /\ r \in Requests
    BY DEF IInv, TypeOK, PubType
  <1>2. runs[n] = Absent
    BY <1>1 DEF IInv, FinalInv, InstallFinal, At
  <1>3. TmpOf(p).run = FreshRun(r)
    BY <1>1 DEF TmpInv, TmpKept, PubFilled, InstallFinal, At
  <1>4. runs' = [runs EXCEPT ![n] = FreshRun(r)] /\ ed' = ed
    BY <1>3 DEF InstallFinal
  <1>5. runs'[n] = FreshRun(r) /\ \A m \in Names \ {n} : runs'[m] = runs[m]
    BY <1>1, <1>4 DEF TypeOK
  <1>6. ExistingHash(runs'[n]) = AutoHash(r)
    BY <1>1, <1>5, FreshRunFacts DEF ExistingHash
  <1>7. VersionNow' = [VersionNow EXCEPT ![n] = AutoHash(r)]
    BY <1>1, <1>5, <1>6, VersionAfterWrite
  <1>8. VersionNow[n] = Absent
    BY <1>1, <1>2, VersionFacts
  <1>9. UNCHANGED HeldNow
    BY <1>4, HeldUnchanged
  <1>10. Register!Install(n, r)
    BY <1>7, <1>8, <1>9 DEF Register!Install, Register!Auto, AutoHash, VersionNow, HeldNow
  <1>11. QED
    BY <1>1, <1>10 DEF Register!Next

\* The annotation's write, and every step that writes neither to runs nor to
\* what a client holds, is none of the register.
LEMMA StutterStep ==
    ASSUME IInv, [Next]_vars,
           \A c \in Editors : ed'[c].name = ed[c].name /\ ed'[c].seen = ed[c].seen,
           runs' = runs \/ \E c \in Editors : WriteAnnotation(c)
    PROVE  UNCHANGED <<VersionNow, HeldNow>>
  <1>1. UNCHANGED HeldNow
    BY HeldUnchanged
  <1>2. CASE runs' = runs
    BY <1>1, <1>2, VersionUnchanged
  <1>3. ASSUME NEW c \in Editors, WriteAnnotation(c)
        PROVE  UNCHANGED VersionNow
    <2> DEFINE n == ed[c].name
    <2>1. /\ n \in Names /\ runs[n] \in Run /\ runs'[n] \in Run
          /\ runs'[n].man = runs[n].man
          /\ \A m \in Names \ {n} : runs'[m] = runs[m]
      BY <1>3, WriteAnnotationFacts DEF IInv
    <2>2. runs[n] # Absent /\ runs'[n] # Absent
      BY <2>1, SentinelAssumption DEF SentinelAssumption
    <2>3. \A m \in Names : ExistingHash(runs'[m]) = ExistingHash(runs[m])
      BY <2>1, <2>2 DEF ExistingHash
    <2>4. QED
      BY <2>3, VersionUnchanged
  <1>4. QED
    BY <1>1, <1>2, <1>3

\* Every step of the run store is a step of the register or none.
LEMMA RegisterStep ==
    ASSUME IInv, [Next]_vars
    PROVE  Register!Next \/ UNCHANGED <<VersionNow, HeldNow>>
  <1>t. TypeOK /\ EdInv /\ ed \in [Editors -> EdType]
    BY DEF IInv, TypeOK
  <1>1. ASSUME NEW p \in Annotators,
               (\E r \in Requests, force \in BOOLEAN : Start(p, r, force))
                   \/ PublishStep(p) \/ Fault(p) \/ CrashAnnotator(p)
        PROVE  Register!Next \/ UNCHANGED <<VersionNow, HeldNow>>
    <2>1. ed' = ed
      BY <1>1 DEF Start, PublishStep, ResolveName, CheckReuse, MakeTmp, ClaimTmp,
                WriteArtifacts, GiveUp, AcquirePublishLock, Scavenge, RecheckReuse,
                HealIndex, BakeName, BackupFinal, BackupRefused, ClaimBak,
                InstallFinal, UpsertIndex, RemoveBak, Fault, CrashAnnotator
    <2>2. runs' = runs \/ BackupFinal(p) \/ InstallFinal(p)
      BY <1>1 DEF Start, PublishStep, ResolveName, CheckReuse, MakeTmp, ClaimTmp,
                WriteArtifacts, GiveUp, AcquirePublishLock, Scavenge, RecheckReuse,
                HealIndex, BakeName, BackupRefused, ClaimBak, UpsertIndex,
                RemoveBak, Fault, CrashAnnotator
    <2>3. QED
      BY <2>1, <2>2, WithdrawStep, InstallStep, StutterStep
  <1>2. ASSUME NEW c \in Editors, NEW n \in Names, GetManifest(c, n)
        PROVE  Register!Next
    <2>1. ed' = [ed EXCEPT ![c].name = n, ![c].seen = runs[n].man]
          /\ runs' = runs /\ runs[n] # Absent
      BY <1>2 DEF GetManifest
    <2>2. /\ ed'[c].name = n /\ ed'[c].seen = runs[n].man
          /\ \A d \in Editors \ {c} : ed'[d] = ed[d]
      BY <2>1, <1>t DEF EdType
    <2>3. QED
      BY <2>1, <2>2, <1>t, ReadStep
  <1>3. ASSUME NEW c \in Editors, WriteIndex(c)
        PROVE  Register!Next
    <2> DEFINE done == [NewEd EXCEPT !.name = ed[c].name, !.seen = ed[c].ann.hash]
    <2>1. ed[c].name \in Names /\ EdKept(c) /\ ed[c].pc = "writeIdx"
      BY <1>3, <1>t DEF EdType, EdInv, WriteIndex, EdAt
    <2>2. runs[ed[c].name] # Absent /\ runs[ed[c].name].man = ed[c].ann.hash
      BY <2>1 DEF EdKept, EdAt
    <2>3. done.name = ed[c].name /\ done.seen = ed[c].ann.hash
      BY NewTypes DEF EdType
    <2>4. ed' = [ed EXCEPT ![c] = done] /\ runs' = runs
      BY <1>3 DEF WriteIndex
    <2> HIDE DEF done
    <2>5. /\ ed'[c].name = ed[c].name /\ ed'[c].seen = ed[c].ann.hash
          /\ \A d \in Editors \ {c} : ed'[d] = ed[d]
      BY <2>3, <2>4, <1>t
    <2>6. QED
      BY <2>1, <2>2, <2>4, <2>5, <1>t, ReadStep
  <1>4. ASSUME NEW c \in Editors, NEW e \in Edits, SubmitEdit(c, e)
        PROVE  UNCHANGED <<VersionNow, HeldNow>>
    <2>1. ed' = [ed EXCEPT ![c].pc = "submitted", ![c].op = e] /\ runs' = runs
      BY <1>4 DEF SubmitEdit
    <2>2. \A d \in Editors : ed'[d].name = ed[d].name /\ ed'[d].seen = ed[d].seen
      BY <2>1, <1>t DEF EdType
    <2>3. QED
      BY <2>1, <2>2, StutterStep
  <1>5. ASSUME NEW c \in Editors,
               EditLockTimeout(c) \/ RejectEdit(c) \/ WriteAnnotation(c)
        PROVE  UNCHANGED <<VersionNow, HeldNow>>
    <2>1. PICK step \in EdSteps : EdGoto(c, step)
      BY <1>5 DEF EditLockTimeout, RejectEdit, WriteAnnotation, EdSteps
    <2>2. \A d \in Editors : ed'[d].name = ed[d].name /\ ed'[d].seen = ed[d].seen
      BY <2>1, <1>t DEF EdGoto, EdType
    <2>3. runs' = runs \/ WriteAnnotation(c)
      BY <1>5 DEF EditLockTimeout, RejectEdit
    <2>4. QED
      BY <2>2, <2>3, StutterStep
  <1>6. ASSUME NEW c \in Editors, AcceptEdit(c)
        PROVE  UNCHANGED <<VersionNow, HeldNow>>
    <2> DEFINE ann == EditAnnotation(runs[ed[c].name].ann, ed[c].op,
                                     DeriveHash(runs[ed[c].name].man, ed[c].op))
    <2>1. ed' = [ed EXCEPT ![c].pc = "writeAnn", ![c].ann = ann] /\ runs' = runs
      BY <1>6 DEF AcceptEdit
    <2> HIDE DEF ann
    <2>2. \A d \in Editors : ed'[d].name = ed[d].name /\ ed'[d].seen = ed[d].seen
      BY <2>1, <1>t DEF EdType
    <2>3. QED
      BY <2>1, <2>2, StutterStep
  <1>7. CASE CrashServer
    BY <1>7, <1>t, CrashServerFacts, StutterStep
  <1>8. CASE DayPasses
    BY <1>8, StutterStep DEF DayPasses
  <1>9. CASE UNCHANGED vars
    BY <1>9, StutterStep DEF vars
  <1>10. ASSUME NEW c \in Editors, EditFails(c)
         PROVE  UNCHANGED <<VersionNow, HeldNow>>
    <2>1. runs' = runs /\ \A d \in Editors : ed'[d].name = ed[d].name /\ ed'[d].seen = ed[d].seen
      BY <1>10, <1>t, EditFailsFacts
    <2>2. QED
      BY <2>1, <1>t, StutterStep
  <1>11. QED
    BY <1>1, <1>2, <1>3, <1>4, <1>5, <1>6, <1>7, <1>8, <1>9, <1>10, CommitStep DEF Next, EditStep

\* No edit is lost and none is applied to a version its client has not seen,
\* with any number of clients, publishers, kills, timeouts and retries.
THEOREM Refinement == Spec => EditsAreCompareAndAppend
  <1>1. Init => Register!Init
    BY RegisterInit
  <1>2. IInv /\ [Next]_vars => [Register!Next]_<<VersionNow, HeldNow>>
    BY RegisterStep
  <1>3. QED
    BY <1>1, <1>2, Invariance, PTL
    DEF Spec, EditsAreCompareAndAppend, Register!Spec, VersionNow, HeldNow
=============================================================================
