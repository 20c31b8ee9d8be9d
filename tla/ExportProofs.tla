---------------------------- MODULE ExportProofs ----------------------------
(***************************************************************************)
(* Export's safety, for any number of runs, episodes, exporters, requests  *)
(* and kills.  The parts of the invariant take the trees, the runs and the *)
(* memory of an exporter as arguments, so that a step is a change of one   *)
(* of them.                                                                *)
(***************************************************************************)
EXTENDS Export, NaturalsInduction, WellFoundedInduction, TLAPS

\* Sequences, whatever they hold; runs, trees and exporters with all their fields.
IsSeq(s) == \E S : s \in Seq(S)
IsRun(v) == v = [there |-> v.there, segs |-> v.segs, made |-> v.made, hash |-> v.hash]
IsTree(t) ==
    t = [reg |-> t.reg, data |-> t.data, lists |-> t.lists, side |-> t.side,
         meta |-> t.meta, prov |-> t.prov]
IsProcess(s) ==
    s = [pc |-> s.pc, req |-> s.req, used |-> s.used, loaded |-> s.loaded,
         hashes |-> s.hashes, left |-> s.left, asOf |-> s.asOf]

-----------------------------------------------------------------------------
\* The runs, and what a step of their writers does to those that can be read.

RunsTrue ==
    /\ run = [r \in Runs |-> run[r]]
    /\ writes \in Nat
    /\ \A r \in Runs : /\ IsRun(run[r])
                       /\ run[r].made \in Nat /\ run[r].hash \in Nat
                       /\ run[r].hash <= run[r].made /\ run[r].made <= writes
    /\ index \in [Runs -> Nat]
    /\ \A r \in Runs : index[r] <= writes + 1

Advance(store, store1, w, w1) ==
    /\ w \in Nat /\ w1 \in Nat /\ w <= w1
    /\ \A r \in Runs :
          /\ store[r].made \in Nat /\ store1[r].made \in Nat
          /\ store[r].made <= store1[r].made
          /\ w1 = w /\ store[r].there =>
                store1[r].there /\ store1[r].segs = store[r].segs

-----------------------------------------------------------------------------
\* What an exporter has resolved and read.

Loading == {"manifest", "annotation"}
\* The episodes that are not loaded yet.
Unread(s) == IF s.pc \in Loading THEN s.left ELSE {}

Memory(s, store, w) ==
    s.pc \in Running \ {"resolve"} =>
        /\ s.req \in Requests
        /\ DOMAIN s.used \subseteq Episodes
        /\ \A e \in DOMAIN s.used : s.used[e] \in Runs
        /\ Unread(s) \subseteq DOMAIN s.used
        /\ s.pc \in Loading => s.left # {}
        /\ DOMAIN s.loaded = DOMAIN s.used \ Unread(s)
        /\ DOMAIN s.loaded \subseteq DOMAIN s.hashes
        /\ s.asOf \in Nat /\ s.asOf <= w
        /\ \A e \in DOMAIN s.loaded :
              /\ s.loaded[e].made \in Nat /\ s.hashes[e] \in Nat
              /\ s.hashes[e] <= s.loaded[e].made
              /\ s.asOf = w => store[s.used[e]].there
                               /\ store[s.used[e]].segs = s.loaded[e].segs
        /\ s.pc = "annotation" =>
              /\ Min(s.left) \in DOMAIN s.hashes /\ s.hashes[Min(s.left)] \in Nat
              /\ s.hashes[Min(s.left)] <= store[s.used[Min(s.left)]].made

-----------------------------------------------------------------------------
\* A tree that is finished, and one that is being written.

Fresh(t, store, w) ==
    /\ t.prov.asOf \in Nat /\ t.prov.asOf <= w
    /\ \A e \in DOMAIN t.prov.used :
          /\ t.prov.used[e] \in Runs
          /\ t.prov.asOf = w => store[t.prov.used[e]].there
                                /\ store[t.prov.used[e]].segs = t.side[e].segs

NotOlder(t) == \A e \in DOMAIN t.side : t.side[e].made >= t.side[e].hash

\* once: the dataset has no columns of an earlier export.
Good(t, store, w, once) ==
    /\ Sound(t) /\ Fresh(t, store, w) /\ NotOlder(t)
    /\ once => OneColumnEach(t)

\* The files that are written by the time a step of write_all is due.
HasLists == {"side", "validate", "provenance", "swap"}
HasSide == {"validate", "provenance", "swap"}
HasMeta == {"provenance", "swap"}
HasProv == {"swap"}
Filling == {"data", "lists"} \cup HasLists

Unwritten(s) == IF s.pc = "data" THEN s.left ELSE {}

GatesPassed(s) ==
    \A e \in DOMAIN s.used :
        PassesGates(s.req.profile.gates, About[s.used[e]].degraded, s.loaded[e].segs)

Built(t, s, once) ==
    /\ IsTree(t)
    /\ t.reg = Registry(s.loaded)
    /\ \A e \in DOMAIN s.used \ Unwritten(s) :
          /\ e \in DOMAIN t.data
          /\ Last(t.data[e]) = Column(s.loaded[e].segs, Registry(s.loaded))
          /\ \A f \in Frames : Column(s.loaded[e].segs, Registry(s.loaded))[f] # NoIndex
          /\ once => Len(t.data[e]) = 1
    /\ s.pc \in HasLists =>
          Last(t.lists) = ListColumn(s.loaded) /\ (once => Len(t.lists) = 1)
    /\ s.pc \in HasSide =>
          t.side = [e \in DOMAIN s.loaded |-> SidecarRows(s.loaded[e], s.hashes[e])]
    /\ s.pc \in HasMeta => t.meta
    /\ s.pc \in HasProv =>
          t.prov = [profile |-> s.req.profile, used |-> s.used, hashes |-> s.hashes,
                    subtasks |-> Len(Registry(s.loaded)), asOf |-> s.asOf]

\* A process in the try block of bulk_export, with what it has to write.
Writer(s) ==
    s.pc \in Writing =>
        /\ GatesPassed(s)
        /\ s.pc = "data" => s.left \subseteq DOMAIN s.used /\ s.left # {}
        /\ s.pc = "registry" => s.left = DOMAIN s.used
        /\ s.pc \in {"stash", "install", "fresh", "drop"} => ~s.req.inPlace

-----------------------------------------------------------------------------
\* The trees beside OUT.

Once == inPlace.began = 0

Staged(t, s, store, w, once) ==
    ~s.req.inPlace =>
        /\ s.pc = "registry" =>
              /\ IsTree(t) /\ t.data = NoFiles
        /\ s.pc \in Filling => Built(t, s, once)
        /\ s.pc \in {"stash", "install", "fresh"} => Good(t, store, w, once)

OutTrue ==
    /\ out # Absent => Good(out, run, writes, Once)
    /\ \A x \in Exporters :
          /\ stash[x] # Absent => Good(stash[x], run, writes, Once)
          /\ Staged(staging[x], ex[x], run, writes, Once)
          /\ At(x, "install") => stash[x] # Absent
    /\ published /\ out = Absent =>
          \E x \in Exporters : stash[x] # Absent /\ ~At(x, "drop")

-----------------------------------------------------------------------------
\* The dataset, as long as at most one in-place export has begun to write to it.

\* What that one has not written yet is as it was.
Untouched(t, s) ==
    /\ s.pc = "data" => \A e \in s.left : t.data[e] = << >>
    /\ s.pc \in {"data", "lists"} => t.lists = << >>

Filler(x) == Req(x).inPlace /\ ex[x].pc \in Filling

DatasetTrue ==
    /\ inPlace = [began |-> inPlace.began, finished |-> inPlace.finished]
    /\ inPlace.began \in Nat /\ inPlace.finished \in Nat
    /\ IsTree(dataset) /\ DOMAIN dataset.data = Episodes /\ IsSeq(dataset.lists)
    /\ \A e \in Episodes : IsSeq(dataset.data[e])
    /\ inPlace.began = 0 =>
          /\ inPlace.finished = 0 /\ dataset = Original
          /\ \A x \in Exporters : ~Filler(x)
    /\ inPlace.began = 1 =>
          \/ /\ inPlace.finished = 0
             /\ \A x, y \in Exporters : Filler(x) /\ Filler(y) => x = y
             /\ \A x \in Exporters :
                   Filler(x) => Built(dataset, ex[x], TRUE) /\ Untouched(dataset, ex[x])
          \/ /\ inPlace.finished = 1
             /\ \A x \in Exporters : ~Filler(x)
             /\ Good(dataset, run, writes, TRUE)

-----------------------------------------------------------------------------
Tables ==
    /\ ex = [x \in Exporters |-> ex[x]]
    /\ staging = [x \in Exporters |-> staging[x]]
    /\ stash = [x \in Exporters |-> stash[x]]

Process(s, store, w) ==
    /\ IsProcess(s)
    /\ s.pc = "resolve" => s.req \in Requests /\ DOMAIN s.loaded = {}
    /\ Memory(s, store, w)
    /\ Writer(s)

Processes == \A x \in Exporters : Process(ex[x], run, writes)

IInv == RunsTrue /\ Tables /\ Processes /\ OutTrue /\ DatasetTrue

-----------------------------------------------------------------------------
\* The operators of the model.

\* A set of numbers that are at most m has a greatest element.
LEMMA Greatest ==
    ASSUME NEW m \in Nat, NEW T, T # {}, \A i \in T : i \in Int /\ i <= m
    PROVE  \E i \in T : \A j \in T : j <= i
<1> DEFINE R == OpToRel(<, Nat)
           D == {m - i : i \in T}
<1>1. \A a, b \in Nat : <<a, b>> \in R <=> a < b
  BY DEF OpToRel
<1>2. IsWellFoundedOn(R, Nat)
  BY NatLessThanWellFounded
<1>3. D \in SUBSET Nat /\ D # {}
  <2>1. \A i \in T : m - i \in Nat
    OBVIOUS
  <2>2. PICK i \in T : TRUE
    OBVIOUS
  <2> QED
    BY <2>1, <2>2
<1> HIDE DEF R
<1>4. PICK d \in D : \A y \in D : ~(<<y, d>> \in R)
  <2> HIDE DEF D
  <2> QED
    BY <1>2, <1>3, WFMin
<1>5. PICK i \in T : d = m - i
  OBVIOUS
<1>6. ASSUME NEW j \in T PROVE j <= i
  <2>1. m - j \in D /\ m - j \in Nat /\ m - i \in Nat /\ i \in Int /\ j \in Int
    OBVIOUS
  <2>2. ~(m - j < m - i)
    BY <1>1, <1>4, <1>5, <2>1, Zenon
  <2> QED
    BY <2>1, <2>2
<1> QED
  BY <1>6

\* The first of the episodes that are left is one of them.
LEMMA MinOfSome == ASSUME NEW S, S \subseteq Nat, S # {} PROVE Min(S) \in S
<1> DEFINE D == {-i : i \in S}
<1>1. PICK s \in S : TRUE
  OBVIOUS
<1>2. D # {} /\ \A d \in D : d \in Int /\ d <= 0
  BY <1>1
<1>3. PICK d \in D : \A y \in D : y <= d
  <2> HIDE DEF D
  <2> QED
    BY <1>2, Greatest
<1>4. PICK i \in S : d = -i
  OBVIOUS
<1>5. ASSUME NEW j \in S PROVE i <= j
  BY <1>3, <1>4
<1> QED
  BY <1>5 DEF Min

\* The last --run of an episode is one of those that were given.
LEMMA MaxOfSome ==
    ASSUME NEW m \in Nat, NEW S, S # {}, S \subseteq 1 .. m PROVE Max(S) \in S
<1>1. \A i \in S : i \in Int /\ i <= m
  OBVIOUS
<1>2. PICK i \in S : \A j \in S : j <= i
  BY <1>1, Greatest
<1> QED
  BY <1>1, <1>2 DEF Max

\* A subtask_index that was found leads back to the phase.
LEMMA IndexDecodes ==
    ASSUME NEW reg, NEW phase, IndexIn(reg, phase) # NoIndex
    PROVE  reg[IndexIn(reg, phase) + 1] = phase
<1>1. PICK k \in 1 .. Len(reg) : reg[k] = phase
  BY DEF IndexIn, Contains
<1> DEFINE c == CHOOSE j \in 1 .. Len(reg) : reg[j] = phase
<1>2. c \in 1 .. Len(reg) /\ reg[c] = phase
  BY <1>1
<1>3. IndexIn(reg, phase) = c - 1
  BY <1>1 DEF IndexIn, Contains
<1> HIDE DEF c
<1>4. c \in Int
  BY <1>2
<1> QED
  BY <1>2, <1>3, <1>4

\* A column without NoIndex decodes to the labels of the sidecar.
LEMMA ColumnDecodes ==
    ASSUME NEW segs, NEW reg, NEW f \in Frames, Column(segs, reg)[f] # NoIndex
    PROVE  reg[Column(segs, reg)[f] + 1] = LabelAt(segs, f)
<1>1. Column(segs, reg)[f] = IndexIn(reg, LabelAt(segs, f))
  BY Zenon DEF Column, LabelAt
<1> QED
  BY <1>1, IndexDecodes

\* Appending makes the new column the newest, and the only one where there was none.
LEMMA Appended ==
    ASSUME NEW s, NEW column, IsSeq(s)
    PROVE  /\ IsSeq(Append(s, column)) /\ Last(Append(s, column)) = column
           /\ s = << >> => Len(Append(s, column)) = 1
<1>1. PICK S : s \in Seq(S)
  BY DEF IsSeq
<1>2. s \in Seq(S \cup {column})
  BY <1>1
<1>3. Append(s, column) \in Seq(S \cup {column})
  BY <1>2
<1>4. Len(Append(s, column)) = Len(s) + 1 /\ Append(s, column)[Len(s) + 1] = column
  BY <1>2
<1> QED
  BY <1>3, <1>4 DEF IsSeq, Last

-----------------------------------------------------------------------------
\* What a step of the runs' writers leaves true of what was read from them.

LEMMA FreshAdvances ==
    ASSUME NEW t, NEW store, NEW store1, NEW w, NEW w1,
           Fresh(t, store, w), Advance(store, store1, w, w1)
    PROVE  Fresh(t, store1, w1)
  BY DEF Fresh, Advance

\* A finished tree stays good while runs are written.
LEMMA GoodAdvances ==
    ASSUME NEW t, NEW store, NEW store1, NEW w, NEW w1, NEW once,
           Good(t, store, w, once), Advance(store, store1, w, w1)
    PROVE  Good(t, store1, w1, once)
  BY FreshAdvances DEF Good

\* What an exporter has read stays true of the runs as they were when it resolved them.
LEMMA MemoryAdvances ==
    ASSUME NEW s, NEW store, NEW store1, NEW w, NEW w1,
           Memory(s, store, w), Advance(store, store1, w, w1)
    PROVE  Memory(s, store1, w1)
<1> SUFFICES ASSUME s.pc \in Running \ {"resolve"} PROVE Memory(s, store1, w1)
  BY DEF Memory
<1>1. /\ s.asOf \in Nat /\ s.asOf <= w1
      /\ s.asOf = w1 => s.asOf = w /\ w = w1
  BY DEF Memory, Advance
<1>2. \A e \in DOMAIN s.loaded :
          s.asOf = w1 => store1[s.used[e]].there
                         /\ store1[s.used[e]].segs = s.loaded[e].segs
  BY <1>1 DEF Memory, Advance
<1>3. s.pc = "annotation" => s.hashes[Min(s.left)] <= store1[s.used[Min(s.left)]].made
  <2> SUFFICES ASSUME s.pc = "annotation"
               PROVE  s.hashes[Min(s.left)] <= store1[s.used[Min(s.left)]].made
    OBVIOUS
  <2>1. s.left \subseteq DOMAIN s.used /\ DOMAIN s.used \subseteq Episodes /\ s.left # {}
    BY DEF Memory, Unread, Loading
  <2>2. Min(s.left) \in DOMAIN s.used
    BY <2>1, MinOfSome, SinkAssumption
  <2>3. s.used[Min(s.left)] \in Runs
    BY <2>2 DEF Memory
  <2> QED
    BY <2>3 DEF Memory, Advance
<1> QED
  BY <1>1, <1>2, <1>3 DEF Memory

\* A staging tree stays what its exporter has made of it.
LEMMA StagedAdvances ==
    ASSUME NEW t, NEW s, NEW store, NEW store1, NEW w, NEW w1, NEW once,
           Staged(t, s, store, w, once), Advance(store, store1, w, w1)
    PROVE  Staged(t, s, store1, w1, once)
  BY GoodAdvances DEF Staged

\* What holds while the dataset has no columns of an earlier export holds afterwards
\* but for the one column.
LEMMA OnceLess ==
    ASSUME NEW t, NEW s, NEW store, NEW w, NEW once, NEW once1, once1 => once
    PROVE  /\ Good(t, store, w, once) => Good(t, store, w, once1)
           /\ Staged(t, s, store, w, once) => Staged(t, s, store, w, once1)
<1>1. Good(t, store, w, once) => Good(t, store, w, once1)
  BY DEF Good
<1>2. Built(t, s, once) => Built(t, s, once1)
  BY DEF Built
<1> QED
  BY <1>1, <1>2 DEF Staged

-----------------------------------------------------------------------------
\* A tree that was written to the end is good.
LEMMA BuiltIsGood ==
    ASSUME NEW t, NEW s, NEW store, NEW w, NEW once \in BOOLEAN,
           s.pc = "swap", Built(t, s, once), Memory(s, store, w), Writer(s)
    PROVE  Good(t, store, w, once)
<1>1. /\ DOMAIN s.used \subseteq Episodes /\ DOMAIN s.loaded = DOMAIN s.used
      /\ \A e \in DOMAIN s.used : s.used[e] \in Runs
      /\ s.req \in Requests /\ s.asOf \in Nat /\ s.asOf <= w
  BY DEF Memory, Unread, Loading, Running, Writing
<1>2. \A e \in DOMAIN s.used :
          /\ s.loaded[e].made \in Nat /\ s.hashes[e] \in Nat
          /\ s.hashes[e] <= s.loaded[e].made
          /\ s.asOf = w => store[s.used[e]].there
                           /\ store[s.used[e]].segs = s.loaded[e].segs
  BY <1>1 DEF Memory, Running, Writing
<1>3. /\ t.reg = Registry(s.loaded) /\ t.meta
      /\ Last(t.lists) = ListColumn(s.loaded) /\ (once => Len(t.lists) = 1)
      /\ t.side = [e \in DOMAIN s.loaded |-> SidecarRows(s.loaded[e], s.hashes[e])]
  BY DEF Built, HasLists, HasSide, HasMeta, HasProv
<1>4. /\ t.prov.profile = s.req.profile /\ t.prov.used = s.used
      /\ t.prov.hashes = s.hashes /\ t.prov.asOf = s.asOf
      /\ t.prov.subtasks = Len(Registry(s.loaded))
  BY DEF Built, HasLists, HasSide, HasMeta, HasProv
<1>5. \A e \in DOMAIN s.used :
          /\ Last(t.data[e]) = Column(s.loaded[e].segs, t.reg)
          /\ \A f \in Frames : Column(s.loaded[e].segs, t.reg)[f] # NoIndex
          /\ once => Len(t.data[e]) = 1
  BY <1>3 DEF Built, Unwritten
<1>6. /\ DOMAIN t.side = DOMAIN s.used
      /\ \A e \in DOMAIN s.used : /\ t.side[e].segs = s.loaded[e].segs
                                  /\ t.side[e].made = s.loaded[e].made
                                  /\ t.side[e].hash = s.hashes[e]
  BY <1>1, <1>3 DEF SidecarRows
<1>7. Sound(t)
  <2>1. t.prov # NoProvenance
    <3>1. t.prov.profile \in Profile
      BY <1>1, <1>4, ExportAssumption
    <3>2. NoProvenance.profile = Absent
      BY DEF NoProvenance
    <3> QED
      BY <3>1, <3>2, ExportAssumption
  <2>2. ASSUME NEW e \in DOMAIN s.used
        PROVE  /\ \A f \in Frames :
                    t.reg[Last(t.data[e])[f] + 1] = LabelAt(t.side[e].segs, f)
               /\ Last(t.lists)[e] = t.side[e].segs
               /\ t.side[e].hash = t.prov.hashes[e]
               /\ PassesGates(t.prov.profile.gates, About[t.prov.used[e]].degraded,
                              t.side[e].segs)
    <3>1. \A f \in Frames : t.reg[Last(t.data[e])[f] + 1] = LabelAt(t.side[e].segs, f)
      BY <1>5, <1>6, ColumnDecodes
    <3>2. Last(t.lists)[e] = t.side[e].segs
      BY <1>1, <1>3, <1>6 DEF ListColumn
    <3>3. GatesPassed(s)
      BY DEF Writer, Writing
    <3> QED
      BY <1>4, <1>6, <3>1, <3>2, <3>3 DEF GatesPassed
  <2> QED
    BY <1>3, <1>4, <1>6, <2>1, <2>2 DEF Sound
<1>8. Fresh(t, store, w)
  BY <1>1, <1>2, <1>4, <1>6 DEF Fresh
<1>9. NotOlder(t)
  BY <1>2, <1>6 DEF NotOlder
<1>10. once => OneColumnEach(t)
  BY <1>3, <1>5, <1>6 DEF OneColumnEach
<1> QED
  BY <1>7, <1>8, <1>9, <1>10 DEF Good

-----------------------------------------------------------------------------
\* Each file in turn, wherever the tree is.

\* The exporter goes on with what it has read.
SameMemory(s, s1) ==
    /\ s1.req = s.req /\ s1.used = s.used /\ s1.loaded = s.loaded
    /\ s1.hashes = s.hashes /\ s1.left = s.left /\ s1.asOf = s.asOf

\* A process that goes on.
LEMMA NextStep ==
    ASSUME NEW s, NEW pc, IsProcess(s)
    PROVE  SameMemory(s, [s EXCEPT !.pc = pc]) /\ [s EXCEPT !.pc = pc].pc = pc
  BY DEF SameMemory, IsProcess

\* What the episode's column has to be for write_all to go on.
Decodes(s, e) == \A f \in Frames : Column(s.loaded[e].segs, Registry(s.loaded))[f] # NoIndex

\* What WriteRegistry writes, and WriteData for one episode.
LEMMA BuildRegistry ==
    ASSUME NEW s, NEW s1, NEW once, NEW t1, s.pc = "registry", Writer(s),
           SameMemory(s, s1), s1.pc = IF s.left = {} THEN "lists" ELSE "data",
           IsTree(t1), t1.reg = Registry(s.loaded)
    PROVE  Built(t1, s1, once) /\ Writer(s1)
<1>1. /\ s1.loaded = s.loaded /\ s1.used = s.used /\ s1.left = s.left /\ s1.req = s.req
  BY DEF SameMemory
<1>2. s.left = DOMAIN s.used /\ GatesPassed(s)
  BY DEF Writer, Writing
<1>3. DOMAIN s1.used \ Unwritten(s1) = {}
  BY <1>1, <1>2 DEF Unwritten
<1>5. Writer(s1)
  BY <1>1, <1>2 DEF Writer, GatesPassed
<1> QED
  BY <1>1, <1>3, <1>5 DEF Built, HasLists, HasSide, HasMeta, HasProv

\* ... by WriteData, for the episode e; columns of the source stay before the new one.
LEMMA BuildData ==
    ASSUME NEW t, NEW s, NEW s1, NEW once, NEW source, NEW e, NEW t1,
           Built(t, s, once), s.pc = "data", Writer(s), Decodes(s, e),
           e \in s.left, IsSeq(source), once => source = << >>,
           IsTree(t1), t1.reg = t.reg,
           t1.data = Enter(t.data, e,
               Append(source, Column(s.loaded[e].segs, Registry(s.loaded)))),
           s1.loaded = s.loaded, s1.used = s.used, s1.left = s.left \ {e}, s1.req = s.req,
           s1.pc = IF s.left = {e} THEN "lists" ELSE "data"
    PROVE  Built(t1, s1, once) /\ Writer(s1)
<1>2. s.left \subseteq DOMAIN s.used /\ GatesPassed(s)
  BY DEF Writer, Writing
<1>3. Writer(s1)
  BY <1>2 DEF Writer, GatesPassed
<1> DEFINE column == Column(s.loaded[e].segs, Registry(s.loaded))
           columns == Append(source, column)
<1>4. Last(columns) = column /\ (once => Len(columns) = 1)
  BY Appended
<1> HIDE DEF columns, column
<1>5. t1.data = Enter(t.data, e, columns)
  BY DEF columns, column
<1>6. ASSUME NEW a \in DOMAIN s1.used \ Unwritten(s1)
      PROVE  /\ a \in DOMAIN t1.data
             /\ Last(t1.data[a]) = Column(s.loaded[a].segs, Registry(s.loaded))
             /\ \A f \in Frames : Column(s.loaded[a].segs, Registry(s.loaded))[f] # NoIndex
             /\ once => Len(t1.data[a]) = 1
  <2>1. CASE a = e
    <3>1. a \in DOMAIN t1.data /\ t1.data[a] = columns
      BY <1>5, <2>1 DEF Enter
    <3> QED
      BY <1>4, <2>1, <3>1 DEF Decodes, column
  <2>2. CASE a # e
    <3>1. a \in DOMAIN s.used \ Unwritten(s)
      BY <2>2 DEF Unwritten
    <3>2. a \in DOMAIN t.data
      BY <3>1 DEF Built
    <3>3. a \in DOMAIN t1.data /\ t1.data[a] = t.data[a]
      BY <1>5, <2>2, <3>2 DEF Enter
    <3> QED
      BY <3>1, <3>3 DEF Built
  <2> QED
    BY <2>1, <2>2
<1>7. t1.reg = Registry(s.loaded)
  BY DEF Built
<1>8. s1.pc \notin HasLists \cup HasSide \cup HasMeta \cup HasProv
  BY DEF HasLists, HasSide, HasMeta, HasProv
<1>9. \A a \in DOMAIN s1.used \ Unwritten(s1) :
         /\ a \in DOMAIN t1.data
         /\ Last(t1.data[a]) = Column(s1.loaded[a].segs, Registry(s1.loaded))
         /\ \A f \in Frames : Column(s1.loaded[a].segs, Registry(s1.loaded))[f] # NoIndex
         /\ once => Len(t1.data[a]) = 1
  BY <1>6
<1> QED
  BY <1>3, <1>7, <1>8, <1>9 DEF Built

\* A step of write_all that leaves the data files alone.
LEMMA BuildMore ==
    ASSUME NEW t, NEW s, NEW s1, NEW once, NEW t1,
           Built(t, s, once), Writer(s), s.pc \in Filling \ {"data"},
           SameMemory(s, s1), s1.pc \in HasLists, IsTree(t1),
           t1.reg = t.reg, t1.data = t.data,
           Last(t1.lists) = ListColumn(s.loaded), once => Len(t1.lists) = 1,
           s1.pc \in HasSide =>
              t1.side = [e \in DOMAIN s.loaded |-> SidecarRows(s.loaded[e], s.hashes[e])],
           s1.pc \in HasMeta => t1.meta,
           s1.pc \in HasProv =>
              t1.prov = [profile |-> s.req.profile, used |-> s.used, hashes |-> s.hashes,
                         subtasks |-> Len(Registry(s.loaded)), asOf |-> s.asOf]
    PROVE  Built(t1, s1, once) /\ Writer(s1)
<1>1. /\ s1.loaded = s.loaded /\ s1.used = s.used /\ s1.left = s.left /\ s1.req = s.req
      /\ s1.hashes = s.hashes /\ s1.asOf = s.asOf
  BY DEF SameMemory
<1>2. Unwritten(s) = {} /\ Unwritten(s1) = {}
  BY <1>1 DEF Unwritten, HasLists
<1>3. GatesPassed(s)
  BY DEF Writer, Writing, Filling, HasLists
<1>4. Writer(s1)
  BY <1>1, <1>3 DEF Writer, GatesPassed, HasLists
<1> QED
  BY <1>1, <1>2, <1>4 DEF Built

\* What WriteLists, WriteSidecar, Validate and WriteProvenance write.
LEMMA BuildLists ==
    ASSUME NEW t, NEW s, NEW s1, NEW once, NEW source, NEW t1,
           Built(t, s, once), Writer(s), s.pc = "lists", SameMemory(s, s1), s1.pc = "side",
           IsSeq(source), once => source = << >>,
           IsTree(t1), t1.reg = t.reg, t1.data = t.data,
           t1.lists = Append(source, ListColumn(s.loaded))
    PROVE  Built(t1, s1, once) /\ Writer(s1)
<1>1. Last(t1.lists) = ListColumn(s.loaded) /\ (once => Len(t1.lists) = 1)
  BY Appended
<1> QED
  BY <1>1, BuildMore DEF Filling, HasLists, HasSide, HasMeta, HasProv

\* WriteSidecar: the rows of every loaded episode, with the hash of its manifest.
LEMMA BuildSidecar ==
    ASSUME NEW t, NEW s, NEW s1, NEW once, NEW t1,
           Built(t, s, once), Writer(s), s.pc = "side", SameMemory(s, s1), s1.pc = "validate",
           IsTree(t1), t1.reg = t.reg, t1.data = t.data, t1.lists = t.lists,
           t1.side = [e \in DOMAIN s.loaded |-> SidecarRows(s.loaded[e], s.hashes[e])]
    PROVE  Built(t1, s1, once) /\ Writer(s1)
<1>1. Last(t.lists) = ListColumn(s.loaded) /\ (once => Len(t.lists) = 1)
  BY DEF Built, HasLists
<1> QED
  BY <1>1, BuildMore DEF Filling, HasLists, HasSide, HasMeta, HasProv

\* Validate: copy_meta_verbatim.
LEMMA BuildMeta ==
    ASSUME NEW t, NEW s, NEW s1, NEW once, NEW t1,
           Built(t, s, once), Writer(s), s.pc = "validate",
           SameMemory(s, s1), s1.pc = "provenance",
           IsTree(t1), t1.reg = t.reg, t1.data = t.data, t1.lists = t.lists,
           t1.side = t.side, t1.meta
    PROVE  Built(t1, s1, once) /\ Writer(s1)
<1>1. /\ Last(t.lists) = ListColumn(s.loaded) /\ (once => Len(t.lists) = 1)
      /\ t.side = [e \in DOMAIN s.loaded |-> SidecarRows(s.loaded[e], s.hashes[e])]
  BY DEF Built, HasLists, HasSide
<1> QED
  BY <1>1, BuildMore DEF Filling, HasLists, HasSide, HasMeta, HasProv

\* WriteProvenance: export_manifest.json, the last file.
LEMMA BuildProvenance ==
    ASSUME NEW t, NEW s, NEW s1, NEW once, NEW t1,
           Built(t, s, once), Writer(s), s.pc = "provenance",
           SameMemory(s, s1), s1.pc = "swap",
           IsTree(t1), t1.reg = t.reg, t1.data = t.data, t1.lists = t.lists,
           t1.side = t.side, t1.meta = t.meta,
           t1.prov = [profile |-> s.req.profile, used |-> s.used, hashes |-> s.hashes,
                      subtasks |-> Len(Registry(s.loaded)), asOf |-> s.asOf]
    PROVE  Built(t1, s1, once) /\ Writer(s1)
<1>1. /\ Last(t.lists) = ListColumn(s.loaded) /\ (once => Len(t.lists) = 1)
      /\ t.side = [e \in DOMAIN s.loaded |-> SidecarRows(s.loaded[e], s.hashes[e])]
      /\ t.meta
  BY DEF Built, HasLists, HasSide, HasMeta
<1> QED
  BY <1>1, BuildMore DEF Filling, HasLists, HasSide, HasMeta, HasProv

-----------------------------------------------------------------------------
\* Steps, by what they change.

\* A step of the runs' writers.
LEMMA RunsStep ==
    ASSUME IInv, RunsTrue', Advance(run, run', writes, writes'), UNCHANGED <<treeVars, ex>>
    PROVE  IInv'
<1>1. /\ dataset' = dataset /\ backups' = backups /\ out' = out /\ staging' = staging
      /\ stash' = stash /\ published' = published /\ inPlace' = inPlace /\ ex' = ex
  BY DEF treeVars
<1>2. RunsTrue /\ Tables /\ Processes /\ OutTrue /\ DatasetTrue
  BY DEF IInv
<1>3. Tables'
  BY <1>1, <1>2 DEF Tables
<1>4. Processes'
  <2>1. \A x \in Exporters : Process(ex[x], run', writes')
    BY <1>2, MemoryAdvances DEF Processes, Process
  <2> QED
    BY <1>1, <2>1 DEF Processes
<1>5. OutTrue'
  <2>1. out # Absent => Good(out, run', writes', Once)
    BY <1>2, GoodAdvances DEF OutTrue
  <2>2. \A x \in Exporters :
           /\ stash[x] # Absent => Good(stash[x], run', writes', Once)
           /\ Staged(staging[x], ex[x], run', writes', Once)
    BY <1>2, GoodAdvances, StagedAdvances DEF OutTrue
  <2> QED
    BY <1>1, <1>2, <2>1, <2>2 DEF OutTrue, At, Once
<1>6. DatasetTrue'
  <2>1. Good(dataset, run, writes, TRUE) => Good(dataset, run', writes', TRUE)
    BY GoodAdvances
  <2>2. \A x : Filler(x)' <=> Filler(x)
    BY <1>1 DEF Filler, Req
  <2> QED
    BY <1>1, <1>2, <2>1, <2>2 DEF DatasetTrue, Req
<1> QED
  BY <1>3, <1>4, <1>5, <1>6 DEF IInv

\* A step of one exporter, as far as the exporters go.
LEMMA ProcessStep ==
    ASSUME IInv, NEW x \in Exporters, NEW s1, Process(s1, run, writes),
           ex' = [ex EXCEPT ![x] = s1], UNCHANGED runVars
    PROVE  /\ RunsTrue' /\ Processes'
           /\ ex' = [y \in Exporters |-> ex'[y]]
           /\ ex'[x] = s1 /\ \A y \in Exporters : y # x => ex'[y] = ex[y]
<1>1. ex = [y \in Exporters |-> ex[y]] /\ RunsTrue /\ Processes
  BY DEF IInv, Tables
<1>2. run' = run /\ index' = index /\ writes' = writes
  BY DEF runVars
<1>3. /\ ex' = [y \in Exporters |-> ex'[y]]
      /\ ex'[x] = s1 /\ \A y \in Exporters : y # x => ex'[y] = ex[y]
  BY <1>1
<1>4. RunsTrue'
  BY <1>1, <1>2 DEF RunsTrue
<1>5. Processes'
  BY <1>1, <1>2, <1>3 DEF Processes
<1> QED
  BY <1>3, <1>4, <1>5

\* A step that leaves all the trees alone.
LEMMA Aside ==
    ASSUME IInv, NEW x \in Exporters, NEW s1, Process(s1, run, writes), s1.pc \notin Writing,
           ex' = [ex EXCEPT ![x] = s1], UNCHANGED runVars, UNCHANGED treeVars
    PROVE  IInv'
<1>1. /\ RunsTrue' /\ Processes'
      /\ ex' = [y \in Exporters |-> ex'[y]]
      /\ ex'[x] = s1 /\ \A y \in Exporters : y # x => ex'[y] = ex[y]
  BY ProcessStep
<1>2. /\ dataset' = dataset /\ backups' = backups /\ out' = out /\ staging' = staging
      /\ stash' = stash /\ published' = published /\ inPlace' = inPlace
      /\ run' = run /\ writes' = writes
  BY DEF treeVars, runVars
<1>3. Tables /\ OutTrue /\ DatasetTrue
  BY DEF IInv
<1>4. Tables'
  BY <1>1, <1>2, <1>3 DEF Tables
<1>5. OutTrue'
  <2>1. /\ Staged(staging[x], s1, run, writes, Once)
        /\ s1.pc \notin {"install", "drop"}
    BY DEF Staged, Writing, Filling, HasLists
  <2>2. \A y \in Exporters :
           /\ Staged(staging'[y], ex'[y], run', writes', Once)
           /\ ex'[y].pc = "install" => ex[y].pc = "install"
           /\ ex'[y].pc = "drop" => ex[y].pc = "drop"
    BY <1>1, <1>2, <1>3, <2>1 DEF OutTrue
  <2> QED
    BY <1>2, <1>3, <2>2 DEF OutTrue, At, Once
<1>6. DatasetTrue'
  <2>1. ~(s1.req.inPlace /\ s1.pc \in Filling)
    BY DEF Writing, Filling, HasLists
  <2>2. \A y \in Exporters : Filler(y)' => Filler(y) /\ ex'[y] = ex[y]
    BY <1>1, <2>1 DEF Filler, Req
  <2>3. \A y \in Exporters : ex'[y].pc \in Writing => ex'[y] = ex[y]
    BY <1>1
  <2> QED
    BY <1>2, <1>3, <2>2, <2>3 DEF DatasetTrue, Req
<1> QED
  BY <1>1, <1>4, <1>5, <1>6 DEF IInv

\* A process that ends without another change.
LEMMA Ends ==
    ASSUME IInv, NEW x \in Exporters, NEW pc \in Ended, Goto(x, pc),
           UNCHANGED runVars, UNCHANGED treeVars
    PROVE  IInv'
<1> DEFINE s1 == [Idle EXCEPT !.pc = pc]
<1>1. ex' = [ex EXCEPT ![x] = s1]
  BY DEF Goto
<1>2. s1.pc = pc /\ IsProcess(s1)
  BY DEF Idle, IsProcess
<1>3. pc \notin Running /\ pc \notin Writing /\ pc # "resolve"
  BY DEF Ended, Running, Writing
<1> HIDE DEF s1
<1>4. Process(s1, run, writes)
  BY <1>2, <1>3 DEF Process, Memory, Writer
<1> QED
  BY <1>1, <1>2, <1>3, <1>4, Aside

\* A process that goes on.
LEMMA GoesOn ==
    ASSUME IInv, NEW x \in Exporters, NEW pc, pc \notin Ended, Goto(x, pc)
    PROVE  /\ ex' = [ex EXCEPT ![x] = [ex[x] EXCEPT !.pc = pc]]
           /\ SameMemory(ex[x], [ex[x] EXCEPT !.pc = pc])
           /\ [ex[x] EXCEPT !.pc = pc].pc = pc /\ IsProcess([ex[x] EXCEPT !.pc = pc])
<1>1. IsProcess(ex[x])
  BY DEF IInv, Processes, Process
<1>2. ex' = [ex EXCEPT ![x] = [ex[x] EXCEPT !.pc = pc]]
  BY DEF Goto
<1>3. IsProcess([ex[x] EXCEPT !.pc = pc])
  BY <1>1 DEF IsProcess
<1> QED
  BY <1>1, <1>2, <1>3, NextStep

Past == {"check", "prepare"} \cup Writing

\* What was read stays while the tree is written.
LEMMA MemoryKept ==
    ASSUME NEW s, NEW s1, NEW store, NEW w, s.pc \in Past, s1.pc \in Past,
           Memory(s, store, w), s1.req = s.req, s1.used = s.used, s1.loaded = s.loaded,
           s1.hashes = s.hashes, s1.asOf = s.asOf
    PROVE  Memory(s1, store, w)
<1>1. /\ s.pc \in Running \ {"resolve"} /\ s.pc \notin Loading
      /\ s1.pc \in Running \ {"resolve"} /\ s1.pc \notin Loading
  BY DEF Past, Running, Writing, Loading
<1>2. Unread(s) = {} /\ Unread(s1) = {}
  BY <1>1 DEF Unread
<1> QED
  BY <1>1, <1>2 DEF Memory, Loading

-----------------------------------------------------------------------------
\* The steps of the runs' writers.

\* One field of a run is set.
LEMMA RunField ==
    ASSUME NEW v, IsRun(v), NEW a
    PROVE  /\ LET u == [v EXCEPT !.there = a]
              IN  IsRun(u) /\ u.segs = v.segs /\ u.made = v.made /\ u.hash = v.hash
           /\ LET u == [v EXCEPT !.segs = a]
              IN  IsRun(u) /\ u.there = v.there /\ u.made = v.made /\ u.hash = v.hash
           /\ LET u == [v EXCEPT !.made = a]
              IN  IsRun(u) /\ u.there = v.there /\ u.segs = v.segs /\ u.made = a /\ u.hash = v.hash
           /\ LET u == [v EXCEPT !.hash = a]
              IN  IsRun(u) /\ u.there = v.there /\ u.segs = v.segs /\ u.made = v.made /\ u.hash = a
<1>1. LET u == [v EXCEPT !.there = a]
      IN  IsRun(u) /\ u.segs = v.segs /\ u.made = v.made /\ u.hash = v.hash
  BY DEF IsRun
<1>2. LET u == [v EXCEPT !.segs = a]
      IN  IsRun(u) /\ u.there = v.there /\ u.made = v.made /\ u.hash = v.hash
  BY DEF IsRun
<1>3. LET u == [v EXCEPT !.made = a]
      IN  IsRun(u) /\ u.there = v.there /\ u.segs = v.segs /\ u.made = a /\ u.hash = v.hash
  BY DEF IsRun
<1>4. LET u == [v EXCEPT !.hash = a]
      IN  IsRun(u) /\ u.there = v.there /\ u.segs = v.segs /\ u.made = v.made /\ u.hash = a
  BY DEF IsRun
<1> QED
  BY <1>1, <1>2, <1>3, <1>4

\* A run is written.
LEMMA RunSet ==
    ASSUME RunsTrue, NEW r \in Runs, NEW v, IsRun(v), run' = [run EXCEPT ![r] = v],
           writes' \in Nat, writes <= writes',
           v.made \in Nat, v.hash \in Nat, v.hash <= v.made, v.made <= writes',
           run[r].made <= v.made,
           writes' = writes /\ run[r].there => v.there /\ v.segs = run[r].segs,
           index' \in [Runs -> Nat], \A q \in Runs : index'[q] <= writes' + 1
    PROVE  RunsTrue' /\ Advance(run, run', writes, writes')
<1>1. /\ run' = [q \in Runs |-> run'[q]]
      /\ \A q \in Runs : run'[q] = IF q = r THEN v ELSE run[q]
  BY DEF RunsTrue
<1> QED
  BY <1>1 DEF RunsTrue, Advance

\* The annotation of an edit: made goes up, the hash stays behind it.
LEMMA BeginEditKeeps == ASSUME IInv, NEW r \in Runs, BeginEdit(r) PROVE IInv'
<1>1. PICK segs : run' = [run EXCEPT ![r].segs = segs, ![r].made = writes + 1]
  BY DEF BeginEdit
<1>2. writes' = writes + 1 /\ index' = index /\ UNCHANGED <<treeVars, ex>> /\ RunsTrue
  BY DEF BeginEdit, IInv
<1> DEFINE u == [run[r] EXCEPT !.segs = segs]
           made == writes + 1
           v == [u EXCEPT !.made = made]
<1>3. run' = [run EXCEPT ![r] = v]
  BY <1>1
<1>4. IsRun(v) /\ v.made = writes + 1 /\ v.hash = run[r].hash
  <2>1. IsRun(u) /\ u.hash = run[r].hash
    BY <1>2, RunField, ZenonT(30) DEF RunsTrue
  <2>2. made = writes + 1
    OBVIOUS
  <2> HIDE DEF u, made
  <2>3. IsRun(v) /\ v.made = made /\ v.hash = u.hash
    BY <2>1, RunField, ZenonT(30)
  <2> HIDE DEF v
  <2> QED
    BY <2>1, <2>2, <2>3
<1> HIDE DEF v
<1>5. /\ writes \in Nat /\ run[r].made \in Nat /\ run[r].hash \in Nat
      /\ run[r].hash <= run[r].made /\ run[r].made <= writes
      /\ index' \in [Runs -> Nat] /\ \A q \in Runs : index'[q] <= writes' + 1
  BY <1>2 DEF RunsTrue
<1>6. RunsTrue' /\ Advance(run, run', writes, writes')
  <2>1. /\ writes' \in Nat /\ writes <= writes'
        /\ v.made \in Nat /\ v.hash \in Nat /\ v.hash <= v.made /\ v.made <= writes'
        /\ run[r].made <= v.made
        /\ writes' = writes /\ run[r].there => v.there /\ v.segs = run[r].segs
    BY <1>2, <1>4, <1>5
  <2> QED
    BY <1>2, <1>3, <1>4, <1>5, <2>1, RunSet
<1> QED
  BY <1>2, <1>6, RunsStep

\* Its manifest: the hash catches up.
LEMMA EndEditKeeps == ASSUME IInv, NEW r \in Runs, EndEdit(r) PROVE IInv'
<1>1. run' = [run EXCEPT ![r].hash = run[r].made]
  BY DEF EndEdit
<1>2. writes' = writes /\ index' = index /\ UNCHANGED <<treeVars, ex>> /\ RunsTrue
  BY DEF EndEdit, IInv
<1> DEFINE v == [run[r] EXCEPT !.hash = run[r].made]
<1>3. run' = [run EXCEPT ![r] = v]
  BY <1>1, <1>2
<1>4. /\ IsRun(v) /\ v.made = run[r].made /\ v.hash = run[r].made
      /\ v.there = run[r].there /\ v.segs = run[r].segs
  BY <1>2, RunField, ZenonT(30) DEF RunsTrue
<1> HIDE DEF v
<1>5. /\ writes \in Nat /\ run[r].made \in Nat /\ run[r].made <= writes
      /\ index' \in [Runs -> Nat] /\ \A q \in Runs : index'[q] <= writes' + 1
  BY <1>2 DEF RunsTrue
<1>6. RunsTrue' /\ Advance(run, run', writes, writes')
  <2>1. /\ writes' \in Nat /\ writes <= writes'
        /\ v.made \in Nat /\ v.hash \in Nat /\ v.hash <= v.made /\ v.made <= writes'
        /\ run[r].made <= v.made
        /\ writes' = writes /\ run[r].there => v.there /\ v.segs = run[r].segs
    BY <1>2, <1>4, <1>5
  <2> QED
    BY <1>2, <1>3, <1>4, <1>5, <2>1, RunSet
<1> QED
  BY <1>2, <1>6, RunsStep

\* A publication moves the final directory aside.
LEMMA BeginPublishKeeps == ASSUME IInv, NEW r \in Runs, BeginPublish(r) PROVE IInv'
<1>1. run' = [run EXCEPT ![r].there = FALSE]
  BY DEF BeginPublish
<1>2. writes' = writes + 1 /\ index' = index /\ UNCHANGED <<treeVars, ex>> /\ RunsTrue
  BY DEF BeginPublish, IInv
<1> DEFINE v == [run[r] EXCEPT !.there = FALSE]
<1>3. run' = [run EXCEPT ![r] = v]
  BY <1>1, <1>2
<1>4. IsRun(v) /\ v.made = run[r].made /\ v.hash = run[r].hash
  BY <1>2, RunField, ZenonT(30) DEF RunsTrue
<1> HIDE DEF v
<1>5. /\ writes \in Nat /\ run[r].made \in Nat /\ run[r].hash \in Nat
      /\ run[r].hash <= run[r].made /\ run[r].made <= writes
      /\ index' \in [Runs -> Nat] /\ \A q \in Runs : index'[q] <= writes' + 1
  BY <1>2 DEF RunsTrue
<1>6. RunsTrue' /\ Advance(run, run', writes, writes')
  <2>1. /\ writes' \in Nat /\ writes <= writes'
        /\ v.made \in Nat /\ v.hash \in Nat /\ v.hash <= v.made /\ v.made <= writes'
        /\ run[r].made <= v.made
        /\ writes' = writes /\ run[r].there => v.there /\ v.segs = run[r].segs
    BY <1>2, <1>4, <1>5
  <2> QED
    BY <1>2, <1>3, <1>4, <1>5, <2>1, RunSet
<1> QED
  BY <1>2, <1>6, RunsStep

\* It puts the new one there and the row in the index.
LEMMA EndPublishKeeps == ASSUME IInv, NEW r \in Runs, EndPublish(r) PROVE IInv'
<1>1. PICK segs :
        run' = [run EXCEPT ![r] = [there |-> TRUE, segs |-> segs,
                                   made |-> writes, hash |-> writes]]
  BY DEF EndPublish
<1>2. /\ writes' = writes /\ index' = [index EXCEPT ![r] = writes + 1]
      /\ UNCHANGED <<treeVars, ex>> /\ RunsTrue /\ ~run[r].there
  BY DEF EndPublish, IInv
<1> DEFINE v == [there |-> TRUE, segs |-> segs, made |-> writes, hash |-> writes]
<1>4. IsRun(v) /\ v.made = writes /\ v.hash = writes
  BY DEF IsRun
<1>3. run' = [run EXCEPT ![r] = v]
  BY <1>1
<1> HIDE DEF v
<1>5. /\ writes \in Nat /\ run[r].made \in Nat /\ run[r].made <= writes
      /\ index' \in [Runs -> Nat] /\ \A q \in Runs : index'[q] <= writes + 1
  BY <1>2 DEF RunsTrue
<1>6. RunsTrue' /\ Advance(run, run', writes, writes')
  <2>1. /\ writes' \in Nat /\ writes <= writes'
        /\ v.made \in Nat /\ v.hash \in Nat /\ v.hash <= v.made /\ v.made <= writes'
        /\ run[r].made <= v.made
        /\ writes' = writes /\ run[r].there => v.there /\ v.segs = run[r].segs
    BY <1>2, <1>4, <1>5
  <2> QED
    BY <1>2, <1>3, <1>4, <1>5, <2>1, RunSet
<1> QED
  BY <1>2, <1>6, RunsStep

\* A writer is killed.
LEMMA AbandonKeeps == ASSUME IInv, AbandonWrite PROVE IInv'
<1>1. /\ run' = run /\ writes' = writes /\ index' = index /\ UNCHANGED <<treeVars, ex>>
      /\ RunsTrue
  BY DEF AbandonWrite, IInv
<1>2. RunsTrue'
  BY <1>1 DEF RunsTrue
<1>3. Advance(run, run', writes, writes')
  BY <1>1 DEF RunsTrue, Advance
<1> QED
  BY <1>1, <1>2, <1>3, RunsStep

-----------------------------------------------------------------------------
\* The steps of an exporter up to the comparison with what is there.

LEMMA StartKeeps == ASSUME IInv, NEW x \in Exporters, Start(x) PROVE IInv'
<1>1. PICK req \in Requests : ex' = [ex EXCEPT ![x] = [Idle EXCEPT !.pc = "resolve", !.req = req]]
  BY DEF Start
<1> DEFINE s1 == [Idle EXCEPT !.pc = "resolve", !.req = req]
<1>2. s1.pc = "resolve" /\ s1.req = req /\ DOMAIN s1.loaded = {} /\ IsProcess(s1)
  <2> DEFINE s0 == [Idle EXCEPT !.pc = "resolve"]
  <2>1. s1 = [s0 EXCEPT !.req = req]
    OBVIOUS
  <2>2. IsProcess(s0) /\ s0.pc = "resolve" /\ DOMAIN s0.loaded = {}
    BY SMTT(30) DEF Idle, IsProcess, NoFiles
  <2> HIDE DEF s0, s1
  <2> QED
    BY <2>1, <2>2 DEF IsProcess
<1>3. "resolve" \notin Writing
  BY DEF Writing
<1> HIDE DEF s1
<1>4. Process(s1, run, writes)
  BY <1>2, <1>3 DEF Process, Memory, Writer
<1>5. UNCHANGED runVars /\ UNCHANGED treeVars
  BY DEF Start
<1> QED
  BY <1>1, <1>2, <1>3, <1>4, <1>5, Aside DEF s1

\* Of the candidates of an episode there is a newest.
LEMMA NewestIsOne ==
    ASSUME RunsTrue, NEW S, S \subseteq Runs, S # {} PROVE Newest(S) \in S
<1> DEFINE T == {index[r] : r \in S}
<1>1. T # {} /\ \A i \in T : i \in Int /\ i <= writes + 1
  BY DEF RunsTrue
<1>2. writes + 1 \in Nat
  BY DEF RunsTrue
<1>3. PICK i \in T : \A j \in T : j <= i
  <2> HIDE DEF T
  <2> QED
    BY <1>1, <1>2, Greatest
<1>4. PICK r \in S : i = index[r]
  OBVIOUS
<1>5. \A q \in S : index[q] <= index[r]
  BY <1>3, <1>4
<1> QED
  BY <1>5 DEF Newest

\* Of the --run options that name an episode there is a last.
LEMMA NamedRunsAreRuns ==
    ASSUME NEW names \in Seq(Runs)
    PROVE  /\ DOMAIN NamedRuns(names) \subseteq Episodes
           /\ \A e \in DOMAIN NamedRuns(names) : NamedRuns(names)[e] \in Runs
<1>1. ToSet(names) \subseteq Runs
  BY DEF ToSet
<1>2. DOMAIN NamedRuns(names) = {About[r].episode : r \in ToSet(names)}
  BY DEF NamedRuns
<1>3. DOMAIN NamedRuns(names) \subseteq Episodes
  BY <1>1, <1>2, ExportAssumption
<1>4. ASSUME NEW e \in DOMAIN NamedRuns(names) PROVE NamedRuns(names)[e] \in Runs
  <2> DEFINE S == {i \in DOMAIN names : About[names[i]].episode = e}
  <2>1. Len(names) \in Nat /\ DOMAIN names = 1 .. Len(names)
    OBVIOUS
  <2>2. S # {}
    BY <1>2 DEF ToSet
  <2>3. Max(S) \in S
    <3>1. S \subseteq 1 .. Len(names)
      BY <2>1
    <3> HIDE DEF S
    <3> QED
      BY <2>1, <2>2, <3>1, MaxOfSome
  <2>4. NamedRuns(names)[e] = names[Max(S)]
    BY <1>2 DEF NamedRuns
  <2> QED
    BY <2>1, <2>3, <2>4
<1> QED
  BY <1>3, <1>4

\* The fields of an exporter, one by one.
Proc(pc, req, used, loaded, hashes, left, asOf) ==
    [pc |-> pc, req |-> req, used |-> used, loaded |-> loaded,
     hashes |-> hashes, left |-> left, asOf |-> asOf]

\* The fields of Proc are its arguments.
LEMMA ProcFields ==
    ASSUME NEW p, NEW r, NEW u, NEW l, NEW h, NEW f, NEW a
    PROVE  LET s == Proc(p, r, u, l, h, f, a)
           IN  /\ IsProcess(s)
               /\ s.pc = p /\ s.req = r /\ s.used = u /\ s.loaded = l
               /\ s.hashes = h /\ s.left = f /\ s.asOf = a
  BY DEF Proc, IsProcess

\* Setting a field replaces that argument: pc,
LEMMA ProcSetPc ==
    ASSUME NEW p, NEW r, NEW u, NEW l, NEW h, NEW f, NEW a, NEW v
    PROVE  [Proc(p, r, u, l, h, f, a) EXCEPT !.pc = v] = Proc(v, r, u, l, h, f, a)
  BY DEF Proc

\* used,
LEMMA ProcSetUsed ==
    ASSUME NEW p, NEW r, NEW u, NEW l, NEW h, NEW f, NEW a, NEW v
    PROVE  [Proc(p, r, u, l, h, f, a) EXCEPT !.used = v] = Proc(p, r, v, l, h, f, a)
  BY DEF Proc

\* loaded,
LEMMA ProcSetLoaded ==
    ASSUME NEW p, NEW r, NEW u, NEW l, NEW h, NEW f, NEW a, NEW v
    PROVE  [Proc(p, r, u, l, h, f, a) EXCEPT !.loaded = v] = Proc(p, r, u, v, h, f, a)
  BY DEF Proc

\* hashes,
LEMMA ProcSetHashes ==
    ASSUME NEW p, NEW r, NEW u, NEW l, NEW h, NEW f, NEW a, NEW v
    PROVE  [Proc(p, r, u, l, h, f, a) EXCEPT !.hashes = v] = Proc(p, r, u, l, v, f, a)
  BY DEF Proc

\* left,
LEMMA ProcSetLeft ==
    ASSUME NEW p, NEW r, NEW u, NEW l, NEW h, NEW f, NEW a, NEW v
    PROVE  [Proc(p, r, u, l, h, f, a) EXCEPT !.left = v] = Proc(p, r, u, l, h, v, a)
  BY DEF Proc

\* asOf.
LEMMA ProcSetAsOf ==
    ASSUME NEW p, NEW r, NEW u, NEW l, NEW h, NEW f, NEW a, NEW v
    PROVE  [Proc(p, r, u, l, h, f, a) EXCEPT !.asOf = v] = Proc(p, r, u, l, h, f, v)
  BY DEF Proc

\* The changes that the steps make to several fields.
LEMMA SetUsedLeft ==
    ASSUME NEW s, IsProcess(s), NEW used, NEW left
    PROVE  [s EXCEPT !.used = used, !.left = left]
           = Proc(s.pc, s.req, used, s.loaded, s.hashes, left, s.asOf)
<1> DEFINE s1 == [s EXCEPT !.used = used]
           s2 == [s1 EXCEPT !.left = left]
<1>1. s = Proc(s.pc, s.req, s.used, s.loaded, s.hashes, s.left, s.asOf)
  BY DEF IsProcess, Proc
<1>2. [s EXCEPT !.used = used, !.left = left] = s2
  OBVIOUS
<1>3. s1 = Proc(s.pc, s.req, used, s.loaded, s.hashes, s.left, s.asOf)
  BY <1>1, ProcSetUsed
<1> HIDE DEF s1
<1>4. s2 = Proc(s.pc, s.req, used, s.loaded, s.hashes, left, s.asOf)
  BY <1>3, ProcSetLeft
<1> HIDE DEF s2
<1> QED
  BY <1>2, <1>4, Zenon

\* ... asOf and pc,
LEMMA SetAsOfPc ==
    ASSUME NEW s, IsProcess(s), NEW asOf, NEW pc
    PROVE  [s EXCEPT !.asOf = asOf, !.pc = pc]
           = Proc(pc, s.req, s.used, s.loaded, s.hashes, s.left, asOf)
<1> DEFINE s1 == [s EXCEPT !.asOf = asOf]
           s2 == [s1 EXCEPT !.pc = pc]
<1>1. s = Proc(s.pc, s.req, s.used, s.loaded, s.hashes, s.left, s.asOf)
  BY DEF IsProcess, Proc
<1>2. [s EXCEPT !.asOf = asOf, !.pc = pc] = s2
  OBVIOUS
<1>3. s1 = Proc(s.pc, s.req, s.used, s.loaded, s.hashes, s.left, asOf)
  BY <1>1, ProcSetAsOf
<1> HIDE DEF s1
<1>4. s2 = Proc(pc, s.req, s.used, s.loaded, s.hashes, s.left, asOf)
  BY <1>3, ProcSetPc
<1> HIDE DEF s2
<1> QED
  BY <1>2, <1>4, Zenon

\* ... hashes and pc,
LEMMA SetHashesPc ==
    ASSUME NEW s, IsProcess(s), NEW hashes, NEW pc
    PROVE  [s EXCEPT !.hashes = hashes, !.pc = pc]
           = Proc(pc, s.req, s.used, s.loaded, hashes, s.left, s.asOf)
<1> DEFINE s1 == [s EXCEPT !.hashes = hashes]
           s2 == [s1 EXCEPT !.pc = pc]
<1>1. s = Proc(s.pc, s.req, s.used, s.loaded, s.hashes, s.left, s.asOf)
  BY DEF IsProcess, Proc
<1>2. [s EXCEPT !.hashes = hashes, !.pc = pc] = s2
  OBVIOUS
<1>3. s1 = Proc(s.pc, s.req, s.used, s.loaded, hashes, s.left, s.asOf)
  BY <1>1, ProcSetHashes
<1> HIDE DEF s1
<1>4. s2 = Proc(pc, s.req, s.used, s.loaded, hashes, s.left, s.asOf)
  BY <1>3, ProcSetPc
<1> HIDE DEF s2
<1> QED
  BY <1>2, <1>4, Zenon

\* ... left and pc,
LEMMA SetLeftPc ==
    ASSUME NEW s, IsProcess(s), NEW left, NEW pc
    PROVE  [s EXCEPT !.left = left, !.pc = pc]
           = Proc(pc, s.req, s.used, s.loaded, s.hashes, left, s.asOf)
<1> DEFINE s1 == [s EXCEPT !.left = left]
           s2 == [s1 EXCEPT !.pc = pc]
<1>1. s = Proc(s.pc, s.req, s.used, s.loaded, s.hashes, s.left, s.asOf)
  BY DEF IsProcess, Proc
<1>2. [s EXCEPT !.left = left, !.pc = pc] = s2
  OBVIOUS
<1>3. s1 = Proc(s.pc, s.req, s.used, s.loaded, s.hashes, left, s.asOf)
  BY <1>1, ProcSetLeft
<1> HIDE DEF s1
<1>4. s2 = Proc(pc, s.req, s.used, s.loaded, s.hashes, left, s.asOf)
  BY <1>3, ProcSetPc
<1> HIDE DEF s2
<1> QED
  BY <1>2, <1>4, Zenon

\* ... and loaded alone.
LEMMA SetLoaded ==
    ASSUME NEW s, IsProcess(s), NEW loaded
    PROVE  [s EXCEPT !.loaded = loaded]
           = Proc(s.pc, s.req, s.used, loaded, s.hashes, s.left, s.asOf)
<1>1. s = Proc(s.pc, s.req, s.used, s.loaded, s.hashes, s.left, s.asOf)
  BY DEF IsProcess, Proc
<1> QED
  BY <1>1, ProcSetLoaded

\* The runs that are resolved are runs of episodes of the dataset.
LEMMA ResolveKeeps == ASSUME IInv, NEW x \in Exporters, ResolveRuns(x) PROVE IInv'
<1>1. /\ UNCHANGED runVars /\ UNCHANGED treeVars /\ RunsTrue /\ ex[x].pc = "resolve"
      /\ Process(ex[x], run, writes)
  BY DEF ResolveRuns, Quiet, IInv, runVars, At, Processes
<1>2. CASE Goto(x, "refused")
  BY <1>1, <1>2, Ends DEF Ended
<1>3. ASSUME NEW used, DOMAIN used \subseteq Episodes, \A e \in DOMAIN used : used[e] \in Runs,
             ex' = [ex EXCEPT ![x].used = used, ![x].left = DOMAIN used, ![x].asOf = writes,
                              ![x].pc = IF DOMAIN used = {} THEN "check" ELSE "manifest"]
      PROVE  IInv'
  <2> DEFINE pc == IF DOMAIN used = {} THEN "check" ELSE "manifest"
             s1 == Proc(pc, ex[x].req, used, ex[x].loaded, ex[x].hashes, DOMAIN used, writes)
             s0 == [ex[x] EXCEPT !.used = used, !.left = DOMAIN used]
             s2 == [s0 EXCEPT !.asOf = writes, !.pc = pc]
  <2>1. /\ IsProcess(ex[x]) /\ ex[x].req \in Requests /\ DOMAIN ex[x].loaded = {}
    BY <1>1 DEF Process
  <2>2. ex' = [ex EXCEPT ![x] = s2]
    BY <1>3
  <2> HIDE DEF pc
  <2>3. s1 = s2
    <3>1. s0 = Proc(ex[x].pc, ex[x].req, used, ex[x].loaded, ex[x].hashes, DOMAIN used, ex[x].asOf)
      BY <2>1, SetUsedLeft, Zenon
    <3> HIDE DEF s0
    <3>2. /\ IsProcess(s0) /\ s0.req = ex[x].req /\ s0.used = used /\ s0.loaded = ex[x].loaded
          /\ s0.hashes = ex[x].hashes /\ s0.left = DOMAIN used
      BY <3>1, ProcFields
    <3>3. s2 = Proc(pc, s0.req, s0.used, s0.loaded, s0.hashes, s0.left, writes)
      BY <3>2, SetAsOfPc, Zenon
    <3> HIDE DEF s2
    <3> QED
      BY <3>2, <3>3
  <2>4. /\ IsProcess(s1) /\ s1.pc = pc /\ s1.req = ex[x].req /\ s1.used = used
        /\ s1.loaded = ex[x].loaded /\ s1.left = DOMAIN used /\ s1.asOf = writes
    BY ProcFields
  <2> HIDE DEF s1, s2
  <2>5. /\ pc \in {"check", "manifest"} /\ pc \notin Writing
        /\ pc = "manifest" => DOMAIN used # {}
        /\ pc = "check" => DOMAIN used = {}
    BY DEF pc, Writing
  <2>6. Unread(s1) = DOMAIN used
    BY <2>4, <2>5 DEF Unread, Loading
  <2>7. Memory(s1, run, writes)
    BY <1>1, <2>1, <2>4, <2>5, <2>6, <1>3 DEF Memory, Loading, RunsTrue
  <2>8. Process(s1, run, writes)
    BY <2>4, <2>5, <2>7 DEF Process, Writer
  <2>9. ex' = [ex EXCEPT ![x] = s1] /\ s1.pc \notin Writing
    BY <2>2, <2>3, <2>4, <2>5
  <2> QED
    BY <1>1, <2>8, <2>9, Aside
<1>4. CASE \E used :
          /\ DOMAIN used \subseteq Episodes /\ \A e \in DOMAIN used : used[e] \in Runs
          /\ ex' = [ex EXCEPT ![x].used = used, ![x].left = DOMAIN used, ![x].asOf = writes,
                              ![x].pc = IF DOMAIN used = {} THEN "check" ELSE "manifest"]
  BY <1>3, <1>4
<1>5. \/ Goto(x, "refused")
      \/ \E used :
          /\ DOMAIN used \subseteq Episodes /\ \A e \in DOMAIN used : used[e] \in Runs
          /\ ex' = [ex EXCEPT ![x].used = used, ![x].left = DOMAIN used, ![x].asOf = writes,
                              ![x].pc = IF DOMAIN used = {} THEN "check" ELSE "manifest"]
  <2> DEFINE req == Req(x)
             found == {e \in req.episodes \cap Episodes : Candidates(req, e) # {}}
             named == NamedRuns(req.runs)
             newest == [e \in found |-> Newest(Candidates(req, e))]
             used == IF req.runs # << >> THEN named ELSE newest
  <2>1. DOMAIN named \subseteq Episodes /\ \A e \in DOMAIN named : named[e] \in Runs
    <3>1. req.runs \in Seq(Runs)
      BY <1>1, ExportAssumption DEF Process, Req
    <3> HIDE DEF req
    <3> QED
      BY <3>1, NamedRunsAreRuns
  <2>2. DOMAIN newest \subseteq Episodes /\ \A e \in DOMAIN newest : newest[e] \in Runs
    <3>1. ASSUME NEW e \in found PROVE Newest(Candidates(req, e)) \in Runs
      <4>1. Candidates(req, e) \subseteq Runs /\ Candidates(req, e) # {}
        BY DEF Candidates, Listed
      <4> QED
        BY <1>1, <4>1, NewestIsOne
    <3> QED
      BY <3>1
  <2>3. \/ Goto(x, "refused")
        \/ ex' = [ex EXCEPT ![x].used = used, ![x].left = DOMAIN used, ![x].asOf = writes,
                            ![x].pc = IF DOMAIN used = {} THEN "check" ELSE "manifest"]
    BY Zenon DEF ResolveRuns
  <2> HIDE DEF named, newest
  <2>4. DOMAIN used \subseteq Episodes /\ \A e \in DOMAIN used : used[e] \in Runs
    BY <2>1, <2>2
  <2> HIDE DEF used
  <2> QED
    BY <2>3, <2>4
<1> QED
  BY <1>2, <1>4, <1>5

\* The manifest is read before the annotation, and edits write it after.
LEMMA LoadManifestKeeps == ASSUME IInv, NEW x \in Exporters, LoadManifest(x) PROVE IInv'
<1>1. /\ UNCHANGED runVars /\ UNCHANGED treeVars /\ RunsTrue /\ ex[x].pc = "manifest"
      /\ Process(ex[x], run, writes)
  BY DEF LoadManifest, Quiet, IInv, runVars, At, Processes
<1>2. CASE Goto(x, "refused")
  BY <1>1, <1>2, Ends DEF Ended
<1> DEFINE e == Min(ex[x].left)
           r == ex[x].used[e]
           hashes == Enter(ex[x].hashes, e, run[r].hash)
           s1 == Proc("annotation", ex[x].req, ex[x].used, ex[x].loaded, hashes,
                      ex[x].left, ex[x].asOf)
           s2 == [ex[x] EXCEPT !.hashes = hashes, !.pc = "annotation"]
<1>3. CASE ex' = [ex EXCEPT ![x].hashes = Enter(@, e, run[r].hash), ![x].pc = "annotation"]
  <2>1. IsProcess(ex[x])
    BY <1>1 DEF Process
  <2>2. ex' = [ex EXCEPT ![x] = s2]
    BY <1>3
  <2> HIDE DEF hashes
  <2>3. s1 = s2
    BY <2>1, SetHashesPc, Zenon
  <2>4. /\ IsProcess(s1) /\ s1.pc = "annotation" /\ s1.req = ex[x].req /\ s1.used = ex[x].used
        /\ s1.loaded = ex[x].loaded /\ s1.left = ex[x].left /\ s1.asOf = ex[x].asOf
        /\ s1.hashes = hashes
    BY ProcFields
  <2> HIDE DEF s1, s2
  <2>5. /\ ex[x].req \in Requests
        /\ DOMAIN ex[x].used \subseteq Episodes
        /\ \A a \in DOMAIN ex[x].used : ex[x].used[a] \in Runs
        /\ ex[x].left \subseteq DOMAIN ex[x].used /\ ex[x].left # {}
        /\ DOMAIN ex[x].loaded = DOMAIN ex[x].used \ ex[x].left
        /\ DOMAIN ex[x].loaded \subseteq DOMAIN ex[x].hashes
        /\ ex[x].asOf \in Nat /\ ex[x].asOf <= writes
        /\ \A a \in DOMAIN ex[x].loaded :
              /\ ex[x].loaded[a].made \in Nat /\ ex[x].hashes[a] \in Nat
              /\ ex[x].hashes[a] <= ex[x].loaded[a].made
              /\ ex[x].asOf = writes => run[ex[x].used[a]].there
                                        /\ run[ex[x].used[a]].segs = ex[x].loaded[a].segs
    BY <1>1 DEF Process, Memory, Unread, Loading, Running
  <2>6. e \in ex[x].left
    BY <2>5, MinOfSome, SinkAssumption
  <2>7. r \in Runs
    BY <2>5, <2>6
  <2> HIDE DEF e, r
  <2>8. /\ DOMAIN hashes = DOMAIN ex[x].hashes \cup {e}
        /\ hashes[e] = run[r].hash
        /\ \A a \in DOMAIN ex[x].loaded : hashes[a] = ex[x].hashes[a]
    BY <2>5, <2>6 DEF hashes, Enter
  <2>9. hashes[e] \in Nat /\ hashes[e] <= run[r].made
    BY <1>1, <2>7, <2>8 DEF RunsTrue
  <2>10. Memory(s1, run, writes)
    <3>1. Unread(s1) = ex[x].left
      BY <2>4, Zenon DEF Unread, Loading
    <3>2. DOMAIN s1.loaded \subseteq DOMAIN s1.hashes
      BY <2>4, <2>5, <2>8, Zenon
    <3>3. \A a \in DOMAIN s1.loaded :
              /\ s1.loaded[a].made \in Nat /\ s1.hashes[a] \in Nat
              /\ s1.hashes[a] <= s1.loaded[a].made
              /\ s1.asOf = writes => run[s1.used[a]].there
                                     /\ run[s1.used[a]].segs = s1.loaded[a].segs
      BY <2>4, <2>5, <2>8, ZenonT(30)
    <3>4. /\ Min(s1.left) \in DOMAIN s1.hashes /\ s1.hashes[Min(s1.left)] \in Nat
          /\ s1.hashes[Min(s1.left)] <= run[s1.used[Min(s1.left)]].made
      BY <2>4, <2>8, <2>9, Zenon DEF e, r
    <3> QED
      BY <2>4, <2>5, <3>1, <3>2, <3>3, <3>4, Zenon DEF Memory
  <2>11. Process(s1, run, writes) /\ s1.pc \notin Writing
    BY <2>4, <2>10 DEF Process, Writer, Writing
  <2>12. ex' = [ex EXCEPT ![x] = s1]
    BY <2>2, <2>3
  <2> QED
    BY <1>1, <2>11, <2>12, Aside
<1> QED
  BY <1>2, <1>3 DEF LoadManifest, NextEpisode

\* annotation.json is read after manifest.json: made is not behind the hash.
LEMMA LoadAnnotationKeeps == ASSUME IInv, NEW x \in Exporters, LoadAnnotation(x) PROVE IInv'
<1>1. /\ UNCHANGED runVars /\ UNCHANGED treeVars /\ RunsTrue /\ ex[x].pc = "annotation"
      /\ Process(ex[x], run, writes)
  BY DEF LoadAnnotation, Quiet, IInv, runVars, At, Processes
<1>2. CASE Goto(x, "refused")
  BY <1>1, <1>2, Ends DEF Ended
<1> DEFINE e == Min(ex[x].left)
           r == ex[x].used[e]
           ep == [segs |-> run[r].segs, made |-> run[r].made]
           loaded == Enter(ex[x].loaded, e, ep)
           left == ex[x].left \ {e}
           pc == IF ex[x].left = {e} THEN "check" ELSE "manifest"
           s1 == Proc(pc, ex[x].req, ex[x].used, loaded, ex[x].hashes, left, ex[x].asOf)
           s0 == [ex[x] EXCEPT !.loaded = loaded]
           s2 == [s0 EXCEPT !.left = left, !.pc = pc]
<1>3. CASE run[r].there /\ ex' = [ex EXCEPT ![x].loaded = Enter(@, e, ep), ![x].left = @ \ {e}, ![x].pc = pc]
  <2>1. IsProcess(ex[x])
    BY <1>1 DEF Process
  <2>2. ex' = [ex EXCEPT ![x] = s2]
    <3> HIDE DEF ep, pc
    <3> QED
      BY <1>3
  <2> HIDE DEF loaded, left, pc
  <2>3. s1 = s2
    <3>1. s0 = Proc(ex[x].pc, ex[x].req, ex[x].used, loaded, ex[x].hashes, ex[x].left, ex[x].asOf)
      BY <2>1, SetLoaded, Zenon
    <3> HIDE DEF s0
    <3>2. /\ IsProcess(s0) /\ s0.req = ex[x].req /\ s0.used = ex[x].used /\ s0.loaded = loaded
          /\ s0.hashes = ex[x].hashes /\ s0.asOf = ex[x].asOf
      BY <3>1, ProcFields
    <3>3. s2 = Proc(pc, s0.req, s0.used, s0.loaded, s0.hashes, left, s0.asOf)
      <4>1. \A a, b : [s0 EXCEPT !.left = a, !.pc = b]
                         = Proc(b, s0.req, s0.used, s0.loaded, s0.hashes, a, s0.asOf)
        BY <3>2, SetLeftPc, Zenon
      <4> QED
        BY <4>1, Zenon
    <3> HIDE DEF s2
    <3> QED
      BY <3>2, <3>3
  <2>4. /\ IsProcess(s1) /\ s1.pc = pc /\ s1.req = ex[x].req /\ s1.used = ex[x].used
        /\ s1.loaded = loaded /\ s1.left = left /\ s1.asOf = ex[x].asOf
        /\ s1.hashes = ex[x].hashes
    BY ProcFields
  <2> HIDE DEF s1, s2
  <2>5. /\ ex[x].req \in Requests
        /\ DOMAIN ex[x].used \subseteq Episodes
        /\ \A a \in DOMAIN ex[x].used : ex[x].used[a] \in Runs
        /\ ex[x].left \subseteq DOMAIN ex[x].used /\ ex[x].left # {}
        /\ DOMAIN ex[x].loaded = DOMAIN ex[x].used \ ex[x].left
        /\ DOMAIN ex[x].loaded \subseteq DOMAIN ex[x].hashes
        /\ ex[x].asOf \in Nat /\ ex[x].asOf <= writes
        /\ \A a \in DOMAIN ex[x].loaded :
              /\ ex[x].loaded[a].made \in Nat /\ ex[x].hashes[a] \in Nat
              /\ ex[x].hashes[a] <= ex[x].loaded[a].made
              /\ ex[x].asOf = writes => run[ex[x].used[a]].there
                                        /\ run[ex[x].used[a]].segs = ex[x].loaded[a].segs
        /\ e \in DOMAIN ex[x].hashes /\ ex[x].hashes[e] \in Nat
        /\ ex[x].hashes[e] <= run[r].made
    BY <1>1 DEF Process, Memory, Unread, Loading, Running
  <2>6. e \in ex[x].left
    BY <2>5, MinOfSome, SinkAssumption
  <2>7. r \in Runs /\ run[r].made \in Nat
    BY <1>1, <2>5, <2>6 DEF RunsTrue
  <2>8. /\ DOMAIN loaded = DOMAIN ex[x].loaded \cup {e}
        /\ loaded[e].made = run[r].made /\ loaded[e].segs = run[r].segs
        /\ \A a \in DOMAIN ex[x].loaded : loaded[a] = ex[x].loaded[a]
    BY <2>5, <2>6 DEF loaded, Enter
  <2>9. /\ pc \in {"check", "manifest"}
        /\ pc = "manifest" => left # {}
        /\ pc = "check" => left = {}
        /\ left = ex[x].left \ {e}
    BY <2>6 DEF pc, left
  <2>10. Unread(s1) = left
    BY <2>4, <2>9 DEF Unread, Loading
  <2>11. \A a \in DOMAIN loaded :
            /\ loaded[a].made \in Nat /\ ex[x].hashes[a] \in Nat
            /\ ex[x].hashes[a] <= loaded[a].made
            /\ ex[x].asOf = writes => run[ex[x].used[a]].there
                                      /\ run[ex[x].used[a]].segs = loaded[a].segs
    BY <1>3, <2>5, <2>7, <2>8
  <2> HIDE DEF e, r, ep
  <2>12. DOMAIN loaded = DOMAIN ex[x].used \ left /\ DOMAIN loaded \subseteq DOMAIN ex[x].hashes
    BY <2>5, <2>6, <2>8, <2>9
  <2>13. Memory(s1, run, writes)
    BY <2>4, <2>5, <2>9, <2>10, <2>11, <2>12 DEF Memory, Loading
  <2>14. Process(s1, run, writes) /\ s1.pc \notin Writing
    BY <2>4, <2>9, <2>13 DEF Process, Writer, Writing
  <2>15. ex' = [ex EXCEPT ![x] = s1]
    BY <2>2, <2>3
  <2> QED
    BY <1>1, <2>14, <2>15, Aside
<1> QED
  BY <1>2, <1>3 DEF LoadAnnotation, NextEpisode

\* The comparison with an export that is there changes no file.
LEMMA CheckKeeps == ASSUME IInv, NEW x \in Exporters, CheckExisting(x) PROVE IInv'
<1>1. /\ UNCHANGED runVars /\ UNCHANGED treeVars /\ ex[x].pc = "check"
      /\ Process(ex[x], run, writes)
  BY DEF CheckExisting, Quiet, IInv, runVars, At, Processes
<1>2. CASE Goto(x, "prepare")
  <2> DEFINE s1 == [ex[x] EXCEPT !.pc = "prepare"]
  <2>1. /\ ex' = [ex EXCEPT ![x] = s1] /\ SameMemory(ex[x], s1)
        /\ s1.pc = "prepare" /\ IsProcess(s1)
    BY <1>2, GoesOn DEF Ended
  <2> HIDE DEF s1
  <2>2. Memory(s1, run, writes)
    BY <1>1, <2>1, MemoryKept DEF SameMemory, Past, Process
  <2>3. s1.pc \notin Writing /\ s1.pc # "resolve"
    BY <2>1 DEF Writing
  <2>4. Process(s1, run, writes)
    BY <2>1, <2>2, <2>3 DEF Process, Writer
  <2> QED
    BY <1>1, <2>1, <2>3, <2>4, Aside
<1>3. CASE \E pc \in Ended : Goto(x, pc)
  BY <1>1, <1>3, Ends
<1>4. \/ Goto(x, "done") \/ Goto(x, "prepare") \/ Goto(x, "reused") \/ Goto(x, "refused")
  BY Zenon DEF CheckExisting
<1>5. "done" \in Ended /\ "reused" \in Ended /\ "refused" \in Ended
  BY DEF Ended
<1> QED
  BY <1>2, <1>3, <1>4, <1>5

\* A backup that fails leaves nothing.
LEMMA BackupFailsKeeps == ASSUME IInv, NEW x \in Exporters, BackupFails(x) PROVE IInv'
  BY Ends DEF BackupFails, Quiet, Ended, runVars

\* A kill leaves the files as they are.
LEMMA KillKeeps == ASSUME IInv, NEW x \in Exporters, Kill(x) PROVE IInv'
  BY Ends DEF Kill, Ended

-----------------------------------------------------------------------------
\* Steps that write a tree.

\* The staging tree of x is written, or begun and left.
LEMMA Stages ==
    ASSUME IInv, NEW x \in Exporters, NEW s1, NEW t1, Process(s1, run, writes),
           ex' = [ex EXCEPT ![x] = s1], staging' = [staging EXCEPT ![x] = t1],
           s1.pc \notin {"install", "drop"}, s1.pc \in Writing => ~s1.req.inPlace,
           Staged(t1, s1, run, writes, Once),
           UNCHANGED runVars, UNCHANGED <<dataset, backups, out, stash, published, inPlace>>
    PROVE  IInv'
<1>1. /\ RunsTrue' /\ Processes'
      /\ ex' = [y \in Exporters |-> ex'[y]]
      /\ ex'[x] = s1 /\ \A y \in Exporters : y # x => ex'[y] = ex[y]
  BY ProcessStep
<1>2. run' = run /\ writes' = writes
  BY DEF runVars
<1>3. Tables /\ OutTrue /\ DatasetTrue
  BY DEF IInv
<1>4. /\ staging' = [y \in Exporters |-> staging'[y]]
      /\ staging'[x] = t1 /\ \A y \in Exporters : y # x => staging'[y] = staging[y]
  BY <1>3 DEF Tables
<1>5. Tables'
  BY <1>1, <1>3, <1>4 DEF Tables
<1>6. OutTrue'
  <2>1. \A y \in Exporters :
           /\ Staged(staging'[y], ex'[y], run', writes', Once)
           /\ ex'[y].pc = "install" => ex[y].pc = "install"
           /\ ex'[y].pc = "drop" => ex[y].pc = "drop"
    BY <1>1, <1>2, <1>3, <1>4 DEF OutTrue
  <2> QED
    BY <1>2, <1>3, <2>1 DEF OutTrue, At, Once
<1>7. DatasetTrue'
  <2>1. ~(s1.req.inPlace /\ s1.pc \in Filling)
    BY DEF Writing, Filling, HasLists
  <2>2. \A y \in Exporters : Filler(y)' => Filler(y) /\ ex'[y] = ex[y]
    BY <1>1, <2>1 DEF Filler, Req
  <2>3. \A y \in Exporters :
           ex'[y].req.inPlace /\ ex'[y].pc \in Writing => ex'[y] = ex[y]
    BY <1>1
  <2> QED
    BY <1>2, <1>3, <2>2, <2>3 DEF DatasetTrue, Req
<1> QED
  BY <1>1, <1>5, <1>6, <1>7 DEF IInv

\* The dataset is copied before an export writes to it.
LEMMA BacksUp ==
    ASSUME IInv, NEW x \in Exporters, NEW s1, Process(s1, run, writes),
           ex' = [ex EXCEPT ![x] = s1], s1.pc = "registry" \/ s1.pc \notin Writing,
           s1.pc = "registry" => s1.req.inPlace,
           UNCHANGED runVars, UNCHANGED <<dataset, out, staging, stash, published, inPlace>>
    PROVE  IInv'
<1>1. /\ RunsTrue' /\ Processes'
      /\ ex' = [y \in Exporters |-> ex'[y]]
      /\ ex'[x] = s1 /\ \A y \in Exporters : y # x => ex'[y] = ex[y]
  BY ProcessStep
<1>2. run' = run /\ writes' = writes
  BY DEF runVars
<1>3. Tables /\ OutTrue /\ DatasetTrue
  BY DEF IInv
<1>4. Tables'
  BY <1>1, <1>3 DEF Tables
<1>5. s1.pc \notin Filling /\ s1.pc \notin {"install", "drop", "stash", "fresh"}
  BY DEF Writing, Filling, HasLists
<1>6. OutTrue'
  <2>1. Staged(staging[x], s1, run, writes, Once)
    BY <1>5 DEF Staged
  <2>2. \A y \in Exporters :
           /\ Staged(staging[y], ex'[y], run', writes', Once)
           /\ ex'[y].pc = "install" => ex[y].pc = "install"
           /\ ex'[y].pc = "drop" => ex[y].pc = "drop"
    BY <1>1, <1>2, <1>3, <1>5, <2>1 DEF OutTrue
  <2> QED
    BY <1>2, <1>3, <2>2 DEF OutTrue, At, Once
<1>7. DatasetTrue'
  <2>1. \A y \in Exporters : Filler(y)' => Filler(y) /\ ex'[y] = ex[y]
    BY <1>1, <1>5 DEF Filler, Req
  <2> QED
    BY <1>2, <1>3, <2>1 DEF DatasetTrue
<1> QED
  BY <1>1, <1>4, <1>6, <1>7 DEF IInv

\* A kill during the backup leaves the files of the dataset as they are.
LEMMA KillInBackupKeeps == ASSUME IInv, NEW x \in Exporters, KillInBackup(x) PROVE IInv'
<1>1. \E s1 : /\ ex' = [ex EXCEPT ![x] = s1] /\ s1.pc = "killed"
              /\ Process(s1, run, writes)
  <2> DEFINE s1 == [Idle EXCEPT !.pc = "killed"]
  <2>1. ex' = [ex EXCEPT ![x] = s1]
    BY DEF KillInBackup, Goto, Ended
  <2>2. IsProcess(s1) /\ s1.pc = "killed"
    BY DEF Idle, IsProcess
  <2> HIDE DEF s1
  <2>3. Process(s1, run, writes)
    BY <2>2 DEF Process, Memory, Writer, Running, Writing
  <2> QED
    BY <2>1, <2>2, <2>3
<1>2. "killed" \notin Writing
  BY DEF Writing
<1> QED
  BY <1>1, <1>2, BacksUp DEF KillInBackup

\* The layout, or the backup, and the canonical episodes: the gates have been passed.
LEMMA PrepareKeeps == ASSUME IInv, NEW x \in Exporters, PrepareLayout(x) PROVE IInv'
<1> DEFINE s == ex[x]
           left == DOMAIN ex[x].used
<1>1. /\ UNCHANGED runVars /\ ex[x].pc = "prepare" /\ Process(ex[x], run, writes)
      /\ UNCHANGED <<dataset, out, stash, published, inPlace>>
  BY DEF PrepareLayout, Quiet, IInv, runVars, At, Processes
<1>2. \E s1 : /\ ex' = [ex EXCEPT ![x] = s1] /\ Process(s1, run, writes)
              /\ \/ s1.pc = "registry" /\ s1.req = ex[x].req
                 \/ s1.pc = "failed"
  <2>1. CASE Goto(x, "failed")
    <3> DEFINE s1 == [Idle EXCEPT !.pc = "failed"]
    <3>1. ex' = [ex EXCEPT ![x] = s1]
      BY <2>1 DEF Goto, Ended
    <3>2. IsProcess(s1) /\ s1.pc = "failed"
      BY DEF Idle, IsProcess
    <3> HIDE DEF s1
    <3>3. Process(s1, run, writes)
      BY <3>2 DEF Process, Memory, Writer, Running, Writing
    <3> QED
      BY <3>1, <3>2, <3>3
  <2>2. CASE /\ \A e \in DOMAIN ex[x].loaded :
                  Canonical(ex[x].req.profile, About[ex[x].used[e]].degraded, ex[x].loaded[e].segs)
             /\ ex' = [ex EXCEPT ![x].left = DOMAIN ex[x].used, ![x].pc = "registry"]
    <3> DEFINE s1 == Proc("registry", ex[x].req, ex[x].used, ex[x].loaded, ex[x].hashes,
                          left, ex[x].asOf)
               s2 == [ex[x] EXCEPT !.left = left, !.pc = "registry"]
    <3>1. ex' = [ex EXCEPT ![x] = s2]
      BY <2>2
    <3> HIDE DEF left
    <3>2. s2 = s1
      <4>1. IsProcess(ex[x])
        BY <1>1 DEF Process
      <4>2. \A a, b : [ex[x] EXCEPT !.left = a, !.pc = b]
                         = Proc(b, ex[x].req, ex[x].used, ex[x].loaded, ex[x].hashes, a, ex[x].asOf)
        BY <4>1, SetLeftPc, Zenon
      <4> QED
        BY <4>2, Zenon
    <3>3. /\ IsProcess(s1) /\ s1.pc = "registry" /\ s1.req = ex[x].req /\ s1.used = ex[x].used
          /\ s1.loaded = ex[x].loaded /\ s1.hashes = ex[x].hashes /\ s1.left = left
          /\ s1.asOf = ex[x].asOf
      BY ProcFields
    <3> HIDE DEF s1, s2
    <3>4. Memory(s1, run, writes)
      BY <1>1, <3>3, MemoryKept DEF Past, Writing, Process
    <3>5. DOMAIN ex[x].loaded = DOMAIN ex[x].used
      BY <1>1 DEF Process, Memory, Running, Unread, Loading
    <3>6. GatesPassed(s1)
      BY <2>2, <3>3, <3>5 DEF GatesPassed, Canonical
    <3>7. Process(s1, run, writes)
      BY <3>3, <3>4, <3>6 DEF Process, Writer, left
    <3> QED
      BY <3>1, <3>2, <3>3, <3>7
  <2> QED
    BY <2>1, <2>2 DEF PrepareLayout, Eps, Req
<1>3. PICK s1 : /\ ex' = [ex EXCEPT ![x] = s1] /\ Process(s1, run, writes)
                /\ \/ s1.pc = "registry" /\ s1.req = ex[x].req
                   \/ s1.pc = "failed"
  BY <1>2
<1>4. s1.pc = "registry" \/ s1.pc \notin Writing
  BY <1>3 DEF Writing
<1>5. CASE ex[x].req.inPlace
  <2>1. UNCHANGED staging
    BY <1>5 DEF PrepareLayout, Req
  <2> QED
    BY <1>1, <1>3, <1>4, <1>5, <2>1, BacksUp
<1>6. CASE ~ex[x].req.inPlace
  <2>1. staging' = [staging EXCEPT ![x] = EmptyTree] /\ UNCHANGED backups
    BY <1>6 DEF PrepareLayout, Req
  <2>2. IsTree(EmptyTree) /\ EmptyTree.data = NoFiles
    BY DEF IsTree, EmptyTree
  <2>3. Staged(EmptyTree, s1, run, writes, Once)
    BY <1>3, <2>2 DEF Staged, Filling, HasLists
  <2> QED
    BY <1>1, <1>3, <1>4, <1>6, <2>1, <2>3, Stages
<1> QED
  BY <1>5, <1>6


\* The dataset is written by the exporter that is at it.
LEMMA Fills ==
    ASSUME IInv, NEW x \in Exporters, NEW s1, NEW t1, Process(s1, run, writes),
           ex' = [ex EXCEPT ![x] = s1], dataset' = t1, Filler(x),
           s1.req.inPlace, s1.pc \in Filling,
           IsTree(t1), DOMAIN t1.data = Episodes, IsSeq(t1.lists),
           \A e \in Episodes : IsSeq(t1.data[e]),
           inPlace.began = 1 => Built(t1, s1, TRUE) /\ Untouched(t1, s1),
           UNCHANGED runVars, UNCHANGED <<backups, out, staging, stash, published, inPlace>>
    PROVE  IInv'
<1>1. /\ RunsTrue' /\ Processes'
      /\ ex' = [y \in Exporters |-> ex'[y]]
      /\ ex'[x] = s1 /\ \A y \in Exporters : y # x => ex'[y] = ex[y]
  BY ProcessStep
<1>2. run' = run /\ writes' = writes
  BY DEF runVars
<1>3. Tables /\ OutTrue /\ DatasetTrue
  BY DEF IInv
<1>4. Tables'
  BY <1>1, <1>3 DEF Tables
<1>5. s1.pc \notin {"install", "drop"} /\ ex[x].pc \notin {"install", "drop"}
  BY DEF Filler, Filling, HasLists
<1>6. OutTrue'
  <2>1. Staged(staging[x], s1, run, writes, Once)
    BY DEF Staged
  <2>2. \A y \in Exporters :
           /\ Staged(staging[y], ex'[y], run', writes', Once)
           /\ ex'[y].pc = "install" <=> ex[y].pc = "install"
           /\ ex'[y].pc = "drop" <=> ex[y].pc = "drop"
    BY <1>1, <1>2, <1>3, <1>5, <2>1 DEF OutTrue
  <2> QED
    BY <1>2, <1>3, <2>2 DEF OutTrue, At, Once
<1>7. DatasetTrue'
  <2>1. \A y \in Exporters : Filler(y)' <=> Filler(y)
    BY <1>1 DEF Filler, Req
  <2>2. inPlace.began # 0
    BY <1>3 DEF DatasetTrue
  <2>3. inPlace' = inPlace
    OBVIOUS
  <2>4. inPlace.began = 1 =>
           /\ inPlace.finished = 0
           /\ \A y, z \in Exporters : Filler(y)' /\ Filler(z)' => y = z
           /\ \A y \in Exporters :
                 Filler(y)' => Built(t1, ex'[y], TRUE) /\ Untouched(t1, ex'[y])
    BY <1>1, <1>3, <2>1 DEF DatasetTrue
  <2> QED
    BY <1>3, <2>2, <2>3, <2>4 DEF DatasetTrue
<1> QED
  BY <1>1, <1>4, <1>6, <1>7 DEF IInv

\* An export begins to write to the dataset.
LEMMA Begins ==
    ASSUME IInv, NEW x \in Exporters, NEW s1, NEW t1, Process(s1, run, writes),
           ex' = [ex EXCEPT ![x] = s1], dataset' = t1, ex[x].pc = "registry",
           Req(x).inPlace, s1.req.inPlace, s1.pc \in {"data", "lists"},
           IsTree(t1), DOMAIN t1.data = Episodes, IsSeq(t1.lists),
           \A e \in Episodes : IsSeq(t1.data[e]),
           inPlace.began = 0 => Built(t1, s1, TRUE) /\ Untouched(t1, s1),
           inPlace' = [began |-> inPlace.began + 1, finished |-> inPlace.finished],
           UNCHANGED runVars, UNCHANGED <<backups, out, staging, stash, published>>
    PROVE  IInv'
<1>1. /\ RunsTrue' /\ Processes'
      /\ ex' = [y \in Exporters |-> ex'[y]]
      /\ ex'[x] = s1 /\ \A y \in Exporters : y # x => ex'[y] = ex[y]
  BY ProcessStep
<1>2. run' = run /\ writes' = writes
  BY DEF runVars
<1>3. Tables /\ OutTrue /\ DatasetTrue
  BY DEF IInv
<1>4. Tables'
  BY <1>1, <1>3 DEF Tables
<1>5. /\ inPlace'.began = inPlace.began + 1 /\ inPlace'.finished = inPlace.finished
      /\ inPlace' = [began |-> inPlace'.began, finished |-> inPlace'.finished]
      /\ inPlace.began \in Nat /\ inPlace.finished \in Nat
  BY <1>3 DEF DatasetTrue
<1>6. OutTrue'
  <2>1. /\ out # Absent => Good(out, run, writes, FALSE)
        /\ \A y \in Exporters : /\ stash[y] # Absent => Good(stash[y], run, writes, FALSE)
                                /\ Staged(staging[y], ex[y], run, writes, FALSE)
    BY <1>3, OnceLess DEF OutTrue
  <2>2. Once' = FALSE
    BY <1>5 DEF Once
  <2>3. Staged(staging[x], s1, run, writes, FALSE)
    BY DEF Staged
  <2>4. \A y \in Exporters :
           /\ Staged(staging[y], ex'[y], run', writes', FALSE)
           /\ ex'[y].pc = "install" <=> ex[y].pc = "install"
           /\ ex'[y].pc = "drop" <=> ex[y].pc = "drop"
    BY <1>1, <1>2, <2>1, <2>3
  <2> QED
    BY <1>2, <1>3, <2>1, <2>2, <2>4 DEF OutTrue, At
<1>7. DatasetTrue'
  <2>1. \A y \in Exporters : Filler(y)' => y = x \/ Filler(y)
    BY <1>1 DEF Filler, Req
  <2>3. inPlace'.began = 1 =>
           /\ inPlace'.finished = 0
           /\ \A y \in Exporters : Filler(y)' => y = x
           /\ Built(t1, s1, TRUE) /\ Untouched(t1, s1)
    <3> SUFFICES ASSUME inPlace'.began = 1
                 PROVE  /\ inPlace'.finished = 0
                        /\ \A y \in Exporters : Filler(y)' => y = x
                        /\ Built(t1, s1, TRUE) /\ Untouched(t1, s1)
      OBVIOUS
    <3>1. inPlace.began = 0
      BY <1>5
    <3>2. inPlace.finished = 0 /\ \A y \in Exporters : ~Filler(y)
      BY <1>3, <3>1 DEF DatasetTrue
    <3> QED
      BY <1>5, <2>1, <3>1, <3>2
  <2>4. /\ IsTree(dataset') /\ DOMAIN dataset'.data = Episodes /\ IsSeq(dataset'.lists)
        /\ \A e \in Episodes : IsSeq(dataset'.data[e])
    OBVIOUS
  <2>5. inPlace'.began # 0 /\ inPlace'.began \in Nat /\ inPlace'.finished \in Nat
    BY <1>5
  <2>6. inPlace'.began = 1 =>
           /\ inPlace'.finished = 0
           /\ \A y, z \in Exporters : Filler(y)' /\ Filler(z)' => y = z
           /\ \A y \in Exporters :
                 Filler(y)' => Built(dataset', ex'[y], TRUE) /\ Untouched(dataset', ex'[y])
    BY <1>1, <2>3
  <2> QED
    BY <1>5, <2>4, <2>5, <2>6 DEF DatasetTrue
<1> QED
  BY <1>1, <1>4, <1>6, <1>7 DEF IInv

-----------------------------------------------------------------------------
\* The steps of write_all, in either place.

\* One file of a tree is written.
LEMMA TreeReg ==
    ASSUME NEW t, IsTree(t), NEW a, NEW t1, t1 = [t EXCEPT !.reg = a]
    PROVE  /\ IsTree(t1)
           /\ t1.reg = a /\ t1.data = t.data /\ t1.lists = t.lists
  BY DEF IsTree

\* ... data files,
LEMMA TreeData ==
    ASSUME NEW t, IsTree(t), NEW a, NEW t1, t1 = [t EXCEPT !.data = a]
    PROVE  /\ IsTree(t1)
           /\ t1.reg = t.reg /\ t1.data = a /\ t1.lists = t.lists
  BY DEF IsTree

\* ... the list columns,
LEMMA TreeLists ==
    ASSUME NEW t, IsTree(t), NEW a, NEW t1, t1 = [t EXCEPT !.lists = a]
    PROVE  /\ IsTree(t1)
           /\ t1.reg = t.reg /\ t1.data = t.data /\ t1.lists = a
  BY DEF IsTree

\* ... the sidecar,
LEMMA TreeSide ==
    ASSUME NEW t, IsTree(t), NEW a, NEW t1, t1 = [t EXCEPT !.side = a]
    PROVE  /\ IsTree(t1)
           /\ t1.reg = t.reg /\ t1.data = t.data /\ t1.lists = t.lists
           /\ t1.side = a
  BY DEF IsTree

\* ... the other meta files,
LEMMA TreeMeta ==
    ASSUME NEW t, IsTree(t), NEW a, NEW t1, t1 = [t EXCEPT !.meta = a]
    PROVE  /\ IsTree(t1)
           /\ t1.reg = t.reg /\ t1.data = t.data /\ t1.lists = t.lists
           /\ t1.side = t.side /\ t1.meta = a
  BY DEF IsTree

\* ... and the export manifest.
LEMMA TreeProv ==
    ASSUME NEW t, IsTree(t), NEW a, NEW t1, t1 = [t EXCEPT !.prov = a]
    PROVE  /\ IsTree(t1)
           /\ t1.reg = t.reg /\ t1.data = t.data /\ t1.lists = t.lists
           /\ t1.side = t.side /\ t1.meta = t.meta /\ t1.prov = a
  BY DEF IsTree

\* No other export has written to the dataset x writes to.
First(x) == Req(x).inPlace => inPlace.began = 1
\* The tree of x gets one column only.
Single(x) == Req(x).inPlace \/ Once

\* What is in the place a step of write_all writes to.
LEMMA PlaceTrue ==
    ASSUME IInv, NEW x \in Exporters, ex[x].pc \in Filling
    PROVE  /\ IsTree(Place(x))
           /\ First(x) => Built(Place(x), ex[x], Single(x))
           /\ Req(x).inPlace => /\ DOMAIN Place(x).data = Episodes /\ IsSeq(Place(x).lists)
                                /\ \A e \in Episodes : IsSeq(Place(x).data[e])
                                /\ First(x) => Untouched(Place(x), ex[x])
           /\ Process(ex[x], run, writes)
<1>1. OutTrue /\ DatasetTrue /\ Process(ex[x], run, writes)
  BY DEF IInv, Processes
<1>2. CASE Req(x).inPlace
  <2>1. Filler(x)
    BY <1>2 DEF Filler
  <2>2. First(x) => Built(dataset, ex[x], TRUE) /\ Untouched(dataset, ex[x])
    BY <1>1, <1>2, <2>1 DEF DatasetTrue, First
  <2>3. Single(x) = TRUE
    BY <1>2 DEF Single
  <2> QED
    BY <1>1, <1>2, <2>2, <2>3 DEF Place, DatasetTrue
<1>3. CASE ~Req(x).inPlace
  <2>1. Built(staging[x], ex[x], Once)
    BY <1>1, <1>3 DEF OutTrue, Staged, Req
  <2>2. Single(x) <=> Once
    BY <1>3 DEF Single
  <2>3. Built(staging[x], ex[x], Single(x))
    BY <2>1, <2>2 DEF Built
  <2>4. IsTree(staging[x])
    BY <2>1 DEF Built
  <2> QED
    BY <1>1, <1>3, <2>3, <2>4 DEF Place
<1> QED
  BY <1>2, <1>3

\* What is appended to.
LEMMA SourceTrue ==
    ASSUME IInv, NEW x \in Exporters, ex[x].pc \in Filling
    PROVE  /\ ex[x].pc = "lists" =>
                 IsSeq(dataset.lists) /\ (First(x) /\ Single(x) => dataset.lists = << >>)
           /\ ex[x].pc = "data" => \A e \in ex[x].left \cap Episodes :
                 IsSeq(dataset.data[e]) /\ (First(x) /\ Single(x) => dataset.data[e] = << >>)
<1>1. DatasetTrue
  BY DEF IInv
<1>2. CASE Req(x).inPlace
  <2>1. First(x) => Untouched(dataset, ex[x])
    BY <1>2, PlaceTrue DEF Place
  <2> QED
    BY <1>1, <2>1 DEF DatasetTrue, Untouched
<1>3. CASE ~Req(x).inPlace
  <2>1. Single(x) => dataset = Original
    BY <1>1, <1>3 DEF DatasetTrue, Single, Once
  <2> QED
    BY <1>1, <2>1 DEF DatasetTrue, Original
<1> QED
  BY <1>2, <1>3

\* The tree goes to its place.
LEMMA Writes ==
    ASSUME IInv, NEW x \in Exporters, NEW s1, NEW t1, Process(s1, run, writes),
           ex' = [ex EXCEPT ![x] = s1], s1.req = ex[x].req,
           ex[x].pc \in Filling, s1.pc \in Filling, Write(x, t1), IsTree(t1),
           First(x) => Built(t1, s1, Single(x)),
           Req(x).inPlace => /\ DOMAIN t1.data = Episodes /\ IsSeq(t1.lists)
                             /\ \A e \in Episodes : IsSeq(t1.data[e])
                             /\ First(x) => Untouched(t1, s1),
           UNCHANGED runVars
    PROVE  IInv'
<1>1. CASE Req(x).inPlace
  <2>1. dataset' = t1 /\ UNCHANGED <<backups, out, staging, stash, published, inPlace>>
    BY <1>1 DEF Write
  <2>2. Filler(x) /\ s1.req.inPlace
    BY <1>1 DEF Filler, Req
  <2>3. Single(x) = TRUE
    BY <1>1 DEF Single
  <2>4. inPlace.began = 1 => Built(t1, s1, TRUE) /\ Untouched(t1, s1)
    BY <1>1, <2>3 DEF First
  <2> QED
    BY <1>1, <2>1, <2>2, <2>4, Fills
<1>2. CASE ~Req(x).inPlace
  <2>1. /\ staging' = [staging EXCEPT ![x] = t1]
        /\ UNCHANGED <<dataset, backups, out, stash, published, inPlace>>
    BY <1>2 DEF Write
  <2>2. Built(t1, s1, Once)
    BY <1>2 DEF First, Single, Built
  <2>3. s1.pc \notin {"install", "drop", "registry", "stash", "fresh"}
    BY DEF Filling, HasLists
  <2>4. Staged(t1, s1, run, writes, Once)
    BY <2>2, <2>3 DEF Staged
  <2>5. ~s1.req.inPlace
    BY <1>2 DEF Req
  <2> QED
    BY <2>1, <2>3, <2>4, <2>5, Stages
<1> QED
  BY <1>1, <1>2

\* Between two files of write_all.
LEMMA Onward ==
    ASSUME IInv, NEW x \in Exporters, NEW pc \in HasLists,
           ex[x].pc \in Filling \ {"data"}, Goto(x, pc)
    PROVE  \E s1 : /\ ex' = [ex EXCEPT ![x] = s1] /\ s1.pc = pc /\ SameMemory(ex[x], s1)
                   /\ Process(s1, run, writes)
<1> DEFINE s1 == [ex[x] EXCEPT !.pc = pc]
<1>1. pc \notin Ended
  BY DEF HasLists, Ended
<1>2. /\ ex' = [ex EXCEPT ![x] = s1] /\ SameMemory(ex[x], s1)
      /\ s1.pc = pc /\ IsProcess(s1)
  BY <1>1, GoesOn
<1> HIDE DEF s1
<1>3. Process(ex[x], run, writes)
  BY DEF IInv, Processes
<1>4. ex[x].pc \in Past /\ s1.pc \in Past /\ ex[x].pc \in Writing
  BY <1>2 DEF Filling, HasLists, Past, Writing
<1>5. Memory(s1, run, writes)
  BY <1>2, <1>3, <1>4, MemoryKept DEF SameMemory, Process
<1>6. Writer(s1)
  <2>1. GatesPassed(ex[x])
    BY <1>3, <1>4 DEF Process, Writer
  <2>2. GatesPassed(s1)
    BY <1>2, <2>1 DEF GatesPassed, SameMemory
  <2> QED
    BY <1>2, <2>2 DEF Writer, HasLists
<1>7. s1.pc # "resolve"
  BY <1>2 DEF HasLists
<1> QED
  BY <1>2, <1>5, <1>6, <1>7 DEF Process

\* The list columns go behind the source's.
LEMMA WriteListsKeeps == ASSUME IInv, NEW x \in Exporters, WriteLists(x) PROVE IInv'
<1>1. UNCHANGED runVars /\ ex[x].pc = "lists" /\ ex[x].pc \in Filling \ {"data"}
  BY DEF WriteLists, Quiet, runVars, At, Filling
<1>2. CASE Goto(x, "failed") /\ UNCHANGED treeVars
  BY <1>1, <1>2, Ends DEF Ended
<1>3. CASE /\ Goto(x, "side")
           /\ Write(x, [Place(x) EXCEPT !.lists = Append(dataset.lists, ListColumn(Eps(x)))])
  <2> DEFINE t == Place(x)
             column == ListColumn(ex[x].loaded)
             lists == Append(dataset.lists, column)
             t1 == [t EXCEPT !.lists = lists]
  <2>1. PICK s1 : /\ ex' = [ex EXCEPT ![x] = s1] /\ s1.pc = "side" /\ SameMemory(ex[x], s1)
                  /\ Process(s1, run, writes)
    BY <1>1, <1>3, Onward DEF HasLists
  <2>2. Write(x, t1)
    BY <1>3 DEF Eps
  <2>3. /\ IsTree(t) /\ (First(x) => Built(t, ex[x], Single(x)))
        /\ Req(x).inPlace => /\ DOMAIN t.data = Episodes
                             /\ \A e \in Episodes : IsSeq(t.data[e])
        /\ Process(ex[x], run, writes)
    BY <1>1, PlaceTrue
  <2>4. IsSeq(dataset.lists) /\ (First(x) /\ Single(x) => dataset.lists = << >>)
    BY <1>1, SourceTrue
  <2>5. IsSeq(lists)
    BY <2>4, Appended
  <2> HIDE DEF t, lists
  <2>6. IsTree(t1) /\ t1.reg = t.reg /\ t1.data = t.data /\ t1.lists = lists
    BY <2>3, TreeLists
  <2> HIDE DEF t1
  <2>7. First(x) => Built(t1, s1, Single(x))
    BY <1>1, <2>1, <2>3, <2>4, <2>6, BuildLists DEF lists, Process
  <2>8. Untouched(t1, s1) /\ s1.pc \in Filling /\ s1.req = ex[x].req
    BY <2>1 DEF Untouched, Filling, HasLists, SameMemory
  <2> QED
    BY <1>1, <2>1, <2>2, <2>3, <2>5, <2>6, <2>7, <2>8, Writes
<1> QED
  BY <1>2, <1>3 DEF WriteLists

\* The sidecar has the segments and hashes that were read.
LEMMA WriteSidecarKeeps == ASSUME IInv, NEW x \in Exporters, WriteSidecar(x) PROVE IInv'
<1> DEFINE t == Place(x)
           side == [e \in DOMAIN ex[x].loaded |-> SidecarRows(ex[x].loaded[e], ex[x].hashes[e])]
           t1 == [t EXCEPT !.side = side]
<1>1. UNCHANGED runVars /\ ex[x].pc = "side" /\ ex[x].pc \in Filling \ {"data"}
  BY DEF WriteSidecar, Quiet, runVars, At, Filling, HasLists
<1>2. Goto(x, "validate") /\ Write(x, t1)
  BY DEF WriteSidecar, Eps
<1>3. PICK s1 : /\ ex' = [ex EXCEPT ![x] = s1] /\ s1.pc = "validate" /\ SameMemory(ex[x], s1)
                /\ Process(s1, run, writes)
  BY <1>1, <1>2, Onward DEF HasLists
<1>4. /\ IsTree(t) /\ (First(x) => Built(t, ex[x], Single(x)))
      /\ Req(x).inPlace => /\ DOMAIN t.data = Episodes /\ IsSeq(t.lists)
                           /\ \A e \in Episodes : IsSeq(t.data[e])
      /\ Process(ex[x], run, writes)
  BY <1>1, PlaceTrue
<1> HIDE DEF t, side
<1>5. IsTree(t1) /\ t1.reg = t.reg /\ t1.data = t.data /\ t1.lists = t.lists /\ t1.side = side
  BY <1>4, TreeSide
<1> HIDE DEF t1
<1>6. First(x) => Built(t1, s1, Single(x))
  BY <1>1, <1>3, <1>4, <1>5, BuildSidecar DEF side, Process
<1>7. Untouched(t1, s1) /\ s1.pc \in Filling /\ s1.req = ex[x].req
  BY <1>3 DEF Untouched, Filling, HasLists, SameMemory
<1> QED
  BY <1>1, <1>2, <1>3, <1>4, <1>5, <1>6, <1>7, Writes

\* A tree that is let through gets the remaining meta files.
LEMMA ValidateKeeps == ASSUME IInv, NEW x \in Exporters, Validate(x) PROVE IInv'
<1>1. UNCHANGED runVars /\ ex[x].pc = "validate" /\ ex[x].pc \in Filling \ {"data"}
  BY DEF Validate, Quiet, runVars, At, Filling, HasLists
<1>2. CASE Goto(x, "failed") /\ UNCHANGED treeVars
  BY <1>1, <1>2, Ends DEF Ended
<1>3. CASE Goto(x, "provenance") /\ Write(x, CopyMeta(Place(x)))
  <2> DEFINE t == Place(x)
             t1 == [t EXCEPT !.meta = TRUE]
  <2>1. PICK s1 : /\ ex' = [ex EXCEPT ![x] = s1] /\ s1.pc = "provenance"
                  /\ SameMemory(ex[x], s1) /\ Process(s1, run, writes)
    BY <1>1, <1>3, Onward DEF HasLists
  <2>2. Write(x, t1)
    BY <1>3 DEF CopyMeta
  <2>3. /\ IsTree(t) /\ (First(x) => Built(t, ex[x], Single(x)))
        /\ Req(x).inPlace => /\ DOMAIN t.data = Episodes /\ IsSeq(t.lists)
                             /\ \A e \in Episodes : IsSeq(t.data[e])
        /\ Process(ex[x], run, writes)
    BY <1>1, PlaceTrue
  <2> HIDE DEF t
  <2>4. /\ IsTree(t1) /\ t1.reg = t.reg /\ t1.data = t.data /\ t1.lists = t.lists
        /\ t1.side = t.side /\ t1.meta
    <3>1. \A a, u : u = [t EXCEPT !.meta = a] =>
                       /\ IsTree(u) /\ u.reg = t.reg /\ u.data = t.data /\ u.lists = t.lists
                       /\ u.side = t.side /\ u.meta = a
      BY <2>3, TreeMeta
    <3> DEFINE yes == TRUE
    <3>2. yes
      OBVIOUS
    <3>3. t1 = [t EXCEPT !.meta = yes]
      OBVIOUS
    <3> HIDE DEF yes, t1
    <3> QED
      BY <3>1, <3>2, <3>3
  <2> HIDE DEF t1
  <2>5. First(x) => Built(t1, s1, Single(x))
    BY <1>1, <2>1, <2>3, <2>4, BuildMeta DEF Process
  <2>6. Untouched(t1, s1) /\ s1.pc \in Filling /\ s1.req = ex[x].req
    BY <2>1 DEF Untouched, Filling, HasLists, SameMemory
  <2> QED
    BY <1>1, <2>1, <2>2, <2>3, <2>4, <2>5, <2>6, Writes
<1> QED
  BY <1>2, <1>3 DEF Validate

\* The manifest names what was read; the tree is complete.
LEMMA WriteProvenanceKeeps == ASSUME IInv, NEW x \in Exporters, WriteProvenance(x) PROVE IInv'
<1> DEFINE t == Place(x)
           prov == [profile |-> ex[x].req.profile, used |-> ex[x].used, hashes |-> ex[x].hashes,
                    subtasks |-> Len(Registry(ex[x].loaded)), asOf |-> ex[x].asOf]
           t1 == [t EXCEPT !.prov = prov]
<1>1. UNCHANGED runVars /\ ex[x].pc = "provenance" /\ ex[x].pc \in Filling \ {"data"}
  BY DEF WriteProvenance, Quiet, runVars, At, Filling, HasLists
<1>2. Goto(x, "swap") /\ Write(x, t1)
  BY DEF WriteProvenance, Eps, Req
<1>3. PICK s1 : /\ ex' = [ex EXCEPT ![x] = s1] /\ s1.pc = "swap" /\ SameMemory(ex[x], s1)
                /\ Process(s1, run, writes)
  BY <1>1, <1>2, Onward DEF HasLists
<1>4. /\ IsTree(t) /\ (First(x) => Built(t, ex[x], Single(x)))
      /\ Req(x).inPlace => /\ DOMAIN t.data = Episodes /\ IsSeq(t.lists)
                           /\ \A e \in Episodes : IsSeq(t.data[e])
      /\ Process(ex[x], run, writes)
  BY <1>1, PlaceTrue
<1> HIDE DEF t, prov
<1>5. /\ IsTree(t1) /\ t1.reg = t.reg /\ t1.data = t.data /\ t1.lists = t.lists
      /\ t1.side = t.side /\ t1.meta = t.meta /\ t1.prov = prov
  BY <1>4, TreeProv
<1> HIDE DEF t1
<1>6. First(x) => Built(t1, s1, Single(x))
  BY <1>1, <1>3, <1>4, <1>5, BuildProvenance DEF prov, Process
<1>7. Untouched(t1, s1) /\ s1.pc \in Filling /\ s1.req = ex[x].req
  BY <1>3 DEF Untouched, Filling, HasLists, SameMemory
<1> QED
  BY <1>1, <1>2, <1>3, <1>4, <1>5, <1>6, <1>7, Writes

\* The first file: an in-place export begins, one beside OUT fills its staging tree.
LEMMA WriteRegistryKeeps == ASSUME IInv, NEW x \in Exporters, WriteRegistry(x) PROVE IInv'
<1> DEFINE pc == IF ex[x].left = {} THEN "lists" ELSE "data"
           s1 == [ex[x] EXCEPT !.pc = pc]
           t == Place(x)
           reg == Registry(ex[x].loaded)
           t1 == [t EXCEPT !.reg = reg]
<1>1. /\ UNCHANGED runVars /\ ex[x].pc = "registry" /\ Goto(x, pc)
      /\ OutTrue /\ DatasetTrue /\ Process(ex[x], run, writes)
  BY DEF WriteRegistry, Quiet, runVars, At, IInv, Processes
<1>2. pc \in {"lists", "data"} /\ pc \notin Ended /\ (pc = "data" => ex[x].left # {})
  BY DEF Ended
<1> HIDE DEF pc
<1>3. /\ ex' = [ex EXCEPT ![x] = s1] /\ SameMemory(ex[x], s1)
      /\ s1.pc = pc /\ IsProcess(s1)
  BY <1>1, <1>2, GoesOn
<1> HIDE DEF s1
<1>4. ex[x].pc \in Past /\ s1.pc \in Past /\ ex[x].pc \in Writing
  BY <1>1, <1>2, <1>3 DEF Past, Writing
<1>5. Memory(s1, run, writes)
  BY <1>1, <1>3, <1>4, MemoryKept DEF SameMemory, Process
<1>6. IsTree(t)
  BY <1>1 DEF Place, OutTrue, Staged, DatasetTrue, Req
<1> HIDE DEF t, reg
<1>7. IsTree(t1) /\ t1.reg = reg /\ t1.data = t.data /\ t1.lists = t.lists
  BY <1>6, TreeReg
<1> HIDE DEF t1
<1>8. \A once : Built(t1, s1, once) /\ Writer(s1)
  <2>1. s1.pc = IF ex[x].left = {} THEN "lists" ELSE "data"
    BY <1>3 DEF pc
  <2>2. t1.reg = Registry(ex[x].loaded)
    BY <1>7 DEF reg
  <2>3. Writer(ex[x])
    BY <1>1 DEF Process
  <2> QED
    BY <1>1, <1>3, <1>7, <2>1, <2>2, <2>3, BuildRegistry
<1>9. Process(s1, run, writes)
  BY <1>2, <1>3, <1>5, <1>8 DEF Process
<1>10. CASE Req(x).inPlace
  <2>1. /\ dataset' = t1 /\ inPlace' = [inPlace EXCEPT !.began = @ + 1]
        /\ UNCHANGED <<backups, out, staging, stash, published>>
    BY <1>10 DEF WriteRegistry, t1, t, reg, Eps
  <2>2. inPlace' = [began |-> inPlace.began + 1, finished |-> inPlace.finished]
    <3> DEFINE began == inPlace.began + 1
    <3>1. inPlace' = [inPlace EXCEPT !.began = began]
      BY <2>1
    <3>2. inPlace = [began |-> inPlace.began, finished |-> inPlace.finished]
      BY <1>1 DEF DatasetTrue
    <3> HIDE DEF began
    <3>3. inPlace' = [began |-> began, finished |-> inPlace.finished]
      BY <3>1, <3>2
    <3> QED
      BY <3>3 DEF began
  <2>3. t = dataset
    BY <1>10 DEF t, Place
  <2>4. /\ DOMAIN t1.data = Episodes /\ IsSeq(t1.lists)
        /\ \A e \in Episodes : IsSeq(t1.data[e])
    BY <1>1, <1>7, <2>3 DEF DatasetTrue
  <2>5. inPlace.began = 0 => Built(t1, s1, TRUE) /\ Untouched(t1, s1)
    <3> SUFFICES ASSUME inPlace.began = 0 PROVE Untouched(t1, s1)
      BY <1>8
    <3>1. dataset = Original
      BY <1>1 DEF DatasetTrue
    <3>2. t1.lists = << >> /\ \A e \in Episodes : t1.data[e] = << >>
      BY <1>7, <2>3, <3>1 DEF Original
    <3>3. s1.left \subseteq Episodes
      <4>1. s1.left = ex[x].left
        BY <1>3 DEF SameMemory
      <4>2. ex[x].left = DOMAIN ex[x].used
        BY <1>1, <1>4 DEF Process, Writer
      <4>3. DOMAIN ex[x].used \subseteq Episodes
        BY <1>1 DEF Process, Memory, Running, Writing
      <4> QED
        BY <4>1, <4>2, <4>3
    <3> QED
      BY <3>2, <3>3 DEF Untouched
  <2>6. s1.req.inPlace /\ s1.pc \in {"data", "lists"}
    BY <1>2, <1>3, <1>10 DEF Req, SameMemory
  <2> QED
    BY <1>1, <1>3, <1>7, <1>9, <1>10, <2>1, <2>2, <2>4, <2>5, <2>6, Begins
<1>11. CASE ~Req(x).inPlace
  <2>1. /\ staging' = [staging EXCEPT ![x] = t1]
        /\ UNCHANGED <<dataset, backups, out, stash, published, inPlace>>
    BY <1>11 DEF WriteRegistry, Write, t1, t, reg, Eps
  <2>2. s1.pc \notin {"install", "drop", "registry", "stash", "fresh"}
    BY <1>2, <1>3
  <2>3. Staged(t1, s1, run, writes, Once)
    BY <1>8, <2>2 DEF Staged
  <2>4. ~s1.req.inPlace
    BY <1>3, <1>11 DEF Req, SameMemory
  <2> QED
    BY <1>1, <1>3, <1>9, <2>1, <2>2, <2>3, <2>4, Stages
<1> QED
  BY <1>10, <1>11

\* One data file: every frame has an index, or the export fails.
LEMMA WriteDataKeeps == ASSUME IInv, NEW x \in Exporters, WriteData(x) PROVE IInv'
<1> DEFINE e == NextEpisode(x)
           column == Column(ex[x].loaded[e].segs, Registry(ex[x].loaded))
           columns == Append(dataset.data[e], column)
           t == Place(x)
           data == Enter(t.data, e, columns)
           t1 == [t EXCEPT !.data = data]
           left == ex[x].left \ {e}
           pc == IF ex[x].left = {e} THEN "lists" ELSE "data"
<1>1. UNCHANGED runVars /\ ex[x].pc = "data" /\ ex[x].pc \in Filling
  BY DEF WriteData, Quiet, runVars, At, Filling
<1>2. CASE Goto(x, "failed") /\ UNCHANGED treeVars
  BY <1>1, <1>2, Ends DEF Ended
<1>3. CASE /\ ~ \E f \in Frames : column[f] = NoIndex
           /\ Write(x, t1)
           /\ ex' = [ex EXCEPT ![x].left = left, ![x].pc = pc]
  <2> DEFINE s1 == Proc(pc, ex[x].req, ex[x].used, ex[x].loaded, ex[x].hashes, left, ex[x].asOf)
             s2 == [ex[x] EXCEPT !.left = left, !.pc = pc]
  <2>1. ex' = [ex EXCEPT ![x] = s2]
    BY <1>3
  <2>2. /\ IsTree(t) /\ (First(x) => Built(t, ex[x], Single(x)))
        /\ Req(x).inPlace => /\ DOMAIN t.data = Episodes /\ IsSeq(t.lists)
                             /\ \A a \in Episodes : IsSeq(t.data[a])
                             /\ First(x) => Untouched(t, ex[x])
        /\ Process(ex[x], run, writes)
    BY <1>1, PlaceTrue
  <2>3. /\ GatesPassed(ex[x]) /\ Writer(ex[x])
        /\ ex[x].left \subseteq DOMAIN ex[x].used /\ ex[x].left # {}
        /\ DOMAIN ex[x].used \subseteq Episodes
    BY <1>1, <2>2 DEF Process, Memory, Writer, Running, Writing
  <2>4. e \in ex[x].left /\ e \in Episodes
    BY <2>3, MinOfSome, SinkAssumption DEF NextEpisode
  <2>5. IsSeq(dataset.data[e]) /\ (First(x) /\ Single(x) => dataset.data[e] = << >>)
    BY <1>1, <2>4, SourceTrue
  <2>6. IsSeq(columns)
    BY <2>5, Appended
  <2>7. pc \in {"lists", "data"} /\ (pc = "data" => left # {})
    BY <2>4
  <2>8. Write(x, t1) /\ Decodes(ex[x], e)
    BY <1>3 DEF Decodes
  <2> HIDE DEF left, pc
  <2>9. s2 = s1
    <3>1. IsProcess(ex[x])
      BY <2>2 DEF Process
    <3>2. \A a, b : [ex[x] EXCEPT !.left = a, !.pc = b]
                       = Proc(b, ex[x].req, ex[x].used, ex[x].loaded, ex[x].hashes, a, ex[x].asOf)
      BY <3>1, SetLeftPc, Zenon
    <3> QED
      BY <3>2, Zenon
  <2>10. /\ IsProcess(s1) /\ s1.pc = pc /\ s1.req = ex[x].req /\ s1.used = ex[x].used
         /\ s1.loaded = ex[x].loaded /\ s1.hashes = ex[x].hashes /\ s1.left = left
         /\ s1.asOf = ex[x].asOf
    BY ProcFields
  <2> HIDE DEF s1, s2, t, e, columns, data
  <2>11. IsTree(t1) /\ t1.reg = t.reg /\ t1.data = data /\ t1.lists = t.lists
    BY <2>2, TreeData
  <2> HIDE DEF t1
  <2>12. First(x) => Built(t1, s1, Single(x))
    <3> SUFFICES ASSUME First(x) PROVE Built(t1, s1, Single(x))
      OBVIOUS
    <3>1. t1.data = Enter(t.data, e, Append(dataset.data[e],
                        Column(ex[x].loaded[e].segs, Registry(ex[x].loaded))))
      BY <2>11 DEF data, columns
    <3>2. s1.left = ex[x].left \ {e} /\ s1.pc = IF ex[x].left = {e} THEN "lists" ELSE "data"
      BY <2>10 DEF left, pc
    <3> QED
      BY <1>1, <2>2, <2>3, <2>4, <2>5, <2>8, <2>10, <2>11, <3>1, <3>2, BuildData
  <2>13. Req(x).inPlace =>
            /\ DOMAIN t1.data = Episodes /\ IsSeq(t1.lists)
            /\ \A a \in Episodes : IsSeq(t1.data[a])
            /\ First(x) => Untouched(t1, s1)
    <3> SUFFICES ASSUME Req(x).inPlace
                 PROVE  /\ DOMAIN t1.data = Episodes /\ IsSeq(t1.lists)
                        /\ \A a \in Episodes : IsSeq(t1.data[a])
                        /\ First(x) => Untouched(t1, s1)
      OBVIOUS
    <3>1. /\ DOMAIN data = Episodes
          /\ \A a \in Episodes : data[a] = IF a = e THEN columns ELSE t.data[a]
      BY <2>2, <2>4 DEF data, Enter
    <3>2. First(x) => /\ t.lists = << >>
                      /\ \A a \in left : t.data[a] = << >> /\ data[a] = t.data[a]
      BY <1>1, <2>2, <2>3, <3>1 DEF Untouched, left
    <3> QED
      BY <2>2, <2>6, <2>10, <2>11, <3>1, <3>2 DEF Untouched
  <2>14. Process(s1, run, writes)
    <3>1. ex[x].pc \in Past /\ s1.pc \in Past
      BY <1>1, <2>7, <2>10 DEF Past, Writing
    <3>2. Memory(s1, run, writes)
      BY <2>2, <2>10, <3>1, MemoryKept DEF Process
    <3>3. Writer(s1)
      BY <2>3, <2>7, <2>10 DEF Writer, GatesPassed, left
    <3> QED
      BY <2>7, <2>10, <3>2, <3>3 DEF Process
  <2>15. s1.pc \in Filling
    BY <2>7, <2>10 DEF Filling
  <2> QED
    BY <1>1, <2>1, <2>8, <2>9, <2>10, <2>11, <2>12, <2>13, <2>14, <2>15, Writes
<1> QED
  BY <1>2, <1>3 DEF WriteData, Eps

-----------------------------------------------------------------------------
\* finalize.

\* The trees of x and OUT change places.
LEMMA Replaces ==
    ASSUME IInv, NEW x \in Exporters, NEW s1, NEW t1, NEW u1, Process(s1, run, writes),
           ex' = [ex EXCEPT ![x] = s1],
           staging' = [staging EXCEPT ![x] = t1], stash' = [stash EXCEPT ![x] = u1],
           s1.pc \in Writing => ~s1.req.inPlace, s1.pc \notin Filling, s1.pc # "registry",
           out' # Absent => Good(out', run, writes, Once),
           u1 # Absent => Good(u1, run, writes, Once),
           s1.pc \in {"stash", "install", "fresh"} => Good(t1, run, writes, Once),
           s1.pc = "install" => u1 # Absent,
           published' /\ out' = Absent =>
              \/ u1 # Absent /\ s1.pc # "drop"
              \/ \E y \in Exporters : y # x /\ stash[y] # Absent /\ ~At(y, "drop"),
           UNCHANGED runVars, UNCHANGED <<dataset, backups, inPlace>>
    PROVE  IInv'
<1>1. /\ RunsTrue' /\ Processes'
      /\ ex' = [y \in Exporters |-> ex'[y]]
      /\ ex'[x] = s1 /\ \A y \in Exporters : y # x => ex'[y] = ex[y]
  BY ProcessStep
<1>2. run' = run /\ writes' = writes
  BY DEF runVars
<1>3. Tables /\ OutTrue /\ DatasetTrue
  BY DEF IInv
<1>4. /\ staging' = [y \in Exporters |-> staging'[y]]
      /\ staging'[x] = t1 /\ \A y \in Exporters : y # x => staging'[y] = staging[y]
      /\ stash' = [y \in Exporters |-> stash'[y]]
      /\ stash'[x] = u1 /\ \A y \in Exporters : y # x => stash'[y] = stash[y]
  BY <1>3 DEF Tables
<1>5. Tables'
  BY <1>1, <1>4 DEF Tables
<1>6. Once' <=> Once
  BY DEF Once
<1>7. OutTrue'
  <2>1. Staged(t1, s1, run, writes, Once)
    BY DEF Staged
  <2>2. \A y \in Exporters :
           /\ stash'[y] # Absent => Good(stash'[y], run', writes', Once)
           /\ Staged(staging'[y], ex'[y], run', writes', Once)
           /\ ex'[y].pc = "install" => stash'[y] # Absent
    BY <1>1, <1>2, <1>3, <1>4, <2>1 DEF OutTrue, At
  <2>3. published' /\ out' = Absent =>
            \E y \in Exporters : stash'[y] # Absent /\ ex'[y].pc # "drop"
    BY <1>1, <1>4 DEF At
  <2> QED
    BY <1>2, <1>6, <2>2, <2>3 DEF OutTrue, At, Once
<1>8. DatasetTrue'
  <2>1. \A y \in Exporters : Filler(y)' => Filler(y) /\ ex'[y] = ex[y]
    BY <1>1 DEF Filler, Req
  <2>2. \A y \in Exporters :
           ex'[y].req.inPlace /\ ex'[y].pc \in Writing => ex'[y] = ex[y]
    BY <1>1
  <2> QED
    BY <1>2, <1>3, <2>1, <2>2 DEF DatasetTrue, Req
<1> QED
  BY <1>1, <1>5, <1>7, <1>8 DEF IInv

Finalizing == {"stash", "install", "fresh", "drop"}

\* Between two renames.
LEMMA Moves ==
    ASSUME IInv, NEW x \in Exporters, NEW pc \in Finalizing,
           ex[x].pc \in {"swap"} \cup Finalizing, ~Req(x).inPlace, Goto(x, pc)
    PROVE  \E s1 : /\ ex' = [ex EXCEPT ![x] = s1] /\ s1.pc = pc /\ ~s1.req.inPlace
                   /\ s1.pc \notin Filling /\ s1.pc # "registry"
                   /\ Process(s1, run, writes)
<1> DEFINE s1 == [ex[x] EXCEPT !.pc = pc]
<1>1. pc \notin Ended /\ pc \notin Filling
  BY DEF Finalizing, Ended, Filling, HasLists
<1>2. /\ ex' = [ex EXCEPT ![x] = s1] /\ SameMemory(ex[x], s1)
      /\ s1.pc = pc /\ IsProcess(s1)
  BY <1>1, GoesOn
<1> HIDE DEF s1
<1>3. Process(ex[x], run, writes)
  BY DEF IInv, Processes
<1>4. ex[x].pc \in Past /\ s1.pc \in Past /\ ex[x].pc \in Writing
  BY <1>2 DEF Finalizing, Past, Writing
<1>5. Memory(s1, run, writes)
  BY <1>2, <1>3, <1>4, MemoryKept DEF SameMemory, Process
<1>6. ~s1.req.inPlace
  BY <1>2 DEF SameMemory, Req
<1>7. Writer(s1)
  <2>1. GatesPassed(ex[x])
    BY <1>3, <1>4 DEF Process, Writer
  <2>2. GatesPassed(s1)
    BY <1>2, <2>1 DEF GatesPassed, SameMemory
  <2> QED
    BY <1>2, <1>6, <2>2 DEF Writer, Finalizing
<1>8. s1.pc # "resolve" /\ s1.pc # "registry"
  BY <1>2 DEF Finalizing
<1>9. Process(s1, run, writes)
  BY <1>2, <1>5, <1>7, <1>8 DEF Process
<1> QED
  BY <1>1, <1>2, <1>6, <1>8, <1>9

\* A process that is over.
LEMMA IsOver ==
    ASSUME NEW x \in Exporters, NEW pc \in Ended, Goto(x, pc)
    PROVE  \E s1 : /\ ex' = [ex EXCEPT ![x] = s1] /\ s1.pc = pc /\ s1.pc \notin Writing
                   /\ s1.pc \notin Filling /\ s1.pc # "registry"
                   /\ Process(s1, run, writes)
<1> DEFINE s1 == [Idle EXCEPT !.pc = pc]
<1>1. ex' = [ex EXCEPT ![x] = s1]
  BY DEF Goto
<1>2. s1.pc = pc /\ IsProcess(s1)
  BY DEF Idle, IsProcess
<1>3. pc \notin Running /\ pc \notin Writing /\ pc # "resolve" /\ pc \notin Filling /\ pc # "registry"
  BY DEF Ended, Running, Writing, Filling, HasLists
<1> HIDE DEF s1
<1>4. Process(s1, run, writes)
  BY <1>2, <1>3 DEF Process, Memory, Writer
<1> QED
  BY <1>1, <1>2, <1>3, <1>4

\* A tree that stays.
LEMMA Stays ==
    ASSUME IInv, NEW x \in Exporters
    PROVE  /\ staging = [staging EXCEPT ![x] = staging[x]]
           /\ stash = [stash EXCEPT ![x] = stash[x]]
<1>1. staging = [y \in Exporters |-> staging[y]] /\ stash = [y \in Exporters |-> stash[y]]
  BY DEF IInv, Tables
<1> QED
  BY <1>1

\* An export to the dataset is over.
LEMMA Finishes ==
    ASSUME IInv, NEW x \in Exporters, ex[x].pc = "swap", Req(x).inPlace, Goto(x, "done"),
           inPlace' = [inPlace EXCEPT !.finished = @ + 1],
           UNCHANGED runVars, UNCHANGED <<dataset, backups, out, staging, stash, published>>
    PROVE  IInv'
<1>1. Tables /\ OutTrue /\ DatasetTrue /\ Process(ex[x], run, writes)
  BY DEF IInv, Processes
<1>2. PICK s1 : /\ ex' = [ex EXCEPT ![x] = s1] /\ s1.pc = "done" /\ s1.pc \notin Writing
                /\ s1.pc \notin Filling /\ s1.pc # "registry" /\ Process(s1, run, writes)
  BY IsOver DEF Ended
<1>3. /\ RunsTrue' /\ Processes'
      /\ ex' = [y \in Exporters |-> ex'[y]]
      /\ ex'[x] = s1 /\ \A y \in Exporters : y # x => ex'[y] = ex[y]
  BY <1>2, ProcessStep
<1>4. run' = run /\ writes' = writes
  BY DEF runVars
<1>5. Tables'
  BY <1>1, <1>3 DEF Tables
<1>6. /\ inPlace'.began = inPlace.began /\ inPlace'.finished = inPlace.finished + 1
      /\ inPlace' = [began |-> inPlace'.began, finished |-> inPlace'.finished]
      /\ inPlace.began \in Nat /\ inPlace.finished \in Nat
  <2> DEFINE finished == inPlace.finished + 1
  <2>1. inPlace' = [inPlace EXCEPT !.finished = finished]
    OBVIOUS
  <2>2. /\ inPlace = [began |-> inPlace.began, finished |-> inPlace.finished]
        /\ inPlace.began \in Nat /\ inPlace.finished \in Nat
    BY <1>1 DEF DatasetTrue
  <2> HIDE DEF finished
  <2>3. inPlace' = [began |-> inPlace.began, finished |-> finished]
    BY <2>1, <2>2
  <2>4. inPlace'.began = inPlace.began /\ inPlace'.finished = finished
    BY <2>3
  <2> QED
    BY <2>2, <2>3, <2>4 DEF finished
<1>7. Once' <=> Once
  BY <1>6 DEF Once
<1>8. OutTrue'
  <2>1. Staged(staging[x], s1, run, writes, Once)
    BY <1>2 DEF Staged
  <2>2. \A y \in Exporters :
           /\ Staged(staging[y], ex'[y], run', writes', Once)
           /\ ex'[y].pc = "install" => ex[y].pc = "install"
           /\ ex'[y].pc = "drop" => ex[y].pc = "drop"
    BY <1>1, <1>2, <1>3, <1>4, <2>1 DEF OutTrue
  <2>3. Once' = Once
    BY <1>6 DEF Once
  <2> QED
    BY <1>1, <1>4, <2>2, <2>3 DEF OutTrue, At
<1>9. DatasetTrue'
  <2>1. \A y \in Exporters : Filler(y)' => y # x /\ Filler(y)
    BY <1>2, <1>3 DEF Filler, Req
  <2>2. Filler(x)
    BY DEF Filler, Filling, HasLists
  <2>3. inPlace'.began # 0
    BY <1>1, <1>6, <2>2 DEF DatasetTrue
  <2>4. inPlace'.began = 1 =>
           /\ inPlace'.finished = 1
           /\ \A y \in Exporters : ~Filler(y)'
           /\ Good(dataset, run', writes', TRUE)
    <3> SUFFICES ASSUME inPlace'.began = 1
                 PROVE  /\ inPlace'.finished = 1
                        /\ \A y \in Exporters : ~Filler(y)'
                        /\ Good(dataset, run', writes', TRUE)
      OBVIOUS
    <3>1. /\ inPlace.finished = 0
          /\ \A y, z \in Exporters : Filler(y) /\ Filler(z) => y = z
          /\ Built(dataset, ex[x], TRUE)
      BY <1>1, <1>6, <2>2 DEF DatasetTrue
    <3>2. Good(dataset, run, writes, TRUE)
      BY <1>1, <3>1, BuiltIsGood DEF Process
    <3>3. \A y \in Exporters : ~Filler(y)'
      BY <2>1, <2>2, <3>1
    <3>4. inPlace'.finished = 1
      BY <1>6, <3>1
    <3> QED
      BY <1>4, <3>2, <3>3, <3>4
  <2>5. \A y \in Exporters :
           ex'[y].req.inPlace /\ ex'[y].pc \in Writing => ex'[y] = ex[y]
    BY <1>2, <1>3
  <2>6. /\ dataset' = dataset
        /\ IsTree(dataset) /\ DOMAIN dataset.data = Episodes /\ IsSeq(dataset.lists)
        /\ \A e \in Episodes : IsSeq(dataset.data[e])
    BY <1>1, <1>6, <2>3 DEF DatasetTrue
  <2>7. inPlace'.began \in Nat /\ inPlace'.finished \in Nat
    BY <1>6
  <2> QED
    BY <1>6, <2>3, <2>4, <2>6, <2>7 DEF DatasetTrue
<1> QED
  BY <1>3, <1>5, <1>8, <1>9 DEF IInv

\* In place the tree is finished; otherwise a stash of this pid is dropped only if OUT is there.
LEMMA SwapKeeps == ASSUME IInv, NEW x \in Exporters, Swap(x) PROVE IInv'
<1>1. /\ UNCHANGED runVars /\ ex[x].pc = "swap"
      /\ UNCHANGED <<dataset, backups, out, staging, published>>
      /\ OutTrue /\ DatasetTrue /\ Process(ex[x], run, writes)
  BY DEF Swap, Quiet, runVars, At, IInv, Processes
<1>2. CASE Req(x).inPlace
  <2>1. Goto(x, "done") /\ inPlace' = [inPlace EXCEPT !.finished = @ + 1] /\ UNCHANGED stash
    BY <1>2 DEF Swap
  <2> QED
    BY <1>1, <1>2, <2>1, Finishes
<1>3. CASE ~Req(x).inPlace
  <2>1. Built(staging[x], ex[x], Once)
    BY <1>1, <1>3 DEF OutTrue, Staged, Req, Filling, HasLists
  <2>2. Once \in BOOLEAN
    BY DEF Once
  <2>3. Good(staging[x], run, writes, Once)
    <3>1. \A once \in BOOLEAN : Built(staging[x], ex[x], once) => Good(staging[x], run, writes, once)
      BY <1>1, BuiltIsGood DEF Process
    <3> QED
      BY <2>1, <2>2, <3>1
  <2>4. UNCHANGED inPlace /\ staging' = [staging EXCEPT ![x] = staging[x]]
    BY <1>1, <1>3, Stays DEF Swap
  <2>5. CASE out = Absent
    <3>1. Goto(x, "fresh") /\ stash' = [stash EXCEPT ![x] = stash[x]]
      BY <1>3, <2>5, Stays DEF Swap
    <3>2. PICK s1 : /\ ex' = [ex EXCEPT ![x] = s1] /\ s1.pc = "fresh" /\ ~s1.req.inPlace
                    /\ s1.pc \notin Filling /\ s1.pc # "registry" /\ Process(s1, run, writes)
      BY <1>1, <1>3, <3>1, Moves DEF Finalizing
    <3>3. published =>
            \/ stash[x] # Absent
            \/ \E y \in Exporters : y # x /\ stash[y] # Absent /\ ~At(y, "drop")
      BY <1>1, <2>5 DEF OutTrue
    <3>4. stash[x] # Absent => Good(stash[x], run, writes, Once)
      BY <1>1 DEF OutTrue
    <3> QED
      BY <1>1, <2>3, <2>4, <2>5, <3>1, <3>2, <3>3, <3>4, Replaces
  <2>6. CASE out # Absent
    <3>1. Goto(x, "stash") /\ stash' = [stash EXCEPT ![x] = Absent]
      BY <1>3, <2>6 DEF Swap
    <3>2. PICK s1 : /\ ex' = [ex EXCEPT ![x] = s1] /\ s1.pc = "stash" /\ ~s1.req.inPlace
                    /\ s1.pc \notin Filling /\ s1.pc # "registry" /\ Process(s1, run, writes)
      BY <1>1, <1>3, <3>1, Moves DEF Finalizing
    <3>3. Good(out, run, writes, Once)
      BY <1>1, <2>6 DEF OutTrue
    <3> QED
      BY <1>1, <2>3, <2>4, <2>6, <3>1, <3>2, <3>3, Replaces
  <2> QED
    BY <2>5, <2>6
<1> QED
  BY <1>2, <1>3

\* OUT becomes the stash.
LEMMA StashOutKeeps == ASSUME IInv, NEW x \in Exporters, StashOut(x) PROVE IInv'
<1>1. /\ UNCHANGED runVars /\ ex[x].pc = "stash"
      /\ UNCHANGED <<dataset, backups, staging, published, inPlace>>
      /\ OutTrue /\ Process(ex[x], run, writes)
  BY DEF StashOut, Quiet, runVars, At, IInv, Processes
<1>2. CASE out = Absent
  BY <1>1, <1>2, Ends DEF StashOut, Ended, treeVars
<1>3. CASE out # Absent
  <2>1. Goto(x, "install") /\ stash' = [stash EXCEPT ![x] = out] /\ out' = Absent
    BY <1>3 DEF StashOut
  <2>2. ~Req(x).inPlace
    BY <1>1 DEF Process, Writer, Writing, Req
  <2>3. PICK s1 : /\ ex' = [ex EXCEPT ![x] = s1] /\ s1.pc = "install" /\ ~s1.req.inPlace
                  /\ s1.pc \notin Filling /\ s1.pc # "registry" /\ Process(s1, run, writes)
    BY <1>1, <2>1, <2>2, Moves DEF Finalizing
  <2>4. Good(out, run, writes, Once) /\ Good(staging[x], run, writes, Once)
    BY <1>1, <1>3, <2>2 DEF OutTrue, Staged, Req
  <2>5. staging' = [staging EXCEPT ![x] = staging[x]]
    BY <1>1, Stays
  <2> QED
    BY <1>1, <1>3, <2>1, <2>3, <2>4, <2>5, Replaces
<1> QED
  BY <1>2, <1>3

\* The staging tree becomes OUT, if nobody else's has.
LEMMA InstallKeeps == ASSUME IInv, NEW x \in Exporters, Install(x) PROVE IInv'
<1>1. /\ UNCHANGED runVars /\ ex[x].pc \in {"install", "fresh"}
      /\ UNCHANGED <<dataset, backups, stash, inPlace>>
      /\ OutTrue /\ Process(ex[x], run, writes)
  BY DEF Install, Quiet, runVars, IInv, Processes
<1>2. CASE out # Absent \/ staging[x] = Absent
  BY <1>1, <1>2, Ends DEF Install, Ended, treeVars
<1>3. CASE ~(out # Absent \/ staging[x] = Absent)
  <2>1. /\ Goto(x, IF At(x, "install") THEN "drop" ELSE "done")
        /\ out' = staging[x] /\ staging' = [staging EXCEPT ![x] = Absent] /\ staging[x] # Absent
    BY <1>3 DEF Install
  <2>2. ~Req(x).inPlace
    BY <1>1 DEF Process, Writer, Writing, Req
  <2>3. PICK s1 : /\ ex' = [ex EXCEPT ![x] = s1] /\ s1.pc \in {"drop", "done"}
                  /\ (s1.pc \in Writing => ~s1.req.inPlace)
                  /\ s1.pc \notin Filling /\ s1.pc # "registry" /\ Process(s1, run, writes)
    <3>1. CASE At(x, "install")
      BY <1>1, <2>1, <2>2, <3>1, Moves DEF Finalizing
    <3>2. CASE ~At(x, "install")
      BY <2>1, <3>2, IsOver DEF Ended
    <3> QED
      BY <3>1, <3>2
  <2>4. Good(staging[x], run, writes, Once)
    BY <1>1, <2>2 DEF OutTrue, Staged, Req
  <2>5. /\ stash' = [stash EXCEPT ![x] = stash[x]]
        /\ stash[x] # Absent => Good(stash[x], run, writes, Once)
    BY <1>1, Stays DEF OutTrue
  <2> QED
    BY <1>1, <2>1, <2>3, <2>4, <2>5, Replaces
<1> QED
  BY <1>2, <1>3

\* The stash becomes OUT again.
LEMMA RestoreOutKeeps == ASSUME IInv, NEW x \in Exporters, RestoreOut(x) PROVE IInv'
<1>1. /\ UNCHANGED runVars /\ At(x, "install") /\ Goto(x, "failed")
      /\ UNCHANGED <<dataset, backups, staging, published, inPlace>>
      /\ out' = stash[x] /\ stash' = [stash EXCEPT ![x] = Absent]
      /\ OutTrue
  BY DEF RestoreOut, Quiet, runVars, IInv
<1>2. PICK s1 : /\ ex' = [ex EXCEPT ![x] = s1] /\ s1.pc = "failed" /\ s1.pc \notin Writing
                /\ s1.pc \notin Filling /\ s1.pc # "registry" /\ Process(s1, run, writes)
  BY <1>1, IsOver DEF Ended
<1>3. stash[x] # Absent /\ Good(stash[x], run, writes, Once)
  BY <1>1 DEF OutTrue
<1>4. staging' = [staging EXCEPT ![x] = staging[x]]
  BY <1>1, Stays
<1> QED
  BY <1>1, <1>2, <1>3, <1>4, Replaces

\* The stash goes; OUT or somebody else's stash is left.
LEMMA DropStashKeeps == ASSUME IInv, NEW x \in Exporters, DropStash(x) PROVE IInv'
<1>1. /\ UNCHANGED runVars /\ At(x, "drop") /\ Goto(x, "done")
      /\ UNCHANGED <<dataset, backups, out, staging, published, inPlace>>
      /\ stash' = [stash EXCEPT ![x] = Absent]
      /\ OutTrue
  BY DEF DropStash, Quiet, runVars, IInv
<1>2. PICK s1 : /\ ex' = [ex EXCEPT ![x] = s1] /\ s1.pc = "done" /\ s1.pc \notin Writing
                /\ s1.pc \notin Filling /\ s1.pc # "registry" /\ Process(s1, run, writes)
  BY <1>1, IsOver DEF Ended
<1>3. /\ out # Absent => Good(out, run, writes, Once)
      /\ published /\ out = Absent =>
            \E y \in Exporters : y # x /\ stash[y] # Absent /\ ~At(y, "drop")
  BY <1>1 DEF OutTrue
<1>4. staging' = [staging EXCEPT ![x] = staging[x]]
  BY <1>1, Stays
<1> QED
  BY <1>1, <1>2, <1>3, <1>4, Replaces

-----------------------------------------------------------------------------
\* The beginning.

FirstRun(e) == CHOOSE r \in DOMAIN FirstSegs : About[r].episode = e
FirstEpisodes == {About[r].episode : r \in DOMAIN FirstSegs}
FirstRows ==
    [e \in FirstEpisodes |-> [segs |-> FirstSegs[FirstRun(e)], made |-> 0, hash |-> 0]]

\* The files of an export that is there at the beginning.
LEMMA FirstTreeFields ==
    /\ FirstTree.side = FirstRows /\ FirstTree.meta /\ FirstTree.reg = Registry(FirstRows)
    /\ FirstTree.lists = <<ListColumn(FirstRows)>>
    /\ FirstTree.data =
          [e \in FirstEpisodes |-> <<Column(FirstRows[e].segs, Registry(FirstRows))>>]
    /\ FirstTree.prov =
          [profile |-> FirstProfile, asOf |-> 0, subtasks |-> Len(Registry(FirstRows)),
           hashes |-> [e \in FirstEpisodes |-> 0], used |-> [e \in FirstEpisodes |-> FirstRun(e)]]
<1> DEFINE prov == [profile |-> FirstProfile, asOf |-> 0, subtasks |-> Len(Registry(FirstRows)),
                    hashes |-> [e \in FirstEpisodes |-> 0],
                    used |-> [e \in FirstEpisodes |-> FirstRun(e)]]
           data == [e \in FirstEpisodes |-> <<Column(FirstRows[e].segs, Registry(FirstRows))>>]
           reg == Registry(FirstRows)
           lists == <<ListColumn(FirstRows)>>
<1>1. DOMAIN FirstRows = FirstEpisodes
  BY DEF FirstRows
<1>2. FirstTree = [reg |-> reg, side |-> FirstRows, meta |-> TRUE, lists |-> lists,
                   data |-> data, prov |-> prov]
  <2>1. FirstTree =
          [reg |-> Registry(FirstRows), side |-> FirstRows, meta |-> TRUE,
           lists |-> <<ListColumn(FirstRows)>>,
           data |-> [e \in DOMAIN FirstRows |->
                        <<Column(FirstRows[e].segs, Registry(FirstRows))>>],
           prov |-> [profile |-> FirstProfile, asOf |-> 0,
                     subtasks |-> Len(Registry(FirstRows)),
                     hashes |-> [e \in DOMAIN FirstRows |-> 0],
                     used |-> [e \in DOMAIN FirstRows |-> FirstRun(e)]]]
    BY Zenon DEF FirstTree, FirstRows, FirstEpisodes, FirstRun
  <2> QED
    BY <1>1, <2>1, Zenon
<1> HIDE DEF prov, data, reg, lists
<1>3. /\ FirstTree.side = FirstRows /\ FirstTree.meta /\ FirstTree.reg = reg
      /\ FirstTree.lists = lists /\ FirstTree.data = data /\ FirstTree.prov = prov
  BY <1>2
<1> QED
  BY <1>3, Zenon DEF prov, data, reg, lists

\* An export that is there at the beginning is good.
LEMMA FirstTreeIsGood == ASSUME Init PROVE Good(FirstTree, run, writes, TRUE)
<1> DEFINE t == FirstTree
<1>1. \A e \in FirstEpisodes : /\ FirstRun(e) \in DOMAIN FirstSegs /\ FirstRun(e) \in Runs
                               /\ e \in Episodes
  <2> TAKE e \in FirstEpisodes
  <2>1. PICK r \in DOMAIN FirstSegs : About[r].episode = e
    BY DEF FirstEpisodes
  <2>2. FirstRun(e) \in DOMAIN FirstSegs
    BY <2>1 DEF FirstRun
  <2> QED
    BY <2>1, <2>2, ExportAssumption
<1>2. /\ DOMAIN t.side = FirstEpisodes /\ t.meta /\ t.side = FirstRows
      /\ t.reg = Registry(FirstRows) /\ t.lists = <<ListColumn(FirstRows)>>
  BY FirstTreeFields DEF FirstRows
<1>3. /\ t.prov.profile = FirstProfile /\ t.prov.asOf = 0
      /\ t.prov.subtasks = Len(Registry(FirstRows))
      /\ t.prov.hashes = [e \in FirstEpisodes |-> 0]
      /\ t.prov.used = [e \in FirstEpisodes |-> FirstRun(e)]
  BY FirstTreeFields
<1>4. \A e \in FirstEpisodes :
          /\ t.side[e].segs = FirstSegs[FirstRun(e)]
          /\ t.side[e].made = 0 /\ t.side[e].hash = 0
          /\ t.data[e] = <<Column(t.side[e].segs, t.reg)>>
          /\ t.prov.used[e] = FirstRun(e) /\ t.prov.hashes[e] = 0
  <2>1. \A e \in FirstEpisodes :
            /\ t.side[e].segs = FirstSegs[FirstRun(e)]
            /\ t.side[e].made = 0 /\ t.side[e].hash = 0
    BY <1>2 DEF FirstRows
  <2>2. \A e \in FirstEpisodes : t.prov.used[e] = FirstRun(e) /\ t.prov.hashes[e] = 0
    BY <1>3
  <2>3. t.data = [e \in FirstEpisodes |-> <<Column(FirstRows[e].segs, Registry(FirstRows))>>]
    BY FirstTreeFields
  <2>4. \A e \in FirstEpisodes : t.data[e] = <<Column(t.side[e].segs, t.reg)>>
    BY <1>2, <2>3
  <2> QED
    BY <2>1, <2>2, <2>4
<1>5. \A e \in FirstEpisodes :
          /\ \A f \in Frames : Last(t.data[e])[f] # NoIndex
          /\ PassesGates(FirstProfile.gates, About[t.prov.used[e]].degraded, t.side[e].segs)
  BY <1>2, FirstTreeAssumption
<1> HIDE DEF t
<1>6. \A v : Last(<<v>>) = v /\ Len(<<v>>) = 1
  BY DEF Last
<1>7. Sound(t)
  <2>1. t.prov # NoProvenance
    <3>1. NoProvenance.profile = Absent
      BY DEF NoProvenance
    <3> QED
      BY <1>3, <3>1, ExportAssumption
  <2>2. ASSUME NEW e \in FirstEpisodes
        PROVE  /\ \A f \in Frames : t.reg[Last(t.data[e])[f] + 1] = LabelAt(t.side[e].segs, f)
               /\ Last(t.lists)[e] = t.side[e].segs
               /\ t.side[e].hash = t.prov.hashes[e]
               /\ PassesGates(t.prov.profile.gates, About[t.prov.used[e]].degraded,
                              t.side[e].segs)
    <3>1. Last(t.data[e]) = Column(t.side[e].segs, t.reg)
      BY <1>4, <1>6
    <3>2. \A f \in Frames : t.reg[Last(t.data[e])[f] + 1] = LabelAt(t.side[e].segs, f)
      BY <1>5, <3>1, ColumnDecodes
    <3>3. Last(t.lists)[e] = t.side[e].segs
      <4>1. Last(t.lists) = ListColumn(t.side)
        BY <1>2, <1>6
      <4>2. ListColumn(t.side)[e] = t.side[e].segs
        BY <1>1, <1>2 DEF ListColumn
      <4> QED
        BY <4>1, <4>2
    <3> QED
      BY <1>3, <1>4, <1>5, <3>2, <3>3
  <2> QED
    BY <1>2, <1>3, <2>1, <2>2 DEF Sound
<1>8. Fresh(t, run, writes)
  <2>1. \A r \in DOMAIN FirstSegs : run[r].there /\ run[r].segs = FirstSegs[r]
    BY ExportAssumption DEF Init
  <2>2. writes = 0
    BY DEF Init
  <2> QED
    BY <1>1, <1>3, <1>4, <2>1, <2>2 DEF Fresh
<1>9. NotOlder(t)
  BY <1>2, <1>4 DEF NotOlder
<1>10. OneColumnEach(t)
  BY <1>2, <1>4, <1>6 DEF OneColumnEach
<1> QED
  BY <1>7, <1>8, <1>9, <1>10 DEF Good, t

\* The invariant holds at the beginning.
LEMMA InitKeeps == ASSUME Init PROVE IInv
<1>1. RunsTrue
  <2>1. /\ writes = 0 /\ index \in [Runs -> Nat] /\ \A r \in Runs : index[r] <= 1
        /\ run = [r \in Runs |-> run[r]]
    BY DEF Init
  <2>2. \A r \in Runs : IsRun(run[r]) /\ run[r].made = 0 /\ run[r].hash = 0
    BY DEF Init, IsRun
  <2> QED
    BY <2>1, <2>2 DEF RunsTrue
<1>2. Tables /\ \A x \in Exporters : ex[x] = Idle /\ staging[x] = Absent /\ stash[x] = Absent
  BY DEF Init, Tables
<1>3. IsProcess(Idle) /\ Idle.pc = "idle"
  BY DEF Idle, IsProcess
<1>4. Processes
  BY <1>2, <1>3 DEF Processes, Process, Memory, Writer, Running, Writing
<1>5. OutTrue
  <2>1. out # Absent => Good(out, run, writes, TRUE)
    BY FirstTreeIsGood DEF Init
  <2>2. Once = TRUE /\ (published => out # Absent)
    BY DEF Init, Once
  <2>3. \A x \in Exporters : Staged(staging[x], ex[x], run, writes, Once) /\ ~At(x, "install")
    BY <1>2, <1>3 DEF Staged, At, Filling, HasLists
  <2> QED
    BY <1>2, <2>1, <2>2, <2>3 DEF OutTrue
<1>6. DatasetTrue
  <2>1. \A x \in Exporters : ~Filler(x) /\ ex[x].pc \notin Writing
    BY <1>2, <1>3 DEF Filler, Filling, HasLists, Writing
  <2>2. IsTree(Original) /\ Original.data = [e \in Episodes |-> << >>] /\ Original.lists = << >>
    BY DEF Original, IsTree
  <2>3. IsSeq(<< >>)
    BY DEF IsSeq
  <2>4. /\ inPlace = [began |-> 0, finished |-> 0] /\ dataset = Original
        /\ inPlace.began = 0 /\ inPlace.finished = 0
    BY DEF Init
  <2>5. /\ DOMAIN dataset.data = Episodes /\ IsSeq(dataset.lists)
        /\ \A e \in Episodes : IsSeq(dataset.data[e])
    BY <2>2, <2>3, <2>4
  <2> QED
    BY <2>1, <2>2, <2>4, <2>5 DEF DatasetTrue
<1> QED
  BY <1>1, <1>2, <1>4, <1>5, <1>6 DEF IInv

\* The invariant of the whole module: what the runs' writers, the exporters and those
\* that end them do leaves it true.
THEOREM Invariance == Spec => []IInv
<1>1. Init => IInv
  BY InitKeeps
<1>2. IInv /\ [Next]_vars => IInv'
  <2> SUFFICES ASSUME IInv, [Next]_vars PROVE IInv'
    OBVIOUS
  <2>1. CASE \E r \in Runs : BeginEdit(r) \/ EndEdit(r) \/ BeginPublish(r) \/ EndPublish(r)
    BY <2>1, BeginEditKeeps, EndEditKeeps, BeginPublishKeeps, EndPublishKeeps
  <2>2. CASE AbandonWrite
    BY <2>2, AbandonKeeps
  <2>3. ASSUME NEW x \in Exporters, Start(x) \/ Kill(x) \/ KillInBackup(x) PROVE IInv'
    BY <2>3, StartKeeps, KillKeeps, KillInBackupKeeps
  <2>4. ASSUME NEW x \in Exporters, Proceed(x) PROVE IInv'
    <3>1. CASE ResolveRuns(x) \/ LoadManifest(x) \/ LoadAnnotation(x) \/ CheckExisting(x)
      BY <3>1, ResolveKeeps, LoadManifestKeeps, LoadAnnotationKeeps, CheckKeeps
    <3>2. CASE PrepareLayout(x) \/ BackupFails(x)
      BY <3>2, PrepareKeeps, BackupFailsKeeps
    <3>3. CASE WriteRegistry(x) \/ WriteData(x) \/ WriteLists(x) \/ WriteSidecar(x)
      BY <3>3, WriteRegistryKeeps, WriteDataKeeps, WriteListsKeeps, WriteSidecarKeeps
    <3>4. CASE Validate(x) \/ WriteProvenance(x)
      BY <3>4, ValidateKeeps, WriteProvenanceKeeps
    <3>5. CASE Swap(x) \/ StashOut(x) \/ Install(x) \/ RestoreOut(x) \/ DropStash(x)
      BY <3>5, SwapKeeps, StashOutKeeps, InstallKeeps, RestoreOutKeeps, DropStashKeeps
    <3> QED
      BY <2>4, <3>1, <3>2, <3>3, <3>4, <3>5 DEF Proceed
  <2>5. CASE UNCHANGED vars
    <3>1. /\ run' = run /\ index' = index /\ writes' = writes /\ UNCHANGED <<treeVars, ex>>
      BY <2>5 DEF vars, runVars
    <3>2. RunsTrue' /\ Advance(run, run', writes, writes')
      BY <3>1 DEF IInv, RunsTrue, Advance
    <3> QED
      BY <3>1, <3>2, RunsStep
  <2> QED
    BY <2>1, <2>2, <2>3, <2>4, <2>5 DEF Next
<1> QED
  BY <1>1, <1>2, PTL DEF Spec

-----------------------------------------------------------------------------
\* A dataset that was exported in place once and to the end is good.
LEMMA DatasetIsGood ==
    ASSUME DatasetTrue, ~Torn, inPlace.began = 1
    PROVE  Good(dataset, run, writes, TRUE)
<1>1. inPlace.finished # 0
  BY DEF Torn
<1>2. inPlace.began = 1 =>
          inPlace.finished = 0 \/ Good(dataset, run, writes, TRUE)
  BY DEF DatasetTrue
<1> QED
  BY <1>1, <1>2

\* Whoever exports, is killed or comes in between: OUT is missing or a complete export
\* that decodes, and so is a dataset that was exported in place once and to the end.
THEOREM TreesSound == Spec => []TreesAreSound
<1>1. IInv => TreesAreSound
  <2> SUFFICES ASSUME IInv PROVE TreesAreSound
    OBVIOUS
  <2>1. OutTrue /\ DatasetTrue
    BY DEF IInv
  <2>2. out # Absent => Sound(out) /\ (inPlace.began = 0 => OneColumnEach(out))
    BY <2>1 DEF OutTrue, Good, Once
  <2>3. ~Torn /\ inPlace.began = 1 => Sound(dataset) /\ OneColumnEach(dataset)
    BY <2>1, DatasetIsGood DEF Good
  <2> QED
    BY <2>2, <2>3 DEF TreesAreSound
<1> QED
  BY <1>1, Invariance, PTL

\* The exporter reads without the lock, the manifest first, and the writers of a run put
\* the annotation first: what is exported is not older than the hash that goes with it.
THEOREM HashIsNotNewer == Spec => []NotOlderThanHash
<1>1. IInv => NotOlderThanHash
  BY DEF IInv, OutTrue, Good, NotOlder, NotOlderThanHash
<1> QED
  BY <1>1, Invariance, PTL

-----------------------------------------------------------------------------
\* Reuse.

\* An exporter changes no state but its own.
LEMMA OwnState ==
    ASSUME Tables, NEW x \in Exporters, NEW y \in Exporters, y # x,
           Start(x) \/ Proceed(x) \/ Kill(x) \/ KillInBackup(x)
    PROVE  ex'[y] = ex[y]
<1>1. ex = [z \in Exporters |-> ex[z]]
  BY DEF Tables
<1>2. \A s1 : ex' = [ex EXCEPT ![x] = s1] => ex'[y] = ex[y]
  BY <1>1
<1>3. \A pc : Goto(x, pc) => ex'[y] = ex[y]
  BY <1>1 DEF Goto
<1>4. CASE Start(x) \/ Kill(x) \/ KillInBackup(x)
  BY <1>1, <1>3, <1>4 DEF Start, Kill, KillInBackup
<1>5. CASE ResolveRuns(x) \/ LoadManifest(x) \/ LoadAnnotation(x)
  <2>1. CASE ResolveRuns(x)
    BY <1>1, <1>3, <2>1 DEF ResolveRuns
  <2>2. CASE LoadManifest(x)
    BY <1>1, <1>3, <2>2 DEF LoadManifest
  <2>3. CASE LoadAnnotation(x)
    BY <1>1, <1>3, <2>3 DEF LoadAnnotation
  <2> QED
    BY <1>5, <2>1, <2>2, <2>3
<1>6. CASE CheckExisting(x) \/ BackupFails(x) \/ WriteRegistry(x) \/ WriteLists(x)
           \/ WriteSidecar(x) \/ Validate(x) \/ WriteProvenance(x)
  BY <1>3, <1>6 DEF CheckExisting, BackupFails, WriteRegistry, WriteLists, WriteSidecar,
                    Validate, WriteProvenance
<1>7. CASE Swap(x) \/ StashOut(x) \/ Install(x) \/ RestoreOut(x) \/ DropStash(x)
  BY <1>3, <1>7 DEF Swap, StashOut, Install, RestoreOut, DropStash
<1>8. CASE PrepareLayout(x)
  BY <1>1, <1>3, <1>8 DEF PrepareLayout
<1>9. CASE WriteData(x)
  BY <1>1, <1>3, <1>9 DEF WriteData
<1> QED
  BY <1>4, <1>5, <1>6, <1>7, <1>8, <1>9 DEF Proceed

\* An export is answered as reused where its idempotency test says so.
LEMMA ReusedByMatch ==
    ASSUME IInv, NEW x \in Exporters, [Next]_vars, At(x, "check"), ex'[x].pc = "reused"
    PROVE  Existing(x) # NoProvenance /\ Matches(x)
<1>1. Tables
  BY DEF IInv
<1>2. ex'[x] # ex[x]
  BY DEF At
<1>3. ~UNCHANGED vars /\ ~AbandonWrite
  BY <1>2 DEF vars, AbandonWrite
<1>4. \A r \in Runs : ~(BeginEdit(r) \/ EndEdit(r) \/ BeginPublish(r) \/ EndPublish(r))
  BY <1>2 DEF BeginEdit, EndEdit, BeginPublish, EndPublish
<1>5. \A y \in Exporters : y # x => ~(Start(y) \/ Proceed(y) \/ Kill(y) \/ KillInBackup(y))
  BY <1>1, <1>2, OwnState
<1>6. Start(x) \/ Proceed(x) \/ Kill(x) \/ KillInBackup(x)
  BY <1>3, <1>4, <1>5 DEF Next
<1>7. ASSUME NEW pc, Goto(x, pc) PROVE ex'[x].pc = pc
  <2>1. ex = [y \in Exporters |-> ex[y]] /\ IsProcess(ex[x])
    BY <1>1 DEF Tables, IInv, Processes, Process
  <2>2. CASE pc \in Ended
    <3>1. ex' = [ex EXCEPT ![x] = [Idle EXCEPT !.pc = pc]]
      BY <1>7, <2>2 DEF Goto
    <3>2. [Idle EXCEPT !.pc = pc].pc = pc
      BY DEF Idle
    <3> QED
      BY <2>1, <3>1, <3>2
  <2>3. CASE pc \notin Ended
    <3>1. ex' = [ex EXCEPT ![x] = [ex[x] EXCEPT !.pc = pc]]
      BY <1>7, <2>3 DEF Goto
    <3>2. [ex[x] EXCEPT !.pc = pc].pc = pc
      BY <2>1 DEF IsProcess
    <3> QED
      BY <2>1, <3>1, <3>2
  <2> QED
    BY <2>2, <2>3
<1>8. ~Start(x) /\ ~Kill(x) /\ ~KillInBackup(x)
  <2>1. ~Start(x)
    BY DEF Start, At, Ended
  <2>2. ~Kill(x) /\ ~KillInBackup(x)
    BY <1>7 DEF Kill, KillInBackup
  <2> QED
    BY <2>1, <2>2
<1>9. CheckExisting(x)
  <2>1. ex[x].pc = "check"
    BY DEF At
  <2>2. ~(ResolveRuns(x) \/ LoadManifest(x) \/ LoadAnnotation(x) \/ PrepareLayout(x)
          \/ BackupFails(x))
    BY <2>1 DEF ResolveRuns, LoadManifest, LoadAnnotation, PrepareLayout, BackupFails, At
  <2>3. ~(WriteRegistry(x) \/ WriteData(x) \/ WriteLists(x) \/ WriteSidecar(x)
          \/ Validate(x) \/ WriteProvenance(x))
    BY <2>1 DEF WriteRegistry, WriteData, WriteLists, WriteSidecar, Validate,
                WriteProvenance, At
  <2>4. ~(Swap(x) \/ StashOut(x) \/ Install(x) \/ RestoreOut(x) \/ DropStash(x))
    BY <2>1 DEF Swap, StashOut, Install, RestoreOut, DropStash, At
  <2> QED
    BY <1>6, <1>8, <2>2, <2>3, <2>4 DEF Proceed
<1>10. (IF Req(x).force \/ Existing(x) = NoProvenance
        THEN IF Req(x).dry THEN "done" ELSE "prepare"
        ELSE IF Matches(x) THEN "reused" ELSE "refused") = "reused"
  BY <1>7, <1>9 DEF CheckExisting
<1> QED
  BY <1>10

\* No run was written since either export was begun: what the first one wrote is what
\* the second one has read.
THEOREM ReuseIsRight == Spec => ReusedIsCurrent
<1>1. ASSUME IInv, NEW x \in Exporters, [Next]_vars, At(x, "check"), ex'[x].pc = "reused",
             Target(x).prov.asOf = writes, ex[x].asOf = writes,
             Req(x).inPlace => ~Torn /\ inPlace.began = 1
      PROVE  /\ Sound(Target(x))
             /\ \A e \in DOMAIN Eps(x) : Target(x).side[e].segs = Eps(x)[e].segs
  <2>1. Existing(x) # NoProvenance /\ Matches(x)
    BY <1>1, ReusedByMatch
  <2>2. OutTrue /\ DatasetTrue /\ Process(ex[x], run, writes)
    BY <1>1 DEF IInv, Processes
  <2>3. Target(x) # Absent /\ Existing(x) = Target(x).prov
    BY <2>1 DEF Existing
  <2>4. \E once : Good(Target(x), run, writes, once)
    <3>1. CASE Req(x).inPlace
      BY <1>1, <2>2, <3>1, DatasetIsGood DEF Target
    <3>2. CASE ~Req(x).inPlace
      BY <2>2, <2>3, <3>2 DEF Target, OutTrue
    <3> QED
      BY <3>1, <3>2
  <2>5. Sound(Target(x)) /\ Fresh(Target(x), run, writes)
    BY <2>4 DEF Good
  <2>6. Target(x).prov.used = ex[x].used
    BY <2>1, <2>3 DEF Matches
  <2>7. DOMAIN ex[x].loaded \subseteq DOMAIN ex[x].used
    BY <1>1, <2>2 DEF Process, Memory, Running, At
  <2>8. \A e \in DOMAIN ex[x].loaded : run[ex[x].used[e]].segs = ex[x].loaded[e].segs
    BY <1>1, <2>2 DEF Process, Memory, Running, At
  <2>9. \A e \in DOMAIN ex[x].used : run[ex[x].used[e]].segs = Target(x).side[e].segs
    BY <1>1, <2>5, <2>6 DEF Fresh
  <2> QED
    BY <2>5, <2>7, <2>8, <2>9 DEF Eps
<1>2. IInv /\ [Next]_vars =>
        [\A x \in Exporters :
          /\ At(x, "check") /\ ex'[x].pc = "reused"
          /\ Target(x).prov.asOf = writes /\ ex[x].asOf = writes
          /\ Req(x).inPlace => ~Torn /\ inPlace.began = 1
          => /\ Sound(Target(x))
             /\ \A e \in DOMAIN Eps(x) : Target(x).side[e].segs = Eps(x)[e].segs]_vars
  BY <1>1
<1> QED
  BY <1>2, Invariance, PTL DEF Spec, ReusedIsCurrent

-----------------------------------------------------------------------------
\* The backups of the dataset.

\* An exporter that is about to write to the dataset, or at it, has originals to go
\* back to of all it writes.
Covered(x) ==
    Req(x).inPlace /\ ex[x].pc \in Writing =>
        MetaKept /\ \A e \in DOMAIN ex[x].used : DataKept(e)

BackupsTrue ==
    /\ inPlace.began > 0 => MetaKept
    /\ \A e \in Episodes : dataset.data[e] # << >> => DataKept(e)
    /\ \A x \in Exporters : Covered(x)

\* Backups are added, never removed.
LEMMA KeptStays ==
    ASSUME backups \subseteq backups'
    PROVE  (MetaKept => MetaKept') /\ \A e : DataKept(e) => DataKept(e)'
  BY DEF MetaKept, DataKept

\* What an exporter that goes on takes with it.
LEMMA GotoIs ==
    ASSUME IInv, NEW x \in Exporters, NEW pc, Goto(x, pc)
    PROVE  /\ ex'[x].pc = pc
           /\ pc \in Writing => ex'[x].req = ex[x].req /\ ex'[x].used = ex[x].used
<1>1. ex = [y \in Exporters |-> ex[y]] /\ IsProcess(ex[x])
  BY DEF IInv, Tables, Processes, Process
<1>2. CASE pc \in Ended
  <2>1. ex' = [ex EXCEPT ![x] = [Idle EXCEPT !.pc = pc]]
    BY <1>2 DEF Goto
  <2>2. [Idle EXCEPT !.pc = pc].pc = pc
    BY DEF Idle
  <2>3. pc \notin Writing
    BY <1>2 DEF Ended, Writing
  <2> QED
    BY <1>1, <2>1, <2>2, <2>3
<1>3. CASE pc \notin Ended
  <2>1. ex' = [ex EXCEPT ![x] = [ex[x] EXCEPT !.pc = pc]]
    BY <1>3 DEF Goto
  <2>2. SameMemory(ex[x], [ex[x] EXCEPT !.pc = pc]) /\ [ex[x] EXCEPT !.pc = pc].pc = pc
    BY <1>1, <1>3, GoesOn DEF IsProcess
  <2> QED
    BY <1>1, <2>1, <2>2 DEF SameMemory
<1> QED
  BY <1>2, <1>3

\* The step of an exporter.
LEMMA BackupsStep ==
    ASSUME IInv, BackupsTrue, NEW x \in Exporters, backups \subseteq backups',
           Start(x) \/ Proceed(x) \/ Kill(x) \/ KillInBackup(x),
           Covered(x)',
           inPlace'.began > 0 => inPlace.began > 0 \/ MetaKept,
           \A e \in Episodes : dataset'.data[e] # << >> => dataset.data[e] # << >> \/ DataKept(e)
    PROVE  BackupsTrue'
<1>1. (MetaKept => MetaKept') /\ \A e : DataKept(e) => DataKept(e)'
  BY KeptStays
<1>2. \A y \in Exporters : y # x => ex'[y] = ex[y]
  BY OwnState DEF IInv
<1>3. \A y \in Exporters : Covered(y)'
  <2> SUFFICES ASSUME NEW y \in Exporters, y # x PROVE Covered(y)'
    OBVIOUS
  <2>1. ex'[y] = ex[y] /\ Covered(y)
    BY <1>2 DEF BackupsTrue
  <2> QED
    BY <1>1, <2>1 DEF Covered, Req
<1>4. inPlace'.began > 0 => MetaKept'
  BY <1>1 DEF BackupsTrue
<1>5. \A e \in Episodes : dataset'.data[e] # << >> => DataKept(e)'
  BY <1>1 DEF BackupsTrue
<1> QED
  BY <1>3, <1>4, <1>5 DEF BackupsTrue

\* Steps before the first file is written, and those that end an exporter.
LEMMA BackupsBefore ==
    ASSUME IInv, BackupsTrue, NEW x \in Exporters,
           \/ Start(x) \/ Kill(x) \/ KillInBackup(x)
           \/ ResolveRuns(x) \/ LoadManifest(x) \/ LoadAnnotation(x) \/ CheckExisting(x)
           \/ BackupFails(x)
    PROVE  BackupsTrue'
<1>1. ex = [y \in Exporters |-> ex[y]] /\ IsProcess(ex[x])
  BY DEF IInv, Tables, Processes, Process
<1>2. /\ UNCHANGED <<dataset, inPlace>> /\ backups \subseteq backups'
      /\ Start(x) \/ Proceed(x) \/ Kill(x) \/ KillInBackup(x)
  BY DEF Start, Kill, KillInBackup, ResolveRuns, LoadManifest, LoadAnnotation, CheckExisting,
         BackupFails, Proceed, treeVars
<1>3. ex'[x].pc \notin Writing
  <2>1. \A pc \in {"killed", "refused", "done", "prepare", "reused"} :
            Goto(x, pc) => ex'[x].pc \notin Writing
    BY GotoIs DEF Writing
  <2>2. CASE \/ Kill(x) \/ KillInBackup(x) \/ BackupFails(x)
    BY <2>1, <2>2 DEF Kill, KillInBackup, BackupFails
  <2>3. CASE CheckExisting(x)
    <3>1. Goto(x, "done") \/ Goto(x, "prepare") \/ Goto(x, "reused") \/ Goto(x, "refused")
      BY <2>3, Zenon DEF CheckExisting
    <3> QED
      BY <2>1, <3>1
  <2>4. CASE Start(x)
    <3>1. PICK req \in Requests :
              ex' = [ex EXCEPT ![x] = [Idle EXCEPT !.pc = "resolve", !.req = req]]
      BY <2>4 DEF Start
    <3>2. [Idle EXCEPT !.pc = "resolve", !.req = req].pc = "resolve"
      BY DEF Idle
    <3> QED
      BY <1>1, <3>1, <3>2 DEF Writing
  <2>5. CASE ResolveRuns(x)
    <3>1. CASE Goto(x, "refused")
      BY <2>1, <3>1
    <3>2. CASE ~Goto(x, "refused")
      <4>1. PICK used :
                ex' = [ex EXCEPT ![x].used = used, ![x].left = DOMAIN used, ![x].asOf = writes,
                                 ![x].pc = IF DOMAIN used = {} THEN "check" ELSE "manifest"]
        BY <2>5, <3>2, Zenon DEF ResolveRuns
      <4> DEFINE pc == IF DOMAIN used = {} THEN "check" ELSE "manifest"
      <4>2. pc \in {"check", "manifest"}
        OBVIOUS
      <4>3. ex' = [ex EXCEPT ![x].used = used, ![x].left = DOMAIN used, ![x].asOf = writes,
                             ![x].pc = pc]
        BY <4>1
      <4> HIDE DEF pc
      <4>4. ex'[x] = [ex[x] EXCEPT !.used = used, !.left = DOMAIN used, !.asOf = writes, !.pc = pc]
        BY <1>1, <4>3
      <4>5. ex'[x].pc = pc
        BY <1>1, <4>4 DEF IsProcess
      <4> QED
        BY <4>2, <4>5 DEF Writing
    <3> QED
      BY <3>1, <3>2
  <2>6. CASE LoadManifest(x)
    <3>1. CASE Goto(x, "refused")
      BY <2>1, <3>1
    <3>2. CASE ~Goto(x, "refused")
      <4>1. PICK hashes : ex' = [ex EXCEPT ![x].hashes = hashes, ![x].pc = "annotation"]
        BY <2>6, <3>2, Zenon DEF LoadManifest
      <4>2. ex'[x] = [ex[x] EXCEPT !.hashes = hashes, !.pc = "annotation"]
        BY <1>1, <4>1
      <4>3. ex'[x].pc = "annotation"
        BY <1>1, <4>2 DEF IsProcess
      <4> QED
        BY <4>3 DEF Writing
    <3> QED
      BY <3>1, <3>2
  <2>7. CASE LoadAnnotation(x)
    <3>1. CASE Goto(x, "refused")
      BY <2>1, <3>1
    <3>2. CASE ~Goto(x, "refused")
      <4> DEFINE e == NextEpisode(x)
                 ep == [segs |-> run[ex[x].used[e]].segs, made |-> run[ex[x].used[e]].made]
                 loaded == Enter(ex[x].loaded, e, ep)
                 left == ex[x].left \ {e}
                 pc == IF ex[x].left = {e} THEN "check" ELSE "manifest"
      <4>1. pc \in {"check", "manifest"}
        OBVIOUS
      <4>2. ex' = [ex EXCEPT ![x].loaded = loaded, ![x].left = left, ![x].pc = pc]
        BY <2>7, <3>2 DEF LoadAnnotation
      <4> HIDE DEF loaded, left, pc
      <4>3. ex'[x] = [ex[x] EXCEPT !.loaded = loaded, !.left = left, !.pc = pc]
        BY <1>1, <4>2
      <4>4. ex'[x].pc = pc
        BY <1>1, <4>3 DEF IsProcess
      <4> QED
        BY <4>1, <4>4 DEF Writing
    <3> QED
      BY <3>1, <3>2
  <2> QED
    BY <2>2, <2>3, <2>4, <2>5, <2>6, <2>7
<1>4. Covered(x)'
  BY <1>3 DEF Covered
<1> QED
  BY <1>2, <1>4, BackupsStep

\* The new backup covers its exporter: what is not the original any more has been
\* kept by an earlier one.
LEMMA BackupsPrepared ==
    ASSUME IInv, BackupsTrue, NEW x \in Exporters, PrepareLayout(x)
    PROVE  BackupsTrue'
<1>1. ex = [y \in Exporters |-> ex[y]] /\ IsProcess(ex[x]) /\ Process(ex[x], run, writes)
  BY DEF IInv, Tables, Processes, Process
<1>2. UNCHANGED <<dataset, inPlace>> /\ Proceed(x) /\ backups \subseteq backups'
  BY DEF PrepareLayout, Proceed, WithBackup
<1>3. /\ ex'[x].req = ex[x].req /\ ex'[x].used = ex[x].used
      \/ ex'[x].pc \notin Writing
  <2>1. CASE Goto(x, "failed")
    BY <2>1, GotoIs DEF Writing
  <2>2. CASE ex' = [ex EXCEPT ![x].left = DOMAIN ex[x].used, ![x].pc = "registry"]
    <3>1. ex'[x] = [ex[x] EXCEPT !.left = DOMAIN ex[x].used, !.pc = "registry"]
      BY <1>1, <2>2
    <3> QED
      BY <1>1, <3>1 DEF IsProcess
  <2> QED
    BY <2>1, <2>2 DEF PrepareLayout
<1>4. ASSUME Req(x).inPlace
      PROVE  MetaKept' /\ \A e \in DOMAIN ex[x].used : DataKept(e)'
  <2> DEFINE copy == Copy(DOMAIN ex[x].used, MetaFiles)
  <2>1. copy \in backups'
    BY <1>4 DEF PrepareLayout, WithBackup
  <2>2. /\ copy.reg = dataset.reg /\ copy.side = dataset.side /\ copy.lists = dataset.lists
        /\ DOMAIN copy.data = DOMAIN ex[x].used
        /\ \A e \in DOMAIN ex[x].used : copy.data[e] = dataset.data[e]
    BY DEF Copy, MetaFiles
  <2> HIDE DEF copy
  <2>3. MetaKept'
    <3>1. CASE inPlace.began = 0
      <4>1. dataset = Original
        BY <3>1 DEF IInv, DatasetTrue
      <4> QED
        BY <2>1, <2>2, <4>1 DEF MetaKept
    <3>2. CASE inPlace.began # 0
      <4>1. inPlace.began > 0
        BY <3>2 DEF IInv, DatasetTrue
      <4> QED
        BY <1>2, <4>1, KeptStays DEF BackupsTrue
    <3> QED
      BY <3>1, <3>2
  <2>4. ASSUME NEW e \in DOMAIN ex[x].used
        PROVE  DataKept(e)'
    <3>1. e \in Episodes
      BY <1>1 DEF Process, Memory, Running, PrepareLayout, At
    <3>2. CASE dataset.data[e] = << >>
      <4>1. Original.data[e] = << >>
        BY <3>1 DEF Original
      <4> QED
        BY <2>1, <2>2, <3>2, <4>1 DEF DataKept
    <3>3. CASE dataset.data[e] # << >>
      BY <1>2, <3>1, <3>3, KeptStays DEF BackupsTrue
    <3> QED
      BY <3>2, <3>3
  <2> QED
    BY <2>3, <2>4
<1>5. Covered(x)'
  BY <1>3, <1>4 DEF Covered, Req
<1> QED
  BY <1>2, <1>5, BackupsStep

\* An exporter in the try block writes what is kept.
LEMMA BackupsWritten ==
    ASSUME IInv, BackupsTrue, NEW x \in Exporters,
           \/ WriteRegistry(x) \/ WriteData(x) \/ WriteLists(x) \/ WriteSidecar(x)
           \/ Validate(x) \/ WriteProvenance(x)
    PROVE  BackupsTrue'
<1>1. /\ ex = [y \in Exporters |-> ex[y]] /\ IsProcess(ex[x]) /\ Process(ex[x], run, writes)
      /\ IsTree(dataset) /\ DOMAIN dataset.data = Episodes
  BY DEF IInv, Tables, Processes, Process, DatasetTrue
<1>2. ex[x].pc \in Writing
  BY DEF WriteRegistry, WriteData, WriteLists, WriteSidecar, Validate, WriteProvenance, At,
         Writing
<1>3. Proceed(x) /\ backups' = backups
  BY DEF WriteRegistry, WriteData, WriteLists, WriteSidecar, Validate, WriteProvenance,
         Proceed, Write, treeVars
<1>4. /\ ex'[x].req = ex[x].req /\ ex'[x].used = ex[x].used
      \/ ex'[x].pc \notin Writing
  <2>1. ASSUME NEW pc, Goto(x, pc)
        PROVE  (ex'[x].req = ex[x].req /\ ex'[x].used = ex[x].used) \/ ex'[x].pc \notin Writing
    BY <2>1, GotoIs
  <2>2. CASE WriteData(x)
    <3>1. CASE Goto(x, "failed")
      BY <2>1, <3>1
    <3>2. CASE ~Goto(x, "failed")
      <4> DEFINE left == ex[x].left \ {NextEpisode(x)}
                 pc == IF ex[x].left = {NextEpisode(x)} THEN "lists" ELSE "data"
      <4>1. ex' = [ex EXCEPT ![x].left = left, ![x].pc = pc]
        BY <2>2, <3>2 DEF WriteData
      <4> HIDE DEF left, pc
      <4>2. ex'[x] = [ex[x] EXCEPT !.left = left, !.pc = pc]
        BY <1>1, <4>1
      <4> QED
        BY <1>1, <4>2 DEF IsProcess
    <3> QED
      BY <3>1, <3>2
  <2>3. CASE WriteRegistry(x) \/ WriteLists(x) \/ WriteSidecar(x) \/ Validate(x)
             \/ WriteProvenance(x)
    BY <2>1, <2>3 DEF WriteRegistry, WriteLists, WriteSidecar, Validate, WriteProvenance
  <2> QED
    BY <2>2, <2>3
<1>5. Covered(x)'
  <2>1. (MetaKept => MetaKept') /\ \A e : DataKept(e) => DataKept(e)'
    BY <1>3, KeptStays
  <2>2. Covered(x)
    BY DEF BackupsTrue
  <2> QED
    BY <1>2, <1>4, <2>1, <2>2 DEF Covered, Req
<1>6. inPlace'.began > 0 => inPlace.began > 0 \/ MetaKept
  <2>1. CASE WriteRegistry(x) /\ Req(x).inPlace
    BY <1>2, <2>1 DEF BackupsTrue, Covered
  <2>2. CASE ~(WriteRegistry(x) /\ Req(x).inPlace)
    <3>1. inPlace' = inPlace
      BY <2>2 DEF WriteRegistry, WriteData, WriteLists, WriteSidecar, Validate,
                  WriteProvenance, Write, treeVars
    <3> QED
      BY <3>1
  <2> QED
    BY <2>1, <2>2
<1>7. \A e \in Episodes : dataset'.data[e] # << >> => dataset.data[e] # << >> \/ DataKept(e)
  <2>1. CASE ~Req(x).inPlace
    <3>1. dataset' = dataset
      BY <2>1 DEF WriteRegistry, WriteData, WriteLists, WriteSidecar, Validate,
                  WriteProvenance, Write, treeVars
    <3> QED
      BY <3>1
  <2>2. CASE Req(x).inPlace /\ WriteData(x)
    <3>1. CASE UNCHANGED treeVars
      BY <3>1 DEF treeVars
    <3>2. CASE ~UNCHANGED treeVars
      <4> DEFINE e0 == NextEpisode(x)
                 columns == Append(dataset.data[e0],
                                   Column(Eps(x)[e0].segs, Registry(Eps(x))))
      <4>1. dataset' = [dataset EXCEPT !.data = Enter(dataset.data, e0, columns)]
        BY <1>1, <2>2, <3>2, Zenon DEF WriteData, Write, Place
      <4> HIDE DEF columns
      <4>2. e0 \in DOMAIN ex[x].used
        <5>1. ex[x].left # {} /\ ex[x].left \subseteq DOMAIN ex[x].used
          BY <1>1, <1>2, <2>2 DEF Process, Writer, WriteData, At
        <5>2. DOMAIN ex[x].used \subseteq Episodes
          BY <1>1, <1>2 DEF Process, Memory, Running, Writing
        <5> QED
          BY <5>1, <5>2, MinOfSome, SinkAssumption DEF NextEpisode
      <4> HIDE DEF e0
      <4>3. dataset'.data = Enter(dataset.data, e0, columns)
        BY <1>1, <4>1, TreeData
      <4>4. \A e \in Episodes : e # e0 => dataset'.data[e] = dataset.data[e]
        BY <1>1, <4>3 DEF Enter
      <4>5. DataKept(e0)
        BY <1>2, <2>2, <4>2 DEF BackupsTrue, Covered
      <4> QED
        BY <4>4, <4>5
    <3> QED
      BY <3>1, <3>2
  <2>3. CASE Req(x).inPlace /\ ~WriteData(x)
    <3>1. dataset' = dataset \/ \E a : \/ dataset' = [dataset EXCEPT !.reg = a]
                                       \/ dataset' = [dataset EXCEPT !.lists = a]
                                       \/ dataset' = [dataset EXCEPT !.side = a]
                                       \/ dataset' = [dataset EXCEPT !.meta = a]
                                       \/ dataset' = [dataset EXCEPT !.prov = a]
      BY <2>3 DEF WriteRegistry, WriteLists, WriteSidecar, Validate, WriteProvenance, Write,
                  Place, CopyMeta, treeVars
    <3>2. dataset'.data = dataset.data
      BY <1>1, <3>1, TreeReg, TreeLists, TreeSide, TreeMeta, TreeProv
    <3> QED
      BY <3>2
  <2> QED
    BY <2>1, <2>2, <2>3
<1> QED
  BY <1>3, <1>5, <1>6, <1>7, BackupsStep

\* The renames do not concern the dataset.
LEMMA BackupsMoved ==
    ASSUME IInv, BackupsTrue, NEW x \in Exporters,
           Swap(x) \/ StashOut(x) \/ Install(x) \/ RestoreOut(x) \/ DropStash(x)
    PROVE  BackupsTrue'
<1>1. /\ Proceed(x) /\ backups' = backups /\ dataset' = dataset /\ ex[x].pc \in Writing
  BY DEF Swap, StashOut, Install, RestoreOut, DropStash, Proceed, At, Writing
<1>2. \E pc : Goto(x, pc)
  BY DEF Swap, StashOut, Install, RestoreOut, DropStash
<1>3. /\ ex'[x].req = ex[x].req /\ ex'[x].used = ex[x].used
      \/ ex'[x].pc \notin Writing
  BY <1>2, GotoIs
<1>4. Covered(x)'
  <2>1. (MetaKept => MetaKept') /\ \A e : DataKept(e) => DataKept(e)'
    BY <1>1, KeptStays
  <2>2. Covered(x)
    BY DEF BackupsTrue
  <2> QED
    BY <1>1, <1>3, <2>1, <2>2 DEF Covered, Req
<1>5. inPlace'.began = inPlace.began
  <2>1. inPlace = [began |-> inPlace.began, finished |-> inPlace.finished]
    BY DEF IInv, DatasetTrue
  <2>2. inPlace' = inPlace \/ \E n : inPlace' = [inPlace EXCEPT !.finished = n]
    BY DEF Swap, StashOut, Install, RestoreOut, DropStash
  <2>3. \A n : [inPlace EXCEPT !.finished = n].began = inPlace.began
    BY <2>1
  <2> QED
    BY <2>2, <2>3
<1> QED
  BY <1>1, <1>4, <1>5, BackupsStep

\* Every exporter leaves the originals of what it writes in a backup.
THEOREM OriginalsKept == Spec => []BackupsTrue
<1>1. Init => BackupsTrue
  <2> SUFFICES ASSUME Init PROVE BackupsTrue
    OBVIOUS
  <2>1. inPlace.began = 0 /\ \A e \in Episodes : dataset.data[e] = << >>
    BY DEF Init, Original
  <2>2. \A x \in Exporters : ex[x].pc \notin Writing
    BY DEF Init, Idle, Writing
  <2> QED
    BY <2>1, <2>2 DEF BackupsTrue, Covered
<1>2. IInv /\ BackupsTrue /\ [Next]_vars => BackupsTrue'
  <2> SUFFICES ASSUME IInv, BackupsTrue, [Next]_vars PROVE BackupsTrue'
    OBVIOUS
  <2>1. CASE UNCHANGED <<treeVars, ex>>
    BY <2>1 DEF treeVars, BackupsTrue, Covered, MetaKept, DataKept, Req
  <2>2. ASSUME NEW x \in Exporters, Start(x) \/ Proceed(x) \/ Kill(x) \/ KillInBackup(x)
        PROVE  BackupsTrue'
    BY <2>2, BackupsBefore, BackupsPrepared, BackupsWritten, BackupsMoved DEF Proceed
  <2>3. CASE UNCHANGED vars
    BY <2>1, <2>3 DEF vars
  <2>4. CASE \E r \in Runs : BeginEdit(r) \/ EndEdit(r) \/ BeginPublish(r) \/ EndPublish(r)
    BY <2>1, <2>4 DEF BeginEdit, EndEdit, BeginPublish, EndPublish
  <2>5. CASE AbandonWrite
    BY <2>1, <2>5 DEF AbandonWrite
  <2> QED
    BY <2>2, <2>3, <2>4, <2>5 DEF Next
<1> QED
  BY <1>1, <1>2, Invariance, PTL DEF Spec

\* Once there was an export, OUT or a stash holds a complete one; of every file of the
\* dataset that an in-place export wrote, some backup has the original.
THEOREM NothingLost == Spec => []PreviousKept
<1>1. IInv /\ BackupsTrue => PreviousKept
  <2> SUFFICES ASSUME IInv, BackupsTrue PROVE PreviousKept
    OBVIOUS
  <2>1. OutTrue
    BY DEF IInv
  <2>2. ASSUME published
        PROVE  \E tree \in {out} \cup {stash[x] : x \in Exporters} : tree # Absent /\ Sound(tree)
    <3>1. CASE out # Absent
      BY <2>1, <3>1 DEF OutTrue, Good
    <3>2. CASE out = Absent
      <4>1. PICK x \in Exporters : stash[x] # Absent
        BY <2>1, <2>2, <3>2 DEF OutTrue
      <4>2. Sound(stash[x])
        BY <2>1, <4>1 DEF OutTrue, Good
      <4> QED
        BY <4>1, <4>2
    <3> QED
      BY <3>1, <3>2
  <2>3. inPlace.began > 0 => MetaKept
    BY DEF BackupsTrue
  <2>4. \A e \in Episodes : dataset.data[e] # Original.data[e] => DataKept(e)
    BY DEF BackupsTrue, Original
  <2> QED
    BY <2>2, <2>3, <2>4 DEF PreviousKept
<1> QED
  BY <1>1, Invariance, OriginalsKept, PTL
=============================================================================
