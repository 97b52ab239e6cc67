-------------------------- MODULE ListStoreProofs ---------------------------
(***************************************************************************)
(* Proofs about ListStore for every set of IDs, keys and configurations,   *)
(* every journal length and every segment limit.                           *)
(*                                                                         *)
(* The second part shows that ListStore implements AckedList: whatever     *)
(* calls fail and whenever the process dies, a list is served as it was    *)
(* acknowledged, and a restart serves the acknowledged list or an outcome  *)
(* that was announced.                                                     *)
(*                                                                         *)
(* One hypothesis is needed for it, PrefixesBuild: a batch whose whole can *)
(* be built has no prefix that cannot.  The code does not establish it for *)
(* batches of several records when MaxRun is small (the replay of a torn   *)
(* batch is then set aside, acknowledged records with it); it holds when   *)
(* every Upsert has one record, and when the list has at most MaxRun IDs.  *)
(***************************************************************************)
EXTENDS ListStore, SequenceTheorems, WellFoundedInduction, FiniteSetTheorems, TLAPS

-----------------------------------------------------------------------------
(* Replaying journal records, for every set of IDs and values.             *)

\* A nonempty set of naturals that has an upper bound has a greatest element.
LEMMA Greatest ==
    ASSUME NEW S \in SUBSET Nat, S # {}, NEW bound \in Nat, \A n \in S : n <= bound
    PROVE  \E m \in S : \A n \in S : n <= m
  <1> DEFINE R == OpToRel(<, Nat)
             T == {bound - n : n \in S}
  <1>1. IsWellFoundedOn(R, Nat)
    BY NatLessThanWellFounded
  <1>2. T \subseteq Nat /\ T # {}
    <2>1. \A n \in S : bound - n \in Nat
      OBVIOUS
    <2>2. PICK n \in S : TRUE
      OBVIOUS
    <2>3. bound - n \in T
      OBVIOUS
    <2> QED
      BY <2>1, <2>3
  <1>3. \A x, y \in Nat : <<x, y>> \in R <=> x < y
    BY DEF OpToRel
  <1> HIDE DEF R, T
  <1>4. PICK x \in T : \A y \in T : <<y, x>> \notin R
    BY <1>1, <1>2, WFMin, Zenon
  <1>5. \A y \in T : ~(y < x)
    BY <1>2, <1>3, <1>4
  <1> USE DEF T
  <1>6. PICK m \in S : x = bound - m
    BY DEF T
  <1>7. \A n \in S : bound - n \in T
    BY DEF T
  <1>8. ASSUME NEW n \in S PROVE n <= m
    <2>1. ~(bound - n < bound - m)
      BY <1>5, <1>6, <1>7
    <2> QED
      BY <2>1
  <1> QED
    BY <1>8

\* The last record touching an ID exists and is the last.
LEMMA LastTouchIsLast ==
    ASSUME NEW j \in Seq(Recs), NEW i, Touching(j, i) # {}
    PROVE  /\ LastTouch(j, i) \in Touching(j, i)
           /\ \A k \in Touching(j, i) : k <= LastTouch(j, i)
  <1>1. Touching(j, i) \in SUBSET Nat /\ \A n \in Touching(j, i) : n <= Len(j)
    BY DEF Touching
  <1>2. \E m \in Touching(j, i) : \A n \in Touching(j, i) : n <= m
    <2>1. Len(j) \in Nat
      OBVIOUS
    <2> QED
      BY <1>1, <2>1, Greatest
  <1> QED
    BY <1>2 DEF LastTouch

\* There is only one last record.
LEMMA LastTouchUnique ==
    ASSUME NEW j \in Seq(Recs), NEW i, NEW n \in Touching(j, i),
           \A k \in Touching(j, i) : k <= n
    PROVE  LastTouch(j, i) = n
  <1>1. /\ LastTouch(j, i) \in Touching(j, i)
        /\ n <= LastTouch(j, i)
        /\ LastTouch(j, i) <= n
    BY LastTouchIsLast
  <1>2. n \in Nat /\ LastTouch(j, i) \in Nat
    BY <1>1 DEF Touching
  <1> QED
    BY <1>1, <1>2

\* Replaying records over an entry set gives an entry set.
LEMMA ApplyType ==
    ASSUME NEW m \in Contents, NEW j \in Seq(Recs)
    PROVE  ApplyRecs(m, j) \in Contents
  <1>1. ASSUME NEW i \in IDs, Touching(j, i) # {}
        PROVE  j[LastTouch(j, i)].val \in Vals \cup {None}
    <2>1. LastTouch(j, i) \in DOMAIN j
      BY <1>1, LastTouchIsLast DEF Touching
    <2>2. j[LastTouch(j, i)] \in Recs
      BY <2>1
    <2> QED
      BY <2>2 DEF Recs
  <1> QED
    BY <1>1 DEF ApplyRecs, Contents

\* An empty journal changes nothing.
LEMMA ApplyEmpty ==
    ASSUME NEW m \in Contents
    PROVE  ApplyRecs(m, <<>>) = m
  BY DEF ApplyRecs, Contents, Touching

\* Cutting a grown journal back to where it began gives the old one.
LEMMA CutBack ==
    ASSUME NEW j \in Seq(Recs), NEW r \in Seq(Recs)
    PROVE  /\ j \o r \in Seq(Recs)
           /\ Len(j) <= Len(j \o r)
           /\ SubSeq(j \o r, 1, Len(j)) = j
  <1>1. /\ Len(j) \in 0 .. Len(j)
        /\ SubSeq(j, 1, Len(j)) = j
    BY SubSeqFull
  <1>2. SubSeq(j \o r, 1, Len(j)) = SubSeq(j, 1, Len(j))
    BY <1>1, SubSeqOfConcat1
  <1> QED
    BY <1>1, <1>2

\* What touches an ID in a longer journal.
LEMMA TouchingConcat ==
    ASSUME NEW j \in Seq(Recs), NEW r \in Seq(Recs), NEW i
    PROVE  Touching(j \o r, i)
             = Touching(j, i) \cup {Len(j) + n : n \in Touching(r, i)}
  <1> DEFINE s == j \o r
  <1>1. /\ s \in Seq(Recs)
        /\ Len(s) = Len(j) + Len(r)
        /\ \A n \in 1 .. Len(j) : s[n] = j[n]
        /\ \A n \in 1 .. Len(r) : s[Len(j) + n] = r[n]
    OBVIOUS
  <1>2. DOMAIN s = 1 .. Len(s) /\ DOMAIN j = 1 .. Len(j) /\ DOMAIN r = 1 .. Len(r)
    OBVIOUS
  <1> HIDE DEF s
  <1>3. ASSUME NEW n \in Touching(s, i)
        PROVE  n \in Touching(j, i) \cup {Len(j) + k : k \in Touching(r, i)}
    <2>1. n \in 1 .. Len(j) + Len(r) /\ s[n].id = i
      BY <1>1, <1>2, <1>3 DEF Touching
    <2>2. CASE n <= Len(j)
      BY <1>1, <1>2, <2>1, <2>2 DEF Touching
    <2>3. CASE ~(n <= Len(j))
      <3>1. n - Len(j) \in 1 .. Len(r) /\ n = Len(j) + (n - Len(j))
        BY <2>1, <2>3
      <3>2. n - Len(j) \in Touching(r, i)
        BY <1>1, <1>2, <2>1, <3>1 DEF Touching
      <3> QED
        BY <3>1, <3>2
    <2> QED
      BY <2>2, <2>3
  <1>4. Touching(j, i) \subseteq Touching(s, i)
    BY <1>1, <1>2 DEF Touching
  <1>5. ASSUME NEW k \in Touching(r, i) PROVE Len(j) + k \in Touching(s, i)
    <2>1. k \in 1 .. Len(r) /\ r[k].id = i
      BY <1>2, <1>5 DEF Touching
    <2>2. Len(j) + k \in 1 .. Len(s) /\ s[Len(j) + k] = r[k]
      BY <1>1, <2>1
    <2> QED
      BY <1>2, <2>1, <2>2 DEF Touching
  <1>6. Touching(s, i) = Touching(j, i) \cup {Len(j) + k : k \in Touching(r, i)}
    BY <1>3, <1>4, <1>5
  <1> QED
    BY <1>6 DEF s

\* Replaying two journals one after the other replays their concatenation.
LEMMA ApplyConcat ==
    ASSUME NEW m \in Contents, NEW j \in Seq(Recs), NEW r \in Seq(Recs)
    PROVE  ApplyRecs(ApplyRecs(m, j), r) = ApplyRecs(m, j \o r)
  <1> DEFINE s == j \o r
  <1>1. /\ s \in Seq(Recs)
        /\ \A n \in 1 .. Len(j) : s[n] = j[n]
        /\ \A n \in 1 .. Len(r) : s[Len(j) + n] = r[n]
    OBVIOUS
  <1>2. \A i : Touching(s, i) = Touching(j, i) \cup {Len(j) + n : n \in Touching(r, i)}
    BY TouchingConcat
  <1> HIDE DEF s
  <1>3. \A i : Touching(j, i) \subseteq 1 .. Len(j) /\ Touching(r, i) \subseteq 1 .. Len(r)
    BY DEF Touching
  <1>4. ASSUME NEW i \in IDs
        PROVE  ApplyRecs(ApplyRecs(m, j), r)[i] = ApplyRecs(m, s)[i]
    <2>1. CASE Touching(r, i) # {}
      <3> DEFINE k == LastTouch(r, i)
      <3>1. k \in Touching(r, i) /\ \A n \in Touching(r, i) : n <= k
        BY <2>1, LastTouchIsLast
      <3>2. k \in 1 .. Len(r) /\ Len(j) \in Nat /\ Len(r) \in Nat
        BY <1>3, <3>1
      <3> HIDE DEF k
      <3>3. Len(j) + k \in Touching(s, i)
        BY <1>2, <3>1
      <3>4. \A n \in Touching(s, i) : n <= Len(j) + k
        BY <1>2, <1>3, <3>1, <3>2
      <3>5. LastTouch(s, i) = Len(j) + k
        BY <1>1, <3>3, <3>4, LastTouchUnique
      <3>6. s[LastTouch(s, i)] = r[k]
        BY <1>1, <3>2, <3>5
      <3> QED
        BY <2>1, <3>3, <3>6 DEF ApplyRecs, k
    <2>2. CASE Touching(r, i) = {} /\ Touching(j, i) # {}
      <3>1. Touching(s, i) = Touching(j, i)
        BY <1>2, <2>2
      <3>2. LastTouch(s, i) = LastTouch(j, i)
        BY <3>1 DEF LastTouch
      <3>3. s[LastTouch(s, i)] = j[LastTouch(j, i)]
        BY <1>1, <1>3, <2>2, <3>2, LastTouchIsLast
      <3> QED
        BY <2>2, <3>1, <3>3 DEF ApplyRecs
    <2>3. CASE Touching(r, i) = {} /\ Touching(j, i) = {}
      <3>1. Touching(s, i) = {}
        BY <1>2, <2>3
      <3> QED
        BY <2>3, <3>1 DEF ApplyRecs
    <2> QED
      BY <2>1, <2>2, <2>3
  <1>5. ApplyRecs(ApplyRecs(m, j), r) = ApplyRecs(m, s)
    BY <1>4 DEF ApplyRecs
  <1> QED
    BY <1>5 DEF s

\* Replaying a journal a second time changes nothing: what lets a crash
\* between Compact's rename and its truncate replay the old journal over the
\* folded base.
LEMMA ApplyTwice ==
    ASSUME NEW m \in Contents, NEW j \in Seq(Recs)
    PROVE  ApplyRecs(ApplyRecs(m, j), j) = ApplyRecs(m, j)
  BY DEF ApplyRecs

-----------------------------------------------------------------------------
(* The inductive invariant: how far the directory and the list agree at    *)
(* each call of each mutation.                                             *)

\* The served list is the replay of its own stamp and can be built again.
MemInv ==
    mem # None => /\ mem = ListOf(mem.cfg, mem.baseID, mem.jhash)
                  /\ Buildable(mem.over)

ConfigKept == ~disk.marker /\ disk.config = mem.cfg

\* The directory is exactly what the served list was replayed from.
Coherent ==
    /\ ConfigKept
    /\ disk.base = mem.baseID
    /\ JournalRecs(disk) = mem.jhash
    /\ ~disk.torn

\* What the damage kind says about the directory between mutations.
Settled ==
    mem # None => /\ damage = "none"    => Coherent
                  /\ damage = "content" => ConfigKept

IdleInv ==
    /\ ~up => mem = None /\ op = Idle /\ damage = "none"
    /\ op.kind = "idle" => op = Idle /\ Settled
    /\ disk.journal = None => ~disk.torn

AppendInv ==
    op.kind = "append" =>
        /\ op.at \in {"write", "sync", "commit", "rollback"}
        /\ mem # None /\ damage = "none"
        /\ ConfigKept
        /\ disk.base = mem.baseID
        /\ disk.journal # None
        /\ Buildable(ApplyRecs(mem.over, op.recs))
        /\ op.start = Len(mem.jhash)
        /\ op.at = "write" => disk.journal = mem.jhash /\ ~disk.torn
        /\ op.at \in {"sync", "commit"} =>
               disk.journal = mem.jhash \o op.recs /\ ~disk.torn
        /\ op.at = "rollback" =>
               Len(mem.jhash) <= Len(disk.journal)
                 /\ SubSeq(disk.journal, 1, op.start) = mem.jhash

BaseInv ==
    op.kind \in BaseOps =>
        /\ op.at \in {"rmidx", "rename", "syncdir", "truncate", "synctrunc",
                      "install", "saveidx"}
        /\ mem # None /\ damage # "create"
        /\ ConfigKept
        /\ op.base \in Contents /\ Buildable(op.base)
        /\ op.at \in {"rmidx", "rename"} => Settled
        /\ op.at \in {"syncdir", "truncate", "synctrunc", "install"} => disk.base = op.base
        /\ (op.at \in {"syncdir", "truncate"} /\ damage = "none") =>
               JournalRecs(disk) = mem.jhash
        /\ op.at \in {"synctrunc", "install"} => JournalRecs(disk) = <<>> /\ ~disk.torn
        /\ (op.kind = "compact" /\ op.at # "saveidx") => op.base = Live(mem)
        /\ op.at = "saveidx" => damage = "none" /\ Coherent

CreateInv ==
    op.kind = "create" =>
        /\ op.at \in {"mark", "markdir", "wipebase", "wipeidx", "wipejournal", "config",
                      "configdir", "unmark", "unmarkdir", "install"}
        /\ op.cfg \in Cfgs
        /\ op.at = "mark" => Settled
        /\ op.at \in {"wipeidx", "wipejournal", "config", "configdir", "unmark",
                      "unmarkdir", "install"} => disk.base = None
        /\ op.at \in {"config", "configdir", "unmark", "unmarkdir", "install"} =>
               disk.journal = None
        /\ op.at \in {"configdir", "unmark", "unmarkdir", "install"} => disk.config = op.cfg
        /\ op.at \in {"unmarkdir", "install"} => ~disk.marker

IInv == TypeOK /\ MemInv /\ IdleInv /\ AppendInv /\ BaseInv /\ CreateInv

-----------------------------------------------------------------------------
(* The operators.                                                          *)

\* An empty entry set can always be built.
LEMMA NoEntriesBuildable == NoEntries \in Contents /\ Buildable(NoEntries)
  <1>1. NoEntries \in Contents
    BY DEF NoEntries, Contents
  <1>2. ASSUME NEW v \in Vals PROVE Cardinality({i \in IDs : NoEntries[i] = v}) <= MaxRun
    <2>1. {i \in IDs : NoEntries[i] = v} = {}
      BY NoneAssumption DEF NoEntries
    <2>2. Cardinality({}) = 0
      BY FS_EmptySet
    <2> QED
      BY <2>1, <2>2, MaxRunAssumption
  <1> QED
    BY <1>1, <1>2 DEF Buildable

\* The base segment of any identity is an entry set.
LEMMA SegmentType ==
    ASSUME NEW id \in OptContents PROVE Segment(id) \in Contents
  BY NoEntriesBuildable DEF Segment, OptContents

\* Replaying a journal over a base gives a list object.
LEMMA ListOfType ==
    ASSUME NEW c \in Cfgs, NEW id \in OptContents, NEW j \in Seq(Recs)
    PROVE  ListOf(c, id, j) \in Lists
  <1>1. Segment(id) \in Contents
    BY SegmentType
  <1>2. ApplyRecs(NoEntries, j) \in Contents
    BY NoEntriesBuildable, ApplyType
  <1>3. TombsOf(Segment(id), j) \in SUBSET IDs
    BY DEF TombsOf
  <1>4. Stamp(c, id, j) \in Stamps
    BY DEF Stamp, Stamps
  <1> QED
    BY <1>1, <1>2, <1>3, <1>4 DEF ListOf, Lists

\* What a list serves is its base with its journal applied.
LEMMA LiveOfList ==
    ASSUME NEW c, NEW id \in OptContents, NEW j \in Seq(Recs)
    PROVE  Live(ListOf(c, id, j)) = ApplyRecs(Segment(id), j)
  <1> DEFINE b == Segment(id)
             l == ListOf(c, id, j)
  <1>1. b \in Contents
    BY SegmentType
  <1>2. l.base = b /\ l.over = ApplyRecs(NoEntries, j) /\ l.tomb = TombsOf(b, j)
    BY DEF ListOf
  <1> HIDE DEF l, b
  <1>3. ASSUME NEW i \in IDs PROVE Live(l)[i] = ApplyRecs(b, j)[i]
    <2>1. CASE Touching(j, i) = {}
      <3>1. l.over[i] = None /\ i \notin l.tomb
        BY <1>2, <2>1 DEF ApplyRecs, NoEntries, TombsOf
      <3> QED
        BY <1>2, <2>1, <3>1 DEF Live, ApplyRecs
    <2>2. CASE Touching(j, i) # {}
      <3>1. l.over[i] = j[LastTouch(j, i)].val
        BY <1>2, <2>2 DEF ApplyRecs
      <3>2. i \in l.tomb <=> b[i] # None
        BY <1>2, <2>2 DEF TombsOf
      <3>3. ApplyRecs(b, j)[i] = j[LastTouch(j, i)].val
        BY <2>2 DEF ApplyRecs
      <3> QED
        BY <1>2, <3>1, <3>2, <3>3 DEF Live
    <2> QED
      BY <2>1, <2>2
  <1>4. Live(l) = ApplyRecs(b, j)
    BY <1>3 DEF Live, ApplyRecs
  <1> QED
    BY <1>4 DEF l, b

\* Committing a batch to a replayed list is replaying the longer journal.
LEMMA CommittedIsReplay ==
    ASSUME NEW c, NEW id \in OptContents, NEW j \in Seq(Recs), NEW r \in Seq(Recs)
    PROVE  Committed(ListOf(c, id, j), r) = ListOf(c, id, j \o r)
  <1> DEFINE b == Segment(id)
  <1>1. ApplyRecs(ApplyRecs(NoEntries, j), r) = ApplyRecs(NoEntries, j \o r)
    BY NoEntriesBuildable, ApplyConcat
  <1>2. ASSUME NEW i
        PROVE  Touching(j \o r, i) = {} <=> Touching(j, i) = {} /\ Touching(r, i) = {}
    <2>1. Touching(j \o r, i) = Touching(j, i) \cup {Len(j) + n : n \in Touching(r, i)}
      BY TouchingConcat
    <2>2. ASSUME NEW n \in Touching(r, i) PROVE Touching(j \o r, i) # {}
      BY <2>1
    <2> QED
      BY <2>1, <2>2
  <1>3. TombsOf(b, j) \cup TombsOf(b, r) = TombsOf(b, j \o r)
    BY <1>2 DEF TombsOf
  <1> DEFINE l == ListOf(c, id, j)
  <1>4. /\ l.cfg = c /\ l.baseID = id /\ l.base = b /\ l.jhash = j
        /\ l.over = ApplyRecs(NoEntries, j) /\ l.tomb = TombsOf(b, j)
    BY DEF ListOf
  <1>5. Committed(l, r)
          = [l EXCEPT !.over  = ApplyRecs(NoEntries, j \o r),
                      !.tomb  = TombsOf(b, j \o r),
                      !.jhash = j \o r,
                      !.ver   = Stamp(c, id, j \o r)]
    BY <1>1, <1>3, <1>4, Zenon DEF Committed
  <1> QED
    BY <1>5 DEF ListOf

\* Opening a directory replays what it holds, index included.
LEMMA OpenedIsReplay ==
    ASSUME NEW d \in Directories, Openable(d)
    PROVE  LET j == IF Poisoned(d) THEN <<>> ELSE JournalRecs(d)
           IN  /\ j \in Seq(Recs)
               /\ Opened(d) = ListOf(d.config, d.base, j)
               /\ Opened(d) \in Lists
               /\ Buildable(Opened(d).over)
  <1> DEFINE j == IF Poisoned(d) THEN <<>> ELSE JournalRecs(d)
  <1>1. j \in Seq(Recs)
    BY DEF Directories, JournalRecs
  <1>2. BaseIx(d) = [base |-> d.base, cfg |-> d.config]
    BY DEF BaseIx, AcceptsIdx, Directories
  <1>3. Opened(d) = ListOf(d.config, d.base, j)
    BY <1>2 DEF Opened, ListOf
  <1>4. d.config \in Cfgs /\ d.base \in OptContents
    BY DEF Openable, Directories
  <1>5. Opened(d) \in Lists
    BY <1>1, <1>3, <1>4, ListOfType
  <1>6. Opened(d).over = ApplyRecs(NoEntries, j)
    BY <1>3 DEF ListOf
  <1>7. Buildable(ApplyRecs(NoEntries, j))
    BY NoEntriesBuildable, ApplyEmpty DEF Poisoned
  <1> QED
    BY <1>1, <1>3, <1>5, <1>6, <1>7

-----------------------------------------------------------------------------
(* The invariant holds initially and every step preserves it.              *)

\* A fresh directory satisfies the inductive invariant.
LEMMA InitIInv == Init => IInv
  <1> SUFFICES ASSUME Init PROVE IInv
    OBVIOUS
  <1>1. <<>> \in Seq(Recs) /\ NoEntries \in Contents /\ Buildable(NoEntries)
    BY NoEntriesBuildable
  <1>2. CASE disk = Dir(None, None, None) /\ mem = None /\ acked = None
    BY <1>1, <1>2 DEF Init, IInv, TypeOK, Directories, Ops, Phases, MemInv, IdleInv, AppendInv, BaseInv, CreateInv,
       Settled, Dir, Idle, BaseOps, OptContents
  <1>3. ASSUME NEW c \in Cfgs, NEW b \in Bases \cup {None}, NEW j \in {None, <<>>},
               disk = Dir(c, b, j),
               mem = ListOf(c, b, <<>>),
               acked = View(ListOf(c, b, <<>>))
        PROVE  IInv
    <2>1. b \in OptContents
      BY BasesAssumption DEF OptContents
    <2>2. mem \in Lists
      BY <1>1, <1>3, <2>1, ListOfType
    <2>3. /\ mem.cfg = c /\ mem.baseID = b /\ mem.jhash = <<>>
          /\ mem.over = ApplyRecs(NoEntries, <<>>)
      BY <1>3 DEF ListOf
    <2>4. MemInv
      BY <1>1, <1>3, <2>3, ApplyEmpty DEF MemInv
    <2>5. Live(mem) \in Contents
      BY <1>1, <1>3, <2>1, LiveOfList, SegmentType, ApplyType, ZenonT(60)
    <2>6. acked \in Views
      BY <1>3, <2>3, <2>5 DEF View, Views
    <2>7. TypeOK
      BY <1>1, <1>3, <2>1, <2>2, <2>6 DEF Init, TypeOK, Directories, Ops, Phases, Dir, Idle, BaseOps,
         OptContents
    <2>8. Coherent
      BY <1>3, <2>3 DEF Coherent, ConfigKept, Dir, JournalRecs
    <2> QED
      BY <1>3, <2>4, <2>7, <2>8 DEF Init, IInv, IdleInv, AppendInv, BaseInv, CreateInv,
         Settled, Dir, Idle, BaseOps
  <1> QED
    BY <1>2, <1>3 DEF Init

\* No mutation in flight.
LEMMA IdleType == Idle \in Ops /\ Idle.kind = "idle" /\ Idle.at = "none"
  <1>1. <<>> \in Seq(Recs) /\ None \in OptContents /\ "none" \in Phases
    BY DEF OptContents, Phases
  <1> QED
    BY <1>1 DEF Idle, Ops

\* What a client appends is a sequence of records.
LEMMA BatchesType == Batches \subseteq Seq(Recs)
  <1>1. ASSUME NEW n \in 1 .. MaxBatch, NEW r \in [1 .. n -> Upserts] PROVE r \in Seq(Recs)
    <2>1. Upserts \subseteq Recs
      BY DEF Upserts, Recs
    <2>2. n \in Nat /\ r \in [1 .. n -> Recs]
      BY <2>1, BatchAssumption
    <2> QED
      BY <2>2, IsASeq
  <1>2. ASSUME NEW x \in [id : IDs, val : {None}] PROVE <<x>> \in Seq(Recs)
    <2>1. x \in Recs
      BY DEF Recs
    <2> QED
      BY <2>1
  <1> QED
    BY <1>1, <1>2 DEF Batches

\* The served list, taken apart.
LEMMA ServedList ==
    ASSUME IInv, mem # None
    PROVE  /\ mem \in Lists
           /\ mem.cfg \in Cfgs /\ mem.baseID \in OptContents /\ mem.jhash \in Seq(Recs)
           /\ mem = ListOf(mem.cfg, mem.baseID, mem.jhash)
           /\ Live(mem) = ApplyRecs(Segment(mem.baseID), mem.jhash)
           /\ Live(mem) \in Contents
  <1>1. mem \in Lists /\ mem = ListOf(mem.cfg, mem.baseID, mem.jhash)
    BY DEF IInv, TypeOK, MemInv
  <1>2. mem.cfg \in Cfgs /\ mem.baseID \in OptContents /\ mem.jhash \in Seq(Recs)
    BY <1>1 DEF Lists
  <1>3. Live(mem) = ApplyRecs(Segment(mem.baseID), mem.jhash)
    BY <1>1, <1>2, LiveOfList
  <1>4. Live(mem) \in Contents
    BY <1>2, <1>3, SegmentType, ApplyType
  <1> QED
    BY <1>1, <1>2, <1>3, <1>4

\* What an outcome of the served list is, is a view.
LEMMA OutcomeType ==
    ASSUME IInv, mem # None, NEW r \in Seq(Recs)
    PROVE  Outcome(r) \in Views
  <1>1. mem.cfg \in Cfgs /\ Live(mem) \in Contents
    BY ServedList
  <1>2. ApplyRecs(Live(mem), r) \in Contents
    BY <1>1, ApplyType
  <1> QED
    BY <1>1, <1>2 DEF Outcome, View, Views

\* Upsert and Delete.
LEMMA AppendPreserves == IInv /\ AppendStep => IInv'
  <1> SUFFICES ASSUME IInv, AppendStep PROVE IInv'
    OBVIOUS
  <1> USE DEF At, Goto, Quiet, BaseOps, JournalRecs
  <1>1. ASSUME NEW recs \in Batches, BeginAppend(recs) PROVE IInv'
    <2>1. recs \in Seq(Recs)
      BY BatchesType
    <2>2. mem # None /\ op = Idle /\ damage = "none" /\ Coherent
      BY <1>1 DEF BeginAppend, IInv, IdleInv, Settled
    <2>3. mem \in Lists /\ mem.jhash \in Seq(Recs)
      BY <2>2 DEF IInv, TypeOK, Directories, Ops, Phases, Lists
    <2>4. disk'.journal = mem.jhash /\ disk'.journal # None
      BY <1>1, <2>2, <2>3, NoneIsNoJournal DEF BeginAppend, Coherent, IInv, TypeOK, Directories, Ops, Phases
    <2>5. limbo' \in SUBSET Views
      <3>1. ASSUME NEW n \in 1 .. Len(recs) PROVE Outcome(SubSeq(recs, 1, n)) \in Views
        <4>1. SubSeq(recs, 1, n) \in Seq(Recs)
          BY <2>1
        <4> QED
          BY <2>2, <4>1, OutcomeType
      <3> QED
        BY <1>1, <3>1 DEF BeginAppend
    <2>6. TypeOK'
      <3>1. disk' \in Directories
        BY <1>1, <2>3, <2>4 DEF BeginAppend, IInv, TypeOK, Directories
      <3>2. Len(disk'.journal) \in Nat
        BY <2>3, <2>4
      <3>3. op' \in Ops
        BY <1>1, <2>1, <2>2, <2>4, <3>2, IdleType DEF BeginAppend, Coherent, Ops, Phases
      <3> QED
        BY <1>1, <2>5, <3>1, <3>3 DEF BeginAppend, IInv, TypeOK
    <2> QED
      BY <1>1, <2>1, <2>2, <2>3, <2>4, <2>6
      DEF BeginAppend, IInv, MemInv, IdleInv, AppendInv, BaseInv, CreateInv, Coherent,
          ConfigKept, Idle
  <1>2. CASE AppendWrite
    <2>0. /\ disk' = [disk EXCEPT !.journal = mem.jhash \o op.recs]
          /\ mem.jhash \o op.recs \in Seq(Recs)
      <3>1. disk.journal = mem.jhash /\ ~disk.torn /\ mem # None
        BY <1>2 DEF AppendWrite, IInv, AppendInv
      <3>2. mem.jhash \in Seq(Recs) /\ op.recs \in Seq(Recs)
        BY <3>1 DEF IInv, TypeOK, Lists, Ops
      <3> QED
        BY <1>2, <3>1, <3>2 DEF AppendWrite
    <2>1. TypeOK'
      <3>1. disk' \in Directories
        BY <1>2, <2>0 DEF IInv, TypeOK, Directories
      <3>2. op' \in Ops
        BY <1>2 DEF AppendWrite, IInv, TypeOK, Ops, Phases
      <3> QED
        BY <1>2, <3>1, <3>2 DEF AppendWrite, IInv, TypeOK
    <2> QED
      BY <1>2, <2>0, <2>1, NoneIsNoJournal
      DEF AppendWrite, IInv, MemInv, IdleInv, AppendInv, BaseInv, CreateInv, ConfigKept,
          TypeOK, Directories, Ops
  <1>3. CASE AppendWriteFails
    <2>1. PICK n \in 0 .. Len(op.recs) - 1, t \in BOOLEAN :
            disk' = [disk EXCEPT !.journal = @ \o SubSeq(op.recs, 1, n), !.torn = t]
      BY <1>3 DEF AppendWriteFails
    <2>2. op.recs \in Seq(Recs) /\ SubSeq(op.recs, 1, n) \in Seq(Recs)
      BY DEF IInv, TypeOK, Directories, Ops, Phases
    <2>3. disk.journal = mem.jhash /\ mem.jhash \in Seq(Recs) /\ op.start = Len(mem.jhash)
      BY <1>3 DEF AppendWriteFails, IInv, AppendInv, TypeOK, Directories, Ops, Phases, Lists
    <2>4. disk'.journal = mem.jhash \o SubSeq(op.recs, 1, n)
      BY <2>1, <2>3 DEF IInv, TypeOK, Directories, Ops, Phases
    <2>5. /\ disk'.journal \in Seq(Recs)
          /\ Len(mem.jhash) <= Len(disk'.journal)
          /\ SubSeq(disk'.journal, 1, op.start) = mem.jhash
      BY <2>2, <2>3, <2>4, CutBack
    <2>6. TypeOK'
      <3>1. disk' \in Directories
        BY <2>1, <2>5 DEF IInv, TypeOK, Directories
      <3>2. op' \in Ops
        BY <1>3 DEF AppendWriteFails, IInv, TypeOK, Ops, Phases
      <3> QED
        BY <1>3, <3>1, <3>2 DEF AppendWriteFails, IInv, TypeOK
    <2> QED
      BY <1>3, <2>1, <2>3, <2>5, <2>6, NoneIsNoJournal
      DEF AppendWriteFails, IInv, MemInv, IdleInv, AppendInv, BaseInv, CreateInv, ConfigKept,
          TypeOK, Directories, Ops, Phases
  <1>4. CASE AppendSync
    BY <1>4 DEF AppendSync, IInv, TypeOK, Directories, Ops, Phases, MemInv, IdleInv, AppendInv, BaseInv, CreateInv,
       ConfigKept
  <1>5. CASE AppendSyncFails
    <2>1. mem.jhash \in Seq(Recs) /\ op.recs \in Seq(Recs)
      BY <1>5 DEF AppendSyncFails, IInv, TypeOK, Directories, Ops, Phases, AppendInv, Lists
    <2>2. /\ Len(mem.jhash) <= Len(mem.jhash \o op.recs)
          /\ SubSeq(mem.jhash \o op.recs, 1, Len(mem.jhash)) = mem.jhash
      BY <2>1, CutBack
    <2>3. TypeOK'
      BY <1>5 DEF AppendSyncFails, IInv, TypeOK, Ops, Phases
    <2> QED
      BY <1>5, <2>2, <2>3 DEF AppendSyncFails, IInv, TypeOK, Ops, MemInv, IdleInv,
         AppendInv, BaseInv, CreateInv, ConfigKept
  <1>6. CASE AppendRollback
    <2>1. disk.journal # None /\ mem # None
      BY <1>6 DEF AppendRollback, IInv, AppendInv
    <2>2. disk'.journal = mem.jhash /\ mem.jhash \in Seq(Recs)
      BY <1>6, <2>1 DEF AppendRollback, IInv, AppendInv, TypeOK, Directories, Ops, Phases, Lists
    <2>3. TypeOK'
      <3>1. disk' \in Directories
        BY <1>6, <2>2 DEF AppendRollback, IInv, TypeOK, Directories
      <3> QED
        BY <1>6, <3>1, IdleType DEF AppendRollback, IInv, TypeOK
    <2> QED
      BY <1>6, <2>1, <2>2, <2>3, NoneIsNoJournal
      DEF AppendRollback, IInv, TypeOK, Directories, Ops, Phases, MemInv, IdleInv, Settled, Coherent, AppendInv,
          BaseInv, CreateInv, ConfigKept, Idle
  <1>7. CASE AppendRollbackFails
    <2>1. TypeOK'
      BY <1>7, IdleType DEF AppendRollbackFails, IInv, TypeOK
    <2> QED
      BY <1>7, <2>1, IdleType DEF AppendRollbackFails, IInv, MemInv, IdleInv, Settled,
         AppendInv, BaseInv, CreateInv, ConfigKept
  <1>8. CASE AppendCommit
    <2>1. /\ mem # None /\ mem \in Lists /\ op.recs \in Seq(Recs)
          /\ mem = ListOf(mem.cfg, mem.baseID, mem.jhash)
      BY <1>8 DEF AppendCommit, IInv, AppendInv, TypeOK, Directories, Ops, Phases, MemInv
    <2>2. mem.cfg \in Cfgs /\ mem.baseID \in OptContents /\ mem.jhash \in Seq(Recs)
      BY <2>1 DEF Lists
    <2> DEFINE j == mem.jhash \o op.recs
    <2>3. j \in Seq(Recs)
      BY <2>1, <2>2
    <2>4. mem' = ListOf(mem.cfg, mem.baseID, j)
      BY <1>8, <2>1, <2>2, CommittedIsReplay DEF AppendCommit
    <2>5. mem' \in Lists
      BY <2>2, <2>3, <2>4, ListOfType
    <2>6. /\ mem'.cfg = mem.cfg /\ mem'.baseID = mem.baseID /\ mem'.jhash = j
          /\ mem'.over = ApplyRecs(mem.over, op.recs)
      BY <1>8, <2>1 DEF AppendCommit, Committed, Lists
    <2>7. MemInv'
      BY <1>8, <2>4, <2>6 DEF MemInv, AppendCommit, IInv, AppendInv
    <2>8. acked' \in Views
      BY <1>8, <2>1, OutcomeType DEF AppendCommit
    <2>9. TypeOK'
      BY <1>8, <2>5, <2>8, IdleType DEF AppendCommit, IInv, TypeOK
    <2>10. Coherent'
      BY <1>8, <2>6 DEF AppendCommit, IInv, AppendInv, Coherent, ConfigKept
    <2> QED
      BY <1>8, <2>7, <2>9, <2>10
      DEF AppendCommit, IInv, IdleInv, Settled, AppendInv, BaseInv, CreateInv, Idle
  <1> QED
    BY <1>1, <1>2, <1>3, <1>4, <1>5, <1>6, <1>7, <1>8 DEF AppendStep

\* The list an acknowledged rebuild installs.
LEMMA FreshList ==
    ASSUME NEW c \in Cfgs, NEW id \in OptContents
    PROVE  LET l == ListOf(c, id, <<>>)
           IN  /\ l \in Lists /\ l # None
               /\ l.cfg = c /\ l.baseID = id /\ l.jhash = <<>>
               /\ Buildable(l.over)
  <1> DEFINE l == ListOf(c, id, <<>>)
  <1>1. <<>> \in Seq(Recs)
    OBVIOUS
  <1>2. l \in Lists /\ l # None
    BY <1>1, ListOfType, NoneIsNoList
  <1>3. l.cfg = c /\ l.baseID = id /\ l.jhash = <<>> /\ l.over = ApplyRecs(NoEntries, <<>>)
    BY DEF ListOf
  <1>4. Buildable(l.over)
    BY <1>3, NoEntriesBuildable, ApplyEmpty
  <1> QED
    BY <1>2, <1>3, <1>4

\* Compact and Replace.
LEMMA BasePreserves == IInv /\ BaseStep => IInv'
  <1> SUFFICES ASSUME IInv, BaseStep PROVE IInv'
    OBVIOUS
  <1> USE DEF At, Goto, Quiet, BaseOps, JournalRecs
  <1>1. ASSUME NEW kind \in BaseOps, NEW content \in Contents, BeginBase(kind, content),
               kind = "compact" => content = Live(mem)
        PROVE  IInv'
    <2>1. mem # None /\ op = Idle /\ damage # "create" /\ Settled
      BY <1>1 DEF BeginBase, IInv, IdleInv
    <2>2. ConfigKept
      BY <2>1 DEF IInv, TypeOK, Settled, Coherent
    <2>3. op' \in Ops /\ op'.kind = kind /\ op'.at = "rmidx" /\ op'.base = content
      BY <1>1, IdleType DEF BeginBase, Ops, Phases, OptContents
    <2>4. TypeOK'
      BY <1>1, <2>3 DEF BeginBase, IInv, TypeOK
    <2> QED
      BY <1>1, <2>1, <2>2, <2>3, <2>4
      DEF BeginBase, IInv, MemInv, IdleInv, Settled, Coherent, ConfigKept, AppendInv,
          BaseInv, CreateInv
  <1>2. CASE BeginCompact
    <2>1. mem # None
      BY <1>2 DEF BeginCompact
    <2> QED
      BY <1>1, <1>2, <2>1, ServedList DEF BeginCompact
  <1>3. ASSUME NEW b \in Bases, BeginReplace(b) PROVE IInv'
    BY <1>1, <1>3, BasesAssumption DEF BeginReplace
  <1>4. CASE BaseRemoveIdx
    <2>1. op' \in Ops /\ disk' \in Directories
      BY <1>4 DEF BaseRemoveIdx, IInv, TypeOK, Ops, Phases, Directories
    <2>2. TypeOK'
      BY <1>4, <2>1 DEF BaseRemoveIdx, IInv, TypeOK
    <2> QED
      BY <1>4, <2>2
      DEF BaseRemoveIdx, IInv, TypeOK, Ops, Directories, MemInv, IdleInv, Settled, Coherent,
          ConfigKept, AppendInv, BaseInv, CreateInv
  <1>5. CASE BaseRename
    <2>1. mem # None /\ op.base \in Contents
      BY <1>5 DEF BaseRename, IInv, BaseInv
    <2>2. JournalRecs(disk) \in Seq(Recs)
      BY DEF IInv, TypeOK, Directories
    <2>3. limbo' \in SUBSET Views
      <3>1. ApplyRecs(op.base, JournalRecs(disk)) \in Contents
        BY <2>1, <2>2, ApplyType
      <3> HIDE DEF JournalRecs
      <3> QED
        BY <1>5, <2>1, <3>1, ServedList DEF BaseRename, IInv, TypeOK, Views
    <2>4. op' \in Ops /\ disk' \in Directories
      BY <1>5 DEF BaseRename, IInv, TypeOK, Ops, Phases, Directories
    <2>5. TypeOK'
      BY <1>5, <2>3, <2>4 DEF BaseRename, IInv, TypeOK
    <2> QED
      BY <1>5, <2>5
      DEF BaseRename, IInv, TypeOK, Ops, Directories, MemInv, IdleInv, Settled, Coherent,
          ConfigKept, AppendInv, BaseInv, CreateInv
  <1>6. CASE BaseSyncDir
    BY <1>6
    DEF BaseSyncDir, IInv, TypeOK, Ops, Phases, MemInv, IdleInv, Settled, Coherent,
        ConfigKept, AppendInv, BaseInv, CreateInv
  <1>7. CASE BaseTruncate
    <2>1. op' \in Ops /\ disk' \in Directories
      <3>1. <<>> \in Seq(Recs)
        OBVIOUS
      <3> QED
        BY <1>7, <3>1, ZenonT(60) DEF BaseTruncate, IInv, TypeOK, Ops, Phases, Directories
    <2>2. TypeOK'
      BY <1>7, <2>1 DEF BaseTruncate, IInv, TypeOK
    <2> QED
      BY <1>7, <2>2, ZenonT(60)
      DEF BaseTruncate, IInv, TypeOK, Ops, Directories, MemInv, IdleInv, Settled, Coherent,
          ConfigKept, AppendInv, BaseInv, CreateInv
  <1>8. CASE BaseSyncTruncate
    BY <1>8
    DEF BaseSyncTruncate, IInv, TypeOK, Ops, Phases, MemInv, IdleInv, Settled, Coherent,
        ConfigKept, AppendInv, BaseInv, CreateInv
  <1>9. CASE BaseInstall
    <2>1. mem # None /\ op.base \in Contents
      BY <1>9 DEF BaseInstall, IInv, BaseInv
    <2>2. mem.cfg \in Cfgs /\ op.base \in OptContents
      BY <2>1, ServedList DEF OptContents
    <2>3. /\ mem' = ListOf(mem.cfg, op.base, <<>>)
          /\ mem' \in Lists /\ mem' # None
          /\ mem'.cfg = mem.cfg /\ mem'.baseID = op.base /\ mem'.jhash = <<>>
          /\ Buildable(mem'.over)
      BY <1>9, <2>2, FreshList DEF BaseInstall
    <2>4. acked' \in Views
      BY <1>9, <2>1, <2>2 DEF BaseInstall, Views
    <2>5. TypeOK'
      BY <1>9, <2>3, <2>4 DEF BaseInstall, IInv, TypeOK, Ops, Phases
    <2>6. Coherent' /\ damage' = "none" /\ MemInv'
      BY <1>9, <2>3 DEF BaseInstall, IInv, BaseInv, Coherent, ConfigKept, MemInv
    <2> QED
      BY <1>9, <2>3, <2>5, <2>6
      DEF BaseInstall, IInv, TypeOK, Ops, IdleInv, Coherent, AppendInv, BaseInv, CreateInv
  <1>10. CASE BaseSaveIdx
    <2>1. mem # None
      BY <1>10 DEF BaseSaveIdx, IInv, BaseInv
    <2>2. mem.cfg \in Cfgs /\ mem.baseID \in OptContents
      BY <2>1, ServedList
    <2>3. disk' \in Directories
      BY <1>10, <2>2 DEF BaseSaveIdx, IInv, TypeOK, Directories
    <2>4. TypeOK'
      BY <1>10, <2>3, IdleType DEF BaseSaveIdx, IInv, TypeOK
    <2> QED
      BY <1>10, <2>4, IdleType
      DEF BaseSaveIdx, IInv, TypeOK, Directories, MemInv, IdleInv, Settled, Coherent,
          ConfigKept, AppendInv, BaseInv, CreateInv
  <1>11. CASE BaseFails
    <2>1. TypeOK'
      BY <1>11, IdleType DEF BaseFails, IInv, TypeOK
    <2> QED
      BY <1>11, <2>1, IdleType
      DEF BaseFails, IInv, TypeOK, MemInv, IdleInv, Settled, Coherent, ConfigKept,
          AppendInv, BaseInv, CreateInv
  <1> QED
    BY <1>2, <1>3, <1>4, <1>5, <1>6, <1>7, <1>8, <1>9, <1>10, <1>11 DEF BaseStep

\* CreateList.
LEMMA CreatePreserves == IInv /\ CreateStep => IInv'
  <1> SUFFICES ASSUME IInv, CreateStep PROVE IInv'
    OBVIOUS
  <1> USE DEF At, Goto, Quiet, BaseOps, JournalRecs, CreateCall, CreateSync
  <1>0. None \in OptContents
    BY DEF OptContents
  <1>1. ASSUME NEW c \in Creates, BeginCreate(c) PROVE IInv'
    <2>1. op' \in Ops /\ op'.kind = "create" /\ op'.at = "mark" /\ op'.cfg = c /\ c \in Cfgs
      BY <1>1, IdleType, CreatesAssumption DEF BeginCreate, Ops, Phases
    <2>2. TypeOK'
      BY <1>1, <2>1 DEF BeginCreate, IInv, TypeOK
    <2> QED
      BY <1>1, <2>1, <2>2
      DEF BeginCreate, IInv, MemInv, IdleInv, Settled, Coherent, ConfigKept, AppendInv,
          BaseInv, CreateInv
  <1>2. CASE CreateMark
    <2>1. op' \in Ops /\ disk' \in Directories
      BY <1>0, <1>2 DEF CreateMark, IInv, TypeOK, Ops, Phases, Directories, CreateInv
    <2>2. TypeOK'
      BY <1>2, <2>1 DEF CreateMark, IInv, TypeOK
    <2> QED
      BY <1>2, <2>2
      DEF CreateMark, IInv, TypeOK, Ops, Directories, MemInv, IdleInv, AppendInv, BaseInv,
          CreateInv
  <1>3. CASE CreateMarkDir
    BY <1>3
    DEF CreateMarkDir, IInv, TypeOK, Ops, Phases, MemInv, IdleInv, AppendInv, BaseInv, CreateInv
  <1>4. CASE CreateWipeBase
    <2>1. op' \in Ops /\ disk' \in Directories
      BY <1>0, <1>4 DEF CreateWipeBase, IInv, TypeOK, Ops, Phases, Directories, CreateInv
    <2>2. TypeOK'
      BY <1>4, <2>1 DEF CreateWipeBase, IInv, TypeOK
    <2> QED
      BY <1>4, <2>2
      DEF CreateWipeBase, IInv, TypeOK, Ops, Directories, MemInv, IdleInv, AppendInv, BaseInv,
          CreateInv
  <1>5. CASE CreateWipeIdx
    <2>1. op' \in Ops /\ disk' \in Directories
      BY <1>0, <1>5 DEF CreateWipeIdx, IInv, TypeOK, Ops, Phases, Directories, CreateInv
    <2>2. TypeOK'
      BY <1>5, <2>1 DEF CreateWipeIdx, IInv, TypeOK
    <2> QED
      BY <1>5, <2>2
      DEF CreateWipeIdx, IInv, TypeOK, Ops, Directories, MemInv, IdleInv, AppendInv, BaseInv,
          CreateInv
  <1>6. CASE CreateWipeJournal
    <2>1. op' \in Ops /\ disk' \in Directories
      BY <1>0, <1>6 DEF CreateWipeJournal, IInv, TypeOK, Ops, Phases, Directories, CreateInv
    <2>2. TypeOK'
      BY <1>6, <2>1 DEF CreateWipeJournal, IInv, TypeOK
    <2> QED
      BY <1>6, <2>2
      DEF CreateWipeJournal, IInv, TypeOK, Ops, Directories, MemInv, IdleInv, AppendInv, BaseInv,
          CreateInv
  <1>7. CASE CreateConfig
    <2>1. op' \in Ops /\ disk' \in Directories
      BY <1>0, <1>7 DEF CreateConfig, IInv, TypeOK, Ops, Phases, Directories, CreateInv
    <2>2. TypeOK'
      BY <1>7, <2>1 DEF CreateConfig, IInv, TypeOK
    <2> QED
      BY <1>7, <2>2
      DEF CreateConfig, IInv, TypeOK, Ops, Directories, MemInv, IdleInv, AppendInv, BaseInv,
          CreateInv
  <1>8. CASE CreateConfigDir
    BY <1>8
    DEF CreateConfigDir, IInv, TypeOK, Ops, Phases, MemInv, IdleInv, AppendInv, BaseInv, CreateInv
  <1>9. CASE CreateUnmark
    <2>1. op' \in Ops /\ disk' \in Directories
      BY <1>9 DEF CreateUnmark, IInv, TypeOK, Ops, Phases, Directories
    <2>2. limbo' \in SUBSET Views
      BY <1>9, NoEntriesBuildable DEF CreateUnmark, IInv, TypeOK, CreateInv, Views
    <2>3. TypeOK'
      BY <1>9, <2>1, <2>2 DEF CreateUnmark, IInv, TypeOK
    <2> QED
      BY <1>9, <2>3
      DEF CreateUnmark, IInv, TypeOK, Ops, Directories, MemInv, IdleInv, AppendInv, BaseInv,
          CreateInv
  <1>10. CASE CreateUnmarkDir
    BY <1>10
    DEF CreateUnmarkDir, IInv, TypeOK, Ops, Phases, MemInv, IdleInv, AppendInv, BaseInv, CreateInv
  <1>11. CASE CreateInstall
    <2>1. op.cfg \in Cfgs
      BY <1>11 DEF CreateInstall, IInv, CreateInv
    <2>2. /\ mem' = ListOf(op.cfg, None, <<>>)
          /\ mem' \in Lists /\ mem' # None
          /\ mem'.cfg = op.cfg /\ mem'.baseID = None /\ mem'.jhash = <<>>
          /\ Buildable(mem'.over)
      BY <1>0, <1>11, <2>1, FreshList DEF CreateInstall
    <2>3. acked' \in Views
      BY <1>11, <2>1, NoEntriesBuildable DEF CreateInstall, Views
    <2>4. TypeOK'
      BY <1>11, <2>2, <2>3, IdleType DEF CreateInstall, IInv, TypeOK
    <2>5. Coherent' /\ MemInv'
      BY <1>11, <2>2 DEF CreateInstall, IInv, IdleInv, CreateInv, Coherent, ConfigKept, MemInv
    <2> QED
      BY <1>11, <2>4, <2>5, IdleType
      DEF CreateInstall, IInv, IdleInv, Settled, AppendInv, BaseInv, CreateInv
  <1>12. CASE CreateFails
    <2>1. TypeOK'
      BY <1>12, IdleType DEF CreateFails, IInv, TypeOK
    <2> QED
      BY <1>12, <2>1, IdleType
      DEF CreateFails, IInv, TypeOK, MemInv, IdleInv, Settled, Coherent, ConfigKept,
          AppendInv, BaseInv, CreateInv
  <1> QED
    BY <1>1, <1>2, <1>3, <1>4, <1>5, <1>6, <1>7, <1>8, <1>9, <1>10, <1>11, <1>12
    DEF CreateStep

\* What openList leaves on disk agrees with the list it returns.
LEMMA AdoptPreserves ==
    ASSUME IInv, Openable(disk), Adopt, op = Idle, op' = Idle, up' = TRUE,
           damage = "none", damage' = "none"
    PROVE  IInv'
  <1> DEFINE j == IF Poisoned(disk) THEN <<>> ELSE JournalRecs(disk)
  <1>1. disk \in Directories
    BY DEF IInv, TypeOK
  <1>2. /\ j \in Seq(Recs)
        /\ mem' = ListOf(disk.config, disk.base, j)
        /\ mem' \in Lists
        /\ Buildable(mem'.over)
    BY <1>1, OpenedIsReplay DEF Adopt
  <1>3. mem' # None
    BY <1>2, NoneIsNoList
  <1>4. disk.config \in Cfgs /\ disk.base \in OptContents
    BY <1>1 DEF Openable, Directories
  <1>5. mem'.cfg = disk.config /\ mem'.baseID = disk.base /\ mem'.jhash = j
    BY <1>2 DEF ListOf
  <1> HIDE DEF j
  <1>6. MemInv'
    BY <1>2, <1>5 DEF MemInv
  <1>7. PICK saved \in BOOLEAN : disk' = OpenedDisk(disk, saved)
    BY DEF Adopt
  <1>8. disk' \in Directories
    BY <1>1, <1>4, <1>7 DEF OpenedDisk, Directories
  <1>9. /\ disk'.marker = FALSE /\ disk'.config = disk.config /\ disk'.base = disk.base
        /\ disk'.torn = FALSE
        /\ disk'.journal = IF Poisoned(disk) THEN None ELSE disk.journal
    BY <1>1, <1>7 DEF OpenedDisk, Openable, Directories
  <1>10. JournalRecs(disk') = j
    BY <1>9 DEF JournalRecs, j
  <1>11. Coherent'
    BY <1>5, <1>9, <1>10 DEF Coherent, ConfigKept
  <1>12. Live(mem') \in Contents
    BY <1>2, <1>4, LiveOfList, SegmentType, ApplyType
  <1>13. acked' \in Views
    BY <1>4, <1>5, <1>12 DEF Adopt, View, Views
  <1>14. TypeOK'
    BY <1>2, <1>8, <1>13, IdleType DEF Adopt, IInv, TypeOK
  <1> QED
    BY <1>6, <1>9, <1>11, <1>14, IdleType
    DEF IInv, IdleInv, Settled, AppendInv, BaseInv, CreateInv, BaseOps

\* A reopen that gives up changes only the index and the torn tail.
LEMMA GivenUpType ==
    ASSUME disk \in Directories, GiveUp
    PROVE  /\ disk' \in Directories
           /\ disk'.marker = disk.marker /\ disk'.config = disk.config
           /\ disk'.base = disk.base /\ disk'.journal = disk.journal
           /\ disk'.torn \in {disk.torn, FALSE}
  <1>1. CASE ~Openable(disk)
    BY <1>1 DEF GiveUp
  <1>2. CASE Openable(disk)
    <2>1. PICK saved \in BOOLEAN, t \in {disk.torn, FALSE} :
            disk' = [disk EXCEPT !.idx = OpenedDisk(disk, saved).idx, !.torn = t]
      BY <1>2 DEF GiveUp
    <2>2. OpenedDisk(disk, saved).idx \in [base : OptContents, cfg : Cfgs] \cup {None}
      BY <1>2 DEF OpenedDisk, Openable, Directories
    <2> QED
      BY <2>1, <2>2 DEF Directories
  <1> QED
    BY <1>1, <1>2

\* Reload, crash and restart.
LEMMA ProcessPreserves == IInv /\ ProcessStep => IInv'
  <1> SUFFICES ASSUME IInv, ProcessStep PROVE IInv'
    OBVIOUS
  <1>1. CASE Reload
    BY <1>1, AdoptPreserves DEF Reload, At, IInv, TypeOK, IdleInv
  <1>2. CASE ReloadFails
    <2>1. /\ disk' \in Directories
          /\ disk'.marker = disk.marker /\ disk'.config = disk.config
          /\ disk'.base = disk.base /\ disk'.journal = disk.journal
          /\ disk'.torn \in {disk.torn, FALSE}
      BY <1>2, GivenUpType DEF ReloadFails, IInv, TypeOK
    <2>2. TypeOK'
      BY <1>2, <2>1 DEF ReloadFails, Quiet, IInv, TypeOK
    <2> QED
      BY <1>2, <2>1, <2>2
      DEF ReloadFails, At, Quiet, BaseOps, JournalRecs, IInv, TypeOK, Directories, MemInv,
          IdleInv, Settled, Coherent, ConfigKept, AppendInv, BaseInv, CreateInv
  <1>3. CASE Crash
    <2>1. TypeOK'
      BY <1>3, IdleType DEF Crash, IInv, TypeOK
    <2> QED
      BY <1>3, <2>1, IdleType
      DEF Crash, BaseOps, IInv, MemInv, IdleInv, Settled, AppendInv, BaseInv, CreateInv
  <1>4. CASE Open
    BY <1>4, AdoptPreserves DEF Open, IInv, IdleInv
  <1>5. CASE OpenSkips
    <2>1. mem = None /\ op = Idle /\ damage = "none"
      BY <1>5 DEF OpenSkips, IInv, IdleInv
    <2>2. /\ disk' \in Directories
          /\ disk'.journal = disk.journal
          /\ disk'.torn \in {disk.torn, FALSE}
      BY <1>5, GivenUpType DEF OpenSkips, IInv, TypeOK
    <2>3. TypeOK'
      BY <1>5, <2>2 DEF OpenSkips, IInv, TypeOK
    <2> QED
      BY <1>5, <2>1, <2>2, <2>3, IdleType
      DEF OpenSkips, BaseOps, IInv, MemInv, IdleInv, Settled, AppendInv, BaseInv, CreateInv
  <1> QED
    BY <1>1, <1>2, <1>3, <1>4, <1>5 DEF ProcessStep

\* A step that changes nothing.
LEMMA StutterPreserves == IInv /\ UNCHANGED vars => IInv'
  <1> SUFFICES ASSUME IInv, UNCHANGED vars PROVE IInv'
    OBVIOUS
  <1> USE DEF vars, IInv
  <1>1. TypeOK' /\ MemInv'
    BY DEF TypeOK, MemInv
  <1>2. (Settled' <=> Settled) /\ (Coherent' <=> Coherent) /\ (ConfigKept' <=> ConfigKept)
    BY DEF Settled, Coherent, ConfigKept, JournalRecs
  <1>3. IdleInv' /\ CreateInv'
    BY <1>2 DEF IdleInv, CreateInv
  <1>4. AppendInv'
    BY <1>2 DEF AppendInv
  <1>5. BaseInv'
    BY <1>2 DEF BaseInv, JournalRecs
  <1> QED
    BY <1>1, <1>3, <1>4, <1>5

\* Every reachable state satisfies the invariant.
THEOREM Invariance == Spec => []IInv
  <1>1. IInv /\ [Next]_vars => IInv'
    BY AppendPreserves, BasePreserves, CreatePreserves, ProcessPreserves, StutterPreserves
    DEF Next
  <1> QED
    BY <1>1, InitIInv, PTL DEF Spec

-----------------------------------------------------------------------------
(* The theorems.                                                           *)

\* Type correctness: directory, list object, mutation in flight and history
\* keep their shapes, whatever fails and whenever the process dies.
THEOREM TypeCorrect == Spec => []TypeOK
  BY Invariance, PTL DEF IInv

\* A restart reproduces every idle, undamaged list exactly (openList against
\* everything the mutations leave behind): same base, overlay, tombstones,
\* index and version stamp.
THEOREM RestartTheorem == Spec => []RestartServesAcked
  <1>1. IInv => RestartServesAcked
    <2> SUFFICES ASSUME IInv, up, op = Idle, mem # None, damage = "none"
                 PROVE  Openable(disk) /\ Opened(disk) = mem
      BY DEF RestartServesAcked
    <2>1. Coherent
      BY IdleType DEF IInv, IdleInv, Settled
    <2>2. disk \in Directories /\ Openable(disk)
      BY <2>1, ServedList, NoneAssumption DEF IInv, TypeOK, Openable, Coherent, ConfigKept
    <2>3. mem.over = ApplyRecs(NoEntries, mem.jhash)
      BY ServedList DEF ListOf
    <2>4. ~Poisoned(disk)
      BY <2>1, <2>3 DEF IInv, MemInv, Poisoned, Coherent
    <2>5. Opened(disk) = ListOf(disk.config, disk.base, JournalRecs(disk))
      BY <2>2, <2>4, OpenedIsReplay
    <2>6. Opened(disk) = ListOf(mem.cfg, mem.baseID, mem.jhash)
      BY <2>1, <2>5 DEF Coherent, ConfigKept
    <2> QED
      BY <2>2, <2>6, ServedList
  <1> QED
    BY <1>1, Invariance, PTL

\* The version stamp of the served list determines what it serves, at every
\* moment of every mutation and under every damage (baseStampLocked,
\* commitOverlayLockedAt).
THEOREM StampTheorem == Spec => []StampDeterminesContent
  <1>1. IInv => StampDeterminesContent
    <2> SUFFICES ASSUME IInv, mem # None
                 PROVE  Live(mem) = ApplyRecs(Segment(mem.ver.base), mem.ver.journal)
      BY DEF StampDeterminesContent
    <2>1. mem.ver.base = mem.baseID /\ mem.ver.journal = mem.jhash
      BY ServedList DEF ListOf, Stamp
    <2> QED
      BY <2>1, ServedList
  <1> QED
    BY <1>1, Invariance, PTL

\* A crash at any call of a compaction recovers the acknowledged entries:
\* before the rename the old base and journal, after it the folded base with
\* the old journal replayed over it a second time, then the folded base
\* alone (CompactVersioned, persistBase).
THEOREM CompactTheorem == Spec => []CompactCrashSafe
  <1>1. IInv => CompactCrashSafe
    <2> SUFFICES ASSUME IInv, op.kind = "compact", damage = "none"
                 PROVE  Openable(disk) /\ View(Opened(disk)) = View(mem)
      BY DEF CompactCrashSafe
    <2> DEFINE j == JournalRecs(disk)
    <2>1. mem # None /\ ConfigKept
      BY DEF IInv, BaseInv, BaseOps
    <2>2. disk \in Directories /\ Openable(disk) /\ disk.config = mem.cfg
      BY <2>1, ServedList, NoneAssumption DEF IInv, TypeOK, Openable, ConfigKept
    <2>3. j \in Seq(Recs) /\ disk.base \in OptContents
      BY <2>2 DEF JournalRecs, Directories
    <2>4. \/ disk.base = mem.baseID /\ j = mem.jhash
          \/ disk.base = Live(mem) /\ j = mem.jhash
          \/ disk.base = Live(mem) /\ j = <<>>
      <3> HIDE DEF j
      <3>1. CASE op.at \in {"rmidx", "rename", "saveidx"}
        BY <2>1, <3>1 DEF IInv, BaseInv, BaseOps, Settled, Coherent, j
      <3>2. CASE op.at \in {"syncdir", "truncate"}
        BY <3>2 DEF IInv, BaseInv, BaseOps, j
      <3>3. CASE op.at \in {"synctrunc", "install"}
        BY <3>3 DEF IInv, BaseInv, BaseOps, j
      <3> QED
        BY <3>1, <3>2, <3>3 DEF IInv, BaseInv, BaseOps
    <2> HIDE DEF j
    <2>5. ApplyRecs(Segment(disk.base), j) = Live(mem)
      <3>1. Live(mem) \in Contents /\ Segment(Live(mem)) = Live(mem)
        BY <2>1, ServedList, NoneIsNoContent DEF Segment
      <3>2. Segment(mem.baseID) \in Contents
        BY <2>1, ServedList, SegmentType
      <3>3. ApplyRecs(Live(mem), mem.jhash) = Live(mem)
        BY <2>1, <3>2, ServedList, ApplyTwice
      <3>4. ApplyRecs(Live(mem), <<>>) = Live(mem)
        BY <3>1, ApplyEmpty
      <3> QED
        BY <2>1, <2>4, <3>1, <3>3, <3>4, ServedList
    <2>6. Buildable(ApplyRecs(NoEntries, j))
      <3>1. mem.over = ApplyRecs(NoEntries, mem.jhash) /\ Buildable(mem.over)
        BY <2>1, ServedList DEF ListOf, IInv, MemInv
      <3>2. Buildable(ApplyRecs(NoEntries, <<>>))
        BY NoEntriesBuildable, ApplyEmpty
      <3> QED
        BY <2>4, <3>1, <3>2
    <2>7. Opened(disk) = ListOf(mem.cfg, disk.base, j)
      BY <2>2, <2>6, OpenedIsReplay DEF Poisoned, j
    <2>8. Live(Opened(disk)) = Live(mem) /\ Opened(disk).cfg = mem.cfg
      BY <2>3, <2>5, <2>7, LiveOfList DEF ListOf
    <2> QED
      BY <2>2, <2>8 DEF View
  <1> QED
    BY <1>1, Invariance, PTL

\* Damage is contained: no acknowledgment while it stands, and create damage
\* ends only with a PUT or with the process (appendJournal, ReloadList,
\* CompactVersioned, ReplaceVersioned).
THEOREM DamageTheorem == Spec => DamageContained
  <1> DEFINE Contained ==
        /\ (damage # "none" /\ up' /\ acked' # acked) => damage' = "none"
        /\ (damage = "create" /\ damage' # "create") => (~up' \/ op.kind = "create")
  <1>1. IInv /\ [Next]_vars => [Contained]_vars
    <2> SUFFICES ASSUME IInv, Next PROVE Contained
      OBVIOUS
    <2> USE DEF At, Goto, Quiet, BaseOps
    <2>1. CASE AppendStep
      <3>1. \A recs : BeginAppend(recs) => damage = "none"
        BY DEF BeginAppend
      <3>2. op.kind = "append" => damage = "none"
        BY DEF IInv, AppendInv
      <3> QED
        BY <2>1, <3>1, <3>2
        DEF AppendStep, AppendWrite, AppendWriteFails, AppendSync, AppendSyncFails,
            AppendRollback, AppendRollbackFails, AppendCommit
    <2>2. CASE BaseStep
      <3>1. op.kind \in BaseOps => damage # "create"
        BY DEF IInv, BaseInv
      <3> QED
        BY <2>2, <3>1
        DEF BaseStep, BeginCompact, BeginReplace, BeginBase, BaseRemoveIdx, BaseRename,
            BaseSyncDir, BaseTruncate, BaseSyncTruncate, BaseInstall, BaseSaveIdx, BaseFails
    <2>3. CASE CreateStep
      BY <2>3
      DEF CreateStep, CreateCall, CreateSync, BeginCreate, CreateMark, CreateMarkDir,
          CreateWipeBase, CreateWipeIdx, CreateWipeJournal, CreateConfig, CreateConfigDir,
          CreateUnmark, CreateUnmarkDir, CreateInstall, CreateFails
    <2>4. CASE ProcessStep
      BY <2>4 DEF ProcessStep, Reload, ReloadFails, Crash, Open, OpenSkips, IInv, IdleInv
    <2> QED
      BY <2>1, <2>2, <2>3, <2>4 DEF Next
  <1> QED
    BY <1>1, Invariance, PTL DEF Spec, DamageContained

-----------------------------------------------------------------------------
(* The promise: ListStore implements AckedList.                            *)

PrefixesBuild ==
    \A m \in Contents, recs \in Batches :
        Buildable(m) /\ Buildable(ApplyRecs(m, recs)) =>
            \A n \in 0 .. Len(recs) : Buildable(ApplyRecs(m, SubSeq(recs, 1, n)))

-----------------------------------------------------------------------------
(* The inductive invariant: the history variables against the directory.   *)

\* What is served is what was acknowledged.
AckInv == mem # None => acked = View(mem)

\* Nothing is in doubt about an undamaged list that no mutation has touched.
LimboInv ==
    (/\ mem # None /\ damage = "none"
     /\ \/ op.kind = "idle"
        \/ op.kind \in BaseOps /\ op.at \in {"rmidx", "rename", "saveidx"}
        \/ op.kind = "create" /\ op.at = "mark") => limbo = {}

\* Every mutation has announced what it is about to acknowledge.
PendingInv ==
    /\ op.kind = "append" =>
         /\ op.recs \in Batches
         /\ limbo = {Outcome(SubSeq(op.recs, 1, n)) : n \in 1 .. Len(op.recs)}
    /\ (op.kind = "replace" /\ op.at \in {"syncdir", "truncate", "synctrunc", "install"}) =>
         [cfg |-> mem.cfg, live |-> op.base] \in limbo
    /\ op.kind = "create" =>
         /\ op.at \in {"unmarkdir", "install"} => [cfg |-> op.cfg, live |-> NoEntries] \in limbo
         /\ op.at \in {"markdir", "wipebase", "wipeidx", "wipejournal", "config",
                       "configdir", "unmark"} => disk.marker

\* The journal is empty, or extends the acknowledged one by what is in doubt.
JournalInv ==
    (mem # None /\ damage # "create" /\ (op.kind = "create" => op.at = "mark")) =>
        \/ JournalRecs(disk) = <<>>
        \/ \E p \in Seq(Recs) : /\ JournalRecs(disk) = mem.jhash \o p
                                /\ Outcome(p) \in limbo \cup {acked}

\* A restart now would serve the acknowledged list or an announced outcome.
RecoverInv == Openable(disk) => View(Opened(disk)) \in limbo \cup {acked}

\* ... and would be able to build the journal's overlay.
ReplayInv == ~Poisoned(disk)

HInv == AckInv /\ LimboInv /\ PendingInv /\ JournalInv /\ RecoverInv /\ ReplayInv

-----------------------------------------------------------------------------
(* The abstract specification's operators are this one's.                  *)

\* AckedList reads entry sets, batches and views as ListStore does.
LEMMA SameOperators ==
    /\ Promise!Batches = Batches /\ Promise!Views = Views /\ Promise!NoEntries = NoEntries
    /\ Promise!Contents = Contents
    /\ \A m, j : Promise!ApplyRecs(m, j) = ApplyRecs(m, j)
<1>1. /\ Promise!NoEntries = NoEntries /\ Promise!Contents = Contents
      /\ Promise!Upserts = Upserts
  BY DEF Promise!NoEntries, NoEntries, Promise!Contents, Contents, Promise!Upserts, Upserts
<1>2. Promise!Batches = Batches
  BY <1>1 DEF Promise!Batches, Batches
<1>3. Promise!Views = Views
  BY <1>1 DEF Promise!Views, Views
<1>4. ASSUME NEW m, NEW j PROVE Promise!ApplyRecs(m, j) = ApplyRecs(m, j)
  <2>1. \A i : Promise!Touching(j, i) = Touching(j, i)
    BY DEF Promise!Touching, Touching
  <2>2. \A i : Promise!LastTouch(j, i) = LastTouch(j, i)
    BY <2>1 DEF Promise!LastTouch, LastTouch
  <2> QED
    BY <2>1, <2>2 DEF Promise!ApplyRecs, ApplyRecs
<1> QED
  BY <1>1, <1>2, <1>3, <1>4

\* A batch has at least one record.
LEMMA BatchLength ==
    ASSUME NEW recs \in Batches
    PROVE  recs \in Seq(Recs) /\ Len(recs) \in Nat /\ 1 <= Len(recs)
<1>1. recs \in Seq(Recs)
  BY BatchesType
<1>2. CASE \E n \in 1 .. MaxBatch : recs \in [1 .. n -> Upserts]
  BY <1>1, <1>2, BatchAssumption
<1>3. CASE recs \in {<<r>> : r \in [id : IDs, val : {None}]}
  <2>1. PICK r \in [id : IDs, val : {None}] : recs = <<r>>
    BY <1>3
  <2>2. Len(recs) = 1
    BY <2>1
  <2> QED
    BY <1>1, <2>2
<1> QED
  BY <1>1, <1>2, <1>3 DEF Batches

\* The hypothesis holds of a client that sends one record at a time: the
\* prefixes of its batches are the empty one and the whole.
LEMMA SingleRecordsBuild == MaxBatch <= 1 => PrefixesBuild
<1> SUFFICES ASSUME MaxBatch <= 1, NEW m \in Contents, NEW recs \in Batches,
                    Buildable(m), Buildable(ApplyRecs(m, recs)), NEW n \in 0 .. Len(recs)
             PROVE  Buildable(ApplyRecs(m, SubSeq(recs, 1, n)))
  BY DEF PrefixesBuild
<1>1. recs \in Seq(Recs) /\ Len(recs) = 1
  <2>1. CASE \E k \in 1 .. MaxBatch : recs \in [1 .. k -> Upserts]
    BY <2>1, BatchAssumption, BatchLength
  <2>2. CASE recs \in {<<r>> : r \in [id : IDs, val : {None}]}
    BY <2>2, BatchLength
  <2> QED
    BY <2>1, <2>2, BatchLength DEF Batches
<1>2. CASE n = 0
  <2>1. SubSeq(recs, 1, 0) = <<>>
    BY <1>1
  <2> QED
    BY <1>2, <2>1, ApplyEmpty
<1>3. CASE n = 1
  <2>1. SubSeq(recs, 1, 1) = recs
    BY <1>1, SubSeqFull
  <2> QED
    BY <1>3, <2>1
<1> QED
  BY <1>1, <1>2, <1>3

\* It also holds of a list so small that no key can be shared too often.
LEMMA SmallListsBuild == (IsFiniteSet(IDs) /\ Cardinality(IDs) <= MaxRun) => PrefixesBuild
<1> SUFFICES ASSUME IsFiniteSet(IDs), Cardinality(IDs) <= MaxRun, NEW m PROVE Buildable(m)
  BY DEF PrefixesBuild
<1>1. ASSUME NEW v \in Vals PROVE Cardinality({i \in IDs : m[i] = v}) <= MaxRun
  <2>1. /\ Cardinality({i \in IDs : m[i] = v}) <= Cardinality(IDs)
        /\ Cardinality({i \in IDs : m[i] = v}) \in Nat /\ Cardinality(IDs) \in Nat
    <3>1. {i \in IDs : m[i] = v} \subseteq IDs
      OBVIOUS
    <3> QED
      BY <3>1, FS_Subset, FS_CardinalityType
  <2> QED
    BY <2>1, MaxRunAssumption
<1> QED
  BY <1>1 DEF Buildable

-----------------------------------------------------------------------------
(* What a restart serves.                                                  *)

\* Opening a directory whose journal can be built serves its base with its
\* journal replayed.
LEMMA OpenedView ==
    ASSUME NEW d \in Directories, Openable(d), ~Poisoned(d)
    PROVE  /\ JournalRecs(d) \in Seq(Recs) /\ d.base \in OptContents /\ d.config \in Cfgs
           /\ View(Opened(d)) = [cfg  |-> d.config,
                                 live |-> ApplyRecs(Segment(d.base), JournalRecs(d))]
<1>1. /\ JournalRecs(d) \in Seq(Recs)
      /\ Opened(d) = ListOf(d.config, d.base, JournalRecs(d))
  BY OpenedIsReplay
<1>2. d.base \in OptContents /\ d.config \in Cfgs
  BY DEF Openable, Directories
<1>3. Live(Opened(d)) = ApplyRecs(Segment(d.base), JournalRecs(d)) /\ Opened(d).cfg = d.config
  BY <1>1, <1>2, LiveOfList DEF ListOf
<1> QED
  BY <1>1, <1>2, <1>3 DEF View

\* It does not depend on the cached index or on a torn tail.
LEMMA SameRecovery ==
    ASSUME NEW d \in Directories, NEW e \in Directories, ~Poisoned(d),
           e.marker = d.marker, e.config = d.config, e.base = d.base,
           JournalRecs(e) = JournalRecs(d)
    PROVE  /\ ~Poisoned(e) /\ (Openable(e) <=> Openable(d))
           /\ Openable(d) => View(Opened(e)) = View(Opened(d))
<1>1. ~Poisoned(e) /\ (Openable(e) <=> Openable(d))
  BY DEF Poisoned, Openable
<1>2. ASSUME Openable(d) PROVE View(Opened(e)) = View(Opened(d))
  BY <1>1, <1>2, OpenedView
<1> QED
  BY <1>1, <1>2

\* The directory a list was replayed from serves that list again.
LEMMA CoherentRecovery ==
    ASSUME NEW d \in Directories, NEW l \in Lists, l = ListOf(l.cfg, l.baseID, l.jhash),
           Buildable(l.over), ~d.marker, d.config = l.cfg, d.base = l.baseID,
           JournalRecs(d) = l.jhash
    PROVE  ~Poisoned(d) /\ Openable(d) /\ View(Opened(d)) = View(l)
<1>1. l.cfg \in Cfgs /\ l.over = ApplyRecs(NoEntries, l.jhash)
  BY DEF Lists, ListOf
<1>2. ~Poisoned(d) /\ Openable(d)
  BY <1>1, NoneAssumption DEF Poisoned, Openable
<1>3. Opened(d) = l
  BY <1>2, OpenedIsReplay
<1> QED
  BY <1>2, <1>3

\* The served list and the outcome of a batch, taken apart.
LEMMA OutcomeIs ==
    ASSUME IInv, mem # None
    PROVE  /\ View(mem) = [cfg |-> mem.cfg, live |-> Live(mem)]
           /\ \A r : Outcome(r) = [cfg |-> mem.cfg, live |-> ApplyRecs(Live(mem), r)]
           /\ Outcome(<<>>) = View(mem)
           /\ View(mem) \in Views /\ View(mem) # None
<1>1. mem.cfg \in Cfgs /\ Live(mem) \in Contents
  BY ServedList
<1>2. View(mem) = [cfg |-> mem.cfg, live |-> Live(mem)]
  BY DEF View
<1>3. ASSUME NEW r PROVE Outcome(r) = [cfg |-> mem.cfg, live |-> ApplyRecs(Live(mem), r)]
  BY <1>2 DEF Outcome
<1>4. Outcome(<<>>) = View(mem)
  BY <1>1, <1>2, <1>3, ApplyEmpty
<1>5. View(mem) \in Views /\ View(mem) # None
  BY <1>1, <1>2, NoneIsNoView DEF Views
<1> QED
  BY <1>2, <1>3, <1>4, <1>5

-----------------------------------------------------------------------------
(* Steps.                                                                  *)

\* A step that leaves the served list and the history alone is a stuttering
\* step of AckedList.
LEMMA QuietStep ==
    ASSUME AckInv, UNCHANGED <<mem, acked, limbo>>
    PROVE  /\ UNCHANGED Promise!avars /\ AckInv'
           /\ View(mem)' = View(mem) /\ \A r : Outcome(r)' = Outcome(r)
<1>1. View(mem)' = View(mem)
  BY DEF View, Live
<1> QED
  BY <1>1 DEF AckInv, Promise!avars, Served, Outcome

\* A step that keeps the directory's configuration, base and journal, and
\* withdraws no outcome, keeps what a restart would serve.
LEMMA DirectoryKept ==
    ASSUME IInv, IInv', RecoverInv, ReplayInv, acked' = acked, limbo \subseteq limbo',
           disk'.marker = disk.marker, disk'.config = disk.config, disk'.base = disk.base,
           JournalRecs(disk') = JournalRecs(disk)
    PROVE  RecoverInv' /\ ReplayInv'
<1>1. disk \in Directories /\ disk' \in Directories
  BY DEF IInv, TypeOK
<1>2. /\ ~Poisoned(disk') /\ (Openable(disk') <=> Openable(disk))
      /\ Openable(disk) => View(Opened(disk')) = View(Opened(disk))
  BY <1>1, SameRecovery DEF ReplayInv
<1> QED
  BY <1>2 DEF RecoverInv, ReplayInv

\* A journal that extends the acknowledged one by part of a batch replays to
\* that part's outcome.
LEMMA ExtendedRecovery ==
    ASSUME IInv, mem # None, NEW d \in Directories, NEW p \in Seq(Recs),
           ~d.marker, d.config = mem.cfg, d.base = mem.baseID,
           JournalRecs(d) = mem.jhash \o p, Buildable(ApplyRecs(mem.over, p))
    PROVE  ~Poisoned(d) /\ View(Opened(d)) = Outcome(p)
<1>1. /\ mem.cfg \in Cfgs /\ mem.baseID \in OptContents /\ mem.jhash \in Seq(Recs)
      /\ Live(mem) = ApplyRecs(Segment(mem.baseID), mem.jhash)
      /\ mem.over = ApplyRecs(NoEntries, mem.jhash)
  BY ServedList DEF ListOf
<1>2. /\ ApplyRecs(NoEntries, mem.jhash \o p) = ApplyRecs(mem.over, p)
      /\ ApplyRecs(Segment(mem.baseID), mem.jhash \o p) = ApplyRecs(Live(mem), p)
  BY <1>1, SegmentType, NoEntriesBuildable, ApplyConcat
<1>3. ~Poisoned(d) /\ Openable(d)
  BY <1>1, <1>2, NoneAssumption DEF Poisoned, Openable
<1> QED
  BY <1>1, <1>2, <1>3, OpenedView, OutcomeIs

\* A step after which memory and directory agree and nothing is in doubt.
LEMMA FreshStart ==
    ASSUME IInv', mem' # None, Coherent', acked' = View(mem'), limbo' = {}
    PROVE  AckInv' /\ LimboInv' /\ JournalInv' /\ RecoverInv' /\ ReplayInv'
<1>1. /\ disk' \in Directories /\ mem' \in Lists /\ Buildable(mem'.over)
      /\ mem' = ListOf(mem'.cfg, mem'.baseID, mem'.jhash)
  BY DEF IInv, TypeOK, MemInv
<1>2. mem'.baseID \in OptContents /\ mem'.jhash \in Seq(Recs)
  BY <1>1 DEF Lists
<1>3. ~Poisoned(disk') /\ View(Opened(disk')) = View(mem')
  BY <1>1, CoherentRecovery DEF Coherent, ConfigKept
<1>4. Outcome(<<>>)' = acked'
  <2>1. Live(mem') \in Contents
    BY <1>1, <1>2, LiveOfList, SegmentType, ApplyType
  <2>2. ApplyRecs(Live(mem'), <<>>) = Live(mem')
    BY <2>1, ApplyEmpty
  <2> QED
    BY <2>2 DEF Outcome, View
<1>5. mem'.jhash = mem'.jhash \o <<>> /\ <<>> \in Seq(Recs)
  BY <1>2
<1>6. JournalInv'
  BY <1>4, <1>5 DEF JournalInv, Coherent
<1> QED
  BY <1>3, <1>6 DEF AckInv, LimboInv, RecoverInv, ReplayInv

\* Upsert and Delete: the outcomes of the batch's prefixes are announced
\* before the journal is written, and one of them is acknowledged, or the
\* rollback withdraws them, or the damage leaves them in doubt.
LEMMA AppendKeeps ==
    ASSUME PrefixesBuild, IInv, IInv', HInv, AppendStep
    PROVE  HInv' /\ [Promise!Next]_(Promise!avars)
<1> USE DEF HInv
<1>0. disk \in Directories /\ disk' \in Directories
  BY DEF IInv, TypeOK
<1>1. ASSUME NEW recs \in Batches, BeginAppend(recs)
      PROVE  HInv' /\ [Promise!Next]_(Promise!avars)
  <2>1. /\ mem # None /\ op = Idle /\ damage = "none" /\ Coherent
        /\ op'.kind = "append" /\ op'.recs = recs
        /\ UNCHANGED <<mem, damage, acked>>
        /\ limbo' = {Outcome(SubSeq(recs, 1, n)) : n \in 1 .. Len(recs)}
        /\ disk' = [disk EXCEPT !.journal = JournalRecs(disk)]
    BY <1>1 DEF BeginAppend, At, IInv, IdleInv, Settled, Idle
  <2>2. limbo = {} /\ acked = View(mem)
    BY <2>1, IdleType DEF LimboInv, AckInv
  <2>3. /\ View(mem)' = View(mem) /\ \A r : Outcome(r)' = Outcome(r)
    BY <2>1 DEF Outcome, View, Live
  <2>4. mem \in Lists /\ mem = ListOf(mem.cfg, mem.baseID, mem.jhash) /\ Buildable(mem.over)
        /\ mem.jhash \in Seq(Recs)
    BY <2>1, ServedList DEF IInv, MemInv
  <2>5. /\ disk'.marker = disk.marker /\ disk'.config = disk.config /\ disk'.base = disk.base
        /\ JournalRecs(disk') = mem.jhash
    BY <1>0, <2>1, <2>4, NoneIsNoJournal DEF Directories, Coherent, JournalRecs
  <2>6. AckInv' /\ LimboInv'
    BY <2>1, <2>2, <2>3 DEF AckInv, LimboInv, BaseOps
  <2>7. PendingInv'
    BY <2>1, <2>3 DEF PendingInv
  <2>8. JournalInv'
    <3>1. mem.jhash = mem.jhash \o <<>> /\ <<>> \in Seq(Recs) /\ Outcome(<<>>) = acked
      BY <2>1, <2>2, <2>4, OutcomeIs
    <3> QED
      BY <2>1, <2>3, <2>5, <3>1 DEF JournalInv
  <2>9. ~Poisoned(disk') /\ View(Opened(disk')) = View(mem)
    BY <1>0, <2>1, <2>4, <2>5, CoherentRecovery DEF Coherent, ConfigKept
  <2>10. Promise!TryAppend
    <3>1. Served' = Served /\ Served # None
      BY <2>1, <2>3, OutcomeIs DEF Served
    <3>2. \A r : [acked EXCEPT !.live = ApplyRecs(@, r)] = Outcome(r)
      BY <2>2 DEF Outcome
    <3>3. limbo' = {[acked EXCEPT !.live = Promise!ApplyRecs(@, SubSeq(recs, 1, n))] :
                      n \in 1 .. Len(recs)}
      BY <2>1, <3>2, SameOperators
    <3> QED
      BY <2>1, <2>2, <3>1, <3>3, SameOperators DEF Promise!TryAppend
  <2> QED
    BY <2>1, <2>2, <2>6, <2>7, <2>8, <2>9, <2>10 DEF RecoverInv, ReplayInv, Promise!Next
\* The journal holds some prefix of the batch.
<1>2. ASSUME op.kind = "append", op'.kind = "append", op'.recs = op.recs,
             UNCHANGED <<mem, damage, acked, limbo>>,
             disk'.marker = disk.marker, disk'.config = disk.config, disk'.base = disk.base,
             NEW n \in 0 .. Len(op.recs),
             JournalRecs(disk') = mem.jhash \o SubSeq(op.recs, 1, n)
      PROVE  HInv' /\ [Promise!Next]_(Promise!avars)
  <2> DEFINE p == SubSeq(op.recs, 1, n)
  <2>1. /\ mem # None /\ ConfigKept /\ disk.base = mem.baseID /\ Buildable(mem.over)
        /\ Buildable(ApplyRecs(mem.over, op.recs)) /\ mem.over \in Contents
    BY <1>2 DEF IInv, AppendInv, MemInv, TypeOK, Lists
  <2>2. /\ op.recs \in Batches /\ op.recs \in Seq(Recs) /\ Len(op.recs) \in Nat
        /\ limbo = {Outcome(SubSeq(op.recs, 1, k)) : k \in 1 .. Len(op.recs)}
    BY <1>2, BatchLength DEF PendingInv
  <2>3. p \in Seq(Recs) /\ Buildable(ApplyRecs(mem.over, p))
    BY <2>1, <2>2 DEF PrefixesBuild
  <2>4. /\ UNCHANGED Promise!avars /\ AckInv'
        /\ View(mem)' = View(mem) /\ \A r : Outcome(r)' = Outcome(r)
    BY <1>2, QuietStep
  <2>5. Outcome(p) \in limbo \cup {acked}
    <3>1. CASE n = 0
      <4>1. p = <<>>
        BY <2>2, <3>1
      <4> QED
        BY <2>1, <4>1, OutcomeIs DEF AckInv
    <3>2. CASE n # 0
      BY <2>2, <3>2
    <3> QED
      BY <3>1, <3>2
  <2> HIDE DEF p
  <2>6. ~Poisoned(disk') /\ View(Opened(disk')) = Outcome(p)
    BY <1>0, <1>2, <2>1, <2>3, ExtendedRecovery DEF ConfigKept, p
  <2>7. LimboInv' /\ PendingInv'
    BY <1>2, <2>4 DEF LimboInv, PendingInv, BaseOps
  <2>8. JournalInv'
    BY <1>2, <2>3, <2>4, <2>5 DEF JournalInv, p
  <2>9. RecoverInv' /\ ReplayInv'
    BY <1>2, <2>5, <2>6 DEF RecoverInv, ReplayInv
  <2> QED
    BY <2>4, <2>7, <2>8, <2>9
<1>3. CASE AppendWrite \/ AppendSync \/ AppendSyncFails
  <2>1. /\ op.kind = "append" /\ op'.kind = "append" /\ op'.recs = op.recs
        /\ UNCHANGED <<mem, damage, acked, limbo>>
        /\ disk'.marker = disk.marker /\ disk'.config = disk.config /\ disk'.base = disk.base
    BY <1>0, <1>3
    DEF AppendWrite, AppendSync, AppendSyncFails, At, Goto, Quiet, IInv, TypeOK, Ops, Directories
  <2>2. disk'.journal = mem.jhash \o op.recs
    <3>1. CASE AppendWrite
      BY <1>0, <2>1, <3>1 DEF AppendWrite, At, Goto, IInv, AppendInv, TypeOK, Ops, Directories
    <3>2. CASE AppendSync \/ AppendSyncFails
      BY <1>0, <2>1, <3>2 DEF AppendSync, AppendSyncFails, At, IInv, AppendInv
    <3> QED
      BY <1>3, <3>1, <3>2
  <2>3. op.recs \in Seq(Recs) /\ Len(op.recs) \in Nat /\ mem.jhash \in Seq(Recs)
    BY <2>1, ServedList DEF IInv, TypeOK, Ops, AppendInv
  <2>4. SubSeq(op.recs, 1, Len(op.recs)) = op.recs /\ Len(op.recs) \in 0 .. Len(op.recs)
    BY <2>3, SubSeqFull
  <2>5. disk'.journal # None
    BY <2>1 DEF IInv, AppendInv
  <2>6. JournalRecs(disk') = mem.jhash \o SubSeq(op.recs, 1, Len(op.recs))
    BY <2>2, <2>4, <2>5 DEF JournalRecs
  <2> QED
    BY <1>2, <2>1, <2>4, <2>6
<1>4. CASE AppendWriteFails
  <2>1. PICK n \in 0 .. Len(op.recs) - 1, t \in BOOLEAN :
          disk' = [disk EXCEPT !.journal = @ \o SubSeq(op.recs, 1, n), !.torn = t]
    BY <1>4 DEF AppendWriteFails
  <2>2. /\ op.kind = "append" /\ op'.kind = "append" /\ op'.recs = op.recs
        /\ UNCHANGED <<mem, damage, acked, limbo>>
        /\ disk.journal = mem.jhash /\ mem # None
    BY <1>4 DEF AppendWriteFails, At, Goto, Quiet, IInv, TypeOK, Ops, AppendInv
  <2>3. op.recs \in Seq(Recs) /\ Len(op.recs) \in Nat /\ mem.jhash \in Seq(Recs)
    BY <2>2, ServedList DEF IInv, TypeOK, Ops
  <2>4. n \in 0 .. Len(op.recs) /\ SubSeq(op.recs, 1, n) \in Seq(Recs)
    BY <2>3
  <2>5. /\ disk'.marker = disk.marker /\ disk'.config = disk.config /\ disk'.base = disk.base
        /\ disk'.journal = mem.jhash \o SubSeq(op.recs, 1, n)
    BY <1>0, <2>1, <2>2 DEF Directories
  <2>6. disk'.journal # None
    BY <2>2 DEF IInv, AppendInv
  <2>7. JournalRecs(disk') = mem.jhash \o SubSeq(op.recs, 1, n)
    BY <2>5, <2>6 DEF JournalRecs
  <2> QED
    BY <1>2, <2>2, <2>4, <2>5, <2>7
\* What follows ends the mutation.
<1>5. CASE AppendRollback
  <2>1. /\ mem # None /\ mem' = mem /\ acked' = acked /\ limbo' = {} /\ op' = Idle
        /\ damage' = damage /\ damage = "none"
    BY <1>5 DEF AppendRollback, At, IInv, AppendInv
  <2>2. /\ View(mem)' = View(mem) /\ \A r : Outcome(r)' = Outcome(r)
    BY <2>1 DEF Outcome, View, Live
  <2>3. Coherent'
    BY <2>1, IdleType DEF IInv, IdleInv, Settled
  <2>4. AckInv' /\ LimboInv' /\ JournalInv' /\ RecoverInv' /\ ReplayInv'
    BY <2>1, <2>2, <2>3, FreshStart DEF AckInv
  <2>5. PendingInv'
    BY <2>1, IdleType DEF PendingInv
  <2>6. Promise!Settle
    BY <2>1, <2>2 DEF Promise!Settle, Served
  <2> QED
    BY <2>4, <2>5, <2>6 DEF Promise!Next
<1>6. CASE AppendRollbackFails
  <2>1. /\ mem # None /\ UNCHANGED <<disk, mem, acked, limbo>> /\ op' = Idle
        /\ damage' = "content" /\ damage = "none" /\ op.kind = "append"
    BY <1>6 DEF AppendRollbackFails, At, IInv, AppendInv
  <2>2. /\ UNCHANGED Promise!avars /\ AckInv'
        /\ View(mem)' = View(mem) /\ \A r : Outcome(r)' = Outcome(r)
    BY <2>1, QuietStep
  <2>3. RecoverInv' /\ ReplayInv'
    BY <2>1, DirectoryKept
  <2>4. JournalInv'
    BY <2>1, <2>2 DEF JournalInv
  <2> QED
    BY <2>1, <2>2, <2>3, <2>4, IdleType DEF LimboInv, PendingInv
<1>7. CASE AppendCommit
  <2>1. /\ mem # None /\ mem' = Committed(mem, op.recs) /\ acked' = Outcome(op.recs)
        /\ limbo' = {} /\ op' = Idle /\ damage' = damage /\ damage = "none"
        /\ disk' = disk /\ op.kind = "append"
    BY <1>7 DEF AppendCommit, At, IInv, AppendInv
  <2>2. /\ op.recs \in Seq(Recs) /\ Len(op.recs) \in Nat /\ 1 <= Len(op.recs)
        /\ limbo = {Outcome(SubSeq(op.recs, 1, k)) : k \in 1 .. Len(op.recs)}
    BY <2>1, BatchLength DEF PendingInv
  <2>3. Outcome(op.recs) \in limbo
    <3>1. SubSeq(op.recs, 1, Len(op.recs)) = op.recs /\ Len(op.recs) \in 1 .. Len(op.recs)
      BY <2>2, SubSeqFull
    <3> QED
      BY <2>2, <3>1
  <2>4. /\ mem.cfg \in Cfgs /\ mem.baseID \in OptContents /\ mem.jhash \in Seq(Recs)
        /\ mem = ListOf(mem.cfg, mem.baseID, mem.jhash)
        /\ Live(mem) = ApplyRecs(Segment(mem.baseID), mem.jhash)
    BY <2>1, ServedList
  <2>5. mem' = ListOf(mem.cfg, mem.baseID, mem.jhash \o op.recs)
        /\ mem.jhash \o op.recs \in Seq(Recs)
    BY <2>1, <2>2, <2>4, CommittedIsReplay
  <2>6. View(mem') = Outcome(op.recs)
    <3>1. Live(mem') = ApplyRecs(Segment(mem.baseID), mem.jhash \o op.recs)
      BY <2>4, <2>5, LiveOfList
    <3>2. ApplyRecs(Segment(mem.baseID), mem.jhash \o op.recs) = ApplyRecs(Live(mem), op.recs)
      BY <2>2, <2>4, SegmentType, ApplyConcat
    <3>3. mem'.cfg = mem.cfg
      BY <2>5 DEF ListOf
    <3> QED
      BY <2>1, <3>1, <3>2, <3>3, OutcomeIs DEF View
  <2>7. mem' # None
    BY <2>4, <2>5, ListOfType, NoneIsNoList
  <2>8. Coherent'
    BY <2>1, <2>7, IdleType DEF IInv, IdleInv, Settled
  <2>9. AckInv' /\ LimboInv' /\ JournalInv' /\ RecoverInv' /\ ReplayInv'
    BY <2>1, <2>6, <2>7, <2>8, FreshStart
  <2>10. PendingInv'
    BY <2>1, IdleType DEF PendingInv
  <2>11. Promise!Ack
    BY <2>1, <2>3, <2>6, <2>7 DEF Promise!Ack, Served
  <2> QED
    BY <2>9, <2>10, <2>11 DEF Promise!Next
<1> QED
  BY <1>1, <1>3, <1>4, <1>5, <1>6, <1>7 DEF AppendStep

\* Replaying the journal over what is served gives an outcome in doubt or the
\* acknowledged list, whatever failed operations left in the journal.
LEMMA ReplayOverServed ==
    ASSUME IInv, HInv, mem # None, damage # "create", op.kind # "create"
    PROVE  [cfg |-> mem.cfg, live |-> ApplyRecs(Live(mem), JournalRecs(disk))]
             \in limbo \cup {acked}
<1>1. /\ mem.jhash \in Seq(Recs) /\ mem.baseID \in OptContents /\ Live(mem) \in Contents
      /\ Live(mem) = ApplyRecs(Segment(mem.baseID), mem.jhash)
  BY ServedList
<1>2. CASE JournalRecs(disk) = <<>>
  BY <1>1, <1>2, OutcomeIs, ApplyEmpty DEF HInv, AckInv
<1>3. ASSUME NEW p \in Seq(Recs), JournalRecs(disk) = mem.jhash \o p,
             Outcome(p) \in limbo \cup {acked}
      PROVE  [cfg |-> mem.cfg, live |-> ApplyRecs(Live(mem), JournalRecs(disk))]
               \in limbo \cup {acked}
  <2>1. ApplyRecs(Live(mem), mem.jhash \o p) = ApplyRecs(ApplyRecs(Live(mem), mem.jhash), p)
    BY <1>1, ApplyConcat
  <2>2. ApplyRecs(Live(mem), mem.jhash) = Live(mem)
    BY <1>1, SegmentType, ApplyTwice
  <2> QED
    BY <1>3, <2>1, <2>2, OutcomeIs
<1> QED
  BY <1>2, <1>3 DEF HInv, JournalInv

\* Compact and Replace: a replacement is announced by the rename that publishes
\* its base, together with what the old journal makes of it; a compaction
\* announces nothing, since no crash can change what it serves.
LEMMA BaseKeeps ==
    ASSUME IInv, IInv', HInv, BaseStep
    PROVE  HInv' /\ [Promise!Next]_(Promise!avars)
<1> USE DEF HInv
<1>0. disk \in Directories /\ disk' \in Directories /\ op \in Ops /\ op' \in Ops
  BY DEF IInv, TypeOK
\* Steps that keep base, journal, memory and history.
<1>1. ASSUME UNCHANGED <<mem, acked, limbo>>,
             disk'.marker = disk.marker, disk'.config = disk.config, disk'.base = disk.base,
             JournalRecs(disk') = JournalRecs(disk),
             op.kind # "create", op'.kind # "create", damage # "create",
             LimboInv', PendingInv'
      PROVE  HInv' /\ [Promise!Next]_(Promise!avars)
  <2>1. /\ UNCHANGED Promise!avars /\ AckInv' /\ \A r : Outcome(r)' = Outcome(r)
    BY <1>1, QuietStep
  <2>2. RecoverInv' /\ ReplayInv'
    BY <1>1, DirectoryKept
  <2>3. JournalInv'
    BY <1>1, <2>1 DEF JournalInv
  <2> QED
    BY <1>1, <2>1, <2>2, <2>3
<1>2. ASSUME NEW kind \in BaseOps, NEW content, BeginBase(kind, content)
      PROVE  HInv' /\ [Promise!Next]_(Promise!avars)
  <2>1. /\ UNCHANGED <<disk, mem, damage, acked, limbo>> /\ op.kind = "idle"
        /\ op'.kind = kind /\ op'.at = "rmidx" /\ damage # "create"
    BY <1>2 DEF BeginBase, At, Quiet, Idle
  <2>2. LimboInv' /\ PendingInv'
    BY <2>1 DEF LimboInv, PendingInv, BaseOps
  <2> QED
    BY <1>1, <2>1, <2>2 DEF BaseOps
<1>3. CASE BeginCompact \/ \E b \in Bases : BeginReplace(b)
  BY <1>2, <1>3 DEF BeginCompact, BeginReplace, BaseOps
<1>4. CASE BaseRemoveIdx \/ BaseSyncDir \/ BaseSyncTruncate
  <2>1. /\ UNCHANGED <<mem, damage, acked, limbo>> /\ op.kind \in BaseOps /\ op'.kind = op.kind
        /\ op'.base = op.base
        /\ \/ op.at = "rmidx" /\ op'.at = "rename"
           \/ op.at = "syncdir" /\ op'.at = "truncate"
           \/ op.at = "synctrunc" /\ op'.at = "install"
        /\ damage # "create"
    BY <1>0, <1>4
    DEF BaseRemoveIdx, BaseSyncDir, BaseSyncTruncate, At, Goto, Quiet, Ops, IInv, BaseInv
  <2>2. /\ disk'.marker = disk.marker /\ disk'.config = disk.config /\ disk'.base = disk.base
        /\ JournalRecs(disk') = JournalRecs(disk)
    BY <1>0, <1>4 DEF BaseRemoveIdx, BaseSyncDir, BaseSyncTruncate, Directories, JournalRecs
  <2>3. LimboInv' /\ PendingInv'
    BY <2>1 DEF LimboInv, PendingInv, BaseOps
  <2> QED
    BY <1>1, <2>1, <2>2, <2>3 DEF BaseOps
<1>5. CASE BaseSaveIdx
  <2>1. /\ UNCHANGED <<mem, damage, acked, limbo>> /\ op.kind \in BaseOps /\ op' = Idle
        /\ op.at = "saveidx" /\ damage # "create"
    BY <1>5 DEF BaseSaveIdx, At, Quiet, IInv, BaseInv
  <2>2. /\ disk'.marker = disk.marker /\ disk'.config = disk.config /\ disk'.base = disk.base
        /\ JournalRecs(disk') = JournalRecs(disk)
    BY <1>0, <1>5 DEF BaseSaveIdx, Directories, JournalRecs
  <2>3. LimboInv' /\ PendingInv'
    BY <2>1, IdleType DEF LimboInv, PendingInv
  <2> QED
    BY <1>1, <2>1, <2>2, <2>3, IdleType DEF BaseOps
<1>6. CASE BaseFails
  <2>1. /\ UNCHANGED <<disk, mem, acked, limbo>> /\ op.kind \in BaseOps /\ op' = Idle
        /\ damage' = (IF op.at \in {"rmidx", "rename"} THEN damage ELSE "content")
        /\ damage # "create"
    BY <1>6 DEF BaseFails, At, IInv, BaseInv
  <2>2. LimboInv' /\ PendingInv'
    BY <2>1, IdleType DEF LimboInv, PendingInv
  <2> QED
    BY <1>1, <2>1, <2>2, IdleType DEF BaseOps
<1> USE DEF BaseOps
<1>7. CASE BaseRename
  <2>1. /\ mem # None /\ UNCHANGED <<mem, damage, acked>> /\ op.kind \in BaseOps
        /\ op.at = "rename" /\ op'.kind = op.kind /\ op'.at = "syncdir" /\ op'.base = op.base
        /\ damage # "create" /\ ConfigKept /\ op.base \in Contents
        /\ op.kind = "compact" => op.base = Live(mem)
        /\ disk' = [disk EXCEPT !.base = op.base]
    BY <1>0, <1>7 DEF BaseRename, At, Goto, Ops, IInv, BaseInv
  <2>2. /\ disk'.marker = disk.marker /\ disk'.config = disk.config /\ disk'.base = op.base
        /\ JournalRecs(disk') = JournalRecs(disk)
    BY <1>0, <2>1 DEF Directories, JournalRecs
  <2>3. /\ View(mem)' = View(mem) /\ \A r : Outcome(r)' = Outcome(r)
    BY <2>1 DEF Outcome, View, Live
  <2>4. AckInv' /\ LimboInv'
    BY <2>1, <2>3 DEF AckInv, LimboInv
  <2>5. /\ ReplayInv' /\ Openable(disk) /\ Openable(disk') /\ disk.config = mem.cfg
    BY <2>1, <2>2, ServedList, NoneAssumption DEF ReplayInv, Poisoned, Openable, ConfigKept
  <2>6. View(Opened(disk')) = [cfg |-> mem.cfg, live |-> ApplyRecs(op.base, JournalRecs(disk))]
    <3>1. Segment(op.base) = op.base
      BY <2>1, NoneIsNoContent DEF Segment
    <3> QED
      BY <1>0, <2>2, <2>5, <3>1, OpenedView DEF ReplayInv
  <2>7. CASE op.kind = "compact"
    <3>1. limbo' = limbo
      BY <1>7, <2>7 DEF BaseRename
    <3>2. RecoverInv'
      BY <2>1, <2>6, <2>7, <3>1, ReplayOverServed DEF RecoverInv
    <3>3. PendingInv'
      BY <2>1, <2>7 DEF PendingInv
    <3>4. JournalInv'
      BY <2>1, <2>2, <2>3, <3>1 DEF JournalInv
    <3>5. UNCHANGED Promise!avars
      BY <2>1, <3>1, QuietStep
    <3> QED
      BY <2>4, <2>5, <3>2, <3>3, <3>4, <3>5
  <2>8. CASE op.kind = "replace"
    <3>1. limbo' = limbo \cup {[cfg |-> mem.cfg, live |-> m] :
                       m \in {op.base, ApplyRecs(op.base, JournalRecs(disk))}}
      BY <1>7, <2>8 DEF BaseRename
    <3>2. /\ [cfg |-> mem.cfg, live |-> op.base] \in limbo'
          /\ [cfg |-> mem.cfg, live |-> ApplyRecs(op.base, JournalRecs(disk))] \in limbo'
          /\ limbo \subseteq limbo'
          /\ \A x \in limbo' \ limbo :
               \/ x = [cfg |-> mem.cfg, live |-> op.base]
               \/ x = [cfg |-> mem.cfg, live |-> ApplyRecs(op.base, JournalRecs(disk))]
      BY <3>1
    <3>3. RecoverInv'
      BY <2>6, <3>2 DEF RecoverInv
    <3>4. PendingInv'
      BY <2>1, <2>8, <3>2 DEF PendingInv
    <3>5. JournalInv'
      BY <2>1, <2>2, <2>3, <3>2 DEF JournalInv
    <3>6. Promise!TryReplace
      \* The directory before the rename: a restart would have served y.
      <4>1. PICK y \in limbo \cup {acked} :
              y = [cfg  |-> mem.cfg,
                   live |-> ApplyRecs(Segment(disk.base), JournalRecs(disk))]
        BY <1>0, <2>5, OpenedView DEF RecoverInv, ReplayInv
      <4>2. \A i \in IDs : ApplyRecs(op.base, JournalRecs(disk))[i] \in {op.base[i], y.live[i]}
        BY <4>1 DEF ApplyRecs
      <4>3. Served' = Served /\ Served # None /\ acked.cfg = mem.cfg
            /\ [acked EXCEPT !.live = op.base] = [cfg |-> mem.cfg, live |-> op.base]
        BY <2>1, <2>3, OutcomeIs DEF Served, AckInv
      <4>4. ASSUME NEW x \in limbo' \ limbo
            PROVE  /\ x.cfg = acked.cfg
                   /\ \A i \in IDs :
                        x.live[i] \in {op.base[i]} \cup {z.live[i] : z \in limbo \cup {acked}}
        <5>1. CASE x = [cfg |-> mem.cfg, live |-> op.base]
          BY <4>3, <5>1
        <5>2. CASE x = [cfg |-> mem.cfg, live |-> ApplyRecs(op.base, JournalRecs(disk))]
          <6>1. x.cfg = mem.cfg /\ x.live = ApplyRecs(op.base, JournalRecs(disk))
            BY <5>2
          <6>2. ASSUME NEW i \in IDs
                PROVE  x.live[i] \in {op.base[i]} \cup {z.live[i] : z \in limbo \cup {acked}}
            <7>1. y.live[i] \in {z.live[i] : z \in limbo \cup {acked}}
              OBVIOUS
            <7>2. x.live[i] = op.base[i] \/ x.live[i] = y.live[i]
              BY <4>2, <6>1
            <7> QED
              BY <7>1, <7>2
          <6> QED
            BY <4>3, <6>1, <6>2
        <5> QED
          BY <3>2, <5>1, <5>2
      <4> QED
        BY <2>1, <3>2, <4>3, <4>4, SameOperators, ZenonT(60) DEF Promise!TryReplace
    <3> QED
      BY <2>4, <2>5, <3>3, <3>4, <3>5, <3>6 DEF Promise!Next
  <2> QED
    BY <2>1, <2>7, <2>8
<1>8. CASE BaseTruncate
  <2>1. /\ mem # None /\ UNCHANGED <<mem, damage, acked, limbo>> /\ op.kind \in BaseOps
        /\ op.at = "truncate" /\ op'.kind = op.kind /\ op'.at \in {"install", "synctrunc"}
        /\ op'.base = op.base /\ op.base \in Contents /\ ConfigKept /\ damage # "create"
        /\ disk.base = op.base
        /\ (op.kind = "compact" => op.base = Live(mem))
    BY <1>0, <1>8 DEF BaseTruncate, At, Goto, Quiet, Ops, IInv, BaseInv
  <2>2. /\ disk'.marker = disk.marker /\ disk'.config = disk.config /\ disk'.base = op.base
        /\ JournalRecs(disk') = <<>>
    <3>1. CASE disk.journal = None
      BY <1>8, <2>1, <3>1 DEF BaseTruncate, JournalRecs
    <3>2. CASE disk.journal # None
      <4>1. disk' = [disk EXCEPT !.journal = <<>>, !.torn = FALSE]
        BY <1>8, <3>2 DEF BaseTruncate
      <4> QED
        BY <1>0, <2>1, <4>1 DEF Directories, JournalRecs
    <3> QED
      BY <3>1, <3>2
  <2>3. /\ UNCHANGED Promise!avars /\ AckInv'
    BY <2>1, QuietStep
  <2>4. LimboInv' /\ PendingInv' /\ JournalInv'
    BY <2>1, <2>2 DEF LimboInv, PendingInv, JournalInv
  <2>5. ReplayInv' /\ Openable(disk') /\ disk'.config = mem.cfg
    BY <2>1, <2>2, ServedList, NoneAssumption, NoEntriesBuildable, ApplyEmpty
    DEF ReplayInv, Poisoned, Openable, ConfigKept
  <2>6. View(Opened(disk')) = [cfg |-> mem.cfg, live |-> op.base]
    <3>1. Segment(op.base) = op.base /\ ApplyRecs(op.base, <<>>) = op.base
      BY <2>1, NoneIsNoContent, ApplyEmpty DEF Segment
    <3> QED
      BY <1>0, <2>2, <2>5, <3>1, OpenedView DEF ReplayInv
  <2>7. [cfg |-> mem.cfg, live |-> op.base] \in limbo \cup {acked}
    <3>1. CASE op.kind = "compact"
      BY <2>1, <3>1, OutcomeIs DEF AckInv
    <3>2. CASE op.kind = "replace"
      BY <2>1, <3>2 DEF PendingInv
    <3> QED
      BY <2>1, <3>1, <3>2
  <2> QED
    BY <2>1, <2>3, <2>4, <2>5, <2>6, <2>7 DEF RecoverInv
<1>9. CASE BaseInstall
  <2>1. /\ mem # None /\ op.kind \in BaseOps /\ op.at = "install" /\ op'.kind = op.kind
        /\ op'.at = "saveidx" /\ limbo' = {} /\ op.base \in Contents
        /\ mem' = ListOf(mem.cfg, op.base, <<>>)
        /\ acked' = [cfg |-> mem.cfg, live |-> op.base]
        /\ op.kind = "compact" => op.base = Live(mem)
    BY <1>0, <1>9 DEF BaseInstall, At, Goto, Ops, IInv, BaseInv
  <2>2. mem.cfg \in Cfgs /\ op.base \in OptContents /\ mem' # None
    BY <2>1, ServedList, FreshList DEF OptContents
  <2>3. View(mem') = [cfg |-> mem.cfg, live |-> op.base]
    <3>0. <<>> \in Seq(Recs)
      OBVIOUS
    <3>1. Live(mem') = ApplyRecs(Segment(op.base), <<>>)
      BY <2>1, <2>2, <3>0, LiveOfList
    <3>2. ApplyRecs(Segment(op.base), <<>>) = op.base
      BY <2>1, NoneIsNoContent, ApplyEmpty DEF Segment
    <3>3. mem'.cfg = mem.cfg
      BY <2>1 DEF ListOf
    <3> QED
      BY <3>1, <3>2, <3>3 DEF View
  <2>4. Coherent'
    BY <2>1 DEF IInv, BaseInv
  <2>5. AckInv' /\ LimboInv' /\ JournalInv' /\ RecoverInv' /\ ReplayInv'
    BY <2>1, <2>2, <2>3, <2>4, FreshStart
  <2>6. PendingInv'
    BY <2>1 DEF PendingInv
  <2>7. CASE op.kind = "compact"
    <3>1. View(mem') = View(mem) /\ acked' = acked
      BY <2>1, <2>3, <2>7, OutcomeIs DEF AckInv
    <3>2. Promise!Settle
      BY <2>1, <2>2, <3>1 DEF Promise!Settle, Served
    <3> QED
      BY <2>5, <2>6, <3>2 DEF Promise!Next
  <2>8. CASE op.kind = "replace"
    <3>1. Promise!Ack
      BY <2>1, <2>2, <2>3, <2>8 DEF Promise!Ack, Served, PendingInv
    <3> QED
      BY <2>5, <2>6, <3>1 DEF Promise!Next
  <2> QED
    BY <2>1, <2>7, <2>8
<1> QED
  BY <1>3, <1>4, <1>5, <1>6, <1>7, <1>8, <1>9 DEF BaseStep

\* CreateList: while the marker stands a restart skips the directory; its
\* removal announces the new list, which the last step acknowledges.
LEMMA CreateKeeps ==
    ASSUME IInv, IInv', HInv, CreateStep
    PROVE  HInv' /\ [Promise!Next]_(Promise!avars)
<1> USE DEF HInv
<1>0. disk \in Directories /\ disk' \in Directories /\ op \in Ops /\ op' \in Ops
  BY DEF IInv, TypeOK
<1>1. ASSUME NEW c \in Creates, BeginCreate(c)
      PROVE  HInv' /\ [Promise!Next]_(Promise!avars)
  <2>1. /\ UNCHANGED <<disk, mem, damage, acked, limbo>> /\ op.kind = "idle"
        /\ op'.kind = "create" /\ op'.at = "mark"
    BY <1>1 DEF BeginCreate, At, Quiet, Idle
  <2>2. UNCHANGED Promise!avars /\ AckInv' /\ \A r : Outcome(r)' = Outcome(r)
    BY <2>1, QuietStep
  <2>3. RecoverInv' /\ ReplayInv'
    BY <2>1, DirectoryKept
  <2>4. JournalInv'
    BY <2>1, <2>2 DEF JournalInv
  <2> QED
    BY <2>1, <2>2, <2>3, <2>4 DEF LimboInv, PendingInv, BaseOps
\* The marker stands.
<1>2. ASSUME UNCHANGED <<mem, damage, acked, limbo>>, disk'.marker,
             JournalRecs(disk') = JournalRecs(disk) \/ JournalRecs(disk') = <<>>,
             op'.kind = "create",
             op'.at \in {"markdir", "wipebase", "wipeidx", "wipejournal", "config",
                         "configdir", "unmark"}
      PROVE  HInv' /\ [Promise!Next]_(Promise!avars)
  <2>1. UNCHANGED Promise!avars /\ AckInv'
    BY <1>2, QuietStep
  <2>2. ReplayInv'
    <3>1. CASE JournalRecs(disk') = JournalRecs(disk)
      BY <3>1 DEF ReplayInv, Poisoned
    <3>2. CASE JournalRecs(disk') = <<>>
      BY <3>2, NoEntriesBuildable, ApplyEmpty DEF ReplayInv, Poisoned
    <3> QED
      BY <1>2, <3>1, <3>2
  <2>3. RecoverInv'
    BY <1>2 DEF RecoverInv, Openable
  <2>4. LimboInv' /\ PendingInv' /\ JournalInv'
    BY <1>2 DEF LimboInv, PendingInv, JournalInv, BaseOps
  <2> QED
    BY <2>1, <2>2, <2>3, <2>4
<1>3. CASE CreateMark
  <2>1. /\ UNCHANGED <<mem, damage, acked, limbo>> /\ op'.kind = "create" /\ op'.at = "markdir"
        /\ disk' = [disk EXCEPT !.marker = TRUE]
    BY <1>0, <1>3 DEF CreateMark, CreateCall, At, Goto, Ops
  <2>2. disk'.marker /\ JournalRecs(disk') = JournalRecs(disk)
    BY <1>0, <2>1 DEF Directories, JournalRecs
  <2> QED
    BY <1>2, <2>1, <2>2
<1>4. CASE CreateMarkDir \/ CreateConfigDir
  <2>1. /\ UNCHANGED <<disk, mem, damage, acked, limbo>> /\ op'.kind = "create"
        /\ op'.at \in {"wipebase", "unmark"} /\ op.kind = "create"
        /\ op.at \in {"markdir", "configdir"}
    BY <1>0, <1>4 DEF CreateMarkDir, CreateConfigDir, CreateSync, Quiet, At, Goto, Ops
  <2>2. disk'.marker
    BY <2>1 DEF PendingInv
  <2> QED
    BY <1>2, <2>1, <2>2
<1>5. CASE CreateWipeBase
  <2>1. /\ UNCHANGED <<mem, damage, acked, limbo>> /\ op'.kind = "create" /\ op'.at = "wipeidx"
        /\ op.kind = "create" /\ op.at = "wipebase" /\ disk' = [disk EXCEPT !.base = None]
    BY <1>0, <1>5 DEF CreateWipeBase, CreateCall, At, Goto, Ops
  <2>2. disk'.marker /\ JournalRecs(disk') = JournalRecs(disk)
    BY <1>0, <2>1 DEF Directories, JournalRecs, PendingInv
  <2> QED
    BY <1>2, <2>1, <2>2
<1>6. CASE CreateWipeIdx
  <2>1. /\ UNCHANGED <<mem, damage, acked, limbo>> /\ op'.kind = "create"
        /\ op'.at = "wipejournal" /\ op.kind = "create" /\ op.at = "wipeidx"
        /\ disk' = [disk EXCEPT !.idx = None]
    BY <1>0, <1>6 DEF CreateWipeIdx, CreateCall, At, Goto, Ops
  <2>2. disk'.marker /\ JournalRecs(disk') = JournalRecs(disk)
    BY <1>0, <2>1 DEF Directories, JournalRecs, PendingInv
  <2> QED
    BY <1>2, <2>1, <2>2
<1>7. CASE CreateWipeJournal
  <2>1. /\ UNCHANGED <<mem, damage, acked, limbo>> /\ op'.kind = "create" /\ op'.at = "config"
        /\ op.kind = "create" /\ op.at = "wipejournal"
        /\ disk' = [disk EXCEPT !.journal = None, !.torn = FALSE]
    BY <1>0, <1>7 DEF CreateWipeJournal, CreateCall, At, Goto, Ops
  <2>2. disk'.marker /\ JournalRecs(disk') = <<>>
    BY <1>0, <2>1 DEF Directories, JournalRecs, PendingInv
  <2> QED
    BY <1>2, <2>1, <2>2
<1>8. CASE CreateConfig
  <2>1. /\ UNCHANGED <<mem, damage, acked, limbo>> /\ op'.kind = "create" /\ op'.at = "configdir"
        /\ op.kind = "create" /\ op.at = "config" /\ disk' = [disk EXCEPT !.config = op.cfg]
    BY <1>0, <1>8 DEF CreateConfig, CreateCall, At, Goto, Ops
  <2>2. disk'.marker /\ JournalRecs(disk') = JournalRecs(disk)
    BY <1>0, <2>1 DEF Directories, JournalRecs, PendingInv
  <2> QED
    BY <1>2, <2>1, <2>2
<1>9. CASE CreateUnmark
  <2>1. /\ UNCHANGED <<mem, damage, acked>> /\ op'.kind = "create" /\ op'.at = "unmarkdir"
        /\ op'.cfg = op.cfg /\ op.cfg \in Cfgs
        /\ op.kind = "create" /\ op.at = "unmark" /\ disk' = [disk EXCEPT !.marker = FALSE]
        /\ limbo' = limbo \cup {[cfg |-> op.cfg, live |-> NoEntries]}
    BY <1>0, <1>9 DEF CreateUnmark, CreateCall, At, Goto, Ops, IInv, CreateInv
  <2>2. disk.base = None /\ disk.journal = None /\ disk.config = op.cfg
    BY <2>1 DEF IInv, CreateInv
  <2>3. ~disk'.marker /\ disk'.config = op.cfg /\ disk'.base = None /\ JournalRecs(disk') = <<>>
    BY <1>0, <2>1, <2>2 DEF Directories, JournalRecs
  <2>4. ~Poisoned(disk') /\ Openable(disk')
    BY <2>1, <2>3, NoEntriesBuildable, ApplyEmpty, NoneAssumption DEF Poisoned, Openable
  <2>5. View(Opened(disk')) = [cfg |-> op.cfg, live |-> NoEntries]
    <3>1. ApplyRecs(Segment(None), <<>>) = NoEntries
      BY NoEntriesBuildable, ApplyEmpty DEF Segment
    <3> QED
      BY <1>0, <2>3, <2>4, <3>1, OpenedView
  <2>6. Served' = Served /\ AckInv'
    BY <2>1 DEF Served, View, Live, AckInv
  <2>7. LimboInv' /\ PendingInv' /\ JournalInv'
    BY <2>1 DEF LimboInv, PendingInv, JournalInv, BaseOps
  <2>8. Promise!TryCreate
    BY <2>1, <2>6, SameOperators DEF Promise!TryCreate
  <2> QED
    BY <2>1, <2>4, <2>5, <2>6, <2>7, <2>8 DEF RecoverInv, ReplayInv, Promise!Next
<1>10. CASE CreateUnmarkDir
  <2>1. /\ UNCHANGED <<disk, mem, damage, acked, limbo>> /\ op'.kind = "create"
        /\ op'.at = "install" /\ op.kind = "create" /\ op.at = "unmarkdir" /\ op'.cfg = op.cfg
    BY <1>0, <1>10 DEF CreateUnmarkDir, CreateSync, Quiet, At, Goto, Ops
  <2>2. UNCHANGED Promise!avars /\ AckInv'
    BY <2>1, QuietStep
  <2>3. RecoverInv' /\ ReplayInv'
    BY <2>1, DirectoryKept
  <2>4. LimboInv' /\ PendingInv' /\ JournalInv'
    BY <2>1 DEF LimboInv, PendingInv, JournalInv, BaseOps
  <2> QED
    BY <2>2, <2>3, <2>4
<1>11. CASE CreateInstall
  <2>1. /\ op.kind = "create" /\ op.at = "install" /\ op' = Idle /\ limbo' = {}
        /\ op.cfg \in Cfgs /\ mem' = ListOf(op.cfg, None, <<>>) /\ damage' = "none"
        /\ acked' = [cfg |-> op.cfg, live |-> NoEntries]
    BY <1>11 DEF CreateInstall, At, IInv, CreateInv
  <2>2. None \in OptContents /\ mem' # None
    BY <2>1, FreshList DEF OptContents
  <2>3. View(mem') = [cfg |-> op.cfg, live |-> NoEntries]
    <3>0. <<>> \in Seq(Recs)
      OBVIOUS
    <3>1. Live(mem') = ApplyRecs(Segment(None), <<>>)
      BY <2>1, <2>2, <3>0, LiveOfList
    <3>2. ApplyRecs(Segment(None), <<>>) = NoEntries
      BY NoEntriesBuildable, ApplyEmpty DEF Segment
    <3>3. mem'.cfg = op.cfg
      BY <2>1 DEF ListOf
    <3> QED
      BY <3>1, <3>2, <3>3 DEF View
  <2>4. Coherent'
    BY <2>1, <2>2, IdleType DEF IInv, IdleInv, Settled
  <2>5. AckInv' /\ LimboInv' /\ JournalInv' /\ RecoverInv' /\ ReplayInv'
    BY <2>1, <2>2, <2>3, <2>4, FreshStart
  <2>6. PendingInv'
    BY <2>1, IdleType DEF PendingInv, BaseOps
  <2>7. Promise!Ack
    BY <2>1, <2>2, <2>3 DEF Promise!Ack, Served, PendingInv
  <2> QED
    BY <2>5, <2>6, <2>7 DEF Promise!Next
<1>12. CASE CreateFails
  <2>1. /\ UNCHANGED <<disk, mem, acked, limbo>> /\ op.kind = "create" /\ op' = Idle
        /\ damage' = IF op.at = "mark" THEN damage ELSE "create"
    BY <1>12 DEF CreateFails, At
  <2>2. UNCHANGED Promise!avars /\ AckInv' /\ \A r : Outcome(r)' = Outcome(r)
    BY <2>1, QuietStep
  <2>3. RecoverInv' /\ ReplayInv'
    BY <2>1, DirectoryKept
  <2>4. JournalInv'
    BY <2>1, <2>2 DEF JournalInv
  <2> QED
    BY <2>1, <2>2, <2>3, <2>4, IdleType DEF LimboInv, PendingInv, BaseOps
<1> QED
  BY <1>1, <1>3, <1>4, <1>5, <1>6, <1>7, <1>8, <1>9, <1>10, <1>11, <1>12 DEF CreateStep

\* Opening a directory recovers what was acknowledged or announced; what it
\* leaves on disk is what it serves.
LEMMA AdoptKeeps ==
    ASSUME IInv, IInv', HInv, Openable(disk), Adopt, op' = Idle, damage' = "none"
    PROVE  /\ HInv' /\ limbo' = {} /\ mem' # None
           /\ Served' = View(Opened(disk)) /\ acked' = Served'
           /\ Served' \in (limbo \cup {acked}) \ {None}
<1> USE DEF HInv
<1>1. /\ mem' = Opened(disk) /\ limbo' = {} /\ acked' = View(mem') /\ disk \in Directories
      /\ acked' = View(Opened(disk))
  BY DEF Adopt, IInv, TypeOK
<1>2. mem' \in Lists /\ mem' # None
  BY <1>1, OpenedIsReplay, NoneIsNoList
<1>3. Coherent'
  BY <1>2, IdleType DEF IInv, IdleInv, Settled
<1>4. AckInv' /\ LimboInv' /\ JournalInv' /\ RecoverInv' /\ ReplayInv'
  BY <1>1, <1>2, <1>3, FreshStart
<1>5. PendingInv'
  BY IdleType DEF PendingInv, BaseOps
<1>6. Served' = View(Opened(disk)) /\ acked' = Served'
  BY <1>1, <1>2 DEF Served
<1>7. View(Opened(disk)) # None
  <2>1. /\ View(Opened(disk)) = [cfg  |-> disk.config,
                                 live |-> ApplyRecs(Segment(disk.base), JournalRecs(disk))]
        /\ disk.config \in Cfgs /\ disk.base \in OptContents /\ JournalRecs(disk) \in Seq(Recs)
    BY <1>1, OpenedView DEF ReplayInv
  <2>2. ApplyRecs(Segment(disk.base), JournalRecs(disk)) \in Contents
    BY <2>1, SegmentType, ApplyType
  <2>3. View(Opened(disk)) \in Views
    BY <2>1, <2>2 DEF Views
  <2> QED
    BY <2>3, NoneIsNoView
<1> QED
  BY <1>1, <1>2, <1>4, <1>5, <1>6, <1>7 DEF RecoverInv

\* Reload, crash and restart.
LEMMA ProcessKeeps ==
    ASSUME IInv, IInv', HInv, ProcessStep
    PROVE  HInv' /\ [Promise!Next]_(Promise!avars)
<1> USE DEF HInv
<1>0. disk \in Directories /\ disk' \in Directories
  BY DEF IInv, TypeOK
\* A reload of a served list finds it as it is served; of a list skipped at
\* start it is a recovery.
<1>1. CASE Reload
  <2>1. /\ op = Idle /\ op' = Idle /\ damage = "none" /\ damage' = "none" /\ Openable(disk)
        /\ Adopt /\ op.kind = "idle"
    BY <1>1 DEF Reload, At, IInv, IdleInv
  <2>2. /\ HInv' /\ limbo' = {} /\ mem' # None
        /\ Served' = View(Opened(disk)) /\ acked' = Served'
        /\ Served' \in (limbo \cup {acked}) \ {None}
    BY <2>1, AdoptKeeps
  <2>3. CASE mem = None
    BY <2>2, <2>3 DEF Promise!Recover, Promise!Next, Served
  <2>4. CASE mem # None
    <3>1. limbo = {} /\ acked = View(mem)
      BY <2>1, <2>4 DEF LimboInv, AckInv
    <3>2. Promise!Settle
      BY <2>2, <2>4, <3>1 DEF Promise!Settle, Served
    <3> QED
      BY <2>2, <3>2 DEF Promise!Next
  <2> QED
    BY <2>3, <2>4
<1>2. CASE ReloadFails \/ OpenSkips
  <2>1. /\ UNCHANGED <<mem, damage, op, acked, limbo>> /\ GiveUp
    BY <1>2 DEF ReloadFails, OpenSkips, Quiet
  <2>2. /\ disk'.marker = disk.marker /\ disk'.config = disk.config /\ disk'.base = disk.base
        /\ JournalRecs(disk') = JournalRecs(disk)
    BY <1>0, <2>1, GivenUpType DEF JournalRecs
  <2>3. UNCHANGED Promise!avars /\ AckInv' /\ \A r : Outcome(r)' = Outcome(r)
    BY <2>1, QuietStep
  <2>4. RecoverInv' /\ ReplayInv'
    BY <2>1, <2>2, DirectoryKept
  <2>5. JournalInv'
    BY <2>1, <2>2, <2>3 DEF JournalInv
  <2>6. LimboInv'
    BY <2>1 DEF LimboInv
  <2>7. PendingInv'
    BY <2>1, <2>2, <2>3 DEF PendingInv
  <2> QED
    BY <2>3, <2>4, <2>5, <2>6, <2>7
<1>3. CASE Crash
  <2>1. /\ UNCHANGED <<disk, acked, limbo>> /\ mem' = None /\ op' = Idle
    BY <1>3 DEF Crash
  <2>2. AckInv' /\ LimboInv' /\ JournalInv' /\ PendingInv'
    BY <2>1, IdleType DEF AckInv, LimboInv, JournalInv, PendingInv, BaseOps
  <2>3. RecoverInv' /\ ReplayInv'
    BY <2>1, DirectoryKept
  <2>4. Promise!Crash
    BY <2>1 DEF Promise!Crash, Served
  <2> QED
    BY <2>2, <2>3, <2>4 DEF Promise!Next
<1>4. CASE Open
  <2>1. /\ mem = None /\ op = Idle /\ op' = Idle /\ damage = "none" /\ damage' = "none"
        /\ Openable(disk) /\ Adopt
    BY <1>4 DEF Open, IInv, IdleInv
  <2>2. /\ HInv' /\ limbo' = {} /\ mem' # None
        /\ Served' = View(Opened(disk)) /\ acked' = Served'
        /\ Served' \in (limbo \cup {acked}) \ {None}
    BY <2>1, AdoptKeeps
  <2> QED
    BY <2>1, <2>2 DEF Promise!Recover, Promise!Next, Served
<1> QED
  BY <1>1, <1>2, <1>3, <1>4 DEF ProcessStep

\* A directory opened for the first time serves what is acknowledged.
LEMMA InitHolds == Init => HInv /\ Promise!Init
<1> SUFFICES ASSUME Init PROVE HInv /\ Promise!Init
  OBVIOUS
<1>1. IInv /\ disk \in Directories
  BY InitIInv DEF IInv, TypeOK
<1>2. limbo = {} /\ op.kind = "idle"
  BY DEF Init, Idle
<1>3. CASE disk = Dir(None, None, None) /\ mem = None /\ acked = None
  <2>1. JournalRecs(disk) = <<>> /\ disk.config = None
    BY <1>3 DEF Dir, JournalRecs
  <2>2. ~Poisoned(disk) /\ ~Openable(disk)
    BY <2>1, NoEntriesBuildable, ApplyEmpty DEF Poisoned, Openable
  <2> QED
    BY <1>2, <1>3, <2>2
    DEF HInv, AckInv, LimboInv, PendingInv, JournalInv, RecoverInv, ReplayInv, BaseOps,
        Promise!Init, Served
<1>4. ASSUME NEW c \in Cfgs, NEW b \in Bases \cup {None}, NEW j \in {None, <<>>},
             disk = Dir(c, b, j), mem = ListOf(c, b, <<>>), acked = View(ListOf(c, b, <<>>))
      PROVE  HInv /\ Promise!Init
  <2>1. b \in OptContents /\ mem # None /\ mem \in Lists
    BY <1>4, BasesAssumption, FreshList DEF OptContents
  <2>2. /\ ~disk.marker /\ disk.config = mem.cfg /\ disk.base = mem.baseID
        /\ JournalRecs(disk) = <<>> /\ mem.jhash = <<>> /\ acked = View(mem)
    BY <1>4 DEF Dir, ListOf, JournalRecs
  <2>3. mem = ListOf(mem.cfg, mem.baseID, mem.jhash) /\ Buildable(mem.over)
    BY <1>1, <2>1 DEF IInv, MemInv
  <2>4. ~Poisoned(disk) /\ View(Opened(disk)) = View(mem)
    BY <1>1, <2>1, <2>2, <2>3, CoherentRecovery
  <2>5. acked \in Views
    BY <1>1, <2>1, <2>2, OutcomeIs
  <2> QED
    BY <1>2, <2>1, <2>2, <2>4, <2>5, SameOperators
    DEF HInv, AckInv, LimboInv, PendingInv, JournalInv, RecoverInv, ReplayInv, BaseOps,
        Promise!Init, Served
<1> QED
  BY <1>3, <1>4 DEF Init

\* A step that changes nothing.
LEMMA StutterKeeps ==
    ASSUME IInv, IInv', HInv, UNCHANGED vars
    PROVE  HInv' /\ [Promise!Next]_(Promise!avars)
<1> USE DEF HInv, vars
<1>1. UNCHANGED Promise!avars /\ AckInv' /\ \A r : Outcome(r)' = Outcome(r)
  BY QuietStep
<1>2. RecoverInv' /\ ReplayInv'
  BY DirectoryKept
<1>3. JournalInv'
  BY <1>1 DEF JournalInv
<1>4. LimboInv' /\ PendingInv'
  BY <1>1 DEF LimboInv, PendingInv
<1> QED
  BY <1>1, <1>2, <1>3, <1>4

\* Every step keeps the history invariant and is a step, or a stuttering
\* step, of AckedList.
LEMMA StepKeeps ==
    ASSUME PrefixesBuild, IInv, IInv', HInv, [Next]_vars
    PROVE  HInv' /\ [Promise!Next]_(Promise!avars)
  BY AppendKeeps, BaseKeeps, CreateKeeps, ProcessKeeps, StutterKeeps DEF Next

-----------------------------------------------------------------------------
(* The theorems.                                                           *)

\* A store keeps its promise about a list: what is served is what was last
\* acknowledged, and after any failure, crash and restart it is the
\* acknowledged list or an outcome that an unacknowledged operation announced
\* (Upsert, Delete, Replace, Compact, CreateList, ReloadList and openList).
THEOREM PromiseTheorem == PrefixesBuild => (Spec => PromiseKept)
<1> SUFFICES ASSUME PrefixesBuild PROVE Spec => PromiseKept
  OBVIOUS
<1>1. IInv /\ IInv' /\ HInv /\ [Next]_vars => HInv' /\ [Promise!Next]_(Promise!avars)
  BY StepKeeps
<1> QED
  BY <1>1, InitHolds, Invariance, PTL DEF Spec, PromiseKept, Promise!Spec

\* "Replay can never be poisoned by a journaled-but-uninstallable batch"
\* (overlayBuild runs before the append), provided that no prefix of a batch
\* is poisonous either: a write that fails halfway leaves a prefix.
THEOREM ReplayTheorem == PrefixesBuild => (Spec => []ReplayNeverPoisoned)
<1> SUFFICES ASSUME PrefixesBuild PROVE Spec => []ReplayNeverPoisoned
  OBVIOUS
<1>1. IInv /\ IInv' /\ HInv /\ [Next]_vars => HInv'
  BY StepKeeps
<1>2. HInv => ReplayNeverPoisoned
  BY DEF HInv, ReplayInv, ReplayNeverPoisoned
<1> QED
  BY <1>1, <1>2, InitHolds, Invariance, PTL DEF Spec

\* The promise is unconditional when every Upsert carries one record, and for
\* lists whose entries are too few to share a key too often.
THEOREM PlainPromise ==
    (MaxBatch <= 1 \/ (IsFiniteSet(IDs) /\ Cardinality(IDs) <= MaxRun)) =>
        (Spec => PromiseKept /\ []ReplayNeverPoisoned)
<1>1. (MaxBatch <= 1 \/ (IsFiniteSet(IDs) /\ Cardinality(IDs) <= MaxRun)) => PrefixesBuild
  BY SingleRecordsBuild, SmallListsBuild
<1> QED
  BY <1>1, PromiseTheorem, ReplayTheorem, PTL
=============================================================================
