-------------------------- MODULE ListPowerProofs ---------------------------
(***************************************************************************)
(* What is proved of a list whose machine may lose power (ListStorePower): *)
(* a PUT is atomic, and with a flushing journal policy acknowledged        *)
(* mutations survive wherever the directory entries are as flushed.        *)
(*                                                                         *)
(* And of a list whose directory a shipper writes (BundleShip), for any    *)
(* bundles and any number of mutations, folds, shipments and restarts: the *)
(* served list answers from its own index, a reload serves the bundle that *)
(* was shipped, and no acknowledged mutation of a shipped list is lost.    *)
(* The argument rests on two facts about who may touch the directory.      *)
(* While something is owed the shipper is done, so only the store writes   *)
(* (OwedInv); while a reload reads, the store does not write, so what it   *)
(* read of a complete shipment is still there unless another shipment has  *)
(* begun, which `after' shows (SinceInv, WholeInv).                        *)
(***************************************************************************)
EXTENDS ListStorePower, BundleShip, ListStoreProofs

-----------------------------------------------------------------------------
(* The file system's side.                                                 *)

Journals == {j \in [recs : Seq(Recs) \cup {None}, torn : BOOLEAN] : j.recs = None => ~j.torn}

\* What is visible is among what may come back, and a missing journal can
\* only come back under an earlier entry.
FsInv ==
    /\ DOMAIN names = Files
    /\ names.marker \in SUBSET BOOLEAN /\ disk.marker \in names.marker
    /\ names.config \in SUBSET (Cfgs \cup {None}) /\ disk.config \in names.config
    /\ names.base \in SUBSET OptContents /\ disk.base \in names.base
    /\ names.idx \in SUBSET ([base : OptContents, cfg : Cfgs] \cup {None}) /\ disk.idx \in names.idx
    /\ jold \in SUBSET Journals /\ jcur \in SUBSET Journals /\ Journal(disk) \in jcur
    /\ disk.journal = None => jcur = {Journal(disk)}

-----------------------------------------------------------------------------
(* A PUT.                                                                  *)

Marked == {"wipebase", "wipeidx", "wipejournal", "config", "configdir", "unmark"}
Complete == {"unmark", "unmarkdir", "install"}

\* The marker is durable before the wipe begins, the new list before the
\* marker goes.
MarkInv ==
    op.kind = "create" =>
        /\ op.at \in {"markdir"} \cup Marked => disk.marker
        /\ op.at \in Marked => names.marker = {TRUE}
        /\ op.at \in {"wipejournal", "config", "configdir"} \cup Complete => disk.idx = None
        /\ op.at \in Complete =>
             /\ names.config = {op.cfg} /\ names.base = {None} /\ names.idx = {None}
             /\ jold = {} /\ jcur = {[recs |-> None, torn |-> FALSE]}

NewList(d) == \E c \in Cfgs : d = Directory(FALSE, c, None, None, [recs |-> None, torn |-> FALSE])

CoverInv == up /\ Putting => \A d \in Recoverable : d \in before \/ NewList(d)

PutInv == FsInv /\ MarkInv /\ CoverInv

-----------------------------------------------------------------------------
(* What is acknowledged.                                                   *)

Replay(j) == IF j.recs = None THEN <<>> ELSE j.recs

\* Every journal that may come back can be built.
BuildInv == \A j \in jold \cup jcur : Buildable(ApplyRecs(NoEntries, Replay(j)))

\* Unless a durable marker hides it, the configuration is durable.
ConfigInv == FALSE \in names.marker => names.config = {disk.config}

\* Every entry of m has a value that the promises in p allow.
Within(m, p) == \A i \in IDs : m[i] \in p[i]

\* Nothing else comes back: neither from a possible base and journal ...
ReplaysInv ==
    FALSE \in names.marker =>
        \A b \in names.base, j \in jcur : Within(ApplyRecs(Segment(b), Replay(j)), may)

DiskInv == BuildInv /\ ConfigInv /\ ReplaysInv

\* ... nor after the rollback of an append ...
RollbackInv ==
    op.kind = "append" /\ FALSE \in names.marker =>
        \A b \in names.base : Within(ApplyRecs(Segment(b), mem.jhash), may)

\* ... nor from memory, ...
LiveInv == mem # None => Within(Live(mem), may)

\* ... and each mutation has prepared for what it is about to acknowledge.
MutationInv ==
    /\ op.kind = "append" =>
         /\ op.recs \in Batches
         /\ \A i \in IDs : Written(op.recs, i) \subseteq may[i]
         /\ op.at = "commit" => jcur = {Journal(disk)}
    /\ op.kind \in BaseOps =>
         /\ op.at \in {"syncdir", "truncate", "synctrunc", "install"} => Within(op.base, may)
         /\ op.at \in {"truncate", "synctrunc", "install"} => names.base = {op.base}
         /\ op.at = "install" => \A j \in jcur : Replay(j) = <<>>

MayInv == DiskInv /\ RollbackInv /\ LiveInv /\ MutationInv

-----------------------------------------------------------------------------
(* The file system keeps its side.                                         *)

LEMMA TrackKeeps ==
    ASSUME FsInv, IInv, IInv', Track
    PROVE  FsInv'
<1>1. /\ disk \in Directories /\ disk' \in Directories
      /\ disk.journal = None => ~disk.torn
      /\ disk'.journal = None => ~disk'.torn
  BY DEF IInv, TypeOK, IdleInv
<1>2. /\ names' = [f \in Files |-> IF flush' = "dir" THEN {disk'[f]} ELSE names[f] \cup {disk'[f]}]
      /\ jold' = IF flush' = "dir" THEN {} ELSE IF SameFile THEN jold ELSE jold \cup jcur
      /\ jcur' = IF flush' = "journal" \/ ~SameFile THEN {Journal(disk')}
                 ELSE IF disk'.journal = None THEN jcur
                 ELSE jcur \cup {Journal(disk')} \cup Prefixes(disk, disk')
  BY DEF Track
<1>3. "marker" \in Files /\ "config" \in Files /\ "base" \in Files /\ "idx" \in Files
  BY DEF Files
<1>4. DOMAIN names' = Files
  BY <1>2
<1>5. names'.marker \in SUBSET BOOLEAN /\ disk'.marker \in names'.marker
  BY <1>1, <1>2, <1>3 DEF FsInv, Directories
<1>6. names'.config \in SUBSET (Cfgs \cup {None}) /\ disk'.config \in names'.config
  BY <1>1, <1>2, <1>3 DEF FsInv, Directories
<1>7. names'.base \in SUBSET OptContents /\ disk'.base \in names'.base
  BY <1>1, <1>2, <1>3 DEF FsInv, Directories
<1>8. names'.idx \in SUBSET ([base : OptContents, cfg : Cfgs] \cup {None}) /\ disk'.idx \in names'.idx
  BY <1>1, <1>2, <1>3 DEF FsInv, Directories
<1>9. Journal(disk') \in Journals
  BY <1>1 DEF Journal, Journals, Directories
<1>10. ASSUME disk.journal # None, disk'.journal # None
       PROVE  Prefixes(disk, disk') \subseteq Journals
  <2>1. disk.journal \in Seq(Recs) /\ disk'.journal \in Seq(Recs)
    BY <1>1, <1>10 DEF Directories
  <2>2. ASSUME NEW n \in Len(disk.journal) .. Len(disk'.journal) - 1, NEW t \in BOOLEAN
        PROVE  [recs |-> SubSeq(disk'.journal, 1, n), torn |-> t] \in Journals
    <3>1. SubSeq(disk'.journal, 1, n) \in Seq(Recs)
      BY <2>1
    <3> QED
      BY <3>1, NoneIsNoJournal DEF Journals
  <2> QED
    BY <2>2 DEF Prefixes
<1>11. CASE flush' = "journal" \/ ~SameFile
  <2>1. jcur' = {Journal(disk')}
    BY <1>2, <1>11
  <2>2. jold' \in SUBSET Journals
    BY <1>2 DEF FsInv
  <2> QED
    BY <1>4, <1>5, <1>6, <1>7, <1>8, <1>9, <2>1, <2>2 DEF FsInv
<1>12. CASE flush' # "journal" /\ SameFile /\ disk'.journal = None
  <2>1. jcur' = jcur /\ disk.journal = None
    BY <1>2, <1>12 DEF SameFile
  <2>2. Journal(disk') = Journal(disk)
    BY <1>1, <1>12, <2>1 DEF Journal, Directories
  <2>3. jold' \in SUBSET Journals
    BY <1>2 DEF FsInv
  <2> QED
    BY <1>4, <1>5, <1>6, <1>7, <1>8, <2>1, <2>2, <2>3 DEF FsInv
<1>13. CASE flush' # "journal" /\ SameFile /\ disk'.journal # None
  <2>1. jcur' = jcur \cup {Journal(disk')} \cup Prefixes(disk, disk') /\ disk.journal # None
    BY <1>2, <1>13 DEF SameFile
  <2>2. jcur' \in SUBSET Journals /\ Journal(disk') \in jcur'
    BY <1>9, <1>10, <1>13, <2>1 DEF FsInv
  <2>3. jold' \in SUBSET Journals
    BY <1>2 DEF FsInv
  <2> QED
    BY <1>4, <1>5, <1>6, <1>7, <1>8, <1>13, <2>2, <2>3 DEF FsInv
<1> QED
  BY <1>11, <1>12, <1>13

\* What a step without a flush leaves alone.
LEMMA KeptNames ==
    ASSUME FsInv, Track, flush' # "dir"
    PROVE  /\ names'.marker = names.marker \cup {disk'.marker}
           /\ names'.config = names.config \cup {disk'.config}
           /\ names'.base = names.base \cup {disk'.base}
           /\ names'.idx = names.idx \cup {disk'.idx}
           /\ disk'.marker = disk.marker => names'.marker = names.marker
           /\ disk'.config = disk.config => names'.config = names.config
           /\ disk'.base = disk.base => names'.base = names.base
           /\ disk'.idx = disk.idx => names'.idx = names.idx
  BY DEF Track, FsInv, Files

LEMMA FlushedNames ==
    ASSUME Track, flush' = "dir"
    PROVE  /\ names'.marker = {disk'.marker} /\ names'.config = {disk'.config}
           /\ names'.base = {disk'.base} /\ names'.idx = {disk'.idx} /\ jold' = {}
  BY DEF Track, Files

\* ... and of the journal.
LEMMA KeptJournal ==
    ASSUME FsInv, IInv, Track, flush' # "journal", disk'.journal = disk.journal, disk'.torn = disk.torn
    PROVE  jcur' = jcur /\ (flush' # "dir" => jold' = jold)
<1>1. SameFile /\ Journal(disk') = Journal(disk)
  BY DEF SameFile, Journal
<1>2. flush' # "dir" => jold' = jold
  BY <1>1 DEF Track
<1>3. CASE disk.journal = None
  BY <1>1, <1>2, <1>3 DEF Track
<1>4. CASE disk.journal # None
  <2>1. Len(disk.journal) \in Nat
    BY <1>4 DEF IInv, TypeOK, Directories
  <2>2. Len(disk.journal) .. Len(disk'.journal) - 1 = {}
    BY <2>1
  <2>3. Prefixes(disk, disk') = {}
    BY <2>2 DEF Prefixes
  <2>4. jcur' = jcur \cup {Journal(disk')} \cup Prefixes(disk, disk')
    BY <1>1, <1>4 DEF Track
  <2> QED
    BY <1>1, <1>2, <2>3, <2>4 DEF FsInv
<1> QED
  BY <1>3, <1>4


-----------------------------------------------------------------------------
(* A PUT happened or did not.                                              *)

LEMMA PutInit == PInit => PutInv
<1> SUFFICES ASSUME PInit PROVE PutInv
  OBVIOUS
<1>1. IInv
  BY InitIInv DEF PInit
<1>2. disk \in Directories /\ (disk.journal = None => ~disk.torn)
  BY <1>1 DEF IInv, TypeOK, IdleInv
<1>3. Journal(disk) \in Journals
  BY <1>2 DEF Journal, Journals, Directories
<1>4. /\ names = [f \in Files |-> {disk[f]}] /\ jold = {} /\ jcur = {Journal(disk)}
      /\ op = Idle /\ damage = "none"
  BY DEF PInit, Init
<1>5. FsInv
  BY <1>2, <1>3, <1>4 DEF FsInv, Files, Directories
<1> QED
  BY <1>4, <1>5, IdleType DEF PutInv, MarkInv, CoverInv, Putting

\* A directory that may come back is put together from what its names may be.
LEMMA Parts ==
    \A d \in PossibleDisks : \E m \in names.marker, c \in names.config, b \in names.base, x \in names.idx,
                                 j \in jold \cup jcur : d = Directory(m, c, b, x, j)
  BY DEF PossibleDisks

LEMMA PartsNext ==
    \A d \in PossibleDisks' : \E m \in names'.marker, c \in names'.config, b \in names'.base, x \in names'.idx,
                                  j \in jold' \cup jcur' : d = Directory(m, c, b, x, j)
  BY DEF PossibleDisks

\* A marked directory is skipped.
LEMMA MarkedIsSkipped ==
    ASSUME names'.marker = {TRUE}
    PROVE  Recoverable' = {}
<1> SUFFICES ASSUME NEW d \in Recoverable' PROVE FALSE
  OBVIOUS
<1>1. d \in PossibleDisks' /\ ~d.marker
  BY DEF Recoverable, Openable
<1>2. PICK m \in names'.marker, c \in names'.config, b \in names'.base, x \in names'.idx, j \in jold' \cup jcur' :
        d = Directory(m, c, b, x, j)
  BY <1>1, PartsNext
<1> QED
  BY <1>1, <1>2 DEF Directory

\* The directories of a complete new list.
LEMMA CompleteIsNew ==
    ASSUME FsInv', NEW c \in Cfgs, names'.config = {c}, names'.base = {None}, names'.idx = {None},
           jold' = {}, jcur' = {[recs |-> None, torn |-> FALSE]}
    PROVE  \A d \in Recoverable' : NewList(d)
<1> SUFFICES ASSUME NEW d \in Recoverable' PROVE NewList(d)
  OBVIOUS
<1>1. d \in PossibleDisks' /\ ~d.marker
  BY DEF Recoverable, Openable
<1>2. PICK m \in names'.marker, e \in names'.config, b \in names'.base, x \in names'.idx, j \in jold' \cup jcur' :
        d = Directory(m, e, b, x, j)
  BY <1>1, PartsNext
<1>3. e = c /\ b = None /\ x = None /\ j = [recs |-> None, torn |-> FALSE]
  OBVIOUS
<1>4. d = Directory(m, c, None, None, [recs |-> None, torn |-> FALSE])
  BY <1>2, <1>3
<1>5. m = FALSE
  <2>1. m \in BOOLEAN
    BY <1>2 DEF FsInv
  <2>2. d.marker = m
    BY <1>2 DEF Directory
  <2> QED
    BY <1>1, <2>1, <2>2
<1> QED
  BY <1>4, <1>5 DEF NewList

\* A step that leaves the directory and its entries alone, marker aside.
LEMMA SameDisks ==
    ASSUME FsInv, IInv, Track, flush' = "nothing", disk'.config = disk.config, disk'.base = disk.base,
           disk'.idx = disk.idx, disk'.journal = disk.journal, disk'.torn = disk.torn,
           disk'.marker = disk.marker \/ disk'.marker = TRUE
    PROVE  Recoverable' \subseteq Recoverable
<1>1. names'.config = names.config /\ names'.base = names.base /\ names'.idx = names.idx
  BY KeptNames
<1>2. jcur' = jcur /\ jold' = jold
  BY KeptJournal
<1>3. names'.marker \subseteq names.marker \cup {TRUE}
  BY KeptNames
<1> SUFFICES ASSUME NEW d \in Recoverable' PROVE d \in Recoverable
  OBVIOUS
<1>4. d \in PossibleDisks' /\ Openable(d)
  BY DEF Recoverable
<1>5. PICK m \in names'.marker, c \in names.config, b \in names.base, x \in names.idx, j \in jold \cup jcur :
        d = Directory(m, c, b, x, j)
  BY <1>1, <1>2, <1>4 DEF PossibleDisks
<1>6. m # TRUE
  BY <1>4, <1>5 DEF Openable, Directory
<1>7. m \in names.marker
  BY <1>3, <1>6
<1> QED
  BY <1>4, <1>5, <1>7 DEF Recoverable, PossibleDisks

\* A PUT that goes on remembers what was possible before it.
LEMMA PutGoesOn ==
    ASSUME CoverInv, up, Remember, Putting', Recoverable' \subseteq Recoverable
    PROVE  CoverInv'
  BY DEF CoverInv, Remember, NewList


\* The steps of a PUT.
LEMMA CreateCovers ==
    ASSUME IInv, IInv', PutInv, CreateStep, Track, Remember
    PROVE  PutInv'
<1>1. FsInv /\ MarkInv /\ CoverInv /\ CreateInv /\ disk \in Directories /\ disk' \in Directories /\ op \in Ops
  BY DEF PutInv, IInv, TypeOK
<1>2. FsInv'
  BY <1>1, TrackKeeps
<1>3. CASE \E c \in Creates : BeginCreate(c)
  <2>1. PICK c \in Creates : BeginCreate(c)
    BY <1>3
  <2>2. up /\ op.kind = "idle" /\ disk' = disk /\ flush' = "nothing" /\ damage' = damage /\ up' = up
    BY <2>1 DEF BeginCreate, At, Quiet
  <2>3. op'.kind = "create" /\ op'.at = "mark"
    BY <2>1 DEF BeginCreate, Idle
  <2>4. MarkInv'
    BY <2>3 DEF MarkInv, Marked, Complete
  <2>5. Recoverable' \subseteq Recoverable
    BY <1>1, <2>2, SameDisks
  <2>6. CoverInv'
    BY <1>1, <2>2, <2>3, <2>5, PutGoesOn DEF Putting
  <2> QED
    BY <1>2, <2>4, <2>6 DEF PutInv
<1>4. CASE CreateMark
  <2>1. up /\ op.kind = "create" /\ op.at = "mark" /\ flush' = "nothing" /\ damage' = damage /\ up' = up
        /\ disk' = [disk EXCEPT !.marker = TRUE] /\ op' = [op EXCEPT !.at = "markdir"]
    BY <1>4 DEF CreateMark, CreateCall, At, Goto
  <2>2. op'.kind = "create" /\ op'.at = "markdir"
    BY <1>1, <2>1 DEF Ops
  <2>3. /\ disk'.marker = TRUE /\ disk'.config = disk.config /\ disk'.base = disk.base
        /\ disk'.idx = disk.idx /\ disk'.journal = disk.journal /\ disk'.torn = disk.torn
    BY <1>1, <2>1 DEF Directories
  <2>4. MarkInv'
    BY <2>2, <2>3 DEF MarkInv, Marked, Complete
  <2>5. Recoverable' \subseteq Recoverable
    BY <1>1, <2>1, <2>3, SameDisks
  <2>6. CoverInv'
    BY <1>1, <2>1, <2>2, <2>5, PutGoesOn DEF Putting
  <2> QED
    BY <1>2, <2>4, <2>6 DEF PutInv
<1>5. CASE CreateMarkDir
  <2>1. op.kind = "create" /\ op.at = "markdir" /\ flush' = "dir" /\ disk' = disk /\ op' = [op EXCEPT !.at = "wipebase"]
    BY <1>5 DEF CreateMarkDir, CreateSync, At, Goto
  <2>2. op'.kind = "create" /\ op'.at = "wipebase"
    BY <1>1, <2>1 DEF Ops
  <2>3. disk'.marker = TRUE /\ names'.marker = {TRUE}
    BY <1>1, <2>1, FlushedNames DEF MarkInv, Directories
  <2>4. MarkInv'
    BY <2>2, <2>3 DEF MarkInv, Marked, Complete
  <2>5. Recoverable' = {}
    BY <2>3, MarkedIsSkipped
  <2> QED
    BY <1>2, <2>4, <2>5 DEF PutInv, CoverInv
\* The wipe and the new configuration, behind the marker.
<1>6. ASSUME NEW from, NEW to, NEW d, CreateCall(from, to, d), from \in Marked, to \in Marked \ {"unmark"},
             d.marker = disk.marker, to \in {"wipejournal", "config", "configdir"} => d.idx = None
      PROVE  PutInv'
  <2>1. /\ op.kind = "create" /\ op.at = from /\ flush' = "nothing" /\ disk' = d
        /\ op' = [op EXCEPT !.at = to]
    BY <1>6 DEF CreateCall, At, Goto
  <2>2. op'.kind = "create" /\ op'.at = to
    BY <1>1, <2>1 DEF Ops
  <2>3. disk'.marker /\ names'.marker = {TRUE}
    BY <1>1, <1>6, <2>1, KeptNames DEF MarkInv
  <2>4. MarkInv'
    BY <1>6, <2>1, <2>2, <2>3 DEF MarkInv, Marked, Complete
  <2>5. Recoverable' = {}
    BY <2>3, MarkedIsSkipped
  <2> QED
    BY <1>2, <2>4, <2>5 DEF PutInv, CoverInv
<1>7. CASE CreateWipeBase
  BY <1>1, <1>6, <1>7 DEF CreateWipeBase, Marked, Directories
<1>8. CASE CreateWipeIdx
  BY <1>1, <1>6, <1>8 DEF CreateWipeIdx, Marked, Directories
<1>9. CASE CreateWipeJournal
  <2>1. op.kind = "create" /\ op.at = "wipejournal"
    BY <1>9 DEF CreateWipeJournal, CreateCall, At
  <2>2. disk.idx = None
    BY <1>1, <2>1 DEF MarkInv
  <2> QED
    BY <1>1, <1>6, <1>9, <2>2 DEF CreateWipeJournal, Marked, Directories
<1>10. CASE CreateConfig
  <2>1. op.kind = "create" /\ op.at = "config"
    BY <1>10 DEF CreateConfig, CreateCall, At
  <2>2. disk.idx = None
    BY <1>1, <2>1 DEF MarkInv
  <2> QED
    BY <1>1, <1>6, <1>10, <2>2 DEF CreateConfig, Marked, Directories
<1>11. CASE CreateConfigDir
  <2>1. op.kind = "create" /\ op.at = "configdir" /\ flush' = "dir" /\ disk' = disk /\ op' = [op EXCEPT !.at = "unmark"]
    BY <1>11 DEF CreateConfigDir, CreateSync, At, Goto
  <2>2. op'.kind = "create" /\ op'.at = "unmark" /\ op'.cfg = op.cfg
    BY <1>1, <2>1 DEF Ops
  <2>3. disk.marker /\ disk.idx = None /\ disk.base = None /\ disk.journal = None /\ disk.config = op.cfg
    BY <1>1, <2>1 DEF MarkInv, CreateInv, Marked
  <2>4. /\ names'.marker = {disk.marker} /\ names'.config = {op.cfg} /\ names'.base = {None}
        /\ names'.idx = {None} /\ jold' = {}
    BY <2>1, <2>3, FlushedNames
  <2>5. disk.marker = TRUE
    BY <1>1, <2>3 DEF Directories
  <2>6. jcur' = {Journal(disk)} /\ disk.torn = FALSE
    BY <1>1, <1>2, <2>1, <2>3 DEF FsInv, IInv, IdleInv, Directories
  <2>7. jcur' = {[recs |-> None, torn |-> FALSE]}
    BY <2>3, <2>6 DEF Journal
  <2>8. MarkInv'
    BY <2>1, <2>2, <2>3, <2>4, <2>5, <2>7 DEF MarkInv, Marked, Complete
  <2>9. Recoverable' = {}
    BY <2>4, <2>5, MarkedIsSkipped
  <2> QED
    BY <1>2, <2>8, <2>9 DEF PutInv, CoverInv
\* The complete list is uncovered.
<1>12. ASSUME op.kind = "create", op.at \in Complete, flush' \in {"nothing", "dir"},
              disk' = [disk EXCEPT !.marker = FALSE], NEW to \in {"unmarkdir", "install"},
              op' = [op EXCEPT !.at = to]
       PROVE  PutInv'
  <2>1. op'.kind = "create" /\ op'.at = to /\ op'.cfg = op.cfg /\ op.cfg \in Cfgs
    BY <1>1, <1>12 DEF Ops, CreateInv
  <2>2. /\ disk'.config = disk.config /\ disk'.base = disk.base /\ disk'.idx = disk.idx
        /\ disk'.journal = disk.journal /\ disk'.torn = disk.torn
    BY <1>1, <1>12 DEF Directories
  <2>3. /\ names.config = {op.cfg} /\ names.base = {None} /\ names.idx = {None} /\ jold = {}
        /\ jcur = {[recs |-> None, torn |-> FALSE]}
    BY <1>1, <1>12 DEF MarkInv
  <2>4. disk.config = op.cfg /\ disk.base = None /\ disk.idx = None
    BY <1>1, <2>3 DEF FsInv
  <2>5. jcur' = jcur /\ jold' = jold
    BY <1>1, <1>12, <2>2, <2>3, KeptJournal, FlushedNames
  <2>6. names'.config = {op.cfg} /\ names'.base = {None} /\ names'.idx = {None}
    BY <1>1, <1>12, <2>2, <2>3, <2>4, KeptNames, FlushedNames
  <2>7. MarkInv'
    BY <2>1, <2>2, <2>3, <2>4, <2>5, <2>6 DEF MarkInv, Marked, Complete
  <2>8. \A d \in Recoverable' : NewList(d)
    BY <1>2, <2>1, <2>3, <2>5, <2>6, CompleteIsNew
  <2> QED
    BY <1>2, <2>7, <2>8 DEF PutInv, CoverInv
<1>13. CASE CreateUnmark
  BY <1>12, <1>13 DEF CreateUnmark, CreateCall, At, Goto, Complete
<1>14. CASE CreateUnmarkDir
  <2>1. op.kind = "create" /\ op.at = "unmarkdir" /\ flush' = "dir" /\ disk' = disk /\ op' = [op EXCEPT !.at = "install"]
    BY <1>14 DEF CreateUnmarkDir, CreateSync, At, Goto
  <2>2. disk.marker = FALSE
    BY <1>1, <2>1 DEF CreateInv, Directories
  <2>3. disk' = [disk EXCEPT !.marker = FALSE]
    BY <1>1, <2>1, <2>2 DEF Directories
  <2> QED
    BY <1>12, <2>1, <2>3 DEF Complete
<1>15. CASE CreateInstall
  <2>1. op' = Idle /\ damage' = "none"
    BY <1>15 DEF CreateInstall
  <2> QED
    BY <1>2, <2>1, IdleType DEF PutInv, MarkInv, CoverInv, Putting
<1>16. CASE CreateFails
  <2>1. up /\ op' = Idle /\ flush' = "nothing" /\ disk' = disk
    BY <1>16 DEF CreateFails, At
  <2>2. Recoverable' \subseteq Recoverable
    BY <1>1, <2>1, SameDisks
  <2>3. CoverInv'
    BY <1>1, <2>1, <2>2, PutGoesOn DEF CoverInv
  <2> QED
    BY <1>2, <2>1, <2>3, IdleType DEF PutInv, MarkInv
<1> QED
  BY <1>3, <1>4, <1>5, <1>7, <1>8, <1>9, <1>10, <1>11, <1>13, <1>14, <1>15, <1>16 DEF CreateStep

\* No other step is part of a PUT.
LEMMA OthersCover ==
    ASSUME IInv, IInv', PutInv, AppendStep \/ BaseStep \/ ProcessStep, Track
    PROVE  PutInv'
<1>1. FsInv'
  BY TrackKeeps DEF PutInv
<1>2. op'.kind # "create" /\ ~(up' /\ damage' = "create")
  <2>1. CASE AppendStep
    BY <2>1, IdleType DEF AppendStep, BeginAppend, AppendWrite, AppendWriteFails, AppendSync, AppendSyncFails,
           AppendRollback, AppendRollbackFails, AppendCommit, At, Goto, Quiet, Idle, IInv, AppendInv, TypeOK, Ops
  <2>2. CASE BaseStep
    BY <2>2, IdleType, ZenonT(60) DEF BaseStep, BeginCompact, BeginReplace, BeginBase, BaseRemoveIdx, BaseRename, BaseSyncDir,
           BaseTruncate, BaseSyncTruncate, BaseInstall, BaseSaveIdx, BaseFails, At, Goto, Quiet, Idle, BaseOps,
           IInv, BaseInv, TypeOK, Ops
  <2>3. CASE ProcessStep
    BY <2>3, IdleType DEF ProcessStep, Reload, ReloadFails, Crash, Open, OpenSkips, At, Quiet, IInv, IdleInv
  <2> QED
    BY <2>1, <2>2, <2>3
<1> QED
  BY <1>1, <1>2 DEF PutInv, MarkInv, CoverInv, Putting

\* A directory that came back after a power loss is a directory.
LEMMA PowerLossKeeps ==
    ASSUME IInv, FsInv, PowerLoss
    PROVE  IInv' /\ PutInv'
<1>1. PICK d \in PossibleDisks :
        /\ disk' = d /\ names' = [f \in Files |-> {d[f]}] /\ jcur' = {Journal(d)}
  BY DEF PowerLoss
<1>2. /\ jold' = {} /\ up' = FALSE /\ mem' = None /\ damage' = "none" /\ op' = Idle /\ flush' = "nothing"
      /\ acked' = acked /\ limbo' = limbo
  BY DEF PowerLoss
<1>3. PICK m \in names.marker, c \in names.config, b \in names.base, x \in names.idx, j \in jold \cup jcur :
        d = Directory(m, c, b, x, j)
  BY Parts
<1>4. /\ m \in BOOLEAN /\ c \in Cfgs \cup {None} /\ b \in OptContents
      /\ x \in [base : OptContents, cfg : Cfgs] \cup {None}
      /\ j.recs \in Seq(Recs) \cup {None} /\ j.torn \in BOOLEAN /\ (j.recs = None => ~j.torn)
  BY <1>3 DEF FsInv, Journals
<1>5. d \in Directories /\ (d.journal = None => ~d.torn)
  BY <1>3, <1>4 DEF Directory, Directories
<1>6. TypeOK'
  BY <1>1, <1>2, <1>5, IdleType DEF IInv, TypeOK
<1>7. IInv'
  BY <1>1, <1>2, <1>5, <1>6, IdleType DEF IInv, MemInv, IdleInv, Settled, AppendInv, BaseInv, CreateInv, BaseOps
<1>8. Journal(d) \in Journals
  BY <1>5 DEF Journal, Journals, Directories
<1>9. FsInv'
  BY <1>1, <1>2, <1>5, <1>8 DEF FsInv, Files, Directories
<1> QED
  BY <1>2, <1>7, <1>9, IdleType DEF PutInv, MarkInv, CoverInv

LEMMA PutStutters ==
    ASSUME PutInv, UNCHANGED pvars
    PROVE  PutInv'
<1>1. /\ disk' = disk /\ op' = op /\ up' = up /\ damage' = damage /\ names' = names /\ jold' = jold
      /\ jcur' = jcur /\ before' = before
  BY DEF pvars, vars
<1>2. FsInv' /\ MarkInv'
  BY <1>1 DEF PutInv, FsInv, MarkInv, Journal
<1>3. Recoverable' = Recoverable /\ (Putting' <=> Putting)
  BY <1>1 DEF Recoverable, PossibleDisks, Putting
<1> QED
  BY <1>1, <1>2, <1>3 DEF PutInv, CoverInv, NewList

\* Whatever happens, the invariants of the list and of the PUT hold.
LEMMA PutInvariance == PSpec => [](IInv /\ PutInv)
<1>1. PInit => IInv /\ PutInv
  BY PutInit, InitIInv DEF PInit
<1>2. IInv /\ PutInv /\ [PNext]_pvars => IInv' /\ PutInv'
  <2> SUFFICES ASSUME IInv, PutInv, [PNext]_pvars PROVE IInv' /\ PutInv'
    OBVIOUS
  <2>1. CASE Step
    <3>1. Next /\ Track /\ Remember
      BY <2>1 DEF Step
    <3>2. IInv'
      BY <3>1, AppendPreserves, BasePreserves, CreatePreserves, ProcessPreserves DEF Next
    <3> QED
      BY <3>1, <3>2, CreateCovers, OthersCover DEF Next
  <2>2. CASE PowerLoss
    BY <2>2, PowerLossKeeps DEF PutInv
  <2>3. CASE UNCHANGED pvars
    BY <2>3, PutStutters, StutterPreserves DEF pvars
  <2> QED
    BY <2>1, <2>2, <2>3 DEF PNext
<1> QED
  BY <1>1, <1>2, PTL DEF PSpec

\* A PUT is atomic under power loss, for every configuration, every journal
\* policy and any number of failed and repeated PUTs: what comes back is
\* skipped, was possible before, or is the complete new list
\* (CreateListVersioned's marker, wipe, configuration, unmark).
THEOREM PutTheorem == PSpec => []PutIsAtomic
<1>1. PutInv => PutIsAtomic
  BY DEF PutInv, CoverInv, NewList, PutIsAtomic
<1> QED
  BY <1>1, PutInvariance, PTL

-----------------------------------------------------------------------------
(* What is acknowledged comes back.                                        *)

Grows == \A i \in IDs : may[i] \subseteq may'[i]

\* Most steps promise nothing and take nothing back.
LEMMA MayKept ==
    ASSUME Promises, ~(op.kind = "idle" /\ op'.kind = "append"),
           ~(up' /\ op.at \in {"commit", "install"}),
           ~(op.kind = "replace" /\ op'.at = "syncdir"),
           op'.at # "unmarkdir"
    PROVE  Grows
<1> SUFFICES ASSUME NEW i \in IDs PROVE may'[i] = may[i]
  BY DEF Grows
<1> QED
  BY DEF Promises, At

LEMMA WithinGrows ==
    ASSUME Grows, NEW m, Within(m, may)
    PROVE  Within(m, may')
  BY DEF Grows, Within

LEMMA LiveKept ==
    ASSUME LiveInv, Grows, mem' = mem \/ mem' = None
    PROVE  LiveInv'
  BY DEF LiveInv, Grows, Within

\* What a record writes is what its batch has written.
LEMMA ReplayedWritten ==
    ASSUME NEW m \in Contents, NEW r \in Seq(Recs), NEW i \in IDs
    PROVE  /\ ApplyRecs(m, r)[i] \in Written(r, i) \cup {m[i]}
           /\ Touching(r, i) # {} => ApplyRecs(m, r)[i] = ApplyRecs(NoEntries, r)[i]
           /\ Touching(r, i) = {} => ApplyRecs(m, r)[i] = m[i]
<1>1. CASE Touching(r, i) = {}
  BY <1>1 DEF ApplyRecs
<1>2. CASE Touching(r, i) # {}
  <2>1. LastTouch(r, i) \in Touching(r, i)
    BY <1>2, LastTouchIsLast
  <2> QED
    BY <1>2, <2>1 DEF ApplyRecs, Written
<1> QED
  BY <1>1, <1>2

LEMMA ReplayType ==
    /\ \A j \in Journals : Replay(j) \in Seq(Recs)
    /\ \A d : Replay(Journal(d)) = JournalRecs(d)
  BY DEF Journals, Replay, Journal, JournalRecs

\* A step that keeps the records keeps what the journals replay to.
LEMMA SameReplays ==
    ASSUME FsInv, IInv, IInv', Track, JournalRecs(disk') = JournalRecs(disk)
    PROVE  /\ \A j \in jcur' : \E k \in jcur : Replay(k) = Replay(j)
           /\ \A j \in jold' \cup jcur' : \E k \in jold \cup jcur : Replay(k) = Replay(j)
<1>1. disk \in Directories /\ disk' \in Directories /\ Journal(disk) \in jcur
  BY DEF IInv, TypeOK, FsInv
<1>2. Replay(Journal(disk')) = Replay(Journal(disk))
  BY ReplayType
<1>3. ASSUME disk'.journal # None, SameFile PROVE Prefixes(disk, disk') = {}
  <2>1. disk'.journal = disk.journal /\ disk.journal \in Seq(Recs)
    BY <1>1, <1>3 DEF SameFile, JournalRecs, Directories
  <2>2. Len(disk.journal) .. Len(disk'.journal) - 1 = {}
    BY <2>1
  <2> QED
    BY <2>2 DEF Prefixes
<1>4. jcur' \subseteq jcur \cup {Journal(disk')}
  BY <1>3 DEF Track
<1>5. jold' \subseteq jold \cup jcur
  BY DEF Track
<1> QED
  BY <1>1, <1>2, <1>4, <1>5

\* A step that keeps base and configuration leaves no new choice of them.
LEMMA SameNames ==
    ASSUME FsInv, ConfigInv, Track, disk'.config = disk.config, disk'.base = disk.base,
           disk'.marker = disk.marker \/ disk'.marker = TRUE, FALSE \in names'.marker
    PROVE  /\ FALSE \in names.marker
           /\ names'.config = {disk'.config}
           /\ names'.base \subseteq names.base
<1>1. CASE flush' = "dir"
  <2>1. names'.marker = {disk'.marker} /\ names'.config = {disk'.config} /\ names'.base = {disk'.base}
    BY <1>1, FlushedNames
  <2> QED
    BY <2>1 DEF FsInv
<1>2. CASE flush' # "dir"
  BY <1>2, KeptNames DEF ConfigInv
<1> QED
  BY <1>1, <1>2

\* Such a step, promising no less, adds nothing to what may come back.
LEMMA Undisturbed ==
    ASSUME FsInv, IInv, IInv', DiskInv, Track, Grows, disk'.config = disk.config, disk'.base = disk.base,
           disk'.marker = disk.marker \/ disk'.marker = TRUE, JournalRecs(disk') = JournalRecs(disk)
    PROVE  DiskInv' /\ names'.base \subseteq names.base
<1>1. BuildInv'
  BY SameReplays DEF DiskInv, BuildInv
<1>2. ConfigInv'
  BY SameNames DEF DiskInv, ConfigInv
<1>3. ASSUME FALSE \in names'.marker, NEW b \in names'.base, NEW j \in jcur'
      PROVE  Within(ApplyRecs(Segment(b), Replay(j)), may')
  <2>1. FALSE \in names.marker /\ b \in names.base
    BY <1>3, SameNames DEF DiskInv
  <2>2. PICK k \in jcur : Replay(k) = Replay(j)
    BY SameReplays
  <2>3. Within(ApplyRecs(Segment(b), Replay(k)), may)
    BY <2>1 DEF DiskInv, ReplaysInv
  <2> QED
    BY <2>2, <2>3, WithinGrows
<1>4. names'.base \subseteq names.base
  BY KeptNames, FlushedNames DEF FsInv
<1> QED
  BY <1>1, <1>2, <1>3, <1>4 DEF DiskInv, ReplaysInv

-----------------------------------------------------------------------------
(* Upsert and Delete.                                                      *)

\* The journal of an append, cut anywhere in its batch.
Grown(n) == mem.jhash \o SubSeq(op.recs, 1, n)

\* What an append in flight is made of.
LEMMA AppendParts ==
    ASSUME IInv, op.kind = "append"
    PROVE  /\ mem.jhash \in Seq(Recs) /\ op.recs \in Seq(Recs) /\ Len(op.recs) \in Nat
           /\ mem.over = ApplyRecs(NoEntries, mem.jhash) /\ Buildable(mem.over)
           /\ Buildable(ApplyRecs(mem.over, op.recs)) /\ mem.over \in Contents
           /\ Live(mem) = ApplyRecs(Segment(mem.baseID), mem.jhash) /\ mem.baseID \in OptContents
           /\ mem = ListOf(mem.cfg, mem.baseID, mem.jhash)
<1>1. mem \in Lists /\ op \in Ops /\ mem # None /\ Buildable(ApplyRecs(mem.over, op.recs))
  BY DEF IInv, TypeOK, AppendInv
<1>2. mem = ListOf(mem.cfg, mem.baseID, mem.jhash) /\ Buildable(mem.over)
  BY <1>1 DEF IInv, MemInv
<1>3. /\ mem.jhash \in Seq(Recs) /\ mem.baseID \in OptContents /\ op.recs \in Seq(Recs) /\ Len(op.recs) \in Nat
      /\ mem.over \in Contents
  BY <1>1 DEF Lists, Ops
<1>4. PICK c, id, j : c = mem.cfg /\ id = mem.baseID /\ j = mem.jhash
  OBVIOUS
<1>5. mem = ListOf(c, id, j)
  BY <1>2, <1>4
<1>6. mem.over = ApplyRecs(NoEntries, mem.jhash)
  BY <1>4, <1>5 DEF ListOf
<1>7. Live(mem) = ApplyRecs(Segment(mem.baseID), mem.jhash)
  BY <1>3, <1>4, <1>5, LiveOfList
<1> QED
  BY <1>1, <1>2, <1>3, <1>6, <1>7

\* It can be built, and replays to what was promised or written since.
LEMMA GrownReplay ==
    ASSUME PrefixesBuild, IInv, FsInv, MayInv, op.kind = "append", NEW n \in 0 .. Len(op.recs)
    PROVE  /\ Buildable(ApplyRecs(NoEntries, Grown(n)))
           /\ FALSE \in names.marker => \A b \in names.base : Within(ApplyRecs(Segment(b), Grown(n)), may)
<1>1. PICK J, p, r : J = mem.jhash /\ p = SubSeq(op.recs, 1, n) /\ r = op.recs
  OBVIOUS
<1>2. J \in Seq(Recs) /\ r \in Seq(Recs) /\ r \in Batches
  BY <1>1, AppendParts DEF MayInv, MutationInv
<1>3. p \in Seq(Recs) /\ Len(p) = n /\ \A k \in 1 .. n : p[k] = r[k]
  BY <1>1, <1>2
<1>4. Buildable(ApplyRecs(NoEntries, J \o p))
  <2>1. Buildable(ApplyRecs(mem.over, p))
    BY <1>1, <1>2, AppendParts DEF PrefixesBuild
  <2>2. mem.over = ApplyRecs(NoEntries, J)
    BY <1>1, AppendParts
  <2>3. ApplyRecs(ApplyRecs(NoEntries, J), p) = ApplyRecs(NoEntries, J \o p)
    BY <1>2, <1>3, ApplyConcat, NoEntriesBuildable
  <2> QED
    BY <2>1, <2>2, <2>3
<1>5. ASSUME FALSE \in names.marker, NEW b \in names.base PROVE Within(ApplyRecs(Segment(b), J \o p), may)
  <2>1. PICK m \in Contents : m = ApplyRecs(Segment(b), J)
    BY <1>2, ApplyType, SegmentType DEF FsInv
  <2>2. Within(m, may)
    BY <1>1, <1>5, <2>1 DEF MayInv, RollbackInv
  <2>3. ApplyRecs(Segment(b), J \o p) = ApplyRecs(m, p)
    BY <1>2, <1>3, <2>1, ApplyConcat, SegmentType DEF FsInv
  <2>4. ASSUME NEW i \in IDs PROVE Written(p, i) \subseteq may[i]
    <3>1. Written(p, i) \subseteq Written(r, i)
      <4>1. DOMAIN p = 1 .. n /\ DOMAIN r = 1 .. Len(r) /\ n <= Len(r) /\ Len(r) \in Nat
        BY <1>1, <1>2, <1>3
      <4>2. \A k \in Touching(p, i) : k \in Touching(r, i) /\ p[k] = r[k]
        BY <1>3, <4>1 DEF Touching
      <4> QED
        BY <4>2 DEF Written
    <3> QED
      BY <1>1, <3>1 DEF MayInv, MutationInv
  <2>5. ASSUME NEW i \in IDs PROVE ApplyRecs(m, p)[i] \in may[i]
    <3>1. ApplyRecs(m, p)[i] \in Written(p, i) \cup {m[i]}
      BY <1>3, ReplayedWritten
    <3> QED
      BY <2>2, <2>4, <3>1 DEF Within
  <2> QED
    BY <2>3, <2>5 DEF Within
<1> QED
  BY <1>1, <1>4, <1>5 DEF Grown

\* A journal that only gained records of the batch.
LEMMA GrownDisk ==
    ASSUME PrefixesBuild, IInv, FsInv, MayInv, op.kind = "append", Grows, flush' = "nothing",
           disk'.config = disk.config, disk'.base = disk.base, disk'.marker = disk.marker,
           \A j \in jcur' : j \in jcur \/ \E n \in 0 .. Len(op.recs) : Replay(j) = Grown(n),
           jold' = jold, Track
    PROVE  DiskInv' /\ names'.base = names.base /\ names'.marker = names.marker
<1>1. names'.base = names.base /\ names'.marker = names.marker /\ names'.config = names.config
  BY KeptNames
<1>2. BuildInv'
  BY GrownReplay DEF MayInv, DiskInv, BuildInv
<1>3. ConfigInv'
  BY <1>1 DEF MayInv, DiskInv, ConfigInv
<1>4. ASSUME FALSE \in names'.marker, NEW b \in names'.base, NEW j \in jcur'
      PROVE  Within(ApplyRecs(Segment(b), Replay(j)), may')
  <2>1. CASE j \in jcur
    BY <1>1, <1>4, <2>1, WithinGrows DEF MayInv, DiskInv, ReplaysInv
  <2>2. CASE \E n \in 0 .. Len(op.recs) : Replay(j) = Grown(n)
    BY <1>1, <1>4, <2>2, GrownReplay, WithinGrows
  <2> QED
    BY <2>1, <2>2
<1> QED
  BY <1>1, <1>2, <1>3, <1>4 DEF DiskInv, ReplaysInv

\* What may survive of a journal that grew.
LEMMA PrefixParts ==
    ASSUME NEW d, NEW e, NEW j \in Prefixes(d, e)
    PROVE  \E m \in Len(d.journal) .. Len(e.journal) - 1 : \E t \in BOOLEAN :
             j = [recs |-> SubSeq(e.journal, 1, m), torn |-> t]
  BY DEF Prefixes

\* A prefix that ends in the batch is the journal with a prefix of the batch.
LEMMA PrefixOfGrown ==
    ASSUME NEW J \in Seq(Recs), NEW r \in Seq(Recs), NEW n \in 0 .. Len(r),
           NEW m \in Len(J) .. Len(J \o SubSeq(r, 1, n)) - 1
    PROVE  \E k \in 0 .. Len(r) : /\ SubSeq(J \o SubSeq(r, 1, n), 1, m) = J \o SubSeq(r, 1, k)
                                  /\ J \o SubSeq(r, 1, k) \in Seq(Recs)
<1>1. PICK s : s = SubSeq(r, 1, n)
  OBVIOUS
<1>2. Len(J) \in Nat /\ Len(r) \in Nat /\ n \in Nat /\ n <= Len(r)
  OBVIOUS
<1>3. s \in Seq(Recs) /\ Len(s) = n /\ \A k \in 1 .. n : s[k] = r[k]
  BY <1>1, <1>2
<1>4. /\ J \o s \in Seq(Recs) /\ Len(J \o s) = Len(J) + n
      /\ \A k \in 1 .. Len(J) + n : (J \o s)[k] = IF k <= Len(J) THEN J[k] ELSE s[k - Len(J)]
  BY <1>2, <1>3, SMTT(30)
<1>5. PICK k \in 0 .. Len(r) : m = Len(J) + k /\ k < n
  <2>1. m - Len(J) \in 0 .. Len(r) /\ m = Len(J) + (m - Len(J)) /\ m - Len(J) < n
    BY <1>1, <1>2, <1>4
  <2> QED
    BY <2>1
<1>6. PICK q : q = SubSeq(r, 1, k)
  OBVIOUS
<1>7. q \in Seq(Recs) /\ Len(q) = k /\ \A x \in 1 .. k : q[x] = r[x]
  BY <1>2, <1>5, <1>6
<1>8. /\ J \o q \in Seq(Recs) /\ Len(J \o q) = Len(J) + k
      /\ \A x \in 1 .. Len(J) + k : (J \o q)[x] = IF x <= Len(J) THEN J[x] ELSE q[x - Len(J)]
  BY <1>2, <1>7
<1>9. PICK u : u = SubSeq(J \o s, 1, m)
  OBVIOUS
<1>10. u \in Seq(Recs) /\ Len(u) = m /\ \A x \in 1 .. m : u[x] = (J \o s)[x]
  BY <1>2, <1>4, <1>5, <1>9
<1>11. ASSUME NEW x \in 1 .. m PROVE u[x] = (J \o q)[x]
  <2>1. CASE x <= Len(J)
    BY <1>2, <1>4, <1>5, <1>8, <1>10, <2>1
  <2>2. CASE ~(x <= Len(J))
    <3>1. x - Len(J) \in 1 .. k /\ x - Len(J) \in 1 .. n /\ x \in 1 .. Len(J) + k /\ x \in 1 .. Len(J) + n
      BY <1>2, <1>5, <2>2
    <3> QED
      BY <1>3, <1>4, <1>7, <1>8, <1>10, <2>2, <3>1
  <2> QED
    BY <2>1, <2>2
<1>12. u = J \o q
  BY <1>5, <1>8, <1>10, <1>11, SeqEqual
<1> QED
  BY <1>1, <1>6, <1>8, <1>9, <1>12

\* The journal that a write leaves, whole or cut short.
LEMMA WriteGrows ==
    ASSUME IInv, IInv', FsInv, op.kind = "append", op.at = "write", flush' = "nothing", Track,
           NEW n \in 0 .. Len(op.recs), disk'.journal = disk.journal \o SubSeq(op.recs, 1, n)
    PROVE  /\ \A j \in jcur' : j \in jcur \/ \E k \in 0 .. Len(op.recs) : Replay(j) = Grown(k)
           /\ jold' = jold
<1>1. PICK J, r : J = mem.jhash /\ r = op.recs
  OBVIOUS
<1>2. disk.journal = J /\ disk.journal # None
  BY <1>1 DEF IInv, AppendInv
<1>3. J \in Seq(Recs) /\ r \in Seq(Recs) /\ n \in 0 .. Len(r)
  BY <1>1, AppendParts
<1>4. disk'.journal = J \o SubSeq(r, 1, n) /\ disk'.journal # None
  <2>1. disk'.journal = J \o SubSeq(r, 1, n)
    BY <1>1, <1>2
  <2>2. SubSeq(r, 1, n) \in Seq(Recs)
    BY <1>3
  <2>3. J \o SubSeq(r, 1, n) \in Seq(Recs)
    BY <1>3, <2>2, ConcatProperties
  <2> QED
    BY <2>1, <2>3, NoneIsNoJournal
<1>5. jold' = jold /\ jcur' = jcur \cup {Journal(disk')} \cup Prefixes(disk, disk')
  BY <1>2, <1>4 DEF Track, SameFile
<1>6. Replay(Journal(disk')) = Grown(n)
  BY <1>1, <1>4 DEF Replay, Journal, Grown
<1>7. ASSUME NEW j \in Prefixes(disk, disk') PROVE \E k \in 0 .. Len(op.recs) : Replay(j) = Grown(k)
  <2>0. PICK d, e : d = disk /\ e = disk'
    OBVIOUS
  <2>1. PICK m \in Len(d.journal) .. Len(e.journal) - 1 : \E t \in BOOLEAN :
          j = [recs |-> SubSeq(e.journal, 1, m), torn |-> t]
    <3>1. j \in Prefixes(d, e)
      BY <2>0
    <3> QED
      BY <3>1, PrefixParts
  <2>2. e.journal = J \o SubSeq(r, 1, n) /\ m \in Len(J) .. Len(J \o SubSeq(r, 1, n)) - 1
    BY <1>2, <1>4, <2>0, <2>1
  <2>3. PICK k \in 0 .. Len(r) : /\ SubSeq(J \o SubSeq(r, 1, n), 1, m) = J \o SubSeq(r, 1, k)
                                 /\ J \o SubSeq(r, 1, k) \in Seq(Recs)
    BY <1>3, <2>2, PrefixOfGrown, ZenonT(60)
  <2>4. j.recs = J \o SubSeq(r, 1, k)
    <3>1. j.recs = SubSeq(e.journal, 1, m)
      BY <2>1
    <3> QED
      BY <2>2, <2>3, <3>1
  <2>5. Replay(j) = J \o SubSeq(r, 1, k)
    BY <2>3, <2>4, NoneIsNoJournal DEF Replay
  <2> QED
    BY <1>1, <2>5 DEF Grown
<1> QED
  BY <1>5, <1>6, <1>7

\* Between the steps of an append its promises and its base stay.
LEMMA AppendGoesOn ==
    ASSUME MayInv, op.kind = "append", op' = [op EXCEPT !.at = op'.at], op \in Ops, Grows, mem' = mem,
           names'.base \subseteq names.base, names'.marker \subseteq names.marker,
           op'.at = "commit" => jcur' = {Journal(disk')}
    PROVE  RollbackInv' /\ LiveInv' /\ MutationInv'
<1>1. op'.kind = "append" /\ op'.recs = op.recs
  BY DEF Ops
<1>2. LiveInv'
  BY LiveKept DEF MayInv
<1>3. RollbackInv'
  BY WithinGrows DEF MayInv, RollbackInv
<1>4. MutationInv'
  BY <1>1 DEF MayInv, MutationInv, Grows, BaseOps
<1> QED
  BY <1>2, <1>3, <1>4

\* An operation that is over has nothing prepared.
LEMMA NothingPrepared == op'.kind \in {"idle", "create"} => RollbackInv' /\ MutationInv'
  BY DEF RollbackInv, MutationInv, BaseOps

\* The steps of an append.
LEMMA AppendMay ==
    ASSUME PrefixesBuild, Fsync # "none", IInv, IInv', FsInv, FsInv', MayInv, AppendStep, Track, Promises
    PROVE  MayInv'
<1> USE DEF MayInv
<1>1. disk \in Directories /\ disk' \in Directories /\ op \in Ops /\ mem \in Lists \cup {None}
  BY DEF IInv, TypeOK
<1>2. CASE \E recs \in Batches : BeginAppend(recs)
  <2>1. PICK recs \in Batches : BeginAppend(recs)
    BY <1>2
  <2>2. /\ up /\ op.kind = "idle" /\ mem # None /\ damage = "none" /\ mem' = mem /\ flush' = "nothing"
        /\ disk' = [disk EXCEPT !.journal = JournalRecs(disk)]
    BY <2>1 DEF BeginAppend, At
  <2>3. op'.kind = "append" /\ op'.at = "write" /\ op'.recs = recs
    BY <2>1 DEF BeginAppend, Idle
  <2>4. ASSUME NEW i \in IDs PROVE may'[i] = may[i] \cup Written(recs, i)
    BY <2>2, <2>3 DEF Promises, At, BaseOps
  <2>5. Grows
    BY <2>4 DEF Grows
  <2>6. disk'.config = disk.config /\ disk'.base = disk.base /\ disk'.marker = disk.marker
    BY <1>1, <2>2 DEF Directories
  <2>7. JournalRecs(disk') = JournalRecs(disk)
    BY <1>1, <2>2, NoneIsNoJournal DEF Directories, JournalRecs
  <2>8. DiskInv' /\ names'.base \subseteq names.base
    BY <2>5, <2>6, <2>7, Undisturbed
  <2>9. mem.jhash = JournalRecs(disk)
    BY <2>2 DEF IInv, IdleInv, Settled, Coherent
  <2>10. ASSUME FALSE \in names'.marker, NEW b \in names'.base
         PROVE  Within(ApplyRecs(Segment(b), mem.jhash), may')
    <3>1. Journal(disk') \in jcur' /\ Replay(Journal(disk')) = mem.jhash
      BY <2>7, <2>9, ReplayType DEF FsInv
    <3> QED
      BY <2>8, <2>10, <3>1 DEF DiskInv, ReplaysInv
  <2>11. RollbackInv'
    BY <2>2, <2>10 DEF RollbackInv
  <2>12. LiveInv'
    BY <2>2, <2>5, LiveKept
  <2>13. MutationInv'
    BY <2>3, <2>4 DEF MutationInv, BaseOps
  <2> QED
    BY <2>8, <2>11, <2>12, <2>13
<1>3. ASSUME op.kind = "append", op.at = "write", flush' = "nothing", mem' = mem,
             NEW to \in {"sync", "rollback"}, op' = [op EXCEPT !.at = to],
             NEW n \in 0 .. Len(op.recs), NEW t \in BOOLEAN,
             disk' = [disk EXCEPT !.journal = disk.journal \o SubSeq(op.recs, 1, n), !.torn = t]
      PROVE  MayInv'
  <2>1. op'.at = to /\ op'.kind = "append"
    BY <1>1, <1>3 DEF Ops
  <2>2. Grows
    BY <1>3, <2>1, MayKept
  <2>3. /\ disk'.config = disk.config /\ disk'.base = disk.base /\ disk'.marker = disk.marker
        /\ disk'.journal = disk.journal \o SubSeq(op.recs, 1, n)
    BY <1>1, <1>3 DEF Directories
  <2>4. /\ \A j \in jcur' : j \in jcur \/ \E k \in 0 .. Len(op.recs) : Replay(j) = Grown(k)
        /\ jold' = jold
    BY <1>3, <2>3, WriteGrows
  <2>5. DiskInv' /\ names'.base = names.base /\ names'.marker = names.marker
    BY <1>3, <2>2, <2>3, <2>4, GrownDisk
  <2> QED
    BY <1>1, <1>3, <2>1, <2>2, <2>5, AppendGoesOn
<1>4. CASE AppendWrite
  <2>1. /\ op.kind = "append" /\ op.at = "write" /\ flush' = "nothing" /\ mem' = mem
        /\ op' = [op EXCEPT !.at = "sync"]
        /\ disk' = IF disk.torn THEN disk ELSE [disk EXCEPT !.journal = @ \o op.recs]
    BY <1>4 DEF AppendWrite, At, Goto, Quiet
  <2>2. disk.torn = FALSE /\ disk.journal # None
    BY <1>1, <2>1 DEF IInv, AppendInv, Directories
  <2>3. op.recs \in Seq(Recs) /\ Len(op.recs) \in 0 .. Len(op.recs) /\ SubSeq(op.recs, 1, Len(op.recs)) = op.recs
    BY <1>1, SubSeqFull DEF Ops
  <2>4. disk' = [disk EXCEPT !.journal = disk.journal \o SubSeq(op.recs, 1, Len(op.recs)), !.torn = FALSE]
    BY <1>1, <2>1, <2>2, <2>3 DEF Directories
  <2> QED
    BY <1>3, <2>1, <2>3, <2>4
<1>5. CASE AppendWriteFails
  <2>1. /\ op.kind = "append" /\ op.at = "write" /\ flush' = "nothing" /\ mem' = mem
        /\ op' = [op EXCEPT !.at = "rollback"]
    BY <1>5 DEF AppendWriteFails, At, Goto, Quiet
  <2>2. PICK n \in 0 .. Len(op.recs) - 1, t \in BOOLEAN :
          disk' = [disk EXCEPT !.journal = disk.journal \o SubSeq(op.recs, 1, n), !.torn = t]
    BY <1>5 DEF AppendWriteFails
  <2>3. n \in 0 .. Len(op.recs)
    BY <1>1 DEF Ops
  <2> QED
    BY <1>3, <2>1, <2>2, <2>3
<1>6. CASE AppendSync \/ AppendSyncFails
  <2>1. /\ op.kind = "append" /\ op.at = "sync" /\ mem' = mem /\ disk' = disk
        /\ op' = [op EXCEPT !.at = IF AppendSync THEN "commit" ELSE "rollback"]
        /\ flush' # "dir" /\ (AppendSync => flush' = "journal")
    BY <1>6 DEF AppendSync, AppendSyncFails, At, Goto, Quiet
  <2>2. /\ op'.kind = "append" /\ op'.at \in {"commit", "rollback"} /\ (op'.at = "commit" => AppendSync)
        /\ op' = [op EXCEPT !.at = op'.at]
    BY <1>1, <2>1 DEF Ops
  <2>3. Grows
    BY <2>1, <2>2, MayKept
  <2>4. DiskInv'
    BY <2>1, <2>3, Undisturbed
  <2>5. names'.base = names.base /\ names'.marker = names.marker
    BY <2>1, KeptNames
  <2>6. op'.at = "commit" => jcur' = {Journal(disk')}
    BY <2>1, <2>2 DEF Track
  <2> QED
    BY <1>1, <2>1, <2>2, <2>3, <2>4, <2>5, <2>6, AppendGoesOn
<1>7. CASE AppendRollback
  <2>1. /\ op.kind = "append" /\ op.at = "rollback" /\ mem' = mem /\ op' = Idle /\ flush' = "nothing"
        /\ disk' = [disk EXCEPT !.journal = SubSeq(@, 1, op.start), !.torn = FALSE]
    BY <1>7 DEF AppendRollback, At
  <2>2. /\ disk.journal # None /\ SubSeq(disk.journal, 1, op.start) = mem.jhash
        /\ Len(mem.jhash) <= Len(disk.journal)
    BY <2>1 DEF IInv, AppendInv
  <2>3. /\ disk'.config = disk.config /\ disk'.base = disk.base /\ disk'.marker = disk.marker
        /\ disk'.journal = mem.jhash /\ disk.journal \in Seq(Recs)
    BY <1>1, <2>1, <2>2 DEF Directories
  <2>4. mem.jhash \in Seq(Recs) /\ mem.jhash # None /\ op.recs \in Seq(Recs)
    BY <2>1, AppendParts, NoneIsNoJournal
  <2>5. Prefixes(disk, disk') = {}
    <3>1. Len(disk.journal) \in Nat /\ Len(mem.jhash) \in Nat
      BY <2>3, <2>4
    <3>2. Len(disk.journal) .. Len(disk'.journal) - 1 = {}
      BY <2>2, <2>3, <3>1
    <3> QED
      BY <3>2 DEF Prefixes
  <2>6. jcur' = jcur \cup {Journal(disk')} /\ jold' = jold
    BY <2>1, <2>2, <2>3, <2>4, <2>5 DEF Track, SameFile
  <2>7. Replay(Journal(disk')) = Grown(0) /\ 0 \in 0 .. Len(op.recs)
    <3>1. SubSeq(op.recs, 1, 0) = <<>> /\ mem.jhash \o <<>> = mem.jhash
      BY <2>4
    <3> QED
      BY <2>3, <2>4, <3>1 DEF Replay, Journal, Grown
  <2>8. Grows
    BY <2>1, IdleType, MayKept
  <2>9. DiskInv'
    BY <2>1, <2>3, <2>6, <2>7, <2>8, GrownDisk
  <2> QED
    BY <2>1, <2>8, <2>9, IdleType, LiveKept, NothingPrepared
<1>8. CASE AppendRollbackFails
  <2>1. op.kind = "append" /\ op.at = "rollback" /\ mem' = mem /\ disk' = disk /\ op' = Idle
    BY <1>8 DEF AppendRollbackFails, At
  <2>2. Grows
    BY <2>1, IdleType, MayKept
  <2>3. DiskInv'
    BY <2>1, <2>2, Undisturbed
  <2> QED
    BY <2>1, <2>2, <2>3, IdleType, LiveKept, NothingPrepared
\* The acknowledgment takes back what the entries of the batch had before.
<1>9. CASE AppendCommit
  <2>1. /\ up /\ op.kind = "append" /\ op.at = "commit" /\ mem' = Committed(mem, op.recs) /\ disk' = disk
        /\ op' = Idle /\ flush' = "nothing" /\ up' = up
    BY <1>9 DEF AppendCommit, At
  <2>2. PICK c, id, J, r : c = mem.cfg /\ id = mem.baseID /\ J = mem.jhash /\ r = op.recs
    OBVIOUS
  <2>3. /\ J \in Seq(Recs) /\ r \in Seq(Recs) /\ id \in OptContents /\ mem = ListOf(c, id, J)
        /\ disk.journal = J \o r /\ disk.journal # None /\ jcur = {Journal(disk)} /\ mem # None
    BY <2>1, <2>2, AppendParts DEF IInv, AppendInv, MutationInv
  <2>4. /\ names'.base = names.base /\ names'.marker = names.marker /\ names'.config = names.config
        /\ jcur' = jcur /\ jold' = jold
    BY <2>1, KeptNames, KeptJournal
  <2>5. ASSUME NEW i \in IDs
        PROVE  may'[i] = IF Touching(r, i) # {} THEN {ApplyRecs(NoEntries, r)[i]} ELSE may[i]
    BY <2>1, <2>2, IdleType DEF Promises, At, BaseOps
  <2>6. ASSUME NEW m \in Contents, NEW q, q = ApplyRecs(m, r),
               \A i \in IDs : Touching(r, i) = {} => m[i] \in may[i]
        PROVE  Within(q, may')
    BY <2>3, <2>5, <2>6, ReplayedWritten, ZenonT(60) DEF Within
  <2>7. ASSUME NEW b \in OptContents, Within(ApplyRecs(Segment(b), J \o r), may)
        PROVE  Within(ApplyRecs(Segment(b), J \o r), may')
    <3>1. PICK m \in Contents : m = ApplyRecs(Segment(b), J)
      BY <2>3, ApplyType, SegmentType
    <3>2. ApplyRecs(Segment(b), J \o r) = ApplyRecs(m, r)
      BY <2>3, <3>1, ApplyConcat, SegmentType
    <3>3. \A i \in IDs : Touching(r, i) = {} => m[i] \in may[i]
      BY <2>3, <2>7, <3>2, ReplayedWritten DEF Within
    <3> QED
      BY <2>6, <3>2, <3>3
  <2>8. BuildInv' /\ ConfigInv'
    BY <2>1, <2>4 DEF DiskInv, BuildInv, ConfigInv
  <2>9. ReplaysInv'
    <3>1. \A j \in jcur : Replay(j) = J \o r
      BY <2>3 DEF Replay, Journal
    <3> QED
      BY <2>4, <2>7, <3>1 DEF DiskInv, ReplaysInv, FsInv
  <2>10. LiveInv'
    <3>1. mem' = ListOf(c, id, J \o r) /\ J \o r \in Seq(Recs)
      BY <2>1, <2>2, <2>3, CommittedIsReplay
    <3>2. Live(mem') = ApplyRecs(Segment(id), J \o r)
      BY <2>3, <3>1, LiveOfList
    <3>3. PICK m \in Contents : m = ApplyRecs(Segment(id), J)
      BY <2>3, ApplyType, SegmentType
    <3>4. ApplyRecs(Segment(id), J \o r) = ApplyRecs(m, r)
      BY <2>3, <3>3, ApplyConcat, SegmentType
    <3>5. Live(mem) = m
      BY <2>3, <3>3, LiveOfList
    <3>6. \A i \in IDs : m[i] \in may[i]
      BY <2>3, <3>5 DEF LiveInv, Within
    <3>7. Within(Live(mem'), may')
      BY <2>6, <3>2, <3>4, <3>6
    <3> QED
      BY <3>7 DEF LiveInv
  <2> QED
    BY <2>1, <2>8, <2>9, <2>10, IdleType, NothingPrepared DEF DiskInv
<1> QED
  BY <1>2, <1>4, <1>5, <1>6, <1>7, <1>8, <1>9 DEF AppendStep

-----------------------------------------------------------------------------
(* Compact and Replace.                                                    *)

\* A rebuild that has not renamed its base yet, or has installed it.
LEMMA NothingRenamed ==
    op'.kind \in BaseOps /\ op'.at \in {"rmidx", "rename", "saveidx"} => RollbackInv' /\ MutationInv'
  BY DEF RollbackInv, MutationInv, BaseOps

\* The steps of a rebuild.
LEMMA BaseMay ==
    ASSUME IInv, IInv', FsInv, FsInv', MayInv, BaseStep, Track, Promises
    PROVE  MayInv'
<1> USE DEF MayInv
<1>1. /\ disk \in Directories /\ disk' \in Directories /\ op \in Ops /\ mem \in Lists \cup {None}
      /\ disk.base \in names.base /\ Journal(disk) \in jcur
  BY DEF IInv, TypeOK, FsInv
\* The steps around the change of the base.
<1>2. ASSUME disk'.config = disk.config, disk'.base = disk.base, disk'.marker = disk.marker,
             disk'.journal = disk.journal, mem' = mem, op.at \notin {"commit", "install"},
             op'.kind = "idle" \/ (op'.kind \in BaseOps /\ op'.at \in {"rmidx", "rename", "saveidx"})
      PROVE  op'.at # "syncdir" /\ op'.at # "unmarkdir" => MayInv'
  <2> SUFFICES ASSUME op'.at # "syncdir", op'.at # "unmarkdir" PROVE MayInv'
    OBVIOUS
  <2>1. Grows
    BY <1>2, MayKept DEF BaseOps
  <2>2. JournalRecs(disk') = JournalRecs(disk)
    BY <1>2 DEF JournalRecs
  <2>3. DiskInv'
    BY <1>2, <2>1, <2>2, Undisturbed
  <2> QED
    BY <1>2, <2>1, <2>3, LiveKept, NothingRenamed, NothingPrepared
<1>3. CASE BeginCompact \/ \E b \in Bases : BeginReplace(b)
  <2>1. PICK kind, content : kind \in BaseOps /\ BeginBase(kind, content)
    BY <1>3 DEF BeginCompact, BeginReplace, BaseOps
  <2>2. op.kind = "idle" /\ op.at = "none" /\ mem' = mem /\ disk' = disk
    BY <2>1 DEF BeginBase, At, Quiet
  <2>3. op'.kind = kind /\ op'.at = "rmidx"
    BY <2>1 DEF BeginBase, Idle
  <2> QED
    BY <1>2, <2>1, <2>2, <2>3
<1>4. CASE BaseRemoveIdx
  <2>1. /\ op.kind \in BaseOps /\ op.at = "rmidx" /\ mem' = mem /\ disk' = [disk EXCEPT !.idx = None]
        /\ op' = [op EXCEPT !.at = "rename"]
    BY <1>4 DEF BaseRemoveIdx, At, Goto, Quiet
  <2>2. op'.kind \in BaseOps /\ op'.at = "rename"
    BY <1>1, <2>1 DEF Ops
  <2>3. /\ disk'.config = disk.config /\ disk'.base = disk.base /\ disk'.marker = disk.marker
        /\ disk'.journal = disk.journal
    BY <1>1, <2>1 DEF Directories
  <2> QED
    BY <1>2, <2>1, <2>2, <2>3
\* From the rename on, the new base may come back under the old journal.
<1>5. CASE BaseRename
  <2>1. /\ up /\ op.kind \in BaseOps /\ op.at = "rename" /\ mem' = mem /\ disk' = [disk EXCEPT !.base = op.base]
        /\ op' = [op EXCEPT !.at = "syncdir"] /\ flush' = "nothing"
    BY <1>5 DEF BaseRename, At, Goto
  <2>2. op'.kind = op.kind /\ op'.at = "syncdir" /\ op'.base = op.base
    BY <1>1, <2>1 DEF Ops
  <2>3. /\ disk'.config = disk.config /\ disk'.base = op.base /\ disk'.marker = disk.marker
        /\ disk'.journal = disk.journal /\ disk'.torn = disk.torn
    BY <1>1, <2>1 DEF Directories
  <2>4. /\ op.base \in Contents /\ mem # None /\ (op.kind = "compact" => op.base = Live(mem))
        /\ disk.marker = FALSE
    BY <1>1, <2>1 DEF IInv, BaseInv, ConfigKept, Directories
  <2>5. ASSUME NEW i \in IDs PROVE may'[i] = IF op.kind = "replace" THEN may[i] \cup {op.base[i]} ELSE may[i]
    BY <2>1, <2>2 DEF Promises, At, BaseOps
  <2>6. Grows
    BY <2>5 DEF Grows
  <2>7. Within(op.base, may')
    <3>1. CASE op.kind = "replace"
      BY <2>5, <3>1 DEF Within
    <3>2. CASE op.kind = "compact"
      BY <2>4, <2>5, <3>2 DEF LiveInv, Within
    <3> QED
      BY <2>1, <3>1, <3>2 DEF BaseOps
  <2>8. /\ names'.base = names.base \cup {op.base} /\ names'.marker = names.marker
        /\ names'.config = names.config /\ jcur' = jcur /\ jold' = jold
    BY <2>1, <2>3, KeptNames, KeptJournal
  <2>9. BuildInv' /\ ConfigInv'
    BY <2>3, <2>8 DEF DiskInv, BuildInv, ConfigInv
  <2>10. ASSUME FALSE \in names'.marker, NEW b \in names'.base, NEW j \in jcur'
         PROVE  Within(ApplyRecs(Segment(b), Replay(j)), may')
    <3>1. ASSUME NEW e \in names.base PROVE Within(ApplyRecs(Segment(e), Replay(j)), may')
      BY <2>6, <2>8, <2>10, <3>1, WithinGrows DEF DiskInv, ReplaysInv
    <3>2. CASE b = op.base
      <4>1. PICK m, n, q : m = op.base /\ n = Segment(disk.base) /\ q = Replay(j) /\ m \in Contents /\ n \in Contents
        BY <1>1, <2>4, SegmentType DEF Directories
      <4>2. Segment(b) = m
        BY <2>4, <3>2, <4>1, NoneIsNoContent DEF Segment
      <4>3. q \in Seq(Recs)
        BY <2>8, <4>1, ReplayType DEF FsInv
      <4>4. ASSUME NEW i \in IDs PROVE ApplyRecs(m, q)[i] \in may'[i]
        <5>1. CASE Touching(q, i) = {}
          BY <2>7, <4>1, <4>3, <5>1, ReplayedWritten DEF Within
        <5>2. CASE Touching(q, i) # {}
          <6>1. ApplyRecs(m, q)[i] = ApplyRecs(n, q)[i]
            BY <4>1, <4>3, <5>2, ReplayedWritten
          <6>2. ApplyRecs(n, q)[i] \in may'[i]
            BY <1>1, <3>1, <4>1 DEF Within
          <6> QED
            BY <6>1, <6>2
        <5> QED
          BY <5>1, <5>2
      <4> QED
        BY <4>1, <4>2, <4>4 DEF Within
    <3> QED
      BY <2>8, <3>1, <3>2
  <2>11. LiveInv'
    BY <2>1, <2>6, LiveKept
  <2>12. RollbackInv' /\ MutationInv'
    BY <2>1, <2>2, <2>7 DEF RollbackInv, MutationInv, BaseOps
  <2> QED
    BY <2>9, <2>10, <2>11, <2>12 DEF DiskInv, ReplaysInv
<1>6. CASE BaseSyncDir
  <2>1. /\ op.kind \in BaseOps /\ op.at = "syncdir" /\ mem' = mem /\ disk' = disk
        /\ op' = [op EXCEPT !.at = "truncate"] /\ flush' = "dir"
    BY <1>6 DEF BaseSyncDir, At, Goto, Quiet
  <2>2. op'.kind = op.kind /\ op'.at = "truncate" /\ op'.base = op.base
    BY <1>1, <2>1 DEF Ops
  <2>3. Grows
    BY <2>1, <2>2, MayKept DEF BaseOps
  <2>4. DiskInv'
    BY <2>1, <2>3, Undisturbed
  <2>5. names'.base = {op.base}
    BY <2>1, FlushedNames DEF IInv, BaseInv
  <2>6. Within(op.base, may')
    BY <2>1, <2>3, WithinGrows DEF MutationInv
  <2>7. RollbackInv' /\ MutationInv'
    BY <2>1, <2>2, <2>5, <2>6 DEF RollbackInv, MutationInv, BaseOps
  <2> QED
    BY <2>1, <2>3, <2>4, <2>7, LiveKept
\* The new base is durable: an empty journal over it is what was promised.
<1>7. CASE BaseTruncate
  <2>1. op.kind \in BaseOps /\ op.at = "truncate" /\ mem' = mem /\ flush' = "nothing"
    BY <1>7 DEF BaseTruncate, At, Quiet
  <2>2. names.base = {op.base} /\ Within(op.base, may) /\ op.base \in Contents
    BY <2>1 DEF MutationInv, IInv, BaseInv
  <2>3. CASE disk.journal = None
    <3>1. op' = [op EXCEPT !.at = "install"] /\ disk' = disk
      BY <1>7, <2>3 DEF BaseTruncate, Goto
    <3>2. op'.kind = op.kind /\ op'.at = "install" /\ op'.base = op.base
      BY <1>1, <3>1 DEF Ops
    <3>3. Grows
      BY <2>1, <3>2, MayKept DEF BaseOps
    <3>4. DiskInv'
      BY <3>1, <3>3, Undisturbed
    <3>5. names'.base = {op.base} /\ jcur' = {Journal(disk)}
      BY <2>1, <2>2, <2>3, <3>1, KeptNames, KeptJournal DEF FsInv
    <3>6. \A j \in jcur' : Replay(j) = <<>>
      BY <2>3, <3>5 DEF Replay, Journal
    <3>7. Within(op.base, may')
      BY <2>2, <3>3, WithinGrows
    <3>8. RollbackInv' /\ MutationInv'
      BY <2>1, <3>2, <3>5, <3>6, <3>7 DEF RollbackInv, MutationInv, BaseOps
    <3> QED
      BY <2>1, <3>3, <3>4, <3>8, LiveKept
  <2>4. CASE disk.journal # None
    <3>1. op' = [op EXCEPT !.at = "synctrunc"] /\ disk' = [disk EXCEPT !.journal = <<>>, !.torn = FALSE]
      BY <1>7, <2>4 DEF BaseTruncate, Goto
    <3>2. op'.kind = op.kind /\ op'.at = "synctrunc" /\ op'.base = op.base
      BY <1>1, <3>1 DEF Ops
    <3>3. Grows
      BY <2>1, <3>2, MayKept DEF BaseOps
    <3>4. /\ disk'.config = disk.config /\ disk'.base = disk.base /\ disk'.marker = disk.marker
          /\ disk'.journal = <<>>
      BY <1>1, <3>1 DEF Directories
    <3>5. /\ names'.base = {op.base} /\ names'.marker = names.marker /\ names'.config = names.config
      BY <2>1, <2>2, <3>4, KeptNames
    <3>6. <<>> # None
      <4>1. <<>> \in Seq(Recs)
        OBVIOUS
      <4> QED
        BY <4>1, NoneIsNoJournal
    <3>7. Prefixes(disk, disk') = {}
      <4>1. Len(disk.journal) \in Nat /\ Len(disk'.journal) = 0
        BY <1>1, <2>4, <3>4 DEF Directories
      <4>2. Len(disk.journal) .. Len(disk'.journal) - 1 = {}
        BY <4>1
      <4> QED
        BY <4>2 DEF Prefixes
    <3>8. jcur' = jcur \cup {Journal(disk')} /\ jold' = jold
      BY <2>1, <2>4, <3>4, <3>6, <3>7 DEF Track, SameFile
    <3>9. Replay(Journal(disk')) = <<>>
      BY <3>4, <3>6 DEF Replay, Journal
    <3>10. Buildable(ApplyRecs(NoEntries, <<>>))
      BY NoEntriesBuildable, ApplyEmpty
    <3>11. BuildInv' /\ ConfigInv'
      BY <3>4, <3>5, <3>8, <3>9, <3>10 DEF DiskInv, BuildInv, ConfigInv
    <3>12. Within(op.base, may')
      BY <2>2, <3>3, WithinGrows
    <3>13. ASSUME FALSE \in names'.marker, NEW b \in names'.base, NEW j \in jcur'
           PROVE  Within(ApplyRecs(Segment(b), Replay(j)), may')
      <4>1. CASE j \in jcur
        BY <2>2, <3>3, <3>5, <3>13, <4>1, WithinGrows DEF DiskInv, ReplaysInv
      <4>2. CASE j = Journal(disk')
        <5>1. Segment(b) = op.base
          BY <2>2, <3>5, NoneIsNoContent DEF Segment
        <5>2. ApplyRecs(op.base, <<>>) = op.base
          BY <2>2, ApplyEmpty
        <5> QED
          BY <3>9, <3>12, <4>2, <5>1, <5>2
      <4> QED
        BY <3>8, <4>1, <4>2
    <3>14. RollbackInv' /\ MutationInv'
      BY <2>1, <3>2, <3>5, <3>12 DEF RollbackInv, MutationInv, BaseOps
    <3> QED
      BY <2>1, <3>3, <3>11, <3>13, <3>14, LiveKept DEF DiskInv, ReplaysInv
  <2> QED
    BY <2>3, <2>4
<1>8. CASE BaseSyncTruncate
  <2>1. /\ op.kind \in BaseOps /\ op.at = "synctrunc" /\ mem' = mem /\ disk' = disk
        /\ op' = [op EXCEPT !.at = "install"] /\ flush' = "journal"
    BY <1>8 DEF BaseSyncTruncate, At, Goto, Quiet
  <2>2. op'.kind = op.kind /\ op'.at = "install" /\ op'.base = op.base
    BY <1>1, <2>1 DEF Ops
  <2>3. Grows
    BY <2>1, <2>2, MayKept DEF BaseOps
  <2>4. DiskInv'
    BY <2>1, <2>3, Undisturbed
  <2>5. names'.base = {op.base} /\ Within(op.base, may')
    BY <2>1, <2>3, KeptNames, WithinGrows DEF MutationInv
  <2>6. jcur' = {Journal(disk)} /\ JournalRecs(disk) = <<>>
    BY <2>1 DEF Track, IInv, BaseInv
  <2>7. \A j \in jcur' : Replay(j) = <<>>
    BY <2>6, ReplayType
  <2>8. RollbackInv' /\ MutationInv'
    BY <2>1, <2>2, <2>5, <2>7 DEF RollbackInv, MutationInv, BaseOps
  <2> QED
    BY <2>1, <2>3, <2>4, <2>8, LiveKept
\* The acknowledgment takes back everything but the new base.
<1>9. CASE BaseInstall
  <2>1. /\ up /\ op.kind \in BaseOps /\ op.at = "install" /\ mem' = ListOf(mem.cfg, op.base, <<>>) /\ disk' = disk
        /\ op' = [op EXCEPT !.at = "saveidx"] /\ flush' = "nothing" /\ up' = up
    BY <1>9 DEF BaseInstall, At, Goto
  <2>2. op'.kind \in BaseOps /\ op'.at = "saveidx"
    BY <1>1, <2>1 DEF Ops
  <2>3. op.base \in Contents /\ names.base = {op.base} /\ \A j \in jcur : Replay(j) = <<>>
    BY <2>1 DEF MutationInv, IInv, BaseInv
  <2>4. Segment(op.base) = op.base /\ ApplyRecs(op.base, <<>>) = op.base /\ op.base \in OptContents
    BY <2>3, ApplyEmpty, NoneIsNoContent DEF Segment, OptContents
  <2>5. Live(mem') = op.base
    <3>1. <<>> \in Seq(Recs)
      OBVIOUS
    <3>2. Live(ListOf(mem.cfg, op.base, <<>>)) = ApplyRecs(Segment(op.base), <<>>)
      BY <2>4, <3>1, LiveOfList
    <3> QED
      BY <2>1, <2>4, <3>2
  <2>6. ASSUME NEW i \in IDs PROVE may'[i] = {op.base[i]}
    BY <2>1, <2>2, <2>5 DEF Promises, At, BaseOps
  <2>7. Within(op.base, may')
    BY <2>6 DEF Within
  <2>8. /\ names'.base = names.base /\ names'.marker = names.marker /\ names'.config = names.config
        /\ jcur' = jcur /\ jold' = jold
    BY <2>1, KeptNames, KeptJournal
  <2>9. BuildInv' /\ ConfigInv'
    BY <2>1, <2>8 DEF DiskInv, BuildInv, ConfigInv
  <2>10. ReplaysInv'
    BY <2>3, <2>4, <2>7, <2>8 DEF ReplaysInv
  <2>11. LiveInv'
    BY <2>5, <2>7 DEF LiveInv
  <2> QED
    BY <2>2, <2>9, <2>10, <2>11, NothingRenamed DEF DiskInv
<1>10. CASE BaseSaveIdx
  <2>1. /\ op.kind \in BaseOps /\ op.at = "saveidx" /\ mem' = mem /\ op' = Idle
        /\ disk' = [disk EXCEPT !.idx = [base |-> mem.baseID, cfg |-> mem.cfg]] \/ disk' = disk
    BY <1>10 DEF BaseSaveIdx, At, Quiet
  <2>2. /\ disk'.config = disk.config /\ disk'.base = disk.base /\ disk'.marker = disk.marker
        /\ disk'.journal = disk.journal
    BY <1>1, <2>1 DEF Directories
  <2> QED
    BY <1>2, <2>1, <2>2, IdleType
<1>11. CASE BaseFails
  <2>1. op.at \notin {"commit", "install"} /\ mem' = mem /\ op' = Idle /\ disk' = disk
    BY <1>11 DEF BaseFails, At
  <2> QED
    BY <1>2, <2>1, IdleType
<1> QED
  BY <1>3, <1>4, <1>5, <1>6, <1>7, <1>8, <1>9, <1>10, <1>11 DEF BaseStep

-----------------------------------------------------------------------------
(* PUT, reload, crash and restart.                                         *)

\* A step that is neither append nor rebuild and keeps what is on disk.
LEMMA Passes ==
    ASSUME IInv, IInv', FsInv, MayInv, Track, Grows, disk'.config = disk.config, disk'.base = disk.base,
           disk'.marker = disk.marker \/ disk'.marker = TRUE, JournalRecs(disk') = JournalRecs(disk),
           mem' = mem \/ mem' = None, op'.kind \in {"idle", "create"}
    PROVE  MayInv'
  BY Undisturbed, LiveKept, NothingPrepared DEF MayInv

\* Behind a durable marker only the journals matter.
LEMMA Hidden ==
    ASSUME IInv, IInv', FsInv, MayInv, Track, Grows, names'.marker = {TRUE}, mem' = mem, op'.kind = "create",
           JournalRecs(disk') = JournalRecs(disk) \/ disk'.journal = None
    PROVE  MayInv'
<1>1. CASE JournalRecs(disk') = JournalRecs(disk)
  <2>1. BuildInv'
    BY <1>1, SameReplays DEF MayInv, DiskInv, BuildInv
  <2> QED
    BY <2>1, LiveKept, NothingPrepared DEF MayInv, DiskInv, ConfigInv, ReplaysInv
<1>2. CASE disk'.journal = None
  <2>1. Replay(Journal(disk')) = <<>>
    BY <1>2 DEF Replay, Journal
  <2>2. jcur' \subseteq jcur \cup {Journal(disk')} /\ jold' \subseteq jold \cup jcur
    BY <1>2 DEF Track
  <2>3. Buildable(ApplyRecs(NoEntries, <<>>))
    BY NoEntriesBuildable, ApplyEmpty
  <2>4. BuildInv'
    BY <2>1, <2>2, <2>3 DEF MayInv, DiskInv, BuildInv
  <2> QED
    BY <2>4, LiveKept, NothingPrepared DEF MayInv, DiskInv, ConfigInv, ReplaysInv
<1> QED
  BY <1>1, <1>2

\* The steps of a PUT.
LEMMA CreateMay ==
    ASSUME IInv, IInv', PutInv, FsInv', MayInv, CreateStep, Track, Promises
    PROVE  MayInv'
<1>1. FsInv /\ MarkInv /\ disk \in Directories /\ disk' \in Directories /\ op \in Ops
  BY DEF PutInv, IInv, TypeOK
<1>2. ASSUME disk' = disk, mem' = mem, op'.kind \in {"idle", "create"}, op.at \notin {"commit", "install"},
             op'.at # "unmarkdir", op'.at # "syncdir"
      PROVE  MayInv'
  <2>1. Grows
    BY <1>2, MayKept
  <2> QED
    BY <1>1, <1>2, <2>1, Passes
<1>3. CASE \E c \in Creates : BeginCreate(c)
  <2>1. PICK c \in Creates : BeginCreate(c)
    BY <1>3
  <2>2. op.kind = "idle" /\ op.at = "none" /\ disk' = disk /\ mem' = mem
    BY <2>1 DEF BeginCreate, At, Quiet
  <2>3. op'.kind = "create" /\ op'.at = "mark"
    BY <2>1 DEF BeginCreate, Idle
  <2> QED
    BY <1>2, <2>2, <2>3
<1>4. CASE CreateMark
  <2>1. /\ op.kind = "create" /\ op.at = "mark" /\ disk' = [disk EXCEPT !.marker = TRUE]
        /\ op' = [op EXCEPT !.at = "markdir"] /\ mem' = mem
    BY <1>4 DEF CreateMark, CreateCall, At, Goto
  <2>2. op'.kind = "create" /\ op'.at = "markdir"
    BY <1>1, <2>1 DEF Ops
  <2>3. /\ disk'.marker = TRUE /\ disk'.config = disk.config /\ disk'.base = disk.base
        /\ disk'.journal = disk.journal
    BY <1>1, <2>1 DEF Directories
  <2>4. Grows /\ JournalRecs(disk') = JournalRecs(disk)
    BY <2>1, <2>2, <2>3, MayKept DEF JournalRecs
  <2> QED
    BY <1>1, <2>1, <2>2, <2>3, <2>4, Passes
<1>5. CASE CreateMarkDir \/ CreateConfigDir
  <2>1. /\ op.kind = "create" /\ op.at \in {"markdir", "configdir"} /\ disk' = disk /\ mem' = mem
        /\ \E to \in {"wipebase", "unmark"} : op' = [op EXCEPT !.at = to]
    BY <1>5 DEF CreateMarkDir, CreateConfigDir, CreateSync, At, Goto, Quiet
  <2>2. op'.kind = "create" /\ op'.at \in {"wipebase", "unmark"}
    BY <1>1, <2>1 DEF Ops
  <2> QED
    BY <1>2, <2>1, <2>2
<1>6. ASSUME NEW from, NEW to, NEW d, CreateCall(from, to, d), from \in Marked, to \in Marked \ {"unmark"},
             d.marker = disk.marker, d.journal = disk.journal \/ d.journal = None
      PROVE  MayInv'
  <2>1. /\ op.kind = "create" /\ op.at = from /\ flush' = "nothing" /\ disk' = d /\ mem' = mem
        /\ op' = [op EXCEPT !.at = to]
    BY <1>6 DEF CreateCall, At, Goto
  <2>2. op'.kind = "create" /\ op'.at = to
    BY <1>1, <2>1 DEF Ops
  <2>3. names'.marker = {TRUE}
    BY <1>1, <1>6, <2>1, KeptNames DEF MarkInv
  <2>4. Grows
    BY <1>6, <2>1, <2>2, MayKept DEF Marked
  <2>5. JournalRecs(disk') = JournalRecs(disk) \/ disk'.journal = None
    BY <1>6, <2>1 DEF JournalRecs
  <2> QED
    BY <1>1, <2>1, <2>2, <2>3, <2>4, <2>5, Hidden
<1>7. CASE CreateWipeBase
  BY <1>1, <1>6, <1>7 DEF CreateWipeBase, Marked, Directories
<1>8. CASE CreateWipeIdx
  BY <1>1, <1>6, <1>8 DEF CreateWipeIdx, Marked, Directories
<1>9. CASE CreateWipeJournal
  BY <1>1, <1>6, <1>9 DEF CreateWipeJournal, Marked, Directories
<1>10. CASE CreateConfig
  BY <1>1, <1>6, <1>10 DEF CreateConfig, Marked, Directories
\* The complete list is empty.
<1>11. ASSUME op.kind = "create", op.at \in Complete, names'.config = names.config, names'.base = names.base,
              jcur' = jcur, jold' = jold, disk'.config = disk.config,
              \A i \in IDs : None \in may'[i], LiveInv', op'.kind \in {"idle", "create"}
       PROVE  MayInv'
  <2>1. /\ names.config = {op.cfg} /\ names.base = {None}
        /\ jold = {} /\ jcur = {[recs |-> None, torn |-> FALSE]}
    BY <1>1, <1>11 DEF MarkInv
  <2>2. \A j \in jcur : Replay(j) = <<>>
    BY <2>1 DEF Replay
  <2>3. ApplyRecs(NoEntries, <<>>) = NoEntries /\ Segment(None) = NoEntries
    BY NoEntriesBuildable, ApplyEmpty DEF Segment
  <2>4. Within(NoEntries, may')
    BY <1>11 DEF Within, NoEntries
  <2>5. BuildInv' /\ ConfigInv'
    BY <1>1, <1>11, <2>1 DEF MayInv, DiskInv, BuildInv, ConfigInv, FsInv
  <2>6. ReplaysInv'
    BY <1>11, <2>1, <2>2, <2>3, <2>4 DEF ReplaysInv
  <2> QED
    BY <1>11, <2>5, <2>6, NothingPrepared DEF MayInv, DiskInv
<1>12. CASE CreateUnmark
  <2>1. /\ up /\ op.kind = "create" /\ op.at = "unmark" /\ disk' = [disk EXCEPT !.marker = FALSE] /\ mem' = mem
        /\ op' = [op EXCEPT !.at = "unmarkdir"] /\ flush' = "nothing"
    BY <1>12 DEF CreateUnmark, CreateCall, At, Goto
  <2>2. op'.kind = "create" /\ op'.at = "unmarkdir"
    BY <1>1, <2>1 DEF Ops
  <2>3. /\ disk'.config = disk.config /\ disk'.base = disk.base /\ disk'.journal = disk.journal
        /\ disk'.torn = disk.torn
    BY <1>1, <2>1 DEF Directories
  <2>4. \A i \in IDs : may'[i] = may[i] \cup {None}
    BY <2>1, <2>2 DEF Promises, At, BaseOps
  <2>5. Grows
    BY <2>4 DEF Grows
  <2>6. names'.config = names.config /\ names'.base = names.base /\ jcur' = jcur /\ jold' = jold
    BY <1>1, <2>1, <2>3, KeptNames, KeptJournal
  <2>7. LiveInv'
    BY <2>1, <2>5, LiveKept DEF MayInv
  <2> QED
    BY <1>11, <2>1, <2>2, <2>3, <2>4, <2>6, <2>7 DEF Complete
<1>13. CASE CreateUnmarkDir
  <2>1. /\ op.kind = "create" /\ op.at = "unmarkdir" /\ disk' = disk /\ mem' = mem
        /\ op' = [op EXCEPT !.at = "install"]
    BY <1>13 DEF CreateUnmarkDir, CreateSync, At, Goto, Quiet
  <2>2. op'.kind = "create" /\ op'.at = "install"
    BY <1>1, <2>1 DEF Ops
  <2> QED
    BY <1>2, <2>1, <2>2
<1>14. CASE CreateInstall
  <2>1. /\ up /\ op.kind = "create" /\ op.at = "install" /\ disk' = disk /\ mem' = ListOf(op.cfg, None, <<>>)
        /\ op' = Idle /\ flush' = "nothing" /\ up' = up
    BY <1>14 DEF CreateInstall, At
  <2>2. Live(mem') = NoEntries
    <3>1. <<>> \in Seq(Recs) /\ None \in OptContents /\ Segment(None) = NoEntries
      BY DEF OptContents, Segment
    <3>2. Live(ListOf(op.cfg, None, <<>>)) = ApplyRecs(Segment(None), <<>>)
      BY <3>1, LiveOfList
    <3> QED
      BY <2>1, <3>1, <3>2, NoEntriesBuildable, ApplyEmpty
  <2>3. \A i \in IDs : may'[i] = {NoEntries[i]}
    BY <2>1, <2>2, IdleType DEF Promises, At, BaseOps
  <2>4. LiveInv' /\ \A i \in IDs : None \in may'[i]
    BY <2>2, <2>3 DEF LiveInv, Within, NoEntries
  <2>5. names'.config = names.config /\ names'.base = names.base /\ jcur' = jcur /\ jold' = jold
    BY <1>1, <2>1, KeptNames, KeptJournal
  <2> QED
    BY <1>11, <2>1, <2>4, <2>5, IdleType DEF Complete
<1>15. CASE CreateFails
  <2>1. op.at \notin {"commit", "install"} /\ disk' = disk /\ mem' = mem /\ op' = Idle
    BY <1>15 DEF CreateFails, At
  <2> QED
    BY <1>2, <2>1, IdleType
<1> QED
  BY <1>3, <1>4, <1>5, <1>7, <1>8, <1>9, <1>10, <1>12, <1>13, <1>14, <1>15 DEF CreateStep

\* What replaying a directory serves, whatever index and configuration it has.
LEMMA ReplayedLive ==
    ASSUME NEW d \in Directories, ~Poisoned(d)
    PROVE  /\ JournalRecs(d) \in Seq(Recs) /\ d.base \in OptContents
           /\ Live(Opened(d)) = ApplyRecs(Segment(d.base), JournalRecs(d))
<1>1. PICK l, j, b : l = ListOf(d.config, d.base, JournalRecs(d)) /\ j = JournalRecs(d) /\ b = d.base
  OBVIOUS
<1>2. j \in Seq(Recs) /\ b \in OptContents
  BY <1>1 DEF Directories, JournalRecs
<1>3. Opened(d) = [l EXCEPT !.ix = BaseIx(d)]
  BY <1>1 DEF Opened
<1>4. Opened(d).over = l.over /\ Opened(d).tomb = l.tomb /\ Opened(d).base = l.base
  BY <1>1, <1>3 DEF ListOf
<1>5. Live(Opened(d)) = Live(l)
  BY <1>4 DEF Live
<1>6. Live(l) = ApplyRecs(Segment(b), j)
  BY <1>1, <1>2, LiveOfList
<1> QED
  BY <1>1, <1>2, <1>5, <1>6

\* Reload, crash and restart.
LEMMA ProcessMay ==
    ASSUME IInv, IInv', FsInv, MayInv, ProcessStep, Track, Promises
    PROVE  MayInv'
<1>1. /\ disk \in Directories /\ disk' \in Directories /\ disk.base \in names.base /\ Journal(disk) \in jcur
      /\ disk.marker \in names.marker /\ (~up => op = Idle)
  BY DEF IInv, TypeOK, FsInv, IdleInv
<1>2. ~Poisoned(disk) /\ Replay(Journal(disk)) = JournalRecs(disk)
  <2>1. Replay(Journal(disk)) = JournalRecs(disk)
    BY ReplayType
  <2> QED
    BY <1>1, <2>1 DEF MayInv, DiskInv, BuildInv, Poisoned
<1>3. CASE Crash
  <2>1. up' = FALSE /\ mem' = None /\ op' = Idle /\ disk' = disk
    BY <1>3 DEF Crash
  <2>2. Grows
    BY <2>1, IdleType, MayKept
  <2> QED
    BY <2>1, <2>2, IdleType, Passes
<1>4. CASE Reload \/ Open
  <2>1. op' = Idle /\ op = Idle /\ Openable(disk) /\ Adopt
    BY <1>1, <1>4 DEF Reload, Open, At, IInv, IdleInv
  <2>2. PICK saved \in BOOLEAN : disk' = OpenedDisk(disk, saved)
    BY <2>1 DEF Adopt
  <2>3. /\ disk'.config = disk.config /\ disk'.base = disk.base /\ disk'.marker = disk.marker
        /\ disk'.journal = disk.journal
    BY <1>1, <1>2, <2>2 DEF OpenedDisk, Directories
  <2>4. Grows
    BY <2>1, IdleType, MayKept
  <2>5. JournalRecs(disk') = JournalRecs(disk)
    BY <2>3 DEF JournalRecs
  <2>6. DiskInv'
    BY <2>3, <2>4, <2>5, Undisturbed DEF MayInv
  <2>7. Within(Live(Opened(disk)), may)
    <3>1. FALSE \in names.marker
      BY <1>1, <2>1 DEF Openable, Directories
    <3>2. Within(ApplyRecs(Segment(disk.base), JournalRecs(disk)), may)
      BY <1>1, <1>2, <3>1 DEF MayInv, DiskInv, ReplaysInv
    <3> QED
      BY <1>1, <1>2, <3>2, ReplayedLive
  <2>8. LiveInv'
    BY <2>1, <2>4, <2>7, WithinGrows DEF Adopt, LiveInv
  <2> QED
    BY <2>1, <2>6, <2>8, IdleType, NothingPrepared DEF MayInv
<1>5. CASE ReloadFails \/ OpenSkips
  <2>1. op' = op /\ mem' = mem /\ GiveUp /\ op = Idle
    BY <1>1, <1>5 DEF ReloadFails, OpenSkips, At, Quiet, IInv, IdleInv
  <2>2. /\ disk'.config = disk.config /\ disk'.base = disk.base /\ disk'.marker = disk.marker
        /\ disk'.journal = disk.journal
    BY <1>1, <2>1 DEF GiveUp, Directories
  <2>3. Grows
    BY <2>1, IdleType, MayKept
  <2>4. JournalRecs(disk') = JournalRecs(disk)
    BY <2>2 DEF JournalRecs
  <2> QED
    BY <2>1, <2>2, <2>3, <2>4, IdleType, Passes
<1> QED
  BY <1>3, <1>4, <1>5 DEF ProcessStep

-----------------------------------------------------------------------------
(* Power loss, and the theorem.                                            *)

\* A fresh promise about one directory and nothing else.
LEMMA FreshPromise ==
    ASSUME NEW d \in Directories, ~Poisoned(d),
           disk' = d, names' = [f \in Files |-> {d[f]}], jold' = {}, jcur' = {Journal(d)},
           \A i \in IDs : may'[i] = {Live(Opened(d))[i]}
    PROVE  DiskInv'
<1>1. names'.marker = {d.marker} /\ names'.config = {d.config} /\ names'.base = {d.base}
  BY DEF Files
<1>2. Replay(Journal(d)) = JournalRecs(d)
  BY ReplayType
<1>3. BuildInv'
  BY <1>2 DEF BuildInv, Poisoned
<1>4. ConfigInv'
  BY <1>1 DEF ConfigInv
<1>5. Within(Live(Opened(d)), may')
  BY DEF Within
<1>6. ReplaysInv'
  BY <1>1, <1>2, <1>5, ReplayedLive DEF ReplaysInv
<1> QED
  BY <1>3, <1>4, <1>6 DEF DiskInv

LEMMA PowerLossMay ==
    ASSUME IInv', FsInv, MayInv, PowerLoss
    PROVE  MayInv'
<1>1. PICK d \in PossibleDisks :
        /\ disk' = d /\ names' = [f \in Files |-> {d[f]}] /\ jcur' = {Journal(d)}
        /\ may' = [i \in IDs |-> {Live(Opened(d))[i]}]
  BY DEF PowerLoss
<1>2. jold' = {} /\ mem' = None /\ op' = Idle
  BY DEF PowerLoss
<1>3. PICK m \in names.marker, c \in names.config, b \in names.base, x \in names.idx, j \in jold \cup jcur :
        d = Directory(m, c, b, x, j)
  BY Parts
<1>4. JournalRecs(d) = Replay(j)
  BY <1>3 DEF Directory, JournalRecs, Replay
<1>5. ~Poisoned(d)
  BY <1>3, <1>4 DEF MayInv, DiskInv, BuildInv, Poisoned
<1>6. d \in Directories
  BY <1>1 DEF IInv, TypeOK
<1>7. DiskInv'
  BY <1>1, <1>2, <1>5, <1>6, FreshPromise
<1>8. LiveInv'
  BY <1>2 DEF LiveInv
<1> QED
  BY <1>2, <1>7, <1>8, IdleType, NothingPrepared DEF MayInv

LEMMA MayInit == PInit => MayInv
<1> SUFFICES ASSUME PInit PROVE MayInv
  OBVIOUS
<1>1. disk \in Directories
  BY InitIInv DEF PInit, IInv, TypeOK
<1>2. /\ names = [f \in Files |-> {disk[f]}] /\ jold = {} /\ jcur = {Journal(disk)} /\ op = Idle
      /\ may = [i \in IDs |-> {IF mem = None THEN None ELSE Live(mem)[i]}]
  BY DEF PInit, Init
<1>3. names.marker = {disk.marker} /\ names.config = {disk.config} /\ names.base = {disk.base}
  BY <1>2 DEF Files
<1>4. JournalRecs(disk) = <<>>
  BY DEF PInit, Init, Dir, JournalRecs
<1>5. \A j \in jcur : Replay(j) = <<>>
  BY <1>2, <1>4, ReplayType
<1>6. disk.base \in OptContents /\ ApplyRecs(Segment(disk.base), <<>>) = Segment(disk.base)
  BY <1>1, ApplyEmpty, SegmentType DEF Directories
<1>7. (mem # None => Live(mem) = Segment(disk.base)) /\ (mem = None => disk.base = None)
  <2>1. CASE disk = Dir(None, None, None) /\ mem = None
    BY <2>1 DEF Dir
  <2>2. ASSUME NEW c \in Cfgs, NEW b \in Bases \cup {None}, NEW j \in {None, <<>>},
               disk = Dir(c, b, j), mem = ListOf(c, b, <<>>)
        PROVE  (mem # None => Live(mem) = Segment(disk.base)) /\ (mem = None => disk.base = None)
    <3>1. disk.base = b /\ b \in OptContents /\ <<>> \in Seq(Recs)
      BY <1>6, <2>2 DEF Dir
    <3>2. Live(ListOf(c, b, <<>>)) = ApplyRecs(Segment(b), <<>>)
      BY <3>1, LiveOfList
    <3>3. ListOf(c, b, <<>>) # None
      BY <3>1, ListOfType, NoneIsNoList
    <3> QED
      BY <1>6, <2>2, <3>1, <3>2, <3>3
  <2> QED
    BY <2>1, <2>2 DEF PInit, Init
<1>8. Within(Segment(disk.base), may)
  BY <1>2, <1>7 DEF Within, Segment, NoEntries
<1>9. BuildInv
  BY <1>2, <1>5, NoEntriesBuildable, ApplyEmpty DEF BuildInv
<1>10. ConfigInv /\ ReplaysInv
  BY <1>3, <1>5, <1>6, <1>8 DEF ConfigInv, ReplaysInv
<1>11. LiveInv
  BY <1>7, <1>8 DEF LiveInv
<1>12. RollbackInv /\ MutationInv
  BY <1>2, IdleType DEF RollbackInv, MutationInv, BaseOps
<1> QED
  BY <1>9, <1>10, <1>11, <1>12 DEF MayInv, DiskInv

LEMMA MayStutters ==
    ASSUME MayInv, UNCHANGED pvars
    PROVE  MayInv'
<1>1. /\ disk' = disk /\ op' = op /\ mem' = mem /\ names' = names /\ jold' = jold /\ jcur' = jcur /\ may' = may
  BY DEF pvars, vars
<1>2. DiskInv'
  BY <1>1 DEF MayInv, DiskInv, BuildInv, ConfigInv, ReplaysInv
<1>3. RollbackInv' /\ LiveInv'
  BY <1>1 DEF MayInv, RollbackInv, LiveInv
<1>4. MutationInv'
  BY <1>1 DEF MayInv, MutationInv, Journal
<1> QED
  BY <1>2, <1>3, <1>4 DEF MayInv

\* What settled names leave of the possible directories.
LEMMA SettledKeeps ==
    ASSUME IInv, FsInv, MayInv, up, mem # None, NamesSettled, ~Putting, NEW d \in PossibleDisks
    PROVE  KeepsAcked(d)
<1>1. PICK m \in names.marker, c \in names.config, b \in names.base, x \in names.idx, j \in jold \cup jcur :
        d = Directory(m, c, b, x, j)
  BY Parts
<1>2. m = FALSE /\ FALSE \in names.marker /\ j \in jcur /\ j \in Journals
  BY <1>1 DEF NamesSettled, FsInv
<1>3. c = disk.config
  BY <1>2 DEF MayInv, DiskInv, ConfigInv
<1>4. disk.config = mem.cfg
  <2>1. op \in Ops /\ op.kind # "create" /\ damage \in {"none", "content", "create"} /\ damage # "create"
    BY DEF Putting, IInv, TypeOK
  <2>2. CASE op.kind = "idle"
    BY <2>1, <2>2 DEF IInv, IdleInv, Settled, Coherent, ConfigKept
  <2>3. CASE op.kind = "append"
    BY <2>3 DEF IInv, AppendInv, ConfigKept
  <2>4. CASE op.kind \in BaseOps
    BY <2>4 DEF IInv, BaseInv, ConfigKept
  <2> QED
    BY <2>1, <2>2, <2>3, <2>4 DEF Ops
<1>5. mem.cfg \in Cfgs
  BY DEF IInv, TypeOK, Lists
<1>6. d.marker = FALSE /\ d.config = mem.cfg /\ d.base = b /\ JournalRecs(d) = Replay(j)
  BY <1>1, <1>2, <1>3, <1>4 DEF Directory, JournalRecs, Replay
<1>7. Openable(d)
  BY <1>5, <1>6, NoneAssumption DEF Openable
<1>8. d \in Directories
  <2>1. /\ b \in OptContents /\ x \in [base : OptContents, cfg : Cfgs] \cup {None} /\ mem.cfg \in Cfgs \cup {None}
        /\ j.recs \in Seq(Recs) \cup {None} /\ j.torn \in BOOLEAN
    BY <1>2, <1>5 DEF FsInv, Journals
  <2> QED
    BY <1>1, <1>2, <1>3, <1>4, <2>1 DEF Directory, Directories
<1>9. ~Poisoned(d)
  BY <1>2, <1>6 DEF MayInv, DiskInv, BuildInv, Poisoned
<1>10. Within(Live(Opened(d)), may)
  <2>1. Within(ApplyRecs(Segment(b), Replay(j)), may)
    BY <1>2 DEF MayInv, DiskInv, ReplaysInv
  <2> QED
    BY <1>6, <1>8, <1>9, <2>1, ReplayedLive
<1> QED
  BY <1>6, <1>7, <1>10 DEF KeepsAcked, Within

\* Every step of the list or of the machine keeps the promises.
LEMMA MayStep ==
    ASSUME PrefixesBuild, Fsync # "none", IInv, PutInv, IInv', PutInv', MayInv, [PNext]_pvars
    PROVE  MayInv'
<1>1. FsInv /\ FsInv'
  BY DEF PutInv
<1>2. CASE Step
  BY <1>1, <1>2, AppendMay, BaseMay, CreateMay, ProcessMay DEF Step, Next
<1>3. CASE PowerLoss
  BY <1>1, <1>3, PowerLossMay
<1>4. CASE UNCHANGED pvars
  BY <1>4, MayStutters
<1> QED
  BY <1>2, <1>3, <1>4 DEF PNext

\* With a flushing journal policy, acknowledged mutations survive power loss
\* at any moment at which the directory's names are as flushed: every entry
\* comes back with the value it was acknowledged with, or one that was written
\* since (JournalFsync, syncJournalTruncate, persistBase).  As for the process
\* crash, a torn batch must be one that can be built.
THEOREM PowerTheorem == PrefixesBuild => (PSpec => []AckedSurvivesPowerLoss)
<1> SUFFICES ASSUME PrefixesBuild PROVE PSpec => []AckedSurvivesPowerLoss
  OBVIOUS
<1>1. CASE Fsync = "none"
  <2>1. AckedSurvivesPowerLoss
    BY <1>1 DEF AckedSurvivesPowerLoss
  <2> QED
    BY <2>1, PTL
<1>2. CASE Fsync # "none"
  <2>1. (IInv /\ PutInv) /\ (IInv /\ PutInv)' /\ MayInv /\ [PNext]_pvars => MayInv'
    BY <1>2, MayStep
  <2>2. (IInv /\ PutInv) /\ MayInv => AckedSurvivesPowerLoss
    BY SettledKeeps DEF AckedSurvivesPowerLoss, PutInv
  <2> QED
    BY <2>1, <2>2, PutInvariance, MayInit, PTL DEF PSpec
<1> QED
  BY <1>1, <1>2

-----------------------------------------------------------------------------
(* Shipped bundles.                                                        *)

ShippedCfgs == {b.cfg : b \in Pack}
BaseSegments == [root : {b.root : b \in Pack}, muts : SUBSET Nat]
Indexes == [base : BaseSegments, cfg : ShippedCfgs]
ShippedDirs ==
    [cfg : ShippedCfgs, base : BaseSegments, idx : Indexes \cup {NoList}, journal : SUBSET Nat, inode : Nat]
LoadedLists == [cfg : ShippedCfgs, base : BaseSegments, over : SUBSET Nat, idx : Indexes]

ReadSteps == {"readconfig", "readbase", "readidx", "install"}
FoldSteps == {"foldbase", "foldjournal", "foldcommit"}
Appends == [at : {"append"}, inode : Nat, after : 0 .. MaxShips]
Readings ==
    [at : ReadSteps, how : {"reload", "open"}, cfg : ShippedCfgs \cup {NoList},
     base : BaseSegments \cup {NoList}, idx : Indexes \cup {NoList}, after : 0 .. MaxShips]
Ships ==
    [at : {"idle", "rmidx", "config", "base", "idx", "end", "done"}, bundle : Pack \cup {NoList},
     journal : BOOLEAN, sole : BOOLEAN]

Types ==
    /\ dir \in ShippedDirs
    /\ live # NoList => live \in LoadedLists
    /\ engine.at \in {"free", "append"} \cup FoldSteps \cup ReadSteps
    /\ engine.at = "append" => engine \in Appends
    /\ engine.at \in ReadSteps => engine \in Readings
    /\ engine.at \in {"readbase", "readidx", "install"} => engine.cfg \in ShippedCfgs
    /\ engine.at \in {"readidx", "install"} => engine.base \in BaseSegments
    /\ engine.at \in {"append"} \cup FoldSteps => live # NoList
    /\ ship \in Ships
    /\ ship.at # "idle" => ship.bundle \in Pack
    /\ ship.at \in {"idle", "done"} => ~ship.journal
    /\ muts \in 0 .. MaxMuts /\ owed \subseteq Nat
    /\ left \in [folds : 0 .. MaxFolds, restarts : 0 .. MaxRestarts, ships : 0 .. MaxShips]

\* Every mutation on disk, in memory or being read has been begun.
BegunInv ==
    /\ dir.base.muts \cup dir.journal \subseteq 1 .. muts
    /\ live # NoList => live.over \cup live.base.muts \subseteq 1 .. muts
    /\ engine.at \in {"readidx", "install"} => engine.base.muts \subseteq 1 .. muts
    /\ engine.at = "append" => muts # 0

\* An index in use is the index of the entries it is used for.
IndexInv ==
    /\ live # NoList => live.idx = IndexOf(live.base, live.cfg)
    /\ engine.at = "install" => engine.idx = IndexOf(engine.base, engine.cfg)

\* `after' tells whether a shipment has begun since the operation did.
SinceInv ==
    /\ left.ships = MaxShips => ship.at = "idle"
    /\ engine.at \in {"append"} \cup ReadSteps =>
         /\ engine.after >= left.ships
         /\ ship.at \notin {"idle", "done"} => engine.after > left.ships
    /\ (engine.at = "append" /\ engine.after = left.ships /\ ship.at = "done") =>
         engine.inode = dir.inode

\* What is owed is in the directory and in memory; a fold has it in its base
\* and a reload in what it has read.
OwedInv ==
    /\ owed # {} => ship.at = "done"
    /\ owed \subseteq dir.base.muts \cup dir.journal
    /\ live # NoList => owed \subseteq live.base.muts \cup live.over
    /\ engine.at \in {"foldjournal", "foldcommit"} => owed \subseteq dir.base.muts
    /\ engine.at \in {"readidx", "install"} => owed \subseteq engine.base.muts \cup dir.journal

\* A shipment that was left alone is in the directory, and a reload that began
\* after it has read its files.
WholeInv ==
    /\ (ship.sole /\ ship.at \in {"base", "idx", "end", "done"}) => dir.cfg = ship.bundle.cfg
    /\ (ship.sole /\ ship.at \in {"idx", "end", "done"}) => dir.base = Base(ship.bundle)
    /\ (engine.at \in ReadSteps /\ engine.after = left.ships /\ ship.at = "done") =>
         /\ ship.sole
         /\ engine.at # "readconfig" => engine.cfg = ship.bundle.cfg
         /\ engine.at \in {"readidx", "install"} => engine.base = Base(ship.bundle)
    /\ (engine.at \in ReadSteps /\ engine.how = "reload") => dir.journal = {}

ShipInv == Types /\ BegunInv /\ IndexInv /\ SinceInv /\ OwedInv /\ WholeInv

-----------------------------------------------------------------------------
\* The operators build values of their types.
LEMMA Built ==
    /\ \A b \in Pack : b.cfg \in ShippedCfgs /\ Base(b) \in BaseSegments /\ Base(b).muts = {}
    /\ \A base \in BaseSegments, cfg \in ShippedCfgs :
         IndexOf(base, cfg) \in Indexes /\ IndexOf(base, cfg) = [base |-> base, cfg |-> cfg]
    /\ \A l \in LoadedLists :
         Folded(l) \in BaseSegments /\ Folded(l).muts = l.base.muts \cup l.over
<1>1. ASSUME NEW b \in Pack
      PROVE  b.cfg \in ShippedCfgs /\ Base(b) \in BaseSegments /\ Base(b).muts = {}
  BY DEF ShippedCfgs, Base, BaseSegments
<1>2. ASSUME NEW base \in BaseSegments, NEW cfg \in ShippedCfgs
      PROVE  IndexOf(base, cfg) \in Indexes /\ IndexOf(base, cfg) = [base |-> base, cfg |-> cfg]
  BY DEF IndexOf, Indexes
<1>3. ASSUME NEW l \in LoadedLists
      PROVE  Folded(l) \in BaseSegments /\ Folded(l).muts = l.base.muts \cup l.over
  BY DEF Folded, LoadedLists, BaseSegments
<1> QED
  BY <1>1, <1>2, <1>3

\* A bundle that was opened.
LEMMA InitShips ==
    ASSUME ShipConstants, ShipInit
    PROVE  ShipInv
<1>1. PICK b \in Pack :
        /\ dir = [cfg |-> b.cfg, base |-> Base(b), idx |-> NoList, journal |-> {}, inode |-> 0]
        /\ live = Loaded(b.cfg, Base(b), {}, IndexOf(Base(b), b.cfg))
  BY DEF ShipInit
<1>2. /\ dir \in ShippedDirs /\ live \in LoadedLists
  BY <1>1, Built DEF ShippedDirs, Loaded, LoadedLists
<1>3. /\ dir.base.muts = {} /\ dir.journal = {} /\ live.over = {} /\ live.base.muts = {}
      /\ live.idx = IndexOf(live.base, live.cfg)
  BY <1>1, Built DEF Loaded
<1>4. /\ ship.at = "idle" /\ ship.journal = FALSE /\ ship.sole = FALSE /\ ship \in Ships
      /\ engine.at = "free" /\ muts = 0 /\ owed = {}
  BY DEF ShipInit, Resting, Free, Ships
<1>5. left \in [folds : 0 .. MaxFolds, restarts : 0 .. MaxRestarts, ships : 0 .. MaxShips]
  BY DEF ShipInit, ShipConstants
<1>6. Types
  BY <1>2, <1>4, <1>5 DEF Types, FoldSteps, ReadSteps, ShipConstants
<1> QED
  BY <1>3, <1>4, <1>6
  DEF ShipInv, BegunInv, IndexInv, SinceInv, OwedInv, WholeInv, FoldSteps, ReadSteps

\* The shipper's steps.  They touch no memory, and while something is owed
\* there are none.
LEMMA ShipperKeeps ==
    ASSUME ShipConstants, ShipInv,
           \/ \E b \in Pack : ShipBegin(b)
           \/ ShipRemoveIdx \/ ShipConfig \/ ShipBase \/ ShipIdx \/ ShipRemoveJournal \/ ShipperDies
    PROVE  ShipInv'
<1> USE DEF ShipInv, ShipConstants
<1>0. dir \in ShippedDirs /\ ship \in Ships
  BY DEF Types
<1>1. ASSUME NEW b \in Pack, ShipBegin(b) PROVE ShipInv'
  <2>1. /\ UNCHANGED <<dir, live, engine, muts>> /\ owed' = {}
        /\ ship' = [at |-> "rmidx", bundle |-> b, journal |-> TRUE, sole |-> TRUE]
        /\ left' = [left EXCEPT !.ships = @ - 1] /\ left.ships > 0
    BY <1>1 DEF ShipBegin
  <2>2. /\ left' \in [folds : 0 .. MaxFolds, restarts : 0 .. MaxRestarts, ships : 0 .. MaxShips]
        /\ left'.ships = left.ships - 1 /\ left.ships \in 0 .. MaxShips
    BY <2>1 DEF Types
  <2>3. ship' \in Ships /\ ship'.at = "rmidx" /\ ship'.bundle = b
    BY <2>1 DEF Ships
  <2>4. Types'
    BY <2>1, <2>2, <2>3 DEF Types
  <2>5. BegunInv' /\ IndexInv' /\ OwedInv'
    BY <2>1 DEF BegunInv, IndexInv, OwedInv
  <2>6. engine.at \in {"append"} \cup ReadSteps => engine.after \in 0 .. MaxShips
    BY DEF Types, Appends, Readings
  <2>7. SinceInv'
    BY <2>1, <2>2, <2>3, <2>6 DEF SinceInv
  <2>8. WholeInv'
    BY <2>1, <2>3 DEF WholeInv
  <2> QED
    BY <2>4, <2>5, <2>7, <2>8
\* One file: base and journal lose mutations only together with their base.
<1>2. ASSUME NEW from \in {"rmidx", "config", "base", "idx"},
             NEW next \in {"config", "base", "idx", "end"}, NEW d \in ShippedDirs,
             ShipFile(from, next, d),
             d.journal = dir.journal, d.inode = dir.inode,
             d.base = dir.base \/ d.base.muts = {},
             ship.sole =>
               /\ next \in {"base", "idx", "end"} => d.cfg = ship.bundle.cfg
               /\ next \in {"idx", "end"} => d.base = Base(ship.bundle)
      PROVE  ShipInv'
  <2>1. /\ UNCHANGED <<live, engine, muts, owed, left>> /\ dir' = d /\ ship.at = from
        /\ ship' = [ship EXCEPT !.at = IF next = "end" /\ ~ship.journal THEN "done" ELSE next]
    BY <1>2 DEF ShipFile
  <2>2. /\ ship' \in Ships /\ ship'.bundle = ship.bundle /\ ship'.journal = ship.journal
        /\ ship'.sole = ship.sole /\ ship.bundle \in Pack
        /\ ship'.at = IF next = "end" /\ ~ship.journal THEN "done" ELSE next
    BY <1>0, <2>1 DEF Ships, Types
  <2>3. owed = {}
    BY <2>1 DEF OwedInv
  <2>4. Types'
    BY <2>1, <2>2 DEF Types
  <2>5. BegunInv' /\ IndexInv' /\ OwedInv'
    BY <1>2, <2>1, <2>3 DEF BegunInv, IndexInv, OwedInv
  <2>6. engine.at \in {"append"} \cup ReadSteps => engine.after \in 0 .. MaxShips
    BY DEF Types, Appends, Readings
  <2>7. left.ships \in 0 .. MaxShips
    BY DEF Types
  <2>8. SinceInv'
    BY <2>1, <2>2, <2>6, <2>7 DEF SinceInv
  <2>9. engine.at \in ReadSteps => engine.after # left.ships
    BY <2>1, <2>6, <2>7 DEF SinceInv
  <2>10. WholeInv'
    BY <1>2, <2>1, <2>2, <2>9 DEF WholeInv
  <2> QED
    BY <2>4, <2>5, <2>8, <2>10
<1>3. CASE ShipRemoveIdx
  <2>1. PICK d : d = [dir EXCEPT !.idx = NoList] /\ ShipFile("rmidx", "config", d)
    BY <1>3 DEF ShipRemoveIdx
  <2>2. d \in ShippedDirs /\ d.journal = dir.journal /\ d.inode = dir.inode /\ d.base = dir.base
    BY <1>0, <2>1 DEF ShippedDirs
  <2> QED
    BY <1>2, <2>1, <2>2
<1>4. CASE ShipConfig
  <2>1. PICK d : d = [dir EXCEPT !.cfg = ship.bundle.cfg] /\ ShipFile("config", "base", d)
    BY <1>4 DEF ShipConfig
  <2>2. ship.bundle.cfg \in ShippedCfgs
    BY <2>1, Built DEF Types, ShipFile
  <2>3. /\ d \in ShippedDirs /\ d.journal = dir.journal /\ d.inode = dir.inode
        /\ d.base = dir.base /\ d.cfg = ship.bundle.cfg
    BY <1>0, <2>1, <2>2 DEF ShippedDirs
  <2> QED
    BY <1>2, <2>1, <2>3
<1>5. CASE ShipBase
  <2>1. PICK d : d = [dir EXCEPT !.base = Base(ship.bundle)] /\ ShipFile("base", "idx", d)
    BY <1>5 DEF ShipBase
  <2>2. Base(ship.bundle) \in BaseSegments /\ Base(ship.bundle).muts = {} /\ ship.at = "base"
    BY <2>1, Built DEF Types, ShipFile
  <2>3. /\ d \in ShippedDirs /\ d.journal = dir.journal /\ d.inode = dir.inode
        /\ d.base = Base(ship.bundle) /\ d.cfg = dir.cfg
    BY <1>0, <2>1, <2>2 DEF ShippedDirs
  <2>4. ship.sole => d.cfg = ship.bundle.cfg
    BY <2>2, <2>3 DEF WholeInv
  <2> QED
    BY <1>2, <2>1, <2>2, <2>3, <2>4
<1>6. CASE ShipIdx
  <2>1. PICK d : /\ d = [dir EXCEPT !.idx = IndexOf(Base(ship.bundle), ship.bundle.cfg)]
                 /\ ShipFile("idx", "end", d)
    BY <1>6 DEF ShipIdx
  <2>2. IndexOf(Base(ship.bundle), ship.bundle.cfg) \in Indexes /\ ship.at = "idx"
    BY <2>1, Built DEF Types, ShipFile
  <2>3. /\ d \in ShippedDirs /\ d.journal = dir.journal /\ d.inode = dir.inode
        /\ d.base = dir.base /\ d.cfg = dir.cfg
    BY <1>0, <2>1, <2>2 DEF ShippedDirs
  <2>4. ship.sole => d.cfg = ship.bundle.cfg /\ d.base = Base(ship.bundle)
    BY <2>2, <2>3 DEF WholeInv
  <2> QED
    BY <1>2, <2>1, <2>3, <2>4
<1>7. CASE ShipRemoveJournal
  <2>1. /\ UNCHANGED <<live, engine, muts, owed, left>> /\ ship.journal
        /\ ship' = [ship EXCEPT !.journal = FALSE, !.at = IF @ = "end" THEN "done" ELSE @]
        /\ dir' = [dir EXCEPT !.journal = {}, !.inode = @ + 1]
    BY <1>7 DEF ShipRemoveJournal
  <2>2. /\ dir' \in ShippedDirs /\ dir'.cfg = dir.cfg /\ dir'.base = dir.base
        /\ dir'.journal = {}
    <3>1. dir.inode + 1 \in Nat
      BY <1>0 DEF ShippedDirs
    <3>2. dir' = [dir EXCEPT !.journal = {}, !.inode = dir.inode + 1]
      BY <1>0, <2>1 DEF ShippedDirs
    <3> QED
      BY <1>0, <3>1, <3>2 DEF ShippedDirs
  <2>3. /\ ship'.bundle = ship.bundle /\ ship'.journal = FALSE /\ ship'.sole = ship.sole
        /\ ship'.at = IF ship.at = "end" THEN "done" ELSE ship.at
        /\ ship' \in Ships /\ ship.at \notin {"idle", "done"}
    BY <1>0, <2>1 DEF Ships, Types
  <2>4. owed = {}
    BY <2>3 DEF OwedInv
  <2>5. Types'
    BY <2>1, <2>2, <2>3 DEF Types
  <2>6. BegunInv' /\ IndexInv' /\ OwedInv'
    BY <2>1, <2>2, <2>4 DEF BegunInv, IndexInv, OwedInv
  <2>7. /\ engine.at \in {"append"} \cup ReadSteps => engine.after \in 0 .. MaxShips
        /\ left.ships \in 0 .. MaxShips
    BY DEF Types, Appends, Readings
  <2>8. engine.at \in {"append"} \cup ReadSteps => engine.after > left.ships
    BY <2>3, <2>7 DEF SinceInv
  <2>9. SinceInv'
    BY <2>1, <2>3, <2>7, <2>8 DEF SinceInv
  <2>10. WholeInv'
    BY <2>1, <2>2, <2>3, <2>7, <2>8 DEF WholeInv
  <2> QED
    BY <2>5, <2>6, <2>9, <2>10
<1>8. CASE ShipperDies
  <2>1. /\ UNCHANGED <<dir, live, engine, muts, owed, left>> /\ ship.at \notin {"idle", "done"}
        /\ ship' = Resting
    BY <1>8 DEF ShipperDies
  <2>2. ship' \in Ships /\ ship'.at = "idle" /\ ship'.journal = FALSE /\ ship'.sole = FALSE
    BY <2>1 DEF Ships, Resting
  <2>3. owed = {}
    BY <2>1 DEF OwedInv
  <2>4. Types'
    BY <2>1, <2>2 DEF Types
  <2>5. BegunInv' /\ IndexInv' /\ OwedInv' /\ SinceInv' /\ WholeInv'
    BY <2>1, <2>2, <2>3 DEF BegunInv, IndexInv, OwedInv, SinceInv, WholeInv
  <2> QED
    BY <2>4, <2>5
<1> QED
  BY <1>1, <1>3, <1>4, <1>5, <1>6, <1>7, <1>8

\* The store's own write: the shipment is no longer alone in the directory.
LEMMA Disturbs ==
    ASSUME ship \in Ships, Disturbed
    PROVE  /\ ship' \in Ships /\ ship'.at = ship.at /\ ship'.bundle = ship.bundle
           /\ ship'.journal = ship.journal /\ ship'.sole = FALSE
  BY DEF Disturbed, Ships

\* Upsert and Delete: a mutation begun after the shipment writes to the journal
\* that is there.
LEMMA JournalKeeps ==
    ASSUME ShipConstants, ShipInv, AppendOpen \/ JournalWrite
    PROVE  ShipInv'
<1> USE DEF ShipInv, ShipConstants
<1>0. /\ dir \in ShippedDirs /\ ship \in Ships /\ muts \in 0 .. MaxMuts
      /\ left.ships \in 0 .. MaxShips
  BY DEF Types
<1>1. /\ ship' \in Ships /\ ship'.at = ship.at /\ ship'.bundle = ship.bundle
      /\ ship'.journal = ship.journal /\ ship'.sole = FALSE
  BY <1>0, Disturbs DEF AppendOpen, JournalWrite
<1>2. CASE AppendOpen
  <2>1. /\ UNCHANGED <<dir, live, owed, left>> /\ live # NoList /\ muts < MaxMuts
        /\ muts' = muts + 1 /\ engine = Free
    BY <1>2 DEF AppendOpen
  <2>2. PICK a \in 0 .. MaxShips :
          /\ a = (IF ship.at = "done" THEN left.ships ELSE MaxShips)
          /\ engine' = [at |-> "append", inode |-> dir.inode, after |-> a]
    BY <1>0, <1>2 DEF AppendOpen
  <2>3. /\ engine' \in Appends /\ engine'.at = "append" /\ engine'.after = a
        /\ engine'.inode = dir.inode
    BY <1>0, <2>2 DEF Appends, ShippedDirs
  <2>4. Types'
    BY <1>0, <1>1, <2>1, <2>3 DEF Types, FoldSteps, ReadSteps
  <2>5. BegunInv'
    BY <1>0, <2>1, <2>3 DEF BegunInv
  <2>6. SinceInv'
    <3>1. a >= left.ships /\ (ship.at \notin {"idle", "done"} => a > left.ships)
      BY <1>0, <2>2 DEF SinceInv
    <3> QED
      BY <1>1, <2>1, <2>3, <3>1 DEF SinceInv
  <2>7. IndexInv' /\ OwedInv' /\ WholeInv'
    BY <1>1, <2>1, <2>3 DEF IndexInv, OwedInv, WholeInv, ReadSteps
  <2> QED
    BY <2>4, <2>5, <2>6, <2>7
<1>3. CASE JournalWrite
  <2>1. /\ UNCHANGED <<muts, left>> /\ engine.at = "append" /\ engine' = Free
        /\ live \in LoadedLists /\ live # NoList
    BY <1>3 DEF JournalWrite, Types
  <2>2. /\ dir' = [dir EXCEPT !.journal =
                     IF engine.inode = dir.inode THEN dir.journal \cup {muts} ELSE dir.journal]
        /\ live' = [live EXCEPT !.over = live.over \cup {muts}]
    BY <1>0, <1>3, <2>1 DEF JournalWrite, ShippedDirs, LoadedLists
  <2>3. /\ dir' \in ShippedDirs /\ dir'.base = dir.base
        /\ dir'.journal = (IF engine.inode = dir.inode THEN dir.journal \cup {muts}
                           ELSE dir.journal)
    BY <1>0, <2>2 DEF ShippedDirs
  <2>4. /\ live' \in LoadedLists /\ live'.base = live.base /\ live'.cfg = live.cfg
        /\ live'.idx = live.idx /\ live'.over = live.over \cup {muts}
    BY <1>0, <2>1, <2>2 DEF LoadedLists
  <2>5. engine'.at = "free"
    BY <2>1 DEF Free
  <2>6. /\ owed' \subseteq owed \cup {muts}
        /\ muts \in owed' => (muts \in owed \/ (engine.after = left.ships /\ ship.at = "done"))
        /\ owed' # {} => ship.at = "done"
    BY <1>3 DEF JournalWrite, OwedInv
  <2>7. Types'
    BY <1>0, <1>1, <2>1, <2>3, <2>4, <2>5, <2>6 DEF Types, FoldSteps, ReadSteps
  <2>8. BegunInv'
    BY <1>0, <2>1, <2>3, <2>4, <2>5 DEF BegunInv
  <2>9. OwedInv'
    BY <1>1, <2>1, <2>3, <2>4, <2>5, <2>6 DEF OwedInv, SinceInv
  <2>10. IndexInv' /\ SinceInv' /\ WholeInv'
    BY <1>1, <2>1, <2>4, <2>5 DEF IndexInv, SinceInv, WholeInv, ReadSteps
  <2> QED
    BY <2>7, <2>8, <2>9, <2>10
<1> QED
  BY <1>2, <1>3

\* Compact: the fold moves what is owed from journal and overlay to the base.
LEMMA FoldKeeps ==
    ASSUME ShipConstants, ShipInv, FoldBegin \/ FoldBase \/ FoldJournal \/ FoldCommit
    PROVE  ShipInv'
<1> USE DEF ShipInv, ShipConstants, FoldSteps, ReadSteps
<1>0. dir \in ShippedDirs /\ ship \in Ships /\ live # NoList /\ live \in LoadedLists
      /\ engine.at \in {"free"} \cup FoldSteps
  BY DEF Types, FoldBegin, FoldBase, FoldJournal, FoldCommit, Free
<1>1. /\ ship' \in Ships /\ ship'.at = ship.at /\ ship'.bundle = ship.bundle
      /\ ship'.journal = ship.journal /\ ship'.sole = FALSE
  BY <1>0, Disturbs DEF FoldBegin, FoldBase, FoldJournal, FoldCommit
<1>2. CASE FoldBegin
  <2>1. /\ UNCHANGED <<live, muts, owed>> /\ engine' = [at |-> "foldbase"] /\ left.folds > 0
        /\ dir' = [dir EXCEPT !.idx = NoList] /\ left' = [left EXCEPT !.folds = @ - 1]
    BY <1>2 DEF FoldBegin
  <2>2. /\ dir' \in ShippedDirs /\ dir'.base = dir.base /\ dir'.journal = dir.journal
        /\ engine'.at = "foldbase"
    BY <1>0, <2>1 DEF ShippedDirs
  <2>3. /\ left' \in [folds : 0 .. MaxFolds, restarts : 0 .. MaxRestarts, ships : 0 .. MaxShips]
        /\ left'.ships = left.ships
    BY <2>1 DEF Types
  <2>4. Types'
    BY <1>0, <1>1, <2>1, <2>2, <2>3 DEF Types
  <2>5. BegunInv' /\ IndexInv' /\ SinceInv' /\ OwedInv' /\ WholeInv'
    BY <1>1, <2>1, <2>2, <2>3 DEF BegunInv, IndexInv, SinceInv, OwedInv, WholeInv
  <2> QED
    BY <2>4, <2>5
<1>3. CASE FoldBase
  <2>1. /\ UNCHANGED <<live, muts, owed, left>> /\ engine' = [at |-> "foldjournal"]
        /\ dir' = [dir EXCEPT !.base = Folded(live)]
    BY <1>3 DEF FoldBase
  <2>2. Folded(live) \in BaseSegments /\ Folded(live).muts = live.base.muts \cup live.over
    BY <1>0, Built
  <2>3. /\ dir' \in ShippedDirs /\ dir'.base = Folded(live) /\ dir'.journal = dir.journal
        /\ engine'.at = "foldjournal"
    BY <1>0, <2>1, <2>2 DEF ShippedDirs
  <2>4. Types'
    BY <1>0, <1>1, <2>1, <2>3 DEF Types
  <2>5. BegunInv' /\ IndexInv' /\ SinceInv' /\ WholeInv'
    BY <1>0, <1>1, <2>1, <2>2, <2>3 DEF BegunInv, IndexInv, SinceInv, WholeInv
  <2>6. OwedInv'
    BY <1>0, <1>1, <2>1, <2>2, <2>3 DEF OwedInv
  <2> QED
    BY <2>4, <2>5, <2>6
<1>4. CASE FoldJournal
  <2>1. /\ UNCHANGED <<live, muts, owed, left>> /\ engine' = [at |-> "foldcommit"]
        /\ dir' = [dir EXCEPT !.journal = {}] /\ engine.at = "foldjournal"
    BY <1>4 DEF FoldJournal
  <2>2. /\ dir' \in ShippedDirs /\ dir'.base = dir.base /\ dir'.journal = {}
        /\ engine'.at = "foldcommit"
    BY <1>0, <2>1 DEF ShippedDirs
  <2>3. Types'
    BY <1>0, <1>1, <2>1, <2>2 DEF Types
  <2>4. BegunInv' /\ IndexInv' /\ SinceInv' /\ OwedInv' /\ WholeInv'
    BY <1>1, <2>1, <2>2 DEF BegunInv, IndexInv, SinceInv, OwedInv, WholeInv
  <2> QED
    BY <2>3, <2>4
<1>5. CASE FoldCommit
  <2>1. /\ UNCHANGED <<muts, owed, left>> /\ engine' = Free /\ engine.at = "foldcommit"
        /\ live' = Loaded(live.cfg, Folded(live), {}, IndexOf(Folded(live), live.cfg))
    BY <1>5 DEF FoldCommit
  <2>2. PICK saved \in BOOLEAN :
          dir' = [dir EXCEPT !.idx = IF saved THEN IndexOf(Folded(live), live.cfg) ELSE dir.idx]
    BY <1>0, <1>5 DEF FoldCommit, ShippedDirs
  <2>3. /\ Folded(live) \in BaseSegments /\ Folded(live).muts = live.base.muts \cup live.over
        /\ live.cfg \in ShippedCfgs
    BY <1>0, Built DEF LoadedLists
  <2>4. IndexOf(Folded(live), live.cfg) \in Indexes
    BY <2>3, Built
  <2>5. /\ dir' \in ShippedDirs /\ dir'.base = dir.base /\ dir'.journal = dir.journal
        /\ engine'.at = "free"
    BY <1>0, <2>1, <2>2, <2>4 DEF ShippedDirs, Free
  <2>6. /\ live' \in LoadedLists /\ live'.base = Folded(live) /\ live'.over = {}
        /\ live'.cfg = live.cfg /\ live'.idx = IndexOf(Folded(live), live.cfg)
    BY <2>1, <2>3, <2>4 DEF Loaded, LoadedLists
  <2>7. Types'
    BY <1>0, <1>1, <2>1, <2>5, <2>6 DEF Types
  <2>8. BegunInv' /\ OwedInv'
    BY <1>0, <1>1, <2>1, <2>3, <2>5, <2>6 DEF BegunInv, OwedInv
  <2>9. IndexInv' /\ SinceInv' /\ WholeInv'
    BY <1>1, <2>1, <2>5, <2>6 DEF IndexInv, SinceInv, WholeInv
  <2> QED
    BY <2>7, <2>8, <2>9
<1> QED
  BY <1>2, <1>3, <1>4, <1>5

\* Reload and restart: openList reads the files while the shipper may change
\* them, but not while something is owed.
LEMMA ReadKeeps ==
    ASSUME ShipConstants, ShipInv,
           ReloadBegin \/ Restart \/ ReadConfig \/ ReadBase \/ ReadIdx \/ Install \/ ReloadGivesUp
    PROVE  ShipInv'
<1> USE DEF ShipInv, ShipConstants, FoldSteps, ReadSteps
<1>0. dir \in ShippedDirs /\ left.ships \in 0 .. MaxShips
  BY DEF Types
<1>1. ASSUME NEW how \in {"reload", "open"}, engine' = Reading(how),
             UNCHANGED <<dir, ship, muts, owed>>,
             live' = live \/ live' = NoList, left'.ships = left.ships,
             left' \in [folds : 0 .. MaxFolds, restarts : 0 .. MaxRestarts, ships : 0 .. MaxShips],
             how = "reload" => dir.journal = {}
      PROVE  ShipInv'
  <2>1. PICK a \in 0 .. MaxShips :
          /\ a = (IF ship.at = "done" /\ ship.sole THEN left.ships ELSE MaxShips)
          /\ engine' = [at |-> "readconfig", how |-> how, cfg |-> NoList, base |-> NoList,
                        idx |-> NoList, after |-> a]
    BY <1>0, <1>1 DEF Reading
  <2>2. /\ engine' \in Readings /\ engine'.at = "readconfig" /\ engine'.after = a
        /\ engine'.how = how
    BY <2>1 DEF Readings
  <2>3. Types'
    BY <1>0, <1>1, <2>2 DEF Types
  <2>4. BegunInv' /\ IndexInv' /\ OwedInv'
    BY <1>1, <2>2 DEF BegunInv, IndexInv, OwedInv
  <2>5. a >= left.ships /\ (ship.at \notin {"idle", "done"} => a > left.ships)
    BY <1>0, <2>1 DEF SinceInv
  <2>6. SinceInv'
    BY <1>1, <2>2, <2>5 DEF SinceInv
  <2>7. a = left.ships /\ ship.at = "done" => ship.sole
    BY <2>1 DEF SinceInv
  <2>8. WholeInv'
    BY <1>1, <2>2, <2>7 DEF WholeInv
  <2> QED
    BY <2>3, <2>4, <2>6, <2>8
<1>2. CASE ReloadBegin
  BY <1>1, <1>2 DEF ReloadBegin, Reloadable, Types
<1>3. CASE Restart
  <2>1. /\ left' \in [folds : 0 .. MaxFolds, restarts : 0 .. MaxRestarts, ships : 0 .. MaxShips]
        /\ left'.ships = left.ships
    BY <1>3 DEF Restart, Types
  <2> QED
    BY <1>1, <1>3, <2>1 DEF Restart
<1>4. CASE ReadConfig
  <2>1. /\ UNCHANGED <<dir, live, ship, muts, owed, left>> /\ engine.at = "readconfig"
        /\ engine' = [engine EXCEPT !.at = "readbase", !.cfg = dir.cfg] /\ engine \in Readings
    BY <1>4 DEF ReadConfig, Types
  <2>2. /\ engine' \in Readings /\ engine'.at = "readbase" /\ engine'.cfg = dir.cfg
        /\ engine'.after = engine.after /\ engine'.how = engine.how /\ dir.cfg \in ShippedCfgs
    BY <1>0, <2>1 DEF Readings, ShippedDirs
  <2>3. Types'
    BY <2>1, <2>2 DEF Types
  <2>4. BegunInv' /\ IndexInv' /\ OwedInv' /\ SinceInv' /\ WholeInv'
    BY <2>1, <2>2 DEF BegunInv, IndexInv, OwedInv, SinceInv, WholeInv
  <2> QED
    BY <2>3, <2>4
<1>5. CASE ReadBase
  <2>1. /\ UNCHANGED <<dir, live, ship, muts, owed, left>> /\ engine.at = "readbase"
        /\ engine' = [engine EXCEPT !.at = "readidx", !.base = dir.base] /\ engine \in Readings
        /\ engine.cfg \in ShippedCfgs
    BY <1>5 DEF ReadBase, Types
  <2>2. /\ engine' \in Readings /\ engine'.at = "readidx" /\ engine'.base = dir.base
        /\ engine'.cfg = engine.cfg /\ engine'.after = engine.after /\ engine'.how = engine.how
        /\ dir.base \in BaseSegments
    BY <1>0, <2>1 DEF Readings, ShippedDirs
  <2>3. Types'
    BY <2>1, <2>2 DEF Types
  <2>4. BegunInv' /\ IndexInv' /\ OwedInv' /\ SinceInv' /\ WholeInv'
    BY <2>1, <2>2 DEF BegunInv, IndexInv, OwedInv, SinceInv, WholeInv
  <2> QED
    BY <2>3, <2>4
<1>6. CASE ReadIdx
  <2>1. PICK ix : ix = IndexOf(engine.base, engine.cfg)
    OBVIOUS
  <2>2. /\ UNCHANGED <<live, ship, muts, owed, left>> /\ engine.at = "readidx"
        /\ engine \in Readings /\ engine.cfg \in ShippedCfgs /\ engine.base \in BaseSegments
    BY <1>6 DEF ReadIdx, Types
  <2>3. ix \in Indexes /\ ix = [base |-> engine.base, cfg |-> engine.cfg]
    BY <2>1, <2>2, Built
  \* An index that is used is the one that would be built.
  <2>4. Usable(dir.idx, engine.base, engine.cfg) => dir.idx = ix
    BY <1>0, <2>3 DEF Usable, ShippedDirs, Indexes
  <2>5. engine' = [engine EXCEPT !.at = "install", !.idx = ix]
    BY <1>6, <2>1, <2>4 DEF ReadIdx
  <2>6. PICK x \in Indexes \cup {NoList} : dir' = [dir EXCEPT !.idx = x]
    BY <1>0, <1>6, <2>1, <2>3 DEF ReadIdx, ShippedDirs
  <2>7. /\ dir' \in ShippedDirs /\ dir'.cfg = dir.cfg /\ dir'.base = dir.base
        /\ dir'.journal = dir.journal /\ dir'.inode = dir.inode
    BY <1>0, <2>6 DEF ShippedDirs
  <2>8. /\ engine' \in Readings /\ engine'.at = "install" /\ engine'.base = engine.base
        /\ engine'.cfg = engine.cfg /\ engine'.after = engine.after /\ engine'.how = engine.how
        /\ engine'.idx = ix
    BY <2>2, <2>3, <2>5 DEF Readings
  <2>9. Types'
    BY <2>2, <2>7, <2>8 DEF Types
  <2>10. BegunInv' /\ OwedInv' /\ SinceInv' /\ WholeInv'
    BY <2>2, <2>7, <2>8 DEF BegunInv, OwedInv, SinceInv, WholeInv
  <2>11. IndexInv'
    BY <2>1, <2>2, <2>8 DEF IndexInv
  <2> QED
    BY <2>9, <2>10, <2>11
<1>7. CASE Install
  <2>1. /\ UNCHANGED <<dir, ship, muts, owed, left>> /\ engine.at = "install" /\ engine' = Free
        /\ live' = Loaded(engine.cfg, engine.base, dir.journal, engine.idx)
        /\ engine.cfg \in ShippedCfgs /\ engine.base \in BaseSegments
    BY <1>7 DEF Install, Types
  <2>2. engine.idx = IndexOf(engine.base, engine.cfg) /\ engine.idx \in Indexes
    BY <2>1, Built DEF IndexInv
  <2>3. /\ live' \in LoadedLists /\ live'.base = engine.base /\ live'.over = dir.journal
        /\ live'.cfg = engine.cfg /\ live'.idx = engine.idx /\ engine'.at = "free"
    BY <1>0, <2>1, <2>2 DEF Loaded, LoadedLists, ShippedDirs, Free
  <2>4. Types'
    BY <2>1, <2>3 DEF Types
  <2>5. BegunInv' /\ IndexInv' /\ OwedInv' /\ SinceInv' /\ WholeInv'
    BY <2>1, <2>2, <2>3 DEF BegunInv, IndexInv, OwedInv, SinceInv, WholeInv
  <2> QED
    BY <2>4, <2>5
<1>8. CASE ReloadGivesUp
  <2>1. UNCHANGED <<dir, live, ship, muts, owed, left>> /\ engine'.at = "free"
    BY <1>8 DEF ReloadGivesUp, Free
  <2>2. Types'
    BY <2>1 DEF Types
  <2>3. BegunInv' /\ IndexInv' /\ OwedInv' /\ SinceInv' /\ WholeInv'
    BY <2>1 DEF BegunInv, IndexInv, OwedInv, SinceInv, WholeInv
  <2> QED
    BY <2>2, <2>3
<1> QED
  BY <1>2, <1>3, <1>4, <1>5, <1>6, <1>7, <1>8

\* Every step keeps the invariant.
LEMMA ShipStep ==
    ASSUME ShipConstants, ShipInv, [ShipNext]_shipVars
    PROVE  ShipInv'
<1>1. CASE UNCHANGED shipVars
  BY <1>1 DEF shipVars, ShipInv, Types, BegunInv, IndexInv, SinceInv, OwedInv, WholeInv
<1> QED
  BY <1>1, ShipperKeeps, JournalKeeps, FoldKeeps, ReadKeeps DEF ShipNext

-----------------------------------------------------------------------------
(* The theorems.                                                           *)

\* Directory, list, shipper, engine and history stay consistent however the
\* shipper, appends, folds, reloads and restarts interleave.
THEOREM ShipInvariance == ShipSpec => []ShipInv
<1>1. ShipInit => ShipInv
  BY InitShips, ShipAssumption
<1>2. ShipInv /\ [ShipNext]_shipVars => ShipInv'
  BY ShipStep, ShipAssumption
<1> QED
  BY <1>1, <1>2, PTL DEF ShipSpec

\* Type correctness of directory, list, shipper and engine.
THEOREM ShipTypeCorrect == ShipSpec => []ShipTypeOK
<1>1. ShipInv => ShipTypeOK
  BY ShipAssumption DEF ShipInv, Types, BegunInv, ShipTypeOK, FoldSteps, ReadSteps, Ships, ShipConstants
<1> QED
  BY <1>1, ShipInvariance, PTL

\* The list in memory answers from the index of its own entries and analyzer,
\* whatever the shipper puts at base.idx between the engine's reads
\* (installWithArtifact).
THEOREM IndexTheorem == ShipSpec => []IndexFitsBase
<1>1. ShipInv => IndexFitsBase
  BY DEF ShipInv, IndexInv, IndexFitsBase
<1> QED
  BY <1>1, ShipInvariance, PTL

\* No mutation that began after a complete shipment and was acknowledged is
\* lost to a fold, a reload or a restart (ReloadListVersioned).
THEOREM KeptTheorem == ShipSpec => []AckedIsKept
<1>1. ShipInv => AckedIsKept
  BY DEF ShipInv, OwedInv, AckedIsKept
<1> QED
  BY <1>1, ShipInvariance, PTL

\* A reload replays no journal over what was shipped, and after a shipment
\* that the store did not disturb it installs that bundle, configuration and
\* entries (ReloadListVersioned).
THEOREM WholeTheorem == ShipSpec => WholeBundleServed
<1>1. ShipInv /\ [ShipNext]_shipVars =>
        [(engine.at = "install" /\ engine.how = "reload" /\ live' \notin {live, NoList}) =>
           /\ live'.over = {}
           /\ (engine.after = left.ships /\ ship.at = "done") =>
                live'.cfg = ship.bundle.cfg /\ live'.base = Base(ship.bundle)]_shipVars
  <2> SUFFICES ASSUME ShipInv, ShipNext, engine.at = "install", engine.how = "reload",
                      live' \notin {live, NoList}
               PROVE  /\ live'.over = {}
                      /\ (engine.after = left.ships /\ ship.at = "done") =>
                           live'.cfg = ship.bundle.cfg /\ live'.base = Base(ship.bundle)
    BY DEF shipVars
  <2>1. Install
    BY DEF ShipNext, ShipBegin, ShipFile, ShipRemoveIdx, ShipConfig, ShipBase, ShipIdx,
           ShipRemoveJournal, ShipperDies, AppendOpen, JournalWrite, FoldBegin, FoldBase,
           FoldJournal, FoldCommit, ReloadBegin, Restart, ReadConfig, ReadBase, ReadIdx, ReloadGivesUp,
           Free
  <2>2. live' = Loaded(engine.cfg, engine.base, dir.journal, engine.idx)
    BY <2>1 DEF Install
  <2>3. /\ live'.cfg = engine.cfg /\ live'.base = engine.base /\ live'.over = dir.journal
    BY <2>2 DEF Loaded
  <2> QED
    BY <2>3 DEF ShipInv, WholeInv, ReadSteps
<1> QED
  BY <1>1, ShipInvariance, PTL DEF ShipSpec, WholeBundleServed
=============================================================================
