----------------------------- MODULE ListStore -----------------------------
(***************************************************************************)
(* One list of a kurn Store: the in-memory List, its directory, and the    *)
(* multi-step mutations that keep the two in step (engine/store.go).       *)
(*                                                                         *)
(* Every mutation holds the list's lock from its first check to its        *)
(* acknowledgment, so at most one is in flight; `op' is that mutation and  *)
(* the file-system call it is about to make.  Any call may fail, and the   *)
(* process may die between any two calls.  What reaches stable storage     *)
(* (power loss) is added by ListStorePower; here `disk' is what the file   *)
(* system shows.                                                           *)
(*                                                                         *)
(* Abstractions.                                                           *)
(*  - An entry is its ID and the one analyzed key `val' it is indexed by.  *)
(*    Entry sets (base segments, base.jsonl, overlays) are functions from  *)
(*    IDs to values, None where there is no entry.                         *)
(*  - SHA-256 identities are the hashed content itself.                    *)
(*  - A journal is its sequence of intact records; `torn' says that a      *)
(*    fragment without newline follows them.                               *)
(*  - A configuration stands for everything that the artifact digest, the  *)
(*    index settings and the config digest of the stamp distinguish.       *)
(*  - A request refused before it touches the directory changes nothing    *)
(*    and is a stuttering step.                                            *)
(***************************************************************************)
EXTENDS Entries

CONSTANTS
    MaxRun,      \* exact.maxRun: entries of one segment that may share a key
    Fsync,       \* Store.JournalFsync
    Creates,     \* configurations that clients PUT
    Bases,       \* whole contents that clients Replace with
    MaxJournal   \* bound: records in the journal

ASSUME ModeAssumption == Fsync \in {"none", "every", "interval"}
ASSUME MaxRunAssumption == MaxRun \in Nat
ASSUME CreatesAssumption == Creates \subseteq Cfgs
ASSUME BasesAssumption == Bases \subseteq Contents
ASSUME NoneIsNoJournal == None \notin Seq(Recs)

VARIABLES
    disk,    \* the list directory
    mem,     \* the served *List, None when the store has no such list
    damage,  \* listState.damage
    op,      \* the mutation holding the list's lock
    up,      \* is the process running?
    acked,   \* history: the last list acknowledged or recovered, None if none was
    limbo,   \* history: what unacknowledged operations may have left
    flush    \* history: what the last step made durable

vars == <<disk, mem, damage, op, up, acked, limbo, flush>>

-----------------------------------------------------------------------------
(* Segments.                                                               *)

\* An ID is tombstoned only when the base holds it.
TombsOf(b, j) == {i \in IDs : b[i] # None /\ Touching(j, i) # {}}

\* Building a segment fails when too many entries share an analyzed key.
Buildable(m) == \A v \in Vals : Cardinality({i \in IDs : m[i] = v}) <= MaxRun

-----------------------------------------------------------------------------
(* The in-memory list.                                                     *)

Segment(id) == IF id = None THEN NoEntries ELSE id

Stamp(c, id, j) == [cfg |-> c, base |-> id, journal |-> j]

OptContents == Contents \cup {None}

Stamps == [cfg : Cfgs, base : OptContents, journal : Seq(Recs)]

Lists == [cfg : Cfgs, baseID : OptContents, base : Contents, over : Contents,
          tomb : SUBSET IDs, jhash : Seq(Recs), ver : Stamps,
          ix : [base : OptContents, cfg : Cfgs]]

ASSUME NoneIsNoList == None \notin Lists

\* The list that replaying journal j over base id under configuration c gives.
ListOf(c, id, j) ==
    [cfg    |-> c,
     baseID |-> id,
     base   |-> Segment(id),
     over   |-> ApplyRecs(NoEntries, j),
     tomb   |-> TombsOf(Segment(id), j),
     jhash  |-> j,
     ver    |-> Stamp(c, id, j),
     ix     |-> [base |-> id, cfg |-> c]]

Live(l) ==
    [i \in IDs |-> IF l.over[i] # None THEN l.over[i]
                   ELSE IF i \in l.tomb THEN None ELSE l.base[i]]

View(l) == [cfg |-> l.cfg, live |-> Live(l)]

Served == IF mem = None THEN None ELSE View(mem)

-----------------------------------------------------------------------------
(* Opening a directory.                                                    *)

JournalRecs(d) == IF d.journal = None THEN <<>> ELSE d.journal

Openable(d) == ~d.marker /\ d.config # None

\* Mutant: the load error is ignored.
AcceptsIdxUnloaded(d) == d.base # None

\* installWithArtifact: the cached index is used only for the base and the
\* configuration it was built from.
AcceptsIdx(d) == d.idx # None /\ d.idx.cfg = d.config /\ d.idx.base = d.base

BaseIx(d) == IF d.base # None /\ AcceptsIdx(d)
               THEN d.idx ELSE [base |-> d.base, cfg |-> d.config]

Poisoned(d) == ~Buildable(ApplyRecs(NoEntries, JournalRecs(d)))

\* openList: base, index and journal replay; a journal that cannot be built
\* is set aside and the list opens at its base.
Opened(d) ==
    [ListOf(d.config, d.base, IF Poisoned(d) THEN <<>> ELSE JournalRecs(d))
        EXCEPT !.ix = BaseIx(d)]

\* What openList leaves in the directory: the torn tail cut off, a poisoned
\* journal renamed away, a rebuilt index saved when saving works.
OpenedDisk(d, idxSaved) ==
    [d EXCEPT !.torn    = FALSE,
              !.journal = IF Poisoned(d) THEN None ELSE @,
              !.idx     = IF d.base # None /\ ~AcceptsIdx(d) /\ idxSaved
                            THEN [base |-> d.base, cfg |-> d.config] ELSE @]

-----------------------------------------------------------------------------
(* The mutation in flight.                                                 *)

Idle == [kind |-> "idle", at |-> "none", recs |-> <<>>, start |-> 0,
         base |-> None, cfg |-> None]

At(kinds, where) == up /\ op.kind \in kinds /\ op.at \in where

Goto(where) == op' = [op EXCEPT !.at = where]

Quiet == UNCHANGED <<mem, damage, up, acked, limbo>>

Dir(c, b, j) == [marker |-> FALSE, config |-> c, base |-> b, idx |-> None,
                 journal |-> j, torn |-> FALSE]

\* A directory opened for the first time, or no list under this name yet.
Init ==
    /\ \/ \E c \in Cfgs, b \in Bases \cup {None}, j \in {None, <<>>} :
            /\ b # None => Buildable(b)
            /\ disk = Dir(c, b, j)
            /\ mem = ListOf(c, b, <<>>)
            /\ acked = View(ListOf(c, b, <<>>))
       \/ /\ disk = Dir(None, None, None)
          /\ mem = None
          /\ acked = None
    /\ damage = "none"
    /\ op = Idle
    /\ up = TRUE
    /\ limbo = {}
    /\ flush = "nothing"

-----------------------------------------------------------------------------
(* Upsert and Delete: prepare, append to the journal, commit the overlay.  *)

Outcome(recs) == [View(mem) EXCEPT !.live = ApplyRecs(@, recs)]

\* The overlay is built before anything touches disk; a damaged list refuses
\* the append.  Opening the journal creates it.
BeginAppend(recs) ==
    /\ At({"idle"}, {"none"})
    /\ mem # None
    /\ damage = "none"
    /\ Buildable(ApplyRecs(mem.over, recs))
    /\ Len(JournalRecs(disk)) + Len(recs) <= MaxJournal
    /\ disk' = [disk EXCEPT !.journal = JournalRecs(disk)]
    /\ op' = [Idle EXCEPT !.kind = "append", !.at = "write", !.recs = recs,
                          !.start = Len(JournalRecs(disk))]
    /\ limbo' = {Outcome(SubSeq(recs, 1, n)) : n \in 1 .. Len(recs)}
    /\ flush' = "nothing"
    /\ UNCHANGED <<mem, damage, up, acked>>

\* Records glued to a fragment are never replayed.
AppendWrite ==
    /\ At({"append"}, {"write"})
    /\ disk' = IF disk.torn THEN disk ELSE [disk EXCEPT !.journal = @ \o op.recs]
    /\ Goto("sync")
    /\ flush' = "nothing"
    /\ Quiet

\* A failed write leaves some whole records and perhaps a fragment.
AppendWriteFails ==
    /\ At({"append"}, {"write"})
    /\ \E n \in 0 .. Len(op.recs) - 1, t \in BOOLEAN :
         disk' = [disk EXCEPT !.journal = @ \o SubSeq(op.recs, 1, n), !.torn = t]
    /\ Goto("rollback")
    /\ flush' = "nothing"
    /\ Quiet

\* f.Sync before the close, or the group commit after it.
AppendSync ==
    /\ At({"append"}, {"sync"})
    /\ Goto("commit")
    /\ flush' = IF Fsync = "none" THEN "nothing" ELSE "journal"
    /\ UNCHANGED disk
    /\ Quiet

\* A failed sync or group commit, or a failed close after the sync.
AppendSyncFails ==
    /\ At({"append"}, {"sync"})
    /\ Goto("rollback")
    /\ flush' \in {"nothing", IF Fsync = "every" THEN "journal" ELSE "nothing"}
    /\ UNCHANGED disk
    /\ Quiet

\* Nothing was acknowledged: the journal is cut back to where it began.
AppendRollback ==
    /\ At({"append"}, {"rollback"})
    /\ disk' = [disk EXCEPT !.journal = SubSeq(@, 1, op.start), !.torn = FALSE]
    /\ op' = Idle
    /\ limbo' = {}
    /\ flush' = "nothing"
    /\ UNCHANGED <<mem, damage, up, acked>>

\* Mutant: the failed rollback is not recorded.
AppendRollbackFailsIgnored ==
    /\ At({"append"}, {"rollback"})
    /\ op' = Idle
    /\ flush' = "nothing"
    /\ UNCHANGED <<disk, mem, damage, up, acked, limbo>>

\* The journal no longer equals its hash: appends are refused from here on.
AppendRollbackFails ==
    /\ At({"append"}, {"rollback"})
    /\ damage' = "content"
    /\ op' = Idle
    /\ flush' = "nothing"
    /\ UNCHANGED <<disk, mem, up, acked, limbo>>

\* Mutant: an upsert or delete does not hide the base's version of its entry.
CommittedUntombed(l, recs) ==
    LET j == l.jhash \o recs IN
    [l EXCEPT !.over  = ApplyRecs(@, recs),
              !.jhash = j,
              !.ver   = Stamp(l.cfg, l.baseID, j)]

\* appendJournal extends the running hash, commitOverlayLockedAt swaps the
\* snapshot in and stamps it.
Committed(l, recs) ==
    LET j == l.jhash \o recs IN
    [l EXCEPT !.over  = ApplyRecs(@, recs),
              !.tomb  = @ \cup TombsOf(l.base, recs),
              !.jhash = j,
              !.ver   = Stamp(l.cfg, l.baseID, j)]

AppendCommit ==
    /\ At({"append"}, {"commit"})
    /\ mem' = Committed(mem, op.recs)
    /\ acked' = Outcome(op.recs)
    /\ op' = Idle
    /\ limbo' = {}
    /\ flush' = "nothing"
    /\ UNCHANGED <<disk, damage, up>>

-----------------------------------------------------------------------------
(* Compact and Replace: a new base, then an empty journal, then memory.    *)

BaseOps == {"compact", "replace"}

\* Mutant: content operations also "repair" create damage.
BeginBaseAnyDamage(kind, content) ==
    /\ At({"idle"}, {"none"})
    /\ mem # None
    /\ Buildable(content)
    /\ op' = [Idle EXCEPT !.kind = kind, !.at = "rmidx", !.base = content]
    /\ flush' = "nothing"
    /\ UNCHANGED disk
    /\ Quiet

\* PrepareCompact or prepareBase builds the segment; create damage refuses.
BeginBase(kind, content) ==
    /\ At({"idle"}, {"none"})
    /\ mem # None
    /\ damage # "create"
    /\ Buildable(content)
    /\ op' = [Idle EXCEPT !.kind = kind, !.at = "rmidx", !.base = content]
    /\ flush' = "nothing"
    /\ UNCHANGED disk
    /\ Quiet

BeginCompact == mem # None /\ BeginBase("compact", Live(mem))

BeginReplace(content) == BeginBase("replace", content)

\* Mutant: the journal is emptied before the new base is in place.
BaseRemoveIdxAndJournal ==
    /\ At(BaseOps, {"rmidx"})
    /\ disk' = [disk EXCEPT !.idx = None,
                            !.journal = IF @ = None THEN None ELSE <<>>]
    /\ Goto("rename")
    /\ flush' = "nothing"
    /\ Quiet

\* persistBase: the stale index goes before the new base comes.
BaseRemoveIdx ==
    /\ At(BaseOps, {"rmidx"})
    /\ disk' = [disk EXCEPT !.idx = None]
    /\ Goto("rename")
    /\ flush' = "nothing"
    /\ Quiet

\* From here until the journal is truncated a restart replays the old
\* journal over the new base.
BaseRename ==
    /\ At(BaseOps, {"rename"})
    /\ disk' = [disk EXCEPT !.base = op.base]
    /\ Goto("syncdir")
    /\ limbo' = IF op.kind = "compact" THEN limbo
                ELSE limbo \cup {[cfg |-> mem.cfg, live |-> m] :
                       m \in {op.base, ApplyRecs(op.base, JournalRecs(disk))}}
    /\ flush' = "nothing"
    /\ UNCHANGED <<mem, damage, up, acked>>

BaseSyncDir ==
    /\ At(BaseOps, {"syncdir"})
    /\ Goto("truncate")
    /\ flush' = "dir"
    /\ UNCHANGED disk
    /\ Quiet

\* A missing journal is already empty.
BaseTruncate ==
    /\ At(BaseOps, {"truncate"})
    /\ IF disk.journal = None
         THEN Goto("install") /\ UNCHANGED disk
         ELSE Goto("synctrunc") /\ disk' = [disk EXCEPT !.journal = <<>>, !.torn = FALSE]
    /\ flush' = "nothing"
    /\ Quiet

\* Mutant: the truncation is acknowledged without a flush.
BaseSyncTruncateSkipped ==
    /\ At(BaseOps, {"synctrunc"})
    /\ Goto("install")
    /\ flush' = "nothing"
    /\ UNCHANGED disk
    /\ Quiet

\* syncJournalTruncate: durable before memory acknowledges.
BaseSyncTruncate ==
    /\ At(BaseOps, {"synctrunc"})
    /\ Goto("install")
    /\ flush' = "journal"
    /\ UNCHANGED disk
    /\ Quiet

\* The journal hash restarts, damage is repaired, the new base is served.
BaseInstall ==
    /\ At(BaseOps, {"install"})
    /\ damage' = "none"
    /\ mem' = ListOf(mem.cfg, op.base, <<>>)
    /\ acked' = [cfg |-> mem.cfg, live |-> op.base]
    /\ limbo' = {}
    /\ Goto("saveidx")
    /\ flush' = "nothing"
    /\ UNCHANGED <<disk, up>>

\* saveArtifact is best effort: its failure is not the operation's.
BaseSaveIdx ==
    /\ At(BaseOps, {"saveidx"})
    /\ \/ disk' = [disk EXCEPT !.idx = [base |-> mem.baseID, cfg |-> mem.cfg]]
       \/ UNCHANGED disk
    /\ op' = Idle
    /\ flush' = "nothing"
    /\ Quiet

\* Once the base was renamed the operation cannot be undone: the list is
\* damaged until a rebuild succeeds.
BaseFails ==
    /\ At(BaseOps, {"rmidx", "rename", "syncdir", "truncate", "synctrunc"})
    /\ damage' = IF op.at \in {"rmidx", "rename"} THEN damage ELSE "content"
    /\ op' = Idle
    /\ flush' = "nothing"
    /\ UNCHANGED <<disk, mem, up, acked, limbo>>

-----------------------------------------------------------------------------
(* CreateList (PUT): a marker brackets the wipe and the new configuration. *)

BeginCreate(c) ==
    /\ At({"idle"}, {"none"})
    /\ op' = [Idle EXCEPT !.kind = "create", !.at = "mark", !.cfg = c]
    /\ flush' = "nothing"
    /\ UNCHANGED disk
    /\ Quiet

\* One call of the create: at `from' it changes the directory and goes on.
CreateCall(from, to, d) ==
    /\ At({"create"}, {from})
    /\ disk' = d
    /\ Goto(to)
    /\ flush' = "nothing"
    /\ UNCHANGED <<mem, damage, up, acked>>

CreateSync(from, to) ==
    /\ At({"create"}, {from})
    /\ Goto(to)
    /\ flush' = "dir"
    /\ UNCHANGED disk
    /\ Quiet

\* Mutant: the wipe begins without its marker.
CreateMarkSkipped ==
    /\ CreateCall("mark", "markdir", disk)
    /\ UNCHANGED limbo

CreateMark ==
    /\ CreateCall("mark", "markdir", [disk EXCEPT !.marker = TRUE])
    /\ UNCHANGED limbo

\* Mutant: the wipe begins before the marker is durable.
CreateMarkDirUnsynced ==
    /\ CreateCall("markdir", "wipebase", disk)
    /\ UNCHANGED limbo

CreateMarkDir == CreateSync("markdir", "wipebase")

CreateWipeBase ==
    /\ CreateCall("wipebase", "wipeidx", [disk EXCEPT !.base = None])
    /\ UNCHANGED limbo

CreateWipeIdx ==
    /\ CreateCall("wipeidx", "wipejournal", [disk EXCEPT !.idx = None])
    /\ UNCHANGED limbo

CreateWipeJournal ==
    /\ CreateCall("wipejournal", "config",
                  [disk EXCEPT !.journal = None, !.torn = FALSE])
    /\ UNCHANGED limbo

CreateConfig ==
    /\ CreateCall("config", "configdir", [disk EXCEPT !.config = op.cfg])
    /\ UNCHANGED limbo

CreateConfigDir == CreateSync("configdir", "unmark")

\* From here a restart serves the new, still unacknowledged list.
CreateUnmark ==
    /\ CreateCall("unmark", "unmarkdir", [disk EXCEPT !.marker = FALSE])
    /\ limbo' = limbo \cup {[cfg |-> op.cfg, live |-> NoEntries]}

CreateUnmarkDir == CreateSync("unmarkdir", "install")

CreateInstall ==
    /\ At({"create"}, {"install"})
    /\ damage' = "none"
    /\ mem' = ListOf(op.cfg, None, <<>>)
    /\ acked' = [cfg |-> op.cfg, live |-> NoEntries]
    /\ limbo' = {}
    /\ op' = Idle
    /\ flush' = "nothing"
    /\ UNCHANGED <<disk, up>>

\* A failure before the marker is published leaves the old list whole; any
\* later one leaves old memory over a directory only a new PUT can repair.
CreateFails ==
    /\ At({"create"}, {"mark", "markdir", "wipebase", "wipeidx", "wipejournal",
                       "config", "configdir", "unmark", "unmarkdir"})
    /\ damage' = IF op.at = "mark" THEN damage ELSE "create"
    /\ op' = Idle
    /\ flush' = "nothing"
    /\ UNCHANGED <<disk, mem, up, acked, limbo>>

-----------------------------------------------------------------------------
(* Reload, crash and restart.                                              *)

\* The list this process serves from now on is what openList made of disk.
Adopt ==
    /\ \E saved \in BOOLEAN : disk' = OpenedDisk(disk, saved)
    /\ mem' = Opened(disk)
    /\ acked' = View(Opened(disk))
    /\ limbo' = {}
    /\ flush' = "nothing"

\* ReloadList: refused on any damage and on a journal with bytes in it.
Reload ==
    /\ At({"idle"}, {"none"})
    /\ damage = "none"
    /\ JournalRecs(disk) = <<>> /\ ~disk.torn
    /\ Openable(disk)
    /\ Adopt
    /\ UNCHANGED <<damage, op, up>>

\* What openList may have changed when it gives up: the index healed, the torn
\* tail cut off.
GiveUp ==
    \/ ~Openable(disk) /\ UNCHANGED disk
    \/ /\ Openable(disk)
       /\ \E saved \in BOOLEAN, t \in {disk.torn, FALSE} :
            disk' = [disk EXCEPT !.idx = OpenedDisk(disk, saved).idx, !.torn = t]

\* The old list stays served.
ReloadFails ==
    /\ At({"idle"}, {"none"})
    /\ damage = "none"
    /\ JournalRecs(disk) = <<>> /\ ~disk.torn
    /\ GiveUp
    /\ flush' = "nothing"
    /\ UNCHANGED op
    /\ Quiet

\* The process dies: memory is gone, the directory stays as it is.
Crash ==
    /\ up
    /\ up' = FALSE
    /\ mem' = None
    /\ damage' = "none"
    /\ op' = Idle
    /\ flush' = "nothing"
    /\ UNCHANGED <<disk, acked, limbo>>

Open ==
    /\ ~up
    /\ Openable(disk)
    /\ up' = TRUE
    /\ Adopt
    /\ UNCHANGED <<damage, op>>

\* The directory is skipped: marked, without configuration, or unreadable.
OpenSkips ==
    /\ ~up
    /\ GiveUp
    /\ up' = TRUE
    /\ flush' = "nothing"
    /\ UNCHANGED <<mem, damage, op, acked, limbo>>

AppendStep ==
    \/ \E recs \in Batches : BeginAppend(recs)
    \/ AppendWrite \/ AppendWriteFails
    \/ AppendSync \/ AppendSyncFails
    \/ AppendRollback \/ AppendRollbackFails
    \/ AppendCommit

BaseStep ==
    \/ BeginCompact
    \/ \E b \in Bases : BeginReplace(b)
    \/ BaseRemoveIdx \/ BaseRename \/ BaseSyncDir \/ BaseTruncate
    \/ BaseSyncTruncate \/ BaseInstall \/ BaseSaveIdx \/ BaseFails

CreateStep ==
    \/ \E c \in Creates : BeginCreate(c)
    \/ CreateMark \/ CreateMarkDir
    \/ CreateWipeBase \/ CreateWipeIdx \/ CreateWipeJournal
    \/ CreateConfig \/ CreateConfigDir
    \/ CreateUnmark \/ CreateUnmarkDir
    \/ CreateInstall \/ CreateFails

ProcessStep == Reload \/ ReloadFails \/ Crash \/ Open \/ OpenSkips

Next == AppendStep \/ BaseStep \/ CreateStep \/ ProcessStep

Spec == Init /\ [][Next]_vars

-----------------------------------------------------------------------------
(* Properties.                                                             *)

Directories ==
    [marker : BOOLEAN, config : Cfgs \cup {None}, base : OptContents,
     idx : [base : OptContents, cfg : Cfgs] \cup {None},
     journal : Seq(Recs) \cup {None}, torn : BOOLEAN]

Phases ==
    {"none", "write", "sync", "rollback", "commit", "rmidx", "rename", "syncdir",
     "truncate", "synctrunc", "install", "saveidx", "mark", "markdir", "wipebase",
     "wipeidx", "wipejournal", "config", "configdir", "unmark", "unmarkdir"}

Ops == [kind : {"idle", "append", "create"} \cup BaseOps, at : Phases,
        recs : Seq(Recs), start : Nat, base : OptContents, cfg : Cfgs \cup {None}]

\* Type invariant: the directory, the list object, the operation in flight
\* and the history variables have the shapes the code gives them.
TypeOK ==
    /\ disk \in Directories
    /\ mem \in Lists \cup {None}
    /\ damage \in {"none", "content", "create"}
    /\ op \in Ops
    /\ up \in BOOLEAN
    /\ acked \in Views \cup {None}
    /\ limbo \in SUBSET Views
    /\ flush \in {"nothing", "dir", "journal"}

\* A restart reproduces an idle, undamaged list exactly: the same entries,
\* overlay and tombstones, the same index and the same version stamp
\* (List.baseID: "same disk state and resolved configuration => same version").
RestartServesAcked ==
    (up /\ op = Idle /\ mem # None /\ damage = "none")
        => Openable(disk) /\ Opened(disk) = mem

\* The version stamp verifies itself: at every moment, damaged or not, the
\* entries served are what replaying the stamped journal over the stamped
\* base gives (List.jhash and List.baseID).
StampDeterminesContent ==
    mem # None => Live(mem) = ApplyRecs(Segment(mem.ver.base), mem.ver.journal)

\* Compact: "every crash point recovers to the ACKNOWLEDGED state on restart"
\* for a list that was not damaged when the compaction began.
CompactCrashSafe ==
    (up /\ op.kind = "compact" /\ damage = "none")
        => Openable(disk) /\ View(Opened(disk)) = View(mem)

\* While a failed operation's damage stands, nothing is acknowledged except
\* by the rebuild that repairs it: content damage by Compact, Replace or PUT,
\* create damage only by PUT (listState.damage).
DamageContained ==
    [][ /\ (damage # "none" /\ up' /\ acked' # acked) => damage' = "none"
        /\ (damage = "create" /\ damage' # "create") => (~up' \/ op.kind = "create")
      ]_vars

\* A restart never finds a journal it cannot build: overlayBuild is prepared
\* before the append, so "replay can never be poisoned by a
\* journaled-but-uninstallable batch".
ReplayNeverPoisoned == ~up /\ Openable(disk) => ~Poisoned(disk)

\* The promise of AckedList, kept across failures, crashes and restarts: what
\* is served is the acknowledged list, and after a restart it is that list or
\* one that an unacknowledged operation announced.
Promise == INSTANCE AckedList WITH served <- Served

PromiseKept == Promise!Spec
=============================================================================
