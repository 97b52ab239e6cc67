--------------------------- MODULE ListStorePower ---------------------------
(***************************************************************************)
(* ListStore on a file system that may lose what was not flushed.  Next to *)
(* the visible directory this module keeps what each name may turn out to  *)
(* be after a power loss: every value it had since the last directory      *)
(* fsync and, for the journal, every content the current file had since    *)
(* its last fsync (an unflushed append survives as any prefix).  The other *)
(* files are fsynced before they are renamed into place.                   *)
(***************************************************************************)
EXTENDS ListStore

VARIABLES
    names,    \* names[f]: values the directory entry f may revert to
    jold,     \* journal states under earlier directory entries
    jcur,     \* states the current journal file may revert to
    may,      \* history: may[i]: values of i acked last, or written since
    before    \* history: directories a power loss could leave before the PUT

pvars == <<vars, names, jold, jcur, may, before>>

Files == {"marker", "config", "base", "idx"}

Journal(d) == [recs |-> d.journal, torn |-> d.torn]

Directory(m, c, b, x, j) ==
    [marker |-> m, config |-> c, base |-> b, idx |-> x,
     journal |-> j.recs, torn |-> j.torn]

\* Every directory the machine may come back with.
PossibleDisks ==
    {Directory(m, c, b, x, j) : m \in names.marker, c \in names.config,
        b \in names.base, x \in names.idx, j \in jold \cup jcur}

Recoverable == {d \in PossibleDisks : Openable(d)}

\* What may survive of a journal that grew from d to e without a flush.
Prefixes(d, e) ==
    {[recs |-> SubSeq(e.journal, 1, n), torn |-> t] :
        n \in Len(d.journal) .. Len(e.journal) - 1, t \in BOOLEAN}

SameFile == (disk.journal = None) = (disk'.journal = None)

\* The file system's side of a step of ListStore.
Track ==
    /\ names' = [f \in Files |-> IF flush' = "dir" THEN {disk'[f]}
                                 ELSE names[f] \cup {disk'[f]}]
    /\ jold' = IF flush' = "dir" THEN {}
               ELSE IF SameFile THEN jold ELSE jold \cup jcur
    /\ jcur' = IF flush' = "journal" \/ ~SameFile THEN {Journal(disk')}
               ELSE IF disk'.journal = None THEN jcur
               ELSE jcur \cup {Journal(disk')} \cup Prefixes(disk, disk')

Written(recs, i) == {recs[n].val : n \in Touching(recs, i)}

\* What the acknowledgments so far promise of an entry: the value it was
\* acknowledged with, or one that an operation has written since that was not
\* acknowledged.  A restart of the process changes nothing about it.
Promises ==
    may' = [i \in IDs |->
        CASE op.kind = "idle" /\ op'.kind = "append" -> may[i] \cup Written(op'.recs, i)
          [] At({"append"}, {"commit"}) /\ up' /\ Touching(op.recs, i) # {} ->
               {ApplyRecs(NoEntries, op.recs)[i]}
          [] At({"replace"}, {"rename"}) /\ op'.at = "syncdir" -> may[i] \cup {op.base[i]}
          [] At({"create"}, {"unmark"}) /\ op'.at = "unmarkdir" -> may[i] \cup {None}
          [] At(BaseOps \cup {"create"}, {"install"}) /\ up' -> {Live(mem')[i]}
          [] OTHER -> may[i]]

Putting == op.kind = "create" \/ damage = "create"

\* A PUT over a failed PUT is one attempt.
Remember ==
    before' = CASE Putting' /\ ~Putting -> Recoverable
                [] Putting' /\ Putting  -> before
                [] OTHER -> {}

PInit ==
    /\ Init
    /\ names = [f \in Files |-> {disk[f]}]
    /\ jold = {}
    /\ jcur = {Journal(disk)}
    /\ may = [i \in IDs |-> {IF mem = None THEN None ELSE Live(mem)[i]}]
    /\ before = {}

Step == Next /\ Track /\ Promises /\ Remember

\* The machine loses power and comes back with one of the possible disks.
PowerLoss ==
    /\ \E d \in PossibleDisks :
         /\ disk' = d
         /\ names' = [f \in Files |-> {d[f]}]
         /\ jcur' = {Journal(d)}
         /\ may' = [i \in IDs |-> {Live(Opened(d))[i]}]
    /\ jold' = {}
    /\ up' = FALSE
    /\ mem' = None
    /\ damage' = "none"
    /\ op' = Idle
    /\ flush' = "nothing"
    /\ before' = {}
    /\ UNCHANGED <<acked, limbo>>

PNext == Step \/ PowerLoss

PSpec == PInit /\ [][PNext]_pvars

-----------------------------------------------------------------------------
\* A PUT happened or did not: while it is in flight or has failed, a power
\* loss leaves a directory that is skipped, one that was possible before the
\* PUT, or the complete new list.  Never the old configuration over wiped
\* data, and never the new one over old data (CreateListVersioned).
PutIsAtomic ==
    up /\ Putting =>
        \A d \in Recoverable \ before :
            \E c \in Cfgs : d = Directory(FALSE, c, None, None, [recs |-> None, torn |-> FALSE])

\* The directory names are as flushed: no older journal entry can come back,
\* nor a marker of an earlier PUT.
NamesSettled == jold = {} /\ TRUE \notin names.marker

\* A directory that opens, with every acknowledged mutation in it.
KeepsAcked(d) ==
    /\ Openable(d) /\ d.config = mem.cfg
    /\ \A i \in IDs : Live(Opened(d))[i] \in may[i]

\* With a flushing journal policy and settled names, power loss at any moment
\* leaves a list in which every entry has the value that was acknowledged
\* last, or one that was written since and not acknowledged (JournalFsync,
\* syncJournalTruncate, persistBase).
AckedSurvivesPowerLoss ==
    (up /\ mem # None /\ Fsync # "none" /\ NamesSettled /\ ~Putting) =>
        \A d \in PossibleDisks : KeepsAcked(d)

\* "FsyncEvery - fsync before every acknowledgment: full durability": an idle
\* undamaged list comes back with every acknowledged mutation.
FullDurability ==
    (up /\ mem # None /\ Fsync # "none" /\ op = Idle /\ damage = "none") =>
        \A d \in PossibleDisks : KeepsAcked(d)
=============================================================================
