----------------------------- MODULE BundleShip -----------------------------
(***************************************************************************)
(* A bundle is shipped, file by file, into the directory of a list that a  *)
(* running store serves, mutates and folds, and is then reloaded           *)
(* (ReloadList and openList in engine/store.go).  The shipper is another   *)
(* process: it follows the ship discipline of docs/platform-contract.md,   *)
(* knows no lock of the store, and may die half way.                       *)
(*                                                                         *)
(* The content of a base is the bundle it began as and the mutations       *)
(* folded into it.  An index is what it was built from: base and analyzer, *)
(* for which the configuration stands.  Failing file operations and damage *)
(* are in ListStore.                                                       *)
(***************************************************************************)
EXTENDS Naturals, FiniteSets

CONSTANTS
    Pack,        \* bundles: configuration and entries
    NoList,      \* nothing served, no index, no bundle
    MaxMuts,     \* bound: mutations
    MaxFolds,    \* bound: compactions
    MaxShips,    \* bound: shipments
    MaxRestarts  \* bound: restarts of the store

VARIABLES
    dir,     \* config.json, base.jsonl, base.idx, journal.jsonl
    live,    \* the list in memory
    engine,  \* the operation that holds the list's lock
    ship,    \* the shipper
    muts,    \* mutations begun
    owed,    \* history: acknowledged, begun after the last shipment was complete
    left     \* folds and restarts left

ShipConstants ==
    MaxMuts \in Nat /\ MaxFolds \in Nat /\ MaxShips \in Nat /\ MaxRestarts \in Nat

ASSUME ShipAssumption == ShipConstants

shipVars == <<dir, live, engine, ship, muts, owed, left>>

Base(b) == [root |-> b.root, muts |-> {}]
IndexOf(base, cfg) == [base |-> base, cfg |-> cfg]
Loaded(cfg, base, over, idx) == [cfg |-> cfg, base |-> base, over |-> over, idx |-> idx]
Folded(l) == [l.base EXCEPT !.muts = @ \cup l.over]

Free == [at |-> "free"]
Resting == [at |-> "idle", bundle |-> NoList, journal |-> FALSE, sole |-> FALSE]

ShipInit ==
    /\ \E b \in Pack :
         /\ dir = [cfg |-> b.cfg, base |-> Base(b), idx |-> NoList, journal |-> {}, inode |-> 0]
         /\ live = Loaded(b.cfg, Base(b), {}, IndexOf(Base(b), b.cfg))
    /\ engine = Free /\ ship = Resting
    /\ muts = 0 /\ owed = {}
    /\ left = [folds |-> MaxFolds, restarts |-> MaxRestarts, ships |-> MaxShips]

----------------------------------------------------------------------------
(* The shipper.                                                            *)

\* Shipping has begun and the journal is still to go, or the file named.
ShipBegin(b) ==
    /\ ship.at \in {"idle", "done"} /\ left.ships > 0
    /\ ship' = [at |-> "rmidx", bundle |-> b, journal |-> TRUE, sole |-> TRUE]
    /\ left' = [left EXCEPT !.ships = @ - 1]
    /\ owed' = {}
    /\ UNCHANGED <<dir, live, engine, muts>>

ShipFile(at, next, d) ==
    /\ ship.at = at
    /\ ship' = [ship EXCEPT !.at = IF next = "end" /\ ~ship.journal THEN "done" ELSE next]
    /\ dir' = d
    /\ UNCHANGED <<live, engine, muts, owed, left>>

ShipRemoveIdx == ShipFile("rmidx", "config", [dir EXCEPT !.idx = NoList])
ShipConfig == ShipFile("config", "base", [dir EXCEPT !.cfg = ship.bundle.cfg])
ShipBase == ShipFile("base", "idx", [dir EXCEPT !.base = Base(ship.bundle)])
ShipIdx == ShipFile("idx", "end", [dir EXCEPT !.idx = IndexOf(Base(ship.bundle), ship.bundle.cfg)])

\* The journal is removed at any time: the discipline does not say when.
ShipRemoveJournal ==
    /\ ship.journal
    /\ ship' = [ship EXCEPT !.journal = FALSE, !.at = IF @ = "end" THEN "done" ELSE @]
    /\ dir' = [dir EXCEPT !.journal = {}, !.inode = @ + 1]
    /\ UNCHANGED <<live, engine, muts, owed, left>>

ShipperDies ==
    /\ ship.at \notin {"idle", "done"}
    /\ ship' = Resting
    /\ UNCHANGED <<dir, live, engine, muts, owed, left>>

\* The store touches config, base or journal: the shipment is not alone.
Disturbed == ship' = [ship EXCEPT !.sole = FALSE]

----------------------------------------------------------------------------
(* Mutations and folds.                                                    *)

\* appendJournal opens the file by name...
AppendOpen ==
    /\ engine = Free /\ live # NoList /\ muts < MaxMuts
    /\ engine' = [at |-> "append", inode |-> dir.inode, after |-> IF ship.at = "done" THEN left.ships ELSE MaxShips]
    /\ muts' = muts + 1
    /\ Disturbed
    /\ UNCHANGED <<dir, live, owed, left>>

\* ...and writes to what it opened; then the mutation is acknowledged.  It
\* is owed if it began after the shipment that is still the last one.
JournalWrite ==
    /\ engine.at = "append"
    /\ dir' = [dir EXCEPT !.journal = IF engine.inode = dir.inode THEN @ \cup {muts} ELSE @]
    /\ live' = [live EXCEPT !.over = @ \cup {muts}]
    /\ owed' = IF engine.after = left.ships /\ ship.at = "done" THEN owed \cup {muts} ELSE owed
    /\ engine' = Free
    /\ Disturbed
    /\ UNCHANGED <<muts, left>>

\* CompactVersioned, by a client or in the background: base.idx goes...
FoldBegin ==
    /\ engine = Free /\ live # NoList /\ left.folds > 0
    /\ engine' = [at |-> "foldbase"]
    /\ dir' = [dir EXCEPT !.idx = NoList]
    /\ left' = [left EXCEPT !.folds = @ - 1]
    /\ Disturbed
    /\ UNCHANGED <<live, muts, owed>>

FoldBase ==
    /\ engine.at = "foldbase"
    /\ engine' = [at |-> "foldjournal"]
    /\ dir' = [dir EXCEPT !.base = Folded(live)]
    /\ Disturbed
    /\ UNCHANGED <<live, muts, owed, left>>

FoldJournal ==
    /\ engine.at = "foldjournal"
    /\ engine' = [at |-> "foldcommit"]
    /\ dir' = [dir EXCEPT !.journal = {}]
    /\ Disturbed
    /\ UNCHANGED <<live, muts, owed, left>>

\* ...and is saved again, if it can be, once memory has the fold.
FoldCommit ==
    LET idx == IndexOf(Folded(live), live.cfg)
    IN /\ engine.at = "foldcommit"
       /\ engine' = Free
       /\ live' = Loaded(live.cfg, Folded(live), {}, idx)
       /\ \E saved \in BOOLEAN : dir' = [dir EXCEPT !.idx = IF saved THEN idx ELSE @]
       /\ Disturbed
       /\ UNCHANGED <<muts, owed, left>>

----------------------------------------------------------------------------
(* Reload and restart.                                                     *)

Reading(how) ==
    [at |-> "readconfig", how |-> how, cfg |-> NoList, base |-> NoList, idx |-> NoList,
     after |-> IF ship.at = "done" /\ ship.sole THEN left.ships ELSE MaxShips]

ReloadsAnything == TRUE

\* ReloadListVersioned: a journal with records in it is refused.
Reloadable == dir.journal = {}

ReloadBegin ==
    /\ engine = Free
    /\ Reloadable
    /\ engine' = Reading("reload")
    /\ UNCHANGED <<dir, live, ship, muts, owed, left>>

\* The process dies and is started again: Open.
Restart ==
    /\ left.restarts > 0
    /\ left' = [left EXCEPT !.restarts = @ - 1]
    /\ live' = NoList
    /\ engine' = Reading("open")
    /\ UNCHANGED <<dir, ship, muts, owed>>

\* openList reads the files one by one.
ReadConfig ==
    /\ engine.at = "readconfig"
    /\ engine' = [engine EXCEPT !.at = "readbase", !.cfg = dir.cfg]
    /\ UNCHANGED <<dir, live, ship, muts, owed, left>>

ReadBase ==
    /\ engine.at = "readbase"
    /\ engine' = [engine EXCEPT !.at = "readidx", !.base = dir.base]
    /\ UNCHANGED <<dir, live, ship, muts, owed, left>>

UsableUnnamed(idx, base, cfg) == idx # NoList /\ idx.cfg = cfg

\* installWithArtifact: the index must name this base and this analyzer.
Usable(idx, base, cfg) == idx # NoList /\ idx.base = base /\ idx.cfg = cfg

\* Otherwise the index is built, and saved if it can be.
ReadIdx ==
    LET fits == Usable(dir.idx, engine.base, engine.cfg)
        built == IndexOf(engine.base, engine.cfg)
    IN /\ engine.at = "readidx"
       /\ engine' = [engine EXCEPT !.at = "install", !.idx = IF fits THEN dir.idx ELSE built]
       /\ \E saved \in BOOLEAN : dir' = [dir EXCEPT !.idx = IF saved /\ ~fits THEN built ELSE @]
       /\ UNCHANGED <<live, ship, muts, owed, left>>

InstallUnreplayed ==
    /\ engine.at = "install"
    /\ live' = Loaded(engine.cfg, engine.base, {}, engine.idx)
    /\ engine' = Free
    /\ UNCHANGED <<dir, ship, muts, owed, left>>

\* The journal is replayed; a list that was reloaded is swapped in.
Install ==
    /\ engine.at = "install"
    /\ live' = Loaded(engine.cfg, engine.base, dir.journal, engine.idx)
    /\ engine' = Free
    /\ UNCHANGED <<dir, ship, muts, owed, left>>

\* A file cannot be read: the old list stays, or Open skips the directory.
ReloadGivesUp ==
    /\ engine.at \in {"readconfig", "readbase", "readidx", "install"}
    /\ engine' = Free
    /\ UNCHANGED <<dir, live, ship, muts, owed, left>>

ShipNext ==
    \/ \E b \in Pack : ShipBegin(b)
    \/ ShipRemoveIdx \/ ShipConfig \/ ShipBase \/ ShipIdx \/ ShipRemoveJournal \/ ShipperDies
    \/ AppendOpen \/ JournalWrite
    \/ FoldBegin \/ FoldBase \/ FoldJournal \/ FoldCommit
    \/ ReloadBegin \/ Restart \/ ReadConfig \/ ReadBase \/ ReadIdx \/ Install \/ ReloadGivesUp

ShipSpec == ShipInit /\ [][ShipNext]_shipVars

----------------------------------------------------------------------------
(* Properties.                                                             *)

\* Types of directory, list and lock holder.
ShipTypeOK ==
    /\ dir.journal \subseteq 1 .. MaxMuts
    /\ live # NoList => live.over \cup live.base.muts \subseteq 1 .. muts
    /\ engine.at \in {"free", "append", "foldbase", "foldjournal", "foldcommit",
                      "readconfig", "readbase", "readidx", "install"}
    /\ ship.at \in {"idle", "rmidx", "config", "base", "idx", "end", "done"}
    /\ left.folds \in 0 .. MaxFolds /\ left.restarts \in 0 .. MaxRestarts /\ left.ships \in 0 .. MaxShips

\* The list in memory never answers from an index of other entries or of
\* another analyzer, however shipper, folds, reloads and restarts interleave
\* over base.idx (installWithArtifact, saveArtifact).
IndexFitsBase ==
    live # NoList => live.idx = IndexOf(live.base, live.cfg)

\* A reload never replays a journal over what was shipped, and if the store
\* did not disturb a complete shipment, it installs that bundle: its
\* configuration and its entries, not those of the list served before
\* (ReloadListVersioned).  A shipment begun since ends it.
WholeBundleServed ==
    [][ (engine.at = "install" /\ engine.how = "reload" /\ live' \notin {live, NoList}) =>
        /\ live'.over = {}
        /\ (engine.after = left.ships /\ ship.at = "done") =>
              live'.cfg = ship.bundle.cfg /\ live'.base = Base(ship.bundle) ]_shipVars

\* A mutation begun after a shipment was complete and acknowledged is not
\* lost by a reload, a fold or a restart: reload refuses the directory
\* rather than drop it (ReloadListVersioned).
AckedIsKept ==
    live # NoList => owed \subseteq live.base.muts \cup live.over

\* "A corrupt or half-shipped bundle leaves the currently-served list exactly
\* as it was": configuration and entries are always those of one bundle.
HalfShippedNotServed ==
    live # NoList => \E b \in Pack : b.cfg = live.cfg /\ b.root = live.base.root
=============================================================================
