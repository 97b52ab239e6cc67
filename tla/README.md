# A TLA+ model of kurn

kurn matches names, identifiers and free text against lists. A *list* is a base
of entries with an index, plus an overlay of later changes; `engine` keeps lists
in memory and on disk, `server` serves them over HTTP to one or many tenants,
`engine/prepared` builds and maps read-only artifacts, and `cmd/kurnd` is the
daemon around them. This directory models the parts of that system in which
state, failure and concurrency meet, checks them with TLC and proves the central
ones with TLAPS. Nothing here is derived from the documentation: each definition
follows the source lines that `PROJECT.json` (`map`) names; the documentation
supplies the promises the properties state.

## 1. Inventory

| Component (source) | State | Operations | What is hard | What makes it correct |
|---|---|---|---|---|
| List store on disk (`engine/store.go`, `journal.go`) | directory of `config.json`, `base.jsonl`, `base.idx`, `journal.jsonl`, marker; `listState` with list and damage kind | Upsert, Delete, Compact, Replace, CreateList (PUT), ReloadList, Open | each is a sequence of file operations; any may fail, the process may die between two | a restart serves what was acknowledged; damage is never built upon |
| Durability (`store.go`: `syncPath`, `syncDir`, `JournalFsync`) | what has been flushed | fsync of file, of directory | power loss keeps any subset of what was not flushed | acknowledged changes survive; a PUT is all or nothing |
| Store lifecycle (`store.go`: `beginOp` … `Close`, `groupCommit`, `maybeAutoCompact`) | closed flag, running operations, per-list lock, committer, fold flag | mutations, background folds, group commit, Close | goroutines of five kinds | nothing runs after Close; everybody returns; one fold per list |
| List in memory (`engine/list.go`) | snapshot: base, overlay, tombstones, version stamp | Query, prepare/commit overlay, install base | a query runs on the snapshot it was charged for while installs go on | the answer is what the pinned snapshot holds; a stamp determines the content |
| Exact and n-gram index (`engine/exact`, `engine/ngram`) | postings, built once | build, lookup, pigeonhole scan, bounded collection | hot-key limits, shared postings, a floor that moves while scanning | agree with a naive scan of the entries |
| Ranking and any-of selection (`engine/list.go`, `rank.go`) | heaps of top-K size | offer, evict, merge, attribute | ties, K of 0 or all, several keys naming one entry | what is kept is the head of the full order |
| Filters and payloads (`typed_filter.go`, `payload.go`) | compiled filter | canonicalise, compile, one strict pass over a payload | spellings of one value, duplicate keys, an early verdict | the verdict is the term-by-term one |
| Analyzer | none (pure) | normalise | text processing | |
| Index cache codec (`engine/artifact`) | `base.idx` | save, load | stale cache beside a new base | accepted only for its own base and configuration |
| Artifact format and verification (`engine/prepared`) | bytes | Encode, NewView, VerifyBytes at three levels | arithmetic on untrusted offsets | an accepted view never reads outside its section and has one encoding; full verification implies the header's content |
| Artifact publication (`prepared/publish.go`) | temporary files, the destination | Publish | racing publishers, crashes, power loss | absent or complete, never replaced |
| Mapped registry (`prepared/mapped.go`) | one admission per process, one mapping | OpenMapped | lock given up on one path, files edited underneath | one artifact for all, never unmapped |
| Query admission (`server/admit.go`, `server.go`) | two levels of weighted semaphores | admit, wait, time out, run, release | reload replaces an admitter that is in use | ceilings hold, accounts balance, nobody starves |
| Tenants (`server/tenants.go`, `cmd/kurnd/main.go`) | registry, opened stores | SIGHUP: read, open, swap, close | old requests on old objects, stores closing | one store per directory, nothing lost |
| Readiness (`server/ready.go`) | cache keyed by versions and damage | probe | a key read piecemeal | verdict is the store's |
| Artifact serving (`cmd/kurnd/main.go`) | gate, listener, late store | open, install, serve, drain | signal at any moment of the open | drain wins, store released |
| HTTP mutating handlers, quotas, audit (`server/server.go`, `quota.go`, `audit.go`) | per request | PUT, replace, upsert, delete, compact, reload; NDJSON in batches | quotas read list by list before the write; a list replaced between batches; audit written after the lock | one upload, one list; a bounded overshoot; the audit line is what was committed |
| Bundle publication (discipline of `store.go`, `ReloadList`) | files renamed one by one | ship, reload | mutations, folds and restarts in the middle | a served base has its own index; nothing acknowledged after the ship is lost |
| Authentication, metrics, ingest, CLI, benchmarks | little or none | | | |

Interactions. Handlers resolve a tenant object (registry), pass its admitter and
the node's, and call the store; a mutation takes a slot of the store
(`beginOp`), then the list's lock, and only then touches the directory; crossing
the overlay threshold spawns a fold that competes for the same lock. SIGHUP runs
in one goroutine that opens and closes stores and swaps the registry under
running requests. The readiness probe reads damage, versions and golden queries
of all stores without a common lock. A query charges its admitters for the snapshots
it pinned, and executes on those whatever is installed meanwhile; underneath it
runs the index, the filters and the selections. A shipper, outside this
repository, renames files into a list's directory while the store appends to
and folds the same files. Artifacts go from `Publish` to
`OpenMapped` to kurnd's gate; each hands over something that is finished.

The full list of components, with the ones that are not modelled and why, and
the list of hazards with the properties aimed at them are in `PROJECT.json`.

## 2. Modules

| Module | Models | State and actions |
|---|---|---|
| `Entries` | entry sets, journal records, replay | operators only: `ApplyRecs` is replay in closed form (the last record touching an ID decides) |
| `ListStore` | one list of a Store over its directory | `disk`, `mem`, `damage`, `op` (the mutation that holds the list's lock and the call it is about to make); one action per file-system call or memory step, with its failure |
| `AckedList` | what a list promises its clients | `served`, `acked`, `limbo` (outcomes announced but not acknowledged) |
| `ListStorePower` | `ListStore` over files of which only the flushed part survives | `names`, `jold`, `jcur`: what a power loss may leave; `PowerLoss` |
| `StoreLifecycle` | admission, group commit, folds and Close of a Store | one program counter per client, fold and closer, the committer, locks, flags |
| `Admission` | `runQuery` between its two budgets, `SetTenants` | semaphores with FIFO queues, requests, admitters by generation |
| `Readiness` | `readyz` and its cache against a changing store | list object, version (a stamp, which a rebuild may bring back), damage, probes step by step; `former` and `steady` remember what was left and what was evaluated undisturbed |
| `TenantReload` | kurnd's SIGHUP reload | tenants file, signal buffer, `apply`, registry, stores by generation, directories |
| `Publish` | `prepared.Publish` | one program counter per publisher, temporary names, destination, flushed state |
| `MappedRegistry` | `mappedRegistry.open`, `admission.reuse` | lock, admission record, mappings, calls, Views handed out, files |
| `ArtifactServe` | `serveArtifactWith` and `artifactGate` | gate, box, signal watcher, opener, store, server, main, reaper, requests |
| `BoundedHeaps` | the worst-at-root heap of n-gram hits, the largest-at-root heap of any-of entries | operators only, sifting as the code does |
| `NgramIndex` | both gram generators, postings, the pigeonhole scan with its probes, bounded collection | operators only |
| `ListQuery` | one list under queries and mutations | `snap` (installed snapshot), `query` in its phases prepare, walk, finish; `Replace`, `Upsert`, `Delete`, `Compact`; any-of and single-key queries, exact and n-gram |
| `Selections` | the bounded selections fed offer by offer | offers, the heap, what a full sort would keep |
| `Filters` | typed filter values, compilation, the payload pass | two filters as spelled; a payload token by token with its duplicate tracking |
| `Uploads` | mutating handlers of one tenant | writers with their stage; quotas read list by list; each store operation is one step (its inside is `ListStore`); audit lines |
| `BundleShip` | a bundle shipped into a served list | files of the directory, the served list, the shipper's next rename; append, fold, reload, restart |
| `ArtifactLayout` | section table, records, ids, exact and n-gram sections of an artifact | `section`, `step`, `read`, `want`: words read so far, foreign or as `Encode` writes them, and the check that comes next; words wrap at their width |
| `Prepared` | composition | `Publish`, `MappedRegistry` and `ArtifactServe` side by side, `part` names the one that moves |
| `ListStoreProofs`, `ListPowerProofs`, `StoreLifecycleProofs`, `TenantReloadProofs`, `PreparedProofs`, `UploadProofs`, `AdmissionProofs`, `SumProofs` | theorems | see 5 |
| `MC*` | instances | see below |

`MCListWrites`, `MCListFiles`, `MCStores`, `MCServerQueries` and `MCPrepared` are
sums of parts: the initial state chooses the part that moves, and the others rest.

| Sum | Parts |
|---|---|
| `MCListWrites` | `ListStore` under process crashes; `Uploads`; `Readiness` |
| `MCListFiles` | `ListStorePower` under power loss; `BundleShip` |
| `MCStores` | `StoreLifecycle`; `TenantReload` |
| `MCServerQueries` | `Admission`, `ListQuery`, `Selections`, `Filters` |
| `MCPrepared` | `ArtifactLayout` and the stations of `Prepared` |

The parts of a sum share no variables: each sees the list, the query or the
artifact at its own grain, or takes finished what another part hands over. Where
the names allow it a sum extends its parts, so that the definitions it checks
are the ones the theorems are about. In `MCListWrites`, `MCListFiles`,
`MCStores` and `MCServerQueries` a part that may come to its end stutters by a
disjunct of its own, so that deadlock is still checked for the parts that never
rest.

`ListStorePower` is built on `ListStore` (its step is a `ListStore` step plus the
bookkeeping of what has been flushed). `TenantReload` uses of a Store just what
`StoreLifecycle` checks: a closing store admits nothing and Close waits.

Some decisions that shape the model:

* One list is enough in `ListStore`: lists have their own directory, lock and
  damage. `StoreLifecycle` has several, since they share Close and the committer.
* A hash is the hashed content. Versions are the identity of what was hashed, so
  two different contents with one stamp would be a violation, not a collision.
* `JournalRecs` is what `readJournal` returns, `torn` the fragment it cuts.
* A request refused before it touches state (unknown list, bad body) is a
  stuttering step.
* A threshold is a percentage, a weight of the n-gram index a whole number of
  10^-5. `float64` arithmetic is exact; `float32`, in which the scan weighs and sums
  (`ngram.go:356`, `369`), rounds to multiples of `Ulp`. `Ulp = 31` is far coarser than
  the real spacing and chosen so that each weight of the instance rounds in the
  direction in which its real `float32` does.
* A charge counts hits and evaluations, the things the code multiplies by bytes.
* A filter's alternative is a text and `Meaning` gives the scalar it spells: for a
  number its sign, digits and exponent, which the canonicaliser works on.
* In `Uploads` a store operation is one step because the list's lock is held
  through it; the steps of a handler before and after it are separate.
* History variables (`acked`, `limbo`, `flush`, `may`, `before`, `settled`,
  `owed`, `former`, `steady` and their like,
  marked in the modules) are read by properties only.

## 3. Runs

| Run | Instance | Shows |
|---|---|---|
| `list_writes` | 2 IDs, 2 values, 2 configurations, batches of 2, journal of 2; 2 writers, 3 commits, 3 list names; 2 probes, 2 versions of which one is healthy, 2 list objects | every interleaving of mutations, failures, crashes, restarts and reloads: a restart reproduces an undamaged list exactly; stamps determine content; compaction is crash-safe; damage is contained; the directory-level model implements `AckedList`; an upload stays in one list, is audited exactly and overshoots a quota by at most a batch per client; a probe that overlaps no change answers the truth, unless the verdict was cached by an evaluation that did overlap one and, where nothing fails, the list is back at a version it had left |
| `list_files` | the same list with fsync "every" and one record in the journal; 2 shipments, 2 mutations, 1 fold, 1 restart | acknowledged changes survive power loss once names are settled; a PUT is atomic; a shipped base is served with its own index, whole, and acknowledged changes after it are kept |
| `list_hot_key_batch` | one entry per key, journal of 3 | *violated*: finding 2 |
| `power_full_durability` | journal of 2 | *violated*: finding 1 |
| `stores` | 2 lists, 2 clients, 2 folds, 2 closers; 2 tenants, 1 client that mutates one of them, 2 stores and 2 mutations per tenant, 2 edits | nothing runs after any Close returned; mutations end and closers return; at most one store writes a directory, nothing lost, signals honoured |
| `store_auto_compact` | 1 list, 2 clients, 2 folds | *violated*: finding 3 |
| `readiness_return` | 1 probe | *violated*: finding 4 |
| `prepared` | layout: 18 cells, alignment 2, words of 5 bits; 3 publishers, 1 power loss; 2 openers, 2 files, 2 digests, 2 edits; 3 requests | an accepted artifact is read in bounds, has one encoding and finds all it holds; publication tells the truth; one artifact is served to all; every handler has its store until it is done; the lock comes back and shutdown completes |
| `server_queries` | 3 queries, budget 4, quota 0 or 3, costs 2 and 5; lists of up to 4 entries, 2 mutations, thresholds up to 1; 5 offers; 9 payload tokens | no budget exceeded, tenants isolated, waiters admitted; an answer is what the pinned snapshot holds, but for entries within rounding of the threshold, and costs no more than charged; selections keep the best; equal filter values have one form and the payload verdict is the naive one |
| `ngram_recall` | the queries of `server_queries` | *violated*: finding 7 |
| `reload_audit` | 2 writers | *violated*: finding 5 |
| `half_shipped` | 1 shipment | *violated*: finding 6 |

Every property of a passing run has a mutant in `PROJECT.json`: a plausible bug
of the mapped code under which TLC finds the property violated.

Why the bounds are enough.

* *Lists on disk.* Two IDs and two values give an entry that stays and one that
  changes; batches of two have a proper prefix; two configurations tell a stale
  cache from a fresh one; a journal of two has something before and after a
  batch. Under power loss the order of flushes matters and the content does not,
  so there the journal holds one record, which deletes an entry or puts it back.
* *Admission.* A queue of three has a head, a blocked follower and one that could
  overtake; a cost of 5 exceeds both budgets and is refused; quota 0 mixes queries
  with and without a tenant slice. One tenant is enough: tenants meet only at the
  node's budget, and a reload to quota 0 makes queries without a slice compete
  there with those that hold one. Two generations are an old and a new one.
* *Queries.* Three entries give one in the base that stays, one overwritten and
  one that is new; a top-K of none, all and one, and thresholds of none, the
  default and one that excludes, cover the branches on both. A base of four entries
  has a gram of three, whose weight rounds down, and a threshold of 1 asks for the
  full score. Five offers fill a
  selection, evict from it and tie with its worst. Nine payload tokens hold a key
  twice and a nested path; the numbers are spelled in several ways, with two
  zeros and one out of range.
* *Writes.* Three list names under a quota of one list let two clients overshoot
  it by their PUTs, and a third PUT be refused; the other tenant starts with two
  lists under that quota, as after a reload that lowered it, and spreads its keys
  over both. A key quota of three with batches of one entry is overshot by a
  stream of three batches, which the quota, the store or another generation may
  end after any of them.
* *Readiness.* A healthy and an unhealthy version can be left and returned to; two
  probes overlap where one list object is served and nothing fails, and one runs at
  a time where a second object is made or operations fail. `VerdictTheorem` has no
  such bound.
* *Shipping.* The second shipment meets what the first left behind; a fold and a
  restart can fall before, between and after its renames.
* *Layout.* Words are sampled at small values, at the flag bit and at the top of
  their width, so that every sum that can wrap does; 2 length bits allow runs of
  up to 3 and refuse one of 4; foreign blobs have up to 3 bytes, an encoded
  content up to 2 records.
* *Tenants and mapped files.* Removing a tenant and adding it back takes two
  edits, restoring edited bytes as well; mapped files start out valid and each
  edit changes bytes, mode or length (of the second file bytes only), so an
  invalid first file is one edit away. Mutations go to one tenant: tenants meet
  only in the reload, where the other is opened, swapped and closed.
* *Store lifecycle.* Two clients and two folds cover a fold that ends while
  another is wanted; `Folders` bounds the folds that exist at once.

Symmetry is used in `list_writes` only: it checks no liveness, and neither
probes nor writers are told apart by anything but their state.

Fairness, and what justifies it. `StoreLifecycle`: goroutines are scheduled (weak
fairness of each step) and `sync.Mutex` hands over to starving waiters (strong
fairness of `Lock`); nobody is obliged to start a mutation or to call Close.
`Admission`: a query that can go on does (weak fairness of `Serve`), and queries
end; no timeout is assumed, so `WaitersAdmitted` does not lean on them.
`TenantReload`: the reload
goroutine runs, requests and folds end (as `stores` shows). `ArtifactServe`: the
watcher, main, the reaper and handlers run; signals, requests, a broken listener
and the end of the open are owed to nobody. `MappedRegistry`: a call that holds
the lock goes on; that a waiter is passed over for ever is excluded by
`sync.Mutex` and not part of the property.

Deadlock is checked in the runs whose system never rests; a closed Store, a
finished publication and a terminated kurnd may stop.

`SignalIsHonoured` and the second half of `StaleNeedsReturn` are claimed for
behaviours without failing operations (`mayFail`, chosen initially): a failed
reload is logged and not repeated, and damage comes and goes without a new stamp.
The other properties of those runs hold in both kinds of behaviour.

## 4. Findings

1. `FsyncEvery` is documented as full durability, but the directory entry of a
   newly created journal is never flushed (`appendJournal`): the first
   acknowledged append can vanish with it.
2. A batch is validated as a whole and replayed after a crash as a prefix; with
   a hot-key limit the prefix may not build and the journal is quarantined,
   although the source says replay can never be poisoned.
3. Auto-compaction can be missed: the flag of a fold is cleared after its list
   is released, and a mutation in between starts no fold.
4. A version stamp is a hash of content and configuration, so a list replaced by B
   and then by A again has its old stamp. A probe that reads its key at A and
   evaluates at B caches B's verdict under A (`ready.go:132`); back at A, the next
   probe answers it, although nothing changes around it, until the TTL. The comment
   (`ready.go:19-22`) says that correctness does not depend on the TTL.
   `StaleNeedsReturn` says that this is the only way where nothing fails.
5. The audit line of a reload pairs the reload's version with a count read after
   the lock was released (`server.go`, reload handler): a mutation that commits
   in between is counted under a version that does not contain it. The compact
   handler avoids exactly this.
6. A reload in the middle of a ship serves the new configuration over the old
   entries when the journal is empty; the comment on `ReloadList` says a
   half-shipped bundle leaves the served list as it was.
7. The n-gram scan weighs and sums in `float32` and compares with a floor computed
   in `float64`. Where a weight rounds down (`ln(7/3)`, a gram of three entries in a
   list of four), an entry with every gram of the query is dropped at a threshold
   of 1. The comment (`ngram.go:246-247`) says "Provably recall-complete for the
   threshold"; `engine/ngram/differential_test.go:20-26` says it is no guarantee.
   `AnswerIsRight` excuses entries within rounding of the floor and no others.

Observations that no run states:

* With failures in play the window of finding 4 is wider: the damage and the
  version of a key are read one after the other, so a verdict can be cached under
  a key that was never the store's, and answer `ready` when the list later reaches
  that key, damaged. The comment (`ready.go:40-43`) says that entering damage
  invalidates the cache at once. `StaleNeedsReturn` says that the evaluation must
  have overlapped a change for this, too.
* A list directory skipped at Open keeps the node unready after the documented
  repair by PUT; `Store.Skipped` is never cleared (`server/ready.go`).
* A process that opens a list in the middle of a ship may replay the old journal
  over the new base; `appendJournal` opens the journal by name, so an append that
  races the shipper's removal of it can be acknowledged into an unlinked file; a
  fold between the last rename and the reload overwrites the shipped base.
  `BundleShip` lets all three happen. Its properties therefore promise only what
  remains: `AckedIsKept` speaks of mutations begun after the last shipment was
  complete, `WholeBundleServed` of reloads of a shipment the store did not touch.

## 5. Proofs

The theorems hold for every set of IDs, values, configurations, clients, lists,
tenants, publishers, openers, requests, probes and writers, and for every value
of the bounds. What they assume of the constants is declared in the modules, and
TLC evaluates it in the passing runs: `None` is no entry, configuration, journal
or view; the sets of values offered to an operation are of their type; sets that
are counted are finite; words fit their width; bounds are natural numbers.
Three theorems about lists need more, which is stated as a hypothesis in front of
them.

| Module | Theorem | States |
|---|---|---|
| `ListStoreProofs` | `TypeCorrect` | `TypeOK` |
| | `RestartTheorem` | `RestartServesAcked` |
| | `StampTheorem` | `StampDeterminesContent` |
| | `CompactTheorem` | `CompactCrashSafe` |
| | `DamageTheorem` | `DamageContained` |
| | `PromiseTheorem` | `PromiseKept`, the refinement of `AckedList`, under `PrefixesBuild` |
| | `ReplayTheorem` | `ReplayNeverPoisoned`, under `PrefixesBuild` |
| | `PlainPromise` | both, when an Upsert has one record or the list at most `MaxRun` IDs |
| `ListPowerProofs` | `PutTheorem` | `PutIsAtomic` |
| | `PowerTheorem` | `AckedSurvivesPowerLoss`, under `PrefixesBuild` |
| | `ShipTypeCorrect` | `ShipTypeOK` |
| | `IndexTheorem`, `KeptTheorem` | `IndexFitsBase`, `AckedIsKept` |
| | `WholeTheorem` | `WholeBundleServed` |
| `StoreLifecycleProofs` | `TypeCorrect`, `CloseTheorem` | `TypeOK`, `NothingRunsAfterClose` |
| | `ReadinessTypeCorrect` | `ReadyTypeOK` |
| | `VerdictTheorem` | `StaleNeedsReturn` |
| `TenantReloadProofs` | `ReloadTypeCorrect`, `ReloadTheorem` | `ReloadTypeOK`, `NothingLost` |
| `PreparedProofs` | `PreparedTypeCorrect` | `TypeOK` of the three stations |
| | `PublishTheorem` | `PublishIsTrue` |
| | `RegistryTheorem` | `OneArtifactServed` |
| | `ServeTheorem` | `HandlersHaveTheirStore` |
| | `BoundsTheorem` | `ViewStaysInBounds`, on a file of any words |
| `UploadProofs` | `UploadTypeCorrect` | `UploadTypeOK` |
| | `GenerationTheorem` | `OneGeneration` |
| | `AuditTheorem` | `AuditIsTrue` |
| | `QuotaTheorem` | `QuotasAreSoft` |
| `AdmissionProofs` | `AdmissionTypeCorrect` | `TypeOK` of `Admission` |
| | `CeilingTheorem` | `BudgetIsCeiling` |
| | `IsolationTheorem` | `TenantIsolation` |

`PrefixesBuild` says that a batch which can be built as a whole has no prefix that
cannot. It is the gap of finding 2: where a hot-key limit makes it false, the
run `list_hot_key_batch` shows a journal that cannot be replayed, and what it
held is set aside. `PlainPromise` names the two circumstances in which it holds by
itself.

Each module proves one inductive invariant and derives its theorems from it.
None of the properties is inductive alone; what has to be added, and why:

* `ListStoreProofs`. The properties speak of idle moments, so `IInv` says how
  directory and memory relate at every call: `MemInv` (the list in memory is the
  replay of its own stamp), `IdleInv` (between mutations they agree), `AppendInv`
  (the journal is the stamped one and a piece of the batch), `BaseInv` (after the
  rename the journal is still the stamped one, and replaying a journal over its
  own result changes nothing), `CreateInv` (what a PUT has wiped and written). The
  module begins with the facts about replay it rests on.
* The refinement of `AckedList`, in the same module. `HInv` relates the history variables to the directory at
  every call: what is served is what was acknowledged (`AckInv`); an undamaged list
  at rest has nothing in doubt (`LimboInv`); a mutation has announced what it is
  about to acknowledge (`PendingInv`); the journal extends the acknowledged one by
  something in doubt (`JournalInv`); a restart now would serve the acknowledged
  list or an announced outcome (`RecoverInv`) and could build it (`ReplayInv`).
  Each action is then a step of `AckedList` or a stutter.
* `ListPowerProofs`. For a PUT: what is visible is among what may come back
  (`FsInv`), the marker is durable before the wipe and the new list before the
  marker goes (`MarkInv`), and so everything that may come back was possible before
  or is the new list (`CoverInv`). For acknowledged entries: every possible journal
  can be built (`BuildInv`), the configuration is durable unless a durable marker
  hides it (`ConfigInv`), and every base and journal that may come back together
  give each entry a value that was acknowledged last or written since
  (`ReplaysInv`), also after a rollback (`RollbackInv`), in memory (`LiveInv`) and at
  each step of a mutation (`MutationInv`).
* `StoreLifecycleProofs`. The counter of the WaitGroup is the number of goroutines
  past their admission plus the folds that took a second slot (`SlotsInv`), so it is
  not zero while one of them runs; one caller of Close drains, and what it saw at
  each of its steps still holds (`CloseInv`); `RoleInv` keeps the roles apart.
* `TenantReloadProofs`. The store that may write to a directory is the one `opened`
  names (`WriterInv`), and every acknowledged mutation is in the directory and in
  that store's memory (`KeptInv`), so no rewrite of the directory drops it.
  `RequestInv` and `CountInv` carry the requests and the numbering.
* `PreparedProofs`. A behaviour of `Prepared` is one of each station
  (`Composition`), so each is treated alone. Publish: what was flushed is whole
  (`FlushInv`), the destination names the flushed file of a call that linked it
  (`LinkInv`), and a call that is still preparing has its temporary name
  (`TempInv`). Registry: the record a call found under the lock is the present
  one until it gives the lock back (`CallInv`), the admitted mapping stays mapped
  (`MapInv`), the admission is sound (`AdmInv`), and Views agree with it
  (`HeldInv`). Serve: what main has seen of opener, store and server (`MainInv`),
  and what each running request was given (`RequestInv`). Layout: what has been
  accepted so far is in bounds after every word, not only at the end (`TableInv`,
  `RecordsInv`, `ExactInv`, `NgramInv`): no section's end has wrapped, so the next
  one's comparison with it is true; cursors stay inside their blob; the keys a row
  claims are those read plus those still owed; an aligned offset in an aligned
  region is aligned. The words are arbitrary (`InitForeign`); for what `Encode`
  wrote, whose offsets are folds over the contents, the bounds are model-checked.
* Bundle shipping, in `ListPowerProofs`. While something is owed the shipper is done, so only the store
  writes (`OwedInv`); `after` tells whether a shipment has begun since a reload did
  (`SinceInv`), and if none has, what the reload read of a complete shipment is
  still there (`WholeInv`); an index in use, or about to be, is that of its entries
  (`IndexInv`).
* Readiness, in `StoreLifecycleProofs`. A key that a probe has read or the
  cache holds names a version its object has now or has left (`Past`); as long as
  the object is still at it and has never left it, the verdict under that key is
  that of the present store (`Current`, in `CacheInv` and `ProbeInv`), and an
  answer that is wrong therefore needs a version in `former`. That half is about
  behaviours without failures. For all of them, a verdict evaluated while nothing
  changed is that of the state its key names (`SteadyInv`), so a wrong answer to an
  undisturbed probe came from an evaluation that was disturbed.
* `UploadProofs`. The commits of a request are in one object and end with the
  version it will report (`RequestsInv`), finished requests leave a line that says
  so (`LinesInv`), every commit belongs to exactly one request (`OwnedInv`), and a
  request has applied the sum of its commits (`ContentInv`), which its line tells
  (`LinesTold`). Lists: the served ones and the creates already let through
  together stay below the limit plus one per client (`ListsInv`). Keys: `KeysInv` is
  an argument by rounds. A check reads usage list by list while others write; let
  `since[w]` be the clients that landed a batch since the check of `w` began. What
  the check misses is at most what they landed last, unless one of them landed
  twice, and then its own second check began later and saw the first batch. So
  there is always a set `last` of clients such that usage is within the ceiling plus
  the last batch of each. A client outside `last` joins it with its batch; one inside
  lands a further batch, whose check saw the one before, and the new `last` is that
  client and those in its `since`. Neither set is computed by the code: the invariant
  says that they exist.
* `AdmissionProofs`. `QueueInv`: the queue of an admitter holds requests that wait
  there, each once. `AccountInv`: each semaphore counts exactly the charges of its
  holders and stays within its budget, where a waiter that is no longer queued
  already holds (a release granted it, and it has not woken or has timed out at
  that moment). `RequestInv`: a request keeps the admitter it found, waits only
  where it is charged and does the work it was charged for, so running work is
  held in the node's account. `RegistryInv`: the registered admitter has the budget
  of the quota, and a settled tenant's requests all use it, so what they hold of
  the node they hold of their own admitter as well.
* `SumProofs`. What both rest on: a sum over a finite set is the number of units its
  members hold, so facts about cardinalities give those about sums. The recursive
  function that computes a sum is shown to count units by taking a smallest set for
  which it would not, which avoids an induction rule with an operator parameter.

Proof attempts corrected the model where it could not be reasoned about, or said
the wrong thing beyond the bounds of the runs. `WholeBundleServed` was false for
three shipments, the last of which begins and ends within one reload; it now asks
that no shipment began since the reload did. `AckedSurvivesPowerLoss` compared
whole lists, which is false for a list whose replaced base and whose journal are
in doubt at once; it now speaks of every entry (`may`). Two CASE expressions with
overlapping arms, in `Track` and in `Admission`, became conditionals in the order
the code tests them. Sums and the effect of a batch with repeated IDs (`Upserted`:
the last one wins) are stated in closed form rather than as folds.

Only model-checked:

* liveness and fairness: `CallsReturn`, `SignalIsHonoured`, `LockReturns`,
  `ShutdownCompletes`, `WaitersAdmitted`;
* what recursive operators compute: `BoundedHeaps` and `Filters`, and with them
  `NgramIndex`, `ListQuery` and `Selections`, are compared with reference
  definitions by TLC;
* `OneEncoding` and `LookupsFindAll` of `ArtifactLayout`: they compare with what
  `Encode` builds by folding over the contents, and with a binary search; each
  would need an induction over data of its own;
* `TypesOK` of the sums `MCListWrites` and `MCServerQueries`: of their parts,
  `ReadyTypeOK`, `UploadTypeOK` and the type invariant of `Admission` are proved.

## 6. Not modelled

* The flush of a new list directory's entry in its parent, of the rename of a
  quarantined journal and of the cut of a torn tail; `ListStorePower` takes them
  as done.
* Group commit in `ListStore`: `Fsync` distinguishes flushing policies, the
  committer itself is in `StoreLifecycle`, which models the interval policy.
* Swaps of the tenant registry during a readiness probe.
* `StripSpaces` of the n-gram index (texts are taken as already stripped); the
  limits on the length of a number and of a canonical filter (`typed_filter.go:482`,
  `393`), which only refuse more; that an any-of selection holds one entry more
  than K inside a push (the model measures it between ordinals).
* The token bucket and the gauges of admission; `Retry-After`.
* Shrinking a mapped file, which faults the process; `VerifyBytes` is one atomic
  reading of the bytes; the mode of a published file after a power loss.
* A store arriving after the listener failed during the open: kurnd exits there.
* The analyzer's steps (only that it drops characters, can merge two keys and can
  empty one), the lexical rules of JSON tokens and numbers, and the saturation of
  absurd exponents.
* Byte formats below the layout: the JSON sections of an artifact, padding,
  digests, the inside of a frozen bitmap, the encoding of `base.idx`; restoring an
  n-gram index from a cache.
* The byte prices of charges, and the pooled scratch space of the n-gram scan.
* Building an artifact and comparing two (`prepared/builder`): deterministic and
  sequential; only the publication of the result is modelled.
* Routing, decoding, error envelopes and the read-only handlers; authentication,
  a stateless comparison; metrics, which nothing reads back.
* Ingest, the command-line tools, benchmarks and examples: sequential front ends
  without state of their own.

## 7. Plan

1. *Done*: `ListStore` with its proofs, `ListStorePower`, `StoreLifecycle`,
   `Admission`, `Readiness`, `TenantReload`, `Publish`, `MappedRegistry`,
   `ArtifactServe`.
2. *Done*: the list under queries (`ListQuery`, `NgramIndex`, `BoundedHeaps`,
   `Selections`, `Filters`), mutating handlers and quotas (`Uploads`), bundle
   publication (`BundleShip`), the artifact's layout (`ArtifactLayout`).
3. *Done*: the proofs of section 5.
4. What is left: that one encoding exists (`OneEncoding`) and that `Lookup` and
   `Restore` find what is stored (`LookupsFindAll`) for artifacts of every size, by
   the least-counterexample argument of `SumProofs`; the algorithms of `ListQuery`
   and its operators, which would first have to be written without recursive
   operators.
