--------------------------- MODULE StoreLifecycle ---------------------------
(***************************************************************************)
(* The goroutines of one Store (engine/store.go): mutations admitted by    *)
(* beginOp, background compactions started by maybeAutoCompact, the group  *)
(* committer of the interval fsync policy, and Close.  What a mutation     *)
(* does to a list's directory is ListStore's subject; here it is the step  *)
(* that holds the list's lock.                                             *)
(*                                                                         *)
(* WaitGroup, mutexes and unbuffered channels are the Go runtime's: a send *)
(* and its receive are one step.                                           *)
(***************************************************************************)
EXTENDS Naturals, FiniteSets

CONSTANTS
    Names,       \* list names
    Procs,       \* client goroutines
    Closers,     \* goroutines calling Close
    Folders,     \* background compactions
    Threshold,   \* OverlayAutoCompact of every list
    FoldsFail,   \* may the file system fail a background compaction?
    MaxMuts      \* bound: mutations per client

ASSUME LifecycleAssumption ==
    /\ Threshold \in Nat \ {0} /\ MaxMuts \in Nat /\ FoldsFail \in BOOLEAN
    /\ Procs \cap Folders = {} /\ Procs \cap Closers = {} /\ Folders \cap Closers = {}

Free == "free"
NoList == "none"

VARIABLES
    closed,          \* Store.closed
    ops,             \* Store.ops, the WaitGroup's counter
    closeDone,       \* is the closeDone channel closed?
    lock,            \* lock[l]: holder of listState.lock, or Free
    overlay,         \* overlay[l]: entries in the overlay
    autoCompacting,  \* autoCompacting[l]
    committer,       \* "off", "running", "stopping" or "stopped"
    armed,           \* is the committer's timer running?
    pending,         \* goroutines whose request the committer holds
    pc,              \* where each goroutine is
    on,              \* the list each goroutine works on
    left             \* mutations a client will still attempt

storeVars  == <<closed, ops, closeDone>>
listVars   == <<lock, overlay, autoCompacting>>
commitVars == <<committer, armed, pending>>
vars == <<storeVars, listVars, commitVars, pc, on, left>>

Threads == Procs \cup Folders \cup Closers

Init ==
    /\ closed = FALSE
    /\ ops = 0
    /\ closeDone = FALSE
    /\ lock = [l \in Names |-> Free]
    /\ overlay = [l \in Names |-> 0]
    /\ autoCompacting = [l \in Names |-> FALSE]
    /\ committer = "off"
    /\ armed = FALSE
    /\ pending = {}
    /\ pc = [t \in Threads |-> "out"]
    /\ on = [t \in Threads |-> NoList]
    /\ left = [p \in Procs |-> MaxMuts]

Goto(t, where) == pc' = [pc EXCEPT ![t] = where]

\* Mutant: admission checks the flag but takes no slot.
BeginOpUncounted == ~closed /\ UNCHANGED <<closed, ops, closeDone>>

\* beginOp: a slot is taken under the lock that Close sets `closed' under.
BeginOp == ~closed /\ ops' = ops + 1 /\ UNCHANGED <<closed, closeDone>>

EndOp == ops' = ops - 1 /\ UNCHANGED <<closed, closeDone>>

\* A goroutine whose list no longer matters.
Leave(t) == pc' = [pc EXCEPT ![t] = "out"] /\ on' = [on EXCEPT ![t] = NoList]

Acquire(t) ==
    /\ lock[on[t]] = Free
    /\ lock' = [lock EXCEPT ![on[t]] = t]
    /\ UNCHANGED <<overlay, autoCompacting>>

-----------------------------------------------------------------------------
(* Mutations: Upsert, Delete, and the ones that rebuild the whole list.    *)

\* The slot is taken before the list is resolved or its lock requested.
Begin(p) ==
    /\ pc[p] = "out" /\ left[p] > 0
    /\ left' = [left EXCEPT ![p] = @ - 1]
    /\ \/ /\ BeginOp
          /\ Goto(p, "admitted")
          /\ \E l \in Names : on' = [on EXCEPT ![p] = l]
       \/ closed /\ UNCHANGED <<storeVars, pc, on>>
    /\ UNCHANGED <<listVars, commitVars>>

Lock(p) ==
    /\ pc[p] = "admitted"
    /\ Acquire(p)
    /\ Goto(p, "append")
    /\ UNCHANGED <<storeVars, commitVars, on, left>>

\* appendJournal writes; groupCommit starts the committer on first use.
AppendJournal(p) ==
    /\ pc[p] = "append"
    /\ Goto(p, "send")
    /\ committer' = IF committer = "off" THEN "running" ELSE committer
    /\ UNCHANGED <<storeVars, listVars, armed, pending, on, left>>

\* The unbuffered send meets the committer's receive.
SendFsync(p) ==
    /\ pc[p] = "send" /\ committer = "running"
    /\ pending' = pending \cup {p}
    /\ armed' = TRUE
    /\ Goto(p, "wait")
    /\ UNCHANGED <<storeVars, listVars, committer, on, left>>

\* A failed append, rolled back: nothing is committed.
Abort(p) ==
    /\ pc[p] \in {"append", "failed"}
    /\ lock' = [lock EXCEPT ![on[p]] = Free]
    /\ Goto(p, "end")
    /\ UNCHANGED <<storeVars, overlay, autoCompacting, commitVars, on, left>>

\* A manual Compact, a Replace or a PUT: the overlay is empty afterwards.
Rebuild(p) ==
    /\ pc[p] = "append"
    /\ overlay' = [overlay EXCEPT ![on[p]] = 0]
    /\ lock' = [lock EXCEPT ![on[p]] = Free]
    /\ Goto(p, "end")
    /\ UNCHANGED <<storeVars, autoCompacting, commitVars, on, left>>

\* maybeAutoCompact: at the threshold, unless a fold is under way already.
WantsFold(l) == overlay[l] + 1 >= Threshold /\ ~autoCompacting[l]

\* spawnBG takes a slot for the fold; a closed store starts none.
Commit(p) ==
    LET l == on[p] IN
    /\ pc[p] = "flushed"
    /\ overlay' = [overlay EXCEPT ![l] = @ + 1]
    /\ lock' = [lock EXCEPT ![l] = Free]
    /\ \/ /\ WantsFold(l)
          /\ BeginOp
          /\ autoCompacting' = [autoCompacting EXCEPT ![l] = TRUE]
          /\ \E f \in Folders :
               /\ pc[f] = "out"
               /\ pc' = [pc EXCEPT ![p] = "end", ![f] = "recheck"]
               /\ on' = [on EXCEPT ![f] = l]
       \/ /\ closed \/ ~WantsFold(l)
          /\ Goto(p, "end")
          /\ UNCHANGED <<storeVars, autoCompacting, on>>
    /\ UNCHANGED <<commitVars, left>>

End(t) ==
    /\ pc[t] = "end"
    /\ EndOp
    /\ Leave(t)
    /\ UNCHANGED <<listVars, commitVars, left>>

-----------------------------------------------------------------------------
(* A background compaction.                                                *)

\* The threshold is re-checked without the lock.
Recheck(f) ==
    /\ pc[f] = "recheck"
    /\ Goto(f, IF overlay[on[f]] < Threshold THEN "clear" ELSE "compact")
    /\ UNCHANGED <<storeVars, listVars, commitVars, on, left>>

\* Compact takes a slot of its own, refused once the store is closed.
BeginCompact(f) ==
    /\ pc[f] = "compact"
    /\ \/ BeginOp /\ Goto(f, "lock")
       \/ closed /\ Goto(f, "clear") /\ UNCHANGED storeVars
    /\ UNCHANGED <<listVars, commitVars, on, left>>

LockFold(f) ==
    /\ pc[f] = "lock"
    /\ Acquire(f)
    /\ Goto(f, "fold")
    /\ UNCHANGED <<storeVars, commitVars, on, left>>

\* The directory is rewritten, the folded base installed, the lock released.
\* A failure leaves the overlay as it was.
FoldOverlay(f) ==
    /\ pc[f] = "fold"
    /\ \/ overlay' = [overlay EXCEPT ![on[f]] = 0]
       \/ FoldsFail /\ UNCHANGED overlay
    /\ lock' = [lock EXCEPT ![on[f]] = Free]
    /\ Goto(f, "endcompact")
    /\ UNCHANGED <<storeVars, autoCompacting, commitVars, on, left>>

EndCompact(f) ==
    /\ pc[f] = "endcompact"
    /\ EndOp
    /\ Goto(f, "clear")
    /\ UNCHANGED <<listVars, commitVars, on, left>>

\* defer ls.autoCompacting.Store(false), before the fold's own slot is given up.
ClearFlag(f) ==
    /\ pc[f] = "clear"
    /\ autoCompacting' = [autoCompacting EXCEPT ![on[f]] = FALSE]
    /\ Goto(f, "end")
    /\ UNCHANGED <<storeVars, lock, overlay, commitVars, on, left>>

-----------------------------------------------------------------------------
(* The group committer.                                                    *)

\* Every file with waiters is fsynced once, each with its own result.
Flush(bad) ==
    /\ pc' = [t \in Threads |-> IF t \notin pending THEN pc[t]
                                ELSE IF on[t] \in bad THEN "failed" ELSE "flushed"]
    /\ pending' = {}
    /\ armed' = FALSE

CommitterFire ==
    /\ committer = "running" /\ armed
    /\ \E bad \in SUBSET {on[t] : t \in pending} : Flush(bad)
    /\ UNCHANGED <<storeVars, listVars, committer, on, left>>

CommitterStop ==
    /\ committer = "stopping"
    /\ committer' = "stopped"
    /\ \E bad \in SUBSET {on[t] : t \in pending} : Flush(bad)
    /\ UNCHANGED <<storeVars, listVars, on, left>>

-----------------------------------------------------------------------------
(* Close.                                                                  *)

\* Mutant: a second caller does not wait for the drain.
CloseTwiceReturns(c) ==
    /\ pc[c] = "out"
    /\ closed' = TRUE
    /\ Goto(c, IF closed THEN "closed" ELSE "drain")
    /\ UNCHANGED <<ops, closeDone, listVars, commitVars, on, left>>

\* The first caller closes the store; later ones wait for its drain.
Close(c) ==
    /\ pc[c] = "out"
    /\ closed' = TRUE
    /\ Goto(c, IF closed THEN "waitdone" ELSE "drain")
    /\ UNCHANGED <<ops, closeDone, listVars, commitVars, on, left>>

StopCommitter(c) ==
    IF committer = "off" THEN Goto(c, "finish") /\ UNCHANGED committer
    ELSE Goto(c, "stop") /\ committer' = "stopping"

\* Mutant: Close sweeps the per-list locks instead of counting operations.
DrainedByLocks(c) ==
    /\ pc[c] = "drain" /\ \A l \in Names : lock[l] = Free
    /\ StopCommitter(c)
    /\ UNCHANGED <<storeVars, listVars, armed, pending, on, left>>

\* ops.Wait: every slot has been given back.
Drained(c) ==
    /\ pc[c] = "drain" /\ ops = 0
    /\ StopCommitter(c)
    /\ UNCHANGED <<storeVars, listVars, armed, pending, on, left>>

CommitterExited(c) ==
    /\ pc[c] = "stop" /\ committer = "stopped"
    /\ Goto(c, "finish")
    /\ UNCHANGED <<storeVars, listVars, commitVars, on, left>>

Finish(c) ==
    /\ pc[c] = "finish"
    /\ closeDone' = TRUE
    /\ Goto(c, "closed")
    /\ UNCHANGED <<closed, ops, listVars, commitVars, on, left>>

WaitDone(c) ==
    /\ pc[c] = "waitdone" /\ closeDone
    /\ Goto(c, "closed")
    /\ UNCHANGED <<storeVars, listVars, commitVars, on, left>>

-----------------------------------------------------------------------------
ClientStep(p) ==
    \/ Lock(p) \/ AppendJournal(p) \/ SendFsync(p) \/ Abort(p) \/ Rebuild(p)
    \/ Commit(p) \/ End(p)

FolderStep(f) ==
    \/ Recheck(f) \/ BeginCompact(f) \/ LockFold(f) \/ FoldOverlay(f)
    \/ EndCompact(f) \/ ClearFlag(f) \/ End(f)

CloserStep(c) == Drained(c) \/ CommitterExited(c) \/ Finish(c) \/ WaitDone(c)

CommitterStep == CommitterFire \/ CommitterStop

Next ==
    \/ \E p \in Procs : Begin(p) \/ ClientStep(p)
    \/ \E f \in Folders : FolderStep(f)
    \/ CommitterStep
    \/ \E c \in Closers : Close(c) \/ CloserStep(c)

Spec == Init /\ [][Next]_vars

\* Admitted work is scheduled and a blocked lock request is eventually
\* granted (sync.Mutex hands over to starving waiters); nobody has to start
\* a mutation or call Close.
Fairness ==
    /\ \A p \in Procs : WF_vars(ClientStep(p)) /\ SF_vars(Lock(p))
    /\ \A f \in Folders : WF_vars(FolderStep(f)) /\ SF_vars(LockFold(f))
    /\ WF_vars(CommitterStep)
    /\ \A c \in Closers : WF_vars(CloserStep(c))

FairSpec == Spec /\ Fairness

-----------------------------------------------------------------------------
\* Type invariant; in particular the WaitGroup never goes negative.
TypeOK ==
    /\ closed \in BOOLEAN /\ closeDone \in BOOLEAN /\ armed \in BOOLEAN
    /\ ops \in Nat
    /\ lock \in [Names -> Procs \cup Folders \cup {Free}]
    /\ overlay \in [Names -> Nat]
    /\ autoCompacting \in [Names -> BOOLEAN]
    /\ committer \in {"off", "running", "stopping", "stopped"}
    /\ pending \in SUBSET Procs
    /\ pc \in [Threads -> {"out", "admitted", "append", "send", "wait", "flushed",
                           "failed", "end", "recheck", "compact", "lock", "fold",
                           "endcompact", "clear", "waitdone", "drain", "stop",
                           "finish", "closed"}]
    /\ on \in [Threads -> Names \cup {NoList}]
    /\ left \in [Procs -> Nat]

\* "Close returns only once nothing of this store's will ever write there
\* again": whichever caller returned, no mutation or compaction is past its
\* admission and the committer is gone.
NothingRunsAfterClose ==
    (\E c \in Closers : pc[c] = "closed") =>
        /\ \A t \in Procs \cup Folders : pc[t] = "out"
        /\ committer \in {"off", "stopped"}

\* "the committer can exit without stranding a waiter": every admitted
\* mutation ends, acknowledged or refused, whatever Close does meanwhile, and
\* every caller of Close returns.
CallsReturn ==
    /\ \A p \in Procs : pc[p] # "out" ~> pc[p] = "out"
    /\ \A c \in Closers : pc[c] # "out" ~> pc[c] = "closed"

\* OverlayAutoCompact "makes the Store fold the overlay into a new base in the
\* background once the overlay reaches this many entries".
OverlayIsFolded ==
    \A l \in Names : overlay[l] >= Threshold ~> (overlay[l] < Threshold \/ closed)
=============================================================================
