------------------------ MODULE StoreLifecycleProofs ------------------------
(***************************************************************************)
(* Close returns only when nothing of the store's runs, for any number of  *)
(* lists, clients, background compactions and callers of Close.            *)
(*                                                                         *)
(* The argument is about the WaitGroup: its counter is the number of       *)
(* goroutines past their admission, plus one for every background          *)
(* compaction that is inside Compact (it holds two slots, its own and the  *)
(* one Compact takes).  Close waits for zero after admission is shut, and  *)
(* from zero the counter cannot leave zero again.                          *)
(*                                                                         *)
(* And a /readyz probe answers for the store of its own time (Readiness).  *)
(***************************************************************************)
EXTENDS StoreLifecycle, Readiness, FiniteSetTheorems, TLAPS

\* Where each kind of goroutine can be.
ClientPcs == {"out", "admitted", "append", "send", "wait", "flushed", "failed", "end"}
FolderPcs == {"out", "recheck", "compact", "lock", "fold", "endcompact", "clear", "end"}
CloserPcs == {"out", "waitdone", "drain", "stop", "finish", "closed"}

\* Only clients wait for the committer.
RoleInv ==
    /\ \A p \in Procs : pc[p] \in ClientPcs
    /\ \A f \in Folders : pc[f] \in FolderPcs
    /\ \A c \in Closers : pc[c] \in CloserPcs
    /\ \A t \in pending : pc[t] = "wait"

\* Holders of a slot, and holders of a second one.
Active == {t \in Procs \cup Folders : pc[t] # "out"}
Compacting == {f \in Folders : pc[f] \in {"lock", "fold", "endcompact"}}

SlotsInv ==
    /\ IsFiniteSet(Active) /\ IsFiniteSet(Compacting)
    /\ ops = Cardinality(Active) + Cardinality(Compacting)

Closing(c) == pc[c] \in {"drain", "stop", "finish"}

\* One caller drains, and what it has seen at each of its steps still holds.
CloseInv ==
    /\ ~closed => ~closeDone /\ \A c \in Closers : pc[c] = "out"
    /\ \A c, d \in Closers : Closing(c) /\ Closing(d) => c = d
    /\ closeDone => /\ \A c \in Closers : ~Closing(c)
                    /\ ops = 0 /\ committer \in {"off", "stopped"}
    /\ \A c \in Closers :
         /\ pc[c] = "stop" => ops = 0 /\ committer \in {"stopping", "stopped"}
         /\ pc[c] = "finish" => ops = 0 /\ committer \in {"off", "stopped"}
         /\ pc[c] = "closed" => closeDone
    /\ committer \in {"stopping", "stopped"} => closed /\ ops = 0

IInv == TypeOK /\ RoleInv /\ SlotsInv /\ CloseInv

-----------------------------------------------------------------------------
(* The counter.                                                            *)

\* A goroutine past its admission keeps the counter above zero, so ops.Wait
\* does not return under it.
LEMMA ActiveHoldsSlot ==
    ASSUME SlotsInv, NEW t \in Procs \cup Folders, pc[t] # "out"
    PROVE  ops # 0
<1>1. t \in Active
  BY DEF Active
<1>2. Cardinality(Active) \in Nat /\ Cardinality(Active) # 0
  BY <1>1, FS_CardinalityType, FS_EmptySet DEF SlotsInv
<1>3. Cardinality(Compacting) \in Nat
  BY FS_CardinalityType DEF SlotsInv
<1> QED
  BY <1>2, <1>3 DEF SlotsInv

\* A step that neither admits nor releases anybody keeps the count.
LEMMA SlotsKept ==
    ASSUME SlotsInv, ops' = ops, Active' = Active, Compacting' = Compacting
    PROVE  SlotsInv'
  BY DEF SlotsInv

\* beginOp: one more goroutine is past its admission.
LEMMA SlotTaken ==
    ASSUME SlotsInv, ops' = ops + 1, NEW t, t \notin Active,
           Active' = Active \cup {t}, Compacting' = Compacting
    PROVE  SlotsInv'
<1>1. IsFiniteSet(Active') /\ Cardinality(Active') = Cardinality(Active) + 1
  BY FS_AddElement DEF SlotsInv
<1>2. Cardinality(Active) \in Nat /\ Cardinality(Compacting) \in Nat
  BY FS_CardinalityType DEF SlotsInv
<1> QED
  BY <1>1, <1>2 DEF SlotsInv

\* endOp: the goroutine is out, and held no second slot.
LEMMA SlotReturned ==
    ASSUME SlotsInv, ops' = ops - 1, NEW t, t \in Active,
           Active' = Active \ {t}, Compacting' = Compacting
    PROVE  SlotsInv'
<1>1. IsFiniteSet(Active') /\ Cardinality(Active') = Cardinality(Active) - 1
  BY FS_RemoveElement DEF SlotsInv
<1>2. Cardinality(Active) \in Nat /\ Cardinality(Compacting) \in Nat
  BY FS_CardinalityType DEF SlotsInv
<1> QED
  BY <1>1, <1>2 DEF SlotsInv

\* The slot that Compact takes inside a background compaction, and returns.
LEMMA SecondSlot ==
    ASSUME SlotsInv, NEW f, Active' = Active,
           \/ ops' = ops + 1 /\ f \notin Compacting /\ Compacting' = Compacting \cup {f}
           \/ ops' = ops - 1 /\ f \in Compacting /\ Compacting' = Compacting \ {f}
    PROVE  SlotsInv'
<1>1. Cardinality(Active) \in Nat /\ Cardinality(Compacting) \in Nat
  BY FS_CardinalityType DEF SlotsInv
<1>2. CASE ops' = ops + 1 /\ f \notin Compacting /\ Compacting' = Compacting \cup {f}
  <2>1. IsFiniteSet(Compacting') /\ Cardinality(Compacting') = Cardinality(Compacting) + 1
    BY <1>2, FS_AddElement DEF SlotsInv
  <2> QED
    BY <1>1, <1>2, <2>1 DEF SlotsInv
<1>3. CASE ops' = ops - 1 /\ f \in Compacting /\ Compacting' = Compacting \ {f}
  <2>1. IsFiniteSet(Compacting') /\ Cardinality(Compacting') = Cardinality(Compacting) - 1
    BY <1>3, FS_RemoveElement DEF SlotsInv
  <2> QED
    BY <1>1, <1>3, <2>1 DEF SlotsInv
<1> QED
  BY <1>2, <1>3

-----------------------------------------------------------------------------
\* A store that has just been opened: nobody is admitted, nobody has closed it.
LEMMA InitIInv == Init => IInv
<1> SUFFICES ASSUME Init PROVE IInv
  OBVIOUS
<1>1. TypeOK
  BY LifecycleAssumption DEF Init, TypeOK, Threads, Free, NoList
<1>2. RoleInv
  BY DEF Init, RoleInv, ClientPcs, FolderPcs, CloserPcs, Threads
<1>3. SlotsInv
  <2>1. Active = {} /\ Compacting = {}
    BY DEF Init, Active, Compacting, Threads
  <2> QED
    BY <2>1, FS_EmptySet DEF Init, SlotsInv
<1>4. CloseInv
  BY DEF Init, CloseInv, Threads, Closing
<1> QED
  BY <1>1, <1>2, <1>3, <1>4 DEF IInv
-----------------------------------------------------------------------------
(* Steps.                                                                  *)

\* A client asks for a slot (beginOp) and gets it, or is refused by a closed
\* store.
LEMMA BeginPreserves ==
    ASSUME IInv, NEW p \in Procs, Begin(p) PROVE IInv'
<1> USE DEF IInv, Begin
<1> USE DEF storeVars, listVars, commitVars
<1>1. TypeOK'
  BY DEF TypeOK, Threads, BeginOp, Goto, NoList
<1>2. RoleInv'
  BY LifecycleAssumption DEF TypeOK, RoleInv, Threads, BeginOp, Goto, ClientPcs, FolderPcs, CloserPcs
<1>3. CASE BeginOp
  <2>1. /\ Active' = Active \cup {p} /\ p \notin Active /\ Compacting' = Compacting
    BY <1>3, LifecycleAssumption DEF TypeOK, Threads, BeginOp, Goto, Active, Compacting
  <2>2. SlotsInv'
    BY <1>3, <2>1, SlotTaken DEF BeginOp
  <2>3. CloseInv'
    BY <1>3, LifecycleAssumption DEF TypeOK, Threads, CloseInv, Closing, BeginOp, Goto
  <2> QED
    BY <1>1, <1>2, <2>2, <2>3
<1>4. CASE closed /\ UNCHANGED <<storeVars, pc, on>>
  <2>1. SlotsInv'
    BY <1>4, SlotsKept DEF Active, Compacting
  <2>2. CloseInv'
    BY <1>4 DEF CloseInv, Closing
  <2> QED
    BY <1>1, <1>2, <2>1, <2>2
<1> QED
  BY <1>3, <1>4 DEF Begin

\* A client's steps between its admission and its end keep its one slot.  The
\* committer it may start runs while the counter is above zero.
LEMMA ClientPreserves ==
    ASSUME IInv, NEW p \in Procs,
           Lock(p) \/ AppendJournal(p) \/ SendFsync(p) \/ Abort(p) \/ Rebuild(p)
    PROVE  IInv'
<1> USE DEF IInv
<1> USE DEF storeVars, listVars, commitVars, Lock, AppendJournal, SendFsync, Abort, Rebuild
<1>1. TypeOK'
  <2>1. lock' \in [Names -> Procs \cup Folders \cup {Free}]
    BY DEF TypeOK, Acquire
  <2>2. overlay' \in [Names -> Nat] /\ UNCHANGED <<autoCompacting, on, left>>
    BY DEF TypeOK, Acquire
  <2>3. /\ committer' \in {"off", "running", "stopping", "stopped"}
        /\ pending' \in SUBSET Procs /\ armed' \in BOOLEAN
    BY DEF TypeOK
  <2>4. Goto(p, "append") \/ Goto(p, "send") \/ Goto(p, "wait") \/ Goto(p, "end")
    OBVIOUS
  <2> QED
    BY <2>1, <2>2, <2>3, <2>4 DEF TypeOK, Threads, Goto
<1>2. RoleInv'
  BY LifecycleAssumption DEF TypeOK, RoleInv, Threads, Goto, ClientPcs, FolderPcs, CloserPcs
<1>3. /\ UNCHANGED storeVars
      /\ pc[p] # "out" /\ pc' = [pc EXCEPT ![p] = pc'[p]] /\ pc'[p] # "out"
  BY DEF TypeOK, Threads, Goto
<1>4. SlotsInv'
  <2>1. Active' = Active /\ Compacting' = Compacting
    BY <1>3, LifecycleAssumption DEF TypeOK, Threads, Active, Compacting
  <2> QED
    BY <1>3, <2>1, SlotsKept
<1>5. CloseInv'
  <2>1. ops # 0
    BY <1>3, ActiveHoldsSlot
  <2>2. \A c \in Closers : pc'[c] = pc[c]
    BY <1>3, LifecycleAssumption DEF TypeOK, Threads
  <2>3. committer' \in {"stopping", "stopped"} => committer' = committer
    BY DEF TypeOK
  <2> QED
    BY <1>3, <2>1, <2>2, <2>3 DEF CloseInv, Closing
<1> QED
  BY <1>1, <1>2, <1>4, <1>5

\* The commit of a mutation, which may start a background compaction
\* (spawnBG): the store is then still open, and one more slot is taken.
LEMMA CommitPreserves ==
    ASSUME IInv, NEW p \in Procs, Commit(p) PROVE IInv'
<1> USE DEF IInv
<1> USE DEF storeVars, listVars, commitVars
<1>0. /\ lock' \in [Names -> Procs \cup Folders \cup {Free}]
      /\ overlay' \in [Names -> Nat]
  <2>1. overlay' = [overlay EXCEPT ![on[p]] = overlay[on[p]] + 1]
    BY DEF Commit
  <2>2. \A l \in Names : overlay[l] + 1 \in Nat
    BY DEF TypeOK
  <2>3. overlay' \in [Names -> Nat]
    BY <2>1, <2>2 DEF TypeOK
  <2> QED
    BY <2>3 DEF TypeOK, Commit
<1>1. CASE \E f \in Folders : /\ BeginOp /\ pc[f] = "out"
                              /\ pc' = [pc EXCEPT ![p] = "end", ![f] = "recheck"]
                              /\ on' = [on EXCEPT ![f] = on[p]]
  <2>1. PICK f \in Folders : /\ BeginOp /\ pc[f] = "out"
                             /\ pc' = [pc EXCEPT ![p] = "end", ![f] = "recheck"]
                             /\ on' = [on EXCEPT ![f] = on[p]]
    BY <1>1
  <2>2. TypeOK'
    <3>1. autoCompacting' \in [Names -> BOOLEAN]
      BY <2>1 DEF TypeOK, Commit, BeginOp
    <3>2. on' \in [Threads -> Names \cup {NoList}]
      BY <2>1 DEF TypeOK, Threads
    <3> QED
      BY <1>0, <2>1, <3>1, <3>2 DEF TypeOK, Threads, Commit, BeginOp
  <2>3. RoleInv'
    BY <2>1, LifecycleAssumption
    DEF TypeOK, RoleInv, Threads, Commit, ClientPcs, FolderPcs, CloserPcs
  <2>4. /\ Active' = Active \cup {f} /\ f \notin Active /\ Compacting' = Compacting
    BY <2>1, LifecycleAssumption DEF TypeOK, Threads, Commit, Active, Compacting
  <2>5. SlotsInv'
    BY <2>1, <2>4, SlotTaken DEF BeginOp
  <2>6. CloseInv'
    BY <2>1, LifecycleAssumption DEF TypeOK, Threads, Commit, CloseInv, Closing, BeginOp
  <2> QED
    BY <2>2, <2>3, <2>5, <2>6
<1>2. CASE Goto(p, "end") /\ UNCHANGED <<storeVars, autoCompacting, on>>
  <2>1. TypeOK'
    BY <1>0, <1>2 DEF TypeOK, Threads, Commit, Goto
  <2>2. RoleInv'
    BY <1>2, LifecycleAssumption
    DEF TypeOK, RoleInv, Threads, Commit, Goto, ClientPcs, FolderPcs, CloserPcs
  <2>3. Active' = Active /\ Compacting' = Compacting
    BY <1>2, LifecycleAssumption DEF TypeOK, Threads, Commit, Goto, Active, Compacting
  <2>4. SlotsInv'
    BY <1>2, <2>3, SlotsKept
  <2>5. CloseInv'
    BY <1>2, LifecycleAssumption DEF TypeOK, Threads, Commit, Goto, CloseInv, Closing
  <2> QED
    BY <2>1, <2>2, <2>4, <2>5
<1> QED
  BY <1>1, <1>2 DEF Commit

\* endOp of a mutation or of a background compaction.
LEMMA EndPreserves ==
    ASSUME IInv, NEW t \in Procs \cup Folders, End(t) PROVE IInv'
<1> USE DEF IInv
<1> USE DEF End, EndOp, Leave, storeVars, listVars, commitVars
<1>1. ops # 0
  BY ActiveHoldsSlot
<1>2. TypeOK'
  BY <1>1 DEF TypeOK, Threads
<1>3. RoleInv'
  BY LifecycleAssumption DEF TypeOK, RoleInv, Threads, ClientPcs, FolderPcs, CloserPcs
<1>4. SlotsInv'
  <2>1. /\ Active' = Active \ {t} /\ t \in Active /\ Compacting' = Compacting
    BY LifecycleAssumption DEF TypeOK, Threads, Active, Compacting
  <2> QED
    BY <2>1, SlotReturned
<1>5. CloseInv'
  <2>1. \A c \in Closers : pc'[c] = pc[c]
    BY LifecycleAssumption DEF TypeOK, Threads
  <2> QED
    BY <1>1, <2>1 DEF CloseInv, Closing
<1> QED
  BY <1>2, <1>3, <1>4, <1>5

\* A background compaction's own steps: the second slot is taken by
\* BeginCompact, unless the store was closed meanwhile, and returned by
\* EndCompact.
LEMMA FolderPreserves ==
    ASSUME IInv, NEW f \in Folders,
           \/ Recheck(f) \/ BeginCompact(f) \/ LockFold(f) \/ FoldOverlay(f)
           \/ EndCompact(f) \/ ClearFlag(f)
    PROVE  IInv'
<1> USE DEF IInv
<1> USE DEF storeVars, listVars, commitVars
<1> USE DEF Recheck, BeginCompact, LockFold, FoldOverlay, EndCompact, ClearFlag
<1>1. ops # 0 /\ ops \in Nat
  BY ActiveHoldsSlot DEF TypeOK
<1>2. /\ \E w \in FolderPcs \ {"out"} : Goto(f, w)
      /\ UNCHANGED <<closed, closeDone, commitVars, on, left>>
  BY DEF FolderPcs, BeginOp, EndOp
<1>3. TypeOK'
  <2>1. lock' \in [Names -> Procs \cup Folders \cup {Free}]
    BY DEF TypeOK, Acquire
  <2>2. overlay' \in [Names -> Nat]
    BY DEF TypeOK, Acquire
  <2>3. autoCompacting' \in [Names -> BOOLEAN]
    BY DEF TypeOK, Acquire
  <2>4. ops' \in Nat
    BY <1>1 DEF BeginOp, EndOp
  <2> QED
    BY <1>2, <2>1, <2>2, <2>3, <2>4 DEF TypeOK, Threads, Goto, FolderPcs
<1>4. RoleInv'
  BY <1>2, LifecycleAssumption DEF TypeOK, RoleInv, Threads, Goto, ClientPcs, FolderPcs, CloserPcs
<1>5. Active' = Active
  BY <1>2, LifecycleAssumption DEF TypeOK, Threads, Goto, Active
<1>6. SlotsInv'
  <2>1. CASE BeginOp /\ pc[f] = "compact" /\ Goto(f, "lock")
    <3>1. f \notin Compacting /\ Compacting' = Compacting \cup {f}
      BY <2>1 DEF TypeOK, Threads, Goto, Compacting
    <3> QED
      BY <1>5, <2>1, <3>1, SecondSlot DEF BeginOp
  <2>2. CASE EndCompact(f)
    <3>1. f \in Compacting /\ Compacting' = Compacting \ {f}
      BY <2>2 DEF TypeOK, Threads, Goto, Compacting
    <3> QED
      BY <1>5, <2>2, <3>1, SecondSlot DEF EndOp
  <2>3. CASE UNCHANGED storeVars
    <3>1. Compacting' = Compacting
      BY <1>1, <2>3 DEF TypeOK, Threads, Goto, Compacting, BeginOp, EndOp
    <3> QED
      BY <1>5, <2>3, <3>1, SlotsKept
  <2> QED
    BY <2>1, <2>2, <2>3
<1>7. CloseInv'
  <2>1. \A c \in Closers : pc'[c] = pc[c]
    BY <1>2, LifecycleAssumption DEF TypeOK, Threads, Goto
  <2> QED
    BY <1>1, <1>2, <2>1 DEF CloseInv, Closing
<1> QED
  BY <1>3, <1>4, <1>6, <1>7

\* The committer answers its waiters (fire) or exits (stop); a waiter stays
\* admitted either way.
LEMMA CommitterPreserves ==
    ASSUME IInv, CommitterStep PROVE IInv'
<1> USE DEF IInv
<1> USE DEF CommitterStep, CommitterFire, CommitterStop, storeVars, listVars
<1>1. /\ UNCHANGED <<storeVars, listVars, on, left>>
      /\ pending' = {} /\ armed' = FALSE
      /\ \E bad : Flush(bad)
      /\ \/ committer = "running" /\ committer' = "running"
         \/ committer = "stopping" /\ committer' = "stopped"
  BY DEF Flush
<1>2. PICK bad : Flush(bad)
  BY <1>1
<1>3. /\ \A t \in Threads \ pending : pc'[t] = pc[t]
      /\ \A t \in pending : /\ t \in Procs /\ pc[t] = "wait"
                            /\ pc'[t] \in {"failed", "flushed"}
  BY <1>2 DEF Flush, TypeOK, Threads, RoleInv
<1>4. TypeOK'
  <2>1. pc' \in [Threads -> {"out", "admitted", "append", "send", "wait", "flushed",
                             "failed", "end", "recheck", "compact", "lock", "fold",
                             "endcompact", "clear", "waitdone", "drain", "stop",
                             "finish", "closed"}]
    BY <1>2 DEF Flush, TypeOK
  <2> QED
    BY <1>1, <2>1 DEF TypeOK
<1>5. RoleInv'
  BY <1>1, <1>3, LifecycleAssumption DEF RoleInv, TypeOK, Threads, ClientPcs
<1>6. SlotsInv'
  <2>1. Active' = Active /\ Compacting' = Compacting
    BY <1>3, LifecycleAssumption DEF TypeOK, Threads, Active, Compacting
  <2> QED
    BY <1>1, <2>1, SlotsKept
<1>7. CloseInv'
  <2>1. \A c \in Closers : pc'[c] = pc[c]
    BY <1>3, LifecycleAssumption DEF TypeOK, Threads
  <2> QED
    BY <1>1, <2>1 DEF CloseInv, Closing
<1> QED
  BY <1>4, <1>5, <1>6, <1>7

\* Close: the first caller shuts admission, drains and stops the committer;
\* the others wait for closeDone.
LEMMA CloserPreserves ==
    ASSUME IInv, NEW c \in Closers, Close(c) \/ CloserStep(c) PROVE IInv'
<1> USE DEF IInv
<1> USE DEF CloserStep, Close, Drained, StopCommitter, CommitterExited, Finish, WaitDone
<1> USE DEF storeVars, listVars, commitVars
<1>1. /\ \E w \in CloserPcs \ {"out"} : Goto(c, w)
      /\ UNCHANGED <<ops, listVars, armed, pending, on, left>>
  BY DEF CloserPcs
<1>2. TypeOK'
  BY <1>1 DEF TypeOK, Threads, Goto, CloserPcs
<1>3. RoleInv'
  BY <1>1, LifecycleAssumption DEF TypeOK, RoleInv, Threads, Goto, ClientPcs, FolderPcs, CloserPcs
<1>4. SlotsInv'
  <2>1. Active' = Active /\ Compacting' = Compacting
    BY <1>1, LifecycleAssumption DEF TypeOK, Threads, Goto, Active, Compacting
  <2> QED
    BY <1>1, <2>1, SlotsKept
<1>5. CloseInv'
  <2>1. CASE Close(c)
    BY <2>1 DEF TypeOK, Threads, Goto, CloseInv, Closing
  <2>2. CASE Drained(c)
    BY <2>2 DEF TypeOK, Threads, Goto, CloseInv, Closing
  <2>3. CASE CommitterExited(c)
    BY <2>3 DEF TypeOK, Threads, Goto, CloseInv, Closing
  <2>4. CASE Finish(c)
    BY <2>4 DEF TypeOK, Threads, Goto, CloseInv, Closing
  <2>5. CASE WaitDone(c)
    BY <2>5 DEF TypeOK, Threads, Goto, CloseInv, Closing
  <2> QED
    BY <2>1, <2>2, <2>3, <2>4, <2>5
<1> QED
  BY <1>2, <1>3, <1>4, <1>5

\* Every step of every goroutine keeps the inductive invariant.
LEMMA NextPreserves == IInv /\ [Next]_vars => IInv'
<1> SUFFICES ASSUME IInv, [Next]_vars PROVE IInv'
  OBVIOUS
<1>1. CASE UNCHANGED vars
  BY <1>1
  DEF vars, storeVars, listVars, commitVars, IInv, TypeOK, RoleInv, SlotsInv, CloseInv,
      Closing, Active, Compacting
<1>2. CASE \E p \in Procs : Begin(p) \/ ClientStep(p)
  BY <1>2, BeginPreserves, ClientPreserves, CommitPreserves, EndPreserves DEF ClientStep
<1>3. CASE \E f \in Folders : FolderStep(f)
  BY <1>3, FolderPreserves, EndPreserves DEF FolderStep
<1>4. CASE CommitterStep
  BY <1>4, CommitterPreserves
<1>5. CASE \E c \in Closers : Close(c) \/ CloserStep(c)
  BY <1>5, CloserPreserves
<1> QED
  BY <1>1, <1>2, <1>3, <1>4, <1>5 DEF Next

\* The inductive invariant holds throughout every run of the store.
LEMMA Invariance == Spec => []IInv
  BY InitIInv, NextPreserves, PTL DEF Spec

\* The state is well typed in every run; in particular the WaitGroup's counter
\* never goes negative, which would panic.
THEOREM TypeCorrect == Spec => []TypeOK
<1>1. IInv => TypeOK
  BY DEF IInv
<1> QED
  BY <1>1, Invariance, PTL

\* "Close returns only once nothing of this store's will ever write there
\* again" (Store.Close), for every number of lists, clients, background
\* compactions and callers of Close.
THEOREM CloseTheorem == Spec => []NothingRunsAfterClose
<1>1. IInv => NothingRunsAfterClose
  BY ActiveHoldsSlot DEF IInv, CloseInv, NothingRunsAfterClose
<1> QED
  BY <1>1, Invariance, PTL

-----------------------------------------------------------------------------
(* Readiness.                                                              *)

Keys == [obj : 0 .. MaxObj, ver : 0 .. MaxVer, damage : {"none", "content", "create"}]

ProbeStates ==
    [at : {"out", "damage", "version", "cache", "lists", "state", "golden", "store", "answered"},
     key : Keys, obj : 0 .. MaxObj, ready : BOOLEAN, quiet : BOOLEAN, steady : BOOLEAN]

CacheStates == [full : BOOLEAN, key : Keys, ready : BOOLEAN, steady : BOOLEAN]

\* TypeOK with the whole of the cache and of the probes.
ReadinessTypes ==
    /\ list \in 0 .. MaxObj
    /\ version \in [ListObjects -> 0 .. MaxVer]
    /\ former \in [ListObjects -> SUBSET (1 .. MaxVer)]
    /\ damaged \in {"none", "content", "create"}
    /\ mayFail \in BOOLEAN /\ skipped \in BOOLEAN
    /\ cache \in CacheStates
    /\ probe \in [Probes -> ProbeStates]

\* A served list has a version, and so has the one about to be installed.
ServedInv ==
    /\ list # 0 => version[list] # 0
    /\ install = NoInstall \/ install \in [obj : ListObjects, ver : 1 .. MaxVer]

\* What is about to be installed replaces the served object or is a new one,
\* which has left nothing behind.
InstallInv ==
    /\ install # NoInstall => install.obj = list \/ version[install.obj] = 0
    /\ \A o \in ListObjects : version[o] = 0 => former[o] = {}

\* A key names a state that the list object is in or has left (an object
\* that is not stamped yet is at 0).
FormerOf(o) == IF o = 0 THEN {} ELSE former[o]
Past(key) == key.damage = "none" /\ key.ver \in {0, VersionOf(key.obj)} \cup FormerOf(key.obj)

At(key) == key.obj = list /\ key.ver = VersionOf(list)

\* ...and, if current, one that the list has not left in between.
Current(key) == At(key) /\ key.ver \notin FormerOf(list)

KeyRead == {"cache", "lists", "state", "golden", "store", "answered"}

\* A probe whose key the store has not left has evaluated the store it has
\* now.  The cache likewise.
CacheInv ==
    cache.full => Past(cache.key) /\ (Current(cache.key) => cache.ready = Verdict)

Knows(r) ==
    /\ r.at = "version" => r.key.damage = "none"
    /\ r.at \in {"damage", "version"} /\ r.quiet => r.key.obj = list
    /\ r.at \in KeyRead => Past(r.key) /\ (r.quiet => At(r.key))
    /\ r.at \in KeyRead /\ Current(r.key) =>
         /\ r.at \in {"state", "golden"} => r.obj = list
         /\ r.at = "golden" => r.ready = ~skipped
         /\ r.at \in {"store", "answered"} => r.ready = Verdict

ProbeInv == \A p \in Probes : Knows(probe[p])

ReadyTypes == ReadinessTypes /\ ServedInv

\* While nothing fails.
ReadyInv == damaged = "none" /\ InstallInv /\ CacheInv /\ ProbeInv

\* The store as it is opened.
LEMMA ReadyInitTypes == ReadyInit => ReadyTypes /\ (~mayFail => ReadyInv)
<1> SUFFICES ASSUME ReadyInit PROVE ReadyTypes /\ (~mayFail => ReadyInv)
  OBVIOUS
<1> USE ReadinessAssumption
<1>1. mayFail \in BOOLEAN /\ skipped \in BOOLEAN
  BY Zenon DEF ReadyInit
<1>2. NoKey \in Keys
  BY DEF NoKey, Keys
<1>3. cache \in CacheStates
  BY <1>2 DEF ReadyInit, NoCache, CacheStates
<1>4. Asleep \in ProbeStates
  BY <1>2 DEF Asleep, ProbeStates
<1>5. probe \in [Probes -> ProbeStates]
  BY <1>4 DEF ReadyInit
<1>6. list \in 0 .. MaxObj /\ version \in [ListObjects -> 0 .. MaxVer] /\ (list # 0 => version[list] # 0)
  BY DEF ReadyInit, ListObjects
<1>7. ReadyTypes
  BY <1>1, <1>3, <1>5, <1>6 DEF ReadyInit, ReadyTypes, ReadinessTypes, ServedInv
<1>8. ReadyInv
  BY <1>5 DEF ReadyInit, ReadyInv, InstallInv, CacheInv, ProbeInv, Knows, NoCache, Asleep, KeyRead
<1> QED
  BY <1>7, <1>8

\* A step of the store changes of a probe only that it is no longer quiet.
LEMMA DisturbTypes ==
    ASSUME ReadinessTypes, Disturb
    PROVE  /\ probe' \in [Probes -> ProbeStates]
           /\ \A p \in Probes :
                /\ probe'[p].at = probe[p].at /\ probe'[p].key = probe[p].key
                /\ probe'[p].obj = probe[p].obj /\ probe'[p].ready = probe[p].ready
                /\ probe'[p].quiet = FALSE /\ probe'[p].steady = probe[p].steady
<1>1. \A p \in Probes : probe[p] \in ProbeStates
  BY DEF ReadinessTypes
<1> QED
  BY <1>1 DEF Disturb, ProbeStates

\* The store keeps its types.
LEMMA StoreTypes == ReadyTypes /\ StoreStep => ReadyTypes'
<1> SUFFICES ASSUME ReadyTypes, StoreStep PROVE ReadyTypes'
  OBVIOUS
<1> USE ReadinessAssumption
<1>0. ReadinessTypes /\ ServedInv
  BY DEF ReadyTypes
<1>1. CASE \E v \in 1 .. MaxVer : Mutate(v)
  <2>1. PICK v \in 1 .. MaxVer : Mutate(v)
    BY <1>1
  <2>2. probe' \in [Probes -> ProbeStates]
    BY <1>0, <2>1, DisturbTypes DEF Mutate
  <2>3. ReadinessTypes'
    BY <1>0, <2>1, <2>2 DEF ReadinessTypes, Mutate, Restamp, ListObjects
  <2>4. ServedInv'
    BY <1>0, <2>1 DEF ReadinessTypes, ServedInv, Mutate, Restamp, ListObjects, NoInstall
  <2> QED
    BY <2>3, <2>4 DEF ReadyTypes
<1>2. CASE \E kind \in {"content", "create"} : Fail(kind)
  <2>1. PICK kind \in {"content", "create"} : Fail(kind)
    BY <1>2
  <2>2. probe' \in [Probes -> ProbeStates]
    BY <1>0, <2>1, DisturbTypes DEF Fail
  <2>3. ReadinessTypes'
    BY <1>0, <2>1, <2>2 DEF ReadinessTypes, Fail
  <2>4. ServedInv'
    BY <1>0, <2>1 DEF ReadinessTypes, ServedInv, Fail, NoInstall
  <2> QED
    BY <2>3, <2>4 DEF ReadyTypes
<1>3. CASE \E o \in ListObjects, v \in 1 .. MaxVer : BeginInstall(o, v)
  <2>1. PICK o \in ListObjects, v \in 1 .. MaxVer : BeginInstall(o, v)
    BY <1>3
  <2>2. probe' \in [Probes -> ProbeStates]
    BY <1>0, <2>1, DisturbTypes DEF BeginInstall
  <2>3. ReadinessTypes'
    BY <1>0, <2>1, <2>2 DEF ReadinessTypes, BeginInstall
  <2>4. ServedInv'
    BY <1>0, <2>1 DEF ReadinessTypes, ServedInv, BeginInstall, NoInstall
  <2> QED
    BY <2>3, <2>4 DEF ReadyTypes
<1>4. CASE Install
  <2>1. install \in [obj : ListObjects, ver : 1 .. MaxVer]
    BY <1>0, <1>4 DEF ServedInv, Install
  <2>2. probe' \in [Probes -> ProbeStates]
    BY <1>0, <1>4, DisturbTypes DEF Install
  <2>3. ReadinessTypes'
    BY <1>0, <1>4, <2>1, <2>2 DEF ReadinessTypes, Install, Restamp, ListObjects
  <2>4. ServedInv'
    BY <1>0, <1>4, <2>1 DEF ReadinessTypes, ServedInv, Install, Restamp, NoInstall, ListObjects
  <2> QED
    BY <2>3, <2>4 DEF ReadyTypes
<1> QED
  BY <1>1, <1>2, <1>3, <1>4 DEF StoreStep

\* Probes and the expiry of the cache keep the types.
LEMMA ProbeTypes ==
    ASSUME ReadyTypes, NEW p \in Probes, ProbeStep(p)
    PROVE  ReadyTypes'
<1> USE ReadinessAssumption
<1>0. ReadinessTypes /\ ServedInv
  BY DEF ReadyTypes
<1>1. probe[p] \in ProbeStates /\ probe[p].key \in Keys
  BY <1>0 DEF ReadinessTypes, ProbeStates
<1>2. UNCHANGED store
  BY DEF ProbeStep, Start, KeyDamage, KeyVersion, Lookup, EvalLists, EvalState, EvalGolden,
         StoreVerdict, Answer, Proceed
<1>3. ServedInv'
  BY <1>0, <1>2 DEF ServedInv, store, NoInstall
<1>4. \A o \in 0 .. MaxObj : VersionOf(o) \in 0 .. MaxVer
  BY <1>0 DEF ReadinessTypes, VersionOf, ListObjects
<1>5. NoKey \in Keys /\ Asleep \in ProbeStates
  BY DEF NoKey, Keys, Asleep, ProbeStates
<1> SUFFICES ASSUME TRUE
            PROVE  /\ cache' \in CacheStates
                   /\ probe' \in [Probes -> ProbeStates]
  BY <1>0, <1>2, <1>3 DEF ReadyTypes, ReadinessTypes, store
<1>6. CASE Start(p)
  BY <1>0, <1>5, <1>6 DEF ReadinessTypes, Start, Proceed, Asleep, ProbeStates, NoKey, Keys
<1>7. CASE KeyDamage(p)
  BY <1>0, <1>1, <1>7 DEF ReadinessTypes, KeyDamage, Proceed, ProbeStates, Keys
<1>8. CASE KeyVersion(p)
  <2>1. VersionOf(probe[p].key.obj) \in 0 .. MaxVer
    BY <1>1, <1>4 DEF Keys
  <2> QED
    BY <1>0, <1>1, <1>8, <2>1 DEF ReadinessTypes, KeyVersion, Proceed, ProbeStates, Keys
<1>9. CASE Lookup(p)
  <2>1. CASE Proceed(p, "cache", [probe[p] EXCEPT !.at = "answered", !.ready = cache.ready, !.steady = cache.steady])
    BY <1>0, <1>1, <1>9, <2>1 DEF ReadinessTypes, Lookup, Proceed, ProbeStates, CacheStates
  <2>2. CASE Proceed(p, "cache", [probe[p] EXCEPT !.at = "lists"])
    BY <1>0, <1>1, <1>9, <2>2 DEF ReadinessTypes, Lookup, Proceed, ProbeStates
  <2> QED
    BY <1>9, <2>1, <2>2 DEF Lookup
<1>10. CASE EvalLists(p)
  BY <1>0, <1>1, <1>10 DEF ReadinessTypes, EvalLists, Proceed, ProbeStates
<1>11. CASE EvalState(p)
  BY <1>0, <1>1, <1>11 DEF ReadinessTypes, EvalState, Proceed, ProbeStates
<1>12. CASE EvalGolden(p)
  BY <1>0, <1>1, <1>12 DEF ReadinessTypes, EvalGolden, Proceed, ProbeStates
<1>13. CASE StoreVerdict(p)
  BY <1>0, <1>1, <1>13 DEF ReadinessTypes, StoreVerdict, Proceed, ProbeStates, CacheStates
<1>14. CASE Answer(p)
  BY <1>0, <1>1, <1>5, <1>14 DEF ReadinessTypes, Answer, Proceed
<1> QED
  BY <1>6, <1>7, <1>8, <1>9, <1>10, <1>11, <1>12, <1>13, <1>14 DEF ProbeStep

LEMMA ExpireTypes == ReadyTypes /\ Expire => ReadyTypes'
  BY ReadinessAssumption DEF ReadyTypes, ReadinessTypes, ServedInv, Expire, store, NoCache, CacheStates, NoKey, Keys, NoInstall

LEMMA ReadinessStepTypes == ReadyTypes /\ [ReadyNext]_readyVars => ReadyTypes'
<1> SUFFICES ASSUME ReadyTypes, [ReadyNext]_readyVars PROVE ReadyTypes'
  OBVIOUS
<1>1. CASE UNCHANGED readyVars
  BY <1>1 DEF readyVars, ReadyTypes, ReadinessTypes, ServedInv, NoInstall
<1> QED
  BY <1>1, StoreTypes, ProbeTypes, ExpireTypes DEF ReadyNext

\* While nothing fails, a change of the store leaves every key that was read
\* before behind, or does not concern it.
LEMMA NothingReturns ==
    ASSUME ReadyTypes, ReadyInv, ~mayFail, StoreStep
    PROVE  /\ damaged' = "none" /\ skipped' = skipped /\ cache' = cache
           /\ InstallInv' /\ Disturb
           /\ \A key \in Keys : Past(key) =>
                /\ Past(key)'
                /\ Current(key)' => (Current(key) /\ list' = list /\ (Verdict' <=> Verdict))
<1> USE ReadinessAssumption
<1>0. ReadinessTypes /\ ServedInv /\ InstallInv /\ damaged = "none"
  BY DEF ReadyTypes, ReadyInv
<1>a. \A o \in ListObjects : version[o] \in 0 .. MaxVer /\ former[o] \subseteq 1 .. MaxVer
  BY <1>0 DEF ReadinessTypes
<1>b. ASSUME NEW o \in ListObjects, NEW v \in 1 .. MaxVer, Restamp(o, v)
      PROVE  /\ version'[o] = v /\ former'[o] = former[o] \cup ({version[o]} \ {0, v})
             /\ \A x \in ListObjects : x # o => version'[x] = version[x] /\ former'[x] = former[x]
  BY <1>0, <1>b DEF ReadinessTypes, Restamp
<1>c. ASSUME NEW key \in Keys, Past(key)
      PROVE  /\ key.obj \in 0 .. MaxObj /\ key.ver \in 0 .. MaxVer /\ key.damage = "none"
             /\ key.obj # 0 => key.ver \in {0, version[key.obj]} \/ key.ver \in former[key.obj]
             /\ key.obj = 0 => key.ver = 0
  BY <1>c DEF Keys, Past, VersionOf, FormerOf
<1>d. ASSUME NEW o \in ListObjects, NEW v \in 1 .. MaxVer, Restamp(o, v), list' = o,
             o = list \/ version[o] = 0, damaged' = "none", skipped' = skipped, NEW key \in Keys, Past(key)
      PROVE  /\ Past(key)'
             /\ Current(key)' => (Current(key) /\ list' = list /\ (Verdict' <=> Verdict))
  <2>1. /\ version'[o] = v /\ former'[o] = former[o] \cup ({version[o]} \ {0, v})
        /\ \A x \in ListObjects : x # o => version'[x] = version[x] /\ former'[x] = former[x]
    BY <1>b, <1>d
  <2>2. /\ key.obj \in 0 .. MaxObj /\ key.ver \in 0 .. MaxVer /\ key.damage = "none"
        /\ key.obj # 0 => key.ver \in {0, version[key.obj]} \/ key.ver \in former[key.obj]
        /\ key.obj = 0 => key.ver = 0
    BY <1>c, <1>d
  <2>3. Past(key)'
    <3>1. CASE key.obj = 0
      BY <2>2, <3>1 DEF Past, VersionOf, FormerOf
    <3>2. CASE key.obj = o
      <4>1. key.ver \in {0, version'[o]} \/ key.ver \in former'[o]
        <5>1. CASE key.ver \in former[o]
          BY <2>1, <5>1
        <5>2. CASE key.ver = version[o] /\ version[o] # 0
          BY <2>1, <5>2
        <5>3. CASE key.ver = 0
          BY <5>3
        <5> QED
          BY <2>2, <3>2, <5>1, <5>2, <5>3 DEF ListObjects
      <4> QED
        BY <2>2, <3>2, <4>1 DEF Past, VersionOf, FormerOf, ListObjects
    <3>3. CASE key.obj # 0 /\ key.obj # o
      <4>1. key.obj \in ListObjects
        BY <2>2, <3>3 DEF ListObjects
      <4>2. key.ver \in {0, version'[key.obj]} \/ key.ver \in former'[key.obj]
        BY <2>1, <2>2, <3>3, <4>1
      <4> QED
        BY <2>2, <3>3, <4>2 DEF Past, VersionOf, FormerOf
    <3> QED
      BY <3>1, <3>2, <3>3
  <2>4. ASSUME Current(key)'
        PROVE  Current(key) /\ list' = list /\ (Verdict' <=> Verdict)
    <3>1. key.obj = o /\ key.ver = v /\ v \notin former'[o] /\ o # 0
      BY <1>d, <2>1, <2>4 DEF Current, At, VersionOf, FormerOf, ListObjects
    <3>2. v \notin former[o] /\ version[o] = v
      BY <2>1, <2>2, <3>1
    <3>3. list = o /\ list' = list
      BY <1>d, <3>2
    <3>4. VersionOf(list) = v /\ VersionOf(list)' = v
      BY <1>d, <2>1, <3>1, <3>2, <3>3 DEF VersionOf
    <3>5. Verdict' <=> Verdict
      BY <1>0, <1>d, <3>1, <3>3, <3>4 DEF Verdict
    <3> QED
      BY <3>1, <3>2, <3>3, <3>4, <3>5 DEF Current, At, FormerOf
  <2> QED
    BY <2>3, <2>4
<1>1. CASE \E v \in 1 .. MaxVer : Mutate(v)
  <2>1. PICK v \in 1 .. MaxVer : Mutate(v)
    BY <1>1
  <2>2. /\ list \in ListObjects /\ damaged' = damaged /\ list' = list /\ install' = install /\ install = NoInstall
        /\ skipped' = skipped /\ cache' = cache /\ Disturb /\ Restamp(list, v)
    BY <1>0, <2>1 DEF Mutate, ReadinessTypes, ListObjects
  <2>3. InstallInv'
    BY <1>0, <1>b, <2>2 DEF InstallInv, NoInstall
  <2> QED
    BY <1>0, <1>d, <2>2, <2>3
<1>2. CASE \E kind \in {"content", "create"} : Fail(kind)
  BY <1>2 DEF Fail
<1>3. CASE \E o \in ListObjects, v \in 1 .. MaxVer : BeginInstall(o, v)
  <2>1. PICK o \in ListObjects, v \in 1 .. MaxVer : BeginInstall(o, v)
    BY <1>3
  <2>2. /\ damaged' = "none" /\ list' = list /\ version' = version /\ former' = former /\ skipped' = skipped
        /\ cache' = cache /\ Disturb /\ install' = [obj |-> o, ver |-> v] /\ (o = list \/ version[o] = 0)
    BY <2>1 DEF BeginInstall
  <2>3. InstallInv'
    BY <1>0, <2>2 DEF InstallInv
  <2>4. \A key \in Keys : (Past(key)' <=> Past(key)) /\ (Current(key)' <=> Current(key))
    BY <2>2 DEF Past, Current, At, VersionOf, FormerOf
  <2>5. Verdict' <=> Verdict
    BY <1>0, <2>2 DEF Verdict, VersionOf
  <2> QED
    BY <2>2, <2>3, <2>4, <2>5
<1>4. CASE Install
  <2>1. install \in [obj : ListObjects, ver : 1 .. MaxVer]
    BY <1>0, <1>4 DEF ServedInv, Install
  <2>2. PICK o \in ListObjects, v \in 1 .. MaxVer : install.obj = o /\ install.ver = v
    BY <2>1
  <2>3. /\ damaged' = damaged /\ list' = o /\ Restamp(o, v) /\ skipped' = skipped
        /\ cache' = cache /\ Disturb /\ install' = NoInstall
    BY <1>4, <2>2 DEF Install
  <2>4. o = list \/ version[o] = 0
    BY <1>0, <1>4, <2>2 DEF InstallInv, Install
  <2>5. InstallInv'
    BY <1>0, <1>b, <2>3 DEF InstallInv, NoInstall
  <2> QED
    BY <1>0, <1>d, <2>3, <2>4, <2>5
<1> QED
  BY <1>1, <1>2, <1>3, <1>4 DEF StoreStep

\* So the cache and the probes keep what they know.
LEMMA StoreKeepsInv ==
    ASSUME ReadyTypes, ReadyInv, ~mayFail, StoreStep
    PROVE  ReadyInv'
<1>1. /\ damaged' = "none" /\ skipped' = skipped /\ cache' = cache /\ InstallInv' /\ Disturb
  BY NothingReturns
<1>2. ASSUME NEW key \in Keys, Past(key)
      PROVE  /\ Past(key)'
             /\ Current(key)' => (Current(key) /\ list' = list /\ (Verdict' <=> Verdict))
  BY <1>2, NothingReturns
<1>3. ReadinessTypes /\ CacheInv /\ ProbeInv
  BY DEF ReadyTypes, ReadyInv
<1>4. CacheInv'
  <2> SUFFICES ASSUME cache'.full
               PROVE  Past(cache.key)' /\ (Current(cache.key)' => cache'.ready = Verdict')
    BY DEF CacheInv
  <2>1. PICK key \in Keys : cache.key = key
    BY <1>3 DEF ReadinessTypes, CacheStates
  <2>2. cache'.key = key
    BY <1>1, <2>1
  <2>3. Past(key) /\ (Current(key) => cache.ready = Verdict)
    BY <1>1, <1>3, <2>1 DEF CacheInv
  <2>4. Verdict \in BOOLEAN /\ Verdict' \in BOOLEAN
    BY Zenon DEF Verdict
  <2> QED
    BY <1>1, <1>2, <2>1, <2>2, <2>3, <2>4
<1>5. ProbeInv'
  <2> SUFFICES ASSUME NEW p \in Probes
               PROVE  Knows(probe[p])'
    BY DEF ProbeInv
  <2>1. PICK key \in Keys : probe[p].key = key
    BY <1>3 DEF ReadinessTypes, ProbeStates
  <2>2. /\ probe'[p].at = probe[p].at /\ probe'[p].key = key
        /\ probe'[p].obj = probe[p].obj /\ probe'[p].ready = probe[p].ready
        /\ probe'[p].quiet = FALSE
    BY <1>1, <1>3, <2>1, DisturbTypes
  <2>3. /\ probe[p].at = "version" => key.damage = "none"
        /\ probe[p].at \in KeyRead => Past(key)
        /\ probe[p].at \in KeyRead /\ Current(key) =>
             /\ probe[p].at \in {"state", "golden"} => probe[p].obj = list
             /\ probe[p].at = "golden" => probe[p].ready = ~skipped
             /\ probe[p].at \in {"store", "answered"} => probe[p].ready = Verdict
    BY <1>3, <2>1 DEF ProbeInv, Knows
  <2>4. Verdict \in BOOLEAN /\ Verdict' \in BOOLEAN
    BY Zenon DEF Verdict
  <2>5. Verdict = Verdict' \/ ~(Verdict <=> Verdict')
    BY <2>4
  <2> QED
    BY <1>1, <1>2, <2>1, <2>2, <2>3, <2>5 DEF Knows
<1> QED
  BY <1>1, <1>4, <1>5 DEF ReadyInv


\* A step of a probe leaves the store, and what the other probes know, alone.
LEMMA ProbeKeepsInv ==
    ASSUME ReadyTypes, ReadyInv, NEW p \in Probes, ProbeStep(p)
    PROVE  ReadyInv'
<1> USE ReadinessAssumption
<1>0. ReadinessTypes /\ damaged = "none" /\ InstallInv /\ CacheInv /\ ProbeInv
  BY DEF ReadyTypes, ReadyInv
<1>1. UNCHANGED store
  BY DEF ProbeStep, Start, KeyDamage, KeyVersion, Lookup, EvalLists, EvalState, EvalGolden,
         StoreVerdict, Answer, Proceed
<1>2. /\ list' = list /\ version' = version /\ former' = former /\ damaged' = damaged
      /\ skipped' = skipped /\ install' = install
  BY <1>1 DEF store
<1>3. InstallInv'
  BY <1>0, <1>2 DEF InstallInv, NoInstall
<1>4. Verdict' = Verdict /\ Verdict \in BOOLEAN
  <2>1. Verdict' = Verdict
    BY <1>2 DEF Verdict, VersionOf
  <2>2. Verdict \in BOOLEAN
    BY Zenon DEF Verdict
  <2> QED
    BY <2>1, <2>2
<1>5. \A key \in Keys : Past(key)' = Past(key) /\ At(key)' = At(key) /\ Current(key)' = Current(key)
  BY <1>2 DEF Past, At, Current, VersionOf, FormerOf
<1>6. PICK key \in Keys : probe[p].key = key
  BY <1>0 DEF ReadinessTypes, ProbeStates
<1>7. PICK ckey \in Keys : cache.key = ckey
  BY <1>0 DEF ReadinessTypes, CacheStates
<1>8. probe[p] \in ProbeStates /\ Knows(probe[p])
  BY <1>0 DEF ReadinessTypes, ProbeInv
<1>9. \A q \in Probes : q # p => probe'[q] = probe[q]
  BY <1>0 DEF ReadinessTypes, ProbeStep, Start, KeyDamage, KeyVersion, Lookup, EvalLists, EvalState,
              EvalGolden, StoreVerdict, Answer, Proceed
<1>10. ASSUME NEW r, Proceed(p, probe[p].at, r) PROVE probe'[p] = r
  BY <1>0, <1>10 DEF ReadinessTypes, Proceed
<1>11. ASSUME NEW q \in Probes, q # p PROVE Knows(probe[q])'
  <2>1. PICK k \in Keys : probe[q].key = k
    BY <1>0 DEF ReadinessTypes, ProbeStates
  <2>2. probe'[q] = probe[q] /\ Knows(probe[q])
    BY <1>0, <1>9, <1>11 DEF ProbeInv
  <2> QED
    BY <1>2, <1>4, <1>5, <2>1, <2>2 DEF Knows
<1>12. CASE UNCHANGED cache
  <2>1. CacheInv'
    BY <1>0, <1>4, <1>5, <1>7, <1>12 DEF CacheInv
  <2>2. Knows(probe[p])'
    <3>1. CASE Start(p)
      <4>1. probe'[p] = [Asleep EXCEPT !.at = "damage", !.key.obj = list]
        BY <1>10, <3>1 DEF Start, Proceed
      <4> QED
        BY <1>2, <4>1 DEF Knows, Asleep, NoKey, KeyRead
    <3>2. CASE KeyDamage(p)
      <4>1. probe'[p] = [probe[p] EXCEPT !.at = "version", !.key.damage = damaged] /\ probe[p].at = "damage"
        BY <1>10, <3>2 DEF KeyDamage, Proceed
      <4>2. /\ probe'[p].at = "version" /\ probe'[p].quiet = probe[p].quiet
            /\ probe'[p].key.obj = probe[p].key.obj /\ probe'[p].key.damage = damaged
        BY <1>8, <4>1 DEF ProbeStates, Keys
      <4> QED
        BY <1>0, <1>2, <1>8, <4>1, <4>2 DEF Knows, KeyRead
    <3>3. CASE KeyVersion(p)
      <4>1. /\ probe'[p] = [probe[p] EXCEPT !.at = "cache", !.key.ver = VersionOf(probe[p].key.obj)]
            /\ probe[p].at = "version"
        BY <1>10, <3>3 DEF KeyVersion, Proceed
      <4>2. /\ probe'[p].at = "cache" /\ probe'[p].quiet = probe[p].quiet
            /\ probe'[p].key.obj = key.obj /\ probe'[p].key.damage = key.damage
            /\ probe'[p].key.ver = VersionOf(key.obj)
        BY <1>6, <1>8, <4>1 DEF ProbeStates, Keys
      <4>3. VersionOf(key.obj) \in Nat
        BY <1>0, <1>6 DEF ReadinessTypes, Keys, VersionOf, ListObjects
      <4>4. VersionOf(key.obj)' = VersionOf(key.obj) /\ VersionOf(list)' = VersionOf(list)
        BY <1>2 DEF VersionOf
      <4>5. Past(probe[p].key)'
        BY <1>6, <1>8, <4>1, <4>2, <4>3, <4>4 DEF Knows, Past, VersionOf, FormerOf
      <4>6. probe'[p].quiet => At(probe[p].key)'
        BY <1>2, <1>6, <1>8, <4>1, <4>2 DEF Knows, At, VersionOf
      <4> QED
        BY <4>2, <4>5, <4>6 DEF Knows, KeyRead
    <3>4. CASE Lookup(p)
      <4>1. CASE KeysMatch(p) /\ Proceed(p, "cache", [probe[p] EXCEPT !.at = "answered", !.ready = cache.ready, !.steady = cache.steady])
        <5>1. probe'[p] = [probe[p] EXCEPT !.at = "answered", !.ready = cache.ready, !.steady = cache.steady] /\ probe[p].at = "cache"
          BY <1>10, <4>1 DEF Proceed
        <5>2. /\ probe'[p].at = "answered" /\ probe'[p].quiet = probe[p].quiet
              /\ probe'[p].key = key /\ probe'[p].ready = cache.ready
          BY <1>6, <1>8, <5>1 DEF ProbeStates
        <5>3. cache.full /\ cache.key = key
          BY <1>6, <4>1 DEF KeysMatch
        <5>4. Past(key) /\ (Current(key) => cache.ready = Verdict)
          BY <1>0, <5>3 DEF CacheInv
        <5>5. probe[p].quiet => At(key)
          BY <1>6, <1>8, <5>1 DEF Knows, KeyRead
        <5> QED
          BY <1>2, <1>4, <1>5, <5>2, <5>4, <5>5 DEF Knows, KeyRead
      <4>2. CASE Proceed(p, "cache", [probe[p] EXCEPT !.at = "lists"])
        <5>1. probe'[p] = [probe[p] EXCEPT !.at = "lists"] /\ probe[p].at = "cache"
          BY <1>10, <4>2 DEF Proceed
        <5>2. probe'[p].at = "lists" /\ probe'[p].quiet = probe[p].quiet /\ probe'[p].key = key
          BY <1>6, <1>8, <5>1 DEF ProbeStates
        <5> QED
          BY <1>2, <1>5, <1>6, <1>8, <5>1, <5>2 DEF Knows, KeyRead
      <4> QED
        BY <3>4, <4>1, <4>2 DEF Lookup
    <3>5. CASE EvalLists(p)
      <4>1. probe'[p] = [probe[p] EXCEPT !.at = "state", !.obj = list] /\ probe[p].at = "lists"
        BY <1>10, <3>5 DEF EvalLists, Proceed
      <4>2. probe'[p].at = "state" /\ probe'[p].quiet = probe[p].quiet /\ probe'[p].key = key /\ probe'[p].obj = list
        BY <1>6, <1>8, <4>1 DEF ProbeStates
      <4> QED
        BY <1>2, <1>5, <1>6, <1>8, <4>1, <4>2 DEF Knows, KeyRead
    <3>6. CASE EvalState(p)
      <4>1. /\ probe'[p] = [probe[p] EXCEPT !.at = "golden", !.ready = ~skipped /\ damaged = "none"]
            /\ probe[p].at = "state"
        BY <1>10, <3>6 DEF EvalState, Proceed
      <4>2. /\ probe'[p].at = "golden" /\ probe'[p].quiet = probe[p].quiet /\ probe'[p].key = key
            /\ probe'[p].obj = probe[p].obj /\ probe'[p].ready = (~skipped /\ damaged = "none")
        BY <1>6, <1>8, <4>1 DEF ProbeStates
      <4>3. probe'[p].ready = ~skipped
        BY <1>0, <4>2
      <4> QED
        BY <1>2, <1>5, <1>6, <1>8, <4>1, <4>2, <4>3 DEF Knows, KeyRead
    <3>7. CASE EvalGolden(p)
      <4>1. /\ probe'[p] = [probe[p] EXCEPT !.at = "store",
                     !.ready = @ /\ (probe[p].obj = 0 \/ VersionOf(probe[p].obj) \in Healthy)]
            /\ probe[p].at = "golden"
        BY <1>10, <3>7 DEF EvalGolden, Proceed
      <4>2. /\ probe'[p].at = "store" /\ probe'[p].quiet = probe[p].quiet /\ probe'[p].key = key
            /\ probe'[p].ready = (probe[p].ready /\ (probe[p].obj = 0 \/ VersionOf(probe[p].obj) \in Healthy))
        BY <1>6, <1>8, <4>1 DEF ProbeStates
      <4>3. Current(key) => probe[p].obj = list /\ probe[p].ready = ~skipped
        BY <1>6, <1>8, <4>1 DEF Knows, KeyRead
      <4>4. Current(key) => probe'[p].ready = Verdict
        BY <1>0, <4>2, <4>3 DEF Verdict
      <4> QED
        BY <1>2, <1>4, <1>5, <1>6, <1>8, <4>1, <4>2, <4>4 DEF Knows, KeyRead
    <3>8. CASE Answer(p)
      <4>1. probe'[p] = Asleep
        BY <1>10, <3>8 DEF Answer, Proceed
      <4> QED
        BY <4>1 DEF Knows, Asleep, KeyRead
    <3>9. ~StoreVerdict(p) \/ Knows(probe[p])'
      <4>1. CASE StoreVerdict(p)
        <5>1. probe'[p] = [probe[p] EXCEPT !.at = "answered"] /\ probe[p].at = "store"
          BY <1>10, <4>1 DEF StoreVerdict, Proceed
        <5>2. /\ probe'[p].at = "answered" /\ probe'[p].quiet = probe[p].quiet /\ probe'[p].key = key
              /\ probe'[p].ready = probe[p].ready
          BY <1>6, <1>8, <5>1 DEF ProbeStates
        <5> QED
          BY <1>2, <1>4, <1>5, <1>6, <1>8, <5>1, <5>2 DEF Knows, KeyRead
      <4> QED
        BY <4>1
    <3> QED
      BY <3>1, <3>2, <3>3, <3>4, <3>5, <3>6, <3>7, <3>8, <3>9 DEF ProbeStep
  <2> QED
    BY <1>0, <1>2, <1>3, <1>11, <2>1, <2>2 DEF ReadyInv, ProbeInv
<1>13. CASE StoreVerdict(p)
  <2>1. probe'[p] = [probe[p] EXCEPT !.at = "answered"] /\ probe[p].at = "store"
    BY <1>10, <1>13 DEF StoreVerdict, Proceed
  <2>2. /\ probe'[p].at = "answered" /\ probe'[p].quiet = probe[p].quiet /\ probe'[p].key = key
        /\ probe'[p].ready = probe[p].ready
    BY <1>6, <1>8, <2>1 DEF ProbeStates
  <2>3. /\ Past(key) /\ (probe[p].quiet => At(key))
        /\ Current(key) => probe[p].ready = Verdict
    BY <1>6, <1>8, <2>1 DEF Knows, KeyRead
  <2>4. Knows(probe[p])'
    BY <1>2, <1>4, <1>5, <2>2, <2>3 DEF Knows, KeyRead
  <2>5. cache'.full /\ cache'.key = key /\ cache'.ready = probe[p].ready
    BY <1>6, <1>13 DEF StoreVerdict
  <2>6. CacheInv'
    BY <1>4, <1>5, <2>3, <2>5 DEF CacheInv
  <2> QED
    BY <1>0, <1>2, <1>3, <1>11, <2>4, <2>6 DEF ReadyInv, ProbeInv
<1> QED
  BY <1>12, <1>13 DEF ProbeStep, Start, KeyDamage, KeyVersion, Lookup, EvalLists, EvalState, EvalGolden, Answer

LEMMA ExpireKeepsInv == ReadyInv /\ Expire => ReadyInv'
<1> SUFFICES ASSUME ReadyInv, Expire PROVE ReadyInv'
  OBVIOUS
<1>1. /\ list' = list /\ version' = version /\ former' = former /\ damaged' = damaged /\ skipped' = skipped
      /\ install' = install /\ probe' = probe /\ cache' = NoCache
  BY DEF Expire, store
<1> QED
  BY <1>1 DEF ReadyInv, InstallInv, CacheInv, ProbeInv, Knows, Past, At, Current, FormerOf, Verdict, VersionOf, NoCache, NoInstall

LEMMA ReadinessStep ==
    ReadyTypes /\ (~mayFail => ReadyInv) /\ [ReadyNext]_readyVars => (~mayFail => ReadyInv)'
<1> SUFFICES ASSUME ReadyTypes, ~mayFail => ReadyInv, [ReadyNext]_readyVars, ~mayFail'
             PROVE  ReadyInv'
  OBVIOUS
<1>1. mayFail' = mayFail
  BY DEF ReadyNext, readyVars, StoreStep, Mutate, Fail, BeginInstall, Install, Expire, ProbeStep, Start, KeyDamage,
         KeyVersion, Lookup, EvalLists, EvalState, EvalGolden, StoreVerdict, Answer, Proceed, store
<1>2. ReadyInv
  BY <1>1
<1>3. CASE UNCHANGED readyVars
  BY <1>2, <1>3 DEF readyVars, ReadyInv, InstallInv, CacheInv, ProbeInv, Knows, Past, At, Current, FormerOf,
                    Verdict, VersionOf, NoInstall
<1> QED
  BY <1>1, <1>2, <1>3, StoreKeepsInv, ProbeKeepsInv, ExpireKeepsInv DEF ReadyNext

\* The readiness part keeps its types: a served list has a version.
THEOREM ReadinessTypeCorrect == ReadySpec => []ReadyTypeOK
<1>1. ReadyTypes => ReadyTypeOK
  BY ReadinessAssumption DEF ReadyTypes, ReadinessTypes, ServedInv, ReadyTypeOK, ProbeStates, CacheStates, NoInstall, ListObjects
<1> QED
  BY <1>1, ReadyInitTypes, ReadinessStepTypes, PTL DEF ReadySpec

-----------------------------------------------------------------------------
(* Steady verdicts, whether operations fail or not.                        *)

\* The verdict that a key stands for.
KeyVerdict(key) ==
    ~skipped /\ key.damage = "none" /\ (key.obj = 0 \/ key.ver \in Healthy)

\* What was evaluated while the store stood still is what its key stands for.
SteadyCache == cache.full /\ cache.steady => cache.ready = KeyVerdict(cache.key)

\* A quiet probe has read the store that is there.
Reads(r) ==
    r.quiet =>
        /\ r.at \in {"damage", "version"} \cup KeyRead => r.key.obj = list
        /\ r.at \in {"version"} \cup KeyRead => r.key.damage = damaged
        /\ r.at \in KeyRead => r.key.ver = VersionOf(list)
        /\ r.at \in {"state", "golden"} => r.obj = list
        /\ r.at = "golden" => r.ready = (~skipped /\ damaged = "none")
        /\ r.at = "store" \/ (r.at = "answered" /\ r.steady) => r.ready = Verdict

SteadyProbes == \A p \in Probes : Reads(probe[p])

SteadyInv == SteadyCache /\ SteadyProbes

LEMMA SteadyInit == ReadyInit => SteadyInv
  BY DEF ReadyInit, SteadyInv, SteadyCache, SteadyProbes, Reads, NoCache, Asleep, KeyRead

\* A change of the store ends the quiet of every probe.
LEMMA StoreKeepsSteady ==
    ASSUME ReadyTypes, SteadyInv, StoreStep
    PROVE  SteadyInv'
<1>1. ReadinessTypes /\ SteadyCache
  BY DEF ReadyTypes, SteadyInv
<1>2. skipped' = skipped /\ cache' = cache /\ Disturb
  BY DEF StoreStep, Mutate, Fail, BeginInstall, Install
<1>3. SteadyCache'
  BY <1>1, <1>2 DEF SteadyCache, KeyVerdict
<1>4. \A p \in Probes : probe'[p].quiet = FALSE
  BY <1>1, <1>2, DisturbTypes
<1> QED
  BY <1>3, <1>4 DEF SteadyInv, SteadyProbes, Reads

\* A probe caches what its key stands for, or what it no longer vouches for.
LEMMA ProbeKeepsSteady ==
    ASSUME ReadyTypes, SteadyInv, NEW p \in Probes, ProbeStep(p)
    PROVE  SteadyInv'
<1> USE ReadinessAssumption
<1>0. ReadinessTypes /\ SteadyCache /\ SteadyProbes
  BY DEF ReadyTypes, SteadyInv
<1>1. UNCHANGED store
  BY DEF ProbeStep, Start, KeyDamage, KeyVersion, Lookup, EvalLists, EvalState, EvalGolden,
         StoreVerdict, Answer, Proceed
<1>2. list' = list /\ version' = version /\ damaged' = damaged /\ skipped' = skipped
  BY <1>1 DEF store
<1>3. Verdict' = Verdict /\ VersionOf(list)' = VersionOf(list)
  BY <1>2 DEF Verdict, VersionOf
<1>4. \A key \in Keys : KeyVerdict(key)' = KeyVerdict(key)
  BY <1>2 DEF KeyVerdict
<1>5. PICK key \in Keys : probe[p].key = key
  BY <1>0 DEF ReadinessTypes, ProbeStates
<1>6. PICK ckey \in Keys : cache.key = ckey
  BY <1>0 DEF ReadinessTypes, CacheStates
<1>7. probe[p] \in ProbeStates /\ Reads(probe[p])
  BY <1>0 DEF ReadinessTypes, SteadyProbes
<1>8. ASSUME NEW r, Proceed(p, probe[p].at, r)
      PROVE  probe'[p] = r
  BY <1>0, <1>8 DEF ReadinessTypes, Proceed
<1>9. ASSUME NEW q \in Probes, q # p
      PROVE  Reads(probe[q])'
  <2>1. probe'[q] = probe[q] /\ Reads(probe[q])
    BY <1>0, <1>9 DEF ReadinessTypes, SteadyProbes, ProbeStep, Start, KeyDamage, KeyVersion, Lookup, EvalLists,
                      EvalState, EvalGolden, StoreVerdict, Answer, Proceed
  <2> QED
    BY <1>2, <1>3, <2>1 DEF Reads
<1>10. key.obj = list /\ key.damage = damaged /\ key.ver = VersionOf(list) => KeyVerdict(key) = Verdict
  BY DEF KeyVerdict, Verdict
<1>11. SteadyCache'
  <2>1. CASE UNCHANGED cache
    BY <1>0, <1>4, <1>6, <2>1 DEF SteadyCache
  <2>2. CASE StoreVerdict(p)
    <3>1. /\ cache'.key = key /\ cache'.ready = probe[p].ready /\ cache'.steady = probe[p].quiet
          /\ probe[p].at = "store"
      BY <1>5, <2>2 DEF StoreVerdict, Proceed
    <3>2. probe[p].quiet => probe[p].ready = KeyVerdict(key)
      BY <1>5, <1>7, <1>10, <3>1 DEF Reads, KeyRead
    <3> QED
      BY <1>4, <3>1, <3>2 DEF SteadyCache
  <2> QED
    BY <2>1, <2>2 DEF ProbeStep, Start, KeyDamage, KeyVersion, Lookup, EvalLists, EvalState, EvalGolden, Answer
<1>12. Reads(probe[p])'
  <2>1. CASE Start(p)
    <3>1. probe'[p] = [Asleep EXCEPT !.at = "damage", !.key.obj = list]
      BY <1>8, <2>1 DEF Start, Proceed
    <3> QED
      BY <1>2, <3>1 DEF Reads, Asleep, NoKey, KeyRead
  <2>2. CASE KeyDamage(p)
    <3>1. probe'[p] = [probe[p] EXCEPT !.at = "version", !.key.damage = damaged] /\ probe[p].at = "damage"
      BY <1>8, <2>2 DEF KeyDamage, Proceed
    <3>2. /\ probe'[p].at = "version" /\ probe'[p].quiet = probe[p].quiet
          /\ probe'[p].key.obj = key.obj /\ probe'[p].key.damage = damaged
      BY <1>5, <1>7, <3>1 DEF ProbeStates, Keys
    <3> QED
      BY <1>2, <1>5, <1>7, <3>1, <3>2 DEF Reads, KeyRead
  <2>3. CASE KeyVersion(p)
    <3>1. /\ probe'[p] = [probe[p] EXCEPT !.at = "cache", !.key.ver = VersionOf(probe[p].key.obj)]
          /\ probe[p].at = "version"
      BY <1>8, <2>3 DEF KeyVersion, Proceed
    <3>2. /\ probe'[p].at = "cache" /\ probe'[p].quiet = probe[p].quiet
          /\ probe'[p].key.obj = key.obj /\ probe'[p].key.damage = key.damage
          /\ probe'[p].key.ver = VersionOf(key.obj)
      BY <1>5, <1>7, <3>1 DEF ProbeStates, Keys
    <3> QED
      BY <1>2, <1>3, <1>5, <1>7, <3>1, <3>2 DEF Reads, KeyRead
  <2>4. CASE Lookup(p)
    <3>1. CASE KeysMatch(p) /\ Proceed(p, "cache", [probe[p] EXCEPT !.at = "answered", !.ready = cache.ready,
                                                                   !.steady = cache.steady])
      <4>1. probe'[p] = [probe[p] EXCEPT !.at = "answered", !.ready = cache.ready, !.steady = cache.steady]
            /\ probe[p].at = "cache"
        BY <1>8, <3>1 DEF Proceed
      <4>2. /\ probe'[p].at = "answered" /\ probe'[p].quiet = probe[p].quiet /\ probe'[p].key = key
            /\ probe'[p].ready = cache.ready /\ probe'[p].steady = cache.steady
        BY <1>5, <1>7, <4>1 DEF ProbeStates
      <4>3. cache.steady => cache.ready = KeyVerdict(key)
        BY <1>0, <1>5, <3>1 DEF KeysMatch, SteadyCache
      <4> QED
        BY <1>2, <1>3, <1>5, <1>7, <1>10, <4>1, <4>2, <4>3 DEF Reads, KeyRead
    <3>2. CASE Proceed(p, "cache", [probe[p] EXCEPT !.at = "lists"])
      <4>1. probe'[p] = [probe[p] EXCEPT !.at = "lists"] /\ probe[p].at = "cache"
        BY <1>8, <3>2 DEF Proceed
      <4>2. probe'[p].at = "lists" /\ probe'[p].quiet = probe[p].quiet /\ probe'[p].key = key
        BY <1>5, <1>7, <4>1 DEF ProbeStates
      <4> QED
        BY <1>2, <1>3, <1>5, <1>7, <4>1, <4>2 DEF Reads, KeyRead
    <3> QED
      BY <2>4, <3>1, <3>2 DEF Lookup
  <2>5. CASE EvalLists(p)
    <3>1. probe'[p] = [probe[p] EXCEPT !.at = "state", !.obj = list] /\ probe[p].at = "lists"
      BY <1>8, <2>5 DEF EvalLists, Proceed
    <3>2. probe'[p].at = "state" /\ probe'[p].quiet = probe[p].quiet /\ probe'[p].key = key /\ probe'[p].obj = list
      BY <1>5, <1>7, <3>1 DEF ProbeStates
    <3> QED
      BY <1>2, <1>3, <1>5, <1>7, <3>1, <3>2 DEF Reads, KeyRead
  <2>6. CASE EvalState(p)
    <3>1. /\ probe'[p] = [probe[p] EXCEPT !.at = "golden", !.ready = ~skipped /\ damaged = "none"]
          /\ probe[p].at = "state"
      BY <1>8, <2>6 DEF EvalState, Proceed
    <3>2. /\ probe'[p].at = "golden" /\ probe'[p].quiet = probe[p].quiet /\ probe'[p].key = key
          /\ probe'[p].obj = probe[p].obj /\ probe'[p].ready = (~skipped /\ damaged = "none")
      BY <1>5, <1>7, <3>1 DEF ProbeStates
    <3> QED
      BY <1>2, <1>3, <1>5, <1>7, <3>1, <3>2 DEF Reads, KeyRead
  <2>7. CASE EvalGolden(p)
    <3>1. /\ probe'[p] = [probe[p] EXCEPT !.at = "store",
                   !.ready = @ /\ (probe[p].obj = 0 \/ VersionOf(probe[p].obj) \in Healthy)]
          /\ probe[p].at = "golden"
      BY <1>8, <2>7 DEF EvalGolden, Proceed
    <3>2. /\ probe'[p].at = "store" /\ probe'[p].quiet = probe[p].quiet /\ probe'[p].key = key
          /\ probe'[p].ready = (probe[p].ready /\ (probe[p].obj = 0 \/ VersionOf(probe[p].obj) \in Healthy))
      BY <1>5, <1>7, <3>1 DEF ProbeStates
    <3>3. probe[p].quiet => probe'[p].ready = Verdict
      BY <1>7, <3>1, <3>2 DEF Reads, Verdict
    <3> QED
      BY <1>2, <1>3, <1>5, <1>7, <3>1, <3>2, <3>3 DEF Reads, KeyRead
  <2>8. CASE StoreVerdict(p)
    <3>1. probe'[p] = [probe[p] EXCEPT !.at = "answered"] /\ probe[p].at = "store"
      BY <1>8, <2>8 DEF StoreVerdict, Proceed
    <3>2. /\ probe'[p].at = "answered" /\ probe'[p].quiet = probe[p].quiet /\ probe'[p].key = key
          /\ probe'[p].ready = probe[p].ready
      BY <1>5, <1>7, <3>1 DEF ProbeStates
    <3> QED
      BY <1>2, <1>3, <1>5, <1>7, <3>1, <3>2 DEF Reads, KeyRead
  <2>9. CASE Answer(p)
    <3>1. probe'[p] = Asleep
      BY <1>8, <2>9 DEF Answer, Proceed
    <3> QED
      BY <3>1 DEF Reads, Asleep, KeyRead
  <2> QED
    BY <2>1, <2>2, <2>3, <2>4, <2>5, <2>6, <2>7, <2>8, <2>9 DEF ProbeStep
<1> QED
  BY <1>9, <1>11, <1>12 DEF SteadyInv, SteadyProbes

LEMMA SteadyStep == ReadyTypes /\ SteadyInv /\ [ReadyNext]_readyVars => SteadyInv'
<1> SUFFICES ASSUME ReadyTypes, SteadyInv, [ReadyNext]_readyVars PROVE SteadyInv'
  OBVIOUS
<1>1. CASE UNCHANGED readyVars
  BY <1>1 DEF readyVars, SteadyInv, SteadyCache, SteadyProbes, Reads, KeyVerdict, Verdict, VersionOf
<1>2. CASE Expire
  BY <1>2 DEF Expire, store, SteadyInv, SteadyCache, SteadyProbes, Reads, Verdict, VersionOf, NoCache
<1> QED
  BY <1>1, <1>2, StoreKeepsSteady, ProbeKeepsSteady DEF ReadyNext

\* A probe that meets no change of the store answers what the store is, from
\* the cache too, however many probes, changes and failures raced to fill it,
\* unless the store changed during the evaluation that was cached; and where
\* nothing fails, only a list that has come back to a version it had left can
\* be answered for wrongly (readyResult).
THEOREM VerdictTheorem == ReadySpec => []StaleNeedsReturn
<1> DEFINE I == ReadyTypes /\ SteadyInv /\ (~mayFail => ReadyInv)
<1>1. ReadyInit => I
  BY ReadyInitTypes, SteadyInit
<1>2. I /\ [ReadyNext]_readyVars => I'
  BY ReadinessStepTypes, ReadinessStep, SteadyStep
<1>3. I => StaleNeedsReturn
  <2> SUFFICES ASSUME I, NEW p \in Probes, probe[p].at = "answered", probe[p].quiet, probe[p].ready # Verdict
               PROVE  ~probe[p].steady /\ (~mayFail => list # 0 /\ version[list] \in former[list])
    BY DEF StaleNeedsReturn
  <2>1. ~probe[p].steady
    BY DEF SteadyInv, SteadyProbes, Reads
  <2>2. ASSUME ~mayFail
        PROVE  list # 0 /\ version[list] \in former[list]
    <3>1. Knows(probe[p])
      BY <2>2 DEF ReadyInv, ProbeInv
    <3>2. At(probe[p].key) /\ ~Current(probe[p].key)
      BY <3>1 DEF Knows, KeyRead
    <3> QED
      BY <3>2 DEF At, Current, FormerOf, VersionOf
  <2> QED
    BY <2>1, <2>2
<1> HIDE DEF I
<1> QED
  BY <1>1, <1>2, <1>3, PTL DEF ReadySpec
=============================================================================
