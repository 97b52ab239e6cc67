--------------------------- MODULE PreparedProofs ---------------------------
(***************************************************************************)
(* What is proved of a prepared artifact on its way from the builder to    *)
(* the handlers: it is published whole and under a name of its own         *)
(* (Publish), one artifact is mapped and served per process                *)
(* (MappedRegistry), and a handler has the verified store it needs         *)
(* (ArtifactServe).  Each station's invariant is proved for its own steps, *)
(* of which the composition has no others.  The last part is about its     *)
(* bytes: whatever the words of a file are, what the parsers accept of it  *)
(* lies in bounds (ArtifactLayout).                                        *)
(***************************************************************************)
EXTENDS Prepared, ArtifactLayout, SequenceTheorems, FiniteSetTheorems, TLAPS

-----------------------------------------------------------------------------
(* Publish.                                                                *)

\* What a call has flushed is whole, and a call is past the flush of its file
\* from "synced" on, also when it has returned.
Flushed == {"synced", "closed", "sealed", "ok", "published"} \cup P!Completing

FlushInv ==
    /\ \A p \in synced : data[p] = "whole"
    /\ \A p \in Writers :
         /\ at[p] = "written" => data[p] = "whole"
         /\ at[p] \in Flushed => p \in synced
         /\ at[p] \in {"start", "looked", "created", "written"} => p \notin synced

\* The destination names the flushed file of a call that has linked it.
LinkInv ==
    /\ dst # None => /\ dst \in synced
                     /\ at[dst] \in {"ok", "published", "dead"} \cup P!Completing
    /\ \A p \in Writers :
         /\ at[p] \in P!Completing => dst = p
         /\ at[p] = "ok" => dst = p /\ kept
         /\ at[p] = "published" /\ losses = 0 => dst = p

TempInv == \A p \in Writers : at[p] \in P!Preparing => p \in temps

PublishInv == P!TypeOK /\ FlushInv /\ LinkInv /\ TempInv

\* Nothing is published before the first call.
LEMMA PublishInit == PublishConstants /\ P!Init => PublishInv
<1> SUFFICES ASSUME PublishConstants, P!Init PROVE PublishInv
  OBVIOUS
<1>1. kept \in BOOLEAN
  BY Zenon DEF P!Init
<1>2. P!TypeOK
  BY <1>1 DEF PublishConstants, P!Init, P!TypeOK
<1>3. \A p \in Writers : at[p] = "start"
  BY DEF P!Init
<1> QED
  BY <1>2, <1>3
  DEF P!Init, PublishInv, FlushInv, LinkInv, TempInv, Flushed, P!Preparing, P!Completing

\* A call that has not linked gives up: it forgets its own file only.
LEMMA CleanupKeeps ==
    ASSUME PublishConstants, PublishInv, NEW p \in Writers, at[p] \in P!Preparing,
           NEW result \in {"failed", "exists"}, P!Cleanup(p, result)
    PROVE  PublishInv'
<1> USE DEF PublishInv, PublishConstants
<1>1. /\ at' = [at EXCEPT ![p] = result] /\ fds' = fds \ {p} /\ temps' \in {temps, temps \ {p}}
      /\ UNCHANGED <<data, synced, dst, kept, losses>>
  BY DEF P!Cleanup, P!To
<1>2. \A q \in Writers : at'[q] = IF q = p THEN result ELSE at[q]
  BY <1>1 DEF P!TypeOK
<1>3. P!TypeOK'
  BY <1>1, <1>2 DEF P!TypeOK, P!Results
<1>4. FlushInv'
  BY <1>1, <1>2 DEF FlushInv, Flushed, P!Completing
<1>5. dst # p
  BY DEF LinkInv, P!Preparing, P!Completing
<1>6. LinkInv'
  BY <1>1, <1>2, <1>5 DEF LinkInv, P!Completing, P!TypeOK
<1>7. TempInv'
  BY <1>1, <1>2 DEF TempInv, P!Preparing
<1> QED
  BY <1>3, <1>4, <1>6, <1>7

\* A call that moves on without touching a file keeps the invariant where the
\* new place promises no more than the old one.
LEMMA CallMoves ==
    ASSUME PublishConstants, PublishInv, NEW p \in Writers, NEW s,
           at' = [at EXCEPT ![p] = s], fds' \in {fds, fds \ {p}},
           UNCHANGED <<data, synced, temps, dst, kept, losses>>,
           \/ at[p] = "start" /\ s \in {"looked", "exists", "failed"}
           \/ at[p] = "looked" /\ s = "failed"
           \/ at[p] = "synced" /\ s = "closed" /\ fds' = fds \ {p}
           \/ at[p] = "closed" /\ s = "sealed"
           \/ at[p] \in P!Completing /\ s = "published"
           \/ P!Alive(p) /\ s = "dead" /\ fds' = fds \ {p}
    PROVE  PublishInv'
<1> USE DEF PublishInv, PublishConstants
<1>1. \A q \in Writers : at'[q] = IF q = p THEN s ELSE at[q]
  BY DEF P!TypeOK
<1>2. P!TypeOK'
  BY <1>1 DEF P!TypeOK, P!Results, P!Preparing, P!Completing
<1>3. FlushInv'
  BY <1>1 DEF FlushInv, Flushed, P!Completing, P!Preparing, P!Alive
<1>4. LinkInv'
  BY <1>1 DEF LinkInv, P!Completing, P!Preparing, P!Alive, P!TypeOK
<1>5. TempInv'
  BY <1>1 DEF TempInv, P!Preparing, P!Completing, P!Alive
<1> QED
  BY <1>2, <1>3, <1>4, <1>5

\* Every step of a call, of its death and of the machine.
LEMMA PublishStep ==
    ASSUME PublishConstants, PublishInv, [P!Next]_(P!vars)
    PROVE  PublishInv'
<1> USE DEF PublishInv, PublishConstants
<1>1. ASSUME NEW p \in Writers, P!Look(p) PROVE PublishInv'
  <2>1. PICK s \in {"exists", "looked", "failed"} : at' = [at EXCEPT ![p] = s]
    BY <1>1 DEF P!Look, P!To
  <2> QED
    BY <1>1, <2>1, CallMoves DEF P!Look
<1>2. ASSUME NEW p \in Writers, P!Create(p) PROVE PublishInv'
  <2>1. CASE P!To(p, "failed") /\ UNCHANGED <<temps, fds, data>>
    BY <1>2, <2>1, CallMoves DEF P!Create, P!To
  <2>2. CASE /\ P!To(p, "created") /\ temps' = temps \cup {p} /\ fds' = fds \cup {p}
             /\ data' = [data EXCEPT ![p] = "part"]
    <3>1. /\ \A q \in Writers : at'[q] = IF q = p THEN "created" ELSE at[q]
          /\ \A q \in Writers : data'[q] = IF q = p THEN "part" ELSE data[q]
          /\ UNCHANGED <<synced, dst, kept, losses>> /\ at[p] = "looked"
      BY <1>2, <2>2 DEF P!Create, P!To, P!TypeOK
    <3>2. P!TypeOK'
      BY <2>2, <3>1 DEF P!TypeOK, P!To, P!Preparing
    <3>3. FlushInv' /\ TempInv'
      BY <2>2, <3>1 DEF FlushInv, TempInv, Flushed, P!Completing, P!Preparing, P!TypeOK
    <3>4. LinkInv'
      BY <3>1 DEF LinkInv, P!Completing, P!TypeOK
    <3> QED
      BY <3>2, <3>3, <3>4
  <2> QED
    BY <1>2, <2>1, <2>2 DEF P!Create
<1>3. ASSUME NEW p \in Writers, P!Write(p) PROVE PublishInv'
  <2>1. CASE P!Cleanup(p, "failed")
    BY <1>3, <2>1, CleanupKeeps DEF P!Write, P!Preparing
  <2>2. CASE /\ P!To(p, "written") /\ data' = [data EXCEPT ![p] = "whole"]
             /\ UNCHANGED <<synced, fds, temps, dst, kept, losses>>
    <3>1. /\ \A q \in Writers : at'[q] = IF q = p THEN "written" ELSE at[q]
          /\ \A q \in Writers : data'[q] = IF q = p THEN "whole" ELSE data[q]
          /\ at[p] = "created"
      BY <1>3, <2>2 DEF P!Write, P!To, P!TypeOK
    <3>2. P!TypeOK'
      BY <2>2, <3>1 DEF P!TypeOK, P!To, P!Preparing
    <3>3. FlushInv' /\ TempInv'
      BY <2>2, <3>1 DEF FlushInv, TempInv, Flushed, P!Completing, P!Preparing, P!TypeOK
    <3>4. LinkInv'
      BY <2>2, <3>1 DEF LinkInv, P!Completing, P!TypeOK
    <3> QED
      BY <3>2, <3>3, <3>4
  <2> QED
    BY <1>3, <2>1, <2>2 DEF P!Write
<1>4. ASSUME NEW p \in Writers, P!Sync(p) PROVE PublishInv'
  <2>1. CASE P!Cleanup(p, "failed")
    BY <1>4, <2>1, CleanupKeeps DEF P!Sync, P!Preparing
  <2>2. CASE /\ P!To(p, "synced") /\ synced' = synced \cup {p}
             /\ UNCHANGED <<data, fds, temps, dst, kept, losses>>
    <3>1. /\ \A q \in Writers : at'[q] = IF q = p THEN "synced" ELSE at[q]
          /\ at[p] = "written"
      BY <1>4, <2>2 DEF P!Sync, P!To, P!TypeOK
    <3>2. P!TypeOK'
      BY <2>2, <3>1 DEF P!TypeOK, P!To, P!Preparing
    <3>3. FlushInv' /\ TempInv'
      BY <2>2, <3>1 DEF FlushInv, TempInv, Flushed, P!Completing, P!Preparing, P!TypeOK
    <3>4. LinkInv'
      BY <2>2, <3>1 DEF LinkInv, P!Completing, P!TypeOK
    <3> QED
      BY <3>2, <3>3, <3>4
  <2> QED
    BY <1>4, <2>1, <2>2 DEF P!Sync
<1>5. ASSUME NEW p \in Writers, P!Close(p) \/ P!Chmod(p) PROVE PublishInv'
  <2>1. CASE P!Cleanup(p, "failed")
    BY <1>5, <2>1, CleanupKeeps DEF P!Close, P!Chmod, P!Preparing
  <2>2. CASE ~P!Cleanup(p, "failed")
    BY <1>5, <2>2, CallMoves DEF P!Close, P!Chmod, P!To
  <2> QED
    BY <2>1, <2>2
<1>6. ASSUME NEW p \in Writers, P!Link(p) PROVE PublishInv'
  <2>1. CASE P!Cleanup(p, "failed") \/ P!Cleanup(p, "exists")
    BY <1>6, <2>1, CleanupKeeps DEF P!Link, P!Preparing
  <2>2. CASE /\ dst = None /\ dst' = p /\ kept' = FALSE /\ P!To(p, "linked")
             /\ UNCHANGED <<data, synced, fds, temps, losses>>
    <3>1. /\ \A q \in Writers : at'[q] = IF q = p THEN "linked" ELSE at[q]
          /\ at[p] = "sealed"
      BY <1>6, <2>2 DEF P!Link, P!To, P!TypeOK
    <3>2. kept' \in BOOLEAN
      BY <2>2, Zenon
    <3>3. P!TypeOK'
      BY <2>2, <3>1, <3>2 DEF P!TypeOK, P!To, P!Completing
    <3>4. FlushInv' /\ TempInv'
      BY <2>2, <3>1 DEF FlushInv, TempInv, Flushed, P!Completing, P!Preparing, P!TypeOK
    <3>5. LinkInv'
      BY <2>2, <3>1 DEF LinkInv, FlushInv, Flushed, P!Completing, P!TypeOK
    <3> QED
      BY <3>3, <3>4, <3>5
  <2> QED
    BY <1>6, <2>1, <2>2 DEF P!Link
<1>7. ASSUME NEW p \in Writers, P!Remove(p) PROVE PublishInv'
  <2>1. CASE P!To(p, "published") /\ UNCHANGED temps
    BY <1>7, <2>1, CallMoves DEF P!Remove, P!To, P!Completing
  <2>2. CASE P!To(p, "removed") /\ temps' = temps \ {p}
    <3>1. /\ \A q \in Writers : at'[q] = IF q = p THEN "removed" ELSE at[q]
          /\ at[p] = "linked" /\ UNCHANGED <<data, synced, fds, dst, kept, losses>>
      BY <1>7, <2>2 DEF P!Remove, P!To, P!TypeOK
    <3>2. P!TypeOK'
      BY <2>2, <3>1 DEF P!TypeOK, P!To, P!Completing
    <3>3. FlushInv' /\ TempInv'
      BY <2>2, <3>1 DEF FlushInv, TempInv, Flushed, P!Completing, P!Preparing, P!TypeOK
    <3>4. LinkInv'
      BY <2>2, <3>1 DEF LinkInv, P!Completing, P!TypeOK
    <3> QED
      BY <3>2, <3>3, <3>4
  <2> QED
    BY <1>7, <2>1, <2>2 DEF P!Remove
<1>8. ASSUME NEW p \in Writers, P!SyncDir(p) PROVE PublishInv'
  <2>1. CASE P!To(p, "published") /\ UNCHANGED kept
    BY <1>8, <2>1, CallMoves DEF P!SyncDir, P!To, P!Completing
  <2>2. CASE P!To(p, "ok") /\ kept' = TRUE
    <3>1. /\ \A q \in Writers : at'[q] = IF q = p THEN "ok" ELSE at[q]
          /\ at[p] = "removed" /\ UNCHANGED <<data, synced, fds, temps, dst, losses>>
      BY <1>8, <2>2 DEF P!SyncDir, P!To, P!TypeOK
    <3>2. kept' \in BOOLEAN
      BY <2>2, Zenon
    <3>3. P!TypeOK'
      BY <2>2, <3>1, <3>2 DEF P!TypeOK, P!To, P!Results
    <3>4. FlushInv' /\ TempInv'
      BY <2>2, <3>1 DEF FlushInv, TempInv, Flushed, P!Completing, P!Preparing, P!TypeOK
    <3>5. LinkInv'
      BY <2>2, <3>1 DEF LinkInv, P!Completing, P!TypeOK
    <3> QED
      BY <3>3, <3>4, <3>5
  <2> QED
    BY <1>8, <2>1, <2>2 DEF P!SyncDir
<1>9. ASSUME NEW p \in Writers, P!Crash(p) PROVE PublishInv'
  BY <1>9, CallMoves DEF P!Crash, P!To
<1>10. CASE P!PowerLoss
  <2>1. /\ \A q \in Writers : at'[q] = IF P!Alive(q) THEN "dead" ELSE at[q]
        /\ fds' = {} /\ UNCHANGED <<synced, kept>> /\ losses' = losses + 1
        /\ at' = [q \in Writers |-> IF P!Alive(q) THEN "dead" ELSE at[q]]
        /\ temps' \subseteq Writers
        /\ (dst' = dst \/ (~kept /\ dst' = None))
        /\ losses < MaxLosses
    BY <1>10 DEF P!PowerLoss
  <2>2. /\ data' \in [Writers -> {"none", "part", "whole"}]
        /\ \A q \in Writers : q \in synced => data'[q] = data[q]
    BY <1>10 DEF P!PowerLoss
  <2>3. P!TypeOK'
    BY <2>1, <2>2 DEF P!TypeOK
  <2>4. FlushInv' /\ TempInv'
    BY <2>1, <2>2
    DEF FlushInv, TempInv, Flushed, P!Alive, P!Completing, P!Preparing, P!TypeOK
  <2>5. losses' # 0
    BY <2>1 DEF P!TypeOK
  <2>6. LinkInv'
    BY <2>1, <2>5 DEF LinkInv, P!Alive, P!Completing, P!Preparing, P!TypeOK
  <2> QED
    BY <2>3, <2>4, <2>6
<1>11. CASE UNCHANGED P!vars
  BY <1>11 DEF P!vars, P!TypeOK, FlushInv, LinkInv, TempInv
<1> QED
  BY <1>1, <1>2, <1>3, <1>4, <1>5, <1>6, <1>7, <1>8, <1>9, <1>10, <1>11 DEF P!Next, P!Step

LEMMA PublishStation == P!Spec => []P!TypeOK /\ []P!PublishIsTrue
<1>1. P!Init => PublishInv
  BY PublishInit, PublishAssumption
<1>2. PublishInv /\ [P!Next]_(P!vars) => PublishInv'
  BY PublishStep, PublishAssumption
<1>3. PublishInv => P!TypeOK /\ P!PublishIsTrue
  <2> SUFFICES ASSUME PublishInv PROVE P!PublishIsTrue
    BY DEF PublishInv
  <2> USE DEF PublishInv
  <2>1. ASSUME dst # None PROVE data[dst] = "whole" /\ dst \notin fds
    BY <2>1 DEF LinkInv, FlushInv, P!TypeOK, P!Completing
  <2>2. ASSUME NEW p \in Writers
        PROVE  /\ at[p] = "ok" => dst = p
               /\ at[p] \in P!Completing \cup {"published"} /\ losses = 0 => dst = p
               /\ at[p] \in P!Preparing => p \in temps
    BY DEF LinkInv, TempInv
  <2> QED
    BY <2>1, <2>2 DEF P!PublishIsTrue
<1> QED
  BY <1>1, <1>2, <1>3, PTL DEF P!Spec

-----------------------------------------------------------------------------
(* MappedRegistry.                                                         *)

\* The places of a call at which it holds the registry lock.
Holds(o) ==
    \/ o.at \in {"admit", "verify", "reuse"}
    \/ o.at = "accept" /\ (o.rec = None \/ o.rec.level # "full")

\* What a verification has established when the caller is asked to accept.
Verified(o) ==
    /\ o.img \in M!Images /\ o.got \in {"full", "trusted"}
    /\ o.got = "full" => o.img.body = o.img.head
    /\ o.rec = None => o.got = o.level
    /\ o.rec # None =>
         /\ o.got = M!ReuseLevel(o)
         /\ o.img.head = o.rec.head
         /\ o.level = "structure" => o.rec.level = "full"
         /\ (o.rec.level = "full" /\ o.got = "full") => o.img = o.rec.sum

\* The state of opener p's call, under admission record a and lock holder l:
\* the record a call found under the lock is still the present one.
CallOK(p, o, a, l) ==
    /\ o.at # "idle" => o.ino \in Inodes
    /\ o.at \notin {"idle", "opened"} => o.rec = a
    /\ o.at \in {"admit", "verify"} => a = None
    /\ o.at = "reuse" => a # None /\ a.level = "trusted"
    /\ o.at = "fast" => a # None /\ a.level = "full"
    /\ o.at = "verify" => o.level # "structure"
    /\ Holds(o) => l = p
    /\ o.at = "accept" => Verified(o)

CallInv == \A p \in Openers : CallOK(p, op[p], adm, lock)

\* The admitted mapping stays; before an admission there is at most the one
\* that the holder of the lock is verifying.
MapInv ==
    maps = IF adm # None THEN {adm.buf}
           ELSE {p \in Openers : op[p].at \in {"verify", "accept"}}

\* A full admission knows the bytes it was verified over.
AdmInv ==
    (adm # None /\ adm.level = "full") =>
        adm.sum \in M!Images /\ adm.sum.head = adm.head /\ adm.sum.body = adm.sum.head

HeldInv ==
    \A h \in held :
        /\ adm # None /\ h.buf = adm.buf /\ h.img.head = adm.head
        /\ h.level = "full" => adm.level = "full" /\ h.img = adm.sum

\* The types, without the count of mappings.
RegistryTypes ==
    /\ file \in [Inodes -> M!Files] /\ edits \in 0 .. MaxEdits
    /\ lock \in Openers \cup {None} /\ adm \in M!Admissions \cup {None}
    /\ op \in [Openers -> M!Ops] /\ held \subseteq M!Views

RegistryInv == RegistryTypes /\ CallInv /\ MapInv /\ AdmInv /\ HeldInv

\* An opener outside a call.
LEMMA IdleOpType ==
    ASSUME RegistryConstants
    PROVE  M!IdleOp \in M!Ops /\ M!IdleOp.at = "idle" /\ M!IdleOp.rec = None
  BY DEF RegistryConstants, M!IdleOp, M!Ops, M!Levels, M!Modes

\* Before the first open nothing is mapped or admitted.
LEMMA RegistryInit ==
    ASSUME RegistryConstants, M!Init
    PROVE  RegistryInv
<1>1. \A p \in Openers : op[p] = M!IdleOp
  BY DEF M!Init
<1>2. RegistryTypes
  BY IdleOpType DEF M!Init, RegistryTypes, RegistryConstants
<1>3. CallInv
  BY <1>1, IdleOpType DEF CallInv, CallOK, Holds
<1>4. MapInv
  BY <1>1, IdleOpType DEF MapInv, M!Init
<1> QED
  BY <1>2, <1>3, <1>4 DEF RegistryInv, AdmInv, HeldInv, M!Init

\* Two calls do not hold the lock at once.
LEMMA OneHolder ==
    ASSUME RegistryInv, NEW p \in Openers, NEW q \in Openers, Holds(op[p]), Holds(op[q])
    PROVE  p = q /\ lock = p
  BY DEF RegistryInv, CallInv, CallOK

\* A step of one call that leaves the record and the lock alone.
LEMMA CallGoesOn ==
    ASSUME RegistryConstants, RegistryInv, NEW p \in Openers, NEW o \in M!Ops,
           op' = [op EXCEPT ![p] = o], UNCHANGED <<file, edits, lock, adm, held>>,
           CallOK(p, o, adm, lock), MapInv'
    PROVE  RegistryInv'
<1>1. \A q \in Openers : op'[q] = IF q = p THEN o ELSE op[q]
  BY DEF RegistryInv, RegistryTypes
<1>2. RegistryTypes'
  BY DEF RegistryInv, RegistryTypes
<1>3. CallInv'
  BY <1>1 DEF RegistryInv, CallInv
<1> QED
  BY <1>2, <1>3 DEF RegistryInv, AdmInv, HeldInv

\* An error return gives back the lock and unmaps what this call had mapped.
LEMMA RefusalKeeps ==
    ASSUME RegistryConstants, RegistryInv, NEW p \in Openers, M!Refuse(p),
           UNCHANGED <<file, edits>>, op[p].at \notin {"idle", "opened"},
           maps' = IF adm = None /\ op[p].at \in {"verify", "accept"} THEN maps \ {p} ELSE maps
    PROVE  RegistryInv'
<1>1. /\ op' = [op EXCEPT ![p] = M!IdleOp] /\ UNCHANGED <<adm, held>>
      /\ lock' = IF lock = p THEN None ELSE lock
  BY DEF M!Refuse, M!Step, M!Release
<1>2. \A q \in Openers : op'[q] = IF q = p THEN M!IdleOp ELSE op[q]
  BY <1>1 DEF RegistryInv, RegistryTypes
<1>3. RegistryTypes'
  BY <1>1, IdleOpType DEF RegistryInv, RegistryTypes
<1>4. CallInv'
  BY <1>1, <1>2, IdleOpType DEF RegistryInv, CallInv, CallOK, Holds
<1>5. MapInv'
  <2>1. CASE adm # None
    BY <1>1, <2>1 DEF RegistryInv, MapInv
  <2>2. CASE adm = None
    BY <1>1, <1>2, <2>2, IdleOpType DEF RegistryInv, MapInv
  <2> QED
    BY <2>1, <2>2
<1> QED
  BY <1>1, <1>3, <1>4, <1>5 DEF RegistryInv, AdmInv, HeldInv

\* Open and Enter: the record is read under the lock, which only a call that
\* finds no full admission keeps.
LEMMA EnterKeeps ==
    ASSUME RegistryConstants, RegistryInv, NEW p \in Openers, M!Open(p) \/ M!Enter(p)
    PROVE  RegistryInv'
<1> USE DEF RegistryConstants
<1>0. op \in [Openers -> M!Ops] /\ op[p] \in M!Ops /\ CallOK(p, op[p], adm, lock)
  BY DEF RegistryInv, RegistryTypes, CallInv
<1>1. CASE M!Open(p)
  <2>1. PICK i \in Inodes, lv \in M!Levels :
          op' = [op EXCEPT ![p] = [M!IdleOp EXCEPT !.at = "opened", !.ino = i, !.level = lv,
                                     !.mode = file[i].mode, !.size = file[i].size]]
    BY <1>1 DEF M!Open, M!Step
  <2>2. PICK o : /\ o = [M!IdleOp EXCEPT !.at = "opened", !.ino = i, !.level = lv,
                                     !.mode = file[i].mode, !.size = file[i].size]
                 /\ op' = [op EXCEPT ![p] = o]
    BY <2>1
  <2>3. file[i] \in M!Files
    BY DEF RegistryInv, RegistryTypes
  <2>4. o \in M!Ops /\ o.at = "opened" /\ o.ino = i
    BY <2>2, <2>3 DEF M!IdleOp, M!Ops, M!Files, M!Levels
  <2>5. CallOK(p, o, adm, lock)
    BY <2>4 DEF CallOK, Holds
  <2>6. \A q \in Openers : op'[q] = IF q = p THEN o ELSE op[q]
    BY <1>0, <2>2
  <2>7. MapInv'
    BY <1>1, <2>4, <2>6 DEF M!Open, RegistryInv, MapInv
  <2> QED
    BY <1>1, <2>2, <2>4, <2>5, <2>7, CallGoesOn DEF M!Open
<1>2. CASE M!Enter(p)
  <2>1. PICK o : /\ o = [op[p] EXCEPT !.at = M!Path, !.rec = adm]
                 /\ op' = [op EXCEPT ![p] = o]
    BY <1>2 DEF M!Enter, M!Step
  <2>2. /\ op[p].at = "opened" /\ lock = None /\ UNCHANGED <<file, edits, adm, maps, held>>
        /\ lock' = IF M!Path = "fast" THEN None ELSE p
    BY <1>2 DEF M!Enter
  <2>3. adm \in M!Admissions \cup {None}
    BY DEF RegistryInv, RegistryTypes
  <2>4. /\ o \in M!Ops /\ o.at = M!Path /\ o.rec = adm /\ o.ino = op[p].ino
    BY <1>0, <2>1, <2>3 DEF M!Ops, M!Path
  <2>5. M!Path = IF adm = None THEN "admit" ELSE IF adm.level = "full" THEN "fast" ELSE "reuse"
    BY DEF M!Path
  <2>6. CallOK(p, o, adm, lock')
    BY <1>0, <2>2, <2>3, <2>4, <2>5 DEF CallOK, Holds, M!Admissions
  <2>7. \A q \in Openers : op'[q] = IF q = p THEN o ELSE op[q]
    BY <1>0, <2>1
  <2>8. ASSUME NEW q \in Openers, q # p PROVE CallOK(q, op[q], adm, lock')
    <3>1. ~Holds(op[q])
      BY <2>2, <2>8 DEF RegistryInv, CallInv, CallOK
    <3> QED
      BY <3>1 DEF RegistryInv, CallInv, CallOK
  <2>9. CallInv'
    BY <2>2, <2>6, <2>7, <2>8 DEF CallInv
  <2>10. RegistryTypes'
    BY <2>1, <2>2, <2>4 DEF RegistryInv, RegistryTypes
  <2>11. MapInv'
    BY <2>2, <2>4, <2>5, <2>7 DEF RegistryInv, MapInv
  <2> QED
    BY <2>2, <2>9, <2>10, <2>11 DEF RegistryInv, AdmInv, HeldInv
<1> QED
  BY <1>1, <1>2

\* Map and Verify: the first admission is prepared under the lock.
LEMMA AdmitKeeps ==
    ASSUME RegistryConstants, RegistryInv, NEW p \in Openers, M!Map(p) \/ M!Verify(p)
    PROVE  RegistryInv'
<1> USE DEF RegistryConstants
<1>0. op \in [Openers -> M!Ops] /\ op[p] \in M!Ops /\ CallOK(p, op[p], adm, lock)
  BY DEF RegistryInv, RegistryTypes, CallInv
<1>1. CASE M!Map(p)
  <2>1. CASE M!Refuse(p) /\ UNCHANGED maps
    BY <1>1, <2>1, RefusalKeeps DEF M!Map
  <2>2. CASE /\ op[p].level # "structure" /\ maps' = maps \cup {p}
             /\ M!Step(p, [op[p] EXCEPT !.at = "verify"]) /\ UNCHANGED <<lock, adm, held>>
    <3>1. PICK o : o = [op[p] EXCEPT !.at = "verify"] /\ op' = [op EXCEPT ![p] = o]
      BY <2>2 DEF M!Step
    <3>2. op[p].at = "admit" /\ UNCHANGED <<file, edits>> /\ adm = None
      BY <1>0, <1>1 DEF M!Map, CallOK
    <3>3. /\ o \in M!Ops /\ o.at = "verify" /\ o.rec = op[p].rec /\ o.ino = op[p].ino
          /\ o.level = op[p].level
      BY <1>0, <3>1 DEF M!Ops
    <3>4. CallOK(p, o, adm, lock)
      BY <1>0, <2>2, <3>2, <3>3 DEF CallOK, Holds
    <3>5. \A q \in Openers : op'[q] = IF q = p THEN o ELSE op[q]
      BY <1>0, <3>1
    <3>6. MapInv'
      BY <2>2, <3>2, <3>3, <3>5 DEF RegistryInv, MapInv
    <3> QED
      BY <2>2, <3>1, <3>2, <3>3, <3>4, <3>6, CallGoesOn
  <2> QED
    BY <1>1, <2>1, <2>2 DEF M!Map
<1>2. CASE M!Verify(p)
  <2>1. /\ op[p].at = "verify" /\ adm = None /\ op[p].ino \in Inodes /\ UNCHANGED <<file, edits>>
        /\ op[p].level # "structure" /\ op[p].rec = None /\ lock = p
    BY <1>0, <1>2 DEF M!Verify, CallOK, Holds
  <2>2. PICK img \in M!Images : img = file[op[p].ino].img
    BY <2>1 DEF RegistryInv, RegistryTypes, M!Files
  <2>3. CASE ~M!Verifies(img, op[p].level)
    <3>1. M!Refuse(p) /\ maps' = maps \ {p}
      BY <1>2, <2>2, <2>3 DEF M!Verify
    <3> QED
      BY <2>1, <3>1, RefusalKeeps
  <2>4. CASE M!Verifies(img, op[p].level)
    <3>1. PICK o : /\ o = [op[p] EXCEPT !.at = "accept", !.got = op[p].level, !.img = img]
                   /\ op' = [op EXCEPT ![p] = o] /\ UNCHANGED <<lock, adm, maps, held>>
      BY <1>2, <2>2, <2>4 DEF M!Verify, M!Step
    <3>2. /\ o \in M!Ops /\ o.at = "accept" /\ o.rec = None /\ o.ino = op[p].ino
          /\ o.level = op[p].level /\ o.got = op[p].level /\ o.img = img
      BY <1>0, <2>1, <3>1 DEF M!Ops
    <3>3. o.got \in {"full", "trusted"}
      BY <1>0, <2>1, <3>2 DEF M!Ops, M!Levels
    <3>4. Verified(o)
      BY <2>4, <3>2, <3>3 DEF Verified, M!Verifies
    <3>5. CallOK(p, o, adm, lock)
      BY <2>1, <3>2, <3>4 DEF CallOK, Holds
    <3>6. \A q \in Openers : op'[q] = IF q = p THEN o ELSE op[q]
      BY <1>0, <3>1
    <3>7. MapInv'
      BY <2>1, <3>1, <3>2, <3>6 DEF RegistryInv, MapInv
    <3> QED
      BY <2>1, <3>1, <3>2, <3>5, <3>7, CallGoesOn
  <2> QED
    BY <2>3, <2>4
<1> QED
  BY <1>1, <1>2

\* Reuse: the admitted mapping is verified again, under the lock or not.
LEMMA ReuseKeeps ==
    ASSUME RegistryConstants, RegistryInv, NEW p \in Openers, M!Reuse(p)
    PROVE  RegistryInv'
<1> USE DEF RegistryConstants
<1>0. op \in [Openers -> M!Ops] /\ op[p] \in M!Ops /\ CallOK(p, op[p], adm, lock)
  BY DEF RegistryInv, RegistryTypes, CallInv
<1>1. /\ op[p].at \in {"reuse", "fast"} /\ adm # None /\ op[p].rec = adm
      /\ UNCHANGED <<file, edits, maps>> /\ adm \in M!Admissions
  BY <1>0 DEF M!Reuse, CallOK, RegistryInv, RegistryTypes
<1>2. PICK img \in M!Images : img = file[op[p].rec.ino].img
  BY <1>1 DEF RegistryInv, RegistryTypes, M!Files, M!Admissions
<1>3. CASE ~M!Reusable(op[p], img)
  <2>1. M!Refuse(p)
    BY <1>2, <1>3 DEF M!Reuse
  <2> QED
    BY <1>1, <2>1, RefusalKeeps
<1>4. CASE M!Reusable(op[p], img)
  <2>1. PICK o : /\ o = [op[p] EXCEPT !.at = "accept", !.got = M!ReuseLevel(op[p]), !.img = img]
                 /\ op' = [op EXCEPT ![p] = o] /\ UNCHANGED <<lock, adm, held>>
    BY <1>2, <1>4 DEF M!Reuse, M!Step
  <2>2. M!ReuseLevel(op[p]) \in {"full", "trusted"}
    BY <1>0 DEF M!ReuseLevel, M!Ops, M!Levels
  <2>3. /\ o \in M!Ops /\ o.at = "accept" /\ o.rec = adm /\ o.ino = op[p].ino
        /\ o.level = op[p].level /\ o.got = M!ReuseLevel(op[p]) /\ o.img = img
    BY <1>0, <1>1, <2>1, <2>2 DEF M!Ops, M!Levels
  <2>4. /\ img.body # Broken /\ (M!ReuseLevel(op[p]) = "full" => img.body = img.head)
        /\ (op[p].level = "structure" => adm.level = "full") /\ img.head = adm.head
        /\ ((M!ReuseLevel(op[p]) = "full" /\ adm.level = "full") => img = adm.sum)
    BY <1>1, <1>4 DEF M!Reusable, M!Verifies, M!ContainerSum
  <2>5. M!ReuseLevel(o) = M!ReuseLevel(op[p])
    BY <2>3 DEF M!ReuseLevel
  <2>6. Verified(o)
    BY <1>1, <2>2, <2>3, <2>4, <2>5 DEF Verified
  <2>7. CallOK(p, o, adm, lock)
    BY <1>0, <1>1, <2>3, <2>6 DEF CallOK, Holds
  <2>8. MapInv'
    BY <1>1, <2>1 DEF RegistryInv, MapInv
  <2> QED
    BY <1>1, <2>1, <2>3, <2>7, <2>8, CallGoesOn
<1> QED
  BY <1>3, <1>4

\* Accept: the first admission or an upgrade is published by the holder of the
\* lock, when no other call is working on the old record.
LEMMA AcceptKeeps ==
    ASSUME RegistryConstants, RegistryInv, NEW p \in Openers, M!Accept(p)
    PROVE  RegistryInv'
<1> USE DEF RegistryConstants
<1>0. op \in [Openers -> M!Ops] /\ op[p] \in M!Ops /\ CallOK(p, op[p], adm, lock)
  BY DEF RegistryInv, RegistryTypes, CallInv
<1>1. PICK o \in M!Ops : o = op[p]
  BY <1>0
<1>2. /\ o.at = "accept" /\ o.rec = adm /\ Verified(o) /\ o.ino \in Inodes
      /\ (Holds(o) => lock = p) /\ adm \in M!Admissions \cup {None}
      /\ UNCHANGED <<file, edits, maps>> /\ lock' = IF lock = p THEN None ELSE lock
      /\ op' = [op EXCEPT ![p] = M!IdleOp]
  BY <1>0, <1>1 DEF M!Accept, M!Step, M!Release, CallOK, RegistryInv, RegistryTypes
<1>3. PICK pub : /\ pub = M!Published(p)
                 /\ adm' = IF o.rec # None /\ o.rec.level = "full" THEN adm ELSE pub
                 /\ held' = held \cup {[buf |-> pub.buf, level |-> o.got, img |-> o.img]}
  BY <1>1 DEF M!Accept
<1>4. \A q \in Openers : op'[q] = IF q = p THEN M!IdleOp ELSE op[q]
  BY <1>0, <1>2
<1>5. PICK sum : sum = M!ContainerSum(o.img, o.got)
  OBVIOUS
<1>6. /\ sum \in M!Images \cup {None} /\ (o.got = "full" => sum = o.img)
      /\ o.img \in M!Images /\ o.img.head \in Heads
      /\ o.got \in {"full", "trusted"}
  BY <1>2, <1>5 DEF M!ContainerSum, Verified, M!Images
\* The record after the step.
<1>7. /\ adm' \in M!Admissions /\ adm' # None /\ pub.buf = adm'.buf
      /\ AdmInv' /\ (adm # None => (adm'.buf = adm.buf /\ adm'.head = adm.head))
      /\ (adm = None => adm'.buf = p)
      /\ adm'.head = o.img.head
      /\ (o.got = "full" => (adm'.level = "full" /\ o.img = adm'.sum))
      /\ ((adm # None /\ adm.level = "full") => adm' = adm)
  <2>1. CASE o.rec = None
    <3>1. pub = [buf |-> p, ino |-> o.ino, level |-> o.got, size |-> o.size,
                 head |-> o.img.head, sum |-> sum]
      BY <1>1, <1>3, <1>5, <2>1 DEF M!Published
    <3>2. pub \in M!Admissions
      BY <1>2, <1>6, <3>1 DEF M!Admissions, M!Ops
    <3>3. adm' = pub
      BY <1>3, <2>1
    <3> QED
      BY <1>2, <1>6, <2>1, <3>1, <3>2, <3>3 DEF AdmInv, Verified
  <2>2. CASE o.rec # None /\ o.rec.level = "full"
    <3>1. pub = adm /\ adm' = adm
      BY <1>1, <1>2, <1>3, <2>2 DEF M!Published
    <3> QED
      BY <1>2, <2>2, <3>1 DEF RegistryInv, AdmInv, Verified
  <2>3. CASE o.rec # None /\ o.rec.level # "full" /\ o.level = "full"
    <3>0. adm \in M!Admissions /\ adm.level = "trusted" /\ o.got = "full"
      BY <1>2, <2>3 DEF M!Admissions, Verified, M!ReuseLevel
    <3>1. pub = [adm EXCEPT !.level = "full", !.sum = sum] /\ adm' = pub
      BY <1>1, <1>2, <1>3, <1>5, <2>3, <3>0 DEF M!Published
    <3>2. /\ adm' \in M!Admissions /\ adm'.level = "full" /\ adm'.sum = sum
          /\ adm'.buf = adm.buf /\ adm'.head = adm.head
      BY <1>6, <3>0, <3>1 DEF M!Admissions
    <3>3. o.img.head = adm.head /\ o.img.body = o.img.head
      BY <1>2, <2>3, <3>0 DEF Verified
    <3> QED
      BY <1>2, <1>6, <2>3, <3>0, <3>1, <3>2, <3>3 DEF AdmInv
  <2>4. CASE o.rec # None /\ o.rec.level # "full" /\ o.level # "full"
    <3>1. pub = adm /\ adm' = adm
      BY <1>1, <1>2, <1>3, <2>4 DEF M!Published
    <3>2. o.got # "full"
      BY <1>2, <2>4 DEF Verified, M!ReuseLevel
    <3> QED
      BY <1>2, <2>4, <3>1, <3>2 DEF RegistryInv, AdmInv, Verified
  <2> QED
    BY <2>1, <2>2, <2>3, <2>4
<1>8. RegistryTypes'
  <2>1. pub.buf \in Openers
    BY <1>7 DEF M!Admissions
  <2>2. held' \subseteq M!Views
    BY <1>3, <1>6, <2>1 DEF RegistryInv, RegistryTypes, M!Views, M!Levels
  <2> QED
    BY <1>2, <1>7, <2>2, IdleOpType DEF RegistryInv, RegistryTypes
<1>9. CallInv'
  <2> SUFFICES ASSUME NEW q \in Openers PROVE CallOK(q, op'[q], adm', lock')
    BY DEF CallInv
  <2>1. CASE q = p
    BY <1>4, <2>1, IdleOpType DEF CallOK, Holds
  <2>2. CASE q # p
    <3>1. CallOK(q, op[q], adm, lock) /\ op'[q] = op[q]
      BY <1>4, <2>2 DEF RegistryInv, CallInv
    <3>2. CASE Holds(o)
      \* p holds the lock: q is not under way.
      <4>1. ~Holds(op[q])
        BY <1>2, <2>2, <3>1, <3>2 DEF CallOK
      <4>2. adm = None \/ adm.level # "full"
        BY <1>2, <3>2 DEF Holds
      <4>3. op[q].at \in {"idle", "opened"}
        BY <3>1, <4>1, <4>2 DEF CallOK, Holds, RegistryInv, RegistryTypes, M!Ops
      <4> QED
        BY <3>1, <4>1, <4>3 DEF CallOK
    <3>3. CASE ~Holds(o)
      <4>1. adm # None /\ adm.level = "full" /\ adm' = adm
        BY <1>2, <1>7, <3>3 DEF Holds
      <4>2. ~Holds(op[q])
        BY <3>1, <4>1 DEF CallOK, Holds
      <4> QED
        BY <3>1, <4>1, <4>2 DEF CallOK
    <3> QED
      BY <3>2, <3>3
  <2> QED
    BY <2>1, <2>2
<1>10. MapInv'
  <2>1. CASE adm # None
    BY <1>2, <1>7, <2>1 DEF RegistryInv, MapInv
  <2>2. CASE adm = None
    <3>1. maps = {q \in Openers : op[q].at \in {"verify", "accept"}}
      BY <2>2 DEF RegistryInv, MapInv
    <3>2. \A q \in Openers : op[q].at \in {"verify", "accept"} => q = p
      BY <1>1, <1>2, <2>2, OneHolder DEF RegistryInv, CallInv, CallOK, Holds
    <3>3. maps = {p}
      BY <1>1, <1>2, <3>1, <3>2
    <3> QED
      BY <1>2, <1>7, <2>2, <3>3 DEF MapInv
  <2> QED
    BY <2>1, <2>2
<1>11. HeldInv'
  <2> SUFFICES ASSUME NEW h \in held'
               PROVE  /\ adm' # None /\ h.buf = adm'.buf /\ h.img.head = adm'.head
                      /\ h.level = "full" => adm'.level = "full" /\ h.img = adm'.sum
    BY DEF HeldInv
  <2>1. CASE h \in held
    <3>1. /\ adm # None /\ h.buf = adm.buf /\ h.img.head = adm.head
          /\ (h.level = "full" => adm.level = "full" /\ h.img = adm.sum)
      BY <2>1 DEF RegistryInv, HeldInv
    <3> QED
      BY <1>7, <3>1
  <2>2. CASE h = [buf |-> pub.buf, level |-> o.got, img |-> o.img]
    BY <1>7, <2>2
  <2> QED
    BY <1>3, <2>1, <2>2
<1> QED
  BY <1>7, <1>8, <1>9, <1>10, <1>11 DEF RegistryInv

\* Every step of the openers and of whoever changes the files.
LEMMA RegistryStep ==
    ASSUME RegistryConstants, RegistryInv, [M!Next]_(M!vars)
    PROVE  RegistryInv'
<1>1. ASSUME NEW p \in Openers, M!AcceptFails(p) PROVE RegistryInv'
  <2>1. /\ op[p].at = "accept" /\ M!Refuse(p) /\ op[p].rec = adm /\ UNCHANGED <<file, edits>>
        /\ maps' = IF op[p].rec = None THEN maps \ {p} ELSE maps
    BY <1>1 DEF M!AcceptFails, RegistryInv, CallInv, CallOK
  <2> QED
    BY <2>1, RefusalKeeps
<1>2. CASE M!Edit
  <2>1. /\ file' \in [Inodes -> M!Files] /\ edits' \in 0 .. MaxEdits
        /\ UNCHANGED <<lock, adm, maps, op, held>>
    <3>1. PICK i \in Inodes :
            \E f \in {[file[i] EXCEPT !.img = img] : img \in M!Images}
                     \cup {[file[i] EXCEPT !.mode = mode] : mode \in M!Modes}
                     \cup {[file[i] EXCEPT !.size = n] : n \in file[i].size .. MaxSize} :
               file' = [file EXCEPT ![i] = f]
      BY <1>2 DEF M!Edit
    <3>2. file[i] \in M!Files /\ file[i].size \in Nat
      BY DEF RegistryInv, RegistryTypes, M!Files
    <3>3. PICK f : /\ file' = [file EXCEPT ![i] = f]
                   /\ \/ \E img \in M!Images : f = [file[i] EXCEPT !.img = img]
                      \/ \E mode \in M!Modes : f = [file[i] EXCEPT !.mode = mode]
                      \/ \E n \in file[i].size .. MaxSize : f = [file[i] EXCEPT !.size = n]
      BY <3>1
    <3>4. f \in M!Files
      BY <3>2, <3>3 DEF M!Files, RegistryConstants
    <3> QED
      BY <1>2, <3>3, <3>4 DEF M!Edit, RegistryInv, RegistryTypes, RegistryConstants
  <2> QED
    BY <2>1 DEF RegistryInv, RegistryTypes, CallInv, MapInv, AdmInv, HeldInv
<1>3. CASE UNCHANGED M!vars
  BY <1>3 DEF M!vars, RegistryInv, RegistryTypes, CallInv, MapInv, AdmInv, HeldInv
<1> QED
  BY <1>1, <1>2, <1>3, EnterKeeps, AdmitKeeps, ReuseKeeps, AcceptKeeps DEF M!Next, M!Continue

\* At most one mapping exists at any moment.
LEMMA OneMapping ==
    ASSUME RegistryConstants, RegistryInv
    PROVE  M!TypeOK
<1>1. PICK x : maps \subseteq {x} /\ maps \subseteq Openers
  <2>1. CASE adm # None
    BY <2>1 DEF RegistryInv, MapInv, RegistryTypes, M!Admissions
  <2>2. CASE adm = None
    BY <2>2 DEF RegistryInv, MapInv, CallInv, CallOK, Holds
  <2> QED
    BY <2>1, <2>2
<1>2. IsFiniteSet({x}) /\ Cardinality({x}) = 1
  BY FS_Singleton
<1>3. Cardinality(maps) <= 1
  BY <1>1, <1>2, FS_Subset, FS_CardinalityType
<1>4. M!Cardinality(maps) = Cardinality(maps)
  BY DEF M!Cardinality, Cardinality
<1> QED
  BY <1>1, <1>3, <1>4 DEF M!TypeOK, RegistryInv, RegistryTypes

LEMMA RegistryStation == M!Safety => []M!TypeOK /\ []M!OneArtifactServed
<1>1. M!Init => RegistryInv
  BY RegistryInit, RegistryAssumption
<1>2. RegistryInv /\ [M!Next]_(M!vars) => RegistryInv'
  BY RegistryStep, RegistryAssumption
<1>3. RegistryInv => M!TypeOK
  BY OneMapping, RegistryAssumption
<1>4. RegistryInv => M!OneArtifactServed
  <2> SUFFICES ASSUME RegistryInv, NEW g \in held, NEW h \in held
               PROVE  /\ adm # None /\ h.buf = adm.buf /\ h.buf \in maps
                      /\ g.img.head = h.img.head
                      /\ g.level = "full" => g.img.body = g.img.head
                      /\ (g.level = "full" /\ h.level = "full") => g.img = h.img
    BY DEF M!OneArtifactServed
  <2>1. adm # None /\ maps = {adm.buf}
    BY DEF RegistryInv, HeldInv, MapInv
  <2> QED
    BY <2>1 DEF RegistryInv, HeldInv, AdmInv
<1> QED
  BY <1>1, <1>2, <1>3, <1>4, PTL DEF M!Safety

-----------------------------------------------------------------------------
(* ArtifactServe.                                                          *)

\* Where main is fixes the store, the handler box and the listener.
MainInv ==
    /\ main \in {"install", "accept", "serve", "drain"} => opener = "ok" /\ store = "open"
    /\ main = "select" => /\ box = "none" /\ gate # 1
                          /\ opener \in {"ok", "unverified"} => store = "open"
    /\ main \in {"select", "install", "accept", "serve"} => server \in {"serving", "failed"}
    /\ main \in {"install", "accept"} => box = "stored"
    /\ main \in {"serve", "drain"} => box = "accepted"
    /\ main = "install" => gate # 1
    /\ main = "drain" => server \in {"shutdown", "failed"}
    /\ main = "returned" => server # "serving"
    /\ main = "aborted" => box = "none"
    /\ gate = 1 => box # "none"
    /\ reaper => main = "returned" /\ box = "none"
    /\ box = "accepted" => opener = "ok" /\ ~reaper /\ main \in {"serve", "drain", "returned"}

\* A request that passed the box came before the drain, and one that is still
\* inside when main has returned was cut off.
RequestInv ==
    \A r \in Requests :
        /\ req[r].late => gate = 2
        /\ req[r].at \in {"check", "handling"} => box = "accepted"
        /\ req[r].at = "handling" => ~req[r].late
        /\ (main = "returned" /\ req[r].at # "out") => server \in {"closed", "failed"}

ServeInv == S!TypeOK /\ MainInv /\ RequestInv

\* The gate, the opener, the watcher, main and the reaper leave the requests alone.
LEMMA RequestsStay ==
    ASSUME ServeInv, UNCHANGED req, S!TypeOK', MainInv',
           gate = 2 => gate' = 2,
           box = "accepted" => box' = "accepted",
           server \in {"closed", "failed"} => server' \in {"closed", "failed"},
           (main' = "returned" /\ main # "returned") =>
               \/ server' \in {"closed", "failed"}
               \/ \A r \in Requests : req[r].at = "out"
    PROVE  ServeInv'
  BY DEF ServeInv, RequestInv

\* A request moves on through the gate.
LEMMA RequestMoves ==
    ASSUME ServeInv, NEW r \in Requests, NEW x \in [at : {"out", "load", "check", "handling"}, late : BOOLEAN],
           req' = [req EXCEPT ![r] = x],
           UNCHANGED <<gate, box, sig, watcher, opener, store, server, main, reaper>>,
           x.late => gate = 2,
           x.at \in {"check", "handling"} => box = "accepted",
           x.at = "handling" => ~x.late,
           (main = "returned" /\ x.at # "out") => server \in {"closed", "failed"}
    PROVE  ServeInv'
<1>1. \A q \in Requests : req'[q] = IF q = r THEN x ELSE req[q]
  BY DEF ServeInv, S!TypeOK
<1>2. S!TypeOK'
  BY DEF ServeInv, S!TypeOK
<1>3. MainInv'
  BY DEF ServeInv, MainInv
<1>4. RequestInv'
  BY <1>1 DEF ServeInv, RequestInv
<1> QED
  BY <1>2, <1>3, <1>4 DEF ServeInv

\* Nothing is open and nobody is served when the process starts.
LEMMA ServeInit ==
    ASSUME S!Init
    PROVE  ServeInv
<1>1. sig \in BOOLEAN /\ reaper \in BOOLEAN /\ S!NoRequest \in [at : {"out"}, late : BOOLEAN]
  BY Zenon DEF S!Init, S!NoRequest
<1>2. \A r \in Requests : req[r] = S!NoRequest
  BY DEF S!Init
<1>3. S!TypeOK
  BY <1>1 DEF S!Init, S!TypeOK
<1>4. RequestInv
  BY <1>2 DEF RequestInv, S!NoRequest, S!Init
<1> QED
  BY <1>3, <1>4 DEF ServeInv, MainInv, S!Init

\* Every step of the process and of its requests.
LEMMA ServeStep ==
    ASSUME ServeInv, [S!Next]_(S!vars)
    PROVE  ServeInv'
<1> USE DEF ServeInv
<1>1. CASE S!OpenerStep
  <2>1. PICK result \in {"ok", "unverified", "error"} : S!Opens(result)
    BY <1>1 DEF S!OpenerStep
  <2>2. S!TypeOK' /\ MainInv'
    BY <2>1 DEF S!Opens, S!TypeOK, MainInv
  <2> QED
    BY <2>1, <2>2, RequestsStay DEF S!Opens
<1>2. CASE S!Signal
  <2>1. sig' \in BOOLEAN
    BY <1>2, Zenon DEF S!Signal
  <2>2. S!TypeOK' /\ MainInv'
    BY <1>2, <2>1 DEF S!Signal, S!TypeOK, MainInv
  <2> QED
    BY <1>2, <2>2, RequestsStay DEF S!Signal
<1>3. CASE S!WatchDrain \/ S!WatchTerminate \/ S!ServeFails
  <2>1. S!TypeOK' /\ MainInv'
    BY <1>3 DEF S!WatchDrain, S!WatchTerminate, S!ServeFails, S!TypeOK, MainInv, S!Ended
  <2> QED
    BY <1>3, <2>1, RequestsStay DEF S!WatchDrain, S!WatchTerminate, S!ServeFails
<1>4. CASE S!RejectOpened
  <2>1. S!TypeOK' /\ MainInv'
    BY <1>4 DEF S!RejectOpened, S!Stop, S!TypeOK, MainInv
  <2> QED
    BY <1>4, <2>1, RequestsStay DEF S!RejectOpened, S!Stop
<1>5. CASE S!TakeOpened
  <2>1. S!TypeOK' /\ MainInv'
    BY <1>5 DEF S!TakeOpened, S!TypeOK, MainInv
  <2> QED
    BY <1>5, <2>1, RequestsStay DEF S!TakeOpened, MainInv
<1>6. CASE S!Install
  <2>1. S!TypeOK' /\ MainInv'
    BY <1>6 DEF S!Install, S!Stop, S!TypeOK, MainInv
  <2> QED
    BY <1>6, <2>1, RequestsStay DEF S!Install, S!Stop, MainInv
<1>7. CASE S!Accept
  <2>1. S!TypeOK' /\ MainInv'
    BY <1>7 DEF S!Accept, S!TypeOK, MainInv
  <2> QED
    BY <1>7, <2>1, RequestsStay DEF S!Accept
<1>8. CASE S!Drain
  <2>1. S!TypeOK' /\ MainInv'
    BY <1>8 DEF S!Drain, S!TypeOK, MainInv
  <2> QED
    BY <1>8, <2>1, RequestsStay DEF S!Drain, MainInv
<1>9. CASE S!Drained
  <2>1. S!TypeOK' /\ MainInv'
    BY <1>9 DEF S!Drained, S!Stop, S!TypeOK, MainInv
  <2> QED
    BY <1>9, <2>1, RequestsStay DEF S!Drained, S!Stop, MainInv
<1>10. CASE S!ServeFailed
  <2>1. S!TypeOK' /\ MainInv'
    BY <1>10 DEF S!ServeFailed, S!TypeOK, MainInv
  <2> QED
    BY <1>10, <2>1, RequestsStay DEF S!ServeFailed
<1>11. CASE S!Abandon
  <2>1. reaper' \in BOOLEAN
    BY <1>11, Zenon DEF S!Abandon
  <2>2. S!TypeOK' /\ MainInv'
    BY <1>11, <2>1 DEF S!Abandon, S!Stop, S!TypeOK, MainInv
  <2> QED
    BY <1>11, <2>2, RequestsStay DEF S!Abandon, S!Stop
<1>12. CASE S!AbandonFailed
  <2>1. S!TypeOK' /\ MainInv'
    BY <1>12 DEF S!AbandonFailed, S!TypeOK, MainInv
  <2> QED
    BY <1>12, <2>1, RequestsStay DEF S!AbandonFailed
<1>13. CASE S!Reap
  <2>1. reaper' \in BOOLEAN
    BY <1>13, Zenon DEF S!Reap
  <2>2. main \notin {"install", "accept", "serve", "drain"}
    BY <1>13 DEF S!Reap, MainInv
  <2>3. S!TypeOK' /\ MainInv'
    BY <1>13, <2>1, <2>2 DEF S!Reap, S!TypeOK, MainInv
  <2> QED
    BY <1>13, <2>3, RequestsStay DEF S!Reap
<1>14. ASSUME NEW r \in Requests, S!Arrive(r) PROVE ServeInv'
  <2>1. PICK x : x = [at |-> "load", late |-> gate = 2] /\ req' = [req EXCEPT ![r] = x]
    BY <1>14 DEF S!Arrive
  <2>2. (gate = 2) \in BOOLEAN
    BY Zenon
  <2>3. x \in [at : {"out", "load", "check", "handling"}, late : BOOLEAN]
    BY <2>1, <2>2
  <2> QED
    BY <1>14, <2>1, <2>3, RequestMoves, ZenonT(60) DEF S!Arrive, MainInv
<1>15. ASSUME NEW r \in Requests, NEW to \in {"out", "check", "handling"}, NEW from, from # "out",
              S!Move(r, from, to),
              to = "check" => box = "accepted",
              to = "handling" => gate = 1 /\ from = "check"
       PROVE  ServeInv'
  <2>1. PICK x : /\ x = (IF to = "out" THEN S!NoRequest ELSE [req[r] EXCEPT !.at = to])
                 /\ req' = [req EXCEPT ![r] = x]
    BY <1>15 DEF S!Move, S!TypeOK
  <2>2. req[r] \in [at : {"out", "load", "check", "handling"}, late : BOOLEAN]
        /\ req[r].at = from
    BY <1>15 DEF S!Move, S!TypeOK
  <2>3. CASE to = "out"
    <3>1. x \in [at : {"out", "load", "check", "handling"}, late : BOOLEAN]
          /\ x.at = "out" /\ x.late = FALSE
      BY <2>1, <2>3 DEF S!NoRequest
    <3> QED
      BY <1>15, <2>1, <3>1, RequestMoves DEF S!Move
  <2>4. CASE to # "out"
    <3>1. x \in [at : {"out", "load", "check", "handling"}, late : BOOLEAN]
          /\ x.at = to /\ x.late = req[r].late
      BY <2>1, <2>2, <2>4
    <3>2. /\ x.late => gate = 2
          /\ box = "accepted"
          /\ x.at = "handling" => ~x.late
          /\ (main = "returned" => server \in {"closed", "failed"})
      BY <1>15, <2>2, <2>4, <3>1 DEF RequestInv
    <3> QED
      BY <1>15, <2>1, <3>1, <3>2, RequestMoves DEF S!Move
  <2> QED
    BY <2>3, <2>4
<1>16. ASSUME NEW r \in Requests, S!Handle(r) PROVE ServeInv'
  BY <1>15, <1>16 DEF S!Handle, S!LoadBox, S!CheckState, S!Respond
<1>17. CASE UNCHANGED S!vars
  BY <1>17 DEF S!vars, S!TypeOK, MainInv, RequestInv
<1> QED
  BY <1>1, <1>2, <1>3, <1>4, <1>5, <1>6, <1>7, <1>8, <1>9, <1>10, <1>11, <1>12, <1>13, <1>14,
     <1>16, <1>17 DEF S!Next, S!MainStep

LEMMA ServeStation == S!Spec => []S!TypeOK /\ []S!HandlersHaveTheirStore
<1>1. S!Init => ServeInv
  BY ServeInit
<1>2. ServeInv /\ [S!Next]_(S!vars) => ServeInv'
  BY ServeStep
<1>3. ServeInv => S!TypeOK /\ S!HandlersHaveTheirStore
  BY DEF ServeInv, MainInv, RequestInv, S!HandlersHaveTheirStore
<1> QED
  BY <1>1, <1>2, <1>3, PTL DEF S!Spec

-----------------------------------------------------------------------------
(* The composition.                                                        *)

\* A behaviour of the composition is one of each station.
LEMMA Composition == Spec => P!Spec /\ M!Safety /\ S!Spec
<1>1. Init => P!Init /\ M!Init /\ S!Init
  BY DEF Init
<1>2. [Next]_vars => [P!Next]_(P!vars)
  BY DEF Next, vars, publish, P!vars
<1>3. [Next]_vars => [M!Next]_(M!vars)
  BY DEF Next, vars, mapped, M!vars
<1>4. [Next]_vars => [S!Next]_(S!vars)
  BY DEF Next, vars, serve, S!vars
<1> QED
  BY <1>1, <1>2, <1>3, <1>4, PTL DEF Spec, P!Spec, M!Safety, S!Spec

\* Type correctness of the three stations.
THEOREM PreparedTypeCorrect == Spec => []TypeOK
<1>1. P!TypeOK /\ M!TypeOK /\ S!TypeOK => TypeOK
  BY DEF TypeOK
<1> QED
  BY <1>1, Composition, PublishStation, RegistryStation, ServeStation, PTL

\* Publish tells the truth after any failure, death or power loss, whatever
\* the number of publishers: the destination is a complete artifact that
\* nobody can still write to, and a call that returned success is what it
\* names (engine/prepared/publish.go).
THEOREM PublishTheorem == Spec => []PublishIsTrue
<1>1. P!PublishIsTrue => PublishIsTrue
  BY DEF PublishIsTrue
<1> QED
  BY <1>1, Composition, PublishStation, PTL

\* All callers of OpenMapped are served one artifact, for any number of
\* openers and files and while the files change underneath: every View is over
\* the admitted mapping, which stays mapped, with the admitted header digest,
\* and Views reported as full were verified over identical bytes
\* (engine/prepared/mapped.go).
THEOREM RegistryTheorem == Spec => []OneArtifactServed
<1>1. M!OneArtifactServed => OneArtifactServed
  BY DEF OneArtifactServed
<1> QED
  BY <1>1, Composition, RegistryStation, PTL

\* kurnd -artifact: for any number of requests, a handler works on an open
\* store whose verification was established, unless the drain deadline or a
\* broken listener cut it off, and on no request that came after the drain
\* began (cmd/kurnd/main.go, serveArtifactWith and artifactGate).
THEOREM ServeTheorem == Spec => []HandlersHaveTheirStore
<1>1. S!HandlersHaveTheirStore => HandlersHaveTheirStore
  BY DEF HandlersHaveTheirStore
<1> QED
  BY <1>1, Composition, ServeStation, PTL

-----------------------------------------------------------------------------
(* ArtifactLayout.                                                         *)

Fields == [off : Nat, length : Nat]

\* What is accepted of a table lies behind the header, aligned, in order and
\* inside the file; no sum of it wraps.
TableInv ==
    /\ step \in {"sections", "accepted"}
    /\ read \in [kinds : Tables, size : Nat, secs : Seq(Fields)]
    /\ \A i \in DOMAIN read.secs :
         LET s == read.secs[i]
         IN /\ s.off >= headLen(Len(read.kinds)) /\ s.off % Align = 0
            /\ Within(s, read.size) /\ Within(s, Top)
    /\ \A i, j \in DOMAIN read.secs : i < j => read.secs[i].off + read.secs[i].length <= read.secs[j].off

\* A record's row grows as its parts are read.
RowsWithID == [id : Fields]
RowsWithKeys == [id : Fields, start : Nat, count : Nat]
WholeRows == [id : Fields, start : Nat, count : Nat, payload : Fields]

\* A row that is whole has its fields in the blob and its keys among those read.
RowInBounds(r, size, keys) ==
    /\ r \in WholeRows
    /\ Within(r.id, size) /\ Within(r.payload, size)
    /\ r.start + (r.count % keysNullFlag) <= keys

\* Rows of which all parts have been read.
RowsDone == IF step \in {"keys", "key", "payload"} THEN Len(read.rows) - 1 ELSE Len(read.rows)

RecordsType ==
    read \in [len : Nat, n : Nat, nk : Nat, blob : Seq(Chars), cur : Nat, kIdx : Nat, left : Nat,
              rows : Seq(RowsWithID \cup RowsWithKeys \cup WholeRows), keyRows : Seq(Fields),
              ids : Seq(Nat)]

RowsInv ==
    /\ \A i \in 1 .. RowsDone : RowInBounds(read.rows[i], Len(read.blob), Len(read.keyRows))
    /\ \A j \in DOMAIN read.keyRows : Within(read.keyRows[j], Len(read.blob))
    /\ read.cur <= Len(read.blob)

\* The row under way, and the keys it still lacks.
PartInv ==
    LET i == Len(read.rows)
        r == read.rows[i]
    IN /\ step \in {"keys", "key", "payload"} => i > 0 /\ Within(r.id, Len(read.blob))
       /\ step = "keys" => r \in RowsWithID
       /\ step \in {"key", "payload"} =>
            /\ r \in RowsWithKeys
            /\ r.start + (r.count % keysNullFlag) = Len(read.keyRows) + read.left
       /\ step = "key" => read.left > 0
       /\ step = "payload" => read.left = 0

RecordsInv ==
    /\ step \in {"count", "keycount", "id", "keys", "key", "payload",
                 "records", "idcount", "ids", "accepted"}
    /\ RecordsType /\ RowsInv /\ PartInv
    /\ Len(read.keyRows) = read.kIdx
    /\ step \in {"count", "keycount"} =>
         read.rows = <<>> /\ read.keyRows = <<>> /\ read.cur = 0 /\ read.kIdx = 0
    /\ step = "id" => Len(read.rows) < read.n
    /\ step \in {"keys", "key", "payload"} => Len(read.rows) <= read.n
    /\ step \in {"records", "idcount", "ids", "accepted"} => Len(read.rows) = read.n

ExactType ==
    read \in [len : Nat, n : Nat, k : Nat, p : Nat, arena : Seq(Chars), postings : Seq(Nat),
              aOff : Nat, pOff : Nat, keys : Seq([key : Fields, run : Fields])]

ExactInv ==
    /\ step \in {"count", "postings", "arena", "keys", "accepted"}
    /\ ExactType
    /\ read.aOff <= Len(read.arena) /\ read.pOff <= read.p
    /\ \A i \in DOMAIN read.keys :
         Within(read.keys[i].key, Len(read.arena)) /\ Within(read.keys[i].run, read.p)
    /\ step \in {"count", "postings", "arena"} =>
         read.keys = <<>> /\ read.aOff = 0 /\ read.pOff = 0

GramRows == [gram : Fields]
BitmapRows == [gram : Fields, bitmap : Fields, set : SUBSET Nat]

NgramRow(r) ==
    /\ r \in BitmapRows
    /\ Within(r.gram, Len(read.grams)) /\ Within(r.bitmap, read.bmLen)
    /\ (bmStart(read, Len(read.grams)) + r.bitmap.off) % Align = 0

NgramType ==
    read \in [len : Nat, n : Nat, g : Nat, numOrds : Nat, grams : Seq(Chars), bmLen : Nat,
              gcur : Nat, bcur : Nat, rows : Seq(GramRows \cup BitmapRows)]

NgramInv ==
    /\ step \in {"count", "ords", "blob", "gram", "bitmap", "accepted"}
    /\ NgramType
    /\ read.gcur <= Len(read.grams)
    /\ step \in {"count", "ords", "blob"} => read.rows = <<>> /\ read.gcur = 0
    /\ \A i \in 1 .. (IF step = "bitmap" THEN Len(read.rows) - 1 ELSE Len(read.rows)) :
         NgramRow(read.rows[i])
    /\ step = "bitmap" =>
         LET r == read.rows[Len(read.rows)]
         IN Len(read.rows) > 0 /\ r \in GramRows /\ Within(r.gram, Len(read.grams))

LayoutInv ==
    /\ want = Foreign
    /\ section \in {"table", "records", "exact", "ngram"}
    /\ step # "malformed" =>
         /\ section = "table" => TableInv
         /\ section = "records" => RecordsInv
         /\ section = "exact" => ExactInv
         /\ section = "ngram" => NgramInv

-----------------------------------------------------------------------------
(* Arithmetic of alignment and of words.                                   *)

Multiple(n, m) == n % m = 0

LEMMA DivFacts ==
  ASSUME NEW n \in Nat, NEW a \in Nat, a > 0
  PROVE  /\ n \div a \in Nat /\ n % a \in 0 .. a - 1
         /\ n = a * (n \div a) + (n % a)
  OBVIOUS

LEMMA ProductsDivide ==
  ASSUME NEW q \in Nat, NEW a \in Nat, a > 0
  PROVE  Multiple(q * a, a)
<1> DEFINE x == q * a
           d == q - (x \div a)
<1>0. x \in Nat
  OBVIOUS
<1>1. x \div a \in Nat /\ x % a \in 0 .. a - 1 /\ x = a * (x \div a) + (x % a)
  BY <1>0, DivFacts
<1>2. d \in Int /\ d * a = x % a
  BY <1>0, <1>1
<1>3. d <= 0
  <2> SUFFICES ASSUME d >= 1 PROVE FALSE
    BY <1>2
  <2>1. (d - 1) * a >= 0
    BY <1>2
  <2>2. d * a >= a
    BY <2>1, <1>2
  <2> QED BY <2>2, <1>1, <1>2
<1>4. d >= 0
  <2> SUFFICES ASSUME d <= -1 PROVE FALSE
    BY <1>2
  <2>1. (0 - d) * a > 0
    BY <1>2
  <2> QED BY <2>1, <1>1, <1>2
<1>5. d = 0
  BY <1>2, <1>3, <1>4
<1> QED BY <1>2, <1>5 DEF Multiple

\* align32 rounds up to a multiple.
LEMMA AlignUp ==
  ASSUME NEW n \in Nat, LayoutConstants
  PROVE  /\ align32(n) \in Nat /\ align32(n) >= n
         /\ \E q \in Nat : align32(n) = q * Align
<1> DEFINE m == n + Align - 1
           q == m \div Align
<1>0. Align \in Nat /\ Align > 0
  BY DEF LayoutConstants
<1>1. m \in Nat
  BY <1>0
<1>2. q \in Nat /\ m % Align \in 0 .. Align - 1 /\ m = Align * q + (m % Align)
  BY <1>0, <1>1, DivFacts
<1>3. align32(n) = q * Align
  BY DEF align32
<1>4. q * Align = Align * q /\ q * Align \in Nat
  BY <1>0, <1>2
<1>5. q * Align >= n
  <2> HIDE DEF q
  <2> QED BY <1>0, <1>2, <1>4
<1> QED BY <1>2, <1>3, <1>4, <1>5

\* An aligned place in an aligned region is aligned in the file.
LEMMA AlignedSum ==
  ASSUME NEW m \in Nat, NEW n \in Nat, LayoutConstants
  PROVE  (align32(m) + align32(n)) % Align = 0
<1>0. Align \in Nat /\ Align > 0
  BY DEF LayoutConstants
<1>1. PICK p \in Nat : align32(m) = p * Align
  BY AlignUp
<1>2. PICK q \in Nat : align32(n) = q * Align
  BY AlignUp
<1>3. align32(m) + align32(n) = (p + q) * Align
  BY <1>0, <1>1, <1>2
<1>4. Multiple((p + q) * Align, Align)
  <2>1. p + q \in Nat
    OBVIOUS
  <2> QED BY <1>0, <2>1, ProductsDivide, Zenon
<1> QED BY <1>3, <1>4 DEF Multiple

LEMMA FieldParts ==
  ASSUME NEW f \in Fields
  PROVE  f.off \in Nat /\ f.length \in Nat
  BY DEF Fields

LEMMA ElementsAreFields ==
  ASSUME NEW t \in Seq(Fields), NEW i \in 1 .. Len(t)
  PROVE  t[i] \in Fields /\ t[i].off \in Nat /\ t[i].length \in Nat
<1>1. t[i] \in Fields
  OBVIOUS
<1> QED BY <1>1, FieldParts

LEMMA EndIsTrue ==
  ASSUME NEW s \in Fields, LayoutConstants, Within(s, Top)
  PROVE  end(s) = s.off + s.length
<1>1. Top \in Nat /\ s.off \in Nat /\ s.length \in Nat
  BY FieldParts DEF LayoutConstants
<1>2. s.off + s.length \in 0 .. Top
  BY <1>1 DEF Within
<1>3. (s.off + s.length) % (Top + 1) = s.off + s.length
  BY <1>1, <1>2
<1> QED BY <1>3 DEF end

\* A section that FitsFile accepts has an end that did not wrap.
LEMMA FitsFileIsTrue ==
  ASSUME NEW s \in Fields, NEW size \in Nat, LayoutConstants, FitsFile(s, size)
  PROVE  Within(s, size) /\ Within(s, Top)
<1>1. Top \in Nat /\ s.off \in Nat /\ s.length \in Nat
  BY FieldParts DEF LayoutConstants
<1>2. Within(s, Top)
  BY <1>1 DEF FitsFile, Within
<1> QED BY <1>2, EndIsTrue DEF FitsFile, Within

-----------------------------------------------------------------------------
(* The initial states, a refusal, and the steps of the section table.      *)

LEMMA LayoutStart ==
  ASSUME LayoutConstants, InitForeign
  PROVE  LayoutInv
<1>0. MaxCells \in Nat /\ MaxOrd \in Nat /\ MaxExact - 1 \in Nat
  BY DEF LayoutConstants
<1>1. CASE section = "table"
  <2>1. PICK kinds \in Tables, size \in 0 .. MaxCells :
          step = "sections" /\ read = [kinds |-> kinds, size |-> size, secs |-> <<>>]
    BY <1>1 DEF InitForeign
  <2>2. TableInv
    BY <1>0, <2>1 DEF TableInv, Fields
  <2> QED BY <1>1, <2>2 DEF LayoutInv, InitForeign
<1>2. CASE section = "records"
  <2>1. PICK len \in 0 .. MaxCells : step = "count" /\ read = EmptyRecords(len)
    BY <1>2 DEF InitForeign
  <2>2. RecordsType
    BY <1>0, <2>1 DEF RecordsType, EmptyRecords
  <2>3. RowsInv /\ PartInv
    BY <2>1 DEF RowsInv, PartInv, RowsDone, EmptyRecords
  <2>4. RecordsInv
    BY <2>1, <2>2, <2>3 DEF RecordsInv, EmptyRecords
  <2> QED BY <1>2, <2>4 DEF LayoutInv, InitForeign
<1>3. CASE section = "exact"
  <2>1. PICK n \in {0, MaxOrd, MaxExact - 1}, len \in 0 .. MaxCells :
          step = "count" /\ read = EmptyExact(n, len)
    BY <1>3 DEF InitForeign
  <2>2. ExactInv
    BY <1>0, <2>1 DEF ExactInv, ExactType, EmptyExact
  <2> QED BY <1>3, <2>2 DEF LayoutInv, InitForeign
<1>4. CASE section = "ngram"
  <2>1. PICK n \in 0 .. MaxOrd, len \in 0 .. MaxCells :
          step = "count" /\ read = EmptyNgram(n, len)
    BY <1>4 DEF InitForeign
  <2>2. NgramInv
    BY <1>0, <2>1 DEF NgramInv, NgramType, EmptyNgram
  <2> QED BY <1>4, <2>2 DEF LayoutInv, InitForeign
<1> QED BY <1>1, <1>2, <1>3, <1>4 DEF InitForeign

LEMMA FileRefused ==
  ASSUME LayoutInv, Refuse
  PROVE  LayoutInv'
  BY DEF LayoutInv, Refuse

\* A foreign word and a foreign field are numbers.
LEMMA WordsAreNumbers ==
  ASSUME LayoutConstants
  PROVE  Words \subseteq Nat /\ [off : Words, length : Words] \subseteq Fields
<1>1. \A w \in Words : w \in Nat
  BY DEF LayoutConstants
<1>2. Words \subseteq Nat
  BY <1>1
<1>3. \A f \in [off : Words, length : Words] : f \in Fields
  BY <1>1 DEF Fields
<1> QED BY <1>2, <1>3

LEMMA SectionKeeps ==
  ASSUME LayoutConstants, LayoutInv, ReadSection
  PROVE  LayoutInv'
<1>0. TableInv /\ section = "table" /\ step = "sections" /\ want = Foreign
  BY DEF LayoutInv, ReadSection, Parsing
<1>1. CASE Refuse
  BY <1>1, FileRefused
<1>2. CASE ~Refuse
  <2>1. PICK s \in [off : Words, length : Words] :
          /\ s.off % Align = 0 /\ FitsFile(s, read.size) /\ FollowsTable(s, read)
          /\ Go(step, [read EXCEPT !.secs = Append(@, s)])
    BY <1>0, <1>2 DEF ReadSection, Checked, Field
  <2> DEFINE t == read.secs
             n == Len(t)
  <2>2. s \in Fields /\ s.off \in Nat /\ s.length \in Nat
    BY WordsAreNumbers DEF Fields
  <2>3. t \in Seq(Fields) /\ n \in Nat /\ read.size \in Nat /\ read.kinds \in Tables
    BY <1>0 DEF TableInv
  <2>4. Within(s, read.size) /\ Within(s, Top)
    BY <2>1, <2>2, <2>3, FitsFileIsTrue
  <2>5. read' = [kinds |-> read.kinds, size |-> read.size, secs |-> Append(t, s)]
    BY <1>0, <2>1 DEF Go, TableInv
  <2>6. Append(t, s) \in Seq(Fields) /\ Len(Append(t, s)) = n + 1
        /\ Append(t, s)[n + 1] = s /\ \A i \in 1 .. n : Append(t, s)[i] = t[i]
    BY <2>2, <2>3
  <2>7. headLen(Len(read.kinds)) \in Nat
    BY <2>3 DEF headLen, LayoutConstants
  <2>8. n > 0 => /\ t[n] \in Fields /\ t[n].off \in Nat /\ t[n].length \in Nat
                 /\ Within(t[n], Top) /\ t[n].off >= headLen(Len(read.kinds))
    <3> SUFFICES ASSUME n > 0
                 PROVE  /\ t[n] \in Fields /\ t[n].off \in Nat /\ t[n].length \in Nat
                        /\ Within(t[n], Top) /\ t[n].off >= headLen(Len(read.kinds))
      OBVIOUS
    <3>1. n \in 1 .. n /\ n \in DOMAIN t
      BY <2>3
    <3>2. Within(t[n], Top) /\ t[n].off >= headLen(Len(read.kinds))
      BY <1>0, <3>1 DEF TableInv
    <3> QED BY <2>3, <3>1, <3>2, ElementsAreFields
  <2>9. n > 0 => s.off > t[n].off /\ s.off >= t[n].off + t[n].length
    <3> SUFFICES ASSUME n > 0 PROVE s.off > t[n].off /\ s.off >= t[n].off + t[n].length
      OBVIOUS
    <3>1. t # <<>> /\ Last(t) = t[n]
      BY <2>3 DEF Last
    <3>2. s.off > t[n].off /\ s.off >= end(t[n])
      BY <2>1, <3>1 DEF FollowsTable
    <3>3. end(t[n]) = t[n].off + t[n].length
      BY <2>8, EndIsTrue
    <3> QED BY <3>2, <3>3
  <2>10. s.off >= headLen(Len(read.kinds))
    <3>1. CASE n = 0
      <4>1. s.off >= align32(headLen(Len(read.kinds)))
        BY <2>1, <2>3, <3>1 DEF FollowsTable
      <4>2. align32(headLen(Len(read.kinds))) >= headLen(Len(read.kinds))
            /\ align32(headLen(Len(read.kinds))) \in Nat
        BY <2>7, AlignUp
      <4> QED BY <2>2, <2>7, <4>1, <4>2
    <3>2. CASE n > 0
      BY <2>2, <2>7, <2>8, <2>9, <3>2
    <3> QED BY <2>3, <3>1, <3>2
  <2>11. \A i \in 1 .. n : t[i].off \in Nat /\ t[i].length \in Nat
    BY <2>3, ElementsAreFields
  <2>12. \A i \in 1 .. n : t[i].off + t[i].length <= s.off
    <3> SUFFICES ASSUME NEW i \in 1 .. n PROVE t[i].off + t[i].length <= s.off
      OBVIOUS
    <3>1. CASE i = n
      BY <2>9, <2>11, <2>2, <2>3, <3>1
    <3>2. CASE i < n
      <4>1. t[i].off + t[i].length <= t[n].off
        BY <1>0, <2>3, <3>2 DEF TableInv
      <4> QED BY <4>1, <2>2, <2>3, <2>8, <2>9, <2>11
    <3> QED BY <2>3, <3>1, <3>2
  <2>13. TableInv'
    <3>1. (step \in {"sections", "accepted"})' /\ read' \in [kinds : Tables, size : Nat, secs : Seq(Fields)]
      BY <1>0, <2>1, <2>3, <2>5, <2>6 DEF Go
    <3>2. \A i \in 1 .. n + 1 :
            LET u == Append(t, s)[i]
            IN /\ u.off >= headLen(Len(read.kinds)) /\ u.off % Align = 0
               /\ Within(u, read.size) /\ Within(u, Top)
      BY <1>0, <2>1, <2>3, <2>4, <2>6, <2>10 DEF TableInv
    <3>3. \A i, j \in 1 .. n + 1 :
            i < j => Append(t, s)[i].off + Append(t, s)[i].length <= Append(t, s)[j].off
      BY <1>0, <2>3, <2>6, <2>12 DEF TableInv
    <3>4. DOMAIN Append(t, s) = 1 .. n + 1
      BY <2>6
    <3> QED BY <2>5, <3>1, <3>2, <3>3, <3>4 DEF TableInv
  <2> QED BY <1>0, <2>1, <2>13 DEF LayoutInv, Go
<1> QED BY <1>1, <1>2

LEMMA EndTableKeeps ==
  ASSUME LayoutInv, EndTable
  PROVE  LayoutInv'
<1>0. TableInv /\ section = "table" /\ want = Foreign
  BY DEF LayoutInv, EndTable, Parsing
<1>1. CASE Refuse
  BY <1>1, FileRefused
<1>2. CASE Go("accepted", read)
  BY <1>0, <1>2 DEF LayoutInv, Go, TableInv
<1> QED BY <1>1, <1>2 DEF EndTable

-----------------------------------------------------------------------------
(* The steps of the records and ids sections.                              *)

\* What RecordsType says of each part.
LEMMA RecordsParts ==
  ASSUME RecordsType
  PROVE  /\ read.len \in Nat /\ read.n \in Nat /\ read.nk \in Nat /\ read.blob \in Seq(Chars)
         /\ read.cur \in Nat /\ read.kIdx \in Nat /\ read.left \in Nat
         /\ read.rows \in Seq(RowsWithID \cup RowsWithKeys \cup WholeRows)
         /\ read.keyRows \in Seq(Fields) /\ read.ids \in Seq(Nat)
         /\ Len(read.blob) \in Nat /\ Len(read.rows) \in Nat /\ Len(read.keyRows) \in Nat
  BY DEF RecordsType

LEMMA RecordCountKeeps ==
  ASSUME LayoutConstants, LayoutInv, ReadRecordCount
  PROVE  LayoutInv'
<1>0. RecordsInv /\ section = "records" /\ step = "count" /\ want = Foreign
  BY DEF LayoutInv, ReadRecordCount, Parsing
<1>1. CASE Refuse
  BY <1>1, FileRefused
<1>2. CASE ~Refuse
  <2>1. PICK n \in Words : Go("keycount", [read EXCEPT !.n = n])
    BY <1>0, <1>2 DEF ReadRecordCount, Checked, Word
  <2>2. n \in Nat
    BY WordsAreNumbers
  <2>3. RecordsType'
    BY <1>0, <2>1, <2>2 DEF RecordsInv, RecordsType, Go
  <2>4. /\ step' = "keycount" /\ read'.rows = <<>> /\ read'.keyRows = <<>>
        /\ read'.cur = 0 /\ read'.kIdx = 0 /\ read'.blob = read.blob
    BY <1>0, <2>1 DEF RecordsInv, RecordsType, Go
  <2>5. RowsInv' /\ PartInv'
    BY <2>3, <2>4 DEF RowsInv, PartInv, RowsDone, RecordsType
  <2>6. RecordsInv'
    BY <2>3, <2>4, <2>5 DEF RecordsInv
  <2> QED BY <1>0, <2>1, <2>6 DEF LayoutInv, Go
<1> QED BY <1>1, <1>2

\* Pairs of cells that count admits are there.
LEMMA CountedPairs ==
  ASSUME NEW n \in Nat, NEW len \in Nat, NEW off \in Nat, count(n, len, off, 2, 0)
  PROVE  off + 1 + 2 * n <= len
<1> DEFINE room == len - off - 1
<1>1. room \in Nat /\ n <= room \div 2
  <2>1. off + 1 <= len /\ n <= (len - off - 1 - 0) \div 2
    BY DEF count
  <2>2. len - off - 1 - 0 = room /\ room \in Nat
    BY <2>1
  <2> QED BY <2>1, <2>2
<1>2. room \div 2 \in Nat /\ room % 2 \in 0 .. 1 /\ room = 2 * (room \div 2) + (room % 2)
  BY <1>1
<1>3. 2 * n <= room
  BY <1>1, <1>2
<1> QED BY <1>3

LEMMA KeyCountKeeps ==
  ASSUME LayoutConstants, LayoutInv, ReadKeyCount
  PROVE  LayoutInv'
<1>0. RecordsInv /\ section = "records" /\ step = "keycount" /\ want = Foreign
  BY DEF LayoutInv, ReadKeyCount, Parsing
<1>1. CASE Refuse
  BY <1>1, FileRefused
<1>2. CASE ~Refuse
  <2> DEFINE size(nk) == read.len - ((1 + 6 * read.n) + 1 + 2 * nk)
  <2>1. PICK nk \in Words : \E blob \in [1 .. size(nk) -> Chars] :
          /\ count(nk, read.len, 1 + 6 * read.n, 2, 0)
          /\ Go(NextRecord(read), [read EXCEPT !.nk = nk, !.blob = blob])
    BY <1>0, <1>2 DEF ReadKeyCount, Checked, Word, Bytes
  <2>1a. PICK blob \in [1 .. size(nk) -> Chars] :
          /\ count(nk, read.len, 1 + 6 * read.n, 2, 0)
          /\ Go(NextRecord(read), [read EXCEPT !.nk = nk, !.blob = blob])
    BY <2>1
  <2>2. nk \in Nat /\ read.len \in Nat /\ read.n \in Nat
    BY <1>0, WordsAreNumbers DEF RecordsInv, RecordsType
  <2>3. size(nk) \in Nat
    <3>1. (1 + 6 * read.n) + 1 + 2 * nk <= read.len
      BY <2>1a, <2>2, CountedPairs
    <3> QED BY <2>2, <3>1
  <2>4. blob \in Seq(Chars)
    BY <2>3
  <2>5. RecordsType'
    BY <1>0, <2>1a, <2>2, <2>4 DEF RecordsInv, RecordsType, Go
  <2>6. /\ read'.rows = <<>> /\ read'.keyRows = <<>>
        /\ read'.cur = 0 /\ read'.kIdx = 0 /\ read'.blob = blob /\ read'.n = read.n
    BY <1>0, <2>1a DEF RecordsInv, RecordsType, Go
  <2>7. /\ step' \in {"id", "records"}
        /\ step' = "id" => 0 < read.n
        /\ step' = "records" => read.n = 0
    <3>1. step' = NextRecord(read)
      BY <2>1a DEF Go
    <3>2. Len(read.rows) = 0
      BY <1>0 DEF RecordsInv
    <3> QED BY <2>2, <3>1, <3>2 DEF NextRecord
  <2>8. RowsInv' /\ PartInv'
    BY <2>4, <2>6, <2>7 DEF RowsInv, PartInv, RowsDone
  <2>9. RecordsInv'
    BY <2>5, <2>6, <2>7, <2>8 DEF RecordsInv
  <2> QED BY <1>0, <2>1a, <2>9 DEF LayoutInv, Go
<1> QED BY <1>1, <1>2

\* A field taken at the cursor lies in the blob, and so does the cursor after it.
LEMMA TakenIsWithin ==
  ASSUME RecordsType, RowsInv, NEW f \in Fields, NEW what, take(f, what)
  PROVE  Within(f, Len(read.blob)) /\ read.cur + f.length <= Len(read.blob)
         /\ read.cur + f.length \in Nat
<1>1. f.off \in Nat /\ f.length \in Nat
  BY FieldParts
<1> QED BY <1>1, RecordsParts DEF take, Within, RowsInv

LEMMA TakeIDKeeps ==
  ASSUME LayoutConstants, LayoutInv, TakeID
  PROVE  LayoutInv'
<1>0. RecordsInv /\ section = "records" /\ step = "id" /\ want = Foreign
  BY DEF LayoutInv, TakeID, Parsing
<1>1. CASE Refuse
  BY <1>1, FileRefused
<1>2. CASE ~Refuse
  <2>1. PICK f \in [off : Words, length : Words] :
          /\ take(f, "id")
          /\ Go("keys", [read EXCEPT !.cur = @ + f.length, !.rows = Append(@, [id |-> f])])
    BY <1>0, <1>2 DEF TakeID, Checked, Field
  <2> DEFINE rows == read.rows
             n == Len(rows)
             row == [id |-> f]
  <2>2. f \in Fields /\ row \in RowsWithID
    BY WordsAreNumbers DEF RowsWithID
  <2>3. /\ Within(f, Len(read.blob)) /\ read.cur + f.length <= Len(read.blob)
        /\ read.cur + f.length \in Nat
    BY <1>0, <2>1, <2>2, TakenIsWithin DEF RecordsInv
  <2>4. /\ read'.rows = Append(rows, row) /\ read'.cur = read.cur + f.length
        /\ read'.blob = read.blob /\ read'.keyRows = read.keyRows /\ read'.kIdx = read.kIdx
        /\ read'.n = read.n /\ read'.left = read.left /\ read'.ids = read.ids
        /\ read'.len = read.len /\ read'.nk = read.nk /\ step' = "keys"
    BY <1>0, <2>1 DEF RecordsInv, RecordsType, Go
  <2>5. /\ rows \in Seq(RowsWithID \cup RowsWithKeys \cup WholeRows) /\ n \in Nat
        /\ Len(Append(rows, row)) = n + 1 /\ Append(rows, row)[n + 1] = row
        /\ \A i \in 1 .. n : Append(rows, row)[i] = rows[i]
        /\ Append(rows, row) \in Seq(RowsWithID \cup RowsWithKeys \cup WholeRows)
    BY <1>0, <2>2, RecordsParts DEF RecordsInv
  <2>6. RecordsType'
    BY <1>0, <2>1, <2>3, <2>5 DEF RecordsInv, RecordsType, Go
  <2>7. RowsInv'
    BY <1>0, <2>3, <2>4, <2>5 DEF RecordsInv, RowsInv, RowsDone
  <2>8. PartInv'
    BY <2>2, <2>3, <2>4, <2>5 DEF PartInv
  <2>9. Len(rows) < read.n /\ Len(read.keyRows) = read.kIdx /\ read.n \in Nat
    BY <1>0, RecordsParts DEF RecordsInv
  <2>10. RecordsInv'
    BY <2>4, <2>5, <2>6, <2>7, <2>8, <2>9 DEF RecordsInv
  <2> QED BY <1>0, <2>1, <2>10 DEF LayoutInv, Go
<1> QED BY <1>1, <1>2

\* The row under way takes another shape; the rows before it are as they were.
LEMMA RowReplaced ==
  ASSUME RecordsType, Len(read.rows) > 0, NEW row \in RowsWithID \cup RowsWithKeys \cup WholeRows
  PROVE  LET rows == [read.rows EXCEPT ![Len(read.rows)] = row]
         IN /\ rows \in Seq(RowsWithID \cup RowsWithKeys \cup WholeRows)
            /\ Len(rows) = Len(read.rows) /\ rows[Len(read.rows)] = row
            /\ \A i \in 1 .. Len(read.rows) - 1 : rows[i] = read.rows[i]
  BY RecordsParts

LEMMA TakeKeyRangeKeeps ==
  ASSUME LayoutConstants, LayoutInv, TakeKeyRange
  PROVE  LayoutInv'
<1>0. RecordsInv /\ section = "records" /\ step = "keys" /\ want = Foreign
  BY DEF LayoutInv, TakeKeyRange, Parsing
<1>1. CASE Refuse
  BY <1>1, FileRefused
<1>2. CASE ~Refuse
  <2> DEFINE n == Len(read.rows)
  <2>1. PICK w \in Words \X Words :
          /\ KeyRangeFits(w[1], w[2])
          /\ Go(IF w[2] % keysNullFlag = 0 THEN "payload" ELSE "key",
                [read EXCEPT !.rows[n] = [id |-> read.rows[n].id, start |-> w[1], count |-> w[2]],
                             !.left = w[2] % keysNullFlag])
    BY <1>0, <1>2 DEF TakeKeyRange, Checked, Word
  <2> DEFINE row == [id |-> read.rows[n].id, start |-> w[1], count |-> w[2]]
             rows == [read.rows EXCEPT ![n] = row]
             left == w[2] % keysNullFlag
  <2>2. w[1] \in Nat /\ w[2] \in Nat /\ left \in Nat
    <3>1. w[1] \in Words /\ w[2] \in Words
      OBVIOUS
    <3>2. w[1] \in Nat /\ w[2] \in Nat
      BY <3>1, WordsAreNumbers, Zenon
    <3>3. keysNullFlag \in Nat /\ keysNullFlag > 0
      BY DEF LayoutConstants
    <3> QED BY <3>2, <3>3, DivFacts
  <2>3. n > 0 /\ read.rows[n] \in RowsWithID /\ Within(read.rows[n].id, Len(read.blob))
    BY <1>0 DEF RecordsInv, PartInv
  <2>4. row \in RowsWithKeys
    BY <2>2, <2>3 DEF RowsWithID, RowsWithKeys
  <2>5. /\ rows \in Seq(RowsWithID \cup RowsWithKeys \cup WholeRows)
        /\ Len(rows) = n /\ rows[n] = row
        /\ \A i \in 1 .. n - 1 : rows[i] = read.rows[i]
    BY <1>0, <2>3, <2>4, RowReplaced DEF RecordsInv
  <2>6. /\ read'.rows = rows /\ read'.left = left /\ read'.cur = read.cur
        /\ read'.blob = read.blob /\ read'.keyRows = read.keyRows /\ read'.kIdx = read.kIdx
        /\ read'.n = read.n
        /\ step' = IF left = 0 THEN "payload" ELSE "key"
    BY <1>0, <2>1 DEF RecordsInv, RecordsType, Go
  <2>7. RecordsType'
    <3>1. read' = [read EXCEPT !.rows = rows, !.left = left]
      BY <1>0, <2>1 DEF RecordsInv, RecordsType, Go
    <3> HIDE DEF rows, left
    <3> QED BY <1>0, <2>2, <2>5, <3>1 DEF RecordsInv, RecordsType
  <2> HIDE DEF rows, left
  <2>8. RowsInv'
    BY <1>0, <2>5, <2>6 DEF RecordsInv, RowsInv, RowsDone
  <2>9. w[1] + (w[2] % keysNullFlag) = Len(read.keyRows) + left
    BY <1>0, <2>1 DEF KeyRangeFits, RecordsInv, left
  <2>10. PartInv'
    BY <2>2, <2>3, <2>4, <2>5, <2>6, <2>9 DEF PartInv
  <2>11. n <= read.n /\ Len(read.keyRows) = read.kIdx
    BY <1>0 DEF RecordsInv
  <2>12. RecordsInv'
    BY <2>5, <2>6, <2>7, <2>8, <2>10, <2>11 DEF RecordsInv
  <2> QED BY <1>0, <2>1, <2>12 DEF LayoutInv, Go
<1> QED BY <1>1, <1>2

\* A row in bounds stays so when there are more keys.
LEMMA MoreKeys ==
  ASSUME NEW r, NEW size \in Nat, NEW m \in Nat, NEW n \in Nat, m <= n,
         RowInBounds(r, size, m), LayoutConstants
  PROVE  RowInBounds(r, size, n)
<1>1. r.start \in Nat /\ r.count \in Nat
  BY DEF RowInBounds, WholeRows
<1>2. keysNullFlag \in Nat /\ keysNullFlag > 0
  BY DEF LayoutConstants
<1>3. r.count % keysNullFlag \in Nat
  BY <1>1, <1>2, DivFacts
<1> QED BY <1>1, <1>3 DEF RowInBounds

LEMMA TakeKeyKeeps ==
  ASSUME LayoutConstants, LayoutInv, TakeKey
  PROVE  LayoutInv'
<1>0. RecordsInv /\ section = "records" /\ step = "key" /\ want = Foreign
  BY DEF LayoutInv, TakeKey, Parsing
<1>1. CASE Refuse
  BY <1>1, FileRefused
<1>2. CASE ~Refuse
  <2>1. PICK f \in [off : Words, length : Words] :
          /\ take(f, "key")
          /\ Go(IF read.left = 1 THEN "payload" ELSE "key",
                [read EXCEPT !.cur = @ + f.length, !.kIdx = @ + 1, !.left = @ - 1,
                             !.keyRows = Append(@, f)])
    BY <1>0, <1>2 DEF TakeKey, Checked, Field
  <2> DEFINE keys == read.keyRows
             m == Len(keys)
             n == Len(read.rows)
             r == read.rows[n]
  <2>2. f \in Fields
    BY WordsAreNumbers
  <2>3. /\ Within(f, Len(read.blob)) /\ read.cur + f.length <= Len(read.blob)
        /\ read.cur + f.length \in Nat
    BY <1>0, <2>1, <2>2, TakenIsWithin DEF RecordsInv
  <2>4. /\ read.kIdx \in Nat /\ read.left \in Nat /\ read.left > 0 /\ n \in Nat /\ n > 0
        /\ keys \in Seq(Fields) /\ m \in Nat /\ m = read.kIdx /\ n <= read.n /\ Len(read.blob) \in Nat
    BY <1>0, RecordsParts DEF RecordsInv, PartInv
  <2>5. /\ Append(keys, f) \in Seq(Fields) /\ Len(Append(keys, f)) = m + 1
        /\ Append(keys, f)[m + 1] = f /\ \A i \in 1 .. m : Append(keys, f)[i] = keys[i]
        /\ DOMAIN Append(keys, f) = 1 .. m + 1
    BY <2>2, <2>4
  <2>6. /\ read'.rows = read.rows /\ read'.cur = read.cur + f.length
        /\ read'.blob = read.blob /\ read'.keyRows = Append(keys, f) /\ read'.kIdx = read.kIdx + 1
        /\ read'.n = read.n /\ read'.left = read.left - 1
        /\ step' = IF read.left = 1 THEN "payload" ELSE "key"
    BY <1>0, <2>1 DEF RecordsInv, RecordsType, Go
  <2>7. RecordsType'
    <3>1. PICK c, k, l, ks : /\ c = read.cur + f.length /\ k = read.kIdx + 1 /\ l = read.left - 1
                             /\ ks = Append(keys, f)
      OBVIOUS
    <3>2. c \in Nat /\ k \in Nat /\ l \in Nat /\ ks \in Seq(Fields)
      BY <2>3, <2>4, <2>5, <3>1
    <3>3. read' = [read EXCEPT !.cur = c, !.kIdx = k, !.left = l, !.keyRows = ks]
      BY <2>1, <3>1 DEF Go
    <3> QED BY <1>0, <3>2, <3>3 DEF RecordsInv, RecordsType
  <2>8. RowsInv'
    <3>1. \A i \in 1 .. n - 1 : RowInBounds(read.rows[i], Len(read.blob), m)
      BY <1>0 DEF RecordsInv, RowsInv, RowsDone
    <3>2. \A i \in 1 .. n - 1 : RowInBounds(read.rows[i], Len(read.blob), m + 1)
      <4> SUFFICES ASSUME NEW i \in 1 .. n - 1
                   PROVE  RowInBounds(read.rows[i], Len(read.blob), m + 1)
        OBVIOUS
      <4>1. m + 1 \in Nat /\ m <= m + 1
        BY <2>4
      <4> QED BY <2>4, <3>1, <4>1, MoreKeys
    <3>3. \A j \in 1 .. m : Within(keys[j], Len(read.blob))
      BY <1>0, <2>4 DEF RecordsInv, RowsInv
    <3>4. \A j \in 1 .. m + 1 : Within(Append(keys, f)[j], Len(read.blob))
      BY <2>3, <2>4, <2>5, <3>3
    <3>5. step' \in {"keys", "key", "payload"}
      BY <2>6
    <3> QED BY <2>3, <2>5, <2>6, <3>2, <3>4, <3>5 DEF RowsInv, RowsDone
  <2>9. /\ r \in RowsWithKeys /\ Within(r.id, Len(read.blob))
        /\ r.start + (r.count % keysNullFlag) = m + read.left
    BY <1>0 DEF RecordsInv, PartInv
  <2>10. PartInv'
    <3>1. m + read.left = (m + 1) + (read.left - 1)
      BY <2>4
    <3>2. /\ step' \in {"key", "payload"} /\ step' = "key" => read.left - 1 > 0
          /\ step' = "payload" => read.left - 1 = 0
      BY <2>4, <2>6
    <3> QED BY <2>4, <2>5, <2>6, <2>9, <3>1, <3>2 DEF PartInv
  <2>11. RecordsInv'
    BY <2>4, <2>5, <2>6, <2>7, <2>8, <2>10 DEF RecordsInv
  <2> QED BY <1>0, <2>1, <2>11 DEF LayoutInv, Go
<1> QED BY <1>1, <1>2

LEMMA TakePayloadKeeps ==
  ASSUME LayoutConstants, LayoutInv, TakePayload
  PROVE  LayoutInv'
<1>0. RecordsInv /\ section = "records" /\ step = "payload" /\ want = Foreign
  BY DEF LayoutInv, TakePayload, Parsing
<1>1. CASE Refuse
  BY <1>1, FileRefused
<1>2. CASE ~Refuse
  <2> DEFINE n == Len(read.rows)
             r == read.rows[n]
  <2>1. PICK f \in [off : Words, length : Words] :
          /\ take(f, "payload")
          /\ Go(NextRecord(read),
                [read EXCEPT !.cur = @ + f.length,
                             !.rows[n] = [id |-> r.id, start |-> r.start, count |-> r.count,
                                          payload |-> f]])
    BY <1>0, <1>2 DEF TakePayload, Checked, Field
  <2> DEFINE row == [id |-> r.id, start |-> r.start, count |-> r.count, payload |-> f]
             rows == [read.rows EXCEPT ![n] = row]
  <2>2. f \in Fields
    BY WordsAreNumbers
  <2>3. /\ Within(f, Len(read.blob)) /\ read.cur + f.length <= Len(read.blob)
        /\ read.cur + f.length \in Nat
    BY <1>0, <2>1, <2>2, TakenIsWithin DEF RecordsInv
  <2>4. /\ n > 0 /\ r \in RowsWithKeys /\ Within(r.id, Len(read.blob))
        /\ r.start + (r.count % keysNullFlag) = Len(read.keyRows) + read.left /\ read.left = 0
    BY <1>0 DEF RecordsInv, PartInv
  <2>5. /\ n \in Nat /\ read.n \in Nat /\ n <= read.n /\ Len(read.keyRows) \in Nat
        /\ Len(read.keyRows) = read.kIdx
    BY <1>0, RecordsParts DEF RecordsInv
  <2>6. row \in WholeRows
    BY <2>2, <2>4 DEF RowsWithKeys, WholeRows
  <2>7. RowInBounds(row, Len(read.blob), Len(read.keyRows))
    BY <2>3, <2>4, <2>5, <2>6 DEF RowInBounds
  <2>8. /\ rows \in Seq(RowsWithID \cup RowsWithKeys \cup WholeRows)
        /\ Len(rows) = n /\ rows[n] = row
        /\ \A i \in 1 .. n - 1 : rows[i] = read.rows[i]
    BY <1>0, <2>4, <2>6, RowReplaced DEF RecordsInv
  <2>9. read' = [read EXCEPT !.cur = read.cur + f.length, !.rows = rows]
    BY <1>0, <2>1 DEF RecordsInv, RecordsType, Go
  <2> HIDE DEF rows, row
  <2>10. /\ read'.rows = rows /\ read'.left = read.left /\ read'.cur = read.cur + f.length
         /\ read'.blob = read.blob /\ read'.keyRows = read.keyRows /\ read'.kIdx = read.kIdx
         /\ read'.n = read.n
    BY <1>0, <2>9 DEF RecordsInv, RecordsType
  <2>11. RecordsType'
    BY <1>0, <2>3, <2>8, <2>9 DEF RecordsInv, RecordsType
  <2>12. /\ step' \in {"id", "records"}
         /\ step' = "id" => n < read.n
         /\ step' = "records" => n = read.n
    <3>1. step' = NextRecord(read)
      BY <2>1 DEF Go
    <3> QED BY <2>5, <3>1 DEF NextRecord
  <2>13. RowsInv'
    <3>1. \A i \in 1 .. n - 1 : RowInBounds(read.rows[i], Len(read.blob), Len(read.keyRows))
      BY <1>0 DEF RecordsInv, RowsInv, RowsDone
    <3>2. \A i \in 1 .. n : RowInBounds(rows[i], Len(read.blob), Len(read.keyRows))
      BY <2>5, <2>7, <2>8, <3>1
    <3>3. RowsDone' = n
      BY <2>8, <2>10, <2>12 DEF RowsDone
    <3> QED BY <1>0, <2>3, <2>10, <3>2, <3>3 DEF RecordsInv, RowsInv
  <2>14. PartInv'
    BY <2>12 DEF PartInv
  <2>15. RecordsInv'
    BY <2>5, <2>8, <2>10, <2>11, <2>12, <2>13, <2>14 DEF RecordsInv
  <2> QED BY <1>0, <2>1, <2>15 DEF LayoutInv, Go
<1> QED BY <1>1, <1>2

\* Once all records are read, only the order of the ids is added.
LEMMA OrderKeeps ==
  ASSUME LayoutInv, section = "records", step \in {"records", "idcount", "ids"},
         step' \in {"idcount", "ids", "accepted"}, UNCHANGED <<section, want>>,
         NEW ids \in Seq(Nat), read' = [read EXCEPT !.ids = ids]
  PROVE  LayoutInv'
<1>0. RecordsInv
  BY DEF LayoutInv
<1>1. /\ read'.rows = read.rows /\ read'.left = read.left /\ read'.cur = read.cur
      /\ read'.blob = read.blob /\ read'.keyRows = read.keyRows /\ read'.kIdx = read.kIdx
      /\ read'.n = read.n
  BY <1>0 DEF RecordsInv, RecordsType
<1>2. RecordsType'
  BY <1>0 DEF RecordsInv, RecordsType
<1>3. RowsInv'
  BY <1>0, <1>1 DEF RecordsInv, RowsInv, RowsDone
<1>4. PartInv'
  BY DEF PartInv
<1>5. RecordsInv'
  BY <1>0, <1>1, <1>2, <1>3, <1>4 DEF RecordsInv
<1> QED BY <1>5 DEF LayoutInv

LEMMA OrderStepsKeep ==
  ASSUME LayoutConstants, LayoutInv, EndRecords \/ ReadIDCount \/ TakeOrdinal \/ EndIDs
  PROVE  LayoutInv'
<1>0. RecordsInv /\ section = "records" /\ step \in {"records", "idcount", "ids"} /\ want = Foreign
  BY DEF LayoutInv, EndRecords, ReadIDCount, TakeOrdinal, EndIDs, Parsing
<1>1. CASE Refuse
  BY <1>1, FileRefused
<1>2. CASE ~Refuse
  <2>0. read.ids \in Seq(Nat) /\ read = [read EXCEPT !.ids = read.ids]
    BY <1>0 DEF RecordsInv, RecordsType
  <2>1. CASE EndRecords \/ ReadIDCount \/ EndIDs
    <3>1. \E s \in {"idcount", "ids", "accepted"} : Go(s, read)
      BY <1>2, <2>1 DEF EndRecords, ReadIDCount, EndIDs, Checked
    <3> QED BY <1>0, <2>0, <3>1, OrderKeeps DEF Go
  <2>2. CASE TakeOrdinal
    <3>1. PICK o \in Words : Go(step, [read EXCEPT !.ids = Append(@, o)])
      BY <1>0, <1>2, <2>2 DEF TakeOrdinal, Checked, Word
    <3>2. Append(read.ids, o) \in Seq(Nat)
      BY <2>0, WordsAreNumbers
    <3>3. step = "ids"
      BY <2>2 DEF TakeOrdinal, Parsing
    <3>4. read' = [read EXCEPT !.ids = Append(read.ids, o)]
      BY <3>1 DEF Go
    <3> QED BY <1>0, <3>1, <3>2, <3>3, <3>4, OrderKeeps DEF Go
  <2> QED BY <2>1, <2>2
<1> QED BY <1>1, <1>2

-----------------------------------------------------------------------------
(* The steps of the exact section.                                         *)

LEMMA ExactHeadKeeps ==
  ASSUME LayoutConstants, LayoutInv, ReadExactKeyCount \/ ReadPostingCount \/ ReadArena
  PROVE  LayoutInv'
<1>0. ExactInv /\ section = "exact" /\ step \in {"count", "postings", "arena"} /\ want = Foreign
  BY DEF LayoutInv, ReadExactKeyCount, ReadPostingCount, ReadArena, Parsing
<1>1. CASE Refuse
  BY <1>1, FileRefused
<1>2. CASE ~Refuse
  <2>1. CASE ReadExactKeyCount
    <3>1. PICK k \in Words : Go("postings", [read EXCEPT !.k = k])
      BY <1>0, <1>2, <2>1 DEF ReadExactKeyCount, Checked, Word
    <3>2. k \in Nat
      BY WordsAreNumbers
    <3>3. ExactInv'
      BY <1>0, <3>1, <3>2 DEF ExactInv, ExactType, Go
    <3> QED BY <1>0, <3>1, <3>3 DEF LayoutInv, Go
  <2>2. CASE ReadPostingCount
    <3>1. PICK p \in Words : Go("arena", [read EXCEPT !.p = p])
      BY <1>0, <1>2, <2>2 DEF ReadPostingCount, Checked, Word
    <3>2. p \in Nat
      BY WordsAreNumbers
    <3>3. ExactInv'
      BY <1>0, <3>1, <3>2 DEF ExactInv, ExactType, Go
    <3> QED BY <1>0, <3>1, <3>3 DEF LayoutInv, Go
  <2>3. CASE ReadArena
    <3>1. PICK length \in Words :
            \E arena \in [1 .. length -> Chars], postings \in [1 .. read.p -> 0 .. read.n] :
              Go("keys", [read EXCEPT !.arena = arena, !.postings = postings])
      BY <1>0, <1>2, <2>3 DEF ReadArena, Checked, Word, Bytes
    <3>2. PICK arena \in [1 .. length -> Chars], postings \in [1 .. read.p -> 0 .. read.n] :
              Go("keys", [read EXCEPT !.arena = arena, !.postings = postings])
      BY <3>1
    <3>3. length \in Nat /\ read.p \in Nat /\ read.n \in Nat
      BY <1>0, WordsAreNumbers DEF ExactInv, ExactType
    <3>4. arena \in Seq(Chars) /\ postings \in Seq(Nat) /\ Len(arena) \in Nat
      BY <3>3
    <3>5. /\ read' = [read EXCEPT !.arena = arena, !.postings = postings] /\ step' = "keys"
          /\ read.keys = <<>> /\ read.aOff = 0 /\ read.pOff = 0
      BY <1>0, <3>2 DEF ExactInv, ExactType, Go
    <3>6. /\ ExactType' /\ read'.keys = <<>> /\ read'.aOff = 0 /\ read'.pOff = 0 /\ read'.arena = arena
          /\ read'.p = read.p
      BY <1>0, <3>4, <3>5 DEF ExactInv, ExactType
    <3>7. ExactInv'
      BY <3>3, <3>4, <3>5, <3>6 DEF ExactInv
    <3> QED BY <1>0, <3>2, <3>7 DEF LayoutInv, Go
  <2> QED BY <2>1, <2>2, <2>3
<1> QED BY <1>1, <1>2

LEMMA TakeExactKeyKeeps ==
  ASSUME LayoutConstants, LayoutInv, TakeExactKey
  PROVE  LayoutInv'
<1>0. ExactInv /\ section = "exact" /\ step = "keys" /\ want = Foreign
  BY DEF LayoutInv, TakeExactKey, Parsing
<1>1. CASE Refuse
  BY <1>1, FileRefused
<1>2. CASE ~Refuse
  <2> DEFINE key(w) == [key |-> At(read.aOff, w[1]), run |-> At(read.pOff, w[2])]
             keys == read.keys
             n == Len(keys)
  <2>1. PICK w \in Words \X Words :
          /\ KeyFits(w[1], w[2])
          /\ Go(step, [read EXCEPT !.aOff = @ + w[1], !.pOff = @ + w[2],
                                   !.keys = Append(@, key(w))])
    BY <1>0, <1>2 DEF TakeExactKey, Checked, Word
  <2>2. w[1] \in Nat /\ w[2] \in Nat
    <3>1. w[1] \in Words /\ w[2] \in Words
      OBVIOUS
    <3> QED BY <3>1, WordsAreNumbers, Zenon
  <2>3. /\ read.aOff \in Nat /\ read.pOff \in Nat /\ read.p \in Nat /\ read.arena \in Seq(Chars)
        /\ Len(read.arena) \in Nat /\ keys \in Seq([key : Fields, run : Fields]) /\ n \in Nat
    BY <1>0 DEF ExactInv, ExactType
  <2>4. /\ read.aOff + w[1] \in Nat /\ read.aOff + w[1] <= Len(read.arena)
        /\ read.pOff + w[2] \in Nat /\ read.pOff + w[2] <= read.p
    BY <2>1, <2>2, <2>3 DEF KeyFits
  <2>5. /\ key(w) \in [key : Fields, run : Fields]
        /\ Within(key(w).key, Len(read.arena)) /\ Within(key(w).run, read.p)
    BY <2>2, <2>3, <2>4 DEF At, Fields, Within
  <2> HIDE DEF key
  <2>6. PICK a, p, ks : a = read.aOff + w[1] /\ p = read.pOff + w[2] /\ ks = Append(keys, key(w))
    OBVIOUS
  <2>7. /\ ks \in Seq([key : Fields, run : Fields]) /\ DOMAIN ks = 1 .. n + 1
        /\ ks[n + 1] = key(w) /\ \A i \in 1 .. n : ks[i] = keys[i]
    BY <2>3, <2>5, <2>6
  <2>8. read' = [read EXCEPT !.aOff = a, !.pOff = p, !.keys = ks] /\ step' = "keys"
    BY <1>0, <2>1, <2>6 DEF Go
  <2>9. \A i \in 1 .. n + 1 : Within(ks[i].key, Len(read.arena)) /\ Within(ks[i].run, read.p)
    <3>1. \A i \in 1 .. n : Within(keys[i].key, Len(read.arena)) /\ Within(keys[i].run, read.p)
      BY <1>0, <2>3 DEF ExactInv, ExactType
    <3> QED BY <2>3, <2>5, <2>7, <3>1
  <2>10. a \in Nat /\ a <= Len(read.arena) /\ p \in Nat /\ p <= read.p
    BY <2>4, <2>6
  <2>11. ExactInv'
    BY <1>0, <2>7, <2>8, <2>9, <2>10 DEF ExactInv, ExactType
  <2> QED BY <1>0, <2>1, <2>11 DEF LayoutInv, Go
<1> QED BY <1>1, <1>2

LEMMA EndExactKeeps ==
  ASSUME LayoutInv, EndExact
  PROVE  LayoutInv'
<1>0. ExactInv /\ section = "exact" /\ want = Foreign
  BY DEF LayoutInv, EndExact, Parsing
<1>1. CASE Refuse
  BY <1>1, FileRefused
<1>2. CASE Go("accepted", read)
  BY <1>0, <1>2 DEF LayoutInv, Go, ExactInv, ExactType
<1> QED BY <1>1, <1>2 DEF EndExact

-----------------------------------------------------------------------------
(* The steps of the ngram section.                                         *)

LEMMA NgramParts ==
  ASSUME NgramInv
  PROVE  /\ read.len \in Nat /\ read.n \in Nat /\ read.g \in Nat /\ read.grams \in Seq(Chars)
         /\ Len(read.grams) \in Nat /\ read.bmLen \in Nat /\ read.gcur \in Nat /\ read.bcur \in Nat
         /\ read.rows \in Seq(GramRows \cup BitmapRows) /\ Len(read.rows) \in Nat
  BY DEF NgramInv, NgramType

LEMMA NgramHeadKeeps ==
  ASSUME LayoutConstants, LayoutInv, ReadGramCount \/ ReadNumOrds \/ ReadGramBlob
  PROVE  LayoutInv'
<1>0. NgramInv /\ section = "ngram" /\ step \in {"count", "ords", "blob"} /\ want = Foreign
  BY DEF LayoutInv, ReadGramCount, ReadNumOrds, ReadGramBlob, Parsing
<1>1. CASE Refuse
  BY <1>1, FileRefused
<1>2. CASE ~Refuse
  <2>1. CASE ReadGramCount
    <3>1. PICK g \in Words : Go("ords", [read EXCEPT !.g = g])
      BY <1>0, <1>2, <2>1 DEF ReadGramCount, Checked, Word
    <3>2. g \in Nat
      BY WordsAreNumbers
    <3>3. NgramInv'
      BY <1>0, <3>1, <3>2 DEF NgramInv, NgramType, Go
    <3> QED BY <1>0, <3>1, <3>3 DEF LayoutInv, Go
  <2>2. CASE ReadNumOrds
    <3>1. PICK m \in Words : Go("blob", [read EXCEPT !.numOrds = m])
      BY <1>0, <1>2, <2>2 DEF ReadNumOrds, Checked, Word
    <3>2. m \in Nat
      BY WordsAreNumbers
    <3>3. NgramInv'
      BY <1>0, <3>1, <3>2 DEF NgramInv, NgramType, Go
    <3> QED BY <1>0, <3>1, <3>3 DEF LayoutInv, Go
  <2>3. CASE ReadGramBlob
    <3>1. PICK length \in Words : \E grams \in [1 .. length -> Chars] :
            /\ bmStart(read, length) <= read.len
            /\ Go("gram", [read EXCEPT !.grams = grams, !.bmLen = read.len - bmStart(read, length)])
      BY <1>0, <1>2, <2>3 DEF ReadGramBlob, Checked, Word, Bytes
    <3>2. PICK grams \in [1 .. length -> Chars] :
            /\ bmStart(read, length) <= read.len
            /\ Go("gram", [read EXCEPT !.grams = grams, !.bmLen = read.len - bmStart(read, length)])
      BY <3>1
    <3>3. length \in Nat /\ gramAt(read) + length \in Nat /\ read.len \in Nat
      <4>1. length \in Nat
        BY WordsAreNumbers
      <4> QED BY <1>0, <4>1, NgramParts DEF gramAt
    <3>4. bmStart(read, length) \in Nat
      BY <3>3, AlignUp DEF bmStart
    <3>5. PICK m \in Nat : m = read.len - bmStart(read, length)
      BY <3>2, <3>3, <3>4
    <3>6. grams \in Seq(Chars) /\ Len(grams) \in Nat
      BY <3>3
    <3>7. /\ read' = [read EXCEPT !.grams = grams, !.bmLen = m] /\ step' = "gram"
          /\ read.rows = <<>> /\ read.gcur = 0
      BY <1>0, <3>2, <3>5 DEF NgramInv, NgramType, Go
    <3>8. /\ NgramType' /\ read'.rows = <<>> /\ read'.gcur = 0 /\ read'.grams = grams
      BY <1>0, <3>6, <3>7 DEF NgramInv, NgramType
    <3>9. NgramInv'
      BY <3>6, <3>7, <3>8 DEF NgramInv
    <3> QED BY <1>0, <3>2, <3>9 DEF LayoutInv, Go
  <2> QED BY <2>1, <2>2, <2>3
<1> QED BY <1>1, <1>2

\* A row in bounds stays so while grams, bitmaps and their place do not change.
LEMMA NgramRowStays ==
  ASSUME NEW r, NgramRow(r), read'.grams = read.grams, read'.bmLen = read.bmLen, read'.g = read.g
  PROVE  NgramRow(r)'
  BY DEF NgramRow, bmStart, gramAt

LEMMA TakeGramKeeps ==
  ASSUME LayoutConstants, LayoutInv, TakeGram
  PROVE  LayoutInv'
<1>0. NgramInv /\ section = "ngram" /\ step = "gram" /\ want = Foreign
  BY DEF LayoutInv, TakeGram, Parsing
<1>1. CASE Refuse
  BY <1>1, FileRefused
<1>2. CASE ~Refuse
  <2>1. PICK f \in [off : Words, length : Words] :
          /\ GramFits(f)
          /\ Go("bitmap", [read EXCEPT !.gcur = @ + f.length, !.rows = Append(@, [gram |-> f])])
    BY <1>0, <1>2 DEF TakeGram, Checked, Field
  <2> DEFINE n == Len(read.rows)
  <2>2. f \in Fields /\ f.off \in Nat /\ f.length \in Nat
    BY WordsAreNumbers, FieldParts
  <2>3. [gram |-> f] \in GramRows /\ n \in Nat /\ read.rows \in Seq(GramRows \cup BitmapRows)
    BY <1>0, <2>2, NgramParts DEF GramRows
  <2>4. PICK c, rows : c = read.gcur + f.length /\ rows = Append(read.rows, [gram |-> f])
    OBVIOUS
  <2>5. c \in Nat /\ c <= Len(read.grams) /\ Within(f, Len(read.grams))
    BY <1>0, <2>1, <2>2, <2>4, NgramParts DEF GramFits, Within
  <2>6. /\ rows \in Seq(GramRows \cup BitmapRows) /\ Len(rows) = n + 1
        /\ rows[n + 1] = [gram |-> f] /\ \A i \in 1 .. n : rows[i] = read.rows[i]
    BY <2>3, <2>4
  <2>7. read' = [read EXCEPT !.gcur = c, !.rows = rows] /\ step' = "bitmap"
    BY <2>1, <2>4 DEF Go
  <2>8. /\ read'.grams = read.grams /\ read'.bmLen = read.bmLen /\ read'.g = read.g
        /\ read'.rows = rows /\ read'.gcur = c
    BY <1>0, <2>7 DEF NgramInv, NgramType
  <2>9. \A i \in 1 .. n : NgramRow(rows[i])'
    <3> SUFFICES ASSUME NEW i \in 1 .. n PROVE NgramRow(rows[i])'
      OBVIOUS
    <3>1. NgramRow(rows[i])
      BY <1>0, <2>6 DEF NgramInv, NgramType
    <3> QED BY <2>8, <3>1, NgramRowStays
  <2>10. NgramType'
    BY <1>0, <2>5, <2>6, <2>7 DEF NgramInv, NgramType
  <2>11. \A i \in 1 .. n : NgramRow(read.rows[i])'
    BY <2>6, <2>8, <2>9
  <2>12. NgramInv'
    BY <2>3, <2>5, <2>6, <2>7, <2>8, <2>10, <2>11 DEF NgramInv
  <2> QED BY <1>0, <2>1, <2>12 DEF LayoutInv, Go
<1> QED BY <1>1, <1>2

LEMMA TakeBitmapKeeps ==
  ASSUME LayoutConstants, LayoutInv, TakeBitmap
  PROVE  LayoutInv'
<1>0. NgramInv /\ section = "ngram" /\ step = "bitmap" /\ want = Foreign
  BY DEF LayoutInv, TakeBitmap, Parsing
<1>1. CASE Refuse
  BY <1>1, FileRefused
<1>2. CASE ~Refuse
  <2> DEFINE n == Len(read.rows)
             r == read.rows[n]
  <2>1. PICK w \in [off : Words, length : Words] \X SUBSET (0 .. read.n) :
          /\ BitmapFits(w[1])
          /\ Go("gram", [read EXCEPT !.bcur = w[1].off + w[1].length,
                                     !.rows[n] = [gram |-> r.gram, bitmap |-> w[1], set |-> w[2]]])
    BY <1>0, <1>2 DEF TakeBitmap, Checked, Field
  <2>2. PICK f, set : f = w[1] /\ set = w[2]
    OBVIOUS
  <2>3. f \in [off : Words, length : Words] /\ set \in SUBSET (0 .. read.n)
    BY <2>2
  <2>4. f \in Fields /\ f.off \in Nat /\ f.length \in Nat /\ set \in SUBSET Nat
    BY <1>0, <2>3, WordsAreNumbers, FieldParts, NgramParts
  <2>5. n \in Nat /\ n > 0 /\ r \in GramRows /\ Within(r.gram, Len(read.grams))
    BY <1>0, NgramParts DEF NgramInv
  <2>6. PICK c, row : /\ c = f.off + f.length
                      /\ row = [gram |-> r.gram, bitmap |-> f, set |-> set]
    OBVIOUS
  <2>7. c \in Nat /\ row \in BitmapRows /\ row.gram = r.gram /\ row.bitmap = f
    BY <2>4, <2>5, <2>6 DEF GramRows, BitmapRows
  <2>8. PICK rows : rows = [read.rows EXCEPT ![n] = row]
    OBVIOUS
  <2>9. /\ rows \in Seq(GramRows \cup BitmapRows) /\ Len(rows) = n /\ rows[n] = row
        /\ \A i \in 1 .. n - 1 : rows[i] = read.rows[i]
    BY <1>0, <2>5, <2>7, <2>8, NgramParts
  <2>10. read' = [read EXCEPT !.bcur = c, !.rows = rows] /\ step' = "gram"
    BY <1>0, <2>1, <2>2, <2>6, <2>8 DEF Go, NgramInv, NgramType
  <2>11. /\ read'.grams = read.grams /\ read'.bmLen = read.bmLen /\ read'.g = read.g
         /\ read'.rows = rows /\ read'.gcur = read.gcur
    BY <1>0, <2>10 DEF NgramInv, NgramType
  <2>12. NgramRow(row)
    <3>1. align32(read.bcur) \in Nat /\ f.off = align32(read.bcur)
          /\ f.length <= read.bmLen - align32(read.bcur)
      BY <1>0, <2>1, <2>2, NgramParts, AlignUp DEF BitmapFits
    <3>2. Within(f, read.bmLen)
      BY <1>0, <2>4, <3>1, NgramParts DEF Within
    <3>3. gramAt(read) + Len(read.grams) \in Nat
      BY <1>0, NgramParts DEF gramAt
    <3>4. (align32(gramAt(read) + Len(read.grams)) + align32(read.bcur)) % Align = 0
      BY <1>0, <3>3, NgramParts, AlignedSum
    <3>5. (bmStart(read, Len(read.grams)) + f.off) % Align = 0
      BY <3>1, <3>4 DEF bmStart
    <3> QED BY <2>5, <2>7, <3>2, <3>5 DEF NgramRow
  <2>13. \A i \in 1 .. n : NgramRow(rows[i])'
    <3> SUFFICES ASSUME NEW i \in 1 .. n PROVE NgramRow(rows[i])'
      OBVIOUS
    <3>1. CASE i = n
      BY <2>9, <2>11, <2>12, <3>1, NgramRowStays
    <3>2. CASE i # n
      <4>1. NgramRow(rows[i])
        BY <1>0, <2>5, <2>9, <3>2 DEF NgramInv
      <4> QED BY <2>11, <4>1, NgramRowStays
    <3> QED BY <3>1, <3>2
  <2>14. NgramType'
    BY <1>0, <2>7, <2>9, <2>10 DEF NgramInv, NgramType
  <2>15. \A i \in 1 .. n : NgramRow(read.rows[i])'
    BY <2>11, <2>13
  <2>16. NgramInv'
    BY <1>0, <2>9, <2>10, <2>11, <2>14, <2>15 DEF NgramInv
  <2> QED BY <1>0, <2>1, <2>16 DEF LayoutInv, Go
<1> QED BY <1>1, <1>2

LEMMA EndNgramKeeps ==
  ASSUME LayoutInv, EndNgram
  PROVE  LayoutInv'
<1>0. NgramInv /\ section = "ngram" /\ step = "gram" /\ want = Foreign
  BY DEF LayoutInv, EndNgram, Parsing
<1>1. CASE Refuse
  BY <1>1, FileRefused
<1>2. CASE Go("accepted", read)
  <2>1. NgramInv'
    BY <1>0, <1>2 DEF Go, NgramInv, NgramType, NgramRow, bmStart, gramAt
  <2> QED BY <1>0, <1>2, <2>1 DEF LayoutInv, Go
<1> QED BY <1>1, <1>2 DEF EndNgram

-----------------------------------------------------------------------------
LEMMA LayoutStep ==
  ASSUME LayoutConstants, LayoutInv, [LayoutNext]_layoutVars
  PROVE  LayoutInv'
<1>1. CASE UNCHANGED layoutVars
  BY <1>1 DEF layoutVars, LayoutInv, TableInv, RecordsInv, RecordsType, RowsInv, RowsDone, PartInv,
              ExactInv, ExactType, NgramInv, NgramType, NgramRow, bmStart, gramAt
<1>2. CASE LayoutNext
  BY <1>2, SectionKeeps, EndTableKeeps, RecordCountKeeps, KeyCountKeeps, TakeIDKeeps,
     TakeKeyRangeKeeps, TakeKeyKeeps, TakePayloadKeeps, OrderStepsKeep, ExactHeadKeeps,
     TakeExactKeyKeeps, EndExactKeeps, NgramHeadKeeps, TakeGramKeeps, TakeBitmapKeeps,
     EndNgramKeeps DEF LayoutNext
<1> QED BY <1>1, <1>2

LEMMA LayoutInBounds ==
  ASSUME LayoutConstants, LayoutInv
  PROVE  ViewStaysInBounds
<1> SUFFICES ASSUME step # "malformed" PROVE ViewStaysInBounds
  BY DEF ViewStaysInBounds
<1>1. CASE section = "table"
  <2>0. TableInv
    BY <1>1 DEF LayoutInv
  <2>1. ASSUME NEW i \in DOMAIN read.secs, NEW j \in DOMAIN read.secs, i # j
        PROVE  Apart(read.secs[i], read.secs[j])
    <3>1. i < j \/ j < i
      BY <2>0, <2>1 DEF TableInv
    <3> QED BY <2>0, <3>1 DEF TableInv, Apart
  <2> QED BY <1>1, <2>0, <2>1 DEF TableInv, ViewStaysInBounds
<1>2. CASE section = "records"
  <2>0. RecordsInv
    BY <1>2 DEF LayoutInv
  <2>1. ASSUME step \in {"records", "idcount", "ids", "accepted"}, NEW i \in 1 .. read.n
        PROVE  RowInBounds(read.rows[i], Len(read.blob), Len(read.keyRows))
    BY <2>0, <2>1 DEF RecordsInv, RowsInv, RowsDone
  <2>2. \A j \in DOMAIN read.keyRows : Within(read.keyRows[j], Len(read.blob))
    BY <2>0 DEF RecordsInv, RowsInv
  <2> QED BY <1>2, <2>1, <2>2 DEF RowInBounds, KeyCount, ViewStaysInBounds
<1>3. CASE section = "exact"
  BY <1>3 DEF LayoutInv, ExactInv, ViewStaysInBounds
<1>4. CASE section = "ngram"
  <2>0. NgramInv
    BY <1>4 DEF LayoutInv
  <2>1. ASSUME step # "bitmap", NEW i \in DOMAIN read.rows
        PROVE  NgramRow(read.rows[i])
    BY <2>0, <2>1, NgramParts DEF NgramInv
  <2> QED BY <1>4, <2>1 DEF NgramRow, ViewStaysInBounds
<1> QED BY <1>1, <1>2, <1>3, <1>4 DEF LayoutInv

\* NewView on a file of any words at all: what its parsers accept stays in
\* bounds, in true arithmetic although the words wrap at their width, for
\* every width, alignment and length of file.
THEOREM BoundsTheorem == InitForeign /\ [][LayoutNext]_layoutVars => []ViewStaysInBounds
<1>1. InitForeign => LayoutInv
  BY LayoutAssumption, LayoutStart
<1>2. LayoutInv /\ [LayoutNext]_layoutVars => LayoutInv'
  BY LayoutAssumption, LayoutStep
<1>3. LayoutInv => ViewStaysInBounds
  BY LayoutAssumption, LayoutInBounds
<1> QED BY <1>1, <1>2, <1>3, PTL
=============================================================================
