---------------------------- MODULE MappedRegistry ----------------------------
(* The registry of mapped artifacts (engine/prepared/mapped.go): at most one *)
(* artifact file is mapped and served per process, for the whole life of the *)
(* process.  Openers run mappedRegistry.open concurrently; the environment   *)
(* may rewrite, extend or chmod the files underneath, which the mapping      *)
(* (MAP_SHARED) shows at once.  Shrinking a mapped file faults the process   *)
(* and is left out.                                                          *)
EXTENDS Naturals, FiniteSets

CONSTANTS
  Openers,   \* goroutines calling OpenMapped
  Inodes,    \* the files they may open, by device and inode
  Heads,     \* what a header and section table digest can be
  Broken,    \* content that fails the structural checks
  None,      \* no admission, no holder of the lock
  MaxSize,   \* bound: the largest file
  MaxEdits   \* bound: changes to the files by others

VARIABLES
  file,      \* Inodes -> the file's present state
  edits,     \* changes made to files so far
  lock,      \* holder of mappedRegistry.mu
  adm,       \* mappedRegistry.adm
  maps,      \* the live mappings, named by the opener that made them
  op,        \* Openers -> the state of its call of open
  held       \* the Views handed to callers, which never give them back

vars == <<file, edits, lock, adm, maps, op, held>>

Levels == {"full", "trusted", "structure"}

\* A regular file without write bits, or anything else.
Modes == {"sealed", "unfit"}

\* An artifact's bytes: the header names, by its digests, the content that
\* belongs to it.
Images == [head : Heads, body : Heads \cup {Broken}]
Files == [img : Images, mode : Modes, size : 0..MaxSize]

\* An admission record.  `sum' is the container digest, which only full
\* verification computes.
Admissions == [buf : Openers, ino : Inodes, level : {"full", "trusted"},
               size : 0..MaxSize, head : Heads, sum : Images \cup {None}]

Ops == [at : {"idle", "opened", "admit", "verify", "reuse", "fast", "accept"},
        ino : Inodes \cup {None}, level : Levels, mode : Modes, size : 0..MaxSize,
        rec : Admissions \cup {None}, got : Levels, img : Images \cup {None}]

Views == [buf : Openers, level : Levels, img : Images]

\* Type invariant.  At most one mapping exists at any moment: openers without an
\* admission go one at a time.
TypeOK ==
  /\ file \in [Inodes -> Files]
  /\ edits \in 0..MaxEdits
  /\ lock \in Openers \cup {None}
  /\ adm \in Admissions \cup {None}
  /\ maps \subseteq Openers
  /\ op \in [Openers -> Ops]
  /\ held \subseteq Views
  /\ Cardinality(maps) <= 1

IdleOp == [at |-> "idle", ino |-> None, level |-> "full",
           mode |-> "sealed", size |-> 0, rec |-> None, got |-> "full", img |-> None]

Init ==
  /\ file \in [Inodes -> Files]
  /\ edits = 0
  /\ lock = None
  /\ adm = None
  /\ maps = {}
  /\ op = [p \in Openers |-> IdleOp]
  /\ held = {}

-----------------------------------------------------------------------------
(* VerifyBytes                                                             *)

\* Every level runs the structural checks; only full verification hashes the
\* content sections.
Verifies(img, level) ==
  /\ img.body # Broken
  /\ level = "full" => img.body = img.head

\* The container digest VerifyBytes reports at a level.
ContainerSum(img, level) == IF level = "full" THEN img ELSE None

\* The descriptor is fit to be mapped.
Sealed(o) == o.mode = "sealed"

-----------------------------------------------------------------------------
(* mappedRegistry.open                                                     *)

Step(p, o) == op' = [op EXCEPT ![p] = o]
Release(p) == lock' = IF lock = p THEN None ELSE lock

\* An error return that leaves the lock held.
RefuseLocked(p) == Step(p, IdleOp) /\ UNCHANGED <<lock, adm, held>>

\* An error return: the deferred Unlock, if the lock is held, and nothing else.
Refuse(p) == Step(p, IdleOp) /\ Release(p) /\ UNCHANGED <<adm, held>>

\* os.Open and fstat: from here on the call works on this descriptor.
Open(p) ==
  /\ op[p].at = "idle"
  /\ \E i \in Inodes, lv \in Levels :
       Step(p, [IdleOp EXCEPT !.at = "opened", !.ino = i, !.level = lv,
                              !.mode = file[i].mode, !.size = file[i].size])
  /\ UNCHANGED <<file, edits, lock, adm, maps, held>>

\* Which way a call goes, by the record it finds under the lock.
Path == IF adm = None THEN "admit"
        ELSE IF adm.level = "full" THEN "fast" ELSE "reuse"

\* mu.Lock and the choice of path.  Against a full admission the lock is given
\* back at once; otherwise it is kept to the end of the call.
Enter(p) ==
  /\ op[p].at = "opened"
  /\ lock = None
  /\ lock' = IF Path = "fast" THEN None ELSE p
  /\ Step(p, [op[p] EXCEPT !.at = Path, !.rec = adm])
  /\ UNCHANGED <<file, edits, adm, maps, held>>

\* The preconditions of an admission, on the descriptor, and the mapping.
Map(p) ==
  /\ op[p].at = "admit"
  /\ \/ /\ Sealed(op[p])
        /\ op[p].size > 0
        /\ op[p].level # "structure"
        /\ maps' = maps \cup {p}
        /\ Step(p, [op[p] EXCEPT !.at = "verify"])
        /\ UNCHANGED <<lock, adm, held>>
     \/ Refuse(p) /\ UNCHANGED maps      \* unfit, or mmap fails
  /\ UNCHANGED <<file, edits>>

\* VerifyBytes of the new mapping; a mapping that fails is unmapped.
Verify(p) ==
  /\ op[p].at = "verify"
  /\ LET img == file[op[p].ino].img
     IN  IF Verifies(img, op[p].level)
         THEN /\ Step(p, [op[p] EXCEPT !.at = "accept", !.got = op[p].level, !.img = img])
              /\ UNCHANGED <<lock, adm, maps, held>>
         ELSE Refuse(p) /\ maps' = maps \ {p}
  /\ UNCHANGED <<file, edits>>

\* The level a reuse verifies at: structure against a full admission is
\* served as full.
ReuseLevel(o) == IF o.level = "structure" THEN "full" ELSE o.level

\* A reuse that does not compare the header digest with the admitted one.
ReusableAnyHead(o, img) ==
  /\ o.ino = o.rec.ino
  /\ Sealed(o)
  /\ o.size = o.rec.size
  /\ o.level = "structure" => o.rec.level = "full"
  /\ Verifies(img, ReuseLevel(o))

\* The tests of admission.reuse on the descriptor and on the mapped bytes.
Reusable(o, img) ==
  /\ o.ino = o.rec.ino
  /\ Sealed(o)
  /\ o.size = o.rec.size
  /\ o.level = "structure" => o.rec.level = "full"
  /\ Verifies(img, ReuseLevel(o))
  /\ img.head = o.rec.head
  /\ ReuseLevel(o) = "full" /\ o.rec.level = "full" =>
       ContainerSum(img, "full") = o.rec.sum

\* admission.reuse: the existing mapping is verified again.
Reuse(p) ==
  /\ op[p].at \in {"reuse", "fast"}
  /\ LET img == file[op[p].rec.ino].img
     IN  IF Reusable(op[p], img)
         THEN /\ Step(p, [op[p] EXCEPT !.at = "accept", !.got = ReuseLevel(op[p]),
                                       !.img = img])
              /\ UNCHANGED <<lock, adm, held>>
         ELSE Refuse(p)
  /\ UNCHANGED <<file, edits, maps>>

\* The caller's acceptance fails: a mapping made by this call is unmapped.
AcceptFails(p) ==
  /\ op[p].at = "accept"
  /\ Refuse(p)
  /\ maps' = IF op[p].rec = None THEN maps \ {p} ELSE maps
  /\ UNCHANGED <<file, edits>>

\* What the registry holds after an accepted open.
Published(p) ==
  LET o == op[p]
      sum == ContainerSum(o.img, o.got)
  IN  IF o.rec = None
      THEN [buf |-> p, ino |-> o.ino, level |-> o.got, size |-> o.size,
            head |-> o.img.head, sum |-> sum]
      ELSE IF o.rec.level = "trusted" /\ o.level = "full"
           THEN [o.rec EXCEPT !.level = "full", !.sum = sum]
           ELSE o.rec

\* The caller accepts: the first admission or an upgrade is published, and the
\* View over the mapping is returned.
Accept(p) ==
  /\ op[p].at = "accept"
  /\ adm' = IF op[p].rec # None /\ op[p].rec.level = "full" THEN adm ELSE Published(p)
  /\ held' = held \cup {[buf |-> Published(p).buf, level |-> op[p].got, img |-> op[p].img]}
  /\ Step(p, IdleOp)
  /\ Release(p)
  /\ UNCHANGED <<file, edits, maps>>

-----------------------------------------------------------------------------
(* The files underneath                                                    *)

\* Somebody changes a file in place: its bytes, its mode, or its length.
Edit ==
  /\ edits < MaxEdits
  /\ edits' = edits + 1
  /\ \E i \in Inodes :
       \E f \in {[file[i] EXCEPT !.img = img] : img \in Images}
                \cup {[file[i] EXCEPT !.mode = mode] : mode \in Modes}
                \cup {[file[i] EXCEPT !.size = n] : n \in file[i].size .. MaxSize} :
         f # file[i] /\ file' = [file EXCEPT ![i] = f]
  /\ UNCHANGED <<lock, adm, maps, op, held>>

Continue(p) == Map(p) \/ Verify(p) \/ Reuse(p) \/ AcceptFails(p) \/ Accept(p)

Next ==
  \/ \E p \in Openers : Open(p) \/ Enter(p) \/ Continue(p)
  \/ Edit

\* A goroutine in a call goes on.
Fairness == \A p \in Openers : WF_vars(Continue(p))

Safety == Init /\ [][Next]_vars
Spec == Safety /\ Fairness

-----------------------------------------------------------------------------
(* Properties                                                              *)

\* All callers are served one artifact even while the file is changed in place:
\* every View is over the admitted mapping ("nothing is ever unmapped once
\* admitted") and was verified with the same header digest, and all Views
\* reported as full were verified over identical bytes that match their digests.
OneArtifactServed ==
  \A g, h \in held :
    /\ adm # None /\ h.buf = adm.buf /\ h.buf \in maps
    /\ g.img.head = h.img.head
    /\ g.level = "full" => g.img.body = g.img.head
    /\ g.level = "full" /\ h.level = "full" => g.img = h.img

\* The registry lock is given back on every path, refusals and failed
\* acceptances included: no open blocks the later ones for ever.
LockReturns == lock # None ~> lock = None

=============================================================================
