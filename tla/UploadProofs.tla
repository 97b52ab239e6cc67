---------------------------- MODULE UploadProofs ----------------------------
(***************************************************************************)
(* What is proved of the mutating handlers (Uploads): a streamed upload    *)
(* stays in one list object, the audit stream tells every commit once and  *)
(* as it was, and the quotas are soft by one batch or one list per client. *)
(*                                                                         *)
(* The argument about the key quota is about rounds.  A check that begins  *)
(* has missed nothing; until its batch lands it has missed what the others *)
(* landed since, at most (Abreast).  When it lands, the usage is bound by  *)
(* what it saw, plus what landed since, plus its own batch.  The clients   *)
(* to charge for the excess are those of the last round (Rounds), and none *)
(* of them has landed twice in it, so that one batch of each is enough.    *)
(***************************************************************************)
EXTENDS Uploads, SumProofs
-----------------------------------------------------------------------------
(* Uploads.                                                                *)

Fields == {"at", "op", "list", "lines", "acc", "gen", "quota", "applied", "version", "partial", "mine"}

\* The shape of a request; its usage, a sum of counts, is left open.
Shape(r) ==
    /\ DOMAIN r = Fields
    /\ r.at \in {"read", "usage", "count", "apply", "audit"} /\ r.op \in AskedOps /\ r.list \in Names
    /\ r.lines \in Seq(BodyLines) /\ r.acc \in Seq(BodyLines) /\ r.applied \in Nat

\* Commits of one owner: the version is the last of them, and those of a
\* stream are in one list object.
OwnerOf(op, mine, ver) ==
    /\ mine \subseteq DOMAIN commits
    /\ ver \in {0} \cup mine /\ \A v \in mine : v <= ver
    /\ op = "stream" => \A u, v \in mine : commits[u].obj = commits[v].obj

\* A request without a commit may end without a line.  The batches of a
\* stream are not empty, so that its count tells whether it has one.
RequestOK(r) ==
    /\ Shape(r)
    /\ OwnerOf(r.op, r.mine, r.version)
    /\ r.op = "stream" => /\ \A v \in r.mine : commits[v].obj = r.gen
                          /\ r.applied = 0 => r.mine = {}
                          /\ r.at \in {"usage", "apply"} => Len(r.acc) > 0
    /\ r.op # "stream" /\ r.at # "audit" => r.mine = {}
    /\ r.at = "count" => r.op = "create"

CommitTypes ==
    /\ commits \in Seq([obj : 0 .. MaxObjects, n : Nat])
    /\ current \in [Names -> 0 .. MaxObjects]
    /\ DOMAIN upload = Writers /\ upload = [w \in Writers |-> upload[w]]

RequestsInv == \A w \in Writers : upload[w] = Waiting \/ RequestOK(upload[w])
LinesInv == \A a \in audits : OwnerOf(a.op, a.mine, a.version)

Mine(w) == IF upload[w] = Waiting THEN {} ELSE upload[w].mine

\* A commit has one owner, a running request or a line.
OwnedInv ==
    /\ \A w, x \in Writers : w # x => Mine(w) \cap Mine(x) = {}
    /\ \A a \in audits, w \in Writers : a.mine \cap Mine(w) = {}
    /\ \A a, b \in audits : a # b => a.mine \cap b.mine = {}
    /\ \A v \in DOMAIN commits : (\E w \in Writers : v \in Mine(w)) \/ (\E a \in audits : v \in a.mine)

UploadInv == CommitTypes /\ RequestsInv /\ LinesInv /\ OwnedInv


LEMMA UploadStart == UploadConstants /\ UploadInit => UploadInv
<1> SUFFICES ASSUME UploadConstants, UploadInit PROVE UploadInv
  OBVIOUS
<1>1. commits = <<>> /\ audits = {} /\ upload = [w \in Writers |-> Waiting]
  BY DEF UploadInit
<1>2. PICK S \in Starts : current = [l \in Names |-> IF l \in S THEN l ELSE 0]
  BY DEF UploadInit
<1>3. current \in [Names -> 0 .. MaxObjects]
  BY <1>2 DEF UploadConstants, Objects
<1> QED
  BY <1>1, <1>3 DEF UploadInv, CommitTypes, RequestsInv, LinesInv, OwnedInv, Mine

\* The count of a compaction or of a reload is a number.
LEMMA PresentIsNat == ASSUME UploadConstants, NEW content PROVE Present(content) \in Nat
<1> DEFINE S == {i \in Ids : content[i] # 0}
<1>1. IsFiniteSet(S) /\ Cardinality(S) \in Nat
  BY FS_Subset, FS_CardinalityType DEF UploadConstants
<1>2. Present(content) = Cardinality(S)
  BY DEF Present
<1> QED
  BY <1>1, <1>2

\* A step of a request that commits nothing and ends none that has committed.
LEMMA QuietStep ==
    ASSUME UploadInv, NEW w \in Writers, NEW r, Step(w, r),
           commits' = commits, audits' = audits, current' = current,
           (r = Waiting /\ Mine(w) = {}) \/ (r # Waiting /\ RequestOK(r) /\ r.mine = Mine(w))
    PROVE  UploadInv'
<1>1. CommitTypes /\ RequestsInv /\ LinesInv /\ OwnedInv
  BY DEF UploadInv
<1>2. upload'[w] = r /\ \A x \in Writers : x # w => upload'[x] = upload[x]
  BY <1>1 DEF Step, CommitTypes
<1>3. CommitTypes'
  BY <1>1 DEF CommitTypes, Step
<1>4. \A x \in Writers : Mine(x)' = Mine(x)
  BY <1>2 DEF Mine, Waiting
<1>5. RequestsInv'
  BY <1>1, <1>2 DEF RequestsInv, RequestOK, OwnerOf, Waiting
<1>6. LinesInv'
  BY <1>1 DEF LinesInv, OwnerOf
<1>7. OwnedInv'
  BY <1>1, <1>4 DEF OwnedInv
<1> QED
  BY <1>3, <1>5, <1>6, <1>7 DEF UploadInv

\* A store operation of a request: the new commit is its own, and the last.
LEMMA CommitStep ==
    ASSUME UploadInv, NEW w \in Writers, upload[w] # Waiting, NEW r, NEW o \in 0 .. MaxObjects, NEW n \in Nat,
           Commit(w, r, o, n), audits' = audits, current' \in [Names -> 0 .. MaxObjects],
           Shape(r), r.mine = Mine(w), r.op = upload[w].op, r.gen = upload[w].gen, r.version = upload[w].version,
           r.op = "stream" => (o = r.gen /\ n > 0 /\ r.at = "read"),
           r.op # "stream" => (r.at = "audit" /\ r.mine = {})
    PROVE  UploadInv'
<1>1. CommitTypes /\ RequestsInv /\ LinesInv /\ OwnedInv
  BY DEF UploadInv
<1>2. PICK c : c = Len(commits) + 1
  OBVIOUS
<1>3. commits' = Append(commits, [obj |-> o, n |-> n])
  BY DEF Commit
<1>4. /\ Len(commits) \in Nat /\ DOMAIN commits = 1 .. Len(commits)
      /\ DOMAIN commits' = DOMAIN commits \cup {c} /\ c \in Nat
      /\ \A v \in DOMAIN commits : commits'[v] = commits[v] /\ v < c /\ v \in Nat
      /\ commits'[c].obj = o
      /\ commits' \in Seq([obj : 0 .. MaxObjects, n : Nat])
  BY <1>1, <1>2, <1>3 DEF CommitTypes
<1>5. PICK q : q = [r EXCEPT !.version = Len(commits) + 1, !.applied = @ + n,
                             !.mine = @ \cup {Len(commits) + 1}]
  OBVIOUS
<1>6. Step(w, q)
  BY <1>5 DEF Commit
<1>7. /\ DOMAIN q = Fields /\ q.version = c /\ q.applied = r.applied + n /\ q.mine = r.mine \cup {c}
      /\ q.at = r.at /\ q.op = r.op /\ q.list = r.list /\ q.lines = r.lines /\ q.acc = r.acc /\ q.gen = r.gen
  BY <1>2, <1>5 DEF Shape, Fields
<1>8. upload'[w] = q /\ \A x \in Writers : x # w => upload'[x] = upload[x]
  BY <1>1, <1>6 DEF Step, CommitTypes
<1>9. q # Waiting /\ Mine(w) = upload[w].mine /\ RequestOK(upload[w])
  <2>1. "op" \in DOMAIN q /\ "op" \notin DOMAIN Waiting
    BY <1>7 DEF Fields, Waiting
  <2> QED
    BY <1>1, <2>1 DEF RequestsInv, Mine
<1>10. CommitTypes'
  BY <1>1, <1>4, <1>6 DEF CommitTypes, Step
<1>11. Mine(w)' = Mine(w) \cup {c} /\ \A x \in Writers : x # w => Mine(x)' = Mine(x)
  BY <1>7, <1>8, <1>9 DEF Mine, Waiting
<1>12. ASSUME NEW op, NEW mine, NEW ver, OwnerOf(op, mine, ver) PROVE OwnerOf(op, mine, ver)'
  BY <1>4, <1>12 DEF OwnerOf
<1>13. Mine(w) \subseteq DOMAIN commits /\ (r.op = "stream" => \A v \in Mine(w) : commits[v].obj = o)
  BY <1>9 DEF RequestOK, OwnerOf
<1>14. OwnerOf(q.op, q.mine, q.version)'
  <2>1. (q.mine \subseteq DOMAIN commits)'
    BY <1>4, <1>7, <1>8, <1>13
  <2>2. q.version \in {0} \cup q.mine /\ \A v \in q.mine : v <= q.version
    BY <1>4, <1>7, <1>13
  <2>3. q.op = "stream" => \A v \in q.mine : commits'[v].obj = o
    BY <1>4, <1>7, <1>13
  <2> QED
    BY <2>1, <2>2, <2>3 DEF OwnerOf
<1>15. RequestOK(q)'
  <2>1. Shape(q) /\ Shape(q)'
    BY <1>7 DEF Shape
  <2>2. q.op = "stream" => \A v \in q.mine : commits'[v].obj = q.gen
    BY <1>4, <1>7, <1>13
  <2>3. q.op = "stream" => (q.applied # 0 /\ q.at = "read")
    BY <1>7 DEF Shape
  <2>4. q.op # "stream" => q.at = "audit"
    BY <1>7
  <2> QED
    BY <1>14, <2>1, <2>2, <2>3, <2>4 DEF RequestOK
<1>16. ASSUME NEW x \in Writers, x # w, RequestOK(upload[x]) PROVE RequestOK(upload[x])'
  <2>1. PICK u : u = upload[x]
    OBVIOUS
  <2>2. upload'[x] = u /\ RequestOK(u)
    BY <1>8, <1>16, <2>1
  <2>3. OwnerOf(u.op, u.mine, u.version)'
    BY <1>12, <2>2 DEF RequestOK
  <2>4. \A v \in u.mine : commits'[v] = commits[v]
    BY <1>4, <2>2 DEF RequestOK, OwnerOf
  <2> QED
    BY <2>2, <2>3, <2>4 DEF RequestOK, Shape
<1>17. RequestsInv'
  BY <1>1, <1>8, <1>15, <1>16 DEF RequestsInv, Waiting
<1>18. LinesInv'
  <2> SUFFICES ASSUME NEW a \in audits PROVE OwnerOf(a.op, a.mine, a.version)'
    BY DEF LinesInv
  <2> QED
    BY <1>1, <1>12 DEF LinesInv
<1>19. OwnedInv'
  <2>1. \A x \in Writers : c \notin Mine(x)
    BY <1>1, <1>4 DEF RequestsInv, RequestOK, OwnerOf, Mine
  <2>2. \A a \in audits : c \notin a.mine
    BY <1>1, <1>4 DEF LinesInv, OwnerOf
  <2>3. (\A v \in DOMAIN commits : (\E x \in Writers : v \in Mine(x)) \/ (\E a \in audits : v \in a.mine))'
    BY <1>1, <1>4, <1>11 DEF OwnedInv
  <2>4. (\A x, y \in Writers : x # y => Mine(x) \cap Mine(y) = {})'
    BY <1>1, <1>11, <2>1 DEF OwnedInv
  <2>5. (\A a \in audits, x \in Writers : a.mine \cap Mine(x) = {})'
    BY <1>1, <1>11, <2>2 DEF OwnedInv
  <2> QED
    BY <1>1, <2>3, <2>4, <2>5 DEF OwnedInv
<1> QED
  BY <1>10, <1>17, <1>18, <1>19 DEF UploadInv

\* The commits of an ending request pass on to its line.
LEMMA AuditStep ==
    ASSUME UploadInv, NEW w \in Writers, Audit(w)
    PROVE  UploadInv'
<1>1. CommitTypes /\ RequestsInv /\ LinesInv /\ OwnedInv
  BY DEF UploadInv
<1>2. /\ upload[w].at = "audit" /\ audits' = audits \cup {Line(upload[w])} /\ Step(w, Waiting)
      /\ current' = current /\ commits' = commits
  BY DEF Audit
<1>3. upload'[w] = Waiting /\ \A x \in Writers : x # w => upload'[x] = upload[x]
  BY <1>1, <1>2 DEF Step, CommitTypes
<1>4. upload[w] # Waiting
  BY <1>2 DEF Waiting
<1>5. RequestOK(upload[w]) /\ Mine(w) = upload[w].mine
  BY <1>1, <1>4 DEF RequestsInv, Mine
<1>6. PICK l : l = Line(upload[w])
  OBVIOUS
<1>7. l.op = upload[w].op /\ l.mine = Mine(w) /\ l.version = upload[w].version
  BY <1>5, <1>6 DEF Line
<1>8. audits' = audits \cup {l}
  BY <1>2, <1>6
<1>9. CommitTypes'
  BY <1>1, <1>2 DEF CommitTypes, Step
<1>10. Mine(w)' = {} /\ \A x \in Writers : x # w => Mine(x)' = Mine(x)
  BY <1>3 DEF Mine, Waiting
<1>11. RequestsInv'
  BY <1>1, <1>2, <1>3 DEF RequestsInv, RequestOK, Shape, OwnerOf, Waiting
<1>12. OwnerOf(l.op, l.mine, l.version)
  BY <1>5, <1>7 DEF RequestOK
<1>13. LinesInv'
  BY <1>1, <1>2, <1>8, <1>12 DEF LinesInv, OwnerOf
<1>14. OwnedInv'
  BY <1>1, <1>2, <1>7, <1>8, <1>10 DEF OwnedInv
<1> QED
  BY <1>9, <1>11, <1>13, <1>14 DEF UploadInv


\* A failing request ends, unless it has commits to audit.
LEMMA FailedStep ==
    ASSUME UploadInv, NEW w \in Writers, upload[w] # Waiting, upload[w].at # "audit",
           Step(w, Failed(upload[w])), commits' = commits, audits' = audits, current' = current
    PROVE  UploadInv'
<1>1. PICK u : u = upload[w]
  OBVIOUS
<1>2. u # Waiting /\ RequestOK(u) /\ Mine(w) = u.mine /\ u.at # "audit"
  BY <1>1 DEF UploadInv, RequestsInv, Mine
<1>3. CASE u.op = "stream" /\ u.applied > 0
  <2>1. PICK r : r = [u EXCEPT !.at = "audit", !.partial = TRUE, !.lines = <<>>, !.acc = <<>>, !.quota = NoUsage]
    OBVIOUS
  <2>2. r = Failed(upload[w])
    BY <1>1, <1>3, <2>1 DEF Failed
  <2>3. /\ DOMAIN r = Fields /\ r.at = "audit" /\ r.op = u.op /\ r.list = u.list /\ r.lines = <<>> /\ r.acc = <<>>
        /\ r.gen = u.gen /\ r.applied = u.applied /\ r.version = u.version /\ r.mine = u.mine
    BY <1>2, <2>1 DEF RequestOK, Shape, Fields
  <2>4. RequestOK(r)
    BY <1>2, <2>3 DEF RequestOK, Shape
  <2>5. r # Waiting
    BY <2>3 DEF Waiting
  <2> QED
    BY <1>2, <2>2, <2>3, <2>4, <2>5, QuietStep
<1>4. CASE ~(u.op = "stream" /\ u.applied > 0)
  <2>1. Waiting = Failed(upload[w])
    BY <1>1, <1>4 DEF Failed
  <2>2. Mine(w) = {}
    BY <1>2, <1>4 DEF RequestOK, Shape
  <2> QED
    BY <2>1, <2>2, QuietStep
<1> QED
  BY <1>3, <1>4

\* The fields of a request that a step before the store operation leaves alone.
LEMMA QuietFields ==
    ASSUME UploadInv, NEW w \in Writers, upload[w] # Waiting, upload[w].at # "audit", NEW r, Step(w, r),
           commits' = commits, audits' = audits, current' = current,
           Shape(r), r.op = upload[w].op, r.gen = upload[w].gen, r.applied = upload[w].applied,
           r.version = upload[w].version, r.mine = upload[w].mine,
           r.at # "count", r.op = "stream" /\ r.at \in {"usage", "apply"} => Len(r.acc) > 0
    PROVE  UploadInv'
<1>1. RequestOK(upload[w]) /\ Mine(w) = upload[w].mine
  BY DEF UploadInv, RequestsInv, Mine
<1>2. RequestOK(r)
  BY <1>1 DEF RequestOK
<1>3. r # Waiting
  BY DEF Shape, Waiting
<1> QED
  BY <1>1, <1>2, <1>3, QuietStep

\* The handlers before the store operation.
LEMMA HandlerSteps ==
    ASSUME UploadConstants, UploadInv, NEW w \in Writers,
           \/ \E ask \in Asked : Begin(w, ask)
           \/ ReadBody(w) \/ AddUsage(w) \/ DecideKeys(w) \/ CheckCount(w) \/ Refused(w)
    PROVE  UploadInv'
<1>1. PICK u : u = upload[w]
  OBVIOUS
<1>2. ASSUME u.at # "idle" PROVE u # Waiting /\ RequestOK(u) /\ Mine(w) = u.mine
  BY <1>1, <1>2 DEF UploadInv, RequestsInv, Mine, Waiting
<1>3. CASE \E ask \in Asked : Begin(w, ask)
  <2>1. PICK ask \in Asked : Begin(w, ask)
    BY <1>3
  <2>2. ask.op \in AskedOps /\ ask.list \in Names /\ ask.lines \in Seq(BodyLines)
    BY DEF UploadConstants
  <2>3. PICK first : first = CASE ask.op \in {"stream", "upsert", "replace"} -> "read"
                               [] ask.op = "create" /\ MaxLists > 0 /\ current[ask.list] = 0 -> "count"
                               [] OTHER -> "apply"
    OBVIOUS
  <2>4. /\ first \in {"read", "count", "apply"} /\ (ask.op = "stream" => first = "read")
        /\ first = "count" => ask.op = "create"
    BY <2>3
  <2>5. PICK g : g = IF ask.op = "stream" THEN current[ask.list] ELSE 0
    OBVIOUS
  <2>6. PICK r : r = [at |-> first, op |-> ask.op, list |-> ask.list, lines |-> ask.lines, acc |-> <<>>,
                      gen |-> g, quota |-> NoUsage,
                      applied |-> 0, version |-> 0, partial |-> FALSE, mine |-> {}]
    OBVIOUS
  <2>7. Step(w, r) /\ upload[w] = Waiting /\ commits' = commits /\ audits' = audits /\ current' = current
    BY <2>1, <2>3, <2>5, <2>6 DEF Begin
  <2>8. /\ DOMAIN r = Fields /\ r.at = first /\ r.op = ask.op /\ r.list = ask.list /\ r.lines = ask.lines
        /\ r.acc = <<>> /\ r.applied = 0 /\ r.version = 0 /\ r.mine = {}
    BY <2>6 DEF Fields
  <2>9. RequestOK(r)
    BY <2>2, <2>4, <2>8 DEF RequestOK, Shape, OwnerOf
  <2>10. r # Waiting /\ Mine(w) = {}
    BY <2>4, <2>7, <2>8 DEF Waiting, Mine
  <2> QED
    BY <2>7, <2>8, <2>9, <2>10, QuietStep
<1>4. CASE ReadBody(w)
  <2>1. PICK full : full = IF u.op = "stream" /\ Len(u.lines) > BatchSize THEN BatchSize ELSE Len(u.lines)
    OBVIOUS
  <2>2. PICK batch, rest : batch = SubSeq(u.lines, 1, full) /\ rest = SubSeq(u.lines, full + 1, Len(u.lines))
    OBVIOUS
  <2>3. /\ u.at = "read" /\ commits' = commits /\ audits' = audits /\ current' = current
        /\ Step(w, IF Contains(batch, Bad) THEN Failed(u)
                     ELSE IF u.op = "stream" /\ batch = <<>> THEN [u EXCEPT !.at = "audit"]
                     ELSE [u EXCEPT !.acc = batch, !.lines = rest, !.at = "usage", !.quota = AllLists])
    BY <1>1, <1>4, <2>1, <2>2 DEF ReadBody
  <2>4. u # Waiting /\ RequestOK(u) /\ Mine(w) = u.mine
    BY <1>2, <2>3
  <2>5. full \in 0 .. Len(u.lines)
    BY <2>1, <2>4 DEF RequestOK, Shape, UploadConstants
  <2>6. batch \in Seq(BodyLines) /\ rest \in Seq(BodyLines) /\ (batch # <<>> => Len(batch) > 0)
    <3>1. PICK lines \in Seq(BodyLines) : lines = u.lines
      BY <2>4 DEF RequestOK, Shape
    <3>2. Len(lines) \in Nat /\ full \in 0 .. Len(lines)
      BY <2>5, <3>1
    <3>3. batch \in Seq(BodyLines)
      BY <2>2, <3>1, <3>2
    <3>4. rest \in Seq(BodyLines)
      BY <2>2, <3>1, <3>2
    <3> QED
      BY <3>3, <3>4
  <2>7. CASE Contains(batch, Bad)
    BY <1>1, <2>3, <2>4, <2>7, FailedStep
  <2>8. CASE ~Contains(batch, Bad) /\ u.op = "stream" /\ batch = <<>>
    <3>1. PICK r : r = [u EXCEPT !.at = "audit"]
      OBVIOUS
    <3>2. Step(w, r)
      BY <2>3, <2>8, <3>1
    <3>3. /\ DOMAIN r = Fields /\ r.at = "audit" /\ r.op = u.op /\ r.list = u.list /\ r.lines = u.lines /\ r.acc = u.acc
          /\ r.gen = u.gen /\ r.applied = u.applied /\ r.version = u.version /\ r.mine = u.mine
      BY <2>4, <3>1 DEF RequestOK, Shape, Fields
    <3>4. Shape(r)
      BY <2>4, <3>3 DEF RequestOK, Shape
    <3> QED
      BY <1>1, <2>3, <2>4, <3>2, <3>3, <3>4, QuietFields
  <2>9. CASE ~Contains(batch, Bad) /\ ~(u.op = "stream" /\ batch = <<>>)
    <3>1. PICK r : r = [u EXCEPT !.acc = batch, !.lines = rest, !.at = "usage", !.quota = AllLists]
      OBVIOUS
    <3>2. Step(w, r)
      BY <2>3, <2>9, <3>1
    <3>3. /\ DOMAIN r = Fields /\ r.at = "usage" /\ r.op = u.op /\ r.list = u.list /\ r.lines = rest /\ r.acc = batch
          /\ r.gen = u.gen /\ r.applied = u.applied /\ r.version = u.version /\ r.mine = u.mine
      BY <2>4, <3>1 DEF RequestOK, Shape, Fields
    <3>4. Shape(r)
      BY <2>4, <2>6, <3>3 DEF RequestOK, Shape
    <3>5. r.op = "stream" => Len(r.acc) > 0
      BY <2>6, <2>9, <3>3
    <3> QED
      BY <1>1, <2>3, <2>4, <3>2, <3>3, <3>4, <3>5, QuietFields
  <2> QED
    BY <2>7, <2>8, <2>9
<1>5. CASE AddUsage(w)
  <2>1. PICK l, k : l = Min(u.quota.todo) /\ k = KeyCount(body[u.quota.seen[l]])
    OBVIOUS
  <2>2. PICK r : r = [u EXCEPT !.quota.todo = @ \ {l}, !.quota.sum = @ + k]
    OBVIOUS
  <2>3. /\ u.at = "usage" /\ commits' = commits /\ audits' = audits /\ current' = current /\ Step(w, r)
    BY <1>1, <1>5, <2>1, <2>2 DEF AddUsage
  <2>4. u # Waiting /\ RequestOK(u)
    BY <1>2, <2>3
  <2>5. /\ DOMAIN r = Fields /\ r.at = u.at /\ r.op = u.op /\ r.list = u.list /\ r.lines = u.lines /\ r.acc = u.acc
        /\ r.gen = u.gen /\ r.applied = u.applied /\ r.version = u.version /\ r.mine = u.mine
    BY <2>2, <2>4 DEF RequestOK, Shape, Fields
  <2>6. Shape(r) /\ (r.op = "stream" => Len(r.acc) > 0)
    BY <2>3, <2>4, <2>5 DEF RequestOK, Shape
  <2> QED
    BY <1>1, <2>3, <2>4, <2>5, <2>6, QuietFields
<1>6. CASE DecideKeys(w)
  <2>1. /\ u.at = "usage" /\ commits' = commits /\ audits' = audits /\ current' = current
        /\ Step(w, IF WithinQuota(u) THEN [u EXCEPT !.at = "apply", !.quota = NoUsage] ELSE Failed(u))
    BY <1>1, <1>6 DEF DecideKeys
  <2>2. u # Waiting /\ RequestOK(u)
    BY <1>2, <2>1
  <2>3. CASE WithinQuota(u)
    <3>1. PICK r : r = [u EXCEPT !.at = "apply", !.quota = NoUsage]
      OBVIOUS
    <3>2. Step(w, r)
      BY <2>1, <2>3, <3>1
    <3>3. /\ DOMAIN r = Fields /\ r.at = "apply" /\ r.op = u.op /\ r.list = u.list /\ r.lines = u.lines /\ r.acc = u.acc
          /\ r.gen = u.gen /\ r.applied = u.applied /\ r.version = u.version /\ r.mine = u.mine
      BY <2>2, <3>1 DEF RequestOK, Shape, Fields
    <3>4. Shape(r) /\ (r.op = "stream" => Len(r.acc) > 0)
      BY <2>1, <2>2, <3>3 DEF RequestOK, Shape
    <3> QED
      BY <1>1, <2>1, <2>2, <3>2, <3>3, <3>4, QuietFields
  <2>4. CASE ~WithinQuota(u)
    BY <1>1, <2>1, <2>2, <2>4, FailedStep
  <2> QED
    BY <2>3, <2>4
<1>7. CASE CheckCount(w)
  <2>1. /\ u.at = "count" /\ commits' = commits /\ audits' = audits /\ current' = current
        /\ Step(w, IF RoomForList THEN [u EXCEPT !.at = "apply"] ELSE Waiting)
    BY <1>1, <1>7 DEF CheckCount
  <2>2. u # Waiting /\ RequestOK(u) /\ Mine(w) = u.mine
    BY <1>2, <2>1
  <2>3. CASE RoomForList
    <3>1. PICK r : r = [u EXCEPT !.at = "apply"]
      OBVIOUS
    <3>2. Step(w, r)
      BY <2>1, <2>3, <3>1
    <3>3. /\ DOMAIN r = Fields /\ r.at = "apply" /\ r.op = u.op /\ r.list = u.list /\ r.lines = u.lines /\ r.acc = u.acc
          /\ r.gen = u.gen /\ r.applied = u.applied /\ r.version = u.version /\ r.mine = u.mine
      BY <2>2, <3>1 DEF RequestOK, Shape, Fields
    <3>4. Shape(r) /\ (r.op = "stream" => Len(r.acc) > 0)
      BY <2>1, <2>2, <3>3 DEF RequestOK, Shape
    <3> QED
      BY <1>1, <2>1, <2>2, <3>2, <3>3, <3>4, QuietFields
  <2>4. CASE ~RoomForList
    <3>1. u.mine = {}
      BY <2>1, <2>2 DEF RequestOK
    <3> QED
      BY <2>1, <2>2, <2>4, <3>1, QuietStep
  <2> QED
    BY <2>3, <2>4
<1>8. CASE Refused(w)
  BY <1>1, <1>2, <1>8, FailedStep DEF Refused
<1> QED
  BY <1>3, <1>4, <1>5, <1>6, <1>7, <1>8


\* The store operations.
LEMMA StoreSteps ==
    ASSUME UploadConstants, UploadInv, NEW w \in Writers,
           \/ Upsert(w) \/ Replace(w) \/ Delete(w) \/ Compact(w) \/ Create(w)
           \/ \E content \in Bundles : ReloadBundle(w, content)
    PROVE  UploadInv'
<1>1. PICK u : u = upload[w]
  OBVIOUS
<1>2. u.at = "apply"
  BY <1>1 DEF Upsert, Replace, Delete, Compact, Create, ReloadBundle, Stands
<1>3. u # Waiting /\ RequestOK(u) /\ Mine(w) = u.mine
  BY <1>1, <1>2 DEF UploadInv, RequestsInv, Mine, Waiting
<1>4. current \in [Names -> 0 .. MaxObjects] /\ current[u.list] \in 0 .. MaxObjects
  BY <1>3 DEF UploadInv, CommitTypes, RequestOK, Shape
\* An operation that is no upsert ends with its audit line.
<1>5. ASSUME NEW o \in 0 .. MaxObjects, NEW n \in Nat, NEW acc \in Seq(BodyLines), u.op # "stream",
             Commit(w, [u EXCEPT !.acc = acc, !.at = "audit"], o, n),
             audits' = audits, current' \in [Names -> 0 .. MaxObjects]
      PROVE  UploadInv'
  <2>1. PICK r : r = [u EXCEPT !.acc = acc, !.at = "audit"]
    OBVIOUS
  <2>2. /\ DOMAIN r = Fields /\ r.at = "audit" /\ r.op = u.op /\ r.list = u.list /\ r.lines = u.lines /\ r.acc = acc
        /\ r.gen = u.gen /\ r.applied = u.applied /\ r.version = u.version /\ r.mine = u.mine
    BY <1>3, <2>1 DEF RequestOK, Shape, Fields
  <2>3. Shape(r)
    BY <1>3, <1>5, <2>2 DEF RequestOK, Shape
  <2>4. Commit(w, r, o, n)
    BY <1>5, <2>1
  <2>5. r.mine = {}
    BY <1>2, <1>3, <1>5, <2>2 DEF RequestOK
  <2> QED
    BY <1>1, <1>3, <1>5, <2>2, <2>3, <2>4, <2>5, CommitStep
<1>6. [u EXCEPT !.at = "audit"] = [u EXCEPT !.acc = u.acc, !.at = "audit"] /\ u.acc \in Seq(BodyLines)
  BY <1>3 DEF RequestOK, Shape, Fields
<1>7. Len(u.acc) \in Nat /\ <<>> \in Seq(BodyLines)
  BY <1>3 DEF RequestOK, Shape
<1>8. CASE Upsert(w)
  <2>1. CASE u.op = "stream"
    <3>1. PICK r : r = [u EXCEPT !.acc = <<>>, !.at = "read"]
      OBVIOUS
    <3>2. /\ DOMAIN r = Fields /\ r.at = "read" /\ r.op = u.op /\ r.list = u.list /\ r.lines = u.lines /\ r.acc = <<>>
          /\ r.gen = u.gen /\ r.applied = u.applied /\ r.version = u.version /\ r.mine = u.mine
      BY <1>3, <3>1 DEF RequestOK, Shape, Fields
    <3>3. Shape(r)
      BY <1>3, <3>2 DEF RequestOK, Shape
    <3>4. PICK n, o : n = Len(u.acc) /\ o = current[u.list]
      OBVIOUS
    <3>5. Commit(w, r, o, n) /\ audits' = audits /\ current' = current /\ o = u.gen
      BY <1>1, <1>8, <2>1, <3>1, <3>4 DEF Upsert, SameGeneration
    <3>6. n > 0 /\ n \in Nat /\ o \in 0 .. MaxObjects
      BY <1>2, <1>3, <1>4, <1>7, <2>1, <3>4 DEF RequestOK
    <3> QED
      BY <1>1, <1>3, <1>4, <2>1, <3>2, <3>3, <3>5, <3>6, CommitStep
  <2>2. CASE u.op # "stream"
    <3>1. PICK n, o : n = Len(u.acc) /\ o = current[u.list]
      OBVIOUS
    <3>2. Commit(w, [u EXCEPT !.acc = <<>>, !.at = "audit"], o, n) /\ audits' = audits /\ current' = current
      BY <1>1, <1>8, <2>2, <3>1 DEF Upsert
    <3> QED
      BY <1>4, <1>5, <1>7, <2>2, <3>1, <3>2
  <2> QED
    BY <2>1, <2>2
<1>9. CASE Replace(w)
  <2>1. PICK n, o : n = Len(u.acc) /\ o = current[u.list]
    OBVIOUS
  <2>2. /\ Commit(w, [u EXCEPT !.acc = <<>>, !.at = "audit"], o, n) /\ audits' = audits /\ current' = current
        /\ u.op = "replace"
    BY <1>1, <1>9, <2>1 DEF Replace, Stands
  <2> QED
    BY <1>4, <1>5, <1>7, <2>1, <2>2
<1>10. CASE Delete(w)
  <2>1. PICK o : o = current[u.list]
    OBVIOUS
  <2>2. /\ Commit(w, [u EXCEPT !.at = "audit"], o, 1) /\ audits' = audits /\ current' = current /\ u.op = "delete"
    BY <1>1, <1>10, <2>1 DEF Delete, Stands
  <2> QED
    BY <1>4, <1>5, <1>6, <2>1, <2>2
<1>11. CASE Compact(w)
  <2>1. PICK n, o : n = Present(body[o]) /\ o = current[u.list]
    OBVIOUS
  <2>2. /\ Commit(w, [u EXCEPT !.at = "audit"], o, n) /\ audits' = audits /\ current' = current /\ u.op = "compact"
    BY <1>1, <1>11, <2>1 DEF Compact, Stands
  <2>3. n \in Nat
    BY <2>1, PresentIsNat
  <2> QED
    BY <1>4, <1>5, <1>6, <2>1, <2>2, <2>3
<1>12. CASE Create(w)
  <2>1. PICK o : o = NewObject
    OBVIOUS
  <2>2. /\ Commit(w, [u EXCEPT !.at = "audit"], o, 0) /\ audits' = audits /\ u.op = "create"
        /\ current' = [current EXCEPT ![u.list] = o] /\ o \in Objects
    BY <1>1, <1>12, <2>1 DEF Create, Stands
  <2>3. o \in 0 .. MaxObjects /\ current' \in [Names -> 0 .. MaxObjects]
    <3>1. o \in 0 .. MaxObjects
      BY <2>2 DEF Objects, UploadConstants
    <3> QED
      BY <1>4, <2>2, <3>1
  <2> QED
    BY <1>5, <1>6, <2>2, <2>3
<1>13. CASE \E content \in Bundles : ReloadBundle(w, content)
  <2>1. PICK content \in Bundles : ReloadBundle(w, content)
    BY <1>13
  <2>2. PICK o, n : o = NewObject /\ n = Present(content)
    OBVIOUS
  <2>3. /\ Commit(w, [u EXCEPT !.at = "audit"], o, n) /\ audits' = audits /\ u.op = "reload"
        /\ current' = [current EXCEPT ![u.list] = o] /\ o \in Objects
    BY <1>1, <2>1, <2>2 DEF ReloadBundle, Stands
  <2>4. o \in 0 .. MaxObjects /\ current' \in [Names -> 0 .. MaxObjects]
    <3>1. o \in 0 .. MaxObjects
      BY <2>3 DEF Objects, UploadConstants
    <3> QED
      BY <1>4, <2>3, <3>1
  <2>5. n \in Nat
    BY <2>2, PresentIsNat
  <2> QED
    BY <1>5, <1>6, <2>3, <2>4, <2>5
<1> QED
  BY <1>8, <1>9, <1>10, <1>11, <1>12, <1>13

LEMMA UploadStep == UploadConstants /\ UploadInv /\ [UploadNext]_uploadVars => UploadInv'
<1> SUFFICES ASSUME UploadConstants, UploadInv, [UploadNext]_uploadVars PROVE UploadInv'
  OBVIOUS
<1>1. CASE UNCHANGED uploadVars
  BY <1>1 DEF uploadVars, UploadInv, CommitTypes, RequestsInv, RequestOK, Shape, LinesInv, OwnedInv,
              OwnerOf, Mine, Waiting
<1>2. CASE UploadNext
  BY <1>2, HandlerSteps, StoreSteps, AuditStep DEF UploadNext
<1> QED
  BY <1>1, <1>2

LEMMA UploadInvariance == UploadSpec => []UploadInv
<1>1. UploadInit => UploadInv
  BY UploadStart, UploadAssumption
<1>2. UploadInv /\ [UploadNext]_uploadVars => UploadInv'
  BY UploadStep, UploadAssumption
<1> QED
  BY <1>1, <1>2, PTL DEF UploadSpec

\* A PUT or reload that arrives between two batches of an NDJSON upload never
\* gets the rest of it, for any number of clients, batches and generations:
\* every batch of a stream is in the object the stream began with
\* (upsertNDJSON, UpsertGenVersioned).
THEOREM GenerationTheorem == UploadSpec => []OneGeneration
<1>1. UploadInv => OneGeneration
  BY DEF UploadInv, RequestsInv, RequestOK, OwnerOf, LinesInv, OneGeneration, Owners
<1> QED
  BY <1>1, UploadInvariance, PTL

\* No commit goes without its audit line and none has two, and a line tells
\* the last version of its request.
LEMMA LinesAreWhole == UploadInv => AuditedOnce /\ LastVersionTold
<1>1. UploadInv => LastVersionTold
  <2> SUFFICES ASSUME UploadInv, NEW a \in audits PROVE a.version = Max({0} \cup a.mine)
    BY DEF LastVersionTold
  <2>1. OwnerOf(a.op, a.mine, a.version)
    BY DEF UploadInv, LinesInv
  <2>2. PICK S, m : S = {0} \cup a.mine /\ m = a.version
    OBVIOUS
  <2>3. \A v \in S : v \in Nat
    BY <2>1, <2>2 DEF OwnerOf, UploadInv, CommitTypes
  <2>4. m \in S /\ \A v \in S : m >= v
    <3>1. m \in S /\ m \in Nat
      BY <2>1, <2>2, <2>3 DEF OwnerOf
    <3>2. \A v \in a.mine : v <= m
      BY <2>1, <2>2 DEF OwnerOf
    <3> QED
      BY <2>2, <2>3, <3>1, <3>2
  <2>5. ASSUME NEW x \in S, \A y \in S : x >= y PROVE x = m
    <3>1. x >= m /\ m >= x /\ x \in Nat /\ m \in Nat
      BY <2>3, <2>4, <2>5
    <3> QED
      BY <3>1
  <2>6. Max(S) = m
    BY <2>4, <2>5 DEF Max
  <2> QED
    BY <2>2, <2>6
<1>2. UploadInv => AuditedOnce
  <2> SUFFICES ASSUME UploadInv, NEW v \in DOMAIN commits
               PROVE  /\ \E r \in Owners : v \in r.mine
                      /\ \A a \in audits : v \in a.mine =>
                            \A w \in Writers : upload[w] = Waiting \/ v \notin upload[w].mine
                      /\ Cardinality({a \in audits : v \in a.mine}) <= 1
    BY DEF AuditedOnce
  <2>1. OwnedInv
    BY DEF UploadInv
  <2>2. \E r \in Owners : v \in r.mine
    BY <2>1 DEF OwnedInv, Mine, Owners
  <2>3. \A a \in audits : v \in a.mine =>
            \A w \in Writers : upload[w] = Waiting \/ v \notin upload[w].mine
    BY <2>1 DEF OwnedInv, Mine
  <2> DEFINE S == {a \in audits : v \in a.mine}
  <2>4. S = {} \/ \E a \in audits : S = {a}
    BY <2>1 DEF OwnedInv
  <2>5. Cardinality(S) <= 1
    <3> HIDE DEF S
    <3>1. CASE S = {}
      <4>1. Cardinality({}) = 0
        BY FS_EmptySet
      <4>2. Cardinality(S) = 0
        BY <3>1, <4>1, Zenon
      <4> QED
        BY <4>2
    <3>2. CASE \E a \in audits : S = {a}
      <4>1. PICK a \in audits : S = {a}
        BY <3>2
      <4>2. Cardinality({a}) = 1
        BY FS_Singleton
      <4>3. Cardinality(S) = 1
        BY <4>1, <4>2, Zenon
      <4> QED
        BY <4>3
    <3> QED
      BY <2>4, <3>1, <3>2
  <2> QED
    BY <2>2, <2>3, <2>5
<1> QED
  BY <1>1, <1>2

-----------------------------------------------------------------------------
(* The contents of the lists, and what the quotas say of them.             *)

Lines == [id : Ids, keys : Nat]
Uploading == {"stream", "upsert", "replace"}

\* The object a PUT or a reload installs in lists cur, and the entries of the
\* commits com.
NextObject(cur) == Max(Range(cur)) + 1
SizesOf(com) == [v \in DOMAIN com |-> com[v].n]

\* What is left to see of the lists: seen names objects, todo the lists.
Scanned(todo, seen) ==
    /\ todo \subseteq Names /\ IsFiniteSet(todo) /\ seen \in [Names -> 0 .. MaxObjects]
    /\ \A l \in todo : seen[l] # 0
    /\ \A l, m \in todo : seen[l] = seen[m] => l = m

\* A request counts lists that were there when it began to count.
UsageOK(q, cur) ==
    /\ DOMAIN q = {"todo", "seen", "sum"} /\ Scanned(q.todo, q.seen) /\ q.sum \in Nat
    /\ \A l \in q.todo : q.seen[l] < NextObject(cur)

\* A request keeps the list it found, and applies what it has read.
HandlerOK(r, cur, com) ==
    /\ r.op \notin {"create", "reload"} => cur[r.list] # 0
    /\ r.at \in {"read", "usage"} => r.op \in Uploading
    /\ r.at \in {"usage", "count", "apply"} => r.acc \in Seq(Lines)
    /\ r.at = "usage" => UsageOK(r.quota, cur)
    /\ r.applied = SumFunctionOnSet(SizesOf(com), r.mine)

ContentInv ==
    /\ \A l, m \in ServedNames : current[l] = current[m] => l = m
    /\ body \in [Objects -> [Ids -> Nat]]
    /\ \A v \in DOMAIN commits : commits[v].obj \in Objects
    /\ landed \in [Writers -> Nat] /\ shipped \in [keys : Nat, lists : Nat]
    /\ \A w \in Writers : upload[w] # Waiting => HandlerOK(upload[w], current, commits)

\* Creates that add a list and have been counted.
Adding == {w \in Writers : /\ upload[w] # Waiting /\ upload[w].at = "apply" /\ upload[w].op = "create"
                           /\ current[upload[w].list] = 0}

ListsInv ==
    MaxLists > 0 =>
        Cardinality(ServedNames) + Cardinality(Adding) < Max({MaxLists, shipped.lists}) + Cardinality(Writers)

\* The keys a name stands for.
HeldKeys(l) == IF current[l] = 0 THEN 0 ELSE KeyCount(body[current[l]])

\* Requests whose quota check has begun and whose batch has not landed.
Pending == {w \in Writers : /\ upload[w] # Waiting
                            /\ \/ upload[w].at = "usage"
                               \/ upload[w].at = "apply" /\ upload[w].op \in Uploading}

\* What is left to see of the lists a request has set out to count.
Unseen(r) == SumFunctionOnSet(KeysOf(r.quota.todo, r.quota.seen), r.quota.todo)

Credit(r) == IF r.op = "replace" THEN HeldKeys(r.list) ELSE 0

\* A request that is being checked, or was let through, has missed no more
\* keys than the clients in R landed last.
Abreast(r, R) ==
    /\ r.at = "usage" => Usage <= r.quota.sum + Unseen(r) + SumFunctionOnSet(landed, R)
    /\ r.at = "apply" => Usage + BatchKeys(r.acc) <= MaxTotalKeys + SumFunctionOnSet(landed, R) + Credit(r)

Ceiling == Max({MaxTotalKeys, shipped.keys})

\* since[w]: the clients that have landed a batch since the check of w began;
\* last: those since the check began that began last of those that ended in
\* a batch.  Nobody in `last' has landed twice since.
Rounds(last, since) ==
    /\ Usage <= Ceiling + SumFunctionOnSet(landed, last)
    /\ \A w \in Pending : w \notin since[w]
    /\ \A v, w \in Pending : v \in since[w] => since[v] \subseteq since[w]
    /\ \A w \in Pending : w \in last => since[w] \subseteq last /\ Abreast(upload[w], since[w])

KeysInv ==
    MaxTotalKeys > 0 =>
        \E last \in SUBSET Writers, since \in [Writers -> SUBSET Writers] : Rounds(last, since)

LinesTold == \A a \in audits : a.op # "reload" => a.n = SumFunctionOnSet(Sizes, a.mine)

QuotaInv == ContentInv /\ ListsInv /\ KeysInv /\ LinesTold

-----------------------------------------------------------------------------
(* Contents and what they add up to.                                       *)

LEMMA KeyCountNat ==
    ASSUME NEW content \in [Ids -> Nat]
    PROVE  KeyCount(content) \in Nat
  BY SumNat, UploadAssumption DEF KeyCount, UploadConstants

LEMMA NoContentIsEmpty == NoContent \in [Ids -> Nat] /\ KeyCount(NoContent) = 0
  <1>1. NoContent \in [Ids -> Nat] /\ \A i \in Ids : NoContent[i] = 0
    BY DEF NoContent
  <1>2. IsFiniteSet(Ids) /\ IsFiniteSet({})
    BY UploadAssumption, FS_EmptySet DEF UploadConstants
  <1>3. SumFunctionOnSet(NoContent, Ids) <= SumFunctionOnSet(NoContent, {})
    BY <1>1, <1>2, SumBelow
  <1>4. SumFunctionOnSet(NoContent, {}) = 0
    BY SumEmpty
  <1>5. KeyCount(NoContent) \in Nat
    BY <1>1, KeyCountNat
  <1> QED
    BY <1>1, <1>3, <1>4, <1>5 DEF KeyCount

\* A batch adds no more keys than it has.
LEMMA BatchAdds ==
    ASSUME NEW content \in [Ids -> Nat], NEW es \in Seq(Lines)
    PROVE  /\ Upserted(content, es) \in [Ids -> Nat]
           /\ BatchKeys(es) \in Nat
           /\ KeyCount(Upserted(content, es)) <= KeyCount(content) + BatchKeys(es)
  <1> DEFINE D == DOMAIN es
             Places(i) == {k \in D : es[k].id = i}
             new == Upserted(content, es)
             keys == [k \in D |-> es[k].keys]
             T == {i \in Ids : Places(i) # {}}
             h == [i \in T |-> Max(Places(i))]
  <1>1. D = 1 .. Len(es) /\ Len(es) \in Nat /\ IsFiniteSet(D)
    <2>1. D = 1 .. Len(es) /\ Len(es) \in Nat
      OBVIOUS
    <2> QED
      BY <2>1, FS_Interval
  <1>2. \A k \in D : es[k] \in Lines /\ keys[k] \in Nat /\ keys[k] = es[k].keys
    <2>1. \A k \in 1 .. Len(es) : es[k] \in Lines
      OBVIOUS
    <2>2. \A k \in D : es[k] \in Lines
      BY <1>1, <2>1
    <2>3. \A k \in D : es[k].keys \in Nat
      BY <2>2 DEF Lines
    <2> QED
      BY <2>2, <2>3
  <1>3. ASSUME NEW i \in T PROVE h[i] \in D /\ es[h[i]].id = i
    <2> DEFINE P == Places(i)
    <2>1. P \in SUBSET Nat /\ P # {} /\ \A n \in P : n <= Len(es)
      BY <1>1
    <2>2. \E m \in P : \A n \in P : n <= m
      BY <1>1, <2>1, Most
    <2>3. \E m \in P : \A n \in P : m >= n
      BY <2>1, <2>2
    <2>4. h[i] = Max(P)
      OBVIOUS
    <2>5. Max(P) \in P
      <3> HIDE DEF P
      <3> QED
        BY <2>3 DEF Max
    <2> QED
      BY <2>4, <2>5
  <1>4. new = [i \in Ids |-> IF Places(i) = {} THEN content[i] ELSE es[Max(Places(i))].keys]
    BY DEF Upserted
  <1>5. \A i \in Ids : new[i] = IF i \in T THEN keys[h[i]] ELSE content[i]
    BY <1>2, <1>3, <1>4
  <1>6. new \in [Ids -> Nat]
    BY <1>2, <1>3, <1>4
  <1>7. T \subseteq Ids /\ IsFiniteSet(Ids)
    BY UploadAssumption DEF UploadConstants
  <1>8. IsFiniteSet(T) /\ IsFiniteSet(Ids \ T)
    BY <1>7, FS_Subset
  <1>9. h \in [T -> D] /\ \A i, j \in T : h[i] = h[j] => i = j
    BY <1>3
  <1> HIDE DEF T, h, keys, D, new
  <1>10. SumFunctionOnSet(new, T) <= SumFunctionOnSet(keys, D)
    <2>1. \A i \in T : new[i] \in Nat /\ new[i] <= keys[h[i]]
      BY <1>2, <1>5, <1>6, <1>7, <1>9
    <2> QED
      BY <1>1, <1>2, <1>8, <1>9, <2>1, SumPlaced
  <1>11. SumFunctionOnSet(new, Ids \ T) <= SumFunctionOnSet(content, Ids)
    <2>1. \A i \in Ids \ T : new[i] \in Nat /\ new[i] = content[i]
      BY <1>5, <1>6
    <2>2. \A i \in Ids : content[i] \in Nat
      OBVIOUS
    <2>3. \A i \in Ids \ T : new[i] > 0 => i \in Ids /\ new[i] <= content[i]
      BY <2>1
    <2> QED
      BY <1>7, <1>8, <2>1, <2>2, <2>3, SumBelow
  <1>12. SumFunctionOnSet(new, Ids) = SumFunctionOnSet(new, T) + SumFunctionOnSet(new, Ids \ T)
    <2>1. T \cup (Ids \ T) = Ids
      BY <1>7
    <2>2. SumFunctionOnSet(new, T \cup (Ids \ T)) = SumFunctionOnSet(new, T) + SumFunctionOnSet(new, Ids \ T)
      BY <1>6, <1>7, <1>8, SumJoin
    <2> QED
      BY <2>1, <2>2, Zenon
  <1>13. /\ SumFunctionOnSet(new, T) \in Nat /\ SumFunctionOnSet(new, Ids \ T) \in Nat
         /\ SumFunctionOnSet(keys, D) \in Nat /\ SumFunctionOnSet(content, Ids) \in Nat
    <2>1. \A i \in Ids : content[i] \in Nat /\ new[i] \in Nat
      BY <1>6
    <2> QED
      BY <1>1, <1>2, <1>7, <1>8, <2>1, SumNat
  <1>14. BatchKeys(es) = SumFunctionOnSet(keys, D)
    BY DEF BatchKeys, keys, D
  <1>15. KeyCount(new) <= KeyCount(content) + BatchKeys(es)
    BY <1>10, <1>11, <1>12, <1>13, <1>14 DEF KeyCount
  <1> QED
    BY <1>6, <1>13, <1>14, <1>15 DEF new

\* An entry that goes takes its keys with it.
LEMMA DeleteShrinks ==
    ASSUME NEW content \in [Ids -> Nat], NEW i
    PROVE  /\ [content EXCEPT ![i] = 0] \in [Ids -> Nat]
           /\ KeyCount([content EXCEPT ![i] = 0]) <= KeyCount(content)
  <1> DEFINE new == [content EXCEPT ![i] = 0]
  <1>1. new \in [Ids -> Nat] /\ \A j \in Ids : new[j] \in Nat /\ new[j] <= content[j] /\ content[j] \in Nat
    <2>1. \A j \in Ids : content[j] \in Nat /\ new[j] = IF j = i THEN 0 ELSE content[j]
      OBVIOUS
    <2>2. new = [j \in Ids |-> new[j]]
      OBVIOUS
    <2> HIDE DEF new
    <2>3. \A j \in Ids : new[j] \in Nat /\ new[j] <= content[j] /\ content[j] \in Nat
      BY <2>1
    <2> QED
      BY <2>2, <2>3
  <1>2. IsFiniteSet(Ids)
    BY UploadAssumption DEF UploadConstants
  <1> HIDE DEF new
  <1>3. SumFunctionOnSet(new, Ids) <= SumFunctionOnSet(content, Ids)
    BY <1>1, <1>2, SumBelow
  <1> QED
    BY <1>1, <1>3 DEF KeyCount, new

\* Lists as the store may have them: cur names objects, bod has their keys.
Served(cur) == {l \in Names : cur[l] # 0}
Stored(cur, bod) ==
    /\ cur \in [Names -> 0 .. MaxObjects] /\ bod \in [Objects -> [Ids -> Nat]]
    /\ \A l, m \in Served(cur) : cur[l] = cur[m] => l = m
Held(cur, bod, l) == IF cur[l] = 0 THEN 0 ELSE KeyCount(bod[cur[l]])
Kept(cur, bod) == [l \in Served(cur) |-> KeyCount(bod[cur[l]])]
Total(cur, bod) == SumFunctionOnSet(Kept(cur, bod), Served(cur))

LEMMA TotalIsUsage ==
    /\ Usage = Total(current, body) /\ Usage' = Total(current', body')
    /\ \A l : HeldKeys(l) = Held(current, body, l) /\ HeldKeys(l)' = Held(current', body', l)
    /\ ServedNames = Served(current) /\ ServedNames' = Served(current')
  BY Zenon DEF Usage, KeysOf, ServedNames, Total, Served, Kept, HeldKeys, Held

\* No two names are served by one object, so that only finitely many are.
LEMMA ServedFinite ==
    ASSUME NEW cur, NEW bod, Stored(cur, bod)
    PROVE  IsFiniteSet(Served(cur))
  <1> DEFINE f == [l \in Served(cur) |-> cur[l]]
  <1>1. IsFiniteSet(0 .. MaxObjects)
    BY UploadAssumption, FS_Interval DEF UploadConstants
  <1>2. f \in Injection(Served(cur), 0 .. MaxObjects)
    BY DEF Injection, IsInjective, Stored, Served
  <1> QED
    BY <1>1, <1>2, FS_Injection

LEMMA HeldNat ==
    ASSUME NEW cur, NEW bod, Stored(cur, bod), NEW l \in Names
    PROVE  /\ Held(cur, bod, l) \in Nat
           /\ cur[l] # 0 => cur[l] \in Objects /\ bod[cur[l]] \in [Ids -> Nat]
  <1>1. cur[l] \in 0 .. MaxObjects /\ MaxObjects \in Nat
    BY UploadAssumption DEF Stored, UploadConstants
  <1>2. cur[l] # 0 => cur[l] \in Objects /\ bod[cur[l]] \in [Ids -> Nat]
    BY <1>1 DEF Objects, Stored
  <1>3. cur[l] # 0 => KeyCount(bod[cur[l]]) \in Nat
    BY <1>2, KeyCountNat
  <1> QED
    BY <1>2, <1>3 DEF Held

LEMMA KeptNat ==
    ASSUME NEW cur, NEW bod, Stored(cur, bod), NEW l \in Served(cur)
    PROVE  Kept(cur, bod)[l] \in Nat /\ Kept(cur, bod)[l] = Held(cur, bod, l)
  BY HeldNat DEF Kept, Held, Served

LEMMA TotalNat ==
    ASSUME NEW cur, NEW bod, Stored(cur, bod)
    PROVE  Total(cur, bod) \in Nat
  BY KeptNat, ServedFinite, SumNat DEF Total

\* Leaving out one name.
LEMMA TotalWithout ==
    ASSUME NEW cur, NEW bod, Stored(cur, bod), NEW l \in Names
    PROVE  /\ SumFunctionOnSet(Kept(cur, bod), Served(cur) \ {l}) \in Nat
           /\ Total(cur, bod) = SumFunctionOnSet(Kept(cur, bod), Served(cur) \ {l}) + Held(cur, bod, l)
  <1> DEFINE S == Served(cur)
             f == Kept(cur, bod)
  <1>1. IsFiniteSet(S) /\ IsFiniteSet(S \ {l})
    BY ServedFinite, FS_RemoveElement
  <1>2. \A m \in S : f[m] \in Nat /\ f[m] = Held(cur, bod, m)
    BY KeptNat
  <1>3. Total(cur, bod) = SumFunctionOnSet(f, S)
    BY DEF Total
  <1>4. SumFunctionOnSet(f, S \ {l}) \in Nat
    <2> HIDE DEF S, f
    <2> QED
      BY <1>1, <1>2, SumNat
  <1>5. CASE l \in S
    <2> HIDE DEF S, f
    <2>1. SumFunctionOnSet(f, S) = f[l] + SumFunctionOnSet(f, S \ {l})
      BY <1>1, <1>2, <1>5, SumOut
    <2>2. Total(cur, bod) = SumFunctionOnSet(f, S \ {l}) + Held(cur, bod, l)
      BY <1>2, <1>3, <1>4, <1>5, <2>1
    <2> QED
      BY <1>4, <2>2 DEF S, f
  <1>6. CASE l \notin S
    <2>1. S \ {l} = S
      BY <1>6
    <2>2. SumFunctionOnSet(f, S \ {l}) = SumFunctionOnSet(f, S)
      BY <2>1, Zenon
    <2>3. Held(cur, bod, l) = 0
      BY <1>6 DEF Served, Held
    <2> QED
      BY <1>3, <1>4, <2>2, <2>3
  <1> QED
    BY <1>5, <1>6

\* A step that changes one name changes the total by what this name holds.
LEMMA TotalChanges ==
    ASSUME NEW c1, NEW b1, Stored(c1, b1), NEW c2, NEW b2, Stored(c2, b2), NEW l \in Names,
           \A m \in Names : m # l => /\ c2[m] = c1[m]
                                     /\ c1[m] # 0 => b2[c1[m]] = b1[c1[m]]
    PROVE  /\ \E rest \in Nat : /\ Total(c1, b1) = rest + Held(c1, b1, l)
                                /\ Total(c2, b2) = rest + Held(c2, b2, l)
           /\ \A m \in Names : m # l => Held(c2, b2, m) = Held(c1, b1, m)
  <1> DEFINE S == Served(c1) \ {l}
  <1>1. Served(c2) \ {l} = S
    BY DEF Served
  <1>2. IsFiniteSet(S)
    BY ServedFinite, FS_RemoveElement
  <1>3. \A m \in Names : m # l => Held(c2, b2, m) = Held(c1, b1, m)
    BY DEF Held
  <1>4. \A m \in S : Kept(c1, b1)[m] \in Nat /\ Kept(c2, b2)[m] = Kept(c1, b1)[m]
    <2> SUFFICES ASSUME NEW m \in S
                 PROVE  Kept(c1, b1)[m] \in Nat /\ Kept(c2, b2)[m] = Kept(c1, b1)[m]
      OBVIOUS
    <2>1. m \in Served(c1) /\ m \in Served(c2) /\ m \in Names /\ m # l
      BY <1>1 DEF Served
    <2>2. Kept(c1, b1)[m] \in Nat /\ Kept(c1, b1)[m] = Held(c1, b1, m) /\ Kept(c2, b2)[m] = Held(c2, b2, m)
      BY <2>1, KeptNat
    <2> QED
      BY <1>3, <2>1, <2>2
  <1> HIDE DEF S
  <1>5. SumFunctionOnSet(Kept(c2, b2), S) = SumFunctionOnSet(Kept(c1, b1), S)
    BY <1>2, <1>4, SumSame
  <1> DEFINE rest == SumFunctionOnSet(Kept(c1, b1), S)
  <1>6. rest \in Nat /\ Total(c1, b1) = rest + Held(c1, b1, l)
    BY TotalWithout DEF S
  <1>7. Total(c2, b2) = SumFunctionOnSet(Kept(c2, b2), S) + Held(c2, b2, l)
    <2>1. Total(c2, b2) = SumFunctionOnSet(Kept(c2, b2), Served(c2) \ {l}) + Held(c2, b2, l)
      BY TotalWithout
    <2> QED
      BY <1>1, <2>1, Zenon
  <1> QED
    BY <1>3, <1>5, <1>6, <1>7

Due(todo, seen, bod) == SumFunctionOnSet([l \in todo |-> KeyCount(bod[seen[l]])], todo)

LEMMA DueNat ==
    ASSUME NEW todo, NEW seen, NEW bod \in [Objects -> [Ids -> Nat]], Scanned(todo, seen)
    PROVE  /\ \A l \in todo : seen[l] \in Objects /\ KeyCount(bod[seen[l]]) \in Nat
           /\ Due(todo, seen, bod) \in Nat
  <1> DEFINE f == [l \in todo |-> KeyCount(bod[seen[l]])]
  <1>1. ASSUME NEW l \in todo PROVE seen[l] \in Objects /\ bod[seen[l]] \in [Ids -> Nat]
    BY UploadAssumption DEF Scanned, Objects, UploadConstants
  <1>2. \A l \in todo : seen[l] \in Objects /\ KeyCount(bod[seen[l]]) \in Nat
    BY <1>1, KeyCountNat
  <1>3. \A l \in todo : f[l] \in Nat
    BY <1>2
  <1>4. IsFiniteSet(todo)
    BY DEF Scanned
  <1> HIDE DEF f
  <1>5. SumFunctionOnSet(f, todo) \in Nat
    BY <1>3, <1>4, SumNat
  <1> QED
    BY <1>2, <1>5 DEF Due, f

\* Reading one list moves its keys from what is due to what is seen.
Moves(todo, seen, bod, l) == Due(todo, seen, bod) = KeyCount(bod[seen[l]]) + Due(todo \ {l}, seen, bod)

LEMMA DueWithout ==
    ASSUME NEW todo, NEW seen, NEW bod \in [Objects -> [Ids -> Nat]], Scanned(todo, seen), NEW l \in todo
    PROVE  Scanned(todo \ {l}, seen) /\ Moves(todo, seen, bod, l)
  <1> DEFINE f == [m \in todo |-> KeyCount(bod[seen[m]])]
             g == [m \in todo \ {l} |-> KeyCount(bod[seen[m]])]
  <1>1. IsFiniteSet(todo) /\ IsFiniteSet(todo \ {l})
    BY FS_RemoveElement DEF Scanned
  <1>2. Scanned(todo \ {l}, seen)
    BY <1>1 DEF Scanned
  <1>3. \A m \in todo : f[m] \in Nat /\ f[m] = KeyCount(bod[seen[m]])
    BY DueNat
  <1>4. \A m \in todo \ {l} : g[m] = f[m]
    OBVIOUS
  <1>5. Due(todo, seen, bod) = SumFunctionOnSet(f, todo) /\ Due(todo \ {l}, seen, bod) = SumFunctionOnSet(g, todo \ {l})
    BY DEF Due
  <1> HIDE DEF f, g
  <1>6. SumFunctionOnSet(f, todo) = f[l] + SumFunctionOnSet(f, todo \ {l})
    BY <1>1, <1>3, SumOut
  <1>7. SumFunctionOnSet(g, todo \ {l}) = SumFunctionOnSet(f, todo \ {l})
    BY <1>1, <1>3, <1>4, SumSame
  <1> QED
    BY <1>2, <1>3, <1>5, <1>6, <1>7 DEF Moves

\* A change of one object shows in what is due, or it does not.
LEMMA DueChanges ==
    ASSUME NEW todo, NEW seen, Scanned(todo, seen), NEW b1 \in [Objects -> [Ids -> Nat]],
           NEW b2 \in [Objects -> [Ids -> Nat]], NEW o \in Objects,
           \A p \in Objects : p # o => b2[p] = b1[p]
    PROVE  /\ (\A l \in todo : seen[l] # o) => Due(todo, seen, b2) = Due(todo, seen, b1)
           /\ (\E l \in todo : seen[l] = o) =>
                 \E rest \in Nat : /\ Due(todo, seen, b1) = KeyCount(b1[o]) + rest
                                   /\ Due(todo, seen, b2) = KeyCount(b2[o]) + rest
  <1> DEFINE f1 == [m \in todo |-> KeyCount(b1[seen[m]])]
             f2 == [m \in todo |-> KeyCount(b2[seen[m]])]
  <1>1. \A m \in todo : seen[m] \in Objects /\ f1[m] \in Nat /\ f2[m] \in Nat
    BY DueNat
  <1>2. \A m \in todo : seen[m] # o => f2[m] = f1[m]
    BY <1>1
  <1>3. CASE \A l \in todo : seen[l] # o
    <2>1. \A m \in todo : f1[m] \in Nat /\ f2[m] = f1[m]
      BY <1>1, <1>2, <1>3
    <2>2. IsFiniteSet(todo)
      BY DEF Scanned
    <2>3. Due(todo, seen, b1) = SumFunctionOnSet(f1, todo) /\ Due(todo, seen, b2) = SumFunctionOnSet(f2, todo)
      BY DEF Due
    <2> HIDE DEF f1, f2
    <2>4. SumFunctionOnSet(f2, todo) = SumFunctionOnSet(f1, todo)
      BY <2>1, <2>2, SumSame
    <2> QED
      BY <1>3, <2>3, <2>4
  <1>4. CASE \E l \in todo : seen[l] = o
    <2>1. PICK l \in todo : seen[l] = o
      BY <1>4
    <2> DEFINE T == todo \ {l}
               g1 == [m \in T |-> KeyCount(b1[seen[m]])]
               g2 == [m \in T |-> KeyCount(b2[seen[m]])]
    <2>2. Scanned(T, seen)
      BY DueWithout
    <2>3. \A m \in T : g1[m] \in Nat /\ g2[m] = g1[m]
      <3>1. \A m \in T : m \in todo /\ seen[m] # o
        BY <2>1 DEF Scanned
      <3> QED
        BY <1>1, <1>2, <3>1
    <2>4. Due(T, seen, b2) = Due(T, seen, b1)
      <3>1. IsFiniteSet(T)
        BY <2>2 DEF Scanned
      <3>2. Due(T, seen, b1) = SumFunctionOnSet(g1, T) /\ Due(T, seen, b2) = SumFunctionOnSet(g2, T)
        BY DEF Due
      <3> HIDE DEF g1, g2, T
      <3>3. SumFunctionOnSet(g2, T) = SumFunctionOnSet(g1, T)
        BY <2>3, <3>1, SumSame
      <3> QED
        BY <3>2, <3>3
    <2> HIDE DEF f1, f2, g1, g2
    <2>5. Due(todo, seen, b1) = KeyCount(b1[o]) + Due(T, seen, b1)
      <3>1. Moves(todo, seen, b1, l)
        BY DueWithout, Zenon
      <3> QED
        BY <2>1, <3>1 DEF Moves
    <2>7. Due(todo, seen, b2) = KeyCount(b2[o]) + Due(T, seen, b2)
      <3>1. Moves(todo, seen, b2, l)
        BY DueWithout, Zenon
      <3> QED
        BY <2>1, <3>1 DEF Moves
    <2>6. Due(T, seen, b1) \in Nat
      BY <2>2, DueNat
    <2> QED
      BY <2>1, <2>4, <2>5, <2>6, <2>7
  <1> QED
    BY <1>3, <1>4

-----------------------------------------------------------------------------
(* The key quota.                                                          *)

\* What is known of a request whose check has begun.
CheckedOK(r) ==
    /\ r.at \in {"usage", "apply"} /\ r.list \in Names /\ r.acc \in Seq(Lines)
    /\ r.at = "usage" => Scanned(r.quota.todo, r.quota.seen) /\ r.quota.sum \in Nat

\* A step of the store on name l, which changes object o: one that is served
\* under l, or one that nobody has seen.
Touches(l, o) ==
    /\ Stored(current, body) /\ Stored(current', body')
    /\ \A m \in Names : m # l => /\ current'[m] = current[m]
                                 /\ current[m] # 0 => body'[current[m]] = body[current[m]]
    /\ \A p \in Objects : p # o => body'[p] = body[p]
    /\ \/ current' = current /\ o = current[l]
       \/ \A v \in Pending : upload[v].at = "usage" =>
             \A m \in upload[v].quota.todo : upload[v].quota.seen[m] # o

\* Such a step leaves a request as far behind as it was, but for what the
\* step adds.
LEMMA AbreastStays ==
    ASSUME NEW l \in Names, NEW o \in Objects, Touches(l, o), NEW v \in Pending, CheckedOK(upload[v]),
           upload'[v] = upload[v], NEW R1, NEW R2, NEW d \in Nat,
           SumFunctionOnSet(landed, R1) \in Nat, SumFunctionOnSet(landed', R2) \in Nat,
           SumFunctionOnSet(landed', R2) >= SumFunctionOnSet(landed, R1) + d,
           HeldKeys(l)' <= HeldKeys(l) + d, Abreast(upload[v], R1)
    PROVE  Abreast(upload[v], R2)'
  <1> DEFINE r == upload[v]
             k1 == Held(current, body, l)
             k2 == Held(current', body', l)
             s1 == SumFunctionOnSet(landed, R1)
             s2 == SumFunctionOnSet(landed', R2)
  <1>1. Stored(current, body) /\ Stored(current', body')
    BY DEF Touches
  <1>2. k1 \in Nat /\ k2 \in Nat /\ k2 <= k1 + d
    BY <1>1, HeldNat, TotalIsUsage
  <1>3. PICK rest \in Nat : Total(current, body) = rest + k1 /\ Total(current', body') = rest + k2
    BY <1>1, TotalChanges DEF Touches
  <1>4. Usage = rest + k1 /\ Usage' = rest + k2
    BY <1>3, TotalIsUsage
  <1>5. \A m \in Names : m # l => HeldKeys(m)' = HeldKeys(m) /\ HeldKeys(m) \in Nat
    <2>1. \A m \in Names : m # l => Held(current', body', m) = Held(current, body, m)
      BY <1>1, TotalChanges DEF Touches
    <2> QED
      BY <1>1, <2>1, HeldNat, TotalIsUsage
  <1>6. CASE r.at = "usage"
    <2> DEFINE todo == r.quota.todo
               seen == r.quota.seen
               D1 == Due(todo, seen, body)
               D2 == Due(todo, seen, body')
    <2>1. Scanned(todo, seen) /\ r.quota.sum \in Nat
      BY <1>6 DEF CheckedOK
    <2>2. body \in [Objects -> [Ids -> Nat]] /\ body' \in [Objects -> [Ids -> Nat]]
      BY <1>1 DEF Stored
    <2>3. D1 \in Nat /\ D2 \in Nat
      BY <2>1, <2>2, DueNat
    <2>4. Unseen(r) = D1 /\ Unseen(r)' = D2
      BY Zenon DEF Unseen, KeysOf, Due
    <2>5. Usage <= r.quota.sum + D1 + s1
      BY <1>6, <2>4 DEF Abreast
    <2>6. D2 = D1 \/ (D2 + k1 = D1 + k2)
      <3>1. \A p \in Objects : p # o => body'[p] = body[p]
        BY DEF Touches
      <3>2. /\ (\A m \in todo : seen[m] # o) => D2 = D1
            /\ (\E m \in todo : seen[m] = o) =>
                  \E more \in Nat : D1 = KeyCount(body[o]) + more /\ D2 = KeyCount(body'[o]) + more
        <4> HIDE DEF todo, seen
        <4> QED
          BY <2>1, <2>2, <3>1, DueChanges, Zenon
      <3>3. CASE \E m \in todo : seen[m] = o
        <4>1. current' = current /\ o = current[l]
          BY <1>6, <3>3 DEF Touches
        <4>2. k1 = KeyCount(body[o]) /\ k2 = KeyCount(body'[o])
          BY <4>1, UploadAssumption DEF Held, Objects, UploadConstants
        <4>3. PICK more \in Nat : D1 = KeyCount(body[o]) + more /\ D2 = KeyCount(body'[o]) + more
          BY <3>2, <3>3
        <4> HIDE DEF k1, k2, D1, D2
        <4> QED
          BY <1>2, <4>2, <4>3
      <3>4. CASE \A m \in todo : seen[m] # o
        BY <3>2, <3>4
      <3> QED
        BY <3>3, <3>4
    <2>7. Usage' <= r.quota.sum + D2 + s2
      <3> HIDE DEF D1, D2, k1, k2, s1, s2
      <3>1. r.quota.sum \in Nat /\ s1 \in Nat /\ s2 \in Nat /\ s2 >= s1 + d
        BY <2>1 DEF s1, s2
      <3> QED
        BY <1>2, <1>4, <2>3, <2>5, <2>6, <3>1
    <2> QED
      BY <1>6, <2>4, <2>7 DEF Abreast
  <1>7. CASE r.at = "apply"
    <2> DEFINE c1 == Credit(r)
               c2 == Credit(r)'
               b == BatchKeys(r.acc)
    <2>1. b \in Nat
      <3>1. r.acc \in Seq(Lines)
        BY DEF CheckedOK
      <3> QED
        BY <3>1, BatchAdds, NoContentIsEmpty
    <2>2. Usage + b <= MaxTotalKeys + s1 + c1
      BY <1>7 DEF Abreast
    <2>3. /\ c1 = (IF r.op = "replace" THEN HeldKeys(r.list) ELSE 0)
          /\ c2 = (IF r.op = "replace" THEN HeldKeys(r.list)' ELSE 0)
      BY DEF Credit
    <2>4. c1 \in Nat /\ c2 \in Nat /\ (c2 = c1 \/ c2 + k1 = c1 + k2)
      <3>1. CASE r.op = "replace" /\ r.list = l
        <4>1. c1 = k1 /\ c2 = k2
          BY <2>3, <3>1, TotalIsUsage
        <4> QED
          BY <1>2, <4>1
      <3>2. CASE r.op = "replace" /\ r.list # l
        BY <1>5, <2>3, <3>2 DEF CheckedOK
      <3>3. CASE r.op # "replace"
        BY <2>3, <3>3
      <3> QED
        BY <3>1, <3>2, <3>3
    <2>5. Usage' + b <= MaxTotalKeys + s2 + c2
      <3> HIDE DEF c1, c2, k1, k2, s1, s2, b
      <3>1. MaxTotalKeys \in Nat /\ s1 \in Nat /\ s2 \in Nat /\ s2 >= s1 + d
        BY UploadAssumption DEF s1, s2, UploadConstants
      <3> QED
        BY <1>2, <1>4, <2>1, <2>2, <2>4, <3>1
    <2> QED
      BY <1>7, <2>5 DEF Abreast
  <1> QED
    BY <1>6, <1>7 DEF CheckedOK

-----------------------------------------------------------------------------
(* What a step keeps of the other requests.                                *)

LEMMA FreshAbove ==
    ASSUME NEW cur \in [Names -> 0 .. MaxObjects], Names # {}
    PROVE  NextObject(cur) \in Nat \ {0} /\ \A m \in Names : cur[m] < NextObject(cur)
  <1> DEFINE S == Range(cur)
  <1>1. S = {cur[m] : m \in Names} /\ MaxObjects \in Nat
    BY UploadAssumption DEF Range, UploadConstants
  <1>2. S \in SUBSET Nat /\ S # {} /\ \A n \in S : n <= MaxObjects
    BY <1>1
  <1>3. \A m \in Names : cur[m] \in S
    BY <1>1
  <1>4. NextObject(cur) = Max(S) + 1
    BY DEF NextObject
  <1> HIDE DEF S
  <1>5. \E m \in S : \A n \in S : n <= m
    BY <1>1, <1>2, Most
  <1>6. \E m \in S : \A n \in S : m >= n
    BY <1>2, <1>5
  <1>7. Max(S) \in S /\ \A n \in S : Max(S) >= n
    BY <1>6 DEF Max
  <1>8. Max(S) \in Nat /\ \A n \in S : n \in Nat /\ n < Max(S) + 1
    <2>1. PICK k : k = Max(S)
      OBVIOUS
    <2>2. k \in Nat /\ \A n \in S : n \in Nat /\ k >= n
      BY <1>2, <1>7, <2>1
    <2>3. \A n \in S : n < k + 1
      BY <2>2
    <2> QED
      BY <2>1, <2>2, <2>3
  <1> QED
    BY <1>3, <1>4, <1>8

\* No list goes and no commit changes.
Follows(cur, com, cur2, com2) ==
    /\ cur \in [Names -> 0 .. MaxObjects] /\ cur2 \in [Names -> 0 .. MaxObjects]
    /\ \A m \in Names : cur[m] # 0 => cur2[m] # 0
    /\ Names # {} => NextObject(cur) <= NextObject(cur2)
    /\ DOMAIN com \subseteq DOMAIN com2 /\ IsFiniteSet(DOMAIN com)
    /\ \A v \in DOMAIN com : com2[v] = com[v] /\ com[v].n \in Nat

SameSizes(com, com2, mine) == SumFunctionOnSet(SizesOf(com2), mine) = SumFunctionOnSet(SizesOf(com), mine)

LEMMA SizesStay ==
    ASSUME NEW cur, NEW com, NEW cur2, NEW com2, Follows(cur, com, cur2, com2), NEW mine, mine \subseteq DOMAIN com
    PROVE  SameSizes(com, com2, mine)
  <1>1. \A v \in mine : SizesOf(com)[v] \in Nat /\ SizesOf(com2)[v] = SizesOf(com)[v]
    BY DEF Follows, SizesOf
  <1>2. IsFiniteSet(mine)
    BY FS_Subset DEF Follows
  <1> QED
    BY <1>1, <1>2, SumSame DEF SameSizes

LEMMA HandlerStays ==
    ASSUME NEW cur, NEW com, NEW cur2, NEW com2, Follows(cur, com, cur2, com2),
           NEW r, r.mine \subseteq DOMAIN com, r.list \in Names, HandlerOK(r, cur, com)
    PROVE  HandlerOK(r, cur2, com2)
  <1>1. r.op \notin {"create", "reload"} => cur2[r.list] # 0
    BY DEF Follows, HandlerOK
  <1>2. ASSUME r.at = "usage" PROVE UsageOK(r.quota, cur2)
    <2>1. UsageOK(r.quota, cur)
      BY <1>2 DEF HandlerOK
    <2>2. NextObject(cur) \in Nat /\ NextObject(cur2) \in Nat /\ NextObject(cur) <= NextObject(cur2)
      BY FreshAbove DEF Follows
    <2>3. ASSUME NEW l \in r.quota.todo PROVE r.quota.seen[l] < NextObject(cur2)
      <3>1. r.quota.seen[l] \in 0 .. MaxObjects /\ MaxObjects \in Nat /\ r.quota.seen[l] < NextObject(cur)
        BY <2>1, UploadAssumption DEF UsageOK, Scanned, UploadConstants
      <3> QED
        BY <2>2, <3>1
    <2> QED
      BY <2>1, <2>3 DEF UsageOK
  <1>3. SameSizes(com, com2, r.mine)
    BY SizesStay, Zenon
  <1>4. r.applied = SumFunctionOnSet(SizesOf(com2), r.mine)
    BY <1>3, Zenon DEF HandlerOK, SameSizes
  <1> QED
    BY <1>1, <1>2, <1>4 DEF HandlerOK

LEMMA SizesAre == Sizes = SizesOf(commits) /\ Sizes' = SizesOf(commits') /\ NewObject = NextObject(current)
  BY Zenon DEF Sizes, SizesOf, NewObject, NextObject

\* What the invariants say of a running request.
LEMMA Running ==
    ASSUME UploadInv, ContentInv, NEW w \in Writers, upload[w] # Waiting
    PROVE  /\ RequestOK(upload[w]) /\ HandlerOK(upload[w], current, commits)
           /\ upload[w].list \in Names /\ upload[w].mine \subseteq DOMAIN commits
           /\ Stored(current, body)
  BY DEF UploadInv, RequestsInv, RequestOK, Shape, OwnerOf, ContentInv, CommitTypes, Stored, Served, ServedNames

\* Requests and lines that a step leaves alone.
LEMMA OthersStay ==
    ASSUME UploadInv, ContentInv, Follows(current, commits, current', commits'),
           NEW w \in Writers, NEW r, Step(w, r), r # Waiting => HandlerOK(r, current', commits')
    PROVE  /\ upload'[w] = r /\ \A v \in Writers : v # w => upload'[v] = upload[v]
           /\ \A v \in Writers : upload'[v] # Waiting => HandlerOK(upload'[v], current', commits')
  <1>1. upload'[w] = r /\ \A v \in Writers : v # w => upload'[v] = upload[v]
    BY DEF Step, UploadInv, CommitTypes
  <1>2. ASSUME NEW v \in Writers, v # w, upload[v] # Waiting
        PROVE  HandlerOK(upload[v], current', commits')
    BY <1>2, Running, HandlerStays
  <1> QED
    BY <1>1, <1>2

LEMMA LinesStay ==
    ASSUME UploadInv, LinesTold, Follows(current, commits, current', commits'),
           \A a \in audits' : a \notin audits /\ a.op # "reload" => a.n = SumFunctionOnSet(Sizes', a.mine)
    PROVE  LinesTold'
  <1> SUFFICES ASSUME NEW a \in audits', a.op # "reload" PROVE a.n = SumFunctionOnSet(Sizes', a.mine)
    BY DEF LinesTold
  <1>1. CASE a \in audits
    <2>1. a.mine \subseteq DOMAIN commits
      BY <1>1 DEF UploadInv, LinesInv, OwnerOf
    <2>2. SameSizes(commits, commits', a.mine)
      BY <2>1, SizesStay, Zenon
    <2>3. a.n = SumFunctionOnSet(Sizes, a.mine)
      BY <1>1 DEF LinesTold
    <2> QED
      BY <2>2, <2>3, SizesAre, Zenon DEF SameSizes
  <1> QED
    BY <1>1

-----------------------------------------------------------------------------
(* Steps of a handler that leave the lists alone.                          *)

\* No batch of the request is being checked or applied.
Rests(r) == r = Waiting \/ r.at \in {"read", "count", "audit"} \/ (r.at = "apply" /\ r.op \notin Uploading)

\* The request r was sees list l, and is r2 then.
Sees(r, r2, l) ==
    /\ r # Waiting /\ r.at = "usage" /\ l \in r.quota.todo /\ r2.at = "usage"
    /\ r2.quota.todo = r.quota.todo \ {l} /\ r2.quota.seen = r.quota.seen
    /\ r2.quota.sum = r.quota.sum + KeyCount(body[r.quota.seen[l]])

\* The request r was passes its check.
Passes(r, r2) ==
    /\ r # Waiting /\ r.at = "usage" /\ r.quota.todo = {} /\ WithinQuota(r)
    /\ r2.at = "apply" /\ r2.op = r.op /\ r2.list = r.list /\ r2.acc = r.acc

StoreStays == UNCHANGED <<current, body, commits, landed, shipped>>

Moved(w, r) ==
    /\ Step(w, r) /\ StoreStays
    /\ r # Waiting => HandlerOK(r, current, commits)
    /\ r # Waiting /\ r.at = "apply" /\ r.op = "create" /\ current[r.list] = 0 => MaxLists = 0 \/ RoomForList
    /\ Rests(r) \/ (r # Waiting /\ r.at = "usage" /\ r.quota = AllLists) \/ Passes(upload[w], r)
       \/ (r # Waiting /\ \E l \in Names : Sees(upload[w], r, l))

LEMMA FailedMoves ==
    ASSUME UploadInv, ContentInv, NEW w \in Writers, upload[w] # Waiting, Step(w, Failed(upload[w])), StoreStays
    PROVE  Moved(w, Failed(upload[w]))
  <1> DEFINE u == upload[w]
             f == [u EXCEPT !.at = "audit", !.partial = TRUE, !.lines = <<>>, !.acc = <<>>, !.quota = NoUsage]
  <1>1. RequestOK(u) /\ HandlerOK(u, current, commits)
    BY Running
  <1>2. Failed(u) = f \/ Failed(u) = Waiting
    BY DEF Failed
  <1>3. f.at = "audit" /\ f.op = u.op /\ f.list = u.list /\ f.applied = u.applied /\ f.mine = u.mine
    BY <1>1 DEF RequestOK, Shape, Fields
  <1>4. HandlerOK(f, current, commits)
    <2> HIDE DEF f
    <2> QED
      BY <1>1, <1>3 DEF HandlerOK
  <1> HIDE DEF f
  <1> QED
    BY <1>2, <1>3, <1>4 DEF Moved, Rests, Waiting

LEMMA BeginMoves ==
    ASSUME UploadInv, ContentInv, NEW w \in Writers, NEW ask \in Asked, Begin(w, ask)
    PROVE  \E r : Moved(w, r)
  <1>1. ask.op \in AskedOps /\ ask.list \in Names
    BY UploadAssumption DEF UploadConstants
  <1>2. PICK first : first = CASE ask.op \in {"stream", "upsert", "replace"} -> "read"
                               [] ask.op = "create" /\ MaxLists > 0 /\ current[ask.list] = 0 -> "count"
                               [] OTHER -> "apply"
    OBVIOUS
  <1>3. PICK g : g = IF ask.op = "stream" THEN current[ask.list] ELSE 0
    OBVIOUS
  <1>4. PICK r : r = [at |-> first, op |-> ask.op, list |-> ask.list, lines |-> ask.lines, acc |-> <<>>,
                      gen |-> g, quota |-> NoUsage,
                      applied |-> 0, version |-> 0, partial |-> FALSE, mine |-> {}]
    OBVIOUS
  <1>5. Step(w, r) /\ StoreStays /\ (ask.op \notin {"create", "reload"} => current[ask.list] # 0)
    BY <1>2, <1>3, <1>4 DEF Begin, StoreStays
  <1>6. r.at = first /\ r.op = ask.op /\ r.list = ask.list /\ r.acc = <<>> /\ r.applied = 0 /\ r.mine = {}
    BY <1>4
  <1>7. /\ first \in {"read", "count", "apply"} /\ (first = "read" => ask.op \in Uploading)
        /\ first = "apply" => ask.op \notin Uploading
        /\ first = "apply" /\ ask.op = "create" /\ current[ask.list] = 0 => ~(MaxLists > 0)
    BY <1>2 DEF Uploading
  <1>8. HandlerOK(r, current, commits)
    <2>1. SumFunctionOnSet(SizesOf(commits), {}) = 0
      BY SumEmpty
    <2>2. r.applied = SumFunctionOnSet(SizesOf(commits), r.mine)
      BY <1>6, <2>1, Zenon
    <2> QED
      BY <1>5, <1>6, <1>7, <2>2 DEF HandlerOK
  <1>9. MaxLists > 0 \/ MaxLists = 0
    BY UploadAssumption DEF UploadConstants
  <1> QED
    BY <1>5, <1>6, <1>7, <1>8, <1>9 DEF Moved, Rests

\* The lists a request sets out to count.
LEMMA AllListsOK ==
    ASSUME Stored(current, body), Names # {}
    PROVE  UsageOK(AllLists, current)
  <1>1. IsFiniteSet(ServedNames)
    BY ServedFinite, TotalIsUsage
  <1>2. /\ AllLists.todo = ServedNames /\ AllLists.seen = current /\ AllLists.sum = 0
        /\ DOMAIN AllLists = {"todo", "seen", "sum"}
    BY DEF AllLists
  <1>3. current \in [Names -> 0 .. MaxObjects]
    BY DEF Stored
  <1>4. \A m \in Names : current[m] < NextObject(current)
    BY <1>3, FreshAbove
  <1>5. Scanned(ServedNames, current)
    BY <1>1, <1>3 DEF Scanned, Stored, Served, ServedNames
  <1> HIDE DEF AllLists
  <1> QED
    BY <1>2, <1>4, <1>5 DEF UsageOK, ServedNames

LEMMA ReadMoves ==
    ASSUME UploadInv, ContentInv, NEW w \in Writers, ReadBody(w)
    PROVE  \E r : Moved(w, r)
  <1>1. PICK u : u = upload[w]
    OBVIOUS
  <1>2. PICK full : full = IF u.op = "stream" /\ Len(u.lines) > BatchSize THEN BatchSize ELSE Len(u.lines)
    OBVIOUS
  <1>3. PICK batch, rest : batch = SubSeq(u.lines, 1, full) /\ rest = SubSeq(u.lines, full + 1, Len(u.lines))
    OBVIOUS
  <1>4. /\ u.at = "read" /\ StoreStays
        /\ Step(w, IF Contains(batch, Bad) THEN Failed(u)
                     ELSE IF u.op = "stream" /\ batch = <<>> THEN [u EXCEPT !.at = "audit"]
                     ELSE [u EXCEPT !.acc = batch, !.lines = rest, !.at = "usage", !.quota = AllLists])
    BY <1>1, <1>2, <1>3 DEF ReadBody, StoreStays
  <1>5. u # Waiting
    BY <1>4 DEF Waiting
  <1>6. RequestOK(u) /\ HandlerOK(u, current, commits) /\ Stored(current, body) /\ u.list \in Names
    BY <1>1, <1>5, Running
  <1>7. CASE Contains(batch, Bad)
    BY <1>1, <1>4, <1>5, <1>7, FailedMoves
  <1>8. CASE ~Contains(batch, Bad) /\ u.op = "stream" /\ batch = <<>>
    <2>1. PICK r : r = [u EXCEPT !.at = "audit"]
      OBVIOUS
    <2>2. r.at = "audit" /\ r.op = u.op /\ r.list = u.list /\ r.applied = u.applied /\ r.mine = u.mine
      BY <1>6, <2>1 DEF RequestOK, Shape, Fields
    <2>3. Step(w, r) /\ HandlerOK(r, current, commits)
      BY <1>4, <1>6, <1>8, <2>1, <2>2 DEF HandlerOK
    <2> QED
      BY <1>4, <2>2, <2>3 DEF Moved, Rests
  <1>9. CASE ~Contains(batch, Bad) /\ ~(u.op = "stream" /\ batch = <<>>)
    <2>1. PICK r : r = [u EXCEPT !.acc = batch, !.lines = rest, !.at = "usage", !.quota = AllLists]
      OBVIOUS
    <2>2. /\ r.at = "usage" /\ r.op = u.op /\ r.list = u.list /\ r.applied = u.applied /\ r.mine = u.mine
          /\ r.acc = batch /\ r.quota = AllLists
      BY <1>6, <2>1 DEF RequestOK, Shape, Fields
    <2>3. batch \in Seq(Lines)
      <3>1. PICK lines \in Seq(BodyLines) : lines = u.lines
        BY <1>6 DEF RequestOK, Shape
      <3>2. Len(lines) \in Nat /\ full \in 0 .. Len(lines)
        BY <1>2, <3>1, UploadAssumption DEF UploadConstants
      <3>3. batch \in Seq(BodyLines)
        BY <1>3, <3>1, <3>2
      <3>4. Len(batch) \in Nat /\ DOMAIN batch = 1 .. Len(batch) /\ \A k \in 1 .. Len(batch) : batch[k] \in BodyLines
        BY <3>3
      <3>5. \A k \in 1 .. Len(batch) : batch[k] # Bad
        BY <1>9, <3>4 DEF Contains
      <3>6. \A k \in 1 .. Len(batch) : batch[k] \in Lines
        BY <3>4, <3>5 DEF BodyLines, Lines
      <3>7. batch = [k \in 1 .. Len(batch) |-> batch[k]]
        BY <3>3
      <3>8. PICK k0 \in Nat : k0 = Len(batch)
        BY <3>4
      <3>9. batch \in [1 .. k0 -> Lines]
        BY <3>6, <3>7, <3>8
      <3> QED
        BY <3>9
    <2>4. Step(w, r)
      BY <1>4, <1>9, <2>1
    <2>5. UsageOK(r.quota, current)
      BY <1>6, <2>2, AllListsOK, Zenon
    <2>6. HandlerOK(r, current, commits)
      BY <1>4, <1>6, <2>2, <2>3, <2>5 DEF HandlerOK
    <2>7. r # Waiting
      BY <2>2 DEF Waiting
    <2> QED
      BY <1>4, <2>2, <2>4, <2>6, <2>7 DEF Moved
  <1> QED
    BY <1>7, <1>8, <1>9

LEMMA AddMoves ==
    ASSUME UploadInv, ContentInv, NEW w \in Writers, AddUsage(w)
    PROVE  \E r : Moved(w, r)
  <1>1. PICK u : u = upload[w]
    OBVIOUS
  <1>2. PICK l, k : l = Min(u.quota.todo) /\ k = KeyCount(body[u.quota.seen[l]])
    OBVIOUS
  <1>3. PICK r : r = [u EXCEPT !.quota.todo = @ \ {l}, !.quota.sum = @ + k]
    OBVIOUS
  <1>4. u.at = "usage" /\ u.quota.todo # {} /\ StoreStays /\ Step(w, r)
    BY <1>1, <1>2, <1>3 DEF AddUsage, StoreStays
  <1>5. u # Waiting
    BY <1>4 DEF Waiting
  <1>6. RequestOK(u) /\ HandlerOK(u, current, commits) /\ Stored(current, body)
    BY <1>1, <1>5, Running
  <1>7. UsageOK(u.quota, current) /\ Scanned(u.quota.todo, u.quota.seen) /\ u.quota.sum \in Nat
    BY <1>4, <1>6 DEF HandlerOK, UsageOK
  <1>8. /\ r.at = "usage" /\ r.op = u.op /\ r.list = u.list /\ r.applied = u.applied /\ r.mine = u.mine
        /\ r.acc = u.acc
    BY <1>3, <1>4, <1>6 DEF RequestOK, Shape, Fields
  <1>9. r.quota = [u.quota EXCEPT !.todo = @ \ {l}, !.sum = @ + k]
    BY <1>3, <1>6 DEF RequestOK, Shape, Fields
  <1>10. /\ DOMAIN r.quota = {"todo", "seen", "sum"} /\ r.quota.todo = u.quota.todo \ {l}
         /\ r.quota.seen = u.quota.seen /\ r.quota.sum = u.quota.sum + k
    BY <1>7, <1>9 DEF UsageOK
  <1>11. l \in u.quota.todo /\ l \in Names
    <2>1. PICK T : T = u.quota.todo
      OBVIOUS
    <2>2. T \in SUBSET Nat /\ T # {} /\ T \subseteq Names
      BY <1>4, <1>7, <2>1, UploadAssumption DEF Scanned, UploadConstants
    <2>3. \E m \in T : \A n \in T : m <= n
      BY <2>2, Least
    <2>4. Min(T) \in T
      BY <2>3 DEF Min
    <2> QED
      BY <1>2, <2>1, <2>2, <2>4
  <1>12. body \in [Objects -> [Ids -> Nat]]
    BY <1>6 DEF Stored
  <1>13. k \in Nat /\ Scanned(r.quota.todo, r.quota.seen)
    <2>1. k \in Nat
      BY <1>2, <1>7, <1>11, <1>12, DueNat
    <2>2. Scanned(u.quota.todo \ {l}, u.quota.seen)
      BY <1>7, <1>11, <1>12, DueWithout, Zenon
    <2> QED
      BY <1>10, <2>1, <2>2
  <1>14. UsageOK(r.quota, current)
    <2>1. r.quota.sum \in Nat
      BY <1>7, <1>10, <1>13
    <2>2. \A m \in r.quota.todo : r.quota.seen[m] < NextObject(current)
      BY <1>7, <1>10 DEF UsageOK
    <2> QED
      BY <1>10, <1>13, <2>1, <2>2 DEF UsageOK
  <1>15. HandlerOK(r, current, commits)
    BY <1>4, <1>6, <1>8, <1>14 DEF HandlerOK
  <1>16. Sees(upload[w], r, l) /\ r # Waiting
    BY <1>1, <1>2, <1>4, <1>5, <1>8, <1>10, <1>11 DEF Sees, Waiting
  <1> QED
    BY <1>4, <1>8, <1>11, <1>15, <1>16 DEF Moved

LEMMA DecideMoves ==
    ASSUME UploadInv, ContentInv, NEW w \in Writers, DecideKeys(w)
    PROVE  \E r : Moved(w, r)
  <1>1. PICK u : u = upload[w]
    OBVIOUS
  <1>2. /\ u.at = "usage" /\ u.quota.todo = {} /\ StoreStays
        /\ Step(w, IF WithinQuota(u) THEN [u EXCEPT !.at = "apply", !.quota = NoUsage] ELSE Failed(u))
    BY <1>1 DEF DecideKeys, StoreStays
  <1>3. u # Waiting
    BY <1>2 DEF Waiting
  <1>4. RequestOK(u) /\ HandlerOK(u, current, commits)
    BY <1>1, <1>3, Running
  <1>5. CASE WithinQuota(u)
    <2>1. PICK r : r = [u EXCEPT !.at = "apply", !.quota = NoUsage]
      OBVIOUS
    <2>2. /\ r.at = "apply" /\ r.op = u.op /\ r.list = u.list /\ r.applied = u.applied /\ r.mine = u.mine
          /\ r.acc = u.acc
      BY <1>4, <2>1 DEF RequestOK, Shape, Fields
    <2>3. Step(w, r) /\ HandlerOK(r, current, commits)
      BY <1>2, <1>4, <1>5, <2>1, <2>2 DEF HandlerOK
    <2>4. Passes(upload[w], r)
      BY <1>1, <1>2, <1>3, <1>5, <2>2 DEF Passes
    <2>5. r.op # "create"
      BY <1>2, <1>4, <2>2 DEF HandlerOK, Uploading
    <2> QED
      BY <1>2, <2>3, <2>4, <2>5 DEF Moved
  <1>6. CASE ~WithinQuota(u)
    BY <1>1, <1>2, <1>3, <1>6, FailedMoves
  <1> QED
    BY <1>5, <1>6

LEMMA CountMoves ==
    ASSUME UploadInv, ContentInv, NEW w \in Writers, CheckCount(w)
    PROVE  \E r : Moved(w, r)
  <1>1. PICK u : u = upload[w]
    OBVIOUS
  <1>2. u.at = "count" /\ StoreStays /\ Step(w, IF RoomForList THEN [u EXCEPT !.at = "apply"] ELSE Waiting)
    BY <1>1 DEF CheckCount, StoreStays
  <1>3. u # Waiting
    BY <1>2 DEF Waiting
  <1>4. RequestOK(u) /\ HandlerOK(u, current, commits)
    BY <1>1, <1>3, Running
  <1>5. CASE RoomForList
    <2>1. PICK r : r = [u EXCEPT !.at = "apply"]
      OBVIOUS
    <2>2. /\ r.at = "apply" /\ r.op = u.op /\ r.list = u.list /\ r.applied = u.applied /\ r.mine = u.mine
          /\ r.acc = u.acc
      BY <1>4, <2>1 DEF RequestOK, Shape, Fields
    <2>3. u.op = "create" /\ u.acc \in Seq(Lines)
      BY <1>2, <1>4 DEF RequestOK, HandlerOK
    <2>4. Step(w, r) /\ HandlerOK(r, current, commits)
      BY <1>2, <1>4, <1>5, <2>1, <2>2, <2>3 DEF HandlerOK
    <2> QED
      BY <1>2, <1>5, <2>2, <2>3, <2>4 DEF Moved, Rests, Uploading
  <1>6. CASE ~RoomForList
    BY <1>2, <1>6 DEF Moved, Rests
  <1> QED
    BY <1>5, <1>6

LEMMA HandlerMoves ==
    ASSUME UploadInv, ContentInv, NEW w \in Writers,
           \/ \E ask \in Asked : Begin(w, ask)
           \/ ReadBody(w) \/ AddUsage(w) \/ DecideKeys(w) \/ CheckCount(w) \/ Refused(w) \/ Audit(w)
    PROVE  \E r : Moved(w, r)
  <1>1. CASE Refused(w)
    <2>1. upload[w] # Waiting /\ Step(w, Failed(upload[w])) /\ StoreStays
      BY <1>1 DEF Refused, StoreStays, Waiting
    <2> QED
      BY <2>1, FailedMoves
  <1>2. CASE Audit(w)
    BY <1>2 DEF Audit, Moved, Rests, StoreStays
  <1> QED
    BY <1>1, <1>2, BeginMoves, ReadMoves, AddMoves, DecideMoves, CountMoves

LEMMA MaxOfTwo ==
    ASSUME NEW a \in Nat, NEW b \in Nat
    PROVE  Max({a, b}) \in Nat /\ Max({a, b}) >= a /\ Max({a, b}) >= b
  <1> DEFINE S == {a, b}
  <1>1. \E m \in S : \A n \in S : m >= n
    <2>1. CASE a >= b
      BY <2>1
    <2>2. CASE b >= a
      BY <2>2
    <2> QED
      BY <2>1, <2>2
  <1>2. a \in S /\ b \in S /\ S \subseteq Nat
    OBVIOUS
  <1> HIDE DEF S
  <1>3. Max(S) \in S /\ \A n \in S : Max(S) >= n
    BY <1>1 DEF Max
  <1>4. Max(S) \in Nat /\ Max(S) >= a /\ Max(S) >= b
    BY <1>2, <1>3
  <1> QED
    BY <1>4 DEF S

LEMMA CommitsCount ==
    ASSUME UploadInv
    PROVE  /\ Len(commits) \in Nat /\ DOMAIN commits = 1 .. Len(commits) /\ IsFiniteSet(DOMAIN commits)
           /\ \A v \in DOMAIN commits : commits[v].n \in Nat
  <1>1. commits \in Seq([obj : 0 .. MaxObjects, n : Nat])
    BY DEF UploadInv, CommitTypes
  <1>2. Len(commits) \in Nat /\ DOMAIN commits = 1 .. Len(commits)
    BY <1>1
  <1>3. IsFiniteSet(1 .. Len(commits))
    BY <1>2, FS_Interval
  <1>4. \A v \in 1 .. Len(commits) : commits[v] \in [obj : 0 .. MaxObjects, n : Nat]
    <2>1. PICK S : S = [obj : 0 .. MaxObjects, n : Nat]
      OBVIOUS
    <2>2. commits \in Seq(S)
      BY <1>1, <2>1
    <2>3. \A v \in 1 .. Len(commits) : commits[v] \in S
      BY <2>2
    <2> QED
      BY <2>1, <2>3
  <1>5. IsFiniteSet(DOMAIN commits)
    BY <1>2, <1>3, Zenon
  <1>6. \A v \in DOMAIN commits : commits[v].n \in Nat
    BY <1>2, <1>4
  <1> QED
    BY <1>2, <1>5, <1>6

LEMMA StaysFollows ==
    ASSUME UploadInv, StoreStays
    PROVE  Follows(current, commits, current', commits')
  <1>1. current \in [Names -> 0 .. MaxObjects]
    BY DEF UploadInv, CommitTypes
  <1>2. Names # {} => NextObject(current) \in Nat
    BY <1>1, FreshAbove
  <1>3. Names # {} => NextObject(current) <= NextObject(current)
    BY <1>2
  <1>4. current' = current /\ commits' = commits
    BY DEF StoreStays
  <1> QED
    BY <1>1, <1>3, <1>4, CommitsCount, Zenon DEF Follows

LEMMA MovedContent ==
    ASSUME UploadInv, ContentInv, NEW w \in Writers, NEW r, Moved(w, r)
    PROVE  ContentInv'
  <1>1. StoreStays /\ Step(w, r) /\ (r # Waiting => HandlerOK(r, current, commits))
    BY DEF Moved
  <1>2. Follows(current, commits, current', commits')
    BY <1>1, StaysFollows
  <1>3. \A v \in Writers : upload'[v] # Waiting => HandlerOK(upload'[v], current', commits')
    <2>1. r # Waiting => HandlerOK(r, current', commits')
      BY <1>1 DEF StoreStays
    <2> QED
      BY <1>1, <1>2, <2>1, OthersStay
  <1> QED
    BY <1>1, <1>3 DEF ContentInv, StoreStays, ServedNames, Waiting

LEMMA AddingCount ==
    ASSUME NEW S \in SUBSET Writers
    PROVE  /\ IsFiniteSet(S) /\ Cardinality(S) \in Nat /\ Cardinality(Writers) \in Nat
           /\ Cardinality(S) <= Cardinality(Writers)
  BY FS_Subset, FS_CardinalityType, UploadAssumption DEF UploadConstants

\* What the bound on lists says, with its parts as numbers.
LEMMA ListsBound ==
    ASSUME UploadInv, ContentInv
    PROVE  /\ IsFiniteSet(ServedNames) /\ Cardinality(ServedNames) \in Nat
           /\ shipped.lists \in Nat /\ MaxLists \in Nat
           /\ Max({MaxLists, shipped.lists}) \in Nat
           /\ Max({MaxLists, shipped.lists}) >= MaxLists /\ Max({MaxLists, shipped.lists}) >= shipped.lists
  <1>1. Stored(current, body)
    BY DEF UploadInv, ContentInv, CommitTypes, Stored, Served, ServedNames
  <1>2. IsFiniteSet(ServedNames)
    BY <1>1, ServedFinite, TotalIsUsage
  <1>3. shipped.lists \in Nat /\ MaxLists \in Nat
    BY UploadAssumption DEF ContentInv, UploadConstants
  <1> QED
    BY <1>2, <1>3, FS_CardinalityType, MaxOfTwo

\* A step that adds no list and lets no create through.
LEMMA ListsStay ==
    ASSUME UploadInv, ContentInv, ListsInv, ServedNames' = ServedNames, shipped'.lists = shipped.lists,
           Adding' \subseteq Adding
    PROVE  ListsInv'
  <1> DEFINE s == Cardinality(ServedNames)
             a == Cardinality(Adding)
             b == Cardinality(Adding')
             W == Cardinality(Writers)
             M == Max({MaxLists, shipped.lists})
  <1>1. Adding \in SUBSET Writers
    BY DEF Adding
  <1>2. a \in Nat /\ W \in Nat /\ IsFiniteSet(Adding)
    BY <1>1, AddingCount
  <1>3. b \in Nat /\ b <= a
    BY <1>2, FS_Subset, FS_CardinalityType
  <1>4. s \in Nat /\ M \in Nat
    BY ListsBound
  <1>5. MaxLists > 0 => s + a < M + W
    BY DEF ListsInv
  <1>6. Cardinality(ServedNames)' = s /\ Max({MaxLists, shipped.lists})' = M /\ Cardinality(Writers)' = W
        /\ Cardinality(Adding)' = b
    BY Zenon
  <1>7. MaxLists > 0 => s + b < M + W
    <2> HIDE DEF s, a, b, W, M
    <2> QED
      BY <1>2, <1>3, <1>4, <1>5
  <1> QED
    BY <1>6, <1>7, Zenon DEF ListsInv

LEMMA MovedLists ==
    ASSUME UploadInv, ContentInv, ListsInv, NEW w \in Writers, NEW r, Moved(w, r)
    PROVE  ListsInv'
  <1>1. StoreStays /\ Step(w, r)
    BY DEF Moved
  <1>2. upload'[w] = r /\ \A v \in Writers : v # w => upload'[v] = upload[v]
    BY <1>1 DEF Step, UploadInv, CommitTypes
  <1>3. ServedNames' = ServedNames /\ shipped' = shipped /\ current' = current
    BY <1>1 DEF StoreStays, ServedNames
  <1>4. CASE r # Waiting /\ r.at = "apply" /\ r.op = "create" /\ current[r.list] = 0
    <2>1. MaxLists = 0 \/ RoomForList
      BY <1>4 DEF Moved
    <2> DEFINE s == Cardinality(ServedNames)
               b == Cardinality(Adding')
               W == Cardinality(Writers)
               M == Max({MaxLists, shipped.lists})
    <2>2. Adding' \in SUBSET Writers
      BY DEF Adding
    <2>3. b \in Nat /\ W \in Nat /\ b <= W
      BY <2>2, AddingCount
    <2>4. s \in Nat /\ M \in Nat /\ MaxLists \in Nat /\ M >= MaxLists
      BY ListsBound
    <2>5. MaxLists > 0 => s < MaxLists
      BY <2>1, <2>4 DEF RoomForList
    <2>6. Cardinality(ServedNames)' = s /\ Max({MaxLists, shipped.lists})' = M /\ Cardinality(Writers)' = W
          /\ Cardinality(Adding)' = b
      BY <1>3, Zenon
    <2>7. MaxLists > 0 => s + b < M + W
      <3> HIDE DEF s, b, W, M
      <3> QED
        BY <2>3, <2>4, <2>5
    <2> QED
      BY <2>6, <2>7, Zenon DEF ListsInv
  <1>5. CASE ~(r # Waiting /\ r.at = "apply" /\ r.op = "create" /\ current[r.list] = 0)
    <2>1. Adding' \subseteq Adding
      BY <1>2, <1>3, <1>5 DEF Adding, Waiting
    <2> QED
      BY <1>3, <2>1, ListsStay
  <1> QED
    BY <1>4, <1>5

\* A step that leaves the lists alone leaves other requests as far behind as
\* they were.
LEMMA AbreastSame ==
    ASSUME NEW v \in Writers, upload'[v] = upload[v], StoreStays, NEW R, Abreast(upload[v], R)
    PROVE  Abreast(upload[v], R)'
  <1>1. current' = current /\ body' = body /\ landed' = landed
    BY DEF StoreStays
  <1>2. Usage' = Usage
    BY <1>1, Zenon DEF Usage, KeysOf, ServedNames
  <1>3. Unseen(upload[v])' = Unseen(upload[v])
    BY <1>1, Zenon DEF Unseen, KeysOf
  <1>4. Credit(upload[v])' = Credit(upload[v])
    BY <1>1, Zenon DEF Credit, HeldKeys
  <1> QED
    BY <1>1, <1>2, <1>3, <1>4 DEF Abreast

LEMMA RoundsStay ==
    ASSUME UploadInv, NEW w \in Writers, NEW r, Moved(w, r),
           NEW last \in SUBSET Writers, NEW since \in [Writers -> SUBSET Writers], Rounds(last, since),
           w \in Pending' => w \in Pending /\ (w \in last => Abreast(upload[w], since[w])')
    PROVE  Rounds(last, since)'
  <1>1. StoreStays /\ Step(w, r)
    BY DEF Moved
  <1>2. \A v \in Writers : v # w => upload'[v] = upload[v]
    BY <1>1 DEF Step, UploadInv, CommitTypes
  <1>3. current' = current /\ body' = body /\ landed' = landed /\ shipped' = shipped
    BY <1>1 DEF StoreStays
  <1>4. Usage' = Usage /\ Ceiling' = Ceiling
    BY <1>3, Zenon DEF Usage, KeysOf, ServedNames, Ceiling
  <1>5. Pending' \subseteq Pending
    BY <1>2 DEF Pending
  <1>6. Usage' <= Ceiling' + SumFunctionOnSet(landed', last)
    BY <1>3, <1>4 DEF Rounds
  <1>7. ASSUME NEW v \in Pending', v \in last PROVE since[v] \subseteq last /\ Abreast(upload[v], since[v])'
    <2>1. v \in Pending /\ v \in Writers
      BY <1>5 DEF Pending
    <2>2. since[v] \subseteq last /\ Abreast(upload[v], since[v])
      BY <1>7, <2>1 DEF Rounds
    <2>3. CASE v = w
      BY <1>7, <2>2, <2>3
    <2>4. CASE v # w
      BY <1>1, <1>2, <2>1, <2>2, <2>4, AbreastSame
    <2> QED
      BY <2>3, <2>4
  <1>8. \A v \in Pending' : v \notin since[v]
    BY <1>5 DEF Rounds
  <1>9. \A v, x \in Pending' : v \in since[x] => since[v] \subseteq since[x]
    BY <1>5 DEF Rounds
  <1> QED
    BY <1>6, <1>7, <1>8, <1>9 DEF Rounds

\* A request that begins to count has missed nothing.
LEMMA RoundsBegin ==
    ASSUME UploadInv, NEW w \in Writers, NEW r, Moved(w, r), r # Waiting, r.at = "usage", r.quota = AllLists,
           ContentInv, NEW last \in SUBSET Writers, NEW since \in [Writers -> SUBSET Writers], Rounds(last, since)
    PROVE  Rounds(last, [since EXCEPT ![w] = {}])'
  <1> DEFINE new == [since EXCEPT ![w] = {}]
  <1>1. StoreStays /\ Step(w, r)
    BY DEF Moved
  <1>2. upload'[w] = r /\ \A v \in Writers : v # w => upload'[v] = upload[v]
    BY <1>1 DEF Step, UploadInv, CommitTypes
  <1>3. current' = current /\ body' = body /\ landed' = landed /\ shipped' = shipped
    BY <1>1 DEF StoreStays
  <1>4. Usage' = Usage /\ Ceiling' = Ceiling
    BY <1>3, Zenon DEF Usage, KeysOf, ServedNames, Ceiling
  <1>5. Pending' \subseteq Pending \cup {w} /\ Pending' \subseteq Writers
    BY <1>2 DEF Pending
  <1>6. new \in [Writers -> SUBSET Writers] /\ new[w] = {} /\ \A v \in Writers : v # w => new[v] = since[v]
    OBVIOUS
  <1> HIDE DEF new
  <1>7. Usage' <= Ceiling' + SumFunctionOnSet(landed', last)
    BY <1>3, <1>4 DEF Rounds
  <1>8. Abreast(upload[w], {})'
    <2>1. Usage \in Nat
      BY TotalNat, TotalIsUsage DEF UploadInv, ContentInv, CommitTypes, Stored, Served, ServedNames
    <2>2. AllLists.todo = ServedNames /\ AllLists.seen = current /\ AllLists.sum = 0
      BY DEF AllLists
    <2>3. upload'[w].quota.todo = ServedNames /\ upload'[w].quota.seen = current /\ upload'[w].quota.sum = 0
      BY <1>2, <2>2
    <2>4. KeysOf(ServedNames, current)' = KeysOf(ServedNames, current)
      BY <1>3, Zenon DEF KeysOf, ServedNames
    <2>5. Unseen(upload[w])' = Usage
      BY <1>3, <2>3, Zenon DEF Usage, Unseen, KeysOf
    <2>6. SumFunctionOnSet(landed', {}) = 0
      BY SumEmpty
    <2>7. upload'[w].at = "usage"
      BY <1>2
    <2>8. Usage' <= upload'[w].quota.sum + Unseen(upload[w])' + SumFunctionOnSet(landed', {})
      BY <1>4, <2>1, <2>3, <2>5, <2>6
    <2> QED
      BY <2>7, <2>8 DEF Abreast
  <1>9. ASSUME NEW v \in Pending', v \in last PROVE new[v] \subseteq last /\ Abreast(upload[v], new[v])'
    <2>1. CASE v = w
      BY <1>6, <1>8, <2>1
    <2>2. CASE v # w
      <3>1. v \in Pending /\ v \in Writers
        BY <1>5, <2>2
      <3>2. since[v] \subseteq last /\ Abreast(upload[v], since[v])
        BY <1>9, <3>1 DEF Rounds
      <3>3. Abreast(upload[v], since[v])'
        BY <1>1, <1>2, <2>2, <3>1, <3>2, AbreastSame
      <3> QED
        BY <1>6, <2>2, <3>1, <3>2, <3>3
    <2> QED
      BY <2>1, <2>2
  <1>10. \A v \in Pending' : v \notin new[v]
    BY <1>5, <1>6 DEF Rounds
  <1>11. \A v, x \in Pending' : v \in new[x] => new[v] \subseteq new[x]
    BY <1>5, <1>6 DEF Rounds
  <1>12. Rounds(last, new)'
    BY <1>7, <1>9, <1>10, <1>11 DEF Rounds
  <1> QED
    BY <1>12 DEF new

LEMMA StoredNow ==
    ASSUME UploadInv, ContentInv
    PROVE  /\ Stored(current, body) /\ Usage \in Nat
           /\ \A R \in SUBSET Writers : IsFiniteSet(R) /\ SumFunctionOnSet(landed, R) \in Nat
  <1>1. Stored(current, body)
    BY DEF UploadInv, ContentInv, CommitTypes, Stored, Served, ServedNames
  <1>2. Usage \in Nat
    BY <1>1, TotalNat, TotalIsUsage
  <1>3. ASSUME NEW R \in SUBSET Writers PROVE IsFiniteSet(R) /\ SumFunctionOnSet(landed, R) \in Nat
    <2>1. IsFiniteSet(R)
      BY AddingCount
    <2>2. \A v \in R : landed[v] \in Nat
      BY DEF ContentInv
    <2> QED
      BY <2>1, <2>2, SumNat
  <1> QED
    BY <1>1, <1>2, <1>3

LEMMA AbreastSees ==
    ASSUME UploadInv, ContentInv, NEW w \in Writers, NEW r, Moved(w, r), r # Waiting,
           NEW l \in Names, Sees(upload[w], r, l), NEW R \in SUBSET Writers, Abreast(upload[w], R)
    PROVE  Abreast(upload[w], R)'
  <1>1. PICK u, q, s : u = upload[w] /\ q = u.quota /\ s = SumFunctionOnSet(landed, R)
    OBVIOUS
  <1>2. StoreStays /\ Step(w, r)
    BY DEF Moved
  <1>3. upload'[w] = r
    BY <1>2 DEF Step, UploadInv, CommitTypes
  <1>4. current' = current /\ body' = body /\ landed' = landed
    BY <1>2 DEF StoreStays
  <1>5. Usage' = Usage
    BY <1>4, Zenon DEF Usage, KeysOf, ServedNames
  <1>6. /\ u # Waiting /\ u.at = "usage" /\ l \in q.todo /\ r.at = "usage"
        /\ r.quota.todo = q.todo \ {l} /\ r.quota.seen = q.seen /\ r.quota.sum = q.sum + KeyCount(body[q.seen[l]])
    BY <1>1 DEF Sees
  <1>7. Scanned(q.todo, q.seen) /\ q.sum \in Nat
    BY <1>1, <1>6, Running DEF HandlerOK, UsageOK
  <1>8. body \in [Objects -> [Ids -> Nat]]
    BY DEF ContentInv
  <1>9. Scanned(q.todo \ {l}, q.seen) /\ Moves(q.todo, q.seen, body, l)
    BY <1>6, <1>7, <1>8, DueWithout, Zenon
  <1>10. PICK D1, D2, k : D1 = Due(q.todo, q.seen, body) /\ D2 = Due(q.todo \ {l}, q.seen, body) /\ k = KeyCount(body[q.seen[l]])
    OBVIOUS
  <1>11. D1 = k + D2 /\ D1 \in Nat /\ D2 \in Nat /\ k \in Nat
    <2>1. D1 \in Nat /\ k \in Nat
      BY <1>6, <1>7, <1>8, <1>10, DueNat
    <2>2. D2 \in Nat
      BY <1>8, <1>9, <1>10, DueNat
    <2> QED
      BY <1>9, <1>10, <2>1, <2>2 DEF Moves
  <1>12. Unseen(u) = D1
    BY <1>1, <1>10, Zenon DEF Unseen, KeysOf, Due
  <1>13. Unseen(upload[w])' = D2
    BY <1>3, <1>4, <1>6, <1>10, Zenon DEF Unseen, KeysOf, Due
  <1>14. Usage <= q.sum + D1 + s
    BY <1>1, <1>6, <1>12 DEF Abreast
  <1>15. Usage \in Nat /\ s \in Nat
    BY <1>1, StoredNow
  <1>16. Usage <= (q.sum + k) + D2 + s
    BY <1>7, <1>11, <1>14, <1>15
  <1>17. SumFunctionOnSet(landed', R) = s
    BY <1>1, <1>4
  <1>18. upload'[w].quota.sum = q.sum + k /\ upload'[w].at = "usage"
    BY <1>3, <1>6, <1>10
  <1> QED
    BY <1>5, <1>13, <1>16, <1>17, <1>18 DEF Abreast

LEMMA AbreastPasses ==
    ASSUME UploadInv, ContentInv, NEW w \in Writers, NEW r, Moved(w, r), MaxTotalKeys > 0,
           Passes(upload[w], r), NEW R \in SUBSET Writers, Abreast(upload[w], R)
    PROVE  Abreast(upload[w], R)'
  <1>1. PICK u, q, s : u = upload[w] /\ q = u.quota /\ s = SumFunctionOnSet(landed, R)
    OBVIOUS
  <1>2. StoreStays /\ Step(w, r)
    BY DEF Moved
  <1>3. upload'[w] = r
    BY <1>2 DEF Step, UploadInv, CommitTypes
  <1>4. current' = current /\ body' = body /\ landed' = landed
    BY <1>2 DEF StoreStays
  <1>5. Usage' = Usage
    BY <1>4, Zenon DEF Usage, KeysOf, ServedNames
  <1>6. /\ u # Waiting /\ u.at = "usage" /\ q.todo = {} /\ WithinQuota(u)
        /\ r.at = "apply" /\ r.op = u.op /\ r.list = u.list /\ r.acc = u.acc
    BY <1>1 DEF Passes
  <1>7. q.sum \in Nat /\ u.acc \in Seq(Lines) /\ u.list \in Names /\ (u.op = "replace" => current[u.list] # 0)
    BY <1>1, <1>6, Running DEF HandlerOK, UsageOK
  <1>8. PICK b, c : b = BatchKeys(u.acc) /\ c = Credit(u)
    OBVIOUS
  <1>9. b \in Nat
    BY <1>7, <1>8, BatchAdds, NoContentIsEmpty
  <1>10. c \in Nat /\ q.sum + b <= MaxTotalKeys + c
    <2>1. Stored(current, body)
      BY StoredNow
    <2>2. HeldKeys(u.list) \in Nat
      BY <1>7, <2>1, HeldNat, TotalIsUsage
    <2>3. c \in Nat
      BY <1>8, <2>2 DEF Credit
    <2>4. c = IF u.op = "replace" THEN KeyCount(body[current[u.list]]) ELSE 0
      BY <1>7, <1>8 DEF Credit, HeldKeys
    <2>5. MaxTotalKeys # 0
      BY UploadAssumption DEF UploadConstants
    <2> QED
      BY <1>1, <1>6, <1>8, <2>3, <2>4, <2>5 DEF WithinQuota
  <1>11. Unseen(u) = 0
    <2>1. Unseen(u) = SumFunctionOnSet(KeysOf(u.quota.todo, u.quota.seen), {})
      BY <1>1, <1>6, Zenon DEF Unseen
    <2> QED
      BY <2>1, SumEmpty
  <1>12. Usage <= q.sum + 0 + s
    BY <1>1, <1>6, <1>11 DEF Abreast
  <1>13. Usage \in Nat /\ s \in Nat /\ MaxTotalKeys \in Nat
    BY <1>1, StoredNow, UploadAssumption DEF UploadConstants
  <1>14. Usage + b <= MaxTotalKeys + s + c
    BY <1>7, <1>9, <1>10, <1>12, <1>13
  <1>15. Credit(upload[w])' = c
    BY <1>3, <1>4, <1>6, <1>8, Zenon DEF Credit, HeldKeys
  <1>16. BatchKeys(upload'[w].acc) = b /\ SumFunctionOnSet(landed', R) = s /\ upload'[w].at = "apply"
    BY <1>1, <1>3, <1>4, <1>6, <1>8
  <1> QED
    BY <1>5, <1>14, <1>15, <1>16 DEF Abreast

LEMMA MovedKeys ==
    ASSUME UploadInv, ContentInv, KeysInv, NEW w \in Writers, NEW r, Moved(w, r)
    PROVE  KeysInv'
  <1> SUFFICES ASSUME MaxTotalKeys > 0
               PROVE  \E last \in SUBSET Writers, since \in [Writers -> SUBSET Writers] : Rounds(last, since)'
    BY DEF KeysInv
  <1>1. PICK last \in SUBSET Writers, since \in [Writers -> SUBSET Writers] : Rounds(last, since)
    BY DEF KeysInv
  <1>2. upload'[w] = r
    BY DEF Moved, Step, UploadInv, CommitTypes
  <1>3. CASE Rests(r)
    <2>1. w \notin Pending'
      BY <1>2, <1>3 DEF Pending, Rests, Uploading
    <2> QED
      BY <1>1, <2>1, RoundsStay
  <1>4. CASE r # Waiting /\ r.at = "usage" /\ r.quota = AllLists
    <2>1. Rounds(last, [since EXCEPT ![w] = {}])'
      BY <1>1, <1>4, RoundsBegin
    <2>2. [since EXCEPT ![w] = {}] \in [Writers -> SUBSET Writers]
      OBVIOUS
    <2> QED
      BY <2>1, <2>2
  <1>5. CASE Passes(upload[w], r)
    <2>1. w \in Pending
      BY <1>5 DEF Passes, Pending
    <2>2. w \in last => Abreast(upload[w], since[w])
      BY <1>1, <2>1 DEF Rounds
    <2>3. w \in last => Abreast(upload[w], since[w])'
      BY <1>5, <2>2, AbreastPasses
    <2> QED
      BY <1>1, <2>1, <2>3, RoundsStay
  <1>6. CASE r # Waiting /\ \E l \in Names : Sees(upload[w], r, l)
    <2>1. w \in Pending
      BY <1>6 DEF Sees, Pending
    <2>2. w \in last => Abreast(upload[w], since[w])
      BY <1>1, <2>1 DEF Rounds
    <2>3. w \in last => Abreast(upload[w], since[w])'
      BY <1>6, <2>2, AbreastSees
    <2> QED
      BY <1>1, <2>1, <2>3, RoundsStay
  <1> QED
    BY <1>3, <1>4, <1>5, <1>6 DEF Moved

-----------------------------------------------------------------------------
(* Store operations.                                                       *)

\* A request has committed, and the others have seen nothing of it.
CommitDone(w) ==
    /\ upload[w] # Waiting /\ upload[w].at = "apply" /\ upload'[w].at \in {"read", "audit"}
    /\ \A v \in Writers : v # w => upload'[v] = upload[v]
    /\ \A v \in Writers : upload'[v] # Waiting => HandlerOK(upload'[v], current', commits')
    /\ \A v \in DOMAIN commits' : commits'[v].obj \in Objects
    /\ Follows(current, commits, current', commits') /\ audits' = audits

\* What a handler knows when its batch is in.
HandsOn(u, r) ==
    /\ DOMAIN r = Fields /\ r.op = u.op /\ r.list = u.list /\ r.applied = u.applied /\ r.mine = u.mine
    /\ r.at = "audit" \/ (r.at = "read" /\ u.op = "stream")

LEMMA CommitFollows ==
    ASSUME UploadInv, NEW o, NEW n \in Nat, commits' = Append(commits, [obj |-> o, n |-> n]),
           current' \in [Names -> 0 .. MaxObjects], \A m \in Names : current[m] # 0 => current'[m] # 0,
           Names # {} => NextObject(current) <= NextObject(current')
    PROVE  /\ Follows(current, commits, current', commits')
           /\ DOMAIN commits' = DOMAIN commits \cup {Len(commits) + 1} /\ Len(commits) + 1 \notin DOMAIN commits
           /\ commits'[Len(commits) + 1] = [obj |-> o, n |-> n]
           /\ \A v \in DOMAIN commits : commits'[v] = commits[v]
  <1>1. /\ Len(commits) \in Nat /\ DOMAIN commits = 1 .. Len(commits) /\ IsFiniteSet(DOMAIN commits)
        /\ \A v \in DOMAIN commits : commits[v].n \in Nat
    BY CommitsCount
  <1>2. commits \in Seq([obj : 0 .. MaxObjects, n : Nat]) /\ current \in [Names -> 0 .. MaxObjects]
    BY DEF UploadInv, CommitTypes
  <1>3. PICK e : e = [obj |-> o, n |-> n]
    OBVIOUS
  <1>4. commits' = Append(commits, e)
    BY <1>3
  <1>5. /\ commits' = [v \in 1 .. Len(commits) + 1 |-> IF v <= Len(commits) THEN commits[v] ELSE e]
    BY <1>2, <1>4
  <1>6. DOMAIN commits' = 1 .. Len(commits) + 1 /\ commits'[Len(commits) + 1] = e
        /\ \A v \in 1 .. Len(commits) : commits'[v] = commits[v]
    BY <1>1, <1>5
  <1>7. DOMAIN commits' = DOMAIN commits \cup {Len(commits) + 1} /\ Len(commits) + 1 \notin DOMAIN commits
        /\ \A v \in DOMAIN commits : commits'[v] = commits[v]
    BY <1>1, <1>6
  <1>8. Follows(current, commits, current', commits')
    BY <1>1, <1>2, <1>7 DEF Follows
  <1> QED
    BY <1>3, <1>6, <1>7, <1>8

LEMMA CommitFacts ==
    ASSUME UploadInv, ContentInv, NEW w \in Writers, upload[w] # Waiting, upload[w].at = "apply",
           NEW r, HandsOn(upload[w], r), NEW o \in Objects, NEW n \in Nat, Commit(w, r, o, n), audits' = audits,
           current' \in [Names -> 0 .. MaxObjects], \A m \in Names : current[m] # 0 => current'[m] # 0,
           Names # {} => NextObject(current) <= NextObject(current')
    PROVE  CommitDone(w)
  <1>1. PICK u, c : u = upload[w] /\ c = Len(commits) + 1
    OBVIOUS
  <1>2. PICK r2 : r2 = [r EXCEPT !.version = c, !.applied = @ + n, !.mine = @ \cup {c}]
    OBVIOUS
  <1>3. commits' = Append(commits, [obj |-> o, n |-> n]) /\ Step(w, r2)
    BY <1>1, <1>2 DEF Commit
  <1>4. /\ Follows(current, commits, current', commits')
        /\ DOMAIN commits' = DOMAIN commits \cup {c} /\ c \notin DOMAIN commits /\ commits'[c] = [obj |-> o, n |-> n]
        /\ \A v \in DOMAIN commits : commits'[v] = commits[v]
    BY <1>1, <1>3, CommitFollows
  <1>5. RequestOK(u) /\ HandlerOK(u, current, commits) /\ u.list \in Names /\ u.mine \subseteq DOMAIN commits
    BY <1>1, Running
  <1>6. /\ r2.op = u.op /\ r2.list = u.list /\ r2.at = r.at /\ r2.applied = u.applied + n /\ r2.mine = u.mine \cup {c}
    BY <1>1, <1>2 DEF HandsOn, Fields
  <1>7. r2.applied = SumFunctionOnSet(SizesOf(commits'), r2.mine)
    <2> DEFINE f == SizesOf(commits')
    <2>1. SameSizes(commits, commits', u.mine)
      BY <1>4, <1>5, SizesStay, Zenon
    <2>2. u.applied = SumFunctionOnSet(f, u.mine)
      BY <1>5, <2>1, Zenon DEF SameSizes, HandlerOK
    <2>3. IsFiniteSet(u.mine)
      BY <1>5, CommitsCount, FS_Subset
    <2>4. \A v \in u.mine : f[v] \in Nat
      BY <1>4, <1>5, CommitsCount DEF SizesOf
    <2>5. f[c] = n /\ c \notin u.mine
      BY <1>4, <1>5 DEF SizesOf
    <2> HIDE DEF f
    <2>6. SumFunctionOnSet(f, u.mine \cup {c}) = SumFunctionOnSet(f, u.mine) + f[c]
      BY <2>3, <2>4, <2>5, SumIn
    <2>7. SumFunctionOnSet(f, u.mine \cup {c}) = r2.applied
      BY <1>6, <2>2, <2>5, <2>6
    <2>8. SumFunctionOnSet(f, r2.mine) = r2.applied
      BY <1>6, <2>7, Zenon
    <2> QED
      BY <2>8 DEF f
  <1>8. HandlerOK(u, current', commits')
    BY <1>4, <1>5, HandlerStays
  <1>9. HandlerOK(r2, current', commits')
    <2>1. r2.at \in {"read", "audit"} /\ (r2.at = "read" => r2.op \in Uploading)
      BY <1>1, <1>6 DEF HandsOn, Uploading
    <2> QED
      BY <1>6, <1>7, <1>8, <2>1 DEF HandlerOK
  <1>10. /\ upload'[w] = r2 /\ \A v \in Writers : v # w => upload'[v] = upload[v]
         /\ \A v \in Writers : upload'[v] # Waiting => HandlerOK(upload'[v], current', commits')
    BY <1>3, <1>4, <1>9, OthersStay
  <1>11. \A v \in DOMAIN commits' : commits'[v].obj \in Objects
    BY <1>4 DEF ContentInv
  <1>12. upload'[w].at \in {"read", "audit"}
    BY <1>6, <1>10 DEF HandsOn
  <1> QED
    BY <1>4, <1>10, <1>11, <1>12 DEF CommitDone

\* A request writes to the list it found.
Writes(w, o, new) ==
    /\ CommitDone(w) /\ current' = current /\ shipped' = shipped
    /\ o = current[upload[w].list] /\ o \in Objects
    /\ new \in [Ids -> Nat] /\ body' = [body EXCEPT ![o] = new]

\* A batch lands: what it replaces is credited.
Lands(w, o, new) ==
    LET b == BatchKeys(upload[w].acc)
    IN /\ Writes(w, o, new) /\ upload[w].op \in Uploading
       /\ b \in Nat /\ landed' = [landed EXCEPT ![w] = b]
       /\ KeyCount(new) + Credit(upload[w]) <= KeyCount(body[o]) + b

Shrinks(w, o, new) ==
    /\ Writes(w, o, new) /\ upload[w].op \in {"delete", "compact"} /\ landed' = landed
    /\ KeyCount(new) <= KeyCount(body[o])

\* What a request that writes has found.
LEMMA WriterFacts ==
    ASSUME UploadInv, ContentInv, NEW w \in Writers, NEW ops, Stands(w, ops), ops \cap {"create", "reload"} = {}
    PROVE  /\ upload[w] # Waiting /\ upload[w].at = "apply" /\ upload[w].op \in ops
           /\ RequestOK(upload[w]) /\ upload[w].acc \in Seq(Lines) /\ Len(upload[w].acc) \in Nat
           /\ upload[w].list \in Names
           /\ current[upload[w].list] # 0 /\ current[upload[w].list] \in Objects
           /\ body[current[upload[w].list]] \in [Ids -> Nat]
           /\ current \in [Names -> 0 .. MaxObjects]
           /\ Names # {} => NextObject(current) <= NextObject(current)
  <1>1. upload[w] # Waiting /\ upload[w].at = "apply" /\ upload[w].op \in ops
    BY DEF Stands, Waiting
  <1>2. /\ RequestOK(upload[w]) /\ HandlerOK(upload[w], current, commits) /\ upload[w].list \in Names
        /\ Stored(current, body)
    BY <1>1, Running
  <1>3. upload[w].acc \in Seq(Lines) /\ current[upload[w].list] # 0
    BY <1>1, <1>2 DEF HandlerOK
  <1>4. current[upload[w].list] \in Objects /\ body[current[upload[w].list]] \in [Ids -> Nat]
    BY <1>2, <1>3, HeldNat
  <1>5. current \in [Names -> 0 .. MaxObjects]
    BY <1>2 DEF Stored
  <1>6. Names # {} => NextObject(current) <= NextObject(current)
    <2>1. Names # {} => NextObject(current) \in Nat
      BY <1>5, FreshAbove
    <2> QED
      BY <2>1
  <1>7. Len(upload[w].acc) \in Nat
    BY <1>3
  <1> QED
    BY <1>1, <1>2, <1>3, <1>4, <1>5, <1>6, <1>7

LEMMA UpsertLands ==
    ASSUME UploadInv, ContentInv, NEW w \in Writers, Upsert(w)
    PROVE  \E o, new : Lands(w, o, new)
  <1>1. PICK u, o, next : u = upload[w] /\ o = current[u.list] /\ next = IF u.op = "stream" THEN "read" ELSE "audit"
    OBVIOUS
  <1>2. PICK r : r = [u EXCEPT !.acc = <<>>, !.at = next]
    OBVIOUS
  <1>3. PICK new : new = Upserted(body[o], u.acc)
    OBVIOUS
  <1>4. /\ Stands(w, {"stream", "upsert"}) /\ Commit(w, r, o, Len(u.acc)) /\ body' = [body EXCEPT ![o] = new]
        /\ landed' = [landed EXCEPT ![w] = BatchKeys(u.acc)] /\ current' = current /\ audits' = audits
        /\ shipped' = shipped
    BY <1>1, <1>2, <1>3 DEF Upsert
  <1>5. /\ u # Waiting /\ u.at = "apply" /\ u.op \in {"stream", "upsert"} /\ RequestOK(u) /\ u.acc \in Seq(Lines)
        /\ Len(u.acc) \in Nat /\ o \in Objects /\ body[o] \in [Ids -> Nat] /\ current \in [Names -> 0 .. MaxObjects]
        /\ Names # {} => NextObject(current) <= NextObject(current)
    BY <1>1, <1>4, WriterFacts
  <1>6. HandsOn(u, r)
    BY <1>1, <1>2, <1>5 DEF HandsOn, RequestOK, Shape, Fields
  <1>7. CommitDone(w)
    BY <1>1, <1>4, <1>5, <1>6, CommitFacts
  <1>8. /\ new \in [Ids -> Nat] /\ BatchKeys(u.acc) \in Nat /\ KeyCount(new) <= KeyCount(body[o]) + BatchKeys(u.acc)
    BY <1>3, <1>5, BatchAdds
  <1>9. KeyCount(new) \in Nat /\ Credit(u) = 0
    BY <1>5, <1>8, KeyCountNat DEF Credit
  <1>10. KeyCount(new) + Credit(u) <= KeyCount(body[o]) + BatchKeys(u.acc)
    BY <1>8, <1>9
  <1>11. Writes(w, o, new)
    BY <1>1, <1>4, <1>5, <1>7, <1>8 DEF Writes
  <1>12. Lands(w, o, new)
    BY <1>1, <1>4, <1>5, <1>8, <1>10, <1>11 DEF Lands, Uploading
  <1> QED
    BY <1>12

LEMMA ReplaceLands ==
    ASSUME UploadInv, ContentInv, NEW w \in Writers, Replace(w)
    PROVE  \E o, new : Lands(w, o, new)
  <1>1. PICK u, o : u = upload[w] /\ o = current[u.list]
    OBVIOUS
  <1>2. PICK r : r = [u EXCEPT !.acc = <<>>, !.at = "audit"]
    OBVIOUS
  <1>3. PICK new : new = Upserted(NoContent, u.acc)
    OBVIOUS
  <1>4. /\ Stands(w, {"replace"}) /\ Commit(w, r, o, Len(u.acc)) /\ body' = [body EXCEPT ![o] = new]
        /\ landed' = [landed EXCEPT ![w] = BatchKeys(u.acc)] /\ current' = current /\ audits' = audits
        /\ shipped' = shipped
    BY <1>1, <1>2, <1>3 DEF Replace
  <1>5. /\ u # Waiting /\ u.at = "apply" /\ u.op \in {"replace"} /\ RequestOK(u) /\ u.acc \in Seq(Lines)
        /\ Len(u.acc) \in Nat /\ o # 0 /\ o \in Objects /\ body[o] \in [Ids -> Nat]
        /\ current \in [Names -> 0 .. MaxObjects]
        /\ Names # {} => NextObject(current) <= NextObject(current)
    BY <1>1, <1>4, WriterFacts
  <1>6. HandsOn(u, r)
    BY <1>1, <1>2, <1>5 DEF HandsOn, RequestOK, Shape, Fields
  <1>7. CommitDone(w)
    BY <1>1, <1>4, <1>5, <1>6, CommitFacts
  <1>8. /\ new \in [Ids -> Nat] /\ BatchKeys(u.acc) \in Nat /\ KeyCount(new) <= KeyCount(NoContent) + BatchKeys(u.acc)
    BY <1>3, <1>5, BatchAdds, NoContentIsEmpty
  <1>9. KeyCount(new) \in Nat /\ KeyCount(body[o]) \in Nat /\ Credit(u) = KeyCount(body[o]) /\ KeyCount(NoContent) = 0
    BY <1>1, <1>5, <1>8, KeyCountNat, NoContentIsEmpty DEF Credit, HeldKeys
  <1>10. KeyCount(new) + Credit(u) <= KeyCount(body[o]) + BatchKeys(u.acc)
    BY <1>8, <1>9
  <1>11. Writes(w, o, new)
    BY <1>1, <1>4, <1>5, <1>7, <1>8 DEF Writes
  <1>12. Lands(w, o, new)
    BY <1>1, <1>4, <1>5, <1>8, <1>10, <1>11 DEF Lands, Uploading
  <1> QED
    BY <1>12

LEMMA DeleteIsSmaller ==
    ASSUME UploadInv, ContentInv, NEW w \in Writers, Delete(w)
    PROVE  \E o, new : Shrinks(w, o, new)
  <1>1. PICK u, o : u = upload[w] /\ o = current[u.list]
    OBVIOUS
  <1>2. PICK r, i : r = [u EXCEPT !.at = "audit"] /\ i = Head(u.lines).id
    OBVIOUS
  <1>3. PICK new : new = [body[o] EXCEPT ![i] = 0]
    OBVIOUS
  <1>4. /\ Stands(w, {"delete"}) /\ Commit(w, r, o, 1) /\ body' = [body EXCEPT ![o][i] = 0]
        /\ landed' = landed /\ current' = current /\ audits' = audits /\ shipped' = shipped
    BY <1>1, <1>2 DEF Delete
  <1>5. /\ u # Waiting /\ u.at = "apply" /\ u.op \in {"delete"} /\ RequestOK(u)
        /\ o \in Objects /\ body[o] \in [Ids -> Nat] /\ current \in [Names -> 0 .. MaxObjects]
        /\ Names # {} => NextObject(current) <= NextObject(current)
    BY <1>1, <1>4, WriterFacts
  <1>6. HandsOn(u, r)
    BY <1>1, <1>2, <1>5 DEF HandsOn, RequestOK, Shape, Fields
  <1>7. CommitDone(w)
    BY <1>1, <1>4, <1>5, <1>6, CommitFacts
  <1>8. new \in [Ids -> Nat] /\ KeyCount(new) <= KeyCount(body[o])
    BY <1>3, <1>5, DeleteShrinks
  <1>9. body' = [body EXCEPT ![o] = new]
    BY <1>3, <1>4
  <1>10. Writes(w, o, new)
    BY <1>1, <1>4, <1>5, <1>7, <1>8, <1>9 DEF Writes
  <1>11. Shrinks(w, o, new)
    BY <1>1, <1>4, <1>5, <1>8, <1>10 DEF Shrinks
  <1> QED
    BY <1>11

LEMMA CompactIsSmaller ==
    ASSUME UploadInv, ContentInv, NEW w \in Writers, Compact(w)
    PROVE  \E o, new : Shrinks(w, o, new)
  <1>1. PICK u, o : u = upload[w] /\ o = current[u.list]
    OBVIOUS
  <1>2. PICK r, n : r = [u EXCEPT !.at = "audit"] /\ n = Present(body[o])
    OBVIOUS
  <1>3. /\ Stands(w, {"compact"}) /\ Commit(w, r, o, n) /\ body' = body
        /\ landed' = landed /\ current' = current /\ audits' = audits /\ shipped' = shipped
    BY <1>1, <1>2 DEF Compact
  <1>4. /\ u # Waiting /\ u.at = "apply" /\ u.op \in {"compact"} /\ RequestOK(u)
        /\ o \in Objects /\ body[o] \in [Ids -> Nat] /\ current \in [Names -> 0 .. MaxObjects]
        /\ Names # {} => NextObject(current) <= NextObject(current)
    BY <1>1, <1>3, WriterFacts
  <1>5. HandsOn(u, r)
    BY <1>1, <1>2, <1>4 DEF HandsOn, RequestOK, Shape, Fields
  <1>6. n \in Nat
    BY <1>2, PresentIsNat, UploadAssumption
  <1>7. CommitDone(w)
    BY <1>1, <1>3, <1>4, <1>5, <1>6, CommitFacts
  <1>8. KeyCount(body[o]) <= KeyCount(body[o])
    <2>1. KeyCount(body[o]) \in Nat
      BY <1>4, KeyCountNat
    <2> QED
      BY <2>1
  <1>9. body' = [body EXCEPT ![o] = body[o]]
    BY <1>3 DEF ContentInv
  <1>10. Writes(w, o, body[o])
    BY <1>1, <1>3, <1>4, <1>7, <1>9 DEF Writes
  <1>11. Shrinks(w, o, body[o])
    BY <1>1, <1>3, <1>4, <1>8, <1>10 DEF Shrinks
  <1> QED
    BY <1>11

LEMMA WritesContent ==
    ASSUME UploadInv, ContentInv, NEW w \in Writers, NEW o, NEW new, Writes(w, o, new), landed' \in [Writers -> Nat]
    PROVE  ContentInv'
  <1>1. body' \in [Objects -> [Ids -> Nat]]
    BY DEF Writes, ContentInv
  <1>2. CommitDone(w) /\ current' = current /\ shipped' = shipped
    BY DEF Writes
  <1>3. /\ \A v \in Writers : upload'[v] # Waiting => HandlerOK(upload'[v], current', commits')
        /\ \A v \in DOMAIN commits' : commits'[v].obj \in Objects
    BY <1>2 DEF CommitDone
  <1> QED
    BY <1>1, <1>2, <1>3 DEF ContentInv, ServedNames, Waiting

LEMMA WritesLists ==
    ASSUME UploadInv, ContentInv, ListsInv, NEW w \in Writers, NEW o, NEW new, Writes(w, o, new)
    PROVE  ListsInv'
  <1>1. CommitDone(w) /\ current' = current /\ shipped' = shipped
    BY DEF Writes
  <1>2. ServedNames' = ServedNames
    BY <1>1 DEF ServedNames
  <1>3. Adding' \subseteq Adding
    BY <1>1 DEF Adding, CommitDone, Waiting
  <1> QED
    BY <1>1, <1>2, <1>3, ListsStay

LEMMA CommitLines ==
    ASSUME UploadInv, LinesTold, NEW w \in Writers, CommitDone(w)
    PROVE  LinesTold'
  BY LinesStay DEF CommitDone

\* The list a request writes to is one of those the other requests count.
LEMMA WritesTouches ==
    ASSUME UploadInv, ContentInv, NEW w \in Writers, NEW o, NEW new, Writes(w, o, new)
    PROVE  /\ Touches(upload[w].list, o) /\ upload[w].list \in Names
           /\ Held(current, body, upload[w].list) = KeyCount(body[o])
           /\ Held(current', body', upload[w].list) = KeyCount(new)
           /\ KeyCount(new) \in Nat /\ KeyCount(body[o]) \in Nat
  <1>1. PICK l : l = upload[w].list
    OBVIOUS
  <1>2. /\ CommitDone(w) /\ current' = current /\ o = current[l] /\ o \in Objects
        /\ new \in [Ids -> Nat] /\ body' = [body EXCEPT ![o] = new]
    BY <1>1 DEF Writes
  <1>3. Stored(current, body) /\ l \in Names
    BY <1>1, <1>2, Running DEF CommitDone
  <1>4. body \in [Objects -> [Ids -> Nat]] /\ body' \in [Objects -> [Ids -> Nat]] /\ o # 0
    BY <1>2, <1>3 DEF Stored, Objects
  <1>5. body'[o] = new /\ \A p \in Objects : p # o => body'[p] = body[p]
    BY <1>2, <1>4
  <1>6. Stored(current', body')
    BY <1>2, <1>3, <1>4 DEF Stored
  <1>7. ASSUME NEW m \in Names, m # l, current[m] # 0 PROVE body'[current[m]] = body[current[m]]
    <2>1. current[m] # o
      BY <1>2, <1>3, <1>4, <1>7 DEF Stored, Served
    <2>2. current[m] \in Objects
      BY <1>3, <1>7, HeldNat
    <2> QED
      BY <1>5, <2>1, <2>2
  <1>8. Touches(l, o)
    BY <1>2, <1>3, <1>5, <1>6, <1>7 DEF Touches
  <1>9. Held(current, body, l) = KeyCount(body[o]) /\ Held(current', body', l) = KeyCount(new)
    BY <1>2, <1>4, <1>5 DEF Held
  <1>10. KeyCount(new) \in Nat /\ KeyCount(body[o]) \in Nat
    BY <1>2, <1>4, KeyCountNat
  <1> QED
    BY <1>1, <1>3, <1>8, <1>9, <1>10

LEMMA PendingChecked ==
    ASSUME UploadInv, ContentInv, NEW v \in Pending
    PROVE  v \in Writers /\ upload[v] # Waiting /\ CheckedOK(upload[v])
  <1>1. v \in Writers /\ upload[v] # Waiting /\ upload[v].at \in {"usage", "apply"}
    BY DEF Pending
  <1>2. HandlerOK(upload[v], current, commits) /\ upload[v].list \in Names
    BY <1>1, Running
  <1> QED
    BY <1>1, <1>2 DEF CheckedOK, HandlerOK, UsageOK

\* After a commit only the others are pending.
LEMMA PendingLess ==
    ASSUME NEW w \in Writers, CommitDone(w)
    PROVE  Pending' \subseteq Pending \ {w} /\ Pending' \subseteq Writers
  BY DEF CommitDone, Pending

\* What the clients of R have landed, with one of them anew.
LEMMA LandedSums ==
    ASSUME UploadInv, ContentInv, NEW w \in Writers, NEW b \in Nat, landed' = [landed EXCEPT ![w] = b],
           NEW R \in SUBSET Writers, w \notin R
    PROVE  /\ SumFunctionOnSet(landed', R) = SumFunctionOnSet(landed, R)
           /\ SumFunctionOnSet(landed', R \cup {w}) = SumFunctionOnSet(landed, R) + b
           /\ SumFunctionOnSet(landed, R) \in Nat
  <1>1. IsFiniteSet(R) /\ SumFunctionOnSet(landed, R) \in Nat
    BY StoredNow
  <1>2. landed \in [Writers -> Nat]
    BY DEF ContentInv
  <1>3. \A v \in R : landed[v] \in Nat /\ landed'[v] = landed[v] /\ landed'[v] \in Nat
    BY <1>2
  <1>4. landed'[w] = b
    BY <1>2
  <1>5. SumFunctionOnSet(landed', R) = SumFunctionOnSet(landed, R)
    BY <1>1, <1>3, SumSame
  <1>6. SumFunctionOnSet(landed', R \cup {w}) = SumFunctionOnSet(landed', R) + landed'[w]
    <2>1. PICK f : f = landed'
      OBVIOUS
    <2>2. (\A v \in R : f[v] \in Nat) /\ f[w] \in Nat
      BY <1>3, <1>4, <2>1
    <2>3. SumFunctionOnSet(f, R \cup {w}) = SumFunctionOnSet(f, R) + f[w]
      BY <1>1, <2>2, SumIn
    <2> QED
      BY <2>1, <2>3, Zenon
  <1> QED
    BY <1>1, <1>4, <1>5, <1>6

\* A batch that lands ends a check.  If the check was one of the last round,
\* the round is over: the usage is bounded by what this check saw, and what
\* landed since.  If not, the batch is one more of the round.
LEMMA LandsKeys ==
    ASSUME UploadInv, ContentInv, KeysInv, NEW w \in Writers, NEW o, NEW new, Lands(w, o, new)
    PROVE  KeysInv'
  <1> SUFFICES ASSUME MaxTotalKeys > 0
               PROVE  \E last \in SUBSET Writers, since \in [Writers -> SUBSET Writers] : Rounds(last, since)'
    BY DEF KeysInv
  <1>1. PICK last \in SUBSET Writers, since \in [Writers -> SUBSET Writers] : Rounds(last, since)
    BY DEF KeysInv
  <1>2. PICK l, b, c : l = upload[w].list /\ b = BatchKeys(upload[w].acc) /\ c = Credit(upload[w])
    OBVIOUS
  <1>3. /\ Writes(w, o, new) /\ upload[w].op \in Uploading /\ b \in Nat /\ landed' = [landed EXCEPT ![w] = b]
        /\ KeyCount(new) + c <= KeyCount(body[o]) + b
    BY <1>2 DEF Lands
  <1>4. CommitDone(w) /\ o \in Objects /\ shipped' = shipped
    BY <1>3 DEF Writes
  <1>5. /\ Touches(l, o) /\ l \in Names /\ Held(current, body, l) = KeyCount(body[o])
        /\ Held(current', body', l) = KeyCount(new) /\ KeyCount(new) \in Nat /\ KeyCount(body[o]) \in Nat
    BY <1>2, <1>3, WritesTouches
  <1>6. PICK k1, k2 : k1 = KeyCount(body[o]) /\ k2 = KeyCount(new)
    OBVIOUS
  <1>7. Stored(current, body) /\ Stored(current', body')
    BY <1>5 DEF Touches
  <1>8. c \in Nat
    <2>1. HeldKeys(l) \in Nat
      BY <1>5, <1>7, HeldNat, TotalIsUsage
    <2> QED
      BY <1>2, <2>1 DEF Credit
  <1>9. k1 \in Nat /\ k2 \in Nat /\ k2 + c <= k1 + b /\ k2 <= k1 + b
    BY <1>3, <1>5, <1>6, <1>8
  <1>10. PICK rest \in Nat : Usage = rest + k1 /\ Usage' = rest + k2
    <2>1. \E rest \in Nat : /\ Total(current, body) = rest + Held(current, body, l)
                           /\ Total(current', body') = rest + Held(current', body', l)
      BY <1>5, <1>7, TotalChanges DEF Touches
    <2> QED
      BY <1>5, <1>6, <2>1, TotalIsUsage
  <1>11. Ceiling' = Ceiling /\ Ceiling \in Nat /\ Ceiling >= MaxTotalKeys /\ MaxTotalKeys \in Nat
    <2>1. Ceiling' = Ceiling
      BY <1>4, Zenon DEF Ceiling
    <2>2. MaxTotalKeys \in Nat /\ shipped.keys \in Nat
      BY UploadAssumption DEF ContentInv, UploadConstants
    <2> QED
      BY <2>1, <2>2, MaxOfTwo DEF Ceiling
  <1>12. Pending' \subseteq Pending \ {w} /\ Pending' \subseteq Writers
    BY <1>4, PendingLess
  <1>13. w \in Pending /\ upload[w].at = "apply"
    BY <1>3, <1>4 DEF CommitDone, Pending
  <1> DEFINE next == IF w \in last THEN since[w] \cup {w} ELSE last \cup {w}
             new2 == [v \in Writers |-> since[v] \cup {w}]
  \* Nobody of the new round has seen w land before.
  <1>14. ASSUME NEW v \in Pending', v \in next
         PROVE  v \in Pending /\ v \in Writers /\ v # w /\ v \in last /\ w \notin since[v] /\ new2[v] = since[v] \cup {w}
                /\ new2[v] \subseteq next
    <2>1. v \in Pending /\ v \in Writers /\ v # w
      BY <1>12
    <2>2. new2[v] = since[v] \cup {w}
      BY <2>1
    <2>3. CASE w \in last
      <3>1. v \in since[w] /\ next = since[w] \cup {w}
        BY <1>14, <2>1, <2>3
      <3>2. since[v] \subseteq since[w] /\ w \notin since[w] /\ since[w] \subseteq last
        BY <1>1, <1>13, <2>1, <2>3, <3>1 DEF Rounds
      <3> QED
        BY <2>1, <2>2, <3>1, <3>2
    <2>4. CASE w \notin last
      <3>1. v \in last /\ next = last \cup {w}
        BY <1>14, <2>1, <2>4
      <3>2. since[v] \subseteq last
        BY <1>1, <2>1, <3>1 DEF Rounds
      <3> QED
        BY <2>1, <2>2, <2>4, <3>1, <3>2
    <2> QED
      BY <2>3, <2>4
  <1>15. next \in SUBSET Writers /\ new2 \in [Writers -> SUBSET Writers]
    OBVIOUS
  <1>16. Usage' <= Ceiling' + SumFunctionOnSet(landed', next)
    <2>1. CASE w \in last
      <3>1. w \notin since[w] /\ since[w] \in SUBSET Writers /\ Abreast(upload[w], since[w])
        BY <1>1, <1>13, <2>1 DEF Rounds
      <3>2. PICK s : s = SumFunctionOnSet(landed, since[w])
        OBVIOUS
      <3>3. Usage + b <= MaxTotalKeys + s + c
        BY <1>2, <1>13, <3>1, <3>2 DEF Abreast
      <3>4. SumFunctionOnSet(landed', since[w] \cup {w}) = s + b /\ s \in Nat
        BY <1>3, <3>1, <3>2, LandedSums
      <3>5. next = since[w] \cup {w}
        BY <2>1
      <3>6. SumFunctionOnSet(landed', next) = s + b
        BY <3>4, <3>5, Zenon
      <3> HIDE DEF next
      <3> QED
        BY <1>3, <1>8, <1>9, <1>10, <1>11, <3>3, <3>4, <3>6
    <2>2. CASE w \notin last
      <3>1. PICK s : s = SumFunctionOnSet(landed, last)
        OBVIOUS
      <3>2. Usage <= Ceiling + s
        BY <1>1, <3>1 DEF Rounds
      <3>3. SumFunctionOnSet(landed', last \cup {w}) = s + b /\ s \in Nat
        BY <1>3, <2>2, <3>1, LandedSums
      <3>4. next = last \cup {w}
        BY <2>2
      <3>5. SumFunctionOnSet(landed', next) = s + b
        BY <3>3, <3>4, Zenon
      <3> HIDE DEF next
      <3> QED
        BY <1>3, <1>9, <1>10, <1>11, <3>2, <3>3, <3>5
    <2> QED
      BY <2>1, <2>2
  <1>17. ASSUME NEW v \in Pending', v \in next PROVE Abreast(upload[v], new2[v])'
    <2>1. v \in Pending /\ v \in Writers /\ v # w /\ v \in last /\ w \notin since[v] /\ new2[v] = since[v] \cup {w}
      BY <1>14, <1>17
    <2>2. PICK R1, R2 : R1 = since[v] /\ R2 = since[v] \cup {w}
      OBVIOUS
    <2>3. Abreast(upload[v], R1)
      BY <1>1, <2>1, <2>2 DEF Rounds
    <2>4. CheckedOK(upload[v]) /\ upload'[v] = upload[v]
      BY <1>4, <2>1, PendingChecked DEF CommitDone
    <2>5. since[v] \in SUBSET Writers
      BY <2>1
    <2>6. SumFunctionOnSet(landed', since[v] \cup {w}) = SumFunctionOnSet(landed, since[v]) + b
          /\ SumFunctionOnSet(landed, since[v]) \in Nat
      BY <1>3, <2>1, <2>5, LandedSums
    <2>7. SumFunctionOnSet(landed', R2) = SumFunctionOnSet(landed, R1) + b /\ SumFunctionOnSet(landed, R1) \in Nat
      BY <2>2, <2>6, Zenon
    <2>8. SumFunctionOnSet(landed', R2) \in Nat /\ SumFunctionOnSet(landed', R2) >= SumFunctionOnSet(landed, R1) + b
      BY <1>3, <2>7
    <2>9. HeldKeys(l)' <= HeldKeys(l) + b
      BY <1>5, <1>6, <1>9, TotalIsUsage
    <2>10. Abreast(upload[v], R2)'
      <3> HIDE DEF next, new2
      <3> QED
        BY <1>3, <1>4, <1>5, <2>1, <2>3, <2>4, <2>7, <2>8, <2>9, AbreastStays
    <2> QED
      BY <2>1, <2>2, <2>10
  <1>18. \A v \in Pending' : v \notin new2[v]
    BY <1>1, <1>12 DEF Rounds
  <1>19. \A v, x \in Pending' : v \in new2[x] => new2[v] \subseteq new2[x]
    BY <1>1, <1>12 DEF Rounds
  <1> HIDE DEF next, new2
  <1>20. Rounds(next, new2)'
    BY <1>14, <1>16, <1>17, <1>18, <1>19 DEF Rounds
  <1> QED
    BY <1>15, <1>20

\* A step that adds no keys begins no round and ends none.
LEMMA LessKeys ==
    ASSUME UploadInv, ContentInv, KeysInv, NEW w \in Writers, CommitDone(w), landed' = landed, shipped' = shipped,
           NEW l \in Names, NEW o \in Objects, Touches(l, o), HeldKeys(l)' <= HeldKeys(l)
    PROVE  KeysInv'
  <1> SUFFICES ASSUME MaxTotalKeys > 0
               PROVE  \E last \in SUBSET Writers, since \in [Writers -> SUBSET Writers] : Rounds(last, since)'
    BY DEF KeysInv
  <1>1. PICK last \in SUBSET Writers, since \in [Writers -> SUBSET Writers] : Rounds(last, since)
    BY DEF KeysInv
  <1>2. Pending' \subseteq Pending \ {w} /\ Pending' \subseteq Writers
    BY PendingLess
  <1>3. Stored(current, body) /\ Stored(current', body')
    BY DEF Touches
  <1>4. PICK k1, k2 : k1 = Held(current, body, l) /\ k2 = Held(current', body', l)
    OBVIOUS
  <1>5. k1 \in Nat /\ k2 \in Nat /\ k2 <= k1
    BY <1>3, <1>4, HeldNat, TotalIsUsage
  <1>6. PICK rest \in Nat : Usage = rest + k1 /\ Usage' = rest + k2
    <2>1. \E rest \in Nat : /\ Total(current, body) = rest + Held(current, body, l)
                           /\ Total(current', body') = rest + Held(current', body', l)
      BY <1>3, TotalChanges DEF Touches
    <2> QED
      BY <1>4, <2>1, TotalIsUsage
  <1>7. Ceiling' = Ceiling /\ Ceiling \in Nat
    <2>1. Ceiling' = Ceiling
      BY Zenon DEF Ceiling
    <2>2. MaxTotalKeys \in Nat /\ shipped.keys \in Nat
      BY UploadAssumption DEF ContentInv, UploadConstants
    <2> QED
      BY <2>1, <2>2, MaxOfTwo DEF Ceiling
  <1>8. Usage' <= Ceiling' + SumFunctionOnSet(landed', last)
    <2>1. PICK s : s = SumFunctionOnSet(landed, last)
      OBVIOUS
    <2>2. s \in Nat /\ Usage <= Ceiling + s /\ SumFunctionOnSet(landed', last) = s
      BY <1>1, <2>1, StoredNow DEF Rounds
    <2> QED
      BY <1>5, <1>6, <1>7, <2>2
  <1>9. ASSUME NEW v \in Pending', v \in last PROVE since[v] \subseteq last /\ Abreast(upload[v], since[v])'
    <2>1. v \in Pending /\ v \in Writers /\ v # w
      BY <1>2
    <2>2. PICK R : R = since[v]
      OBVIOUS
    <2>3. R \subseteq last /\ Abreast(upload[v], R)
      BY <1>1, <1>9, <2>1, <2>2 DEF Rounds
    <2>4. CheckedOK(upload[v]) /\ upload'[v] = upload[v]
      BY <2>1, PendingChecked DEF CommitDone
    <2>5. SumFunctionOnSet(landed, R) \in Nat
      BY <2>1, <2>2, StoredNow
    <2>6. /\ SumFunctionOnSet(landed', R) \in Nat
          /\ SumFunctionOnSet(landed', R) >= SumFunctionOnSet(landed, R) + 0
      BY <2>5
    <2>7. HeldKeys(l)' <= HeldKeys(l) + 0
      BY <1>3, HeldNat, TotalIsUsage
    <2>8. Abreast(upload[v], R)'
      BY <2>1, <2>3, <2>4, <2>5, <2>6, <2>7, AbreastStays
    <2> QED
      BY <2>2, <2>3, <2>8
  <1>10. \A v \in Pending' : v \notin since[v]
    BY <1>1, <1>2 DEF Rounds
  <1>11. \A v, x \in Pending' : v \in since[x] => since[v] \subseteq since[x]
    BY <1>1, <1>2 DEF Rounds
  <1>12. Rounds(last, since)'
    BY <1>8, <1>9, <1>10, <1>11 DEF Rounds
  <1> QED
    BY <1>12

LEMMA ShrinksKeys ==
    ASSUME UploadInv, ContentInv, KeysInv, NEW w \in Writers, NEW o, NEW new, Shrinks(w, o, new)
    PROVE  KeysInv'
  <1>1. PICK l : l = upload[w].list
    OBVIOUS
  <1>2. Writes(w, o, new) /\ landed' = landed /\ KeyCount(new) <= KeyCount(body[o])
    BY DEF Shrinks
  <1>3. CommitDone(w) /\ o \in Objects /\ shipped' = shipped
    BY <1>2 DEF Writes
  <1>4. /\ Touches(l, o) /\ l \in Names /\ Held(current, body, l) = KeyCount(body[o])
        /\ Held(current', body', l) = KeyCount(new)
    BY <1>1, <1>2, WritesTouches
  <1>5. HeldKeys(l)' <= HeldKeys(l)
    BY <1>2, <1>4, TotalIsUsage
  <1> QED
    BY <1>2, <1>3, <1>4, <1>5, LessKeys

\* A PUT or a reload installs a new object.
Installs(w, o, content) ==
    /\ CommitDone(w) /\ upload[w].op \in {"create", "reload"} /\ landed' = landed
    /\ o = NextObject(current) /\ o \in Objects /\ content \in [Ids -> Nat]
    /\ current' = [current EXCEPT ![upload[w].list] = o]
    /\ body' = [body EXCEPT ![o] = content]

\* The object is new to every list and to every request that counts.
LEMMA InstallsTouches ==
    ASSUME UploadInv, ContentInv, NEW w \in Writers, NEW o, NEW content, Installs(w, o, content)
    PROVE  /\ Touches(upload[w].list, o) /\ upload[w].list \in Names /\ o # 0
           /\ Held(current', body', upload[w].list) = KeyCount(content)
  <1>1. PICK l : l = upload[w].list
    OBVIOUS
  <1>2. /\ CommitDone(w) /\ o = NextObject(current) /\ o \in Objects /\ content \in [Ids -> Nat]
        /\ current' = [current EXCEPT ![l] = o] /\ body' = [body EXCEPT ![o] = content]
    BY <1>1 DEF Installs
  <1>3. Stored(current, body) /\ l \in Names
    BY <1>1, <1>2, Running DEF CommitDone
  <1>4. current \in [Names -> 0 .. MaxObjects] /\ body \in [Objects -> [Ids -> Nat]]
    BY <1>3 DEF Stored
  <1>5. o \in Nat \ {0} /\ \A m \in Names : current[m] < o
    BY <1>2, <1>3, <1>4, FreshAbove
  <1>6. \A m \in Names : current[m] # o
    <2>1. \A m \in Names : current[m] \in 0 .. MaxObjects /\ MaxObjects \in Nat
      BY <1>4, UploadAssumption DEF UploadConstants
    <2> QED
      BY <1>5, <2>1
  <1>7. o \in 0 .. MaxObjects
    BY <1>2, UploadAssumption DEF Objects, UploadConstants
  <1>8. /\ current' \in [Names -> 0 .. MaxObjects] /\ body' \in [Objects -> [Ids -> Nat]]
        /\ current'[l] = o /\ \A m \in Names : m # l => current'[m] = current[m]
        /\ body'[o] = content /\ \A p \in Objects : p # o => body'[p] = body[p]
    BY <1>2, <1>3, <1>4, <1>7
  <1>9. \A m, n \in Served(current') : current'[m] = current'[n] => m = n
    BY <1>3, <1>6, <1>8 DEF Stored, Served
  <1>10. Stored(current', body')
    BY <1>8, <1>9 DEF Stored
  <1>11. \A m \in Names : m # l => /\ current'[m] = current[m]
                                    /\ current[m] # 0 => body'[current[m]] = body[current[m]]
    <2>1. \A m \in Names : current[m] # 0 => current[m] \in Objects
      BY <1>3, HeldNat
    <2> QED
      BY <1>6, <1>8, <2>1
  <1>12. ASSUME NEW v \in Pending, upload[v].at = "usage", NEW m \in upload[v].quota.todo
         PROVE  upload[v].quota.seen[m] # o
    <2>1. UsageOK(upload[v].quota, current)
      BY <1>12, Running DEF Pending, HandlerOK
    <2>2. upload[v].quota.seen[m] < o /\ upload[v].quota.seen[m] \in 0 .. MaxObjects /\ MaxObjects \in Nat
      BY <1>2, <1>12, <2>1, UploadAssumption DEF UsageOK, Scanned, UploadConstants
    <2> QED
      BY <1>5, <2>2
  <1>13. Touches(l, o)
    BY <1>3, <1>8, <1>10, <1>11, <1>12 DEF Touches
  <1>14. Held(current', body', l) = KeyCount(content)
    BY <1>5, <1>8 DEF Held
  <1> QED
    BY <1>1, <1>3, <1>5, <1>13, <1>14

LEMMA InstallsContent ==
    ASSUME UploadInv, ContentInv, NEW w \in Writers, NEW o, NEW content, Installs(w, o, content),
           shipped' \in [keys : Nat, lists : Nat]
    PROVE  ContentInv'
  <1>1. Stored(current', body')
    BY InstallsTouches DEF Touches
  <1>2. CommitDone(w) /\ landed' = landed
    BY DEF Installs
  <1>3. /\ \A v \in Writers : upload'[v] # Waiting => HandlerOK(upload'[v], current', commits')
        /\ \A v \in DOMAIN commits' : commits'[v].obj \in Objects
    BY <1>2 DEF CommitDone
  <1> QED
    BY <1>1, <1>2, <1>3 DEF ContentInv, Stored, Served, ServedNames, Waiting

\* What a PUT or reload has found.
LEMMA InstallerFacts ==
    ASSUME UploadInv, ContentInv, NEW w \in Writers, Stands(w, {"create", "reload"}), NewObject \in Objects,
           current' = [current EXCEPT ![upload[w].list] = NewObject], audits' = audits,
           NEW n \in Nat, Commit(w, [upload[w] EXCEPT !.at = "audit"], NewObject, n)
    PROVE  CommitDone(w)
  <1>1. PICK u, l, o, r : u = upload[w] /\ l = u.list /\ o = NewObject /\ r = [u EXCEPT !.at = "audit"]
    OBVIOUS
  <1>2. u # Waiting /\ u.at = "apply" /\ u.op \in {"create", "reload"}
    BY <1>1 DEF Stands, Waiting
  <1>3. RequestOK(u) /\ l \in Names /\ Stored(current, body)
    BY <1>1, <1>2, Running
  <1>4. current \in [Names -> 0 .. MaxObjects] /\ o \in Objects /\ o = NextObject(current)
    BY <1>1, <1>3, SizesAre DEF Stored
  <1>5. o \in Nat \ {0} /\ o \in 0 .. MaxObjects
    BY <1>4, UploadAssumption DEF Objects, UploadConstants
  <1>6. current' = [current EXCEPT ![l] = o]
    BY <1>1
  <1>7. current' \in [Names -> 0 .. MaxObjects] /\ current'[l] = o /\ \A m \in Names : m # l => current'[m] = current[m]
    BY <1>3, <1>4, <1>5, <1>6
  <1>8. \A m \in Names : current[m] # 0 => current'[m] # 0
    BY <1>5, <1>7
  <1>9. NextObject(current) <= NextObject(current')
    <2>1. PICK c2 : c2 = current'
      OBVIOUS
    <2>2. c2 \in [Names -> 0 .. MaxObjects] /\ c2[l] = o
      BY <1>7, <2>1
    <2>3. NextObject(c2) \in Nat /\ c2[l] < NextObject(c2)
      BY <1>3, <2>2, FreshAbove
    <2> QED
      BY <1>4, <1>5, <2>1, <2>2, <2>3
  <1>10. HandsOn(u, r)
    BY <1>1, <1>3 DEF HandsOn, RequestOK, Shape, Fields
  <1> QED
    BY <1>1, <1>2, <1>4, <1>7, <1>8, <1>9, <1>10, CommitFacts

LEMMA InstallsAdding ==
    ASSUME UploadInv, ContentInv, NEW w \in Writers, NEW o, NEW content, Installs(w, o, content)
    PROVE  /\ Adding' \subseteq Adding \ {w} /\ Adding' \in SUBSET Writers
           /\ ServedNames' = ServedNames \cup {upload[w].list}
           /\ upload[w].op = "create" /\ upload[w].list \notin ServedNames => w \in Adding
  <1>1. PICK l : l = upload[w].list
    OBVIOUS
  <1>2. CommitDone(w) /\ current' = [current EXCEPT ![l] = o]
    BY <1>1 DEF Installs
  <1>3. l \in Names /\ o # 0 /\ Stored(current, body)
    BY <1>1, InstallsTouches DEF Touches
  <1>4. current'[l] = o /\ \A m \in Names : m # l => current'[m] = current[m]
    BY <1>2, <1>3 DEF Stored
  <1>5. ServedNames' = ServedNames \cup {l}
    BY <1>3, <1>4 DEF ServedNames
  <1>6. \A v \in Writers : upload[v] # Waiting => upload[v].list \in Names
    BY Running
  <1>7. Adding' \subseteq Adding \ {w} /\ Adding' \in SUBSET Writers
    BY <1>2, <1>3, <1>4, <1>6 DEF Adding, CommitDone, Waiting
  <1>8. upload[w].op = "create" /\ l \notin ServedNames => w \in Adding
    BY <1>1, <1>2, <1>3 DEF Adding, ServedNames, CommitDone
  <1> QED
    BY <1>1, <1>5, <1>7, <1>8

LEMMA CreateKeeps ==
    ASSUME UploadInv, QuotaInv, NEW w \in Writers, Create(w)
    PROVE  QuotaInv'
  <1>1. PICK l, o : l = upload[w].list /\ o = NewObject
    OBVIOUS
  <1>2. /\ Stands(w, {"create"}) /\ o \in Objects /\ Commit(w, [upload[w] EXCEPT !.at = "audit"], o, 0)
        /\ current' = [current EXCEPT ![l] = o] /\ body' = [body EXCEPT ![o] = NoContent]
        /\ audits' = audits /\ landed' = landed /\ shipped' = shipped
    BY <1>1 DEF Create
  <1>3. ContentInv /\ ListsInv /\ KeysInv /\ LinesTold
    BY DEF QuotaInv
  <1>4. Stands(w, {"create", "reload"}) /\ upload[w].op = "create"
    BY <1>2 DEF Stands
  <1>5. CommitDone(w)
    BY <1>1, <1>2, <1>3, <1>4, InstallerFacts
  <1>6. Installs(w, o, NoContent)
    BY <1>1, <1>2, <1>4, <1>5, NoContentIsEmpty, SizesAre DEF Installs
  <1>7. ContentInv'
    <2>1. shipped' \in [keys : Nat, lists : Nat]
      BY <1>2, <1>3 DEF ContentInv
    <2> QED
      BY <1>3, <1>6, <2>1, InstallsContent
  <1>8. Touches(l, o) /\ l \in Names /\ Held(current', body', l) = KeyCount(NoContent)
    BY <1>1, <1>3, <1>6, InstallsTouches
  <1>9. KeysInv'
    <2>1. Stored(current, body)
      BY <1>8 DEF Touches
    <2>2. HeldKeys(l)' <= HeldKeys(l)
      BY <1>8, <2>1, HeldNat, TotalIsUsage, NoContentIsEmpty
    <2> QED
      BY <1>2, <1>3, <1>5, <1>8, <2>2, LessKeys
  <1>10. ListsInv'
    <2>1. /\ Adding' \subseteq Adding \ {w} /\ ServedNames' = ServedNames \cup {l}
          /\ l \notin ServedNames => w \in Adding
      BY <1>1, <1>3, <1>4, <1>6, InstallsAdding
    <2>2. CASE l \in ServedNames
      <3>1. ServedNames' = ServedNames /\ Adding' \subseteq Adding
        BY <2>1, <2>2
      <3> QED
        BY <1>2, <1>3, <3>1, ListsStay
    <2>3. CASE l \notin ServedNames
      <3> DEFINE s == Cardinality(ServedNames)
                 s2 == Cardinality(ServedNames')
                 a == Cardinality(Adding)
                 b == Cardinality(Adding')
                 W == Cardinality(Writers)
                 M == Max({MaxLists, shipped.lists})
      <3>1. Adding \in SUBSET Writers /\ w \in Adding
        BY <2>1, <2>3 DEF Adding
      <3>2. a \in Nat /\ W \in Nat /\ IsFiniteSet(Adding)
        BY <3>1, AddingCount
      <3>3. Cardinality(Adding \ {w}) = a - 1 /\ IsFiniteSet(Adding \ {w})
        BY <3>1, <3>2, FS_RemoveElement
      <3>4. b \in Nat /\ b <= a - 1
        <4>1. IsFiniteSet(Adding') /\ Cardinality(Adding') <= Cardinality(Adding \ {w})
          BY <2>1, <3>3, FS_Subset
        <4> QED
          BY <3>3, <4>1, FS_CardinalityType
      <3>5. s \in Nat /\ M \in Nat /\ IsFiniteSet(ServedNames)
        BY <1>3, ListsBound
      <3>6. s2 = s + 1
        <4>1. Cardinality(ServedNames \cup {l}) = Cardinality(ServedNames) + 1
          BY <2>3, <3>5, FS_AddElement
        <4> QED
          BY <2>1, <4>1
      <3>7. MaxLists > 0 => s + a < M + W
        BY <1>3 DEF ListsInv
      <3>8. Cardinality(ServedNames)' = s2 /\ Max({MaxLists, shipped.lists})' = M /\ Cardinality(Writers)' = W
            /\ Cardinality(Adding)' = b
        BY <1>2, Zenon
      <3>9. MaxLists > 0 => s2 + b < M + W
        <4> HIDE DEF s, s2, a, b, W, M
        <4> QED
          BY <3>2, <3>4, <3>5, <3>6, <3>7
      <3> QED
        BY <3>8, <3>9, Zenon DEF ListsInv
    <2> QED
      BY <2>2, <2>3
  <1>11. LinesTold'
    BY <1>3, <1>5, CommitLines
  <1> QED
    BY <1>7, <1>9, <1>10, <1>11 DEF QuotaInv

\* A reload may bring any number of keys, and is the measure from then on.
LEMMA ReloadKeeps ==
    ASSUME UploadInv, QuotaInv, NEW w \in Writers, NEW content \in Bundles, ReloadBundle(w, content)
    PROVE  QuotaInv'
  <1>1. PICK l, o, n : l = upload[w].list /\ o = NewObject /\ n = Present(content)
    OBVIOUS
  <1>2. /\ Stands(w, {"reload"}) /\ o \in Objects /\ Commit(w, [upload[w] EXCEPT !.at = "audit"], o, n)
        /\ current' = [current EXCEPT ![l] = o] /\ body' = [body EXCEPT ![o] = content]
        /\ audits' = audits /\ landed' = landed
    BY <1>1 DEF ReloadBundle
  <1>3. shipped' = [keys |-> Max({shipped.keys, Usage'}), lists |-> Max({shipped.lists, Cardinality(ServedNames')})]
    BY DEF ReloadBundle
  <1>4. ContentInv /\ ListsInv /\ KeysInv /\ LinesTold
    BY DEF QuotaInv
  <1>5. Stands(w, {"create", "reload"}) /\ upload[w].op = "reload" /\ n \in Nat /\ content \in [Ids -> Nat]
    BY <1>1, <1>2, PresentIsNat, UploadAssumption DEF Stands, UploadConstants
  <1>6. CommitDone(w)
    BY <1>1, <1>2, <1>4, <1>5, InstallerFacts
  <1>7. Installs(w, o, content)
    BY <1>1, <1>2, <1>5, <1>6, SizesAre DEF Installs
  <1>8. Stored(current', body')
    BY <1>4, <1>7, InstallsTouches DEF Touches
  <1>9. Usage' \in Nat
    BY <1>8, TotalNat, TotalIsUsage
  <1>10. Cardinality(ServedNames') \in Nat
    <2>1. IsFiniteSet(ServedNames')
      BY <1>8, ServedFinite, TotalIsUsage
    <2> QED
      BY <2>1, FS_CardinalityType
  <1>11. shipped.keys \in Nat /\ shipped.lists \in Nat /\ MaxTotalKeys \in Nat /\ MaxLists \in Nat
    BY <1>4, UploadAssumption DEF ContentInv, UploadConstants
  <1>12. /\ shipped'.keys \in Nat /\ shipped'.keys >= Usage'
         /\ shipped'.lists \in Nat /\ shipped'.lists >= Cardinality(ServedNames')
    BY <1>3, <1>9, <1>10, <1>11, MaxOfTwo
  <1>13. ContentInv'
    <2>1. shipped' \in [keys : Nat, lists : Nat]
      BY <1>3, <1>12
    <2> QED
      BY <1>4, <1>7, <2>1, InstallsContent
  <1>14. KeysInv'
    <2> SUFFICES ASSUME MaxTotalKeys > 0
                 PROVE  \E last \in SUBSET Writers, since \in [Writers -> SUBSET Writers] : Rounds(last, since)'
      BY DEF KeysInv
    <2>1. PICK last \in SUBSET Writers, since \in [Writers -> SUBSET Writers] : Rounds(last, since)
      BY <1>4 DEF KeysInv
    <2>2. Pending' \subseteq Pending
      BY <1>6, PendingLess
    <2>3. Ceiling' = Max({MaxTotalKeys, shipped'.keys})
      BY Zenon DEF Ceiling
    <2>4. Ceiling' \in Nat /\ Ceiling' >= shipped'.keys
      BY <1>11, <1>12, <2>3, MaxOfTwo
    <2>5. SumFunctionOnSet(landed', {}) = 0
      BY SumEmpty
    <2>6. Usage' <= Ceiling' + SumFunctionOnSet(landed', {})
      BY <1>9, <1>12, <2>4, <2>5
    <2>7. /\ \A v \in Pending' : v \notin since[v]
          /\ \A v, x \in Pending' : v \in since[x] => since[v] \subseteq since[x]
      BY <2>1, <2>2 DEF Rounds
    <2>8. Rounds({}, since)'
      BY <2>6, <2>7 DEF Rounds
    <2> QED
      BY <2>1, <2>8
  <1>15. ListsInv'
    <2> DEFINE s2 == Cardinality(ServedNames')
               b == Cardinality(Adding')
               W == Cardinality(Writers)
               M2 == Max({MaxLists, shipped'.lists})
    <2>1. Adding' \subseteq Writers \ {w}
      BY <1>4, <1>7, InstallsAdding
    <2>2. IsFiniteSet(Writers) /\ W \in Nat
      BY AddingCount, UploadAssumption DEF UploadConstants
    <2>3. Cardinality(Writers \ {w}) = W - 1 /\ IsFiniteSet(Writers \ {w})
      BY <2>2, FS_RemoveElement
    <2>4. b \in Nat /\ b <= W - 1
      <3>1. IsFiniteSet(Adding') /\ Cardinality(Adding') <= Cardinality(Writers \ {w})
        BY <2>1, <2>3, FS_Subset
      <3> QED
        BY <2>3, <3>1, FS_CardinalityType
    <2>5. M2 \in Nat /\ M2 >= shipped'.lists
      BY <1>11, <1>12, MaxOfTwo
    <2>6. Cardinality(ServedNames)' = s2 /\ Max({MaxLists, shipped.lists})' = M2 /\ Cardinality(Writers)' = W
          /\ Cardinality(Adding)' = b
      BY Zenon
    <2>7. s2 + b < M2 + W
      <3> HIDE DEF s2, b, W, M2
      <3>1. s2 \in Nat /\ shipped'.lists \in Nat /\ shipped'.lists >= s2
        BY <1>10, <1>12 DEF s2
      <3> QED
        BY <2>2, <2>4, <2>5, <3>1
    <2> QED
      BY <2>6, <2>7, Zenon DEF ListsInv
  <1>16. LinesTold'
    BY <1>4, <1>6, CommitLines
  <1> QED
    BY <1>13, <1>14, <1>15, <1>16 DEF QuotaInv

-----------------------------------------------------------------------------
(* The invariant and what it shows.                                        *)

LEMMA QuotaStart == UploadInit => QuotaInv
  <1> SUFFICES ASSUME UploadInit PROVE QuotaInv
    OBVIOUS
  <1>1. PICK S \in Starts : current = [l \in Names |-> IF l \in S THEN l ELSE 0]
    BY DEF UploadInit
  <1>2. /\ body = [o \in Objects |-> NoContent] /\ commits = <<>> /\ audits = {}
        /\ upload = [w \in Writers |-> Waiting] /\ landed = [w \in Writers |-> 0]
        /\ shipped = [keys |-> 0, lists |-> Cardinality(ServedNames)]
    BY DEF UploadInit
  <1>3. S \subseteq Names \cap Objects /\ MaxObjects \in Nat
    BY UploadAssumption DEF UploadConstants
  <1>4. current \in [Names -> 0 .. MaxObjects] /\ body \in [Objects -> [Ids -> Nat]]
    BY <1>1, <1>2, <1>3, NoContentIsEmpty DEF Objects
  <1>5. \A l, m \in ServedNames : current[l] = current[m] => l = m
    BY <1>1 DEF ServedNames
  <1>6. Stored(current, body)
    BY <1>4, <1>5 DEF Stored, Served, ServedNames
  <1>7. IsFiniteSet(ServedNames) /\ Cardinality(ServedNames) \in Nat
    BY <1>6, ServedFinite, TotalIsUsage, FS_CardinalityType
  <1>8. ContentInv
    <2>1. DOMAIN commits = {}
      BY <1>2
    <2>2. landed \in [Writers -> Nat] /\ shipped \in [keys : Nat, lists : Nat]
      BY <1>2, <1>7
    <2> QED
      BY <1>2, <1>4, <1>5, <2>1, <2>2 DEF ContentInv
  <1>9. ListsInv
    <2> DEFINE s == Cardinality(ServedNames)
               M == Max({MaxLists, s})
    <2>1. Adding = {}
      BY <1>2 DEF Adding
    <2>2. Cardinality({}) = 0
      BY FS_EmptySet
    <2>3. Cardinality(Adding) = 0
      BY <2>1, <2>2, Zenon
    <2>4. M \in Nat /\ M >= s
      BY <1>7, MaxOfTwo, UploadAssumption DEF UploadConstants
    <2>5. Cardinality(Writers) \in Nat /\ Cardinality(Writers) > 0
      <3>1. IsFiniteSet(Writers) /\ Writers # {}
        BY UploadAssumption DEF UploadConstants
      <3>2. Cardinality(Writers) \in Nat /\ Cardinality(Writers) # 0
        BY <3>1, FS_CardinalityType, FS_EmptySet
      <3> QED
        BY <3>2
    <2>6. shipped.lists = s
      BY <1>2
    <2>7. s + 0 < M + Cardinality(Writers)
      <3> HIDE DEF M
      <3> QED
        BY <1>7, <2>4, <2>5
    <2> QED
      BY <2>3, <2>6, <2>7 DEF ListsInv
  <1>10. KeysInv
    <2>1. Usage = 0
      <3>1. \A l \in Served(current) : Kept(current, body)[l] = 0
        <4>1. \A l \in Served(current) : body[current[l]] = NoContent
          BY <1>2, <1>4 DEF Served, Objects
        <4> QED
          BY <4>1, NoContentIsEmpty DEF Kept
      <3>2. PICK f, T : f = Kept(current, body) /\ T = Served(current)
        OBVIOUS
      <3>3. IsFiniteSet(T) /\ IsFiniteSet({}) /\ \A l \in T : f[l] = 0
        BY <1>6, <3>1, <3>2, ServedFinite, FS_EmptySet
      <3>4. SumFunctionOnSet(f, T) <= SumFunctionOnSet(f, {})
        BY <3>3, SumBelow
      <3>5. SumFunctionOnSet(f, {}) = 0
        BY SumEmpty
      <3>6. Usage = SumFunctionOnSet(f, T) /\ Usage \in Nat
        BY <1>6, <3>2, TotalNat, TotalIsUsage DEF Total
      <3> QED
        BY <3>4, <3>5, <3>6
    <2>2. SumFunctionOnSet(landed, {}) = 0
      BY SumEmpty
    <2>3. Ceiling \in Nat
      <3>1. MaxTotalKeys \in Nat /\ shipped.keys \in Nat
        BY <1>2, UploadAssumption DEF UploadConstants
      <3> QED
        BY <3>1, MaxOfTwo DEF Ceiling
    <2>4. Pending = {}
      BY <1>2 DEF Pending
    <2>5. PICK since : since = [w \in Writers |-> {}]
      OBVIOUS
    <2>6. since \in [Writers -> SUBSET Writers]
      BY <2>5
    <2>7. Rounds({}, since)
      BY <2>1, <2>2, <2>3, <2>4 DEF Rounds
    <2> QED
      BY <2>6, <2>7 DEF KeysInv
  <1>11. LinesTold
    BY <1>2 DEF LinesTold
  <1> QED
    BY <1>8, <1>9, <1>10, <1>11 DEF QuotaInv

\* The line of a request tells the entries its handler has counted.
LEMMA AuditLines ==
    ASSUME UploadInv, QuotaInv, NEW w \in Writers, Audit(w)
    PROVE  LinesTold'
  <1>1. PICK u, a : u = upload[w] /\ a = Line(u)
    OBVIOUS
  <1>2. u.at = "audit" /\ audits' = audits \cup {a} /\ StoreStays
    BY <1>1 DEF Audit, StoreStays
  <1>3. Follows(current, commits, current', commits')
    BY <1>2, StaysFollows
  <1>4. u # Waiting
    BY <1>2 DEF Waiting
  <1>5. HandlerOK(u, current, commits)
    BY <1>1, <1>4, Running DEF QuotaInv
  <1>6. a.op = u.op /\ a.mine = u.mine /\ (u.op # "reload" => a.n = u.applied)
    BY <1>1 DEF Line
  <1>7. Sizes' = SizesOf(commits)
    BY <1>2, SizesAre DEF StoreStays
  <1>8. u.op # "reload" => a.n = SumFunctionOnSet(Sizes', a.mine)
    BY <1>5, <1>6, <1>7 DEF HandlerOK
  <1>9. LinesTold
    BY DEF QuotaInv
  <1> QED
    BY <1>2, <1>3, <1>6, <1>8, <1>9, LinesStay

LEMMA QuotaStep == UploadInv /\ QuotaInv /\ [UploadNext]_uploadVars => QuotaInv'
  <1> SUFFICES ASSUME UploadInv, QuotaInv, [UploadNext]_uploadVars PROVE QuotaInv'
    OBVIOUS
  <1>1. ContentInv /\ ListsInv /\ KeysInv /\ LinesTold
    BY DEF QuotaInv
  <1>2. ASSUME NEW w \in Writers,
               \/ \E ask \in Asked : Begin(w, ask)
               \/ ReadBody(w) \/ AddUsage(w) \/ DecideKeys(w) \/ CheckCount(w) \/ Refused(w) \/ Audit(w)
        PROVE  QuotaInv'
    <2>1. PICK r : Moved(w, r)
      BY <1>1, <1>2, HandlerMoves
    <2>2. ContentInv' /\ ListsInv' /\ KeysInv'
      BY <1>1, <2>1, MovedContent, MovedLists, MovedKeys
    <2>3. LinesTold'
      <3>1. CASE Audit(w)
        BY <3>1, AuditLines
      <3>2. CASE ~Audit(w)
        <4>1. audits' = audits
          BY <1>2, <3>2 DEF Begin, ReadBody, AddUsage, DecideKeys, CheckCount, Refused
        <4>2. Follows(current, commits, current', commits')
          BY <2>1, StaysFollows DEF Moved
        <4> QED
          BY <1>1, <4>1, <4>2, LinesStay
      <3> QED
        BY <3>1, <3>2
    <2> QED
      BY <2>2, <2>3 DEF QuotaInv
  <1>3. ASSUME NEW w \in Writers, Upsert(w) \/ Replace(w) PROVE QuotaInv'
    <2>1. PICK o, new : Lands(w, o, new)
      BY <1>1, <1>3, UpsertLands, ReplaceLands
    <2>2. Writes(w, o, new) /\ landed' \in [Writers -> Nat]
      BY <1>1, <2>1 DEF Lands, ContentInv
    <2>3. CommitDone(w)
      BY <2>2 DEF Writes
    <2> QED
      BY <1>1, <2>1, <2>2, <2>3, WritesContent, WritesLists, LandsKeys, CommitLines DEF QuotaInv
  <1>4. ASSUME NEW w \in Writers, Delete(w) \/ Compact(w) PROVE QuotaInv'
    <2>1. PICK o, new : Shrinks(w, o, new)
      BY <1>1, <1>4, DeleteIsSmaller, CompactIsSmaller
    <2>2. Writes(w, o, new) /\ landed' \in [Writers -> Nat]
      BY <1>1, <2>1 DEF Shrinks, ContentInv
    <2>3. CommitDone(w)
      BY <2>2 DEF Writes
    <2> QED
      BY <1>1, <2>1, <2>2, <2>3, WritesContent, WritesLists, ShrinksKeys, CommitLines DEF QuotaInv
  <1>5. CASE UploadNext
    BY <1>2, <1>3, <1>4, <1>5, CreateKeeps, ReloadKeeps DEF UploadNext
  <1>6. CASE UNCHANGED uploadVars
    <2>1. /\ current' = current /\ body' = body /\ commits' = commits /\ audits' = audits /\ upload' = upload
          /\ landed' = landed /\ shipped' = shipped
      BY <1>6 DEF uploadVars
    <2>2. ContentInv'
      BY <1>1, <2>1 DEF ContentInv, ServedNames, Waiting
    <2>3. ListsInv'
      <3>1. ServedNames' = ServedNames /\ Adding' = Adding
        BY <2>1, Zenon DEF ServedNames, Adding, Waiting
      <3> QED
        BY <1>1, <2>1, <3>1, ListsStay
    <2>4. LinesTold'
      BY <1>1, <2>1, Zenon DEF LinesTold, Sizes
    <2>5. KeysInv'
      <3> SUFFICES ASSUME MaxTotalKeys > 0
                   PROVE  \E last \in SUBSET Writers, since \in [Writers -> SUBSET Writers] : Rounds(last, since)'
        BY DEF KeysInv
      <3>1. PICK last \in SUBSET Writers, since \in [Writers -> SUBSET Writers] : Rounds(last, since)
        BY <1>1 DEF KeysInv
      <3>2. Usage' = Usage /\ Ceiling' = Ceiling /\ Pending' = Pending /\ StoreStays
        BY <2>1, Zenon DEF Usage, KeysOf, ServedNames, Ceiling, Pending, Waiting, StoreStays
      <3>3. ASSUME NEW v \in Pending, v \in last PROVE Abreast(upload[v], since[v])'
        <4>1. v \in Writers /\ Abreast(upload[v], since[v]) /\ upload'[v] = upload[v]
          BY <2>1, <3>1, <3>3 DEF Rounds, Pending
        <4> QED
          BY <3>2, <4>1, AbreastSame
      <3>4. Rounds(last, since)'
        BY <2>1, <3>1, <3>2, <3>3 DEF Rounds
      <3> QED
        BY <3>1, <3>4
    <2> QED
      BY <2>2, <2>3, <2>4, <2>5 DEF QuotaInv
  <1> QED
    BY <1>5, <1>6

LEMMA QuotaInvariance == UploadSpec => []QuotaInv
  <1>1. UploadInit => QuotaInv
    BY QuotaStart
  <1>2. UploadInv /\ QuotaInv /\ [UploadNext]_uploadVars => QuotaInv'
    BY QuotaStep
  <1> QED
    BY <1>1, <1>2, UploadInvariance, PTL DEF UploadSpec

\* Type correctness of the mutating handlers: every object the tenant serves
\* is one of the store's, has counts as contents, and is served under one
\* name only, also while PUTs and reloads install new ones.
THEOREM UploadTypeCorrect == UploadSpec => []UploadTypeOK
  <1>1. UploadInv /\ QuotaInv => UploadTypeOK
    BY DEF UploadInv, CommitTypes, RequestsInv, RequestOK, Shape, QuotaInv, ContentInv, UploadTypeOK, Waiting
  <1> QED
    BY <1>1, UploadInvariance, QuotaInvariance, PTL

\* The quotas are soft by one batch, or one list, per concurrent client and
\* no more, for any number of clients, lists and entries and for every
\* interleaving of the unlocked scans of checkKeyQuota and checkListQuota
\* with the batches, deletes, PUTs and reloads of the others.
THEOREM QuotaTheorem == UploadSpec => []QuotasAreSoft
  <1>1. ASSUME UploadInv, QuotaInv PROVE QuotasAreSoft
    <2>1. ContentInv /\ ListsInv /\ KeysInv
      BY <1>1 DEF QuotaInv
    <2>2. ASSUME MaxTotalKeys > 0
          PROVE  Usage <= Max({MaxTotalKeys, shipped.keys}) + SumFunctionOnSet(landed, Writers)
      <3>1. PICK last \in SUBSET Writers, since \in [Writers -> SUBSET Writers] : Rounds(last, since)
        BY <2>1, <2>2 DEF KeysInv
      <3>2. Usage <= Ceiling + SumFunctionOnSet(landed, last)
        BY <3>1 DEF Rounds
      <3>3. \A w \in Writers : landed[w] \in Nat
        BY <2>1 DEF ContentInv
      <3>4. IsFiniteSet(Writers) /\ IsFiniteSet(last)
        BY <3>1, AddingCount, UploadAssumption DEF UploadConstants
      <3>5. SumFunctionOnSet(landed, last) <= SumFunctionOnSet(landed, Writers)
        <4>1. \A w \in last : landed[w] \in Nat /\ (landed[w] > 0 => w \in Writers /\ landed[w] <= landed[w])
          BY <3>1, <3>3
        <4> QED
          BY <3>3, <3>4, <4>1, SumBelow
      <3>6. SumFunctionOnSet(landed, last) \in Nat /\ SumFunctionOnSet(landed, Writers) \in Nat /\ Usage \in Nat
        BY <1>1, <2>1, StoredNow
      <3>7. Ceiling \in Nat
        <4>1. MaxTotalKeys \in Nat /\ shipped.keys \in Nat
          BY <2>1, UploadAssumption DEF ContentInv, UploadConstants
        <4> QED
          BY <4>1, MaxOfTwo DEF Ceiling
      <3>8. Usage <= Ceiling + SumFunctionOnSet(landed, Writers)
        BY <3>2, <3>5, <3>6, <3>7
      <3> QED
        BY <3>8 DEF Ceiling
    <2>3. ASSUME MaxLists > 0
          PROVE  Cardinality(ServedNames) < Max({MaxLists, shipped.lists}) + Cardinality(Writers)
      <3> DEFINE s == Cardinality(ServedNames)
                 a == Cardinality(Adding)
                 bound == Max({MaxLists, shipped.lists}) + Cardinality(Writers)
      <3>1. s + a < bound
        BY <2>1, <2>3 DEF ListsInv
      <3>2. Adding \in SUBSET Writers
        BY DEF Adding
      <3>3. a \in Nat /\ Cardinality(Writers) \in Nat
        BY <3>2, AddingCount
      <3>4. s \in Nat /\ bound \in Nat
        BY <1>1, <2>1, <3>3, ListsBound
      <3> HIDE DEF s, a, bound
      <3>5. s < bound
        BY <3>1, <3>3, <3>4
      <3> QED
        BY <3>5 DEF s, bound
    <2> QED
      BY <2>2, <2>3 DEF QuotasAreSoft
  <1>2. UploadInv /\ QuotaInv => QuotasAreSoft
    BY <1>1
  <1> QED
    BY <1>2, UploadInvariance, QuotaInvariance, PTL

\* The audit stream is the history: no commit goes without its line and none
\* has two, also when an upload fails half way, and a line tells the last
\* version of its request and the entries of all its commits, whatever other
\* requests committed meanwhile (auditMut, fail in upsertNDJSON).
THEOREM AuditTheorem == UploadSpec => []AuditIsTrue
  <1>1. UploadInv /\ QuotaInv => AuditIsTrue
    BY LinesAreWhole DEF QuotaInv, LinesTold, CountTold, AuditIsTrue
  <1> QED
    BY <1>1, UploadInvariance, QuotaInvariance, PTL
=============================================================================
