------------------------------ MODULE Uploads ------------------------------
(***************************************************************************)
(* The mutating handlers of a tenant (server/server.go), the soft quotas   *)
(* they check first (server/quota.go) and the audit line they end with     *)
(* (server/audit.go).  A store operation is one step here, as its list     *)
(* lock makes it (ListStore opens it up); what a handler reads before and  *)
(* after it is not covered by any lock.                                    *)
(*                                                                         *)
(* List names are numbers, ordered as the strings are.  An entry is an ID  *)
(* and a number of keys.  A version is the place of a commit in the order  *)
(* of all commits.  A `stream' is an NDJSON append; an array upsert and    *)
(* both forms of replace wait for their whole body.  Bad is a line or an   *)
(* entry that is refused: malformed, without ID, too long, or not read.    *)
(***************************************************************************)
EXTENDS Naturals, Sequences, FiniteSets, FiniteSetsExt, Functions, SequencesExt

CONSTANTS
    Writers,       \* concurrent clients
    Names,         \* list names
    Ids,           \* EntryIDs
    Asked,         \* requests: operation, list, body (entries and Bad)
    Bundles,       \* contents a reload may find on disk
    Starts,        \* sets of lists a tenant may have at first
    Bad,           \* a refused line
    MaxTotalKeys,  \* Quotas.MaxTotalKeys, 0 for no limit
    MaxLists,      \* Quotas.MaxLists, 0 for no limit
    BatchSize,     \* ndjsonBatch
    MaxCommits,    \* bound: commits
    MaxObjects     \* bound: *List objects

VARIABLES
    current,  \* current[l]: the *List served under a name, 0 for none
    body,     \* body[o][i]: number of keys of a live entry, 0 for none
    commits,  \* history: what each version committed, and to which object
    audits,   \* the audit stream
    upload,   \* upload[w]: the request of a client
    landed,   \* history: keys of the last batch of a client
    shipped   \* history: the most a reload has left, in keys and lists

uploadVars == <<current, body, commits, audits, upload, landed, shipped>>

Objects == 1 .. MaxObjects

AskedOps == {"stream", "upsert", "replace", "delete", "compact", "create", "reload"}
BodyLines == [id : Ids, keys : Nat] \cup {Bad}

\* Requests are about the lists of the tenant, and their bodies are finite.
UploadConstants ==
    /\ Asked \subseteq [op : AskedOps, list : Names, lines : Seq(BodyLines)]
    /\ Starts \subseteq SUBSET (Names \cap Objects)
    /\ IsFiniteSet(Ids) /\ BatchSize \in Nat /\ MaxObjects \in Nat
    /\ Bundles \subseteq [Ids -> Nat] /\ Names \subseteq Nat
    /\ MaxTotalKeys \in Nat /\ MaxLists \in Nat
    /\ IsFiniteSet(Writers) /\ Writers # {}

ASSUME UploadAssumption == UploadConstants

NoContent == [i \in Ids |-> 0]
Waiting == [at |-> "idle"]

ServedNames == {l \in Names : current[l] # 0}
KeyCount(content) == SumFunctionOnSet(content, Ids)
Present(content) == Cardinality({i \in Ids : content[i] # 0})
KeysOf(names, lists) == [l \in names |-> KeyCount(body[lists[l]])]
Usage == SumFunctionOnSet(KeysOf(ServedNames, current), ServedNames)

BatchKeys(es) == SumFunctionOnSet([k \in DOMAIN es |-> es[k].keys], DOMAIN es)

\* An upsert of a batch: of two entries with one ID the last wins.
Upserted(content, es) ==
    LET Places(i) == {k \in DOMAIN es : es[k].id = i}
    IN [i \in Ids |-> IF Places(i) = {} THEN content[i] ELSE es[Max(Places(i))].keys]

----------------------------------------------------------------------------
(* A request arrives.                                                      *)

Step(w, r) == upload' = [upload EXCEPT ![w] = r]

NoUsage == [todo |-> {}, seen |-> <<>>, sum |-> 0]

\* tenantKeyUsage starts with the list objects of the moment.
AllLists == [todo |-> ServedNames, seen |-> current, sum |-> 0]

\* The handlers: only createList and reload do without the list.  An NDJSON
\* append pins the generation it found.  For checkListQuota a PUT of an
\* existing list adds none.
Begin(w, ask) ==
    LET first == CASE ask.op \in {"stream", "upsert", "replace"} -> "read"
                   [] ask.op = "create" /\ MaxLists > 0 /\ current[ask.list] = 0 -> "count"
                   [] OTHER -> "apply"
    IN /\ upload[w] = Waiting
       /\ ask.op \notin {"create", "reload"} => current[ask.list] # 0
       /\ Step(w, [at |-> first, op |-> ask.op, list |-> ask.list, lines |-> ask.lines, acc |-> <<>>,
                   gen |-> IF ask.op = "stream" THEN current[ask.list] ELSE 0, quota |-> NoUsage,
                   applied |-> 0, version |-> 0, partial |-> FALSE, mine |-> {}])
       /\ UNCHANGED <<current, body, commits, audits, landed, shipped>>

----------------------------------------------------------------------------
(* Failing and succeeding.                                                 *)

\* fail and its callers: what a stream has applied stays and is audited.
Failed(r) ==
    IF r.op = "stream" /\ r.applied > 0 THEN [r EXCEPT !.at = "audit", !.partial = TRUE, !.lines = <<>>, !.acc = <<>>, !.quota = NoUsage]
    ELSE Waiting

\* The body is read up to the end, a full batch of a stream, or a bad line,
\* and checkKeyQuota collects the lists of the tenant...
ReadBody(w) ==
    LET r == upload[w]
        full == IF r.op = "stream" /\ Len(r.lines) > BatchSize THEN BatchSize ELSE Len(r.lines)
        batch == SubSeq(r.lines, 1, full)
        rest == SubSeq(r.lines, full + 1, Len(r.lines))
        done == r.op = "stream" /\ batch = <<>>
    IN /\ r.at = "read"
       /\ Step(w, IF Contains(batch, Bad) THEN Failed(r)
                  ELSE IF done THEN [r EXCEPT !.at = "audit"]
                  ELSE [r EXCEPT !.acc = batch, !.lines = rest, !.at = "usage", !.quota = AllLists])
       /\ UNCHANGED <<current, body, commits, audits, landed, shipped>>

----------------------------------------------------------------------------
(* The quotas.                                                             *)

\* ...adds up their keys, one list after the other...
AddUsage(w) ==
    LET r == upload[w]
        l == Min(r.quota.todo)
    IN /\ r.at = "usage" /\ r.quota.todo # {}
       /\ Step(w, [r EXCEPT !.quota.todo = @ \ {l}, !.quota.sum = @ + KeyCount(body[r.quota.seen[l]])])
       /\ UNCHANGED <<current, body, commits, audits, landed, shipped>>

WithinQuotaOnce(r) ==
    LET credit == IF r.op = "replace" THEN KeyCount(body[current[r.list]]) ELSE 0
    IN r.applied > 0 \/ MaxTotalKeys = 0 \/ r.quota.sum + BatchKeys(r.acc) <= MaxTotalKeys + credit

\* ...and credits a replace with the keys its list has by then.
WithinQuota(r) ==
    LET credit == IF r.op = "replace" THEN KeyCount(body[current[r.list]]) ELSE 0
    IN MaxTotalKeys = 0 \/ r.quota.sum + BatchKeys(r.acc) <= MaxTotalKeys + credit

DecideKeys(w) ==
    LET r == upload[w]
    IN /\ r.at = "usage" /\ r.quota.todo = {}
       /\ Step(w, IF WithinQuota(r) THEN [r EXCEPT !.at = "apply", !.quota = NoUsage] ELSE Failed(r))
       /\ UNCHANGED <<current, body, commits, audits, landed, shipped>>

RoomForList == Cardinality(ServedNames) < MaxLists

\* checkListQuota: another list is one too many.
CheckCount(w) ==
    LET r == upload[w]
    IN /\ r.at = "count"
       /\ Step(w, IF RoomForList THEN [r EXCEPT !.at = "apply"] ELSE Waiting)
       /\ UNCHANGED <<current, body, commits, audits, landed, shipped>>

----------------------------------------------------------------------------
(* The store operation and the audit line.                                 *)

\* w commits n entries to object o; r is what its handler knows then.
Commit(w, r, o, n) ==
    /\ Len(commits) < MaxCommits
    /\ commits' = Append(commits, [obj |-> o, n |-> n])
    /\ Step(w, [r EXCEPT !.version = Len(commits) + 1, !.applied = @ + n,
                         !.mine = @ \cup {Len(commits) + 1}])

Stands(w, ops) == upload[w].at = "apply" /\ upload[w].op \in ops

SameGenerationAny(r) == TRUE

\* UpsertGenVersioned: the generation is compared under the list's lock.
SameGeneration(r) == r.op = "stream" => current[r.list] = r.gen

\* UpsertVersioned and UpsertGenVersioned.
Upsert(w) ==
    LET r == upload[w]
        o == current[r.list]
        next == IF r.op = "stream" THEN "read" ELSE "audit"
    IN /\ Stands(w, {"stream", "upsert"})
       /\ SameGeneration(r)
       /\ Commit(w, [r EXCEPT !.acc = <<>>, !.at = next], o, Len(r.acc))
       /\ body' = [body EXCEPT ![o] = Upserted(@, r.acc)]
       /\ landed' = [landed EXCEPT ![w] = BatchKeys(r.acc)]
       /\ UNCHANGED <<current, audits, shipped>>

\* ReplaceVersioned.
Replace(w) ==
    LET r == upload[w]
        o == current[r.list]
    IN /\ Stands(w, {"replace"})
       /\ Commit(w, [r EXCEPT !.acc = <<>>, !.at = "audit"], o, Len(r.acc))
       /\ body' = [body EXCEPT ![o] = Upserted(NoContent, r.acc)]
       /\ landed' = [landed EXCEPT ![w] = BatchKeys(r.acc)]
       /\ UNCHANGED <<current, audits, shipped>>

\* DeleteVersioned: also of an ID that is not live.
Delete(w) ==
    LET r == upload[w]
        o == current[r.list]
        i == Head(r.lines).id
    IN /\ Stands(w, {"delete"})
       /\ Commit(w, [r EXCEPT !.at = "audit"], o, 1)
       /\ body' = [body EXCEPT ![o][i] = 0]
       /\ UNCHANGED <<current, audits, landed, shipped>>

\* CompactVersioned reports the entries it folded.
Compact(w) ==
    LET r == upload[w]
        o == current[r.list]
    IN /\ Stands(w, {"compact"})
       /\ Commit(w, [r EXCEPT !.at = "audit"], o, Present(body[o]))
       /\ UNCHANGED <<current, body, audits, landed, shipped>>

\* The list object a PUT or a reload installs.
NewObject == Max(Range(current)) + 1

\* CreateListVersioned.
Create(w) ==
    LET r == upload[w]
    IN /\ Stands(w, {"create"}) /\ NewObject \in Objects
       /\ Commit(w, [r EXCEPT !.at = "audit"], NewObject, 0)
       /\ current' = [current EXCEPT ![r.list] = NewObject]
       /\ body' = [body EXCEPT ![NewObject] = NoContent]
       /\ UNCHANGED <<audits, landed, shipped>>

\* ReloadListVersioned: what is on disk becomes a new list, outside quotas.
ReloadBundle(w, content) ==
    LET r == upload[w]
    IN /\ Stands(w, {"reload"}) /\ NewObject \in Objects
       /\ Commit(w, [r EXCEPT !.at = "audit"], NewObject, Present(content))
       /\ current' = [current EXCEPT ![r.list] = NewObject]
       /\ body' = [body EXCEPT ![NewObject] = content]
       /\ shipped' = [keys |-> Max({shipped.keys, Usage'}), lists |-> Max({shipped.lists, Cardinality(ServedNames')})]
       /\ UNCHANGED <<audits, landed>>

\* The store refuses: closed, damaged, a hot key, a write error, another
\* generation.  Nothing of this batch is applied.
Refused(w) ==
    /\ upload[w].at = "apply"
    /\ Step(w, Failed(upload[w]))
    /\ UNCHANGED <<current, body, commits, audits, landed, shipped>>

LineLookedUp(r) ==
    [op |-> r.op, n |-> r.applied, partial |-> r.partial, mine |-> r.mine,
     version |-> Max({0} \cup {v \in DOMAIN commits : commits[v].obj = current[r.list]})]

\* auditMut: the version is the one the handler was given.  The reload
\* handler asks the list it got for its status, without a lock.
Line(r) ==
    [op |-> r.op, partial |-> r.partial, mine |-> r.mine, version |-> r.version,
     n |-> IF r.op = "reload" THEN Present(body[commits[r.version].obj]) ELSE r.applied]

Audit(w) ==
    /\ upload[w].at = "audit"
    /\ audits' = audits \cup {Line(upload[w])}
    /\ Step(w, Waiting)
    /\ UNCHANGED <<current, body, commits, landed, shipped>>

----------------------------------------------------------------------------
UploadInit ==
    /\ \E S \in Starts :
         current = [l \in Names |-> IF l \in S THEN l ELSE 0]
    /\ body = [o \in Objects |-> NoContent]
    /\ commits = <<>> /\ audits = {}
    /\ upload = [w \in Writers |-> Waiting]
    /\ landed = [w \in Writers |-> 0]
    /\ shipped = [keys |-> 0, lists |-> Cardinality(ServedNames)]

UploadNext ==
    \E w \in Writers :
        \/ \E ask \in Asked : Begin(w, ask)
        \/ ReadBody(w)
        \/ AddUsage(w) \/ DecideKeys(w) \/ CheckCount(w)
        \/ Upsert(w) \/ Replace(w) \/ Compact(w) \/ Create(w)
        \/ Delete(w)
        \/ \E content \in Bundles : ReloadBundle(w, content)
        \/ Refused(w) \/ Audit(w)

UploadSpec == UploadInit /\ [][UploadNext]_uploadVars

----------------------------------------------------------------------------
(* Properties.                                                             *)

\* Types of the handlers' state; no list object is served under two names.
UploadTypeOK ==
    /\ current \in [Names -> 0 .. MaxObjects]
    /\ \A l, m \in ServedNames : current[l] = current[m] => l = m
    /\ body \in [Objects -> [Ids -> Nat]]
    /\ \A v \in DOMAIN commits : commits[v].obj \in Objects
    /\ \A w \in Writers :
         upload[w].at \in {"idle", "read", "usage", "count", "apply", "audit"}

\* Requests with commits, running or ended.
Owners == audits \cup {upload[w] : w \in {x \in Writers : upload[x] # Waiting}}

\* A PUT or reload that arrives between two batches of an NDJSON upload
\* never gets the rest of it: all batches of a stream are in one list object
\* (upsertNDJSON, UpsertGenVersioned).
OneGeneration ==
    \A r \in Owners : r.op = "stream" =>
        \A u, v \in r.mine : commits[u].obj = commits[v].obj

\* A line has the version its last commit produced.
LastVersionTold == \A a \in audits : a.version = Max({0} \cup a.mine)

Sizes == [v \in DOMAIN commits |-> commits[v].n]

\* A line has the number of entries of all its commits; a reload's is left out.
CountTold ==
    \A a \in audits :
        a.op # "reload" => a.n = SumFunctionOnSet(Sizes, a.mine)

\* Every commit is in exactly one line, or will be.
AuditedOnce ==
    \A v \in DOMAIN commits :
        /\ \E r \in Owners : v \in r.mine
        /\ \A a \in audits : v \in a.mine =>
              \A w \in Writers : upload[w] = Waiting \/ v \notin upload[w].mine
        /\ Cardinality({a \in audits : v \in a.mine}) <= 1

\* The audit stream is the history: a line pairs a request with the version
\* its last commit produced and with the number of entries all its commits
\* covered, whatever other requests committed meanwhile (auditMut), and no
\* commit goes without a line: an upload that fails half way has one for the
\* half it applied (fail in upsertNDJSON).
AuditIsTrue == LastVersionTold /\ CountTold /\ AuditedOnce

\* The quotas are soft by one batch, or one list, per concurrent client and
\* no more: what is read before a batch is applied may be stale, but the
\* next check sees it (checkKeyQuota, checkListQuota).  Reloads are exempt.
QuotasAreSoft ==
    /\ MaxTotalKeys > 0 =>
         Usage <= Max({MaxTotalKeys, shipped.keys}) + SumFunctionOnSet(landed, Writers)
    /\ MaxLists > 0 =>
         Cardinality(ServedNames) < Max({MaxLists, shipped.lists}) + Cardinality(Writers)

\* "n is the entry count the acknowledgment covered; version is the stamp the
\* mutation COMMITTED": they describe one commit, for a reload too.
ReloadAuditIsTrue ==
    \A a \in audits : a.op = "reload" => a.n = commits[a.version].n
=============================================================================
