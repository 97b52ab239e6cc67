----------------------------- MODULE ListQuery -----------------------------
(***************************************************************************)
(* The query path of a list (engine/list.go, rank.go, exact/exact.go): a   *)
(* query is prepared, which pins a snapshot and prices it, waits for       *)
(* admission while mutations install new snapshots, and is executed on the *)
(* pinned one.  Lookups are exact (with parent fallback), n-gram, or exact *)
(* any-of.                                                                 *)
(*                                                                         *)
(* EntryIDs are numbers, ordered as the strings are.  A raw key is a       *)
(* sequence of characters of which the analyzer keeps the Letters; read as *)
(* a domain, its characters are labels.  A payload is what the filter says *)
(* of it: "yes", "no", or "bad" when it is malformed (Filters has the      *)
(* evaluation itself).  A charge counts hits and evaluations; the bytes    *)
(* each is priced at are left out.                                         *)
(***************************************************************************)
EXTENDS NgramIndex, TLC

CONSTANTS
    Letters,      \* characters the analyzer keeps
    Configs,      \* resolved list configurations
    Bases,        \* entry sequences a Replace may carry
    Batches,      \* entry sequences an Upsert may carry
    Asks,         \* queries: kind, text or terms, options
    MaxMutations  \* bound: mutations of the list

VARIABLES
    cfg,    \* the list's configuration
    snap,   \* the installed snapshot: base, overlay, tombstones
    gen,    \* mutations so far, which is the snapshot's version
    query   \* the one query in flight

queryVars == <<cfg, snap, gen, query>>

Empty == [base |-> <<>>, over |-> <<>>, tomb |-> {}]

NoQuery == [at |-> "none"]

IdsOf(seg) == {seg[i].id : i \in DOMAIN seg}

Normalize(key) == SelectSeq(key, LAMBDA c : c \in Letters)

\* The analyzed keys of an entry; those that collapse to "" are dropped.
Analyzed(e) == {Normalize(e.keys[i]) : i \in DOMAIN e.keys} \ {<<>>}

----------------------------------------------------------------------------
(* Mutations.                                                              *)

dedupeLastWins(es) ==
    LET last(i) == \A j \in i + 1 .. Len(es) : es[j].id # es[i].id
        kept == SelectSeq([i \in DOMAIN es |-> i], last)
    IN [n \in DOMAIN kept |-> es[kept[n]]]

ById(S) == SetToSortSeq(S, LAMBDA a, b : a.id < b.id)

UpsertedUnmasked(s, es) ==
    LET new == dedupeLastWins(es)
        old == {e \in ToSet(s.over) : e.id \notin IdsOf(new)}
    IN [s EXCEPT !.over = ById(old \cup ToSet(new))]

\* prepareUpsertLocked and the overlay build: sorted by ID, last wins, and
\* the base copy is masked.
Upserted(s, es) ==
    LET new == dedupeLastWins(es)
        old == {e \in ToSet(s.over) : e.id \notin IdsOf(new)}
    IN [s EXCEPT !.over = ById(old \cup ToSet(new)),
                 !.tomb = @ \cup (IdsOf(new) \cap IdsOf(s.base))]

\* prepareDeleteLocked.
Deleted(s, id) ==
    [s EXCEPT !.over = SelectSeq(@, LAMBDA e : e.id # id),
              !.tomb = @ \cup ({id} \cap IdsOf(s.base))]

\* liveEntriesLocked.
Live(s) == {e \in ToSet(s.base) : e.id \notin s.tomb \cup IdsOf(s.over)} \cup ToSet(s.over)

Install(s) ==
    /\ gen < MaxMutations
    /\ gen' = gen + 1
    /\ snap' = s
    /\ UNCHANGED <<cfg, query>>

Replace(es) == Install([Empty EXCEPT !.base = dedupeLastWins(es)])
Upsert(es) == Install(Upserted(snap, es))
Delete(id) == Install(Deleted(snap, id))
Compact == Install([Empty EXCEPT !.base = ById(Live(snap))])

----------------------------------------------------------------------------
(* Counters derived from a snapshot.                                       *)

KeysIn(es) == MapThenSumSet(LAMBDA e : Len(e.keys), es)

KeyCount(s) ==
    KeysIn(ToSet(s.base)) - KeysIn({e \in ToSet(s.base) : e.id \in s.tomb}) + KeysIn(ToSet(s.over))

Keyless(es) == Cardinality({e \in es : e.keys # <<>> /\ Analyzed(e) = {}})

Status(s) ==
    LET tombs == Cardinality(s.tomb \cap IdsOf(s.base))
    IN [entries |-> Len(s.base) - tombs + Len(s.over),
        overlay |-> Len(s.over), tombstones |-> tombs,
        keyless |-> Keyless(ToSet(s.base)) + Keyless(ToSet(s.over))]

----------------------------------------------------------------------------
(* Prepare.                                                                *)

effectiveTopK(ask) ==
    IF ask.topK > 0 THEN ask.topK ELSE IF ask.topK < 0 THEN 0 ELSE cfg.topK

Threshold(ask) ==
    IF ask.thr > 0 THEN ask.thr ELSE IF ask.thr < 0 THEN 0 ELSE cfg.thr

\* The query, then its parents of two labels or more.
exactLevels(aq, fallback) ==
    IF fallback THEN <<aq>> \o [i \in 1 .. Len(aq) - 2 |-> SubSeq(aq, i + 1, Len(aq))] ELSE <<aq>>

\* anyOfTerms: analyzed, emptied ones dropped, duplicates merged.
anyOfTerms(terms) ==
    FoldLeft(LAMBDA out, t : IF Normalize(t) = <<>> \/ Contains(out, Normalize(t)) THEN out
                             ELSE Append(out, Normalize(t)), <<>>, terms)

\* exact.Index.Lookup: the ascending run of one key.
Run(seg, key) == SelectSeq([o \in DOMAIN seg |-> o], LAMBDA o : key \in Analyzed(seg[o]))

ExactOrds(seg) == Max({0} \cup {o \in DOMAIN seg : Analyzed(seg[o]) # {}})

NgramOf(seg) == Build([o \in DOMAIN seg |-> Analyzed(seg[o])])

Cap(n, topK) == IF topK > 0 /\ topK < n THEN topK ELSE n

anyOfHits(s, terms) ==
    FoldLeft(LAMBDA n, t : n + Len(Run(s.base, t)) + Len(Run(s.over, t)), 0, terms)

CostUnwidened(s, ask) ==
    LET k == effectiveTopK(ask)
        reached == anyOfHits(s, anyOfTerms(ask.terms))
        levels == Len(exactLevels(Normalize(ask.q), cfg.fallback))
        ngOrds(seg) == NumOrds(NgramOf(seg))
        wide == k
    IN CASE ask.kind = "anyOf" -> [hits |-> Cap(reached, k), evals |-> reached]
         [] ask.kind = "query" /\ cfg.mode = "exact" ->
              [hits  |-> Cap(ExactOrds(s.base), k) + Cap(ExactOrds(s.over), k),
               evals |-> levels * (ExactOrds(s.base) + ExactOrds(s.over))]
         [] OTHER ->
              [hits  |-> Cap(ngOrds(s.base), wide) + Cap(ngOrds(s.over), k),
               evals |-> ngOrds(s.base) + ngOrds(s.over)]

\* anyOfCostSnap, and scratchBytesSnap with the filter charges.
Cost(s, ask) ==
    LET k == effectiveTopK(ask)
        reached == anyOfHits(s, anyOfTerms(ask.terms))
        levels == Len(exactLevels(Normalize(ask.q), cfg.fallback))
        ngOrds(seg) == NumOrds(NgramOf(seg))
        wide == IF k > 0 THEN k + Cardinality(s.tomb) ELSE 0
    IN CASE ask.kind = "anyOf" -> [hits |-> Cap(reached, k), evals |-> reached]
         [] ask.kind = "query" /\ cfg.mode = "exact" ->
              [hits  |-> Cap(ExactOrds(s.base), k) + Cap(ExactOrds(s.over), k),
               evals |-> levels * (ExactOrds(s.base) + ExactOrds(s.over))]
         [] OTHER ->
              [hits  |-> Cap(ngOrds(s.base), wide) + Cap(ngOrds(s.over), k),
               evals |-> ngOrds(s.base) + ngOrds(s.over)]

\* PrepareQuery, PrepareTypedFilteredQuery, PrepareExactAnyOf.
Prepare(ask) ==
    /\ query.at = "none"
    /\ ask.kind = "anyOf" => (cfg.mode = "exact" \/ cfg.companion)
    /\ query' = [at |-> "prepared", ask |-> ask, snap |-> snap, cost |-> Cost(snap, ask),
                 canceled |-> FALSE]
    /\ UNCHANGED <<cfg, snap, gen>>

\* The request's context ends: client gone or deadline passed.
Cancel ==
    /\ query.at \in {"prepared", "walked"} /\ ~query.canceled
    /\ query' = [query EXCEPT !.canceled = TRUE]
    /\ UNCHANGED <<cfg, snap, gen>>

----------------------------------------------------------------------------
(* Execute.  A walk's result: candidates in collection order, counters and *)
(* whether a malformed payload was met.  peak is what it retained at most. *)

Nothing == [out |-> <<>>, evaluated |-> 0, rejected |-> 0, failed |-> FALSE, peak |-> 0, level |-> <<>>]

Candidate(seg, ord, tag, score) ==
    [id |-> seg[ord].id, score |-> score, seg |-> tag, ord |-> ord]

\* The filter on one live entry: counters, and whether it failed.
Evaluate(acc, e) ==
    [acc EXCEPT !.evaluated = @ + 1,
                !.rejected = @ + (IF e.payload = "no" THEN 1 ELSE 0),
                !.failed = @ \/ e.payload = "bad"]

Passes(e, filtered) == filtered => e.payload = "yes"

\* add, as the exact walk calls it.
add(acc, seg, tag, masked, ord, score, filtered) ==
    LET seen == IF filtered THEN Evaluate(acc, seg[ord]) ELSE acc
    IN IF seg[ord].id \in masked THEN acc
       ELSE IF Passes(seg[ord], filtered)
       THEN [seen EXCEPT !.out = Append(@, Candidate(seg, ord, tag, score))] ELSE seen

\* One level of the exact walk: base, then overlay, up to topK survivors.
WalkLevel(s, acc, level, score, topK, filtered) ==
    LET full(a) == topK > 0 /\ Len(a.out) >= topK
        segment(a, seg, tag, masked) ==
            FoldLeft(LAMBDA b, o : IF full(b) THEN b ELSE add(b, seg, tag, masked, o, score, filtered),
                     a, Run(seg, level))
    IN segment(segment(acc, s.base, "base", s.tomb), s.over, "over", {})

\* The exact branch of querySnap: the first level with survivors wins.
WalkExact(s, aq, thr, topK, filtered) ==
    LET score(level) == IF level = aq THEN 100 ELSE 90
        step(acc, level) ==
            IF acc.out # <<>> \/ score(level) < thr THEN acc
            ELSE LET next == WalkLevel(s, acc, level, score(level), topK, filtered)
                 IN IF next.out # <<>> THEN [next EXCEPT !.level = level] ELSE next
        walked == FoldLeft(step, Nothing, exactLevels(aq, cfg.fallback))
    IN [walked EXCEPT !.peak = Len(walked.out)]

Retain(acc, seg, tag, masked, kept) ==
    LET live == SelectSeq(kept, LAMBDA h : seg[h.ord].id \notin masked)
    IN [acc EXCEPT !.peak = @ + Len(kept),
          !.out = @ \o [i \in DOMAIN live |-> Candidate(seg, live[i].ord, tag, live[i].score)]]

\* With a filter, masking and filtering precede the cut...
RetainFiltered(acc, seg, tag, live, topK) ==
    Retain(FoldLeft(LAMBDA a, h : Evaluate(a, seg[h.ord]), acc, live), seg, tag, {},
           Best(SelectSeq(live, LAMBDA h : seg[h.ord].payload = "yes"), topK))

segKNarrow(topK, masked) == topK

\* ...without one, the cut is widened by the tombstones and masking follows.
segK(topK, masked) == IF topK = 0 THEN 0 ELSE topK + Cardinality(masked)

collectHits(acc, seg, tag, masked, found, topK, filtered) ==
    IF filtered
    THEN RetainFiltered(acc, seg, tag, SelectSeq(found, LAMBDA h : seg[h.ord].id \notin masked), topK)
    ELSE Retain(acc, seg, tag, masked, Best(found, segK(topK, masked)))

collectNgram(acc, seg, tag, masked, aq, thr, topK, filtered) ==
    collectHits(acc, seg, tag, masked, Scan(NgramOf(seg), aq, thr), topK, filtered)

\* anyOfSnap: every reached ordinal, whatever term reached it.  peak is what
\* is retained between two ordinals: push holds one more while it evicts.
WalkAnyOf(s, terms, topK, filtered) ==
    LET visit(acc, seg, tag, masked, o) ==
            LET e == seg[o]
                seen == IF filtered THEN [acc EXCEPT !.walk = Evaluate(@, e)] ELSE acc
            IN IF ~admits(acc.sel, topK, <<tag, o>>, e.id) \/ e.id \in masked THEN acc
               ELSE IF Passes(e, filtered) THEN [seen EXCEPT !.sel = push(@, topK, <<tag, o>>, e.id)]
               ELSE seen
        collect(acc, seg, tag, masked) ==
            FoldLeft(LAMBDA a, t : FoldLeft(LAMBDA b, o : visit(b, seg, tag, masked, o), a, Run(seg, t)),
                     acc, terms)
        start == [sel |-> NoSelection, walk |-> Nothing]
        end == collect(collect(start, s.base, "base", s.tomb), s.over, "over", {})
        out == sorted(end.sel.items)
    IN [end.walk EXCEPT !.peak = Len(out),
          !.out = [i \in DOMAIN out |-> [id |-> out[i].id, score |-> 100,
                                         seg |-> out[i].key[1], ord |-> out[i].key[2]]]]

\* A scan that saw the cancellation returns nothing, but may have met a
\* malformed payload before.
Returned(acc, whole, lost, met) ==
    IF lost THEN [acc EXCEPT !.failed = @ \/ (met /\ whole.failed)] ELSE whole

\* The n-gram branch of querySnap.
WalkNgram(s, aq, thr, topK, filtered, missed, met) ==
    LET scan(acc, seg, tag, masked) ==
            Returned(acc, collectNgram(acc, seg, tag, masked, aq, thr, topK, filtered), tag \in missed, met)
    IN scan(scan(Nothing, s.base, "base", s.tomb), s.over, "over", {})

WalkedOn(s, ask, missed, met) ==
    LET aq == Normalize(ask.q)
        k == effectiveTopK(ask)
    IN CASE ask.kind = "anyOf" -> WalkAnyOf(s, anyOfTerms(ask.terms), k, ask.filtered)
         [] ask.kind = "query" /\ aq = <<>> -> Nothing
         [] ask.kind = "query" /\ aq # <<>> /\ cfg.mode = "exact" ->
              WalkExact(s, aq, Threshold(ask), k, ask.filtered)
         [] OTHER -> WalkNgram(s, aq, Threshold(ask), k, ask.filtered, missed, met)

Done(q, status, out, stats) ==
    [at |-> "done", ask |-> q.ask, snap |-> q.snap, cost |-> q.cost, walk |-> q.walk,
     status |-> status, out |-> out, stats |-> stats]

NoStats == [evaluated |-> 0, rejected |-> 0]

\* The walk of querySnap or anyOfSnap over the pinned snapshot.
Walk ==
    /\ query.at = "prepared"
    /\ \E missed \in SUBSET {"base", "over"}, met \in BOOLEAN :
         /\ missed # {} => query.canceled /\ query.ask.kind = "query" /\ cfg.mode = "ngram"
         /\ met => missed # {}
         /\ query' = [at |-> "walked", ask |-> query.ask, snap |-> query.snap, cost |-> query.cost,
                      canceled |-> query.canceled, walk |-> WalkedOn(query.snap, query.ask, missed, met)]
    /\ UNCHANGED <<cfg, snap, gen>>

\* A poll of the exact or any-of walk sees the cancellation: nil at once.
Abandon ==
    /\ query.at = "prepared" /\ query.canceled
    /\ query' = Done(query @@ [walk |-> Nothing], "canceled", <<>>, NoStats)
    /\ UNCHANGED <<cfg, snap, gen>>

sortCandidates(out) ==
    SortSeq(out, LAMBDA a, b : a.score > b.score \/ (a.score = b.score /\ a.id < b.id))

\* The entry a candidate is attributed by: the overlay's copy if it has one.
Attributed(s, c) ==
    LET e == (IF c.seg = "base" THEN s.base ELSE s.over)[c.ord]
        newer == {o \in ToSet(s.over) : o.id = e.id}
    IN IF c.seg = "base" /\ newer # {} THEN CHOOSE o \in newer : TRUE ELSE e

\* attributeKeys and attributeAnyOf: the first key that fits best.
attributeKeys(keys, ask, level) ==
    LET aq == Normalize(ask.q)
        fit(i) == IF cfg.mode = "exact" THEN IF Normalize(keys[i]) = level THEN 1 ELSE 0
                  ELSE Cardinality(ToSet(EachGram(aq)) \cap ToSet(EachGram(Normalize(keys[i]))))
        best == {i \in DOMAIN keys : \A j \in DOMAIN keys : fit(i) >= fit(j)}
        named == {i \in DOMAIN keys : Contains(anyOfTerms(ask.terms), Normalize(keys[i]))}
    IN IF keys = <<>> THEN <<>>
       ELSE IF ask.kind = "anyOf" THEN keys[Min(named)] ELSE keys[Min(best)]

Answer(s, ask, walk) ==
    LET order == IF ask.kind = "anyOf" THEN walk.out ELSE sortCandidates(walk.out)
        cut == SubSeq(order, 1, Cap(Len(order), effectiveTopK(ask)))
    IN [i \in DOMAIN cut |->
          [id |-> cut[i].id, score |-> cut[i].score,
           key |-> attributeKeys(Attributed(s, cut[i]).keys, ask, walk.level)]]

\* The tail of querySnap and anyOfSnap: they look at the error and at the
\* context in opposite orders.
Finished(q) ==
    LET stats == [evaluated |-> q.walk.evaluated, rejected |-> q.walk.rejected]
    IN IF q.walk.failed /\ ~(q.canceled /\ q.ask.kind = "anyOf") THEN Done(q, "failed", <<>>, NoStats)
       ELSE IF q.canceled THEN Done(q, "canceled", <<>>, NoStats)
       ELSE Done(q, "ok", Answer(q.snap, q.ask, q.walk), IF q.ask.filtered THEN stats ELSE NoStats)

Finish ==
    /\ query.at = "walked"
    /\ query' = Finished(query)
    /\ UNCHANGED <<cfg, snap, gen>>

QueryInit ==
    /\ cfg \in Configs
    /\ snap \in {[Empty EXCEPT !.base = dedupeLastWins(es)] : es \in Bases}
    /\ gen = 0
    /\ query = NoQuery

QueryNext ==
    \/ \E es \in Bases : Replace(es)
    \/ \E es \in Batches : Upsert(es)
    \/ \E id \in UNION {IdsOf(es) : es \in Batches} : Delete(id)
    \/ Compact
    \/ \E ask \in Asks : Prepare(ask)
    \/ Cancel \/ Walk \/ Abandon \/ Finish

QuerySpec == QueryInit /\ [][QueryNext]_queryVars

----------------------------------------------------------------------------
(* What an answer should be, from the entries alone.                       *)

\* The verdict with malformed payloads taken to pass, or not.
Admitted(e, filtered, bad) ==
    filtered => (e.payload = "yes" \/ (e.payload = "bad" /\ bad))

SegmentOf(s, e) == IF e.id \in IdsOf(s.over) THEN s.over ELSE s.base

\* The exact IDF-weighted coverage of one entry within its segment, and what
\* rounding two values for every gram can make of it.
Coverage(s, e, aq) ==
    LET seg == SegmentOf(s, e)
        gi == Known(NgramOf(seg), aq)
        o == CHOOSE o \in DOMAIN seg : seg[o] = e
    IN [score |-> Total(SelectSeq(gi, LAMBDA g : o \in g.post)), max |-> Total(gi), slack |-> Len(gi) * Ulp]

IsNgram(ask) == ask.kind = "query" /\ cfg.mode = "ngram" /\ Normalize(ask.q) # <<>>

\* By how much an entry is over the floor, in hundredths.
Over(cov, ask) == 100 * cov.score - Threshold(ask) * cov.max

\* The entries that hold a gram of the query and reach the floor.
Reach(s, ask) ==
    {e \in Live(s) : LET cov == Coverage(s, e, Normalize(ask.q)) IN cov.score > 0 /\ Over(cov, ask) >= 0}

\* The entries so close to the floor that rounding decides about them.
OnFloor(s, ask) ==
    IF ~IsNgram(ask) THEN {}
    ELSE {e \in Live(s) : LET cov == Coverage(s, e, Normalize(ask.q))
                          IN cov.score > 0 /\ Over(cov, ask) \in -100 * cov.slack .. 100 * cov.slack}

\* Of the entries on the floor those in kept match.
NgramMatches(s, ask, bad, kept) ==
    LET hits == (Reach(s, ask) \ OnFloor(s, ask)) \cup kept
        score(e) == LET cov == Coverage(s, e, Normalize(ask.q)) IN Round(cov.score, cov.max)
    IN IF ~IsNgram(ask) THEN {}
       ELSE {[id |-> e.id, score |-> score(e)] : e \in {x \in hits : Admitted(x, ask.filtered, bad)}}

ExactMatches(s, ask, bad) ==
    LET aq == Normalize(ask.q)
        levels == exactLevels(aq, cfg.fallback)
        score(i) == IF i = 1 THEN 100 ELSE 90
        holders(i) == {e \in Live(s) : levels[i] \in Analyzed(e) /\ Admitted(e, ask.filtered, bad)}
        open == {i \in DOMAIN levels : score(i) >= Threshold(ask) /\ holders(i) # {}}
    IN IF open = {} THEN {} ELSE {[id |-> e.id, score |-> score(Min(open))] : e \in holders(Min(open))}

AnyOfMatches(s, ask, bad) ==
    {[id |-> e.id, score |-> 100] :
        e \in {x \in Live(s) : /\ Analyzed(x) \cap {Normalize(ask.terms[i]) : i \in DOMAIN ask.terms} # {}
                               /\ Admitted(x, ask.filtered, bad)}}

Matches(s, ask, bad, kept) ==
    IF ask.kind = "anyOf" THEN AnyOfMatches(s, ask, bad)
    ELSE IF cfg.mode = "exact" THEN ExactMatches(s, ask, bad) ELSE NgramMatches(s, ask, bad, kept)

\* out is a best-K of the matches, in order; any-of lookups have no ties.
RightAnswer(out, matches, k, kind) ==
    LET got == {[id |-> out[i].id, score |-> out[i].score] : i \in DOMAIN out}
    IN /\ got \subseteq matches
       /\ Cardinality(got) = Len(out)
       /\ Len(out) = Cap(Cardinality(matches), k)
       /\ \A i \in 1 .. Len(out) - 1 :
            out[i].score > out[i + 1].score \/ (out[i].score = out[i + 1].score /\ out[i].id < out[i + 1].id)
       /\ \A m \in matches \ got, g \in got :
            m.score <= g.score /\ (kind = "anyOf" => m.id > g.id)

Answered == query.at = "done" /\ query.status = "ok"

----------------------------------------------------------------------------
(* Properties.                                                             *)

\* Types, and the snapshot's own invariants: only base IDs are masked, no ID
\* is live twice, and the counts kept by subtraction over tombstones are
\* those of the live entries (Status, KeyCount).
QueryTypeOK ==
    /\ cfg \in Configs
    /\ gen \in 0 .. MaxMutations
    /\ DOMAIN snap = {"base", "over", "tomb"}
    /\ query.at \in {"none", "prepared", "walked", "done"}
    /\ snap.tomb \subseteq IdsOf(snap.base)
    /\ IdsOf(snap.over) \cap IdsOf(snap.base) \subseteq snap.tomb
    /\ Status(snap).entries = Cardinality(Live(snap))
    /\ KeyCount(snap) = KeysIn(Live(snap))

\* A successful answer is the best K of the pinned snapshot's live entries:
\* the widened or filtered cut, the generator split, early stops and parent
\* fallback lose nothing, a canceled scan is never passed off as complete,
\* and a malformed payload never decides an answer in silence.  Only an
\* entry within rounding of the floor may be on either side of it
\* (querySnap, anyOfSnap, lookup).
BestAreAnswered ==
    Answered =>
        \A bad \in BOOLEAN :
            \E kept \in SUBSET OnFloor(query.snap, query.ask) :
                RightAnswer(query.out, Matches(query.snap, query.ask, bad, kept),
                            effectiveTopK(query.ask), query.ask.kind)

\* "Provably recall-complete for the threshold": an n-gram answer without a
\* bound on its length has every live entry that covers the query to the
\* threshold (Index.Lookup).
RecallComplete ==
    Answered /\ IsNgram(query.ask) /\ effectiveTopK(query.ask) = 0 =>
        \A e \in Reach(query.snap, query.ask) :
            Admitted(e, query.ask.filtered, FALSE) => \E i \in DOMAIN query.out : query.out[i].id = e.id

\* What execution retains and evaluates is what admission was charged for,
\* although the list may have grown since (PreparedQuery, scratchBytesSnap,
\* anyOfCostSnap, filterChargeSnap).
ChargeCoversWork ==
    query.at \in {"walked", "done"} =>
        /\ query.walk.peak <= query.cost.hits
        /\ query.walk.evaluated <= query.cost.evals

\* filter_stats are evidence: none without a filtered answer, and of the
\* evaluated entries all but the rejected ones passed; an n-gram answer has
\* evaluated every live entry over the floor (ExecuteStats).
StatsAreEvidence ==
    query.at = "done" =>
        IF ~Answered \/ ~query.ask.filtered THEN query.stats = NoStats
        ELSE LET passed == query.stats.evaluated - query.stats.rejected
                 all(kept) == Matches(query.snap, [query.ask EXCEPT !.filtered = FALSE], TRUE, kept)
             IN CASE query.ask.kind = "anyOf" -> passed >= Len(query.out)
                  [] query.ask.kind = "query" /\ cfg.mode = "exact" -> passed = Len(query.out)
                  [] OTHER -> \E kept \in SUBSET OnFloor(query.snap, query.ask) :
                                query.stats.evaluated = Cardinality(all(kept))

\* Candidate.key is a key the live entry has; in an exact or any-of answer it
\* is one that analyzes to what was looked up: the query, the listed parent,
\* or a term (attributeKeys, attributeAnyOf).
KeyNamesTheMatch ==
    Answered =>
        \A i \in DOMAIN query.out :
            LET c == query.out[i]
                e == CHOOSE x \in Live(query.snap) : x.id = c.id
                aq == Normalize(query.ask.q)
                levels == ToSet(exactLevels(aq, cfg.fallback))
            IN /\ Contains(e.keys, c.key)
               /\ query.ask.kind = "anyOf" => Contains(anyOfTerms(query.ask.terms), Normalize(c.key))
               /\ (query.ask.kind = "query" /\ cfg.mode = "exact") =>
                     /\ Normalize(c.key) \in levels
                     /\ c.score = 100 <=> Normalize(c.key) = aq

\* An answer is right in all it says: its candidates, the keys they carry and
\* the statistics that come with it.
AnswerIsRight == BestAreAnswered /\ KeyNamesTheMatch /\ StatsAreEvidence
=============================================================================
