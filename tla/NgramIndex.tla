----------------------------- MODULE NgramIndex -----------------------------
(***************************************************************************)
(* The character n-gram index (engine/ngram/ngram.go): building, the two   *)
(* gram generators, and the pigeonhole scan of lookup.  A string is a      *)
(* sequence of characters; an index maps every ordinal (from 1) to the     *)
(* grams of its entry, which is the inverse of the postings map.           *)
(*                                                                         *)
(* Weights are ln(1 + n/c) in units of 10^-5.  float64 is exact here; a    *)
(* float32 is a multiple of Ulp, far coarser than in the code but chosen   *)
(* so that every weight is rounded the way float32 rounds it.  Thresholds  *)
(* and scores are percentages.  Strings have no spaces: StripSpaces, which *)
(* drops them on both sides, has been applied.                             *)
(***************************************************************************)
EXTENDS BoundedHeaps, FiniteSets, FiniteSetsExt

CONSTANTS
    Grams,  \* Config.Grams: the gram sizes, a sequence
    Ulp     \* spacing of the values a float32 can hold

Windows(s, n) ==
    IF Len(s) < n THEN <<s>> ELSE [i \in 1 .. Len(s) - n + 1 |-> SubSeq(s, i, i + n - 1)]

\* The index side: the grams of one key.
CharGrams(s, n) == ToSet(Windows(s, n))

grams(s) == IF s = <<>> THEN {} ELSE UNION {CharGrams(s, Grams[i]) : i \in DOMAIN Grams}

\* The query side: every gram once, sizes in order.
EachGram(s) ==
    LET all == FlattenSeq([i \in DOMAIN Grams |-> Windows(s, Grams[i])])
    IN FoldLeft(LAMBDA seen, g : IF Contains(seen, g) THEN seen ELSE Append(seen, g), <<>>, all)

\* Builder.Add for every ordinal: keys[o] is the set of its analyzed keys.
Build(keys) == [o \in DOMAIN keys |-> UNION {grams(key) : key \in keys[o]}]

\* Finish: highest ordinal in any posting (ordinals count from 1).
NumOrds(idx) == Max({0} \cup {o \in DOMAIN idx : idx[o] # {}})

Posting(idx, g) == {o \in DOMAIN idx : g \in idx[o]}

Idf(n, c) ==
    CASE n = c         -> 69315
      [] n = 2 * c     -> 109861
      [] n = 3 * c     -> 138629
      [] n = 4 * c     -> 160944
      [] 2 * n = 3 * c -> 91629
      [] 3 * n = 4 * c -> 84730

\* The nearest value that the accumulator can hold.
Float32(w) == Ulp * ((2 * w + Ulp) \div (2 * Ulp))

Total(gi) == FoldLeft(LAMBDA sum, g : sum + g.idf, 0, gi)

\* The query grams known to the index, with posting and weight.
Known(idx, s) ==
    LET info(post) == [post |-> post, card |-> Cardinality(post), idf |-> Idf(NumOrds(idx), Cardinality(post))]
        some == SelectSeq(EachGram(s), LAMBDA g : Posting(idx, g) # {})
    IN [i \in DOMAIN some |-> info(Posting(idx, some[i]))]

\* How many of the rarest grams generate: their mass exceeds what a hit may
\* miss (weights in hundredths, as floor is).
split(gi, floor) ==
    LET enough == {n \in 1 .. Len(gi) : 100 * Total(SubSeq(gi, 1, n)) > 100 * Total(gi) - floor}
    IN IF enough = {} THEN Len(gi) ELSE Min(enough)

\* A touched ordinal's score: accumulated generators, rounded at every
\* addition, then probes until the floor is out of reach.
Probe(ord, gens, probes, floor) ==
    LET counts == FoldLeft(LAMBDA sum, g : IF ord \in g.post THEN Float32(sum + Float32(g.idf)) ELSE sum, 0, gens)
        step(acc, p) ==
            IF acc.over \/ 100 * (acc.score + acc.rem) < floor THEN [acc EXCEPT !.over = TRUE]
            ELSE [over |-> FALSE, rem |-> acc.rem - p.idf,
                  score |-> IF ord \in p.post THEN acc.score + p.idf ELSE acc.score]
    IN FoldLeft(step, [score |-> counts, rem |-> Total(probes), over |-> FALSE], probes).score

\* The ordinals of the generators, in the order they are first touched.
Touched(gens) ==
    LET new(t, g) == SetToSortSeq(g.post \ ToSet(t), <)
    IN FoldLeft(LAMBDA t, g : t \o new(t, g), <<>>, gens)

Round(score, max) == (200 * score + max) \div (2 * max)

Scored(ords, gens, probes, floor) ==
    [i \in DOMAIN ords |-> [ord |-> ords[i], score |-> Probe(ords[i], gens, probes, floor)]]

Rounded(found, max) == [i \in DOMAIN found |-> [found[i] EXCEPT !.score = Round(@, max)]]

\* The hits that reach the floor, in scan order; the first n grams generate.
Qualified(gi, n, floor) ==
    LET gens == SubSeq(gi, 1, n)
        all == Scored(Touched(gens), gens, SubSeq(gi, n + 1, Len(gi)), floor)
    IN Rounded(SelectSeq(all, LAMBDA h : 100 * h.score >= floor), Total(gi))

Rarest(gi, floor) == Qualified(gi, split(gi, floor), floor)
Reaching(gi, threshold) == Rarest(gi, threshold * Total(gi))

\* lookup up to the keep predicate; a query without a known gram finds nothing.
Scan(idx, s, threshold) ==
    IF s = <<>> THEN <<>>
    ELSE Reaching(SortSeq(Known(idx, s), LAMBDA a, b : a.card < b.card), threshold)

\* The rest of lookup: bounded collection and the final order.
Best(found, topK) ==
    sortHits(FoldLeft(LAMBDA sel, h : keepHit(sel, topK, h), NoHits, found).out)
=============================================================================
