----------------------------- MODULE Selections -----------------------------
(***************************************************************************)
(* A stream of hits meets the n-gram collection (lookup in                 *)
(* engine/ngram/ngram.go) and a stream of entries, reached once per term,  *)
(* the any-of selection (anyOfSnap in engine/list.go), in every order.     *)
(***************************************************************************)
EXTENDS BoundedHeaps, FiniteSets

CONSTANTS
    Ords,      \* ordinals of one segment, 1 .. n
    Scores,    \* rounded scores
    Ids,       \* EntryIDs, as numbers
    Ks,        \* effective top-K, 0 for unlimited
    MaxOffers  \* bound: length of a stream

VARIABLES
    k,       \* top-K of this query
    hits,    \* the n-gram collection
    seen,    \* history: hits offered
    chosen,  \* the any-of selection
    reached  \* history: entries offered, in order

selVars == <<k, hits, seen, chosen, reached>>

SelInit ==
    /\ k \in Ks
    /\ hits = NoHits /\ seen = {}
    /\ chosen = NoSelection /\ reached = <<>>

\* lookup's collection loop: every ordinal qualifies at most once.
OfferHit(o, s) ==
    /\ reached = <<>>
    /\ Cardinality(seen) < MaxOffers
    /\ \A h \in seen : h.ord # o
    /\ hits' = keepHit(hits, k, [ord |-> o, score |-> s])
    /\ seen' = seen \cup {[ord |-> o, score |-> s]}
    /\ UNCHANGED <<k, chosen, reached>>

\* anyOfSnap's loop body for a live, passing entry, whatever term reached it.
OfferEntry(id) ==
    /\ seen = {}
    /\ Len(reached) < MaxOffers
    /\ chosen' = IF admits(chosen, k, id, id) THEN push(chosen, k, id, id) ELSE chosen
    /\ reached' = Append(reached, id)
    /\ UNCHANGED <<k, hits, seen>>

SelNext ==
    \/ \E o \in Ords, s \in Scores : OfferHit(o, s)
    \/ \E id \in Ids : OfferEntry(id)

SelSpec == SelInit /\ [][SelNext]_selVars

----------------------------------------------------------------------------
AtMost(n) == IF k = 0 \/ n < k THEN n ELSE k

\* The bounded heap keeps what full collection, sort and cut would: the best
\* K under the total order, in that order (the heap of lookup engages only
\* once K hits are in).
BestHitsKept ==
    LET out == sortHits(hits.out)
    IN /\ ToSet(out) \subseteq seen
       /\ Len(out) = AtMost(Cardinality(seen))
       /\ \A i \in 1 .. Len(out) - 1 : worseHit(out[i + 1], out[i])
       /\ \A h \in seen \ ToSet(out) : worseHit(h, out[Len(out)])

\* The any-of selection is the K smallest IDs reached, each once, whatever
\* the order and the repetitions of the walk, and its membership set holds
\* exactly the selected entries: nothing is retained per visited ordinal.
SmallestKept ==
    LET out == sorted(chosen.items)
        ids == {out[i].id : i \in DOMAIN out}
    IN /\ ids \subseteq ToSet(reached)
       /\ Len(out) = AtMost(Cardinality(ToSet(reached)))
       /\ \A i \in 1 .. Len(out) - 1 : out[i].id < out[i + 1].id
       /\ \A id \in ToSet(reached) \ ids : id > out[Len(out)].id
       /\ chosen.in = {out[i].key : i \in DOMAIN out}

\* Both bounded selections keep the best, at the size where the slice becomes
\* a heap and beyond it.
BestAreKept == BestHitsKept /\ SmallestKept
=============================================================================
