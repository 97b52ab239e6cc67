---------------------------- MODULE BoundedHeaps ----------------------------
(***************************************************************************)
(* The two bounded selections of the query path, as arrays: the worst-at-  *)
(* root heap of n-gram hits (engine/ngram/ngram.go) and the largest-at-root *)
(* heap of any-of entries with its membership set (engine/list.go).        *)
(* Positions count from 1, so the children of i are 2i and 2i+1.           *)
(***************************************************************************)
EXTENDS Naturals, Sequences, SequencesExt

Swap(h, i, j) == [h EXCEPT ![i] = h[j], ![j] = h[i]]

\* The one of i and its children that must be at the root; before(a, b) says
\* that a belongs above b.
Topmost(h, i, before(_, _)) ==
    LET first == IF 2 * i <= Len(h) /\ before(h[2 * i], h[i]) THEN 2 * i ELSE i
    IN IF 2 * i + 1 <= Len(h) /\ before(h[2 * i + 1], h[first]) THEN 2 * i + 1 ELSE first

----------------------------------------------------------------------------
\* Hits, best K: [ord |-> ordinal, score |-> 0..100].

worseHit(a, b) == a.score < b.score \/ (a.score = b.score /\ a.ord > b.ord)

RECURSIVE siftWorst(_, _)
siftWorst(h, i) ==
    LET w == Topmost(h, i, worseHit)
    IN IF w = i THEN h ELSE siftWorst(Swap(h, i, w), w)

heapifyWorst(h) == FoldLeft(siftWorst, h, Reverse([i \in 1 .. Len(h) \div 2 |-> i]))

NoHits == [out |-> <<>>, heaped |-> FALSE]

\* One qualified hit enters the collection; topK = 0 keeps all.
keepHit(sel, topK, h) ==
    IF topK = 0 \/ Len(sel.out) < topK THEN [sel EXCEPT !.out = Append(@, h)]
    ELSE LET heap == IF sel.heaped THEN sel.out ELSE heapifyWorst(sel.out)
         IN [out |-> IF worseHit(h, heap[1]) THEN heap
                     ELSE siftWorst([heap EXCEPT ![1] = h], 1),
             heaped |-> TRUE]

sortHits(out) == SortSeq(out, LAMBDA a, b : worseHit(b, a))

----------------------------------------------------------------------------
\* Entries, the k smallest IDs: items are [key |-> place, id |-> EntryID].

NoSelection == [items |-> <<>>, in |-> {}]

larger(a, b) == a.id > b.id

RECURSIVE up(_, _)
up(items, i) ==
    IF i = 1 \/ items[i \div 2].id >= items[i].id THEN items
    ELSE up(Swap(items, i \div 2, i), i \div 2)

RECURSIVE down(_, _)
down(items, i) ==
    LET big == Topmost(items, i, larger)
    IN IF big = i THEN items ELSE down(Swap(items, i, big), big)

admits(sel, k, key, id) ==
    /\ key \notin sel.in
    /\ k = 0 \/ Len(sel.items) < k \/ id < sel.items[1].id

pushKeepsMember(sel, k, key, id) ==
    LET grown == up(Append(sel.items, [key |-> key, id |-> id]), Len(sel.items) + 1)
        last == Len(grown)
        cut == SubSeq(Swap(grown, 1, last), 1, last - 1)
    IN IF k = 0 \/ last <= k THEN [items |-> grown, in |-> sel.in \cup {key}]
       ELSE [items |-> down(cut, 1), in |-> sel.in \cup {key}]

\* An admitted entry enters; the largest ID leaves when there are too many.
push(sel, k, key, id) ==
    LET grown == up(Append(sel.items, [key |-> key, id |-> id]), Len(sel.items) + 1)
        last == Len(grown)
        cut == SubSeq(Swap(grown, 1, last), 1, last - 1)
    IN IF k = 0 \/ last <= k THEN [items |-> grown, in |-> sel.in \cup {key}]
       ELSE [items |-> down(cut, 1), in |-> (sel.in \cup {key}) \ {grown[1].key}]

sorted(items) == SortSeq(items, LAMBDA a, b : a.id < b.id)
=============================================================================
