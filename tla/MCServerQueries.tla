-------------------------- MODULE MCServerQueries --------------------------
(* Small instances of what a query goes through: Admission, ListQuery, and   *)
(* the parts of its execution that have a specification of their own,        *)
(* Selections and Filters.  They share no state (admission knows a query     *)
(* only by its charge, and a snapshot is immutable), so one run explores the *)
(* sum of their behaviours: the initial state chooses the part that moves.   *)
EXTENDS Admission, TLC

CONSTANTS acme, beta, q1, q2, q3, node,
          Grams, Ulp, Letters, Configs, Bases, Batches, Asks, MaxMutations,
          Ords, Scores, Ids, Ks, MaxOffers,
          Meaning, Spellings, Declared, Requests, Keys, Scalars, Junk,
          MaxAlternatives, MaxSignificant, MaxExponent, MaxTokens

VARIABLES part, cfg, snap, gen, query, k, hits, seen, chosen, reached,
          spelled, request, tokens, scan

L == INSTANCE ListQuery
S == INSTANCE Selections
F == INSTANCE Filters

admission == <<quota, gate, made, sem, size, req, settled>>
listquery == <<cfg, snap, gen, query>>
selection == <<k, hits, seen, chosen, reached>>
filters == <<spelled, request, tokens, scan>>
allVars == <<part, admission, listquery, selection, filters>>

----------------------------------------------------------------------------
(* Lists: keys of up to three letters; one entry has only a key that the     *)
(* analyzer empties, one a malformed payload.  A gram that three entries of  *)
(* four have is the one whose weight float32 rounds down.                    *)

ab == <<"a", "b">>
bc == <<"b", "c">>
abc == <<"a", "b", "c">>
dash == <<"-">>
Entry(id, keys, payload) == [id |-> id, keys |-> keys, payload |-> payload]
One == Entry(1, <<ab>>, "yes")
OneBad == Entry(1, <<bc, abc>>, "bad")
Two == Entry(2, <<abc>>, "no")
TwoDashed == Entry(2, <<<<"b", "-", "c">>>>, "yes")
Three == Entry(3, <<bc, ab>>, "yes")
Four == Entry(4, <<<<"b">>>>, "yes")
ThreeKeyless == Entry(3, <<dash>>, "yes")

SomeGrams == <<1, 2>>
SomeBases == {<<Two, One, Three, Four>>, <<One, TwoDashed, OneBad>>}
SomeBatches == {<<OneBad>>, <<TwoDashed>>, <<Three>>, <<ThreeKeyless, Three>>}
SomeConfigs ==
    {[mode |-> "exact", fallback |-> TRUE, companion |-> FALSE, topK |-> 0, thr |-> 0],
     [mode |-> "ngram", fallback |-> FALSE, companion |-> TRUE, topK |-> 2, thr |-> 60]}
SomeAsks ==
    [kind : {"query"}, q : {ab, abc}, terms : {<<>>}, topK : {-1, 0, 1}, thr : {0, -1, 100},
     filtered : BOOLEAN]
    \cup [kind : {"anyOf"}, q : {<<>>}, terms : {<<bc, ab>>, <<abc, dash, abc>>}, topK : {0, 1},
          thr : {0}, filtered : BOOLEAN]

----------------------------------------------------------------------------
(* Filters: numbers spelled in several ways, two negatives, two zeros and    *)
(* one number out of range; two paths of which one extends the other.        *)

Number(neg, int, frac, exp) == <<"number", [neg |-> neg, int |-> int, frac |-> frac, exp |-> exp]>>
SomeMeaning ==
    ("1" :> Number(FALSE, <<1>>, <<>>, 0)) @@ ("0.10e1" :> Number(FALSE, <<0>>, <<1, 0>>, 1)) @@
    ("-2" :> Number(TRUE, <<2>>, <<>>, 0)) @@ ("-15e-1" :> Number(TRUE, <<1, 5>>, <<>>, -1)) @@
    ("-0" :> Number(TRUE, <<0>>, <<>>, 0)) @@ ("0e3" :> Number(FALSE, <<0>>, <<>>, 3)) @@
    ("1e3" :> Number(FALSE, <<1>>, <<>>, 3)) @@ ("true" :> <<"true", 0>>) @@
    ("'x'" :> <<"string", 1>>) @@ ("null" :> <<"null", 0>>)
SomeDeclared == ("field" :> <<"a">>) @@ ("nested" :> <<"a", "b">>)
Term(name, alts) == [name |-> name, alts |-> alts]
SomeRequests ==
    {<<Term("field", <<"1", "'x'">>), Term("nested", <<"1">>)>>, <<Term("field", <<"0.10e1">>)>>,
     <<Term("other", <<"1">>)>>}

----------------------------------------------------------------------------
MCInit ==
    /\ part \in {"admission", "listquery", "selection", "filters"}
    /\ Init /\ L!QueryInit /\ S!SelInit /\ F!FilterInit
    /\ part # "admission" => size = Min(Charges) /\ \A t \in Tenants : quota[t] = 0
    /\ part # "listquery" => cfg.mode = "exact" /\ Len(snap.base) = 2
    /\ part # "selection" => k = 0
    /\ part # "filters" => request = <<>>

MCNext ==
    \/ part = "admission" /\ Next /\ UNCHANGED <<part, listquery, selection, filters>>
    \/ part = "listquery" /\ L!QueryNext /\ UNCHANGED <<part, admission, selection, filters>>
    \/ part = "selection" /\ S!SelNext /\ UNCHANGED <<part, admission, listquery, filters>>
    \/ part = "filters" /\ F!FilterNext /\ UNCHANGED <<part, admission, listquery, selection>>
    \/ part # "admission" /\ UNCHANGED allVars  \* a query is over; admission never stops

\* A part that does not move has no fair action enabled.
MCSpec == MCInit /\ [][MCNext]_allVars /\ \A q \in Queries : WF_vars(Serve(q))

\* The type invariants of the parts, the snapshot's own among them.
TypesOK == TypeOK /\ L!QueryTypeOK /\ F!FilterTypeOK

\* List: a successful answer is the best K of the pinned snapshot, with the
\* keys that matched and the statistics of its own evaluation.
AnswerIsRight == L!AnswerIsRight

\* List: an entry that covers a query to the threshold is found.
RecallComplete == L!RecallComplete

\* List: what a query retains and evaluates was charged.
ChargeCoversWork == L!ChargeCoversWork

\* Selections: the bounded selections keep the best K.
BestAreKept == S!BestAreKept

\* Filters: one canonical form for each meaning.
OneFormPerMeaning == F!OneFormPerMeaning

\* Filters: one pass over the trie decides what the terms mean, and reports a
\* payload that is not one JSON value.
VerdictIsRight == F!VerdictIsRight
=============================================================================
