------------------------------ MODULE Entries ------------------------------
(***************************************************************************)
(* Entry sets and journal records, shared by the specifications of a list. *)
(* An entry set is a function from IDs to the analyzed key of the entry,   *)
(* None where there is no entry.                                           *)
(***************************************************************************)
EXTENDS Naturals, Sequences, FiniteSets

CONSTANTS
    IDs,         \* entry IDs
    Vals,        \* analyzed keys
    Cfgs,        \* resolved list configurations
    None,        \* no entry, no file, no list
    MaxBatch     \* bound: records of one Upsert

ASSUME NoneAssumption == None \notin Vals /\ None \notin Cfgs
ASSUME BatchAssumption == MaxBatch \in Nat

Contents  == [IDs -> Vals \cup {None}]
NoEntries == [i \in IDs |-> None]

ASSUME NoneIsNoContent == None \notin Contents

Recs == [id : IDs, val : Vals \cup {None}]    \* val = None is a delete

Upserts == [id : IDs, val : Vals]

\* What Store.Upsert and Store.Delete append in one write.
Batches == (UNION {[1 .. n -> Upserts] : n \in 1 .. MaxBatch})
             \cup {<<r>> : r \in [id : IDs, val : {None}]}

Touching(j, i) == {n \in DOMAIN j : j[n].id = i}

LastTouch(j, i) == CHOOSE n \in Touching(j, i) : \A k \in Touching(j, i) : k <= n

\* Records are applied in order to a map, so the last one on an ID wins.
ApplyRecs(m, j) ==
    [i \in IDs |-> IF Touching(j, i) = {} THEN m[i] ELSE j[LastTouch(j, i)].val]

\* What clients see of a list: its configuration and its live entries.
Views == [cfg : Cfgs, live : Contents]

ASSUME NoneIsNoView == None \notin Views
=============================================================================
