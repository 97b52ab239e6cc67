----------------------------- MODULE MCUploads -----------------------------
(* A small instance of Uploads: a reload and an upsert of one list.          *)
EXTENDS Uploads

CONSTANTS w1, w2

SomeAsked ==
    {[op |-> "reload", list |-> 1, lines |-> <<>>],
     [op |-> "upsert", list |-> 1, lines |-> <<[id |-> 2, keys |-> 1]>>]}
SomeStarts == {{1}}
SomeBundles == {[i \in Ids |-> IF i = 1 THEN 1 ELSE 0]}
=============================================================================
