---------------------------- MODULE MCListWrites ----------------------------
(* Small instances of a changing list: its directory, where the process may  *)
(* die at any step (ListStore), the clients that write it (Uploads), and the *)
(* probes that judge it (Readiness).  Each sees the list at its own grain (a *)
(* directory, a count of entries, a stamp), so one run explores the sum of   *)
(* their behaviours: the initial state chooses the part that moves.          *)
EXTENDS MCListStore, Uploads, Readiness

CONSTANTS w1, w2, r1, r2

VARIABLE part

allVars == <<part, vars, uploadVars, readyVars>>

Entry(i, k) == [id |-> i, keys |-> k]
Ask(what, l, lines) == [op |-> what, list |-> l, lines |-> lines]

\* A stream of three batches, which its quota or the store may end early, an
\* upsert with a refused entry, and a request of every other kind.
SomeAsked ==
    {Ask("stream", 1, <<Entry(1, 2), Entry(2, 2), Entry(3, 1)>>),
     Ask("upsert", 2, <<Entry(1, 2)>>), Ask("upsert", 2, <<Entry(1, 1), Bad>>),
     Ask("replace", 1, <<Entry(1, 1), Entry(1, 2)>>), Ask("delete", 1, <<Entry(1, 0)>>),
     Ask("compact", 1, <<>>), Ask("create", 1, <<>>), Ask("create", 2, <<>>),
     Ask("create", 3, <<>>), Ask("reload", 1, <<>>)}
\* A tenant without lists, and one whose quota was lowered below what it has.
SomeStarts == {{}, {1, 2}}
SomeBundles == {[i \in Ids |-> 2]}

\* Bound: where operations may fail, or a second list object has been made,
\* one probe runs at a time.
ProbeBound ==
    mayFail \/ (\A o \in ListObjects : version'[o] # 0) =>
        Cardinality({p \in Probes : probe'[p].at # "out"}) <= 1

\* The parts that do not move start out in one fixed state, and the probes with
\* a list that was opened where operations may fail.
MCInit ==
    /\ part \in {"store", "uploads", "probes"}
    /\ Init /\ UploadInit /\ ReadyInit
    /\ part # "store" => mem = None /\ disk.config = None
    /\ part # "uploads" => ServedNames = {}
    /\ part # "probes" => list = 0 /\ ~skipped /\ ~mayFail
    /\ mayFail => list # 0

MCNext ==
    \/ part = "store" /\ Next /\ UNCHANGED <<part, uploadVars, readyVars>>
    \/ part = "uploads" /\ UploadNext /\ UNCHANGED <<part, vars, readyVars>>
    \/ part = "uploads" /\ UNCHANGED allVars  \* all bounds are reached
    \/ part = "probes" /\ ReadyNext /\ ProbeBound /\ UNCHANGED <<part, vars, uploadVars>>

MCSpec == MCInit /\ [][MCNext]_allVars

\* Writers are interchangeable, and so are probes.
Symmetric == Permutations(Writers) \cup Permutations(Probes)

\* The type invariants of the writers and of the probes.
TypesOK == UploadTypeOK /\ ReadyTypeOK
=============================================================================
