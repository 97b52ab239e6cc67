---------------------------- MODULE MCListFiles ----------------------------
(* Small instances of what else may happen to a list's files: the machine    *)
(* loses power (ListStorePower), and a shipper replaces the files under a    *)
(* running store (BundleShip).  One run explores the sum of their            *)
(* behaviours: the initial state chooses which.                              *)
EXTENDS MCListStorePower, BundleShip

VARIABLE part

allVars == <<part, pvars, shipVars>>

SomePack == {[cfg |-> "c1", root |-> "r1"], [cfg |-> "c2", root |-> "r2"]}

\* Bound where power may be lost: one record in the journal, which deletes a
\* or puts it back.
PowerBound ==
    (op.kind = "idle" /\ op'.kind = "append") =>
        /\ disk.journal \in {None, <<>>}
        /\ op'.recs = <<[id |-> a, val |-> IF Live(mem)[a] = None THEN k1 ELSE None]>>

\* The part that does not move starts out in one fixed state, and the shipping
\* with one of its bundles, which are interchangeable.
MCInit ==
    /\ part \in {"power", "shipping"}
    /\ PInit /\ ShipInit
    /\ part = "shipping" => mem = None /\ disk.config = None
    /\ live.cfg = "c1"

MCNext ==
    \/ part = "power" /\ PNext /\ PowerBound /\ UNCHANGED <<part, shipVars>>
    \/ part = "shipping" /\ ShipNext /\ UNCHANGED <<part, pvars>>
    \/ part = "shipping" /\ UNCHANGED allVars  \* all bounds are reached

MCSpec == MCInit /\ [][MCNext]_allVars
=============================================================================
