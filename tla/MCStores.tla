------------------------------ MODULE MCStores ------------------------------
(* Small instances of the life of a Store: its goroutines until Close         *)
(* returns (StoreLifecycle), and the reloads that open and close the stores   *)
(* of tenants (TenantReload), for which a store's operations and its Close    *)
(* are single steps.  One run explores the sum of their behaviours: the       *)
(* initial state chooses the part that moves.                                 *)
EXTENDS StoreLifecycle, TenantReload

CONSTANTS p1, p2, f1, f2, x1, x2, people, codes, acme, beta, k1

VARIABLE part

allVars == <<part, vars, reloadVars>>

\* The part that does not move starts out in one fixed state.
MCInit ==
    /\ part \in {"store", "tenants"}
    /\ Init /\ ReloadInit
    /\ part = "store" => file = [t \in Tenants |-> "shared"] /\ ~mayFail

\* Bound: mutations go to one of the tenants, which are interchangeable.
Mutated == CHOOSE t \in Tenants : TRUE
RequestBound == \A c \in Clients : client'[c].tenant \in {"none", Mutated}

\* A store whose Close has returned may stop.
MCNext ==
    \/ part = "store" /\ Next /\ UNCHANGED <<part, reloadVars>>
    \/ part = "store" /\ UNCHANGED allVars
    \/ part = "tenants" /\ ReloadNext /\ RequestBound /\ UNCHANGED <<part, vars>>

\* A part that does not move has no fair action enabled.
MCSpec == MCInit /\ [][MCNext]_allVars /\ Fairness /\ ReloadFairness
=============================================================================
