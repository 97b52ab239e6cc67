-------------------------- MODULE MCStoreLifecycle --------------------------
(* Small instances of StoreLifecycle. *)
EXTENDS StoreLifecycle, TLC

CONSTANTS p1, p2, f1, f2, f3, x1, x2, people, codes

\* Clients, folds, closers and lists are interchangeable.
Symmetric == Permutations(Procs) \cup Permutations(Folders) \cup Permutations(Closers)
               \cup Permutations(Names)
=============================================================================
