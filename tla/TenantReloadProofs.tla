------------------------- MODULE TenantReloadProofs -------------------------
(***************************************************************************)
(* Reloading the tenants file never loses an acknowledged mutation, for    *)
(* any number of tenants, requests, edits and stores opened.               *)
(*                                                                         *)
(* The argument: the reload goroutine's `opened' map names exactly the     *)
(* store that may still write to a tenant's directory, because a store is  *)
(* forgotten only when Close has drained it and a new one is opened only   *)
(* where none is kept.  So a fold, which rewrites the directory from one   *)
(* store's memory, rewrites it from the only memory there is.              *)
(***************************************************************************)
EXTENDS TenantReload, FiniteSetTheorems, TLAPS

Bound == MaxOps + Cardinality(Clients)

\* The requests, and what the type invariant leaves out.
RequestInv ==
    /\ client \in [Clients -> [at : {"out", "resolved", "mutate"}, tenant : Tenants \cup {"none"},
                               kind : Kinds, gen : 0 .. MaxGen]]
    /\ disk \in [Tenants -> SUBSET (1 .. Bound)]
    /\ \A c \in Clients : client[c].at # "out" =>
         /\ client[c].tenant \in Tenants
         /\ client[c].kind = "private" => client[c].gen # 0
    /\ \A c \in Clients : client[c].at = "mutate" => client[c].kind = "private"

\* A store that may write is the one kept in `opened'.
WriterInv ==
    /\ \A t \in Tenants, n \in Gens :
         /\ store[t][n].state \in {"open", "closing"} <=> opened[t] = n
         /\ store[t][n].folding => opened[t] = n
    /\ \A c \in Clients : client[c].at = "mutate" => opened[client[c].tenant] = client[c].gen

\* An acknowledged mutation is in the directory and in the memory of the store
\* that could rewrite it.
KeptInv ==
    \A t \in Tenants :
        /\ acked[t] \subseteq disk[t]
        /\ \A n \in Gens : opened[t] = n => acked[t] \subseteq store[t][n].view

InFlight(t) == {c \in Clients : client[c].at # "out" /\ client[c].tenant = t}

\* Mutations are numbered in the order they are acknowledged, and stay within
\* the bounds of the model.
CountInv ==
    /\ acked \in [Tenants -> SUBSET Nat]
    /\ \A t \in Tenants :
         /\ Cardinality(acked[t]) \in Nat
         /\ acked[t] = 1 .. Cardinality(acked[t])
         /\ Cardinality(acked[t]) + Cardinality(InFlight(t)) <= Bound

IInv == ReloadTypeOK /\ RequestInv /\ WriterInv /\ KeptInv /\ CountInv

-----------------------------------------------------------------------------
\* Requests are finitely many.
LEMMA BoundType ==
    /\ Bound \in Nat /\ Cardinality(Clients) \in Nat
    /\ \A t : /\ IsFiniteSet(InFlight(t)) /\ Cardinality(InFlight(t)) \in Nat
              /\ Cardinality(InFlight(t)) <= Cardinality(Clients)
<1>1. IsFiniteSet(Clients) /\ Cardinality(Clients) \in Nat
  BY ReloadAssumption, FS_CardinalityType
<1>2. ASSUME NEW t
      PROVE  /\ IsFiniteSet(InFlight(t)) /\ Cardinality(InFlight(t)) \in Nat
             /\ Cardinality(InFlight(t)) <= Cardinality(Clients)
  <2>1. InFlight(t) \in SUBSET Clients
    BY DEF InFlight
  <2> QED
    BY <1>1, <2>1, FS_Subset, FS_CardinalityType
<1> QED
  BY <1>1, <1>2, ReloadAssumption DEF Bound

\* The first apply opens the private tenants' stores before a request arrives.
LEMMA InitIInv == ReloadInit => IInv
<1> SUFFICES ASSUME ReloadInit PROVE IInv
  OBVIOUS
<1>0. MaxGen \in Nat \ {0} /\ MaxOps \in Nat /\ MaxEdits \in Nat
  BY ReloadAssumption
<1>1. /\ file \in Files /\ \A t \in Tenants : file[t] \in Kinds
      /\ \A t \in Tenants : opened[t] \in {0, 1} /\ (opened[t] = 1 <=> file[t] = "private")
  BY DEF ReloadInit, Files
<1>2. ASSUME NEW t \in Tenants, NEW n \in Gens
      PROVE  IF n = 1 /\ file[t] = "private"
             THEN store[t][n] = [state |-> "open", view |-> {}, folding |-> FALSE]
             ELSE store[t][n] = [state |-> "unused", view |-> {}, folding |-> FALSE]
  BY DEF ReloadInit, Opened, Unused
<1>3. ReloadTypeOK
  <2>1. store \in [Tenants -> [Gens -> [state : {"unused", "open", "closing", "closed"},
                                        view : SUBSET (1 .. MaxOps + Cardinality(Clients)),
                                        folding : BOOLEAN]]]
    <3>1. ASSUME NEW t \in Tenants, NEW n \in Gens
          PROVE  store[t][n] \in [state : {"unused", "open", "closing", "closed"},
                                  view : SUBSET (1 .. MaxOps + Cardinality(Clients)),
                                  folding : BOOLEAN]
      <4>1. CASE n = 1 /\ file[t] = "private"
        <5>1. store[t][n] = [state |-> "open", view |-> {}, folding |-> FALSE]
          BY <1>2, <4>1
        <5> QED
          BY <5>1
      <4>2. CASE ~(n = 1 /\ file[t] = "private")
        <5>1. store[t][n] = [state |-> "unused", view |-> {}, folding |-> FALSE]
          BY <1>2, <4>2
        <5> QED
          BY <5>1
      <4> QED
        BY <4>1, <4>2
    <3>2. store = [t \in Tenants |-> [n \in Gens |-> store[t][n]]]
      BY DEF ReloadInit
    <3> QED
      BY <3>1, <3>2
  <2>2. registry \in [Tenants -> [kind : Kinds, gen : 0 .. MaxGen]]
    BY <1>0, <1>1 DEF ReloadInit
  <2>3. \A t \in Tenants : registry[t].kind = "private" => registry[t].gen # 0
    BY <1>1 DEF ReloadInit
  <2>4. /\ edits \in 0 .. MaxEdits
        /\ apply \in [at : {"idle", "open", "close"}, specs : Files]
    BY <1>0, <1>1 DEF ReloadInit
  <2>6. {hup, owed, mayFail} \subseteq BOOLEAN
    BY ReloadAssumption, Zenon DEF ReloadInit
  <2>5. opened \in [Tenants -> 0 .. MaxGen]
    BY <1>0 DEF ReloadInit
  <2> QED
    BY <1>1, <2>1, <2>2, <2>3, <2>4, <2>5, <2>6 DEF ReloadTypeOK
<1>4. RequestInv
  BY <1>0, BoundType DEF ReloadInit, RequestInv, NoRequest, Kinds
<1>5. WriterInv
  <2>1. ASSUME NEW t \in Tenants, NEW n \in Gens
        PROVE  /\ store[t][n].state \in {"open", "closing"} <=> opened[t] = n
               /\ ~store[t][n].folding
    BY <1>0, <1>1, <1>2 DEF Gens
  <2>2. \A c \in Clients : client[c].at = "out"
    BY DEF ReloadInit, NoRequest
  <2> QED
    BY <2>1, <2>2 DEF WriterInv
<1>6. KeptInv
  BY DEF ReloadInit, KeptInv
<1>7. CountInv
  <2>1. ASSUME NEW t \in Tenants PROVE InFlight(t) = {} /\ acked[t] = {}
    BY DEF ReloadInit, InFlight, NoRequest
  <2>2. Cardinality({}) = 0
    BY FS_EmptySet
  <2>3. 1 .. 0 = {}
    OBVIOUS
  <2>4. acked \in [Tenants -> SUBSET Nat]
    BY DEF ReloadInit
  <2> QED
    <3>1. ASSUME NEW t \in Tenants
          PROVE  /\ Cardinality(acked[t]) \in Nat
                 /\ acked[t] = 1 .. Cardinality(acked[t])
                 /\ Cardinality(acked[t]) + Cardinality(InFlight(t)) <= Bound
      <4>1. Cardinality(acked[t]) = 0 /\ Cardinality(InFlight(t)) = 0 /\ acked[t] = 1 .. 0
        BY <2>1, <2>2, <2>3
      <4>2. Bound \in Nat
        BY BoundType
      <4> QED
        BY <4>1, <4>2
    <3> QED
      BY <2>4, <3>1, Zenon DEF CountInv
<1> QED
  BY <1>3, <1>4, <1>5, <1>6, <1>7 DEF IInv

-----------------------------------------------------------------------------
(* Steps.                                                                  *)

\* The parts of the invariant that speak of the stores, the directories and
\* the requests alone.
LEMMA DataKept ==
    ASSUME RequestInv, WriterInv, KeptInv, CountInv,
           UNCHANGED <<opened, store, disk, acked, client>>
    PROVE  RequestInv' /\ WriterInv' /\ KeptInv' /\ CountInv'
  BY DEF RequestInv, WriterInv, KeptInv, CountInv, InFlight

\* The operator edits the file and sends signals; apply reads it, gives up,
\* swaps the registry and ends: no store and no directory is touched.  A
\* private tenant is registered with the store that apply found or opened.
LEMMA ControlPreserves ==
    ASSUME IInv, (\E f \in Files : Edit(f)) \/ Hangup \/ Read \/ Fail \/ Swap \/ Done
    PROVE  IInv'
<1> USE DEF IInv
<1>1. UNCHANGED <<opened, store, disk, acked, client, mayFail>>
  BY DEF Edit, Hangup, Read, Fail, Swap, Done, fileVars, dataVars
<1>2. ReloadTypeOK'
  <2>1. /\ file' \in Files /\ edits' \in 0 .. MaxEdits
        /\ apply' \in [at : {"idle", "open", "close"}, specs : Files]
    BY ReloadAssumption
    DEF ReloadTypeOK, Edit, Hangup, Read, Fail, Swap, Done, ApplyAt, fileVars, dataVars
  <2>2. {hup', owed', mayFail'} \subseteq BOOLEAN
    BY <1>1, Zenon DEF ReloadTypeOK, Edit, Hangup, Read, Fail, Swap, Done, fileVars, dataVars
  <2>3. /\ registry' \in [Tenants -> [kind : Kinds, gen : 0 .. MaxGen]]
        /\ \A t \in Tenants : registry'[t].kind = "private" => registry'[t].gen # 0
    <3>1. CASE Swap
      <4>1. \A t \in Tenants : apply.specs[t] \in Kinds
        BY DEF ReloadTypeOK, Files
      <4>2. \A t \in Tenants : opened[t] \in 0 .. MaxGen
        BY DEF ReloadTypeOK
      <4> QED
        BY <3>1, <4>1, <4>2, ReloadAssumption DEF Swap, Missing
    <3>2. CASE ~Swap
      BY <3>2 DEF ReloadTypeOK, Edit, Hangup, Read, Fail, Done, fileVars, dataVars
    <3> QED
      BY <3>1, <3>2
  <2> QED
    BY <1>1, <2>1, <2>2, <2>3 DEF ReloadTypeOK
<1> QED
  BY <1>1, <1>2, DataKept

\* A store's new record, and the others as they were: the stores stay typed.
LEMMA StoreStep ==
    ASSUME ReloadTypeOK, NEW t \in Tenants, NEW n \in Gens, NEW r,
           r \in [state : {"unused", "open", "closing", "closed"},
                  view : SUBSET (1 .. MaxOps + Cardinality(Clients)), folding : BOOLEAN],
           store' = [store EXCEPT ![t][n] = r]
    PROVE  /\ store' \in [Tenants -> [Gens -> [state : {"unused", "open", "closing", "closed"},
                                        view : SUBSET (1 .. MaxOps + Cardinality(Clients)),
                                        folding : BOOLEAN]]]
           /\ store'[t][n] = r
           /\ \A u \in Tenants, k \in Gens : ~(u = t /\ k = n) => store'[u][k] = store[u][k]
<1> DEFINE R == [state : {"unused", "open", "closing", "closed"},
                 view : SUBSET (1 .. MaxOps + Cardinality(Clients)), folding : BOOLEAN]
<1>1. store \in [Tenants -> [Gens -> R]] /\ r \in R
  BY DEF ReloadTypeOK
<1> HIDE DEF R
<1>2. /\ store' \in [Tenants -> [Gens -> R]] /\ store'[t][n] = r
      /\ \A u \in Tenants, k \in Gens : ~(u = t /\ k = n) => store'[u][k] = store[u][k]
  BY <1>1
<1> QED
  BY <1>2 DEF R

\* engine.Open on a tenant's directory: no other store is left on it.
LEMMA OpenPreserves ==
    ASSUME IInv, NEW t \in Tenants, OpenTenant(t) PROVE IInv'
<1> USE DEF IInv
<1>1. PICK n \in Gens : /\ store' = [store EXCEPT ![t][n] = Opened(t)]
                        /\ opened' = [opened EXCEPT ![t] = n]
  BY DEF OpenTenant
<1>2. opened[t] = 0 /\ UNCHANGED <<fileVars, apply, registry, dataVars, client>>
  BY DEF OpenTenant, Missing
<1>3. Opened(t) = [state |-> "open", view |-> disk[t], folding |-> FALSE]
  BY DEF Opened
<1>4. Opened(t) \in [state : {"unused", "open", "closing", "closed"},
                     view : SUBSET (1 .. MaxOps + Cardinality(Clients)), folding : BOOLEAN]
  BY <1>3 DEF RequestInv, Bound
<1>6. /\ store' \in [Tenants -> [Gens -> [state : {"unused", "open", "closing", "closed"},
                                view : SUBSET (1 .. MaxOps + Cardinality(Clients)),
                                folding : BOOLEAN]]]
      /\ store'[t][n] = Opened(t)
      /\ \A u \in Tenants, k \in Gens : ~(u = t /\ k = n) => store'[u][k] = store[u][k]
  BY <1>1, <1>4, StoreStep
<1>7. ReloadTypeOK'
  BY <1>1, <1>2, <1>6, ReloadAssumption DEF ReloadTypeOK, fileVars, Gens
<1>8. RequestInv' /\ CountInv'
  BY <1>2 DEF RequestInv, CountInv, InFlight, dataVars
<1>9. WriterInv'
  BY <1>1, <1>2, <1>3, <1>6, ReloadAssumption DEF WriterInv, ReloadTypeOK, RequestInv, Gens
<1>10. KeptInv'
  BY <1>1, <1>2, <1>3, <1>6 DEF KeptInv, ReloadTypeOK, dataVars
<1> QED
  BY <1>7, <1>8, <1>9, <1>10

\* The record of a store is one, whichever field a step updates.
LEMMA StoreRecord ==
    ASSUME ReloadTypeOK, NEW t \in Tenants, NEW n \in Gens
    PROVE  /\ store[t][n] \in [state : {"unused", "open", "closing", "closed"},
                               view : SUBSET (1 .. MaxOps + Cardinality(Clients)),
                               folding : BOOLEAN]
           /\ store[t][n] = [state |-> store[t][n].state, view |-> store[t][n].view,
                             folding |-> store[t][n].folding]
  BY DEF ReloadTypeOK

\* Store.Close shuts the store and, once it has drained, apply forgets it: no
\* fold and no request of that store is left.
LEMMA ClosePreserves ==
    ASSUME IInv, NEW t \in Tenants, CloseTenant(t) \/ Forget(t) PROVE IInv'
<1> USE DEF IInv
<1>1. PICK n \in Gens : n = opened[t]
  BY ReloadAssumption DEF CloseTenant, Forget, Dropped, ReloadTypeOK, Gens
<1>2. UNCHANGED <<fileVars, apply, registry, dataVars, client>>
  BY DEF CloseTenant, Forget
<1>3. PICK q : /\ q = [store[t][n] EXCEPT !.state = IF CloseTenant(t) THEN "closing" ELSE "closed"]
               /\ store' = [store EXCEPT ![t][n] = q]
  BY <1>1 DEF CloseTenant, Forget
<1>4. /\ q \in [state : {"unused", "open", "closing", "closed"},
                view : SUBSET (1 .. MaxOps + Cardinality(Clients)), folding : BOOLEAN]
      /\ q.state = IF CloseTenant(t) THEN "closing" ELSE "closed"
      /\ q.view = store[t][n].view /\ q.folding = store[t][n].folding
  BY <1>3, StoreRecord
<1>5. /\ store' \in [Tenants -> [Gens -> [state : {"unused", "open", "closing", "closed"},
                                view : SUBSET (1 .. MaxOps + Cardinality(Clients)),
                                folding : BOOLEAN]]]
      /\ store'[t][n] = q
      /\ \A u \in Tenants, k \in Gens : ~(u = t /\ k = n) => store'[u][k] = store[u][k]
  <2>1. /\ store' = [store EXCEPT ![t][n] = q]
        /\ q \in [state : {"unused", "open", "closing", "closed"},
                  view : SUBSET (1 .. MaxOps + Cardinality(Clients)), folding : BOOLEAN]
    BY <1>3, <1>4
  <2> QED
    BY <2>1, StoreStep
<1>6. RequestInv' /\ CountInv'
  BY <1>2 DEF RequestInv, CountInv, InFlight, dataVars
<1>7. CASE CloseTenant(t)
  <2>1. opened' = opened
    BY <1>7 DEF CloseTenant
  <2>2. ReloadTypeOK'
    BY <1>2, <1>5, <2>1 DEF ReloadTypeOK, fileVars
  <2>3. WriterInv'
    BY <1>1, <1>2, <1>4, <1>5, <1>7, <2>1 DEF WriterInv
  <2>4. KeptInv'
    BY <1>1, <1>2, <1>4, <1>5, <2>1 DEF KeptInv, dataVars
  <2> QED
    BY <1>6, <2>2, <2>3, <2>4
<1>8. CASE Forget(t) /\ ~CloseTenant(t)
  <2>1. opened' = [opened EXCEPT ![t] = 0] /\ ~Busy(t, n)
    BY <1>1, <1>8 DEF Forget
  <2>2. opened' \in [Tenants -> 0 .. MaxGen] /\ opened'[t] = 0
        /\ \A u \in Tenants \ {t} : opened'[u] = opened[u]
    BY <2>1, ReloadAssumption DEF ReloadTypeOK
  <2>3. ReloadTypeOK'
    BY <1>2, <1>5, <2>2 DEF ReloadTypeOK, fileVars
  <2>4. WriterInv'
    <3>1. ASSUME NEW u \in Tenants, NEW k \in Gens
          PROVE  /\ store'[u][k].state \in {"open", "closing"} <=> opened'[u] = k
                 /\ store'[u][k].folding => opened'[u] = k
      <4>1. CASE u = t /\ k = n
        BY <1>4, <1>5, <1>8, <2>1, <2>2, <4>1 DEF Busy, Gens
      <4>2. CASE ~(u = t /\ k = n)
        BY <1>1, <1>5, <2>2, <4>2 DEF WriterInv, Gens
      <4> QED
        BY <4>1, <4>2
    <3>2. ASSUME NEW c \in Clients, client[c].at = "mutate"
          PROVE  opened'[client[c].tenant] = client[c].gen
      <4>1. client[c].tenant \in Tenants /\ opened[client[c].tenant] = client[c].gen
        BY <3>2 DEF WriterInv, RequestInv
      <4>2. client[c].tenant # t
        BY <1>1, <2>1, <3>2, <4>1 DEF Busy
      <4> QED
        BY <2>2, <4>1, <4>2
    <3> QED
      BY <1>2, <3>1, <3>2 DEF WriterInv
  <2>5. KeptInv'
    <3>1. ASSUME NEW u \in Tenants, NEW k \in Gens, opened'[u] = k PROVE acked[u] \subseteq store'[u][k].view
      <4>1. u # t /\ opened[u] = k
        BY <2>2, <3>1, ReloadAssumption DEF Gens
      <4>2. store'[u][k] = store[u][k]
        BY <1>5, <4>1
      <4> QED
        BY <4>1, <4>2 DEF KeptInv
    <3>2. acked' = acked /\ disk' = disk
      BY <1>2 DEF dataVars
    <3> QED
      BY <3>1, <3>2 DEF KeptInv
  <2> QED
    BY <1>6, <2>3, <2>4, <2>5
<1> QED
  BY <1>7, <1>8

\* A request resolves its tenant, and is refused or admitted: an admitted one
\* holds the store that `opened' names, because a closed one refuses.
LEMMA RequestPreserves ==
    ASSUME IInv, NEW c \in Clients,
           Refuse(c) \/ Admit(c) \/ \E t \in Tenants : Resolve(c, t)
    PROVE  IInv'
<1> USE DEF IInv
<1>1. UNCHANGED <<fileVars, apply, opened, registry, store, dataVars>>
  BY DEF Refuse, Admit, Resolve
<1>2. ReloadTypeOK' /\ KeptInv'
  BY <1>1 DEF ReloadTypeOK, KeptInv, fileVars, dataVars
<1>3. /\ client \in [Clients -> [at : {"out", "resolved", "mutate"},
                                 tenant : Tenants \cup {"none"}, kind : Kinds, gen : 0 .. MaxGen]]
      /\ MaxOps \in Nat /\ Bound \in Nat /\ Bound = MaxOps + Cardinality(Clients)
      /\ disk' = disk /\ acked' = acked
  BY <1>1, BoundType, ReloadAssumption DEF RequestInv, Bound, dataVars
<1>4. CASE Refuse(c)
  <2>1. client' = [client EXCEPT ![c] = [at |-> "out", tenant |-> "none",
                                         kind |-> "absent", gen |-> 0]]
    BY <1>4 DEF Refuse, EndRequest, NoRequest
  <2>2. RequestInv'
    BY <1>3, <2>1, ReloadAssumption DEF RequestInv, Kinds
  <2>3. WriterInv'
    BY <1>1, <1>3, <2>1 DEF WriterInv
  <2>4. \A t \in Tenants : InFlight(t)' \in SUBSET InFlight(t)
    BY <1>3, <2>1 DEF InFlight
  <2>5. ASSUME NEW t \in Tenants
        PROVE  Cardinality(acked[t]) + Cardinality(InFlight(t)') <= Bound
    <3>1. /\ IsFiniteSet(InFlight(t)) /\ Cardinality(InFlight(t)) \in Nat
      BY BoundType
    <3>2. /\ Cardinality(InFlight(t)') \in Nat
          /\ Cardinality(InFlight(t)') <= Cardinality(InFlight(t))
      BY <2>4, <3>1, FS_Subset, FS_CardinalityType
    <3> QED
      BY <1>3, <3>1, <3>2 DEF CountInv
  <2>6. CountInv'
    BY <1>3, <2>5 DEF CountInv
  <2> QED
    BY <1>2, <2>2, <2>3, <2>6
<1>5. CASE Admit(c)
  <2>1. /\ client' = [client EXCEPT ![c].at = "mutate"]
        /\ client[c].at = "resolved" /\ client[c].kind = "private"
        /\ store[client[c].tenant][client[c].gen].state = "open"
    BY <1>5 DEF Admit
  <2>2. /\ client'[c] = [client[c] EXCEPT !.at = "mutate"]
        /\ \A d \in Clients \ {c} : client'[d] = client[d]
        /\ client' \in [Clients -> [at : {"out", "resolved", "mutate"},
                                    tenant : Tenants \cup {"none"}, kind : Kinds, gen : 0 .. MaxGen]]
    BY <1>3, <2>1
  <2>3. RequestInv'
    BY <1>3, <2>1, <2>2 DEF RequestInv
  <2>4. client[c].tenant \in Tenants /\ client[c].gen \in Gens
    BY <1>3, <2>1, ReloadAssumption DEF RequestInv, Gens
  <2>5. WriterInv'
    BY <1>1, <1>3, <2>1, <2>2, <2>4 DEF WriterInv
  <2>6. \A t : InFlight(t)' = InFlight(t)
    BY <1>3, <2>1, <2>2 DEF InFlight
  <2>7. CountInv'
    BY <1>3, <2>6 DEF CountInv
  <2> QED
    BY <1>2, <2>3, <2>5, <2>7
<1>6. ASSUME NEW t \in Tenants, Resolve(c, t) PROVE IInv'
  <2>1. /\ client' = [client EXCEPT ![c] = [at |-> "resolved", tenant |-> t,
                                            kind |-> registry[t].kind, gen |-> registry[t].gen]]
        /\ Cardinality(acked[t]) < MaxOps /\ client[c].at = "out"
    BY <1>6 DEF Resolve
  <2>2. registry[t].kind \in Kinds /\ registry[t].gen \in 0 .. MaxGen
        /\ (registry[t].kind = "private" => registry[t].gen # 0)
    BY DEF ReloadTypeOK
  <2>3. RequestInv'
    BY <1>3, <2>1, <2>2 DEF RequestInv
  <2>4. WriterInv'
    BY <1>1, <1>3, <2>1 DEF WriterInv
  <2>5. ASSUME NEW u \in Tenants
        PROVE  Cardinality(acked[u]) + Cardinality(InFlight(u)') <= Bound
    <3>1. CASE u = t
      <4>1. InFlight(t)' \in SUBSET Clients
        BY DEF InFlight
      <4>2. /\ Cardinality(InFlight(t)') \in Nat
            /\ Cardinality(InFlight(t)') <= Cardinality(Clients)
        BY <4>1, ReloadAssumption, FS_Subset, FS_CardinalityType
      <4>3. Cardinality(acked[t]) \in Nat /\ Cardinality(Clients) \in Nat
        BY BoundType DEF CountInv
      <4> QED
        BY <1>3, <2>1, <3>1, <4>2, <4>3
    <3>2. CASE u # t
      <4>1. InFlight(u)' = InFlight(u)
        BY <1>3, <2>1, <3>2 DEF InFlight
      <4> QED
        BY <4>1 DEF CountInv
    <3> QED
      BY <3>1, <3>2
  <2>6. CountInv'
    BY <1>3, <2>5 DEF CountInv
  <2> QED
    BY <1>2, <2>3, <2>4, <2>6
<1> QED
  BY <1>4, <1>5, <1>6

\* A mutation is persisted, applied to the store that admitted it and
\* acknowledged: that store is still the one kept for its tenant.
LEMMA MutatePreserves ==
    ASSUME IInv, NEW c \in Clients, Mutate(c) PROVE IInv'
<1> USE DEF IInv
<1>1. PICK t \in Tenants, n \in Gens :
        /\ client[c].tenant = t /\ client[c].gen = n /\ opened[t] = n
  BY ReloadAssumption DEF Mutate, RequestInv, WriterInv, Gens
<1>2. PICK m : m = Cardinality(acked[t]) + 1
  OBVIOUS
<1>3. /\ client[c].at = "mutate" /\ ~store[t][n].folding
      /\ disk' = [disk EXCEPT ![t] = @ \cup {m}]
      /\ acked' = [acked EXCEPT ![t] = @ \cup {m}]
      /\ client' = [client EXCEPT ![c] = [at |-> "out", tenant |-> "none",
                                          kind |-> "absent", gen |-> 0]]
      /\ UNCHANGED <<fileVars, apply, opened, registry>>
  BY <1>1, <1>2 DEF Mutate, EndRequest, NoRequest
<1>4. PICK q : /\ q = [store[t][n] EXCEPT !.view = @ \cup {m}]
               /\ store' = [store EXCEPT ![t][n] = q]
  BY <1>1, <1>2 DEF Mutate
\* The requests in flight leave room for this mutation's number.
<1>5. /\ m \in 1 .. Bound
      /\ Cardinality(acked'[t]) = m /\ acked'[t] = 1 .. m
      /\ InFlight(t)' = InFlight(t) \ {c} /\ m + Cardinality(InFlight(t)') <= Bound
      /\ \A u \in Tenants \ {t} : InFlight(u)' = InFlight(u)
  <2>1. /\ Cardinality(acked[t]) \in Nat /\ acked[t] = 1 .. Cardinality(acked[t])
        /\ Cardinality(acked[t]) + Cardinality(InFlight(t)) <= Bound
    BY DEF CountInv
  <2>2. c \in InFlight(t) /\ InFlight(t)' = InFlight(t) \ {c}
    BY <1>1, <1>3 DEF InFlight, RequestInv
  <2>3. \A u \in Tenants \ {t} : InFlight(u)' = InFlight(u)
    BY <1>1, <1>3 DEF InFlight, RequestInv
  <2>4. /\ IsFiniteSet(InFlight(t)) /\ Cardinality(InFlight(t)) \in Nat /\ Bound \in Nat
    BY BoundType
  <2>5. /\ Cardinality(InFlight(t)') = Cardinality(InFlight(t)) - 1
        /\ Cardinality(InFlight(t)') \in Nat
    BY <2>2, <2>4, FS_RemoveElement, FS_CardinalityType
  <2>6. acked'[t] = 1 .. m
    BY <1>2, <1>3, <2>1 DEF CountInv
  <2>7. Cardinality(1 .. m) = m
    BY <1>2, <2>1, FS_Interval
  <2> QED
    BY <1>2, <2>1, <2>2, <2>3, <2>4, <2>5, <2>6, <2>7
<1>6. /\ q \in [state : {"unused", "open", "closing", "closed"},
                view : SUBSET (1 .. MaxOps + Cardinality(Clients)), folding : BOOLEAN]
      /\ q.state = store[t][n].state /\ q.folding = store[t][n].folding
      /\ q.view = store[t][n].view \cup {m}
  <2>1. store[t][n].view \cup {m} \in SUBSET (1 .. MaxOps + Cardinality(Clients))
    BY <1>5, StoreRecord DEF Bound
  <2> QED
    BY <1>4, <2>1, StoreRecord
<1>7. /\ store' \in [Tenants -> [Gens -> [state : {"unused", "open", "closing", "closed"},
                                view : SUBSET (1 .. MaxOps + Cardinality(Clients)),
                                folding : BOOLEAN]]]
      /\ store'[t][n] = q
      /\ \A u \in Tenants, k \in Gens : ~(u = t /\ k = n) => store'[u][k] = store[u][k]
  <2>1. /\ store' = [store EXCEPT ![t][n] = q]
        /\ q \in [state : {"unused", "open", "closing", "closed"},
                  view : SUBSET (1 .. MaxOps + Cardinality(Clients)), folding : BOOLEAN]
    BY <1>4, <1>6
  <2> QED
    BY <2>1, StoreStep
<1>8. ReloadTypeOK'
  BY <1>3, <1>7 DEF ReloadTypeOK, fileVars
<1>9. RequestInv'
  <2>1. disk' \in [Tenants -> SUBSET (1 .. Bound)]
    BY <1>3, <1>5 DEF RequestInv
  <2>2. client' \in [Clients -> [at : {"out", "resolved", "mutate"},
                                 tenant : Tenants \cup {"none"}, kind : Kinds, gen : 0 .. MaxGen]]
    BY <1>3, ReloadAssumption DEF RequestInv, Kinds
  <2>3. client'[c].at = "out" /\ \A d \in Clients \ {c} : client'[d] = client[d]
    BY <1>3 DEF RequestInv
  <2> QED
    BY <2>1, <2>2, <2>3 DEF RequestInv
<1>10. WriterInv'
  <2>1. client'[c].at = "out" /\ \A d \in Clients \ {c} : client'[d] = client[d]
    BY <1>3 DEF RequestInv
  <2>2. \A u \in Tenants, k \in Gens : /\ store'[u][k].state = store[u][k].state
                                      /\ store'[u][k].folding = store[u][k].folding
    BY <1>6, <1>7
  <2>3. opened' = opened
    BY <1>3
  <2> QED
    BY <2>1, <2>2, <2>3 DEF WriterInv
<1>11. KeptInv'
  <2>1. ASSUME NEW u \in Tenants PROVE acked'[u] \subseteq disk'[u]
    BY <1>3 DEF KeptInv, CountInv, RequestInv
  <2>2. ASSUME NEW u \in Tenants, NEW k \in Gens, opened[u] = k
        PROVE  acked'[u] \subseteq store'[u][k].view
    <3>1. CASE u = t
      BY <1>1, <1>3, <1>6, <1>7, <2>2, <3>1 DEF KeptInv, CountInv
    <3>2. CASE u # t
      <4>1. acked'[u] = acked[u] /\ store'[u][k] = store[u][k]
        BY <1>3, <1>7, <3>2 DEF CountInv
      <4> QED
        BY <2>2, <4>1 DEF KeptInv
    <3> QED
      BY <3>1, <3>2
  <2> QED
    BY <1>3, <2>1, <2>2 DEF KeptInv
<1>12. CountInv'
  <2>1. acked' \in [Tenants -> SUBSET Nat]
    <3>1. acked[t] \cup {m} \in SUBSET Nat
      BY <1>5, BoundType DEF CountInv
    <3> QED
      BY <1>3, <3>1 DEF CountInv
  <2>2. ASSUME NEW u \in Tenants
        PROVE  /\ Cardinality(acked'[u]) \in Nat /\ acked'[u] = 1 .. Cardinality(acked'[u])
               /\ Cardinality(acked'[u]) + Cardinality(InFlight(u)') <= Bound
    <3>1. CASE u = t
      <4>1. m \in Nat
        BY <1>5, BoundType
      <4> QED
        BY <1>5, <3>1, <4>1
    <3>2. CASE u # t
      <4>1. acked'[u] = acked[u] /\ InFlight(u)' = InFlight(u)
        BY <1>3, <1>5, <3>2 DEF CountInv
      <4> QED
        BY <4>1 DEF CountInv
    <3> QED
      BY <3>1, <3>2
  <2> QED
    BY <2>1, <2>2 DEF CountInv
<1> QED
  BY <1>8, <1>9, <1>10, <1>11, <1>12

\* An auto-compaction rewrites the directory from one store's memory; only the
\* store kept for the tenant can be folding.
LEMMA FoldPreserves ==
    ASSUME IInv, NEW t \in Tenants, NEW n \in Gens, BeginFold(t, n) \/ EndFold(t, n)
    PROVE  IInv'
<1> USE DEF IInv
<1>0. PICK b \in BOOLEAN : store' = [store EXCEPT ![t][n].folding = b]
  BY DEF BeginFold, EndFold
<1>1. PICK q : /\ q = [store[t][n] EXCEPT !.folding = b]
               /\ store' = [store EXCEPT ![t][n] = q]
  BY <1>0
<1>2. /\ UNCHANGED <<fileVars, apply, opened, registry, acked, client>>
      /\ opened[t] = n
      /\ disk' = disk \/ disk' = [disk EXCEPT ![t] = store[t][n].view]
  BY DEF BeginFold, EndFold, dataVars, WriterInv
<1>3. /\ q \in [state : {"unused", "open", "closing", "closed"},
                view : SUBSET (1 .. MaxOps + Cardinality(Clients)), folding : BOOLEAN]
      /\ q.state = store[t][n].state /\ q.view = store[t][n].view
  BY <1>1, StoreRecord
<1>4. /\ store' \in [Tenants -> [Gens -> [state : {"unused", "open", "closing", "closed"},
                                view : SUBSET (1 .. MaxOps + Cardinality(Clients)),
                                folding : BOOLEAN]]]
      /\ store'[t][n] = q
      /\ \A u \in Tenants, k \in Gens : ~(u = t /\ k = n) => store'[u][k] = store[u][k]
  <2>1. /\ store' = [store EXCEPT ![t][n] = q]
        /\ q \in [state : {"unused", "open", "closing", "closed"},
                  view : SUBSET (1 .. MaxOps + Cardinality(Clients)), folding : BOOLEAN]
    BY <1>1, <1>3
  <2> QED
    BY <2>1, StoreStep
<1>5. ReloadTypeOK'
  BY <1>2, <1>4 DEF ReloadTypeOK, fileVars
<1>6. store[t][n].view \in SUBSET (1 .. Bound)
  BY StoreRecord DEF Bound
<1>7. RequestInv'
  <2>1. disk' \in [Tenants -> SUBSET (1 .. Bound)]
    BY <1>2, <1>6 DEF RequestInv
  <2> QED
    BY <1>2, <2>1 DEF RequestInv
<1>8. WriterInv'
  BY <1>2, <1>3, <1>4 DEF WriterInv
<1>9. KeptInv'
  <2>1. \A u \in Tenants : disk'[u] = disk[u] \/ (u = t /\ disk'[t] = store[t][n].view)
    <3>1. disk \in [Tenants -> SUBSET (1 .. Bound)]
      BY DEF RequestInv
    <3>2. CASE disk' = disk
      BY <3>2
    <3>3. CASE disk' = [disk EXCEPT ![t] = store[t][n].view]
      BY <3>1, <3>3
    <3> QED
      BY <1>2, <3>2, <3>3
  <2>2. \A u \in Tenants, k \in Gens : store'[u][k].view = store[u][k].view
    BY <1>3, <1>4
  <2> QED
    BY <1>2, <2>1, <2>2 DEF KeptInv
<1>10. CountInv'
  BY <1>2 DEF CountInv, InFlight
<1> QED
  BY <1>5, <1>7, <1>8, <1>9, <1>10

\* Every step of the operator, the reload, a request or a fold keeps the
\* inductive invariant.
LEMMA NextPreserves == IInv /\ [ReloadNext]_reloadVars => IInv'
<1> SUFFICES ASSUME IInv, [ReloadNext]_reloadVars PROVE IInv'
  OBVIOUS
<1>1. CASE UNCHANGED reloadVars
  <2>1. ReloadTypeOK'
    BY <1>1 DEF IInv, reloadVars, ReloadTypeOK
  <2> QED
    BY <1>1, <2>1, DataKept DEF IInv, reloadVars
<1>2. CASE (\E f \in Files : Edit(f)) \/ Hangup \/ Read \/ Fail \/ Swap \/ Done
  BY <1>2, ControlPreserves
<1>3. CASE \E t \in Tenants : OpenTenant(t) \/ CloseTenant(t) \/ Forget(t)
  BY <1>3, OpenPreserves, ClosePreserves
<1>4. CASE \E c \in Clients : RequestStep(c) \/ \E t \in Tenants : Resolve(c, t)
  BY <1>4, RequestPreserves, MutatePreserves DEF RequestStep
<1>5. CASE \E t \in Tenants, n \in Gens : BeginFold(t, n) \/ EndFold(t, n)
  BY <1>5, FoldPreserves
<1> QED
  BY <1>1, <1>2, <1>3, <1>4, <1>5 DEF ReloadNext, ApplyStep

\* The inductive invariant holds throughout every run of the server.
LEMMA Invariance == ReloadSpec => []IInv
  BY InitIInv, NextPreserves, PTL DEF ReloadSpec

\* The state is well typed in every run, and a registered private tenant has a
\* store (apply opens the missing ones before SetTenants).
THEOREM ReloadTypeCorrect == ReloadSpec => []ReloadTypeOK
<1>1. IInv => ReloadTypeOK
  BY DEF IInv
<1> QED
  BY <1>1, Invariance, PTL

\* "two *Store on one directory silently destroy data" (cmd/kurnd): whatever
\* the tenants file goes through, a directory has at most one store that may
\* write to it and keeps every acknowledged mutation.
THEOREM ReloadTheorem == ReloadSpec => []NothingLost
<1>1. IInv => NothingLost
  <2> SUFFICES ASSUME IInv, NEW t \in Tenants
               PROVE  /\ acked[t] \subseteq disk[t]
                      /\ Cardinality({g \in Gens : store[t][g].state \in {"open", "closing"}}) <= 1
    BY DEF NothingLost
  <2> DEFINE L == {g \in Gens : store[t][g].state \in {"open", "closing"}}
  <2>1. L \in SUBSET {opened[t]}
    BY DEF IInv, WriterInv
  <2>2. IsFiniteSet({opened[t]}) /\ Cardinality({opened[t]}) = 1
    BY FS_Singleton
  <2>3. Cardinality(L) <= 1
    BY <2>1, <2>2, FS_Subset
  <2> QED
    BY <2>3 DEF IInv, KeptInv
<1> QED
  BY <1>1, Invariance, PTL
=============================================================================
