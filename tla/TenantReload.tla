---------------------------- MODULE TenantReload ----------------------------
(***************************************************************************)
(* kurnd's multi-tenant mode (cmd/kurnd/main.go): SIGHUP makes one         *)
(* goroutine re-read the tenants file, open the stores of new tenants,     *)
(* swap the registry (Server.SetTenants) and close the stores of dropped   *)
(* tenants, while requests keep using the tenant object they resolved.     *)
(*                                                                         *)
(* A tenant's store is engine.Store with the guarantee that StoreLifecycle *)
(* checks: a closing store admits no operation and Close waits for the     *)
(* admitted ones.  A directory is the set of mutations persisted in it;    *)
(* an open store folds what it has in memory over it.                      *)
(***************************************************************************)
EXTENDS Naturals, FiniteSets

CONSTANTS
    Tenants,
    Clients,      \* mutating requests in flight
    Failures,     \* which values mayFail may take
    MaxGen,       \* bound: engine.Open calls per tenant
    MaxOps,       \* bound: mutations per tenant
    MaxEdits      \* bound: edits of the tenants file

ASSUME ReloadAssumption ==
    /\ Failures \subseteq BOOLEAN /\ IsFiniteSet(Clients)
    /\ MaxGen \in Nat \ {0} /\ MaxOps \in Nat /\ MaxEdits \in Nat

VARIABLES
    file,      \* the tenants file
    edits,     \* edits so far
    hup,       \* is a signal in the channel's buffer?
    apply,     \* where the reload is, and the specs it has read
    opened,    \* opened[t]: the store kept for t, 0 if none
    registry,  \* registry[t]: the tenant object requests resolve to
    store,     \* store[t][n]: the n-th store opened on t's directory
    disk,      \* disk[t]: mutations persisted in t's directory
    acked,     \* acked[t]: mutations acknowledged to clients
    client,    \* the requests
    owed,      \* history: a signal was sent since the last edit
    mayFail    \* may opening a store or SetTenants fail in this behaviour?

reloadVars == <<file, edits, hup, apply, opened, registry, store, disk, acked, client, owed, mayFail>>
fileVars == <<file, edits, hup, owed, mayFail>>
dataVars == <<disk, acked>>

Kinds == {"absent", "private", "shared"}
Files == {f \in [Tenants -> Kinds] : \E t \in Tenants : f[t] # "absent"}

Gens == 1 .. MaxGen
Unused == [state |-> "unused", view |-> {}, folding |-> FALSE]
Opened(t) == [state |-> "open", view |-> disk[t], folding |-> FALSE]
NoTenant == [kind |-> "absent", gen |-> 0]
NoRequest == [at |-> "out", tenant |-> "none", kind |-> "absent", gen |-> 0]

\* After the first apply at startup.
ReloadInit ==
    /\ file \in Files
    /\ edits = 0 /\ hup = FALSE
    /\ apply = [at |-> "idle", specs |-> file]
    /\ opened = [t \in Tenants |-> IF file[t] = "private" THEN 1 ELSE 0]
    /\ registry = [t \in Tenants |-> [kind |-> file[t], gen |-> opened[t]]]
    /\ disk = [t \in Tenants |-> {}]
    /\ acked = [t \in Tenants |-> {}]
    /\ store = [t \in Tenants |-> [n \in Gens |->
                  IF n = 1 /\ file[t] = "private" THEN Opened(t) ELSE Unused]]
    /\ client = [c \in Clients |-> NoRequest]
    /\ owed = FALSE /\ mayFail \in Failures

-----------------------------------------------------------------------------
(* The operator.                                                           *)

Edit(f) ==
    /\ edits < MaxEdits
    /\ file' = f
    /\ edits' = edits + 1
    /\ owed' = FALSE
    /\ UNCHANGED <<hup, mayFail, apply, opened, registry, store, dataVars, client>>

\* Mutant: the channel is unbuffered, so a signal during a reload is dropped.
HangupUnbuffered ==
    /\ hup' = (hup \/ apply.at = "idle")
    /\ owed' = TRUE
    /\ UNCHANGED <<file, edits, mayFail, apply, opened, registry, store, dataVars, client>>

\* The channel holds one signal; further ones are dropped.
Hangup ==
    /\ hup' = TRUE
    /\ owed' = TRUE
    /\ UNCHANGED <<file, edits, mayFail, apply, opened, registry, store, dataVars, client>>

-----------------------------------------------------------------------------
(* apply.                                                                  *)

ApplyAt(where) == apply' = [apply EXCEPT !.at = where]

Read ==
    /\ apply.at = "idle" /\ hup
    /\ hup' = FALSE
    /\ apply' = [at |-> "open", specs |-> file]
    /\ UNCHANGED <<file, edits, owed, mayFail, opened, registry, store, dataVars, client>>

\* A live store is reused across reloads.
Missing(t) == apply.specs[t] = "private" /\ opened[t] = 0

OpenTenant(t) ==
    /\ apply.at = "open" /\ Missing(t)
    /\ \E n \in Gens :
         /\ store[t][n] = Unused
         /\ \A k \in 1 .. n - 1 : store[t][k] # Unused
         /\ store' = [store EXCEPT ![t][n] = Opened(t)]
         /\ opened' = [opened EXCEPT ![t] = n]
    /\ UNCHANGED <<fileVars, apply, registry, dataVars, client>>

\* Stores opened so far stay in `opened'; the previous registry keeps serving.
Fail ==
    /\ mayFail /\ apply.at = "open"
    /\ ApplyAt("idle")
    /\ UNCHANGED <<fileVars, opened, registry, store, dataVars, client>>

\* Mutant: the registry is swapped before every store is open.
SwapEarly ==
    /\ apply.at = "open"
    /\ registry' = [t \in Tenants |->
                      [kind |-> apply.specs[t],
                       gen  |-> IF apply.specs[t] = "private" THEN opened[t] ELSE 0]]
    /\ ApplyAt("close")
    /\ UNCHANGED <<fileVars, opened, store, dataVars, client>>

\* SetTenants swaps the whole registry.
Swap ==
    /\ apply.at = "open" /\ \A t \in Tenants : ~Missing(t)
    /\ registry' = [t \in Tenants |->
                      [kind |-> apply.specs[t],
                       gen  |-> IF apply.specs[t] = "private" THEN opened[t] ELSE 0]]
    /\ ApplyAt("close")
    /\ UNCHANGED <<fileVars, opened, store, dataVars, client>>

Dropped(t) == opened[t] # 0 /\ apply.specs[t] = "absent"

\* Store.Close sets `closed'...
CloseTenant(t) ==
    /\ apply.at = "close" /\ Dropped(t)
    /\ store[t][opened[t]].state = "open"
    /\ store' = [store EXCEPT ![t][opened[t]].state = "closing"]
    /\ UNCHANGED <<fileVars, apply, opened, registry, dataVars, client>>

Busy(t, n) ==
    \/ store[t][n].folding
    \/ \E c \in Clients : client[c].at = "mutate" /\ client[c].tenant = t /\ client[c].gen = n

\* Mutant: the reference is dropped without waiting for the store's operations.
ForgetUndrained(t) ==
    /\ apply.at = "close" /\ Dropped(t)
    /\ opened' = [opened EXCEPT ![t] = 0]
    /\ UNCHANGED <<fileVars, apply, registry, store, dataVars, client>>

\* ...and returns when its operations have drained; only then is it forgotten.
Forget(t) ==
    /\ apply.at = "close" /\ Dropped(t)
    /\ store[t][opened[t]].state = "closing" /\ ~Busy(t, opened[t])
    /\ store' = [store EXCEPT ![t][opened[t]].state = "closed"]
    /\ opened' = [opened EXCEPT ![t] = 0]
    /\ UNCHANGED <<fileVars, apply, registry, dataVars, client>>

Done ==
    /\ apply.at = "close" /\ \A t \in Tenants : ~Dropped(t)
    /\ ApplyAt("idle")
    /\ UNCHANGED <<fileVars, opened, registry, store, dataVars, client>>

-----------------------------------------------------------------------------
(* Requests and background folds.                                          *)

\* gate: the key resolves to a tenant object, which the request keeps.
Resolve(c, t) ==
    /\ client[c].at = "out" /\ registry[t].kind # "absent"
    /\ Cardinality(acked[t]) < MaxOps
    /\ client' = [client EXCEPT ![c] = [at |-> "resolved", tenant |-> t,
                                        kind |-> registry[t].kind, gen |-> registry[t].gen]]
    /\ UNCHANGED <<fileVars, apply, opened, registry, store, dataVars>>

EndRequest(c) == client' = [client EXCEPT ![c] = NoRequest]

\* A shared_reads tenant is refused (403), a closed store refuses (ErrStoreClosed).
Refuse(c) ==
    /\ client[c].at = "resolved"
    /\ \/ client[c].kind = "shared"
       \/ /\ client[c].kind = "private"
          /\ store[client[c].tenant][client[c].gen].state # "open"
    /\ EndRequest(c)
    /\ UNCHANGED <<fileVars, apply, opened, registry, store, dataVars>>

Admit(c) ==
    /\ client[c].at = "resolved" /\ client[c].kind = "private"
    /\ store[client[c].tenant][client[c].gen].state = "open"
    /\ client' = [client EXCEPT ![c].at = "mutate"]
    /\ UNCHANGED <<fileVars, apply, opened, registry, store, dataVars>>

\* The mutation is persisted, applied and acknowledged, the slot given back.
Mutate(c) ==
    LET t == client[c].tenant
        n == client[c].gen
        o == Cardinality(acked[t]) + 1
    IN
    /\ client[c].at = "mutate"
    /\ ~store[t][n].folding
    /\ disk' = [disk EXCEPT ![t] = @ \cup {o}]
    /\ acked' = [acked EXCEPT ![t] = @ \cup {o}]
    /\ store' = [store EXCEPT ![t][n].view = @ \cup {o}]
    /\ EndRequest(c)
    /\ UNCHANGED <<fileVars, apply, opened, registry>>

\* An auto-compaction takes a slot and the list's lock...
BeginFold(t, n) ==
    /\ store[t][n].state = "open" /\ ~store[t][n].folding /\ store[t][n].view # {}
    /\ store' = [store EXCEPT ![t][n].folding = TRUE]
    /\ UNCHANGED <<fileVars, apply, opened, registry, dataVars, client>>

\* ...and rewrites the directory from this store's memory.
EndFold(t, n) ==
    /\ store[t][n].folding
    /\ disk' = [disk EXCEPT ![t] = store[t][n].view]
    /\ store' = [store EXCEPT ![t][n].folding = FALSE]
    /\ UNCHANGED <<fileVars, apply, opened, registry, acked, client>>

-----------------------------------------------------------------------------
ApplyStep ==
    \/ Read \/ Swap \/ Done
    \/ \E t \in Tenants : OpenTenant(t) \/ CloseTenant(t) \/ Forget(t)

RequestStep(c) == Refuse(c) \/ Admit(c) \/ Mutate(c)

ReloadNext ==
    \/ \E f \in Files : Edit(f)
    \/ Hangup
    \/ ApplyStep \/ Fail
    \/ \E c \in Clients : RequestStep(c) \/ \E t \in Tenants : Resolve(c, t)
    \/ \E t \in Tenants, n \in Gens : BeginFold(t, n) \/ EndFold(t, n)

ReloadSpec == ReloadInit /\ [][ReloadNext]_reloadVars

\* The reload goroutine runs, requests and folds end (StoreLifecycle).
ReloadFairness ==
    /\ WF_reloadVars(ApplyStep)
    /\ \A c \in Clients : WF_reloadVars(RequestStep(c))
    /\ \A t \in Tenants, n \in Gens : WF_reloadVars(EndFold(t, n))

-----------------------------------------------------------------------------
\* Type invariant.  A registered private tenant has a store.
ReloadTypeOK ==
    /\ file \in Files /\ edits \in 0 .. MaxEdits /\ {hup, owed, mayFail} \subseteq BOOLEAN
    /\ apply \in [at : {"idle", "open", "close"}, specs : Files]
    /\ opened \in [Tenants -> 0 .. MaxGen]
    /\ registry \in [Tenants -> [kind : Kinds, gen : 0 .. MaxGen]]
    /\ store \in [Tenants -> [Gens -> [state : {"unused", "open", "closing", "closed"},
                                       view : SUBSET (1 .. MaxOps + Cardinality(Clients)),
                                       folding : BOOLEAN]]]
    /\ \A t \in Tenants : registry[t].kind = "private" => registry[t].gen # 0

\* "two *Store on one directory silently destroy data": whatever tenants are
\* removed and added back, a directory has at most one store that may still
\* write to it, and it holds every acknowledged mutation.
NothingLost ==
    \A t \in Tenants :
        /\ acked[t] \subseteq disk[t]
        /\ Cardinality({g \in Gens : store[t][g].state \in {"open", "closing"}}) <= 1

\* "SIGHUP re-reads the file": a signal after the last edit brings the registry
\* in line with the file, although signals are merged and reloads take time,
\* as long as no store fails to open (a failed reload is logged, not retried).
SignalIsHonoured ==
    owed /\ ~mayFail ~> ~owed \/ \A t \in Tenants : registry[t].kind = file[t]
=============================================================================
