----------------------------- MODULE Readiness -----------------------------
(***************************************************************************)
(* /readyz (server/ready.go): concurrent probes evaluate one store and     *)
(* share a cached verdict, while mutations, failures and repairs of the    *)
(* store's list go on.  The key of the cache is read in three steps, the   *)
(* store is evaluated in three more, and no lock covers any two of them.   *)
(*                                                                         *)
(* A version is a stamp: base digest, journal position and configuration   *)
(* digest.  Mutations extend the journal, so that the stamps of one base   *)
(* grow; a rebuild may bring back any stamp the list had before.  Healthy  *)
(* are the versions whose golden probes pass.  Time enters only through    *)
(* the expiry of the cache.  former, quiet and steady are history: no step *)
(* depends on them.                                                        *)
(***************************************************************************)
EXTENDS Naturals, FiniteSets, FiniteSetsExt

CONSTANTS
    Probes,    \* concurrent /readyz requests
    MaxVer,    \* bound: list versions
    MaxObj,    \* bound: *List objects, one per PUT or reload
    Healthy,   \* versions whose golden probes pass
    Failures   \* may operations fail and leave the list damaged: both answers

ASSUME ReadinessAssumption ==
    /\ MaxVer \in Nat /\ MaxObj \in Nat \ {0}
    /\ Healthy \subseteq 1 .. MaxVer
    /\ Failures \subseteq BOOLEAN

VARIABLES
    list,     \* the served *List, 0 when the store has none
    version,  \* version[o]: what List.Version of object o returns
    former,   \* former[o]: the versions that object o has had and left
    damaged,   \* listState.damage
    install,  \* a rebuild that has cleared the damage and not yet installed
    skipped,  \* did Open record the list in Store.Skipped?
    cache,    \* srv.ready
    probe,    \* probe[p]: the progress of one readyResult
    mayFail   \* do operations fail in this behaviour?

readyVars == <<list, version, former, damaged, install, skipped, cache, probe, mayFail>>
store == <<list, version, former, damaged, install, skipped, mayFail>>

ListObjects == 1 .. MaxObj
NoInstall == [obj |-> 0, ver |-> 0]
NoKey == [obj |-> 0, ver |-> 0, damage |-> "none"]
NoCache == [full |-> FALSE, key |-> NoKey, ready |-> FALSE, steady |-> TRUE]
Asleep == [at |-> "out", key |-> NoKey, obj |-> 0, ready |-> FALSE, quiet |-> TRUE, steady |-> TRUE]

VersionOf(o) == IF o = 0 THEN 0 ELSE version[o]

\* A list that was opened, was skipped at Open, or was never created.
ReadyInit ==
    /\ \/ /\ list = 1 /\ skipped = FALSE
          /\ \E v \in 1 .. MaxVer : version = [o \in ListObjects |-> IF o = 1 THEN v ELSE 0]
       \/ /\ list = 0 /\ skipped \in BOOLEAN
          /\ version = [o \in ListObjects |-> 0]
    /\ former = [o \in ListObjects |-> {}]
    /\ damaged = "none"
    /\ install = NoInstall
    /\ cache = NoCache
    /\ probe = [p \in Probes |-> Asleep]
    /\ mayFail \in Failures

-----------------------------------------------------------------------------
(* The store.                                                              *)

\* Probes that overlap a change of the store are no longer `quiet'.
Disturb == probe' = [p \in Probes |-> [probe[p] EXCEPT !.quiet = FALSE]]

\* Object o gets the version v.
Restamp(o, v) ==
    /\ version' = [version EXCEPT ![o] = v]
    /\ former' = [former EXCEPT ![o] = @ \cup ({version[o]} \ {0, v})]

\* An upsert or delete commits a new snapshot, stamped past the present one.
Mutate(v) ==
    /\ install = NoInstall /\ list # 0 /\ damaged = "none"
    /\ version[list] < v
    /\ Restamp(list, v)
    /\ Disturb
    /\ UNCHANGED <<list, damaged, install, skipped, cache, mayFail>>

\* An operation fails after it changed the directory.
Fail(kind) ==
    /\ mayFail /\ install = NoInstall
    /\ kind = "content" => list # 0 /\ damaged # "create"
    /\ damaged' = kind
    /\ Disturb
    /\ UNCHANGED <<list, version, former, install, skipped, cache, mayFail>>

\* Compact, Replace, PUT and Reload clear the damage first; the base they
\* build may be one the list had before...
BeginInstall(o, v) ==
    /\ install = NoInstall
    /\ \/ o = list /\ list # 0 /\ damaged # "create"
       \/ version[o] = 0
    /\ install' = [obj |-> o, ver |-> v]
    /\ damaged' = "none"
    /\ Disturb
    /\ UNCHANGED <<list, version, former, skipped, cache, mayFail>>

\* Mutant: the new snapshot is published without a stamp.
InstallUnstamped ==
    /\ install # NoInstall
    /\ list' = install.obj
    /\ install' = NoInstall
    /\ Disturb
    /\ UNCHANGED <<version, former, damaged, skipped, cache, mayFail>>

\* ...and then install the new base or the new list.
Install ==
    /\ install # NoInstall
    /\ list' = install.obj
    /\ Restamp(install.obj, install.ver)
    /\ install' = NoInstall
    /\ Disturb
    /\ UNCHANGED <<damaged, skipped, cache, mayFail>>

StoreStep ==
    \/ \E v \in 1 .. MaxVer : Mutate(v)
    \/ \E kind \in {"content", "create"} : Fail(kind)
    \/ \E o \in ListObjects, v \in 1 .. MaxVer : BeginInstall(o, v)
    \/ Install

-----------------------------------------------------------------------------
(* readyResult.                                                            *)

Proceed(p, where, next) ==
    /\ probe[p].at = where
    /\ probe' = [probe EXCEPT ![p] = next]
    /\ UNCHANGED store

\* Store.Lists.
Start(p) ==
    /\ Proceed(p, "out", [Asleep EXCEPT !.at = "damage", !.key.obj = list])
    /\ UNCHANGED cache

\* Store.DamagedLists.
KeyDamage(p) ==
    /\ Proceed(p, "damage", [probe[p] EXCEPT !.at = "version", !.key.damage = damaged])
    /\ UNCHANGED cache

\* addReadyKeys reads the version of the object listed before.
KeyVersion(p) ==
    /\ Proceed(p, "version", [probe[p] EXCEPT !.at = "cache",
                                           !.key.ver = VersionOf(probe[p].key.obj)])
    /\ UNCHANGED cache

\* Mutant: the cache is keyed by the lists and their damage alone.
KeysMatchUnversioned(p) ==
    /\ cache.full
    /\ cache.key.obj = probe[p].key.obj /\ cache.key.damage = probe[p].key.damage

KeysMatch(p) == cache.full /\ cache.key = probe[p].key

\* The cached verdict answers, or the store is evaluated.
Lookup(p) ==
    /\ \/ KeysMatch(p) /\ Proceed(p, "cache", [probe[p] EXCEPT !.at = "answered",
                                         !.ready = cache.ready, !.steady = cache.steady])
       \/ ~KeysMatch(p) /\ Proceed(p, "cache", [probe[p] EXCEPT !.at = "lists"])
    /\ UNCHANGED cache

EvalLists(p) ==
    /\ Proceed(p, "lists", [probe[p] EXCEPT !.at = "state", !.obj = list])
    /\ UNCHANGED cache

\* evaluateReadiness: the load state and the damage.
EvalState(p) ==
    /\ Proceed(p, "state", [probe[p] EXCEPT !.at = "golden",
                                         !.ready = ~skipped /\ damaged = "none"])
    /\ UNCHANGED cache

\* runGolden queries the list's snapshot of this moment.
EvalGolden(p) ==
    /\ Proceed(p, "golden", [probe[p] EXCEPT !.at = "store",
             !.ready = @ /\ (probe[p].obj = 0 \/ VersionOf(probe[p].obj) \in Healthy)])
    /\ UNCHANGED cache

\* The verdict is cached under the key read at the beginning.
StoreVerdict(p) ==
    /\ Proceed(p, "store", [probe[p] EXCEPT !.at = "answered"])
    /\ cache' = [full |-> TRUE, key |-> probe[p].key, ready |-> probe[p].ready,
                 steady |-> probe[p].quiet]

Answer(p) ==
    /\ Proceed(p, "answered", Asleep)
    /\ UNCHANGED cache

\* readyCacheTTL has passed, or SetTenants dropped the cache.
Expire ==
    /\ cache.full
    /\ cache' = NoCache
    /\ UNCHANGED <<store, probe>>

ProbeStep(p) ==
    \/ Start(p) \/ KeyDamage(p) \/ KeyVersion(p) \/ Lookup(p) \/ EvalLists(p)
    \/ EvalState(p) \/ EvalGolden(p) \/ StoreVerdict(p) \/ Answer(p)

ReadyNext == StoreStep \/ Expire \/ \E p \in Probes : ProbeStep(p)

ReadySpec == ReadyInit /\ [][ReadyNext]_readyVars

-----------------------------------------------------------------------------
\* Type invariant.  A served list has a version.
ReadyTypeOK ==
    /\ list \in 0 .. MaxObj /\ (list # 0 => version[list] # 0)
    /\ version \in [ListObjects -> 0 .. MaxVer]
    /\ former \in [ListObjects -> SUBSET (1 .. MaxVer)]
    /\ damaged \in {"none", "content", "create"}
    /\ install \in [obj : 0 .. MaxObj, ver : 0 .. MaxVer]
    /\ mayFail \in BOOLEAN /\ skipped \in BOOLEAN /\ cache.full \in BOOLEAN /\ cache.ready \in BOOLEAN
    /\ \A p \in Probes : probe[p].obj \in 0 .. MaxObj

Verdict ==
    ~skipped /\ damaged = "none" /\ (list = 0 \/ VersionOf(list) \in Healthy)

\* "Correctness does not depend on [the TTL] ... any data or resolved-config
\* mutation invalidates it immediately": a probe during which the store did
\* not change answers what the store's state is.
VerdictIsCurrent ==
    \A p \in Probes :
        probe[p].at = "answered" /\ probe[p].quiet => probe[p].ready = Verdict

\* How far the cache can be trusted.  A probe during which the store did not
\* change answers what the store's state is, after failures too, unless the
\* verdict comes from the cache and the store changed while it was evaluated;
\* and where nothing fails, also then, unless the list has come back to a
\* version it had left (readyResult, keysMatch).
StaleNeedsReturn ==
    \A p \in Probes :
        probe[p].at = "answered" /\ probe[p].quiet /\ probe[p].ready # Verdict =>
            /\ ~probe[p].steady
            /\ ~mayFail => list # 0 /\ version[list] \in former[list]
=============================================================================
