------------------------------ MODULE Prepared ------------------------------
(***************************************************************************)
(* A prepared artifact on its way from the builder to the handlers: it is  *)
(* published under its name (Publish), mapped and admitted once per        *)
(* process (MappedRegistry) and served (ArtifactServe).  The three share   *)
(* no state (an artifact is whole before it has a name, checked before it  *)
(* is admitted and admitted before it is served), so the composition is    *)
(* the sum of their behaviours: `part' names the station that moves.       *)
(***************************************************************************)
EXTENDS Naturals, FiniteSets

CONSTANTS Writers, Openers, Inodes, Heads, Requests, Broken, None,
          MaxLosses, MaxSize, MaxEdits

VARIABLES part,
          at, data, synced, fds, temps, dst, kept, losses,
          file, edits, lock, adm, maps, op, held,
          gate, box, sig, watcher, opener, store, server, main, reaper, req

P == INSTANCE Publish
M == INSTANCE MappedRegistry
S == INSTANCE ArtifactServe

publish == <<at, data, synced, fds, temps, dst, kept, losses>>
mapped == <<file, edits, lock, adm, maps, op, held>>
serve == <<gate, box, sig, watcher, opener, store, server, main, reaper, req>>
vars == <<part, publish, mapped, serve>>

\* The missing destination is none of the writers, and power losses are counted.
PublishConstants ==
  None \notin Writers /\ MaxLosses \in Nat

\* None is neither an opener nor an admission record; sizes and edits count.
RegistryConstants ==
  None \notin Openers /\ None \notin M!Admissions /\ MaxSize \in Nat /\ MaxEdits \in Nat

ASSUME PublishAssumption == PublishConstants
ASSUME RegistryAssumption == RegistryConstants

Init == P!Init /\ M!Init /\ S!Init

Next ==
  \/ part = "publish" /\ P!Next /\ UNCHANGED <<part, mapped, serve>>
  \/ part = "map" /\ M!Next /\ UNCHANGED <<part, publish, serve>>
  \/ part = "serve" /\ S!Next /\ UNCHANGED <<part, publish, mapped>>

Spec == Init /\ [][Next]_vars

-----------------------------------------------------------------------------
\* The type invariants of the stations.
TypeOK ==
  /\ part = "publish" => P!TypeOK
  /\ part = "map" => M!TypeOK
  /\ part = "serve" => S!TypeOK

\* Publish: a name stands for one whole artifact, and every result is true.
PublishIsTrue == part = "publish" => P!PublishIsTrue

\* OpenMapped: all callers are served one artifact, which stays mapped.
OneArtifactServed == part = "map" => M!OneArtifactServed

\* OpenMapped: the registry lock is given back on every path.
LockReturns == M!LockReturns

\* kurnd: a handler works on a verified, open store, and a draining server
\* takes no new request.
HandlersHaveTheirStore == part = "serve" => S!HandlersHaveTheirStore

\* kurnd: a signal ends the process and whatever was opened is closed.
ShutdownCompletes == S!ShutdownCompletes
=============================================================================
