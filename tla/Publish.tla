------------------------------- MODULE Publish -------------------------------
(* Absent-only publication of an artifact (engine/prepared/publish.go):      *)
(* concurrent publishers of one destination, each writing a temporary file   *)
(* of its own and linking it to the destination, any of which may fail or    *)
(* die between two steps, on a machine that may lose power.                  *)
(* The mode a power loss may take back is not among the properties: Publish  *)
(* makes content and name durable, and the code promises no more.            *)
EXTENDS Naturals

CONSTANTS
  Writers,    \* calls of Publish; each one's temporary file bears its name
  None,       \* the destination does not exist
  MaxLosses   \* bound: power losses

VARIABLES
  at,         \* Writers -> how far its call has come
  data,       \* Writers -> what its file holds
  synced,     \* the writers whose file has been fsynced
  fds,        \* the writers with an open, writable descriptor
  temps,      \* the temporary names present in the directory
  dst,        \* the file the destination names
  kept,       \* the destination's entry has reached the disk
  losses      \* power losses so far

vars == <<at, data, synced, fds, temps, dst, kept, losses>>

\* A call that has a temporary name, and one that has linked it.
Preparing == {"created", "written", "synced", "closed", "sealed"}
Completing == {"linked", "removed"}
Results == {"ok", "exists", "failed", "published"}

\* Type invariant.  No descriptor outlives the writing of its file.
TypeOK ==
  /\ at \in [Writers -> {"start", "looked", "dead"} \cup Preparing \cup Completing \cup Results]
  /\ data \in [Writers -> {"none", "part", "whole"}]
  /\ synced \subseteq Writers
  /\ fds \subseteq {p \in Writers : at[p] \in {"created", "written", "synced"}}
  /\ temps \subseteq Writers
  /\ dst \in Writers \cup {None}
  /\ kept \in BOOLEAN
  /\ losses \in 0..MaxLosses

Init ==
  /\ at = [p \in Writers |-> "start"]
  /\ data = [p \in Writers |-> "none"]
  /\ synced = {} /\ fds = {} /\ temps = {}
  /\ dst = None
  /\ kept = FALSE
  /\ losses = 0

-----------------------------------------------------------------------------
(* Publish                                                                 *)

To(p, s) == at' = [at EXCEPT ![p] = s]

\* The deferred cleanup of a call that has not linked: close, and remove its
\* own temporary, a failure of which is ignored.
Cleanup(p, result) ==
  /\ To(p, result)
  /\ fds' = fds \ {p}
  /\ temps' \in {temps, temps \ {p}}
  /\ UNCHANGED <<data, synced, dst, kept, losses>>

\* Lstat of the destination and findTemps.
Look(p) ==
  /\ at[p] = "start"
  /\ \/ dst # None /\ To(p, "exists")
     \/ dst = None /\ To(p, "looked")
     \/ To(p, "failed")
  /\ UNCHANGED <<data, synced, fds, temps, dst, kept, losses>>

\* os.CreateTemp; the content then arrives piece by piece.
Create(p) ==
  /\ at[p] = "looked"
  /\ \/ /\ To(p, "created")
        /\ temps' = temps \cup {p} /\ fds' = fds \cup {p}
        /\ data' = [data EXCEPT ![p] = "part"]
     \/ To(p, "failed") /\ UNCHANGED <<temps, fds, data>>
  /\ UNCHANGED <<synced, dst, kept, losses>>

\* The caller's write and the Flush.
Write(p) ==
  /\ at[p] = "created"
  /\ \/ /\ To(p, "written")
        /\ data' = [data EXCEPT ![p] = "whole"]
        /\ UNCHANGED <<synced, fds, temps, dst, kept, losses>>
     \/ Cleanup(p, "failed")

\* f.Sync.
Sync(p) ==
  /\ at[p] = "written"
  /\ \/ /\ To(p, "synced")
        /\ synced' = synced \cup {p}
        /\ UNCHANGED <<data, fds, temps, dst, kept, losses>>
     \/ Cleanup(p, "failed")

\* f.Close, before the mode change.
Close(p) ==
  /\ at[p] = "synced"
  /\ \/ /\ To(p, "closed")
        /\ fds' = fds \ {p}
        /\ UNCHANGED <<data, synced, temps, dst, kept, losses>>
     \/ Cleanup(p, "failed")

\* os.Chmod to 0444.
Chmod(p) ==
  /\ at[p] = "closed"
  /\ \/ To(p, "sealed") /\ UNCHANGED <<data, synced, fds, temps, dst, kept, losses>>
     \/ Cleanup(p, "failed")

\* link(2): fails if the destination exists, or for want of hard links.
Link(p) ==
  /\ at[p] = "sealed"
  /\ \/ /\ dst = None
        /\ dst' = p /\ kept' = FALSE
        /\ To(p, "linked")
        /\ UNCHANGED <<data, synced, fds, temps, losses>>
     \/ dst # None /\ Cleanup(p, "exists")
     \/ Cleanup(p, "failed")

\* os.Remove of the temporary name; nothing is undone if it fails.
Remove(p) ==
  /\ at[p] = "linked"
  /\ \/ To(p, "removed") /\ temps' = temps \ {p}
     \/ To(p, "published") /\ UNCHANGED temps
  /\ UNCHANGED <<data, synced, fds, dst, kept, losses>>

\* Success reported without flushing the directory.
SyncDirSkipped(p) ==
  /\ at[p] = "removed"
  /\ To(p, "ok")
  /\ UNCHANGED <<data, synced, fds, temps, dst, kept, losses>>

\* syncDir of the directory.
SyncDir(p) ==
  /\ at[p] = "removed"
  /\ \/ To(p, "ok") /\ kept' = TRUE
     \/ To(p, "published") /\ UNCHANGED kept
  /\ UNCHANGED <<data, synced, fds, temps, dst, losses>>

Step(p) == \/ Look(p) \/ Create(p) \/ Write(p) \/ Sync(p) \/ Close(p)
           \/ Chmod(p) \/ Link(p) \/ Remove(p) \/ SyncDir(p)

-----------------------------------------------------------------------------
(* Failures                                                                *)

Alive(p) == at[p] \in {"looked"} \cup Preparing \cup Completing

\* A publisher dies: the kernel closes its descriptors and nothing is cleaned up.
Crash(p) ==
  /\ Alive(p)
  /\ To(p, "dead")
  /\ fds' = fds \ {p}
  /\ UNCHANGED <<data, synced, temps, dst, kept, losses>>

\* The machine loses power: unsynced content may be lost in part or whole, and
\* a name the directory's last flush did not cover may be there or not.
PowerLoss ==
  /\ losses < MaxLosses
  /\ losses' = losses + 1
  /\ at' = [p \in Writers |-> IF Alive(p) THEN "dead" ELSE at[p]]
  /\ fds' = {}
  /\ temps' \in SUBSET {p \in Writers : data[p] # "none" /\ at[p] # "ok"}
  /\ data' \in {d \in [Writers -> {"none", "part", "whole"}] :
                  \A p \in Writers :
                    \/ d[p] = data[p]
                    \/ p \notin synced /\ data[p] # "none" /\ d[p] # "whole"}
  /\ \/ UNCHANGED dst
     \/ ~kept /\ dst' = None
  /\ UNCHANGED <<synced, kept>>

Next == PowerLoss \/ \E p \in Writers : Step(p) \/ Crash(p)

Spec == Init /\ [][Next]_vars

-----------------------------------------------------------------------------
(* Properties                                                              *)

\* Publish tells the truth, after any crash, failure or power loss: whoever
\* opens the destination finds a complete artifact that nobody can still write
\* to; a call that returned success is what it names, and a PublishedError,
\* short of a power loss, means the caller's artifact is there; no publisher
\* takes away the temporary file another is still writing.
PublishIsTrue ==
  /\ dst # None => data[dst] = "whole" /\ dst \notin fds
  /\ \A p \in Writers :
       /\ at[p] = "ok" => dst = p
       /\ at[p] \in Completing \cup {"published"} /\ losses = 0 => dst = p
       /\ at[p] \in Preparing => p \in temps
=============================================================================
