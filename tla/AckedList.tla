----------------------------- MODULE AckedList -----------------------------
(***************************************************************************)
(* What a Store promises about one list, whatever fails: an operation puts *)
(* its possible outcomes in doubt, then one of them is acknowledged, or    *)
(* the doubt is withdrawn, or it stands until a rebuild or a restart       *)
(* settles it.  A restart serves the acknowledged list or an outcome in    *)
(* doubt, never anything else.                                             *)
(***************************************************************************)
EXTENDS Entries

VARIABLES
    served,  \* what queries see, None while the list is not served
    acked,   \* the last list acknowledged or recovered, None before the first
    limbo    \* outcomes of operations neither acknowledged nor undone

avars == <<served, acked, limbo>>

Init == acked \in Views \cup {None} /\ served = acked /\ limbo = {}

\* An upsert or delete announces the outcome of every prefix of its batch.
\* It is refused while anything else is in doubt.
TryAppend ==
    /\ served # None
    /\ limbo = {}
    /\ \E recs \in Batches :
         limbo' = {[acked EXCEPT !.live = ApplyRecs(@, SubSeq(recs, 1, n))] :
                      n \in 1 .. Len(recs)}
    /\ UNCHANGED <<served, acked>>

\* Every entry of an interrupted replacement is the new one, or the one
\* acknowledged or in doubt before it.
TryReplace ==
    /\ served # None
    /\ \E new \in Contents :
         /\ [acked EXCEPT !.live = new] \in limbo'
         /\ limbo \subseteq limbo'
         /\ \A x \in limbo' \ limbo :
              /\ x.cfg = acked.cfg
              /\ \A i \in IDs :
                   x.live[i] \in {new[i]} \cup {y.live[i] : y \in limbo \cup {acked}}
    /\ UNCHANGED <<served, acked>>

TryCreate ==
    /\ \E c \in Cfgs : limbo' = limbo \cup {[cfg |-> c, live |-> NoEntries]}
    /\ UNCHANGED <<served, acked>>

Ack ==
    /\ \E x \in limbo : served' = x /\ acked' = x
    /\ limbo' = {}

\* A rollback, or a compaction that rebuilt the directory as it is served.
Settle == limbo' = {} /\ UNCHANGED <<served, acked>>

Crash == served' = None /\ UNCHANGED <<acked, limbo>>

Recover ==
    /\ served = None
    /\ \E x \in (limbo \cup {acked}) \ {None} : served' = x /\ acked' = x
    /\ limbo' = {}

Next == TryAppend \/ TryReplace \/ TryCreate \/ Ack \/ Settle \/ Crash \/ Recover

Spec == Init /\ [][Next]_avars
=============================================================================
