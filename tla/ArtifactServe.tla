--------------------------- MODULE ArtifactServe ---------------------------
(***************************************************************************)
(* kurnd -artifact (cmd/kurnd/main.go, serveArtifactWith): the listener    *)
(* answers while a prepared artifact is still being opened, requests pass  *)
(* the artifactGate, and a termination signal may arrive at any moment.    *)
(* Goroutines: main, the opener, the signal watcher, the HTTP server's     *)
(* handlers, and the reaper of a store that opened too late.               *)
(*                                                                         *)
(* The listener, http.Server and signals are the Go library's: Shutdown    *)
(* stops accepting and waits for handlers, Close stops accepting and does  *)
(* not wait.                                                               *)
(***************************************************************************)
EXTENDS Naturals

CONSTANT Requests

VARIABLES
    gate,      \* artifactGate.state: 0 opening, 1 ready, 2 draining
    box,       \* artifactGate.ready: "none", "stored" or "accepted"
    sig,       \* has a termination signal arrived?
    watcher,   \* the signal watcher
    opener,    \* what OpenPrepared is doing or has sent: "opening", "ok", ...
    store,     \* the opened store: "none", "open" or "closed"
    server,    \* http.Server: "serving", "shutdown", "closed" or "failed"
    main,      \* where serveArtifactWith is
    reaper,    \* is the reaper waiting for the opener?
    req        \* the requests

vars == <<gate, box, sig, watcher, opener, store, server, main, reaper, req>>

NoRequest == [at |-> "out", late |-> FALSE]

Init ==
    /\ gate = 0 /\ box = "none"
    /\ sig = FALSE /\ watcher = "waiting"
    /\ opener = "opening" /\ store = "none"
    /\ server = "serving" /\ main = "select" /\ reaper = FALSE
    /\ req = [r \in Requests |-> NoRequest]

-----------------------------------------------------------------------------
(* The opener.  "ok" and "unverified" come with a store.                   *)

Opens(result) ==
    /\ opener = "opening"
    /\ opener' = result
    /\ store' = IF result = "error" THEN "none" ELSE "open"
    /\ UNCHANGED <<gate, box, sig, watcher, server, main, reaper, req>>

-----------------------------------------------------------------------------
(* Termination.                                                            *)

Signal ==
    /\ ~sig /\ sig' = TRUE
    /\ UNCHANGED <<gate, box, watcher, opener, store, server, main, reaper, req>>

Ended == main \in {"returned", "aborted"}

\* The gate drains before main is told.
WatchDrain ==
    /\ watcher = "waiting" /\ sig /\ ~Ended
    /\ gate' = 2
    /\ watcher' = "draining"
    /\ UNCHANGED <<box, sig, opener, store, server, main, reaper, req>>

WatchTerminate ==
    /\ watcher = "draining"
    /\ watcher' = "terminating"
    /\ UNCHANGED <<gate, box, sig, opener, store, server, main, reaper, req>>

\* The listener breaks while nobody asked it to stop.
ServeFails ==
    /\ server = "serving"
    /\ server' = "failed"
    /\ UNCHANGED <<gate, box, sig, watcher, opener, store, main, reaper, req>>

-----------------------------------------------------------------------------
(* main.                                                                   *)

Stop == server' = IF server = "failed" THEN "failed" ELSE "closed"

\* The open failed, or did not establish the requested verification.
RejectOpened ==
    /\ main = "select" /\ opener \in {"error", "unverified"}
    /\ store' = IF opener = "unverified" THEN "closed" ELSE store
    /\ Stop
    /\ main' = "returned"
    /\ UNCHANGED <<gate, box, sig, watcher, opener, reaper, req>>

\* gate.ready.Store(box).
TakeOpened ==
    /\ main = "select" /\ opener = "ok"
    /\ box' = "stored"
    /\ main' = "install"
    /\ UNCHANGED <<gate, sig, watcher, opener, store, server, reaper, req>>

\* Mutant: the cleanup of a lost race runs on both paths.
InstallClears ==
    /\ main = "install"
    /\ gate' = IF gate = 0 THEN 1 ELSE gate
    /\ box' = "none"
    /\ main' = IF gate = 0 THEN "accept" ELSE "returned"
    /\ store' = IF gate = 0 THEN store ELSE "closed"
    /\ UNCHANGED <<sig, watcher, opener, server, reaper, req>>

\* state.CompareAndSwap(0, 1): a drain that began meanwhile wins.
Install ==
    /\ main = "install"
    /\ \/ /\ gate = 0
          /\ gate' = 1
          /\ main' = "accept"
          /\ UNCHANGED <<box, store, server>>
       \/ /\ gate # 0
          /\ box' = "none" /\ store' = "closed" /\ Stop
          /\ main' = "returned"
          /\ UNCHANGED gate
    /\ UNCHANGED <<sig, watcher, opener, reaper, req>>

Accept ==
    /\ main = "accept"
    /\ box' = "accepted"
    /\ main' = "serve"
    /\ UNCHANGED <<gate, sig, watcher, opener, store, server, reaper, req>>

\* Shutdown begins: no new request is accepted.
Drain ==
    /\ main = "serve" /\ watcher = "terminating"
    /\ server' = IF server = "failed" THEN "failed" ELSE "shutdown"
    /\ main' = "drain"
    /\ UNCHANGED <<gate, box, sig, watcher, opener, store, reaper, req>>

\* Mutant: the store is closed while handlers may still run.
DrainedEarly ==
    /\ main = "drain"
    /\ store' = "closed"
    /\ main' = "returned"
    /\ UNCHANGED <<gate, box, sig, watcher, opener, server, reaper, req>>

\* Every handler has returned, or the drain deadline has passed.
Drained ==
    /\ main = "drain"
    /\ \/ (\A r \in Requests : req[r].at = "out") /\ UNCHANGED server
       \/ Stop
    /\ store' = "closed"
    /\ main' = "returned"
    /\ UNCHANGED <<gate, box, sig, watcher, opener, reaper, req>>

ServeFailed ==
    /\ main = "serve" /\ server = "failed"
    /\ store' = "closed"
    /\ main' = "returned"
    /\ UNCHANGED <<gate, box, sig, watcher, opener, server, reaper, req>>

\* Mutant: nobody waits for the late store.
AbandonUnreaped ==
    /\ main = "select" /\ watcher = "terminating"
    /\ Stop
    /\ main' = "returned"
    /\ UNCHANGED <<gate, box, sig, watcher, opener, store, reaper, req>>

\* Terminated while opening: the reaper takes the late result.
Abandon ==
    /\ main = "select" /\ watcher = "terminating"
    /\ Stop
    /\ reaper' = TRUE
    /\ main' = "returned"
    /\ UNCHANGED <<gate, box, sig, watcher, opener, store, req>>

\* The listener broke while opening: nothing is reaped.
AbandonFailed ==
    /\ main = "select" /\ server = "failed"
    /\ main' = "aborted"
    /\ UNCHANGED <<gate, box, sig, watcher, opener, store, server, reaper, req>>

Reap ==
    /\ reaper /\ opener # "opening"
    /\ reaper' = FALSE
    /\ store' = IF store = "open" THEN "closed" ELSE store
    /\ UNCHANGED <<gate, box, sig, watcher, opener, server, main, req>>

-----------------------------------------------------------------------------
(* artifactGate.ServeHTTP.                                                 *)

Move(r, from, to) ==
    /\ req[r].at = from
    /\ req' = [req EXCEPT ![r] = IF to = "out" THEN NoRequest ELSE [@ EXCEPT !.at = to]]
    /\ UNCHANGED <<gate, box, sig, watcher, opener, store, server, main, reaper>>

Arrive(r) ==
    /\ server = "serving" /\ req[r].at = "out"
    /\ req' = [req EXCEPT ![r] = [at |-> "load", late |-> gate = 2]]
    /\ UNCHANGED <<gate, box, sig, watcher, opener, store, server, main, reaper>>

\* No accepted handler: 503 with the phase.
LoadBox(r) == Move(r, "load", IF box = "accepted" THEN "check" ELSE "out")

CheckState(r) == Move(r, "check", IF gate = 1 THEN "handling" ELSE "out")

Respond(r) == Move(r, "handling", "out")

Handle(r) == LoadBox(r) \/ CheckState(r) \/ Respond(r)

MainStep ==
    \/ RejectOpened \/ TakeOpened \/ Install \/ Accept \/ Drain \/ Drained
    \/ ServeFailed \/ Abandon \/ AbandonFailed

OpenerStep == \E result \in {"ok", "unverified", "error"} : Opens(result)

Next ==
    \/ OpenerStep \/ Signal \/ WatchDrain \/ WatchTerminate \/ ServeFails
    \/ MainStep \/ Reap
    \/ \E r \in Requests : Arrive(r) \/ Handle(r)

Spec == Init /\ [][Next]_vars

\* Goroutines are scheduled and handlers end.  Signals, requests, a broken
\* listener and the end of OpenPrepared are not owed to anyone.
Fairness ==
    /\ WF_vars(WatchDrain) /\ WF_vars(WatchTerminate)
    /\ WF_vars(MainStep) /\ WF_vars(Reap)
    /\ \A r \in Requests : WF_vars(Handle(r))

FairSpec == Spec /\ Fairness

-----------------------------------------------------------------------------
\* Type invariant.  The gate is ready only with a handler behind it.
TypeOK ==
    /\ gate \in 0 .. 2 /\ box \in {"none", "stored", "accepted"}
    /\ sig \in BOOLEAN /\ reaper \in BOOLEAN
    /\ watcher \in {"waiting", "draining", "terminating"}
    /\ opener \in {"opening", "ok", "unverified", "error"}
    /\ store \in {"none", "open", "closed"}
    /\ server \in {"serving", "shutdown", "closed", "failed"}
    /\ main \in {"select", "install", "accept", "serve", "drain", "returned", "aborted"}
    /\ req \in [Requests -> [at : {"out", "load", "check", "handling"}, late : BOOLEAN]]
    /\ gate = 1 => box # "none"

\* A handler works on an open store whose requested verification was
\* established, unless the drain deadline or a broken listener cut it off;
\* and its request came before the drain: a store "is never installed after
\* draining begins", also when the open completes at that moment.
HandlersHaveTheirStore ==
    \A r \in Requests : req[r].at = "handling" =>
        /\ opener = "ok" /\ ~req[r].late
        /\ store = "open" \/ server \in {"closed", "failed"}

\* "there is no startup interval in which a termination request can be lost",
\* and whatever was opened is closed in the end, also a store that arrives
\* after main has returned (but not after a listener that broke during the
\* open).
ShutdownCompletes ==
    /\ sig ~> Ended
    /\ main = "returned" ~> store # "open"
=============================================================================
