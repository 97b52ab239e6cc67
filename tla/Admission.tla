----------------------------- MODULE Admission -----------------------------
(***************************************************************************)
(* Query admission (server/admit.go, runQuery in server/server.go): a query *)
(* charges its cost first to its tenant's scratch budget, then to the      *)
(* node's, waits in FIFO order at either, and gives both back.  SetTenants *)
(* (server/tenants.go) may replace a tenant's admitter at any time.        *)
(*                                                                         *)
(* The gate inside an admitter is golang.org/x/sync/semaphore.Weighted,    *)
(* modelled from its documented behaviour.  The queue timeout and a        *)
(* client's disconnect are one event: the context ends.  The gauges of     *)
(* depth() and the token bucket of rateCheck are left out.                 *)
(***************************************************************************)
EXTENDS Naturals, Sequences, FiniteSets, FiniteSetsExt, Functions, SequencesExt

CONSTANTS
    Tenants,     \* tenant names
    Queries,     \* query requests
    Node,        \* owner of the node-wide admitter
    NodeBudget,  \* Config.QueryMemBudget
    Quotas,      \* scratch budgets a tenants file may declare, 0 for none
    Charges,     \* costs a query may have, given the list's current snapshot
    MaxMade      \* bound: admitters made for one tenant

ASSUME AdmissionAssumption ==
    /\ NodeBudget \in Nat \ {0} /\ MaxMade \in Nat \ {0}
    /\ Quotas \subseteq Nat /\ Charges \subseteq Nat
    /\ Node \notin Tenants /\ IsFiniteSet(Queries)

VARIABLES
    quota,    \* quota[t]: the registry's budget of tenant t
    gate,     \* gate[t]: the admitter of the registered tenant object
    made,     \* made[t]: admitters made for t so far
    sem,      \* sem[g]: the semaphore of admitter g
    size,     \* what a query costs on the lists' current snapshots
    req,      \* req[q]: the request
    settled   \* history: settled[t], no query in flight predates t's quota

vars == <<quota, gate, made, sem, size, req, settled>>

NoGate == <<Node, 0>>
NodeGate == <<Node, 1>>
Gates == {NodeGate} \cup (Tenants \X (1 .. MaxMade))

Costs == [q \in Queries |-> req[q].cost]
Work == [q \in Queries |-> req[q].work]

Sum(qs) == SumFunctionOnSet(Costs, qs)

Free == [budget |-> 0, cur |-> 0, waiters |-> <<>>]

NoRequest == [at |-> "out", tenant |-> Node, gate |-> NoGate, cost |-> 0, work |-> 0]

Init ==
    /\ quota \in [Tenants -> Quotas]
    /\ made = [t \in Tenants |-> IF quota[t] > 0 THEN 1 ELSE 0]
    /\ gate = [t \in Tenants |-> IF quota[t] > 0 THEN <<t, 1>> ELSE NoGate]
    /\ sem = [g \in Gates |->
                [Free EXCEPT !.budget = IF g = NodeGate THEN NodeBudget
                                        ELSE IF g[2] = 1 THEN quota[g[1]] ELSE 0]]
    /\ size \in Charges
    /\ req = [q \in Queries |-> NoRequest]
    /\ settled = [t \in Tenants |-> TRUE]

-----------------------------------------------------------------------------
(* semaphore.Weighted.                                                     *)

\* The longest run of waiters from the front that the free tokens cover.
Grantable(s) ==
    Max({n \in 0 .. Len(s.waiters) :
           s.cur + Sum({s.waiters[k] : k \in 1 .. n}) <= s.budget})

Notify(s) ==
    LET n == Grantable(s) IN
    [s EXCEPT !.cur = @ + Sum({s.waiters[k] : k \in 1 .. n}),
              !.waiters = SubSeq(@, n + 1, Len(@))]

Release(s, n) == Notify([s EXCEPT !.cur = @ - n])

Fits(s, n) == s.cur + n <= s.budget /\ s.waiters = <<>>

\* A waiter whose context ended leaves the queue, or gives back what it was
\* granted meanwhile.
Cancel(s, q) ==
    IF q \in Range(s.waiters) THEN Notify([s EXCEPT !.waiters = RemoveFirst(@, q)])
    ELSE Release(s, req[q].cost)

-----------------------------------------------------------------------------
Goto(q, where) ==
    req' = [req EXCEPT ![q] = IF where = "out" THEN NoRequest ELSE [@ EXCEPT !.at = where]]

Registry == UNCHANGED <<quota, gate, made, size, settled>>

InFlight(t) == {q \in Queries : req[q].at # "out" /\ req[q].tenant = t}

\* The tenant object is resolved from the key; the query is prepared and its
\* cost read off the snapshots it will run on.
Arrive(q, t) ==
    /\ req[q].at = "out"
    /\ req' = [req EXCEPT ![q] = [at |-> "tenant", tenant |-> t, gate |-> gate[t],
                                  cost |-> size, work |-> 0]]
    /\ UNCHANGED <<quota, gate, made, sem, size, settled>>

Charged(q, g) == g # NoGate /\ req[q].cost > 0

\* admitter.acquire up to the semaphore's answer: pass, refuse, take or wait.
Acquire(q, g, passed, waiting, refused) ==
    \/ /\ ~Charged(q, g)
       /\ Goto(q, passed)
       /\ UNCHANGED sem
    \/ /\ Charged(q, g) /\ req[q].cost > sem[g].budget
       /\ Goto(q, refused)
       /\ UNCHANGED sem
    \/ /\ Charged(q, g) /\ Fits(sem[g], req[q].cost)
       /\ sem' = [sem EXCEPT ![g].cur = @ + req[q].cost]
       /\ Goto(q, passed)
    \/ /\ Charged(q, g) /\ req[q].cost <= sem[g].budget /\ ~Fits(sem[g], req[q].cost)
       /\ sem' = [sem EXCEPT ![g].waiters = Append(@, q)]
       /\ Goto(q, waiting)

AcquireTenant(q) ==
    /\ req[q].at = "tenant"
    /\ Acquire(q, req[q].gate, "node", "waittenant", "out")
    /\ Registry

AcquireNode(q) ==
    /\ req[q].at = "node"
    /\ Acquire(q, NodeGate, "execute", "waitnode", "unwind")
    /\ Registry

Waiting == {"waittenant", "waitnode"}

GateOf(q) == IF req[q].at = "waittenant" THEN req[q].gate ELSE NodeGate

\* The semaphore has granted the tokens.
Wake(q) ==
    /\ req[q].at \in Waiting
    /\ q \notin Range(sem[GateOf(q)].waiters)
    /\ Goto(q, IF req[q].at = "waittenant" THEN "node" ELSE "execute")
    /\ UNCHANGED sem
    /\ Registry

\* The context ends during a wait: 503, the tenant's slice is given back.
Timeout(q) ==
    /\ req[q].at \in Waiting
    /\ sem' = [sem EXCEPT ![GateOf(q)] = Cancel(@, q)]
    /\ Goto(q, IF req[q].at = "waittenant" THEN "out" ELSE "unwind")
    /\ Registry

\* The context had ended before the wait began.
TooLate(q) ==
    /\ req[q].at \in {"tenant", "node"}
    /\ Charged(q, IF req[q].at = "tenant" THEN req[q].gate ELSE NodeGate)
    /\ Goto(q, IF req[q].at = "tenant" THEN "out" ELSE "unwind")
    /\ UNCHANGED sem
    /\ Registry

\* Mutant: the snapshots are loaded again after the wait.
ExecuteLatest(q) ==
    /\ req[q].at = "execute"
    /\ req' = [req EXCEPT ![q].at = "run", ![q].work = size]
    /\ UNCHANGED sem
    /\ Registry

\* The prepared snapshots are executed, whatever was mutated meanwhile.
Execute(q) ==
    /\ req[q].at = "execute"
    /\ req' = [req EXCEPT ![q].at = "run", ![q].work = req[q].cost]
    /\ UNCHANGED sem
    /\ Registry

\* Mutant: the tenant's slice is not released.
ReleaseNodeOnly(q) ==
    /\ req[q].at = "run"
    /\ sem' = IF Charged(q, NodeGate)
                THEN [sem EXCEPT ![NodeGate] = Release(@, req[q].cost)] ELSE sem
    /\ req' = [req EXCEPT ![q].at = "out", ![q].work = 0]
    /\ Registry

\* The deferred releases: the node's first, then the tenant's.
ReleaseNode(q) ==
    /\ req[q].at = "run"
    /\ sem' = IF Charged(q, NodeGate)
                THEN [sem EXCEPT ![NodeGate] = Release(@, req[q].cost)] ELSE sem
    /\ req' = [req EXCEPT ![q].at = "unwind", ![q].work = 0]
    /\ Registry

ReleaseTenant(q) ==
    /\ req[q].at = "unwind"
    /\ sem' = IF Charged(q, req[q].gate)
                THEN [sem EXCEPT ![req[q].gate] = Release(@, req[q].cost)] ELSE sem
    /\ Goto(q, "out")
    /\ Registry

-----------------------------------------------------------------------------
\* Mutant: every reload makes new admitters.
KeepsNever(t, new) == FALSE

\* A reload keeps the admitter of a tenant whose quota it leaves alone.
Keeps(t, new) == new[t] = quota[t]

SetTenants(new) ==
    LET fresh(t) == ~Keeps(t, new) /\ new[t] > 0 IN
    /\ \A t \in Tenants : fresh(t) => made[t] < MaxMade
    /\ quota' = new
    /\ made' = [t \in Tenants |-> made[t] + IF fresh(t) THEN 1 ELSE 0]
    /\ gate' = [t \in Tenants |-> IF Keeps(t, new) THEN gate[t]
                                  ELSE IF fresh(t) THEN <<t, made[t] + 1>> ELSE NoGate]
    /\ sem' = [g \in Gates |-> IF g[1] \in Tenants /\ g = gate'[g[1]] /\ fresh(g[1])
                                 THEN [Free EXCEPT !.budget = new[g[1]]] ELSE sem[g]]
    /\ settled' = [t \in Tenants |-> \/ InFlight(t) = {}
                                     \/ settled[t] /\ new[t] = quota[t]]
    /\ UNCHANGED <<size, req>>

\* A mutation changes what queries on the lists cost.
Mutate ==
    /\ size' \in Charges \ {size}
    /\ UNCHANGED <<quota, gate, made, sem, req, settled>>

Serve(q) ==
    \/ AcquireTenant(q) \/ AcquireNode(q) \/ Wake(q) \/ Execute(q)
    \/ ReleaseNode(q) \/ ReleaseTenant(q)

Next ==
    \/ \E q \in Queries : (\E t \in Tenants : Arrive(q, t)) \/ Serve(q)
                            \/ Timeout(q) \/ TooLate(q)
    \/ \E new \in [Tenants -> Quotas] : SetTenants(new)
    \/ Mutate

Spec == Init /\ [][Next]_vars

\* Requests are scheduled and queries end; no wait has to time out.
FairSpec == Spec /\ \A q \in Queries : WF_vars(Serve(q))

-----------------------------------------------------------------------------
\* Type invariant.
TypeOK ==
    /\ quota \in [Tenants -> Quotas]
    /\ \A t \in Tenants : gate[t] \in Gates \cup {NoGate} /\ made[t] \in 0 .. MaxMade
    /\ \A g \in Gates : /\ sem[g].budget \in Nat /\ sem[g].cur \in Nat
                        /\ sem[g].waiters \in Seq(Queries)
    /\ size \in Charges
    /\ \A q \in Queries :
         /\ req[q].at \in Waiting \cup {"out", "tenant", "node", "execute", "run", "unwind"}
         /\ req[q].gate \in Gates \cup {NoGate}
         /\ req[q].cost \in Nat /\ req[q].work \in Nat
    /\ settled \in [Tenants -> BOOLEAN]

\* "a tenant's scan storm queues against its own budget before it can contend
\* for anyone else's": what a tenant's queries hold of and want from the
\* node's budget stays within the tenant's own, also across reloads that
\* leave its quota alone.
TenantIsolation ==
    \A t \in Tenants : settled[t] /\ quota[t] > 0 =>
        Sum({q \in InFlight(t) : req[q].at \in {"node", "waitnode", "execute", "run"}})
            <= quota[t]

Holds(q, g) ==
    /\ Charged(q, g)
    /\ IF req[q].at \in Waiting /\ g = GateOf(q) THEN q \notin Range(sem[g].waiters)
       ELSE IF g = NodeGate THEN req[q].at \in {"execute", "run"}
       ELSE /\ g = req[q].gate
            /\ req[q].at \in {"node", "waitnode", "execute", "run", "unwind"}

\* "the budget is documented as a ceiling on in-flight query memory": the
\* work of the queries that run never exceeds it, whatever mutations landed
\* while they queued; and every account behind it balances, on every error
\* path: an admitter counts what requests that still have to release hold.
BudgetIsCeiling ==
    /\ SumFunctionOnSet(Work, Queries) <= NodeBudget
    /\ \A g \in Gates : sem[g].cur = Sum({q \in Queries : Holds(q, g)})

\* Two-level admission neither starves nor deadlocks: a waiting query is
\* admitted as the others finish, even if no wait ever times out.
WaitersAdmitted ==
    \A q \in Queries : req[q].at \in Waiting ~> req[q].at \notin Waiting
=============================================================================
