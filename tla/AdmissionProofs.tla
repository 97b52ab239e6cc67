-------------------------- MODULE AdmissionProofs --------------------------
(***************************************************************************)
(* Proofs about Admission for every set of tenants and of requests, every  *)
(* budget, every quota and every charge.                                   *)
(***************************************************************************)
EXTENDS Admission, SumProofs, SequenceTheorems

-----------------------------------------------------------------------------
(* The inductive invariant.                                                *)

Semaphores == [budget : Nat, cur : Nat, waiters : Seq(Queries)]

Requests ==
    [at : Waiting \cup {"out", "tenant", "node", "execute", "run", "unwind"},
     tenant : Tenants \cup {Node}, gate : Gates \cup {NoGate}, cost : Nat, work : Nat]

TypeInv ==
    /\ quota \in [Tenants -> Quotas]
    /\ gate \in [Tenants -> Gates \cup {NoGate}]
    /\ made \in [Tenants -> 0 .. MaxMade]
    /\ sem \in [Gates -> Semaphores]
    /\ size \in Charges
    /\ req \in [Queries -> Requests]
    /\ settled \in [Tenants -> BOOLEAN]

\* The registered admitter is the last one made, with the budget of the
\* quota; the requests of a settled tenant use it.
RegistryInv ==
    \A t \in Tenants :
        /\ gate[t] = IF quota[t] > 0 THEN <<t, made[t]>> ELSE NoGate
        /\ quota[t] > 0 => made[t] > 0 /\ sem[gate[t]].budget = quota[t]
        /\ settled[t] => \A q \in InFlight(t) : req[q].gate = gate[t]

\* A request keeps the admitter it found, waits only where it is charged, and
\* does the work it was charged for.
RequestOK(q) ==
    /\ req[q].at = "out" => req[q] = NoRequest
    /\ req[q].gate # NoGate =>
          req[q].tenant \in Tenants /\ req[q].gate \in {req[q].tenant} \X (1 .. made[req[q].tenant])
    /\ req[q].at \in Waiting => Charged(q, GateOf(q))
    /\ req[q].work = IF req[q].at = "run" THEN req[q].cost ELSE 0

RequestInv == \A q \in Queries : RequestOK(q)

Distinct(s) == \A i, j \in DOMAIN s : s[i] = s[j] => i = j

\* The queue of a gate holds requests that wait there, each once.
QueueInv ==
    \A g \in Gates :
        /\ Distinct(sem[g].waiters)
        /\ \A q \in Range(sem[g].waiters) : req[q].at \in Waiting /\ GateOf(q) = g

Holders(g) == {q \in Queries : Holds(q, g)}

\* The accounts balance, within their budgets.
AccountInv ==
    /\ sem[NodeGate].budget = NodeBudget
    /\ \A g \in Gates : sem[g].cur = Sum(Holders(g)) /\ sem[g].cur <= sem[g].budget

IInv == TypeInv /\ RegistryInv /\ RequestInv /\ QueueInv /\ AccountInv

-----------------------------------------------------------------------------
(* Sums of costs.                                                          *)

LEMMA CostsType ==
    ASSUME TypeInv
    PROVE  Costs \in [Queries -> Nat] /\ \A q \in Queries : Costs[q] = req[q].cost
  BY DEF TypeInv, Requests, Costs

LEMMA SubsetsFinite ==
    ASSUME NEW A \in SUBSET Queries
    PROVE  IsFiniteSet(A)
  BY AdmissionAssumption, FS_Subset

LEMMA SumType ==
    ASSUME TypeInv, NEW A \in SUBSET Queries
    PROVE  Sum(A) \in Nat
  BY CostsType, SubsetsFinite, SumNat DEF Sum

\* A gate's account after some gave back what they held and others, who held
\* nothing, were granted what they asked for.
LEMMA SumShift ==
    ASSUME TypeInv, NEW A \in SUBSET Queries, NEW X \in SUBSET A,
           NEW G \in SUBSET Queries, G \cap (A \ X) = {},
           NEW f, \A q \in (A \ X) \cup G : f[q] = req[q].cost
    PROVE  SumFunctionOnSet(f, (A \ X) \cup G) = Sum(A) - Sum(X) + Sum(G)
  <1> DEFINE B == A \ X
  <1>1. IsFiniteSet(A) /\ IsFiniteSet(X) /\ IsFiniteSet(G) /\ IsFiniteSet(B) /\ IsFiniteSet(B \cup G)
    BY SubsetsFinite
  <1>2. \A q \in Queries : Costs[q] \in Nat /\ Costs[q] = req[q].cost
    BY CostsType
  <1>3. SumFunctionOnSet(f, B \cup G) = SumFunctionOnSet(Costs, B \cup G)
    BY <1>1, <1>2, SumSame
  <1>4. SumFunctionOnSet(Costs, B \cup G) = SumFunctionOnSet(Costs, B) + SumFunctionOnSet(Costs, G)
    BY <1>1, <1>2, SumJoin
  <1>5. SumFunctionOnSet(Costs, B \cup X) = SumFunctionOnSet(Costs, B) + SumFunctionOnSet(Costs, X)
    BY <1>1, <1>2, SumJoin
  <1>6. SumFunctionOnSet(Costs, B \cup X) = SumFunctionOnSet(Costs, A)
    <2>1. B \cup X = A
      OBVIOUS
    <2> QED
      BY <2>1, Zenon
  <1>7. Sum(B) \in Nat /\ Sum(X) \in Nat /\ Sum(G) \in Nat /\ Sum(A) \in Nat
    BY SumType
  <1> HIDE DEF B
  <1>8. SumFunctionOnSet(f, B \cup G) = Sum(A) - Sum(X) + Sum(G)
    BY <1>3, <1>4, <1>5, <1>6, <1>7 DEF Sum
  <1> QED
    BY <1>8 DEF B

LEMMA SumNone == Sum({}) = 0
  BY SumEmpty DEF Sum

LEMMA SumOne ==
    ASSUME TypeInv, NEW q \in Queries
    PROVE  Sum({q}) = req[q].cost
  <1>1. IsFiniteSet({q}) /\ \A x \in {q} : Costs[x] \in Nat
    BY CostsType, SubsetsFinite
  <1>2. SumFunctionOnSet(Costs, {q}) = Costs[q] + SumFunctionOnSet(Costs, {q} \ {q})
    BY <1>1, SumOut
  <1>3. SumFunctionOnSet(Costs, {q} \ {q}) = 0
    <2>1. {q} \ {q} = {}
      OBVIOUS
    <2> QED
      BY <2>1, SumEmpty, Zenon
  <1> QED
    BY <1>2, <1>3, CostsType DEF Sum

-----------------------------------------------------------------------------
(* The semaphore.                                                          *)

\* The tail of a queue of distinct waiters is what its front leaves.
LEMMA QueueCut ==
    ASSUME NEW s \in Seq(Queries), Distinct(s), NEW n \in 0 .. Len(s)
    PROVE  /\ SubSeq(s, n + 1, Len(s)) \in Seq(Queries)
           /\ Distinct(SubSeq(s, n + 1, Len(s)))
           /\ Range(SubSeq(s, n + 1, Len(s))) \subseteq Range(s)
           /\ Range(s) \ Range(SubSeq(s, n + 1, Len(s))) = {s[k] : k \in 1 .. n}
  <1> DEFINE t == SubSeq(s, n + 1, Len(s))
  <1>1. t \in Seq(Queries) /\ Len(t) = Len(s) - n /\ \A k \in 1 .. Len(s) - n : t[k] = s[n + k]
    BY SubSeqProperties
  <1>2. DOMAIN t = 1 .. Len(s) - n /\ DOMAIN s = 1 .. Len(s)
    BY <1>1
  <1> HIDE DEF t
  <1>3. Distinct(t)
    <2> SUFFICES ASSUME NEW i \in DOMAIN t, NEW j \in DOMAIN t, t[i] = t[j] PROVE i = j
      BY DEF Distinct
    <2>1. n + i \in DOMAIN s /\ n + j \in DOMAIN s /\ s[n + i] = s[n + j]
      BY <1>1, <1>2
    <2>2. n + i = n + j
      BY <2>1 DEF Distinct
    <2> QED
      BY <1>2, <2>2
  <1>4. Range(t) = {s[k] : k \in n + 1 .. Len(s)}
    <2>1. ASSUME NEW k \in n + 1 .. Len(s) PROVE s[k] \in Range(t)
      <3>1. k - n \in 1 .. Len(s) - n /\ t[k - n] = s[k]
        BY <1>1
      <3> QED
        BY <1>2, <3>1 DEF Range
    <2> QED
      BY <1>1, <1>2, <2>1 DEF Range
  <1>5. Range(s) = {s[k] : k \in 1 .. Len(s)}
    BY <1>2 DEF Range
  <1>6. Range(t) \subseteq Range(s)
    BY <1>4, <1>5
  <1>7. ASSUME NEW k \in 1 .. n PROVE s[k] \notin Range(t)
    BY <1>2, <1>4 DEF Distinct
  <1>8. Range(s) \ Range(t) = {s[k] : k \in 1 .. n}
    <2>1. \A k \in 1 .. Len(s) : k \in 1 .. n \/ k \in n + 1 .. Len(s)
      OBVIOUS
    <2> QED
      BY <1>4, <1>5, <1>7, <2>1
  <1> QED
    BY <1>1, <1>3, <1>6, <1>8 DEF t

\* Notify grants to waiters from the front, within the budget.
LEMMA NotifyGrants ==
    ASSUME TypeInv, NEW s \in Semaphores, Distinct(s.waiters), s.cur <= s.budget
    PROVE  /\ Notify(s) \in Semaphores
           /\ Notify(s).budget = s.budget
           /\ Distinct(Notify(s).waiters)
           /\ Range(Notify(s).waiters) \subseteq Range(s.waiters)
           /\ Notify(s).cur = s.cur + Sum(Range(s.waiters) \ Range(Notify(s).waiters))
           /\ Notify(s).cur <= s.budget
  <1> DEFINE front(n) == {s.waiters[k] : k \in 1 .. n}
             fit == {n \in 0 .. Len(s.waiters) : s.cur + Sum(front(n)) <= s.budget}
             m == Grantable(s)
  <1>1. s.waiters \in Seq(Queries) /\ s.cur \in Nat /\ s.budget \in Nat /\ Len(s.waiters) \in Nat
    BY DEF Semaphores
  <1>2. front(0) = {}
    OBVIOUS
  <1>3. Sum(front(0)) = 0
    BY <1>2, SumNone, Zenon
  <1>4. fit \in SUBSET Nat /\ 0 \in fit /\ \A n \in fit : n <= Len(s.waiters)
    BY <1>1, <1>3
  <1>5. \E n \in fit : \A k \in fit : k <= n
    BY <1>1, <1>4, Most
  <1>6. m = Max(fit)
    BY DEF Grantable
  <1> HIDE DEF fit
  <1>7. m \in fit
    BY <1>5, <1>6 DEF Max
  <1> USE DEF fit
  <1>8. m \in 0 .. Len(s.waiters) /\ s.cur + Sum(front(m)) <= s.budget
    BY <1>7
  <1>9. Notify(s) = [s EXCEPT !.cur = @ + Sum(front(m)), !.waiters = SubSeq(@, m + 1, Len(@))]
    BY DEF Notify
  <1> HIDE DEF m, fit
  <1>10. front(m) \in SUBSET Queries
    BY <1>1, <1>8
  <1>11. Sum(front(m)) \in Nat
    BY <1>10, SumType
  <1>12. /\ SubSeq(s.waiters, m + 1, Len(s.waiters)) \in Seq(Queries)
         /\ Distinct(SubSeq(s.waiters, m + 1, Len(s.waiters)))
         /\ Range(SubSeq(s.waiters, m + 1, Len(s.waiters))) \subseteq Range(s.waiters)
         /\ Range(s.waiters) \ Range(SubSeq(s.waiters, m + 1, Len(s.waiters))) = front(m)
    BY <1>1, <1>8, QueueCut
  <1> DEFINE w == SubSeq(s.waiters, m + 1, Len(s.waiters))
  <1>13. Sum(Range(s.waiters) \ Range(w)) = Sum(front(m))
    BY <1>12, Zenon
  <1> HIDE DEF front, w
  <1>14. /\ Notify(s).waiters = w /\ Notify(s).budget = s.budget
         /\ Notify(s).cur = s.cur + Sum(front(m))
         /\ Notify(s) = [budget |-> s.budget, cur |-> s.cur + Sum(front(m)), waiters |-> w]
    BY <1>9 DEF Semaphores, w
  <1>15. w \in Seq(Queries) /\ Distinct(w) /\ Range(w) \subseteq Range(s.waiters)
    BY <1>12 DEF w
  <1>16. Notify(s) \in Semaphores
    BY <1>1, <1>11, <1>14, <1>15 DEF Semaphores
  <1> QED
    BY <1>8, <1>13, <1>14, <1>15, <1>16

\* A waiter that leaves the queue leaves the others in it.
LEMMA QueueLeft ==
    ASSUME NEW s \in Seq(Queries), Distinct(s), NEW q \in Range(s)
    PROVE  /\ RemoveFirst(s, q) \in Seq(Queries)
           /\ Distinct(RemoveFirst(s, q))
           /\ Range(RemoveFirst(s, q)) = Range(s) \ {q}
  <1> DEFINE i == SelectInSeq(s, LAMBDA v : v = q)
             t == RemoveAt(s, i)
  <1>1. PICK k \in 1 .. Len(s) : s[k] = q
    BY DEF Range
  <1>2. RemoveFirst(s, q) = t
    BY <1>1 DEF RemoveFirst
  <1>3. i \in 1 .. Len(s) /\ s[i] = q
    <2> DEFINE I == {j \in 1 .. Len(s) : s[j] = q}
    <2>1. I # {} /\ I \in SUBSET Nat
      BY <1>1
    <2>2. \E m \in I : \A j \in I : m <= j
      BY <2>1, Least
    <2>3. i = Min(I)
      BY <2>1 DEF SelectInSeq
    <2>4. i \in I
      <3> HIDE DEF I, i
      <3> QED
        BY <2>2, <2>3 DEF Min
    <2> QED
      BY <2>4
  <1>4. t = SubSeq(s, 1, i - 1) \o SubSeq(s, i + 1, Len(s))
    BY DEF RemoveAt
  <1> HIDE DEF i, t
  <1>5. /\ t \in Seq(Queries) /\ Len(t) = Len(s) - 1
        /\ \A j \in 1 .. Len(s) - 1 : t[j] = IF j < i THEN s[j] ELSE s[j + 1]
    <2> DEFINE u == SubSeq(s, 1, i - 1)
               v == SubSeq(s, i + 1, Len(s))
    <2>1. u \in Seq(Queries) /\ Len(u) = i - 1 /\ \A j \in 1 .. i - 1 : u[j] = s[j]
      BY <1>3, SubSeqProperties
    <2>2. v \in Seq(Queries) /\ Len(v) = Len(s) - i /\ \A j \in 1 .. Len(s) - i : v[j] = s[i + j]
      BY <1>3, SubSeqProperties
    <2>3. t = u \o v
      BY <1>4
    <2> HIDE DEF u, v
    <2>4. /\ t \in Seq(Queries) /\ Len(t) = Len(u) + Len(v)
          /\ \A j \in 1 .. Len(u) + Len(v) : t[j] = IF j <= Len(u) THEN u[j] ELSE v[j - Len(u)]
      BY <2>1, <2>2, <2>3, ConcatProperties
    <2>5. ASSUME NEW j \in 1 .. Len(s) - 1 PROVE t[j] = IF j < i THEN s[j] ELSE s[j + 1]
      <3>1. CASE j < i
        BY <1>3, <2>1, <2>2, <2>4, <3>1
      <3>2. CASE j >= i
        <4>3. j \in 1 .. Len(u) + Len(v) /\ ~(j <= Len(u)) /\ j - Len(u) \in 1 .. Len(s) - i
          BY <1>3, <2>1, <2>2, <3>2
        <4>4. t[j] = v[j - Len(u)]
          BY <2>4, <4>3
        <4>1. j - (i - 1) \in 1 .. Len(s) - i /\ t[j] = v[j - (i - 1)]
          BY <2>1, <4>3, <4>4
        <4>2. v[j - (i - 1)] = s[i + (j - (i - 1))]
          BY <2>2, <4>1
        <4> QED
          BY <1>3, <3>2, <4>1, <4>2
      <3> QED
        BY <1>3, <3>1, <3>2
    <2> QED
      BY <1>3, <2>1, <2>2, <2>4, <2>5
  <1>6. DOMAIN t = 1 .. Len(s) - 1 /\ DOMAIN s = 1 .. Len(s)
    BY <1>5
  <1>7. Distinct(t)
    <2> SUFFICES ASSUME NEW a \in DOMAIN t, NEW b \in DOMAIN t, t[a] = t[b] PROVE a = b
      BY DEF Distinct
    <2> DEFINE old(j) == IF j < i THEN j ELSE j + 1
    <2>1. /\ old(a) \in DOMAIN s /\ old(b) \in DOMAIN s
          /\ t[a] = s[old(a)] /\ t[b] = s[old(b)]
      BY <1>3, <1>5, <1>6
    <2>2. old(a) = old(b)
      BY <2>1 DEF Distinct
    <2> QED
      BY <1>3, <1>6, <2>2
  <1>8. ASSUME NEW x \in Range(t) PROVE x \in Range(s) /\ x # q
    <2>1. PICK j \in 1 .. Len(s) - 1 : x = t[j]
      BY <1>6 DEF Range
    <2>2. \/ x = s[j] /\ j < i
          \/ x = s[j + 1] /\ j + 1 > i
      BY <1>3, <1>5, <2>1
    <2> QED
      BY <1>3, <1>6, <2>2 DEF Range, Distinct
  <1>9. ASSUME NEW x \in Range(s), x # q PROVE x \in Range(t)
    <2>1. PICK j \in 1 .. Len(s) : x = s[j]
      BY <1>6 DEF Range
    <2>2. j # i
      BY <1>3, <1>9, <2>1
    <2>3. CASE j < i
      <3>1. j \in 1 .. Len(s) - 1 /\ t[j] = x
        BY <1>3, <1>5, <2>1, <2>3
      <3> QED
        BY <1>6, <3>1 DEF Range
    <2>4. CASE j > i
      <3>1. j - 1 \in 1 .. Len(s) - 1 /\ t[j - 1] = x
        BY <1>3, <1>5, <2>1, <2>4
      <3> QED
        BY <1>6, <3>1 DEF Range
    <2> QED
      BY <1>3, <2>2, <2>3, <2>4
  <1> QED
    BY <1>2, <1>5, <1>7, <1>8, <1>9

\* A waiter at the end.
LEMMA QueueJoined ==
    ASSUME NEW s \in Seq(Queries), Distinct(s), NEW q \in Queries, q \notin Range(s)
    PROVE  /\ Append(s, q) \in Seq(Queries)
           /\ Distinct(Append(s, q))
           /\ Range(Append(s, q)) = Range(s) \cup {q}
  <1> DEFINE t == Append(s, q)
  <1>1. /\ t \in Seq(Queries) /\ DOMAIN t = 1 .. Len(s) + 1 /\ DOMAIN s = 1 .. Len(s)
        /\ \A k \in 1 .. Len(s) : t[k] = s[k]
        /\ t[Len(s) + 1] = q /\ Len(s) \in Nat
    OBVIOUS
  <1> HIDE DEF t
  <1>2. \A k \in 1 .. Len(s) : s[k] # q
    BY <1>1 DEF Range
  <1>3. Distinct(t)
    <2> SUFFICES ASSUME NEW a \in DOMAIN t, NEW b \in DOMAIN t, t[a] = t[b] PROVE a = b
      BY DEF Distinct
    <2>1. a \in 1 .. Len(s) \/ a = Len(s) + 1
      BY <1>1
    <2>2. b \in 1 .. Len(s) \/ b = Len(s) + 1
      BY <1>1
    <2> QED
      BY <1>1, <1>2, <2>1, <2>2 DEF Distinct
  <1>4. Range(t) = Range(s) \cup {q}
    <2>1. \A k \in 1 .. Len(s) + 1 : k \in 1 .. Len(s) \/ k = Len(s) + 1
      BY <1>1
    <2>2. \A k \in 1 .. Len(s) : k \in 1 .. Len(s) + 1
      BY <1>1
    <2>3. Len(s) + 1 \in 1 .. Len(s) + 1
      BY <1>1
    <2> QED
      BY <1>1, <2>1, <2>2, <2>3 DEF Range
  <1> QED
    BY <1>1, <1>3, <1>4 DEF t

-----------------------------------------------------------------------------
(* A step of one request changes its own record and at most one gate.      *)

Moves(q, g, s, r) ==
    /\ req' = [req EXCEPT ![q] = r]
    /\ sem' = [sem EXCEPT ![g] = s]
    /\ Registry

\* The waiters that such a step grants.
Granted(q, g, s) == Range(sem[g].waiters) \ (Range(s.waiters) \cup {q})

LEMMA GatesApart ==
    /\ NodeGate \in Gates /\ NoGate \notin Gates /\ NodeGate # NoGate
    /\ \A t \in Tenants, n \in Nat : <<t, n>> # NodeGate /\ <<t, n>> # NoGate
    /\ \A t \in Tenants, n \in 1 .. MaxMade : <<t, n>> \in Gates
  BY AdmissionAssumption DEF Gates, NodeGate, NoGate

\* Of the other requests, exactly those granted hold something they did not.
LEMMA OthersHold ==
    ASSUME IInv, NEW q \in Queries, NEW g \in Gates, NEW s \in Semaphores, NEW r \in Requests,
           Moves(q, g, s, r), Range(s.waiters) \ {q} \subseteq Range(sem[g].waiters),
           NEW p \in Queries, p # q, NEW h \in Gates
    PROVE  /\ Holds(p, h)' <=> Holds(p, h) \/ (h = g /\ p \in Granted(q, g, s))
           /\ ~(Holds(p, h) /\ h = g /\ p \in Granted(q, g, s))
  <1>1. req'[p] = req[p] /\ sem'[h] = IF h = g THEN s ELSE sem[h]
    BY DEF IInv, TypeInv, Moves
  <1>2. Charged(p, h)' = Charged(p, h) /\ GateOf(p)' = GateOf(p)
    BY <1>1 DEF Charged, GateOf
  <1>3. p \in Granted(q, g, s) => req[p].at \in Waiting /\ GateOf(p) = g
    BY DEF Granted, IInv, QueueInv
  <1>4. req[p].at \in Waiting => Charged(p, GateOf(p))
    BY DEF IInv, RequestInv, RequestOK
  <1>5. CASE req[p].at \in Waiting /\ h = GateOf(p)
    <2>1. Holds(p, h) <=> p \notin Range(sem[h].waiters)
      BY <1>4, <1>5 DEF Holds
    <2>2. Holds(p, h)' <=> p \notin Range(sem'[h].waiters)
      BY <1>1, <1>2, <1>4, <1>5 DEF Holds
    <2> QED
      BY <1>1, <2>1, <2>2 DEF Granted
  <1>6. CASE ~(req[p].at \in Waiting /\ h = GateOf(p))
    <2>1. ~(h = g /\ p \in Granted(q, g, s))
      BY <1>3, <1>6
    <2>2. Holds(p, h)' <=> Holds(p, h)
      BY <1>1, <1>2, <1>6 DEF Holds
    <2> QED
      BY <2>1, <2>2
  <1> QED
    BY <1>5, <1>6

LEMMA SumPlus ==
    ASSUME TypeInv, NEW A \in SUBSET Queries, NEW q \in Queries, q \notin A
    PROVE  Sum(A \cup {q}) = Sum(A) + req[q].cost
  <1>1. IsFiniteSet(A) /\ \A x \in Queries : Costs[x] \in Nat /\ Costs[x] = req[x].cost
    BY CostsType, SubsetsFinite
  <1> QED
    BY <1>1, SumIn DEF Sum

\* The accounts balance after a step that books what it does.
LEMMA AccountStep ==
    ASSUME IInv, NEW q \in Queries, NEW g \in Gates, NEW s \in Semaphores, NEW r \in Requests,
           Moves(q, g, s, r), Range(s.waiters) \ {q} \subseteq Range(sem[g].waiters),
           s.budget = sem[g].budget, s.cur <= s.budget,
           NEW gave \in Nat, gave = IF Holds(q, g) THEN req[q].cost ELSE 0,
           NEW got \in Nat, got = IF Holds(q, g)' THEN r.cost ELSE 0,
           s.cur = sem[g].cur - gave + got + Sum(Granted(q, g, s)),
           r.cost = req[q].cost \/ \A h \in Gates : ~Holds(q, h)',
           \A h \in Gates : h # g => (Holds(q, h)' <=> Holds(q, h))
    PROVE  AccountInv'
  <1> USE DEF IInv
  <1>1. sem' \in [Gates -> Semaphores] /\ \A h \in Gates : sem'[h] = IF h = g THEN s ELSE sem[h]
    BY DEF TypeInv, Moves
  <1>2. sem'[NodeGate].budget = NodeBudget
    BY <1>1, GatesApart DEF AccountInv
  <1>3. /\ \A p \in Queries : Costs'[p] = req'[p].cost
        /\ \A p \in Queries : p # q => Costs'[p] = req[p].cost
        /\ Costs'[q] = r.cost
    BY DEF Costs, Moves, TypeInv
  <1>4. \A p \in Queries, h \in Gates : p # q =>
          /\ Holds(p, h)' <=> Holds(p, h) \/ (h = g /\ p \in Granted(q, g, s))
          /\ ~(Holds(p, h) /\ h = g /\ p \in Granted(q, g, s))
    BY OthersHold
  <1>5. Granted(q, g, s) \subseteq Queries /\ q \notin Granted(q, g, s)
    BY DEF Granted, TypeInv, Semaphores, Range
  <1>6. ASSUME NEW h \in Gates PROVE Holders(h) \in SUBSET Queries
    BY DEF Holders
  <1>7. ASSUME NEW h \in Gates, h # g PROVE sem'[h].cur = Sum(Holders(h))'
    <2>1. Holders(h)' = (Holders(h) \ {}) \cup {}
      BY <1>4, <1>7 DEF Holders
    <2>2. \A p \in (Holders(h) \ {}) \cup {} : Costs'[p] = req[p].cost
      BY <1>3, <2>1 DEF Holders
    <2>3. SumFunctionOnSet(Costs', (Holders(h) \ {}) \cup {}) = Sum(Holders(h)) - Sum({}) + Sum({})
      BY <1>6, <2>2, SumShift
    <2>4. Sum(Holders(h))' = SumFunctionOnSet(Costs', (Holders(h) \ {}) \cup {})
      BY <2>1, Zenon DEF Sum
    <2>5. Sum(Holders(h)) \in Nat
      BY <1>6, SumType
    <2> QED
      BY <1>1, <1>7, <2>3, <2>4, <2>5, SumNone DEF AccountInv
  <1>8. sem'[g].cur = Sum(Holders(g))'
    <2> DEFINE X == IF Holds(q, g) THEN {q} ELSE {}
               Y == IF Holds(q, g)' THEN {q} ELSE {}
               G == Granted(q, g, s) \cup Y
    <2>1. X \in SUBSET Holders(g) /\ G \in SUBSET Queries
      BY <1>5 DEF Holders
    <2>2. G \cap (Holders(g) \ X) = {}
      BY <1>4, <1>5 DEF Holders
    <2>3. Holders(g)' = (Holders(g) \ X) \cup G
      <3>1. \A p \in Queries : p # q => (p \in Holders(g)' <=> p \in (Holders(g) \ X) \cup G)
        BY <1>4 DEF Holders
      <3>2. q \in Holders(g)' <=> q \in (Holders(g) \ X) \cup G
        BY <1>5 DEF Holders
      <3>3. Holders(g)' \subseteq Queries
        BY DEF Holders
      <3>4. (Holders(g) \ X) \cup G \subseteq Queries
        BY <1>6, <2>1
      <3> QED
        BY <3>1, <3>2, <3>3, <3>4
    <2>4. \A p \in (Holders(g) \ X) \cup G : Costs'[p] = req[p].cost
      <3>1. \A p \in (Holders(g) \ X) \cup G : p = q => Holds(q, g)'
        BY <1>5 DEF Holders
      <3> QED
        BY <1>3, <1>6, <2>1, <3>1
    <2> HIDE DEF X, G
    <2>5. SumFunctionOnSet(Costs', (Holders(g) \ X) \cup G) = Sum(Holders(g)) - Sum(X) + Sum(G)
      BY <1>6, <2>1, <2>2, <2>4, SumShift
    <2>6. Sum(Holders(g))' = SumFunctionOnSet(Costs', (Holders(g) \ X) \cup G)
      BY <2>3, Zenon DEF Sum
    <2>7. Sum(X) = gave
      <3>1. CASE Holds(q, g)
        <4>1. X = {q}
          BY <3>1 DEF X
        <4> QED
          BY <3>1, <4>1, SumOne
      <3>2. CASE ~Holds(q, g)
        <4>1. X = {}
          BY <3>2 DEF X
        <4> QED
          BY <3>2, <4>1, SumNone
      <3> QED
        BY <3>1, <3>2
    <2>8. Sum(G) = Sum(Granted(q, g, s)) + got
      <3>1. CASE Holds(q, g)'
        <4>1. G = Granted(q, g, s) \cup {q}
          BY <3>1 DEF G
        <4>2. r.cost = req[q].cost
          BY <3>1
        <4>3. Sum(Granted(q, g, s) \cup {q}) = Sum(Granted(q, g, s)) + req[q].cost
          BY <1>5, SumPlus
        <4> QED
          BY <3>1, <4>1, <4>2, <4>3
      <3>2. CASE ~Holds(q, g)'
        <4>1. G = Granted(q, g, s)
          BY <3>2 DEF G
        <4>2. Sum(Granted(q, g, s)) \in Nat
          BY <1>5, SumType
        <4> QED
          BY <3>2, <4>1, <4>2
      <3> QED
        BY <3>1, <3>2
    <2>9. Sum(Holders(g)) \in Nat /\ Sum(Granted(q, g, s)) \in Nat
      BY <1>5, <1>6, SumType
    <2>10. sem[g].cur = Sum(Holders(g)) /\ sem'[g].cur = s.cur
      BY <1>1 DEF AccountInv
    <2> QED
      BY <2>5, <2>6, <2>7, <2>8, <2>9, <2>10
  <1>9. \A h \in Gates : sem'[h].cur <= sem'[h].budget
    BY <1>1 DEF AccountInv
  <1> QED
    BY <1>2, <1>7, <1>8, <1>9 DEF AccountInv

\* What a step has to show of the request and the queue it changes.
LEMMA RequestStep ==
    ASSUME IInv, NEW q \in Queries, NEW g \in Gates, NEW s \in Semaphores, NEW r \in Requests,
           Moves(q, g, s, r), Range(s.waiters) \ {q} \subseteq Range(sem[g].waiters),
           s.budget = sem[g].budget, Distinct(s.waiters),
           q \in Range(s.waiters) => r.at \in Waiting /\ GateOf(q)' = g,
           req[q].at \in Waiting => GateOf(q) = g,
           \/ r = NoRequest
           \/ req[q].at # "out" /\ r.tenant = req[q].tenant /\ r.gate = req[q].gate
           \/ r.tenant \in Tenants /\ r.gate = gate[r.tenant],
           RequestOK(q)'
    PROVE  TypeInv' /\ RegistryInv' /\ RequestInv' /\ QueueInv'
  <1> USE DEF IInv
  <1>1. /\ req' \in [Queries -> Requests] /\ sem' \in [Gates -> Semaphores]
        /\ \A h \in Gates : sem'[h] = IF h = g THEN s ELSE sem[h]
        /\ \A p \in Queries : req'[p] = IF p = q THEN r ELSE req[p]
        /\ quota' = quota /\ gate' = gate /\ made' = made /\ size' = size /\ settled' = settled
    BY DEF TypeInv, Moves, Registry
  <1>2. TypeInv'
    BY <1>1 DEF TypeInv
  <1>3. RegistryInv'
    <2> SUFFICES ASSUME NEW t \in Tenants
                 PROVE  /\ gate[t] = IF quota[t] > 0 THEN <<t, made[t]>> ELSE NoGate
                        /\ quota[t] > 0 => made[t] > 0 /\ sem'[gate[t]].budget = quota[t]
                        /\ settled[t] => \A p \in InFlight(t)' : req'[p].gate = gate[t]
      BY <1>1 DEF RegistryInv
    <2>1. \A h \in Gates : sem'[h].budget = sem[h].budget
      BY <1>1
    <2>2. quota[t] > 0 => gate[t] \in Gates
      BY GatesApart DEF RegistryInv, TypeInv
    <2>4. ASSUME settled[t], NEW x \in InFlight(t) PROVE req[x].gate = gate[t]
      BY <2>4 DEF RegistryInv
    <2>3. ASSUME settled[t], NEW p \in InFlight(t)' PROVE req'[p].gate = gate[t]
      <3>1. p \in Queries /\ req'[p].at # "out" /\ req'[p].tenant = t
        BY DEF InFlight
      <3>2. CASE p # q
        <4>1. req'[p] = req[p]
          BY <1>1, <3>1, <3>2
        <4>2. p \in InFlight(t)
          BY <3>1, <4>1 DEF InFlight
        <4>3. req[p].gate = gate[t]
          BY <2>3, <2>4, <4>2
        <4> QED
          BY <4>1, <4>3
      <3>3. CASE p = q
        <4>1. r.at # "out" /\ r.tenant = t
          BY <1>1, <3>1, <3>3
        <4>2. r # NoRequest
          BY <4>1 DEF NoRequest
        <4>3. (req[q].at # "out" /\ req[q].tenant = t) => req[q].gate = gate[t]
          BY <2>3 DEF RegistryInv, InFlight
        <4> QED
          BY <1>1, <3>3, <4>1, <4>2, <4>3
      <3> QED
        BY <3>2, <3>3
    <2> QED
      BY <2>1, <2>2, <2>3 DEF RegistryInv
  <1>4. RequestInv'
    <2>1. ASSUME NEW p \in Queries, p # q PROVE RequestOK(p)'
      <3>1. RequestOK(p) /\ req'[p] = req[p]
        BY <1>1, <2>1 DEF RequestInv
      <3> QED
        BY <1>1, <3>1 DEF RequestOK, Charged, GateOf
    <2> QED
      BY <2>1 DEF RequestInv
  <1>5. QueueInv'
    <2> SUFFICES ASSUME NEW h \in Gates
                 PROVE  /\ Distinct(sem'[h].waiters)
                        /\ \A p \in Range(sem'[h].waiters) : req'[p].at \in Waiting /\ GateOf(p)' = h
      BY DEF QueueInv
    <2>1. Distinct(sem'[h].waiters)
      BY <1>1 DEF QueueInv
    <2>2. ASSUME NEW p \in Range(sem'[h].waiters) PROVE req'[p].at \in Waiting /\ GateOf(p)' = h
      <3>1. p \in Queries
        BY <1>1 DEF Semaphores, Range
      <3>2. CASE p # q
        <4>1. p \in Range(sem[h].waiters)
          BY <1>1, <2>2, <3>2
        <4>2. req[p].at \in Waiting /\ GateOf(p) = h
          BY <4>1 DEF QueueInv
        <4> QED
          BY <1>1, <3>1, <3>2, <4>2 DEF GateOf
      <3>3. CASE p = q /\ h = g
        BY <1>1, <2>2, <3>3
      <3>4. CASE p = q /\ h # g
        <4>1. q \in Range(sem[h].waiters)
          BY <1>1, <2>2, <3>4
        <4>2. req[q].at \in Waiting /\ GateOf(q) = h
          BY <4>1 DEF QueueInv
        <4> QED
          BY <3>4, <4>2
      <3> QED
        BY <3>2, <3>3, <3>4
    <2> QED
      BY <2>1, <2>2
  <1> QED
    BY <1>2, <1>3, <1>4, <1>5

-----------------------------------------------------------------------------
(* Both halves, in terms of what the record of a request says.             *)

\* Whether a request with record r, queued at gate h or not, holds tokens of h.
HeldBy(r, queued, h) ==
    /\ r.cost > 0
    /\ \/ /\ h = r.gate
          /\ \/ r.at \in {"node", "waitnode", "execute", "run", "unwind"}
             \/ r.at = "waittenant" /\ ~queued
       \/ /\ h = NodeGate
          /\ \/ r.at \in {"execute", "run"}
             \/ r.at = "waitnode" /\ ~queued

LEMMA HoldsNow ==
    ASSUME NEW q \in Queries, NEW h \in Gates, req[q] \in Requests, req[q].gate # NodeGate
    PROVE  Holds(q, h) <=> HeldBy(req[q], q \in Range(sem[h].waiters), h)
  <1>1. h # NoGate /\ req[q].cost \in Nat
    BY GatesApart DEF Requests
  <1> QED
    BY <1>1 DEF Holds, HeldBy, Charged, GateOf, Waiting

LEMMA HoldsThen ==
    ASSUME NEW q \in Queries, NEW h \in Gates, req'[q] \in Requests, req'[q].gate # NodeGate
    PROVE  Holds(q, h)' <=> HeldBy(req'[q], q \in Range(sem'[h].waiters), h)
  <1>1. h # NoGate /\ req'[q].cost \in Nat
    BY GatesApart DEF Requests
  <1> QED
    BY <1>1 DEF Holds, HeldBy, Charged, GateOf, Waiting

\* The tokens of gate h, with semaphore s, that request q holds as record r.
Paid(q, r, s, h) == IF HeldBy(r, q \in Range(s.waiters), h) THEN r.cost ELSE 0

\* What a request may become.
Sound(r) ==
    /\ r.at = "out" => r = NoRequest
    /\ r.at = "waittenant" => r.gate # NoGate /\ r.cost > 0
    /\ r.at = "waitnode" => r.cost > 0
    /\ r.work = IF r.at = "run" THEN r.cost ELSE 0

LEMMA MoveStep ==
    ASSUME IInv, NEW q \in Queries, NEW g \in Gates, NEW s \in Semaphores, NEW r \in Requests,
           Moves(q, g, s, r), Sound(r), req[q].at \in Waiting => GateOf(q) = g,
           \/ r = NoRequest
           \/ req[q].at # "out" /\ r.tenant = req[q].tenant /\ r.gate = req[q].gate
           \/ r.tenant \in Tenants /\ r.gate = gate[r.tenant],
           r.cost = req[q].cost \/ r.at \in {"out", "tenant"},
           Range(s.waiters) \ {q} \subseteq Range(sem[g].waiters), Distinct(s.waiters),
           q \in Range(s.waiters) =>
              (r.at = "waittenant" /\ g = r.gate) \/ (r.at = "waitnode" /\ g = NodeGate),
           s.budget = sem[g].budget, s.cur <= s.budget,
           s.cur = sem[g].cur - Paid(q, req[q], sem[g], g) + Paid(q, r, s, g) + Sum(Granted(q, g, s)),
           \A h \in Gates : h # g => (HeldBy(r, FALSE, h) <=> HeldBy(req[q], FALSE, h))
    PROVE  IInv'
  <1> USE DEF IInv
  <1>1. /\ req'[q] = r /\ req[q] \in Requests /\ made' = made /\ gate' = gate
        /\ \A h \in Gates : sem'[h] = IF h = g THEN s ELSE sem[h]
    BY DEF Moves, Registry, TypeInv
  <1>2. RequestOK(q)
    BY DEF RequestInv
  <1>3. r.gate # NoGate =>
          r.tenant \in Tenants /\ r.gate \in {r.tenant} \X (1 .. made[r.tenant])
    <2>1. CASE r = NoRequest
      BY <2>1 DEF NoRequest
    <2>2. CASE r.tenant = req[q].tenant /\ r.gate = req[q].gate
      BY <1>2, <2>2 DEF RequestOK
    <2>3. CASE r.tenant \in Tenants /\ r.gate = gate[r.tenant]
      BY <2>3 DEF RegistryInv, TypeInv
    <2> QED
      BY <2>1, <2>2, <2>3
  <1>4. r.gate # NodeGate /\ req[q].gate # NodeGate
    <2>1. r.gate # NodeGate
      BY <1>3, AdmissionAssumption DEF NodeGate, NoGate
    <2>2. req[q].gate # NodeGate
      BY <1>2, AdmissionAssumption DEF RequestOK, NodeGate, NoGate
    <2> QED
      BY <2>1, <2>2
  <1>5. \A h \in Gates : Holds(q, h) <=> HeldBy(req[q], q \in Range(sem[h].waiters), h)
    BY <1>1, <1>4, HoldsNow
  <1>6. \A h \in Gates : Holds(q, h)' <=> HeldBy(r, q \in Range(sem'[h].waiters), h)
    BY <1>1, <1>4, HoldsThen
  <1>7. ASSUME NEW h \in Gates, h # g PROVE q \notin Range(sem[h].waiters)
    BY <1>7 DEF QueueInv
  <1>8. \A h \in Gates : h # g => (Holds(q, h)' <=> Holds(q, h))
    <2> SUFFICES ASSUME NEW h \in Gates, h # g PROVE Holds(q, h)' <=> Holds(q, h)
      OBVIOUS
    <2>1. Holds(q, h) <=> HeldBy(req[q], FALSE, h)
      BY <1>5, <1>7 DEF HeldBy
    <2>2. Holds(q, h)' <=> HeldBy(r, FALSE, h)
      BY <1>1, <1>6, <1>7 DEF HeldBy
    <2> QED
      BY <2>1, <2>2
  <1> DEFINE gave == Paid(q, req[q], sem[g], g)
             got == Paid(q, r, s, g)
  <1>9. /\ gave = (IF Holds(q, g) THEN req[q].cost ELSE 0) /\ got = (IF Holds(q, g)' THEN r.cost ELSE 0)
        /\ gave \in Nat /\ got \in Nat
    BY <1>1, <1>5, <1>6 DEF Paid, Requests
  <1>15. s.cur = sem[g].cur - gave + got + Sum(Granted(q, g, s))
    OBVIOUS
  <1>10. r.cost = req[q].cost \/ \A h \in Gates : ~Holds(q, h)'
    BY <1>6 DEF HeldBy
  <1>11. AccountInv'
    <2> HIDE DEF gave, got
    <2> QED
      BY <1>8, <1>9, <1>10, <1>15, AccountStep
  <1>12. RequestOK(q)'
    BY <1>1, <1>3, GatesApart DEF RequestOK, Sound, Charged, GateOf, Waiting
  <1>13. q \in Range(s.waiters) => r.at \in Waiting /\ GateOf(q)' = g
    BY <1>1 DEF GateOf, Waiting
  <1>14. TypeInv' /\ RegistryInv' /\ RequestInv' /\ QueueInv'
    BY <1>12, <1>13, RequestStep
  <1> QED
    BY <1>11, <1>14

\* A step that moves no tokens and leaves the queues alone.
LEMMA StillStep ==
    ASSUME IInv, NEW q \in Queries, NEW r \in Requests,
           req' = [req EXCEPT ![q] = r], UNCHANGED sem, Registry, Sound(r),
           \/ r = NoRequest
           \/ req[q].at # "out" /\ r.tenant = req[q].tenant /\ r.gate = req[q].gate
           \/ r.tenant \in Tenants /\ r.gate = gate[r.tenant],
           r.cost = req[q].cost \/ r.at \in {"out", "tenant"},
           req[q].at \in Waiting => q \notin Range(sem[GateOf(q)].waiters),
           \A h \in Gates : HeldBy(r, FALSE, h) <=> HeldBy(req[q], FALSE, h)
    PROVE  IInv'
  <1> DEFINE g == GateOf(q)
             h0 == IF req[q].at \in Waiting THEN GateOf(q) ELSE NodeGate
             s == sem[h0]
             cost == Paid(q, req[q], s, h0)
  <1>1. req[q] \in Requests /\ RequestOK(q) /\ sem \in [Gates -> Semaphores]
    BY DEF IInv, TypeInv, RequestInv
  <1>2. h0 \in Gates
    BY <1>1, GatesApart DEF RequestOK, Charged, GateOf, Requests
  <1>3. s \in Semaphores /\ s.cur <= s.budget /\ Distinct(s.waiters)
    BY <1>1, <1>2 DEF IInv, AccountInv, QueueInv
  <1>4. q \notin Range(s.waiters)
    BY <1>2 DEF IInv, QueueInv
  <1>5. Granted(q, h0, s) = {}
    BY DEF Granted
  <1>6. Sum(Granted(q, h0, s)) = 0
    BY <1>5, SumNone, Zenon
  <1>7. Moves(q, h0, s, r)
    BY <1>1 DEF Moves
  <1>8. cost \in Nat /\ cost = Paid(q, r, s, h0)
    BY <1>1, <1>2, <1>4 DEF Paid, HeldBy, Requests
  <1>9. s.cur = sem[h0].cur - cost + Paid(q, r, s, h0) + Sum(Granted(q, h0, s))
    <2>1. s.cur \in Nat
      BY <1>3 DEF Semaphores
    <2>2. sem[h0].cur = s.cur /\ cost \in Nat /\ Paid(q, r, s, h0) = cost
      BY <1>8
    <2>4. \A c, n \in Nat : c = c - n + n + 0
      OBVIOUS
    <2> HIDE DEF s, h0, cost
    <2> QED
      BY <2>1, <2>2, <2>4, <1>6, Zenon
  <1>10. s.cur = sem[h0].cur - Paid(q, req[q], sem[h0], h0) + Paid(q, r, s, h0) + Sum(Granted(q, h0, s))
    BY <1>9
  <1>12. req[q].at \in Waiting => GateOf(q) = h0
    OBVIOUS
  <1>13. Range(s.waiters) \ {q} \subseteq Range(sem[h0].waiters) /\ s.budget = sem[h0].budget
    OBVIOUS
  <1> HIDE DEF h0, s, cost
  <1> QED
    BY <1>2, <1>3, <1>4, <1>7, <1>10, <1>12, <1>13, MoveStep

\* What a request holds of a gate is on the gate's account.
LEMMA HeldIsBooked ==
    ASSUME IInv, NEW q \in Queries, NEW g \in Gates, Holds(q, g)
    PROVE  req[q].cost <= sem[g].cur
  <1> DEFINE H == Holders(g)
  <1>1. H \in SUBSET Queries /\ q \in H
    BY DEF Holders
  <1>2. IsFiniteSet(H) /\ \A x \in H : Costs[x] \in Nat
    BY <1>1, SubsetsFinite, CostsType DEF IInv
  <1>3. SumFunctionOnSet(Costs, H) = Costs[q] + SumFunctionOnSet(Costs, H \ {q})
    BY <1>1, <1>2, SumOut
  <1>4. Sum(H \ {q}) \in Nat
    BY <1>1, SumType DEF IInv
  <1>5. Costs[q] = req[q].cost /\ Costs[q] \in Nat
    BY CostsType DEF IInv
  <1>6. sem[g].cur = SumFunctionOnSet(Costs, H)
    BY DEF IInv, AccountInv, Sum
  <1> QED
    BY <1>3, <1>4, <1>5, <1>6 DEF Sum

\* A step that gives back what the request holds of a gate, or its place in
\* the gate's queue, and lets the gate grant to those who wait.
LEMMA GiveBackStep ==
    ASSUME IInv, NEW q \in Queries, NEW g \in Gates, NEW u \in Semaphores, NEW r \in Requests,
           Moves(q, g, Notify(u), r), Sound(r), req[q].at \in Waiting => GateOf(q) = g,
           \/ r = NoRequest
           \/ req[q].at # "out" /\ r.tenant = req[q].tenant /\ r.gate = req[q].gate,
           r.cost = req[q].cost \/ r.at = "out",
           Distinct(u.waiters), Range(u.waiters) = Range(sem[g].waiters) \ {q},
           u.budget = sem[g].budget,
           u.cur = sem[g].cur - Paid(q, req[q], sem[g], g),
           ~HeldBy(r, FALSE, g),
           \A h \in Gates : h # g => (HeldBy(r, FALSE, h) <=> HeldBy(req[q], FALSE, h))
    PROVE  IInv'
  <1> DEFINE s == Notify(u)
  <1>1. sem[g] \in Semaphores /\ sem[g].cur <= sem[g].budget /\ TypeInv
    BY DEF IInv, TypeInv, AccountInv
  <1>17. Paid(q, req[q], sem[g], g) \in Nat
    BY <1>1 DEF Paid, Requests, TypeInv
  <1>2. u.cur <= u.budget
    BY <1>1, <1>17 DEF Semaphores
  <1>3. /\ s \in Semaphores /\ s.budget = u.budget /\ Distinct(s.waiters)
        /\ Range(s.waiters) \subseteq Range(u.waiters)
        /\ s.cur = u.cur + Sum(Range(u.waiters) \ Range(s.waiters)) /\ s.cur <= u.budget
    BY <1>1, <1>2, NotifyGrants
  <1> HIDE DEF s
  <1>4. Granted(q, g, s) = Range(u.waiters) \ Range(s.waiters)
    BY DEF Granted
  <1>5. Sum(Granted(q, g, s)) = Sum(Range(u.waiters) \ Range(s.waiters))
    BY <1>4, Zenon
  <1>6. q \notin Range(s.waiters)
    BY <1>3
  <1>7. ~HeldBy(r, q \in Range(s.waiters), g)
    BY <1>6 DEF HeldBy
  <1>8. Paid(q, r, s, g) = 0
    BY <1>7 DEF Paid
  <1>9. Sum(Granted(q, g, s)) \in Nat
    <2>1. Granted(q, g, s) \in SUBSET Queries
      BY <1>1 DEF Granted, Semaphores, Range
    <2> QED
      BY <1>1, <2>1, SumType
  <1>10. s.cur = sem[g].cur - Paid(q, req[q], sem[g], g) + Paid(q, r, s, g) + Sum(Granted(q, g, s))
    BY <1>1, <1>3, <1>5, <1>8, <1>9, <1>17 DEF Semaphores
  <1>11. Range(s.waiters) \ {q} \subseteq Range(sem[g].waiters) /\ s.budget = sem[g].budget /\ s.cur <= s.budget
    BY <1>3
  <1>12. Moves(q, g, s, r)
    BY DEF s
  <1>13. r.cost = req[q].cost \/ r.at \in {"out", "tenant"}
    OBVIOUS
  <1>14. \/ r = NoRequest
         \/ req[q].at # "out" /\ r.tenant = req[q].tenant /\ r.gate = req[q].gate
         \/ r.tenant \in Tenants /\ r.gate = gate[r.tenant]
    OBVIOUS
  <1>15. q \in Range(s.waiters) =>
            (r.at = "waittenant" /\ g = r.gate) \/ (r.at = "waitnode" /\ g = NodeGate)
    BY <1>6
  <1>16. s \in Semaphores /\ Distinct(s.waiters)
    BY <1>3
  <1> QED
    BY <1>10, <1>11, <1>12, <1>13, <1>14, <1>15, <1>16, MoveStep

-----------------------------------------------------------------------------
(* The steps of a request.                                                 *)

\* The facts about a request that its steps need.
LEMMA AboutRequest ==
    ASSUME IInv, NEW q \in Queries
    PROVE  /\ req[q] \in Requests /\ Sound(req[q]) /\ req[q].gate # NodeGate
           /\ req[q].gate # NoGate => req[q].gate \in Gates
           /\ req[q].at \in Waiting => GateOf(q) \in Gates
           /\ \A h \in Gates : q \in Range(sem[h].waiters) => req[q].at \in Waiting /\ GateOf(q) = h
           /\ \A h \in Gates : HeldBy(req[q], q \in Range(sem[h].waiters), h) => req[q].cost <= sem[h].cur
  <1>1. req[q] \in Requests /\ RequestOK(q)
    BY DEF IInv, TypeInv, RequestInv
  <1>2. req[q].gate # NodeGate
    BY <1>1, GatesApart, AdmissionAssumption DEF RequestOK, NodeGate
  <1>3. \A h \in Gates : q \in Range(sem[h].waiters) => req[q].at \in Waiting /\ GateOf(q) = h
    BY DEF IInv, QueueInv
  <1>4. req[q].gate # NoGate => req[q].gate \in Gates
    BY <1>1 DEF Requests
  <1>5. req[q].at \in Waiting => GateOf(q) \in Gates
    BY <1>1, <1>4, GatesApart DEF RequestOK, Charged, GateOf
  <1>6. \A h \in Gates : HeldBy(req[q], q \in Range(sem[h].waiters), h) => req[q].cost <= sem[h].cur
    BY <1>1, <1>2, HoldsNow, HeldIsBooked
  <1>7. Sound(req[q])
    BY <1>1 DEF RequestOK, Sound, Waiting, Charged, GateOf, NoRequest
  <1> QED
    BY <1>1, <1>2, <1>3, <1>4, <1>5, <1>6, <1>7

LEMMA NoRequestType == NoRequest \in Requests /\ Sound(NoRequest)
  BY DEF NoRequest, Requests, Sound

\* The record Goto leaves.
Gone(q, where) == IF where = "out" THEN NoRequest ELSE [req[q] EXCEPT !.at = where]

LEMMA GotoRecord ==
    ASSUME IInv, NEW q \in Queries, req[q].at # "out", NEW where,
           where \in Waiting \cup {"out", "tenant", "node", "execute", "unwind"},
           where = "waittenant" => req[q].gate # NoGate /\ req[q].cost > 0,
           where = "waitnode" => req[q].cost > 0,
           req[q].at # "run"
    PROVE  /\ Gone(q, where) \in Requests /\ Sound(Gone(q, where))
           /\ \/ Gone(q, where) = NoRequest
              \/ /\ req[q].at # "out" /\ Gone(q, where).tenant = req[q].tenant
                 /\ Gone(q, where).gate = req[q].gate
           /\ Gone(q, where).at = where
           /\ Gone(q, where).cost = req[q].cost \/ Gone(q, where).at = "out"
           /\ where # "out" => Gone(q, where).gate = req[q].gate /\ Gone(q, where).cost = req[q].cost
           /\ Goto(q, where) => req' = [req EXCEPT ![q] = Gone(q, where)]
  <1> DEFINE r == Gone(q, where)
  <1>1. req[q] \in Requests /\ Sound(req[q])
    BY AboutRequest
  <1>2. Goto(q, where) => req' = [req EXCEPT ![q] = r]
    BY DEF Goto, Gone
  <1>3. CASE where = "out"
    <2>1. r = NoRequest
      BY <1>3 DEF Gone
    <2> QED
      BY <1>2, <1>3, <2>1, NoRequestType DEF NoRequest
  <1>4. CASE where # "out"
    <2>1. r = [req[q] EXCEPT !.at = where]
      BY <1>4 DEF Gone
    <2>2. /\ r \in Requests /\ r.at = where /\ r.tenant = req[q].tenant /\ r.gate = req[q].gate
          /\ r.cost = req[q].cost /\ r.work = req[q].work
      BY <1>1, <2>1 DEF Requests
    <2>3. where # "run"
      BY DEF Waiting
    <2>4. Sound(r)
      <3> HIDE DEF r
      <3> QED
        BY <1>1, <1>4, <2>2, <2>3 DEF Sound
    <2> QED
      BY <1>2, <1>4, <2>2, <2>4
  <1> QED
    BY <1>3, <1>4

LEMMA ArriveStep ==
    ASSUME IInv, NEW q \in Queries, NEW t \in Tenants, Arrive(q, t)
    PROVE  IInv'
  <1> DEFINE r == [at |-> "tenant", tenant |-> t, gate |-> gate[t], cost |-> size, work |-> 0]
  <1>1. r \in Requests
    BY AdmissionAssumption DEF IInv, TypeInv, Requests
  <1>2. Sound(r)
    BY DEF Sound
  <1>3. r.tenant \in Tenants /\ r.gate = gate[r.tenant] /\ r.at = "tenant"
    OBVIOUS
  <1>4. req' = [req EXCEPT ![q] = r] /\ UNCHANGED sem /\ Registry /\ req[q].at = "out"
    BY DEF Arrive, Registry
  <1>5. \A h \in Gates : HeldBy(r, FALSE, h) <=> HeldBy(req[q], FALSE, h)
    BY <1>4 DEF HeldBy
  <1>6. req[q].at \notin Waiting
    BY <1>4 DEF Waiting
  <1> HIDE DEF r
  <1> QED
    BY <1>1, <1>2, <1>3, <1>4, <1>5, <1>6, StillStep

LEMMA WakeStep ==
    ASSUME IInv, NEW q \in Queries, Wake(q)
    PROVE  IInv'
  <1> DEFINE where == IF req[q].at = "waittenant" THEN "node" ELSE "execute"
             r == Gone(q, where)
  <1>1. /\ req[q].at \in {"waittenant", "waitnode"} /\ q \notin Range(sem[GateOf(q)].waiters)
        /\ Goto(q, where) /\ UNCHANGED sem /\ Registry
    BY DEF Wake, Waiting
  <1>2. where \in {"node", "execute"} /\ req[q].at # "out" /\ req[q].at # "run"
    BY <1>1
  <1>3. /\ r \in Requests /\ Sound(r) /\ r.at = where /\ req' = [req EXCEPT ![q] = r]
        /\ r.tenant = req[q].tenant /\ r.gate = req[q].gate /\ r.cost = req[q].cost
    <2>1. where # "out" /\ where \in Waiting \cup {"out", "tenant", "node", "execute", "unwind"}
      BY <1>2
    <2>2. Gone(q, where) # NoRequest
      BY <1>2, <2>1, GotoRecord DEF NoRequest
    <2> HIDE DEF where
    <2> QED
      BY <1>1, <1>2, <2>1, <2>2, GotoRecord
  <1>4. \A h \in Gates : HeldBy(r, FALSE, h) <=> HeldBy(req[q], FALSE, h)
    <2> HIDE DEF r
    <2> QED
      BY <1>1, <1>3 DEF HeldBy
  <1> HIDE DEF r, where
  <1> QED
    BY <1>1, <1>2, <1>3, <1>4, StillStep

LEMMA TooLateStep ==
    ASSUME IInv, NEW q \in Queries, TooLate(q)
    PROVE  IInv'
  <1> DEFINE where == IF req[q].at = "tenant" THEN "out" ELSE "unwind"
             r == Gone(q, where)
  <1>1. /\ req[q].at \in {"tenant", "node"}
        /\ Goto(q, where) /\ UNCHANGED sem /\ Registry
    BY DEF TooLate
  <1>2. where \in {"out", "unwind"} /\ req[q].at # "out" /\ req[q].at # "run" /\ req[q].at \notin Waiting
    BY <1>1 DEF Waiting
  <1>3. /\ r \in Requests /\ Sound(r) /\ r.at = where /\ req' = [req EXCEPT ![q] = r]
        /\ \/ r = NoRequest
           \/ req[q].at # "out" /\ r.tenant = req[q].tenant /\ r.gate = req[q].gate
        /\ r.cost = req[q].cost \/ r.at = "out"
        /\ where # "out" => r.gate = req[q].gate /\ r.cost = req[q].cost
    <2> HIDE DEF where
    <2> QED
      BY <1>1, <1>2, GotoRecord
  <1>4. \A h \in Gates : HeldBy(r, FALSE, h) <=> HeldBy(req[q], FALSE, h)
    <2> HIDE DEF r
    <2> QED
      BY <1>1, <1>3 DEF HeldBy
  <1> HIDE DEF r, where
  <1> QED
    BY <1>1, <1>2, <1>3, <1>4, StillStep

LEMMA ExecuteStep ==
    ASSUME IInv, NEW q \in Queries, Execute(q)
    PROVE  IInv'
  <1> DEFINE r == [req[q] EXCEPT !.at = "run", !.work = req[q].cost]
  <1>1. req[q].at = "execute" /\ UNCHANGED sem /\ Registry /\ req[q].at \notin Waiting /\ req[q] \in Requests
    BY AboutRequest DEF Execute, Waiting
  <1>2. req' = [req EXCEPT ![q] = r]
    BY <1>1 DEF Execute, IInv, TypeInv
  <1>3. /\ r \in Requests /\ r.at = "run" /\ r.work = req[q].cost
        /\ r.tenant = req[q].tenant /\ r.gate = req[q].gate /\ r.cost = req[q].cost
    BY <1>1 DEF Requests
  <1> HIDE DEF r
  <1>4. Sound(r) /\ \A h \in Gates : HeldBy(r, FALSE, h) <=> HeldBy(req[q], FALSE, h)
    BY <1>1, <1>3 DEF HeldBy, Sound
  <1> QED
    BY <1>1, <1>2, <1>3, <1>4, StillStep

\* The two acquires: the request is not charged, is refused, is served at
\* once or joins the queue.
LEMMA AcquireStep ==
    ASSUME IInv, NEW q \in Queries, NEW g, NEW passed, NEW waiting, NEW refused,
           \/ /\ req[q].at = "tenant" /\ g = req[q].gate
              /\ passed = "node" /\ waiting = "waittenant" /\ refused = "out"
           \/ /\ req[q].at = "node" /\ g = NodeGate
              /\ passed = "execute" /\ waiting = "waitnode" /\ refused = "unwind",
           Acquire(q, g, passed, waiting, refused), Registry
    PROVE  IInv'
  <1>1. /\ req[q] \in Requests /\ Sound(req[q]) /\ req[q].gate # NodeGate
        /\ req[q].gate # NoGate => req[q].gate \in Gates
        /\ req[q].at # "out" /\ req[q].at # "run" /\ req[q].at \notin Waiting
        /\ \A h \in Gates : q \notin Range(sem[h].waiters)
    BY AboutRequest DEF Waiting
  <1>2. req[q].cost \in Nat /\ sem \in [Gates -> Semaphores] /\ TypeInv
    BY <1>1 DEF IInv, TypeInv, Requests
  <1>3. Charged(q, g) => g \in Gates
    BY <1>1, GatesApart DEF Charged
  <1>4. CASE ~Charged(q, g) /\ Goto(q, passed) /\ UNCHANGED sem
    <2> DEFINE r == Gone(q, passed)
    <2>1. /\ r \in Requests /\ Sound(r) /\ r.at = passed /\ req' = [req EXCEPT ![q] = r]
          /\ r.tenant = req[q].tenant /\ r.gate = req[q].gate /\ r.cost = req[q].cost
      <3>1. passed # "out" /\ passed \in {"out", "tenant", "node", "execute", "unwind"}
        OBVIOUS
      <3>2. passed # "waittenant" /\ passed # "waitnode"
        OBVIOUS
      <3>3. Gone(q, passed) # NoRequest
        BY <1>1, <3>1, <3>2, GotoRecord DEF NoRequest
      <3> QED
        BY <1>1, <1>4, <3>1, <3>2, <3>3, GotoRecord
    <2> HIDE DEF r
    <2>2. \A h \in Gates : HeldBy(r, FALSE, h) <=> HeldBy(req[q], FALSE, h)
      BY <1>2, <1>4, <2>1, GatesApart DEF HeldBy, Charged
    <2> QED
      BY <1>1, <1>4, <2>1, <2>2, StillStep
  <1>5. CASE Goto(q, refused) /\ UNCHANGED sem
    <2> DEFINE r == Gone(q, refused)
    <2>1. /\ r \in Requests /\ Sound(r) /\ r.at = refused /\ req' = [req EXCEPT ![q] = r]
          /\ \/ r = NoRequest
             \/ req[q].at # "out" /\ r.tenant = req[q].tenant /\ r.gate = req[q].gate
          /\ r.cost = req[q].cost \/ r.at = "out"
          /\ refused # "out" => r.gate = req[q].gate /\ r.cost = req[q].cost
      <3>1. refused \in {"out", "tenant", "node", "execute", "unwind"}
        OBVIOUS
      <3>2. refused # "waittenant" /\ refused # "waitnode"
        OBVIOUS
      <3> QED
        BY <1>1, <1>5, <3>1, <3>2, GotoRecord
    <2> HIDE DEF r
    <2>2. \A h \in Gates : HeldBy(r, FALSE, h) <=> HeldBy(req[q], FALSE, h)
      BY <2>1 DEF HeldBy
    <2> QED
      BY <1>1, <1>5, <2>1, <2>2, StillStep
  <1>6. CASE /\ Charged(q, g) /\ Fits(sem[g], req[q].cost)
             /\ sem' = [sem EXCEPT ![g].cur = @ + req[q].cost] /\ Goto(q, passed)
    <2> DEFINE r == Gone(q, passed)
               s == [sem[g] EXCEPT !.cur = @ + req[q].cost]
    <2>1. /\ r \in Requests /\ Sound(r) /\ r.at = passed /\ req' = [req EXCEPT ![q] = r]
          /\ r.tenant = req[q].tenant /\ r.gate = req[q].gate /\ r.cost = req[q].cost
      <3>1. passed # "out" /\ passed \in {"out", "tenant", "node", "execute", "unwind"}
        OBVIOUS
      <3>2. passed # "waittenant" /\ passed # "waitnode"
        OBVIOUS
      <3>3. Gone(q, passed) # NoRequest
        BY <1>1, <3>1, <3>2, GotoRecord DEF NoRequest
      <3> QED
        BY <1>1, <1>6, <3>1, <3>2, <3>3, GotoRecord
    <2>2. g \in Gates /\ sem[g] \in Semaphores /\ q \notin Range(sem[g].waiters)
      BY <1>1, <1>2, <1>3, <1>6
    <2>3. /\ s \in Semaphores /\ s.budget = sem[g].budget /\ s.waiters = sem[g].waiters
          /\ s.cur = sem[g].cur + req[q].cost
      BY <1>2, <2>2 DEF Semaphores
    <2>4. Moves(q, g, s, r)
      BY <1>6, <2>1, <2>2 DEF Moves
    <2> HIDE DEF r, s
    <2>5. s.cur <= s.budget
      BY <1>6, <2>3 DEF Fits
    <2>6. Sum(Granted(q, g, s)) = 0
      <3>1. Granted(q, g, s) = {}
        BY <2>3 DEF Granted
      <3> QED
        BY <3>1, SumNone, Zenon
    <2>7. ~HeldBy(req[q], q \in Range(sem[g].waiters), g) /\ HeldBy(r, q \in Range(s.waiters), g)
      BY <1>1, <1>6, <2>1 DEF HeldBy, Charged
    <2>8. s.cur = sem[g].cur - Paid(q, req[q], sem[g], g) + Paid(q, r, s, g) + Sum(Granted(q, g, s))
      <3>1. Paid(q, req[q], sem[g], g) = 0 /\ Paid(q, r, s, g) = req[q].cost
        BY <2>1, <2>7 DEF Paid
      <3> QED
        BY <1>2, <2>2, <2>3, <2>6, <3>1 DEF Semaphores
    <2>9. \A h \in Gates : h # g => (HeldBy(r, FALSE, h) <=> HeldBy(req[q], FALSE, h))
      BY <2>1 DEF HeldBy
    <2>10. Distinct(s.waiters) /\ Range(s.waiters) \ {q} \subseteq Range(sem[g].waiters) /\ q \notin Range(s.waiters)
      BY <2>2, <2>3 DEF IInv, QueueInv
    <2> QED
      BY <1>1, <2>1, <2>2, <2>3, <2>4, <2>5, <2>8, <2>9, <2>10, MoveStep
  <1>7. CASE /\ Charged(q, g) /\ sem' = [sem EXCEPT ![g].waiters = Append(@, q)]
             /\ Goto(q, waiting)
    <2> DEFINE r == Gone(q, waiting)
               s == [sem[g] EXCEPT !.waiters = Append(@, q)]
    <2>1. /\ r \in Requests /\ Sound(r) /\ r.at = waiting /\ req' = [req EXCEPT ![q] = r]
          /\ r.tenant = req[q].tenant /\ r.gate = req[q].gate /\ r.cost = req[q].cost
      <3>1. waiting # "out" /\ waiting \in Waiting
        BY DEF Waiting
      <3>2. waiting = "waittenant" => req[q].gate # NoGate
        BY <1>7 DEF Charged
      <3>4. req[q].cost > 0
        BY <1>7 DEF Charged
      <3>3. Gone(q, waiting) # NoRequest
        BY <1>1, <3>1, <3>2, <3>4, GotoRecord DEF NoRequest
      <3> QED
        BY <1>1, <1>7, <3>1, <3>2, <3>3, <3>4, GotoRecord
    <2>2. g \in Gates /\ sem[g] \in Semaphores /\ q \notin Range(sem[g].waiters)
      BY <1>1, <1>2, <1>3, <1>7
    <2>3. Distinct(sem[g].waiters) /\ sem[g].waiters \in Seq(Queries) /\ sem[g].cur <= sem[g].budget
      BY <2>2 DEF IInv, QueueInv, AccountInv, Semaphores
    <2>4. /\ Append(sem[g].waiters, q) \in Seq(Queries) /\ Distinct(Append(sem[g].waiters, q))
          /\ Range(Append(sem[g].waiters, q)) = Range(sem[g].waiters) \cup {q}
      BY <2>2, <2>3, QueueJoined
    <2>5. /\ s \in Semaphores /\ s.budget = sem[g].budget /\ s.waiters = Append(sem[g].waiters, q)
          /\ s.cur = sem[g].cur
      BY <2>2, <2>4 DEF Semaphores
    <2>6. Moves(q, g, s, r)
      BY <1>7, <2>1, <2>2 DEF Moves
    <2> HIDE DEF r, s
    <2>7. Range(s.waiters) = Range(sem[g].waiters) \cup {q}
      BY <2>4, <2>5
    <2>8. Sum(Granted(q, g, s)) = 0
      <3>1. Granted(q, g, s) = {}
        BY <2>7 DEF Granted
      <3> QED
        BY <3>1, SumNone, Zenon
    <2>9. ~HeldBy(req[q], q \in Range(sem[g].waiters), g) /\ ~HeldBy(r, q \in Range(s.waiters), g)
      BY <1>1, <2>1, <2>7 DEF HeldBy
    <2>10. s.cur = sem[g].cur - Paid(q, req[q], sem[g], g) + Paid(q, r, s, g) + Sum(Granted(q, g, s))
      <3>1. Paid(q, req[q], sem[g], g) = 0 /\ Paid(q, r, s, g) = 0
        BY <2>9 DEF Paid
      <3> QED
        BY <2>2, <2>5, <2>8, <3>1 DEF Semaphores
    <2>11. \A h \in Gates : h # g => (HeldBy(r, FALSE, h) <=> HeldBy(req[q], FALSE, h))
      BY <2>1 DEF HeldBy
    <2>12. Distinct(s.waiters) /\ Range(s.waiters) \ {q} \subseteq Range(sem[g].waiters) /\ s.cur <= s.budget
      BY <2>3, <2>4, <2>5, <2>7
    <2>13. (r.at = "waittenant" /\ g = r.gate) \/ (r.at = "waitnode" /\ g = NodeGate)
      BY <2>1
    <2> QED
      BY <1>1, <2>1, <2>2, <2>5, <2>6, <2>10, <2>11, <2>12, <2>13, MoveStep
  <1> QED
    BY <1>4, <1>5, <1>6, <1>7 DEF Acquire

\* A release at a gate the request holds.
LEMMA ReleaseStep ==
    ASSUME IInv, NEW q \in Queries, NEW g \in Gates, NEW r \in Requests,
           req' = [req EXCEPT ![q] = r],
           sem' = [sem EXCEPT ![g] = Release(@, req[q].cost)], Registry, Sound(r),
           req[q].at \in Waiting => GateOf(q) = g,
           \/ r = NoRequest
           \/ req[q].at # "out" /\ r.tenant = req[q].tenant /\ r.gate = req[q].gate,
           r.cost = req[q].cost \/ r.at = "out",
           q \notin Range(sem[g].waiters), HeldBy(req[q], FALSE, g), ~HeldBy(r, FALSE, g),
           \A h \in Gates : h # g => (HeldBy(r, FALSE, h) <=> HeldBy(req[q], FALSE, h))
    PROVE  IInv'
  <1> DEFINE u == [sem[g] EXCEPT !.cur = @ - req[q].cost]
  <1>1. sem \in [Gates -> Semaphores] /\ sem[g] \in Semaphores /\ req[q].cost \in Nat /\ Distinct(sem[g].waiters)
    BY DEF IInv, TypeInv, Requests, QueueInv
  <1>2. HeldBy(req[q], q \in Range(sem[g].waiters), g)
    BY DEF HeldBy
  <1>3. req[q].cost <= sem[g].cur
    BY <1>2, AboutRequest
  <1>4. /\ u \in Semaphores /\ u.budget = sem[g].budget /\ u.waiters = sem[g].waiters
        /\ u.cur = sem[g].cur - req[q].cost
    <2>1. sem[g].cur \in Nat
      BY <1>1 DEF Semaphores
    <2>2. sem[g].cur - req[q].cost \in Nat
      BY <1>1, <1>3, <2>1
    <2> QED
      BY ONLY <1>1, <2>2 DEF Semaphores
  <1>5. Moves(q, g, Notify(u), r)
    BY <1>1 DEF Moves, Release
  <1> HIDE DEF u
  <1>6. u.cur = sem[g].cur - Paid(q, req[q], sem[g], g)
    BY <1>2, <1>4 DEF Paid
  <1>7. Range(u.waiters) = Range(sem[g].waiters) \ {q} /\ Distinct(u.waiters)
    BY <1>1, <1>4
  <1> QED
    BY <1>4, <1>5, <1>6, <1>7, GiveBackStep

LEMMA ReleaseNodeStep ==
    ASSUME IInv, NEW q \in Queries, ReleaseNode(q)
    PROVE  IInv'
  <1> DEFINE r == [req[q] EXCEPT !.at = "unwind", !.work = 0]
  <1>1. /\ req[q].at = "run" /\ Registry /\ req[q].at \notin Waiting /\ req[q] \in Requests
        /\ req[q].gate # NodeGate /\ NodeGate \in Gates /\ req[q].cost \in Nat
        /\ q \notin Range(sem[NodeGate].waiters)
    BY AboutRequest, GatesApart DEF ReleaseNode, Waiting, Requests
  <1>2. req' = [req EXCEPT ![q] = r]
    BY <1>1 DEF ReleaseNode, IInv, TypeInv
  <1>3. /\ r \in Requests /\ r.at = "unwind" /\ r.work = 0
        /\ r.tenant = req[q].tenant /\ r.gate = req[q].gate /\ r.cost = req[q].cost
    BY <1>1 DEF Requests
  <1> HIDE DEF r
  <1>4. Sound(r)
    BY <1>3 DEF Sound
  <1>5. CASE Charged(q, NodeGate)
    <2>1. sem' = [sem EXCEPT ![NodeGate] = Release(@, req[q].cost)]
      BY <1>5 DEF ReleaseNode
    <2>2. /\ HeldBy(req[q], FALSE, NodeGate) /\ ~HeldBy(r, FALSE, NodeGate)
          /\ \A h \in Gates : h # NodeGate => (HeldBy(r, FALSE, h) <=> HeldBy(req[q], FALSE, h))
      BY <1>1, <1>3, <1>5 DEF HeldBy, Charged
    <2> QED
      BY <1>1, <1>2, <1>3, <1>4, <2>1, <2>2, ReleaseStep
  <1>6. CASE ~Charged(q, NodeGate)
    <2>1. sem' = sem
      BY <1>6 DEF ReleaseNode
    <2>2. \A h \in Gates : HeldBy(r, FALSE, h) <=> HeldBy(req[q], FALSE, h)
      BY <1>3, <1>6, GatesApart DEF HeldBy, Charged
    <2> QED
      BY <1>1, <1>2, <1>3, <1>4, <2>1, <2>2, StillStep
  <1> QED
    BY <1>5, <1>6

LEMMA ReleaseTenantStep ==
    ASSUME IInv, NEW q \in Queries, ReleaseTenant(q)
    PROVE  IInv'
  <1> DEFINE r == NoRequest
             g == req[q].gate
  <1>1. /\ req[q].at = "unwind" /\ Registry /\ req[q].at \notin Waiting /\ req[q] \in Requests
        /\ req[q].gate # NodeGate /\ req[q].cost \in Nat
        /\ req[q].gate # NoGate => req[q].gate \in Gates /\ q \notin Range(sem[req[q].gate].waiters)
    BY AboutRequest DEF ReleaseTenant, Waiting, Requests
  <1>2. req' = [req EXCEPT ![q] = r]
    BY DEF ReleaseTenant, Goto
  <1>3. r \in Requests /\ Sound(r) /\ r.at = "out" /\ r = NoRequest /\ \A h : ~HeldBy(r, FALSE, h)
    BY NoRequestType DEF NoRequest, HeldBy
  <1> HIDE DEF r
  <1>5. CASE Charged(q, g)
    <2>1. sem' = [sem EXCEPT ![g] = Release(@, req[q].cost)] /\ g \in Gates
      BY <1>1, <1>5 DEF ReleaseTenant, Charged
    <2>2. /\ HeldBy(req[q], FALSE, g) /\ ~HeldBy(r, FALSE, g)
          /\ \A h \in Gates : h # g => (HeldBy(r, FALSE, h) <=> HeldBy(req[q], FALSE, h))
      BY <1>1, <1>3, <1>5 DEF HeldBy, Charged
    <2>3. q \notin Range(sem[g].waiters)
      BY <1>1, <1>5 DEF Charged
    <2> HIDE DEF g
    <2> QED
      BY <1>1, <1>2, <1>3, <2>1, <2>2, <2>3, ReleaseStep
  <1>6. CASE ~Charged(q, g)
    <2>1. sem' = sem
      BY <1>6 DEF ReleaseTenant
    <2>2. \A h \in Gates : HeldBy(r, FALSE, h) <=> HeldBy(req[q], FALSE, h)
      BY <1>1, <1>3, <1>6, GatesApart DEF HeldBy, Charged
    <2> QED
      BY <1>1, <1>2, <1>3, <2>1, <2>2, StillStep
  <1> QED
    BY <1>5, <1>6

LEMMA TimeoutStep ==
    ASSUME IInv, NEW q \in Queries, Timeout(q)
    PROVE  IInv'
  <1> DEFINE where == IF req[q].at = "waittenant" THEN "out" ELSE "unwind"
             r == Gone(q, where)
             g == GateOf(q)
  <1>1. /\ req[q].at \in {"waittenant", "waitnode"} /\ Goto(q, where) /\ Registry
        /\ sem' = [sem EXCEPT ![g] = Cancel(@, q)]
        /\ req[q].at \in Waiting /\ req[q].at # "out" /\ req[q].at # "run"
        /\ where \in {"out", "unwind"}
    BY DEF Timeout, Waiting
  <1>2. /\ req[q] \in Requests /\ req[q].gate # NodeGate /\ g \in Gates /\ req[q].cost \in Nat
        /\ req[q].cost > 0
        /\ g = IF req[q].at = "waittenant" THEN req[q].gate ELSE NodeGate
    BY <1>1, AboutRequest DEF Requests, Sound, GateOf
  <1>3. /\ r \in Requests /\ Sound(r) /\ r.at = where /\ req' = [req EXCEPT ![q] = r]
        /\ \/ r = NoRequest
           \/ req[q].at # "out" /\ r.tenant = req[q].tenant /\ r.gate = req[q].gate
        /\ r.cost = req[q].cost \/ r.at = "out"
        /\ where # "out" => r.gate = req[q].gate /\ r.cost = req[q].cost
    <2> HIDE DEF where
    <2> QED
      BY <1>1, GotoRecord
  <1>4. /\ HeldBy(req[q], FALSE, g) /\ ~HeldBy(req[q], TRUE, g) /\ ~HeldBy(r, FALSE, g)
        /\ \A h \in Gates : h # g => (HeldBy(r, FALSE, h) <=> HeldBy(req[q], FALSE, h))
    <2> HIDE DEF r, g
    <2> QED
      BY <1>1, <1>2, <1>3 DEF HeldBy
  <1>5. sem \in [Gates -> Semaphores] /\ sem[g] \in Semaphores /\ Distinct(sem[g].waiters)
    BY <1>2 DEF IInv, TypeInv, QueueInv
  <1>6. GateOf(q) = g
    OBVIOUS
  <1> HIDE DEF r, g, where
  <1>7. CASE q \in Range(sem[g].waiters)
    <2> DEFINE u == [sem[g] EXCEPT !.waiters = RemoveFirst(@, q)]
    <2>1. sem[g].waiters \in Seq(Queries) /\ sem[g].cur \in Nat
      BY <1>5 DEF Semaphores
    <2>2. /\ RemoveFirst(sem[g].waiters, q) \in Seq(Queries)
          /\ Distinct(RemoveFirst(sem[g].waiters, q))
          /\ Range(RemoveFirst(sem[g].waiters, q)) = Range(sem[g].waiters) \ {q}
      BY <1>5, <1>7, <2>1, QueueLeft
    <2>3. /\ u \in Semaphores /\ u.budget = sem[g].budget /\ u.waiters = RemoveFirst(sem[g].waiters, q)
          /\ u.cur = sem[g].cur
      BY ONLY <1>5, <2>2 DEF Semaphores
    <2>4. Moves(q, g, Notify(u), r)
      BY <1>1, <1>3, <1>5, <1>7 DEF Moves, Cancel
    <2> HIDE DEF u
    <2>5. ~HeldBy(req[q], q \in Range(sem[g].waiters), g)
      BY <1>4, <1>7 DEF HeldBy
    <2>6. u.cur = sem[g].cur - Paid(q, req[q], sem[g], g)
      BY <2>1, <2>3, <2>5 DEF Paid
    <2>7. Distinct(u.waiters) /\ Range(u.waiters) = Range(sem[g].waiters) \ {q}
      BY <2>2, <2>3
    <2> QED
      BY <1>2, <1>3, <1>4, <1>6, <2>3, <2>4, <2>6, <2>7, GiveBackStep
  <1>8. CASE q \notin Range(sem[g].waiters)
    <2>1. sem' = [sem EXCEPT ![g] = Release(@, req[q].cost)]
      BY <1>1, <1>8 DEF Cancel
    <2> QED
      BY <1>1, <1>2, <1>3, <1>4, <1>6, <1>8, <2>1, ReleaseStep
  <1> QED
    BY <1>7, <1>8

-----------------------------------------------------------------------------
(* A reload of the tenants file, and a mutation.                           *)

LEMMA SetTenantsStep ==
    ASSUME IInv, NEW new \in [Tenants -> Quotas], SetTenants(new)
    PROVE  IInv'
  <1> DEFINE fresh(t) == ~Keeps(t, new) /\ new[t] > 0
             renewed(h) == h[1] \in Tenants /\ h = gate'[h[1]] /\ fresh(h[1])
  <1>1. /\ \A t \in Tenants : fresh(t) => made[t] < MaxMade
        /\ quota' = new /\ UNCHANGED <<size, req>>
        /\ made' = [t \in Tenants |-> made[t] + IF fresh(t) THEN 1 ELSE 0]
        /\ gate' = [t \in Tenants |-> IF Keeps(t, new) THEN gate[t]
                                      ELSE IF fresh(t) THEN <<t, made[t] + 1>> ELSE NoGate]
        /\ sem' = [h \in Gates |-> IF renewed(h) THEN [Free EXCEPT !.budget = new[h[1]]] ELSE sem[h]]
        /\ settled' = [t \in Tenants |-> InFlight(t) = {} \/ (settled[t] /\ new[t] = quota[t])]
    BY DEF SetTenants
  <1>2. /\ TypeInv /\ RegistryInv /\ RequestInv /\ QueueInv /\ AccountInv
        /\ \A t \in Tenants : made[t] \in 0 .. MaxMade /\ new[t] \in Nat /\ quota[t] \in Nat
        /\ MaxMade \in Nat
    BY AdmissionAssumption DEF IInv, TypeInv
  \* A new admitter is one no request has seen.
  <1>3. ASSUME NEW h \in Gates, renewed(h), NEW q \in Queries
        PROVE  req[q].gate # h /\ h # NodeGate
    <2>1. h = <<h[1], made[h[1]] + 1>> /\ h[1] \in Tenants
      BY <1>1, <1>3
    <2>2. RequestOK(q)
      BY <1>2 DEF RequestInv
    <2>3. h # NodeGate
      BY <2>1, AdmissionAssumption DEF NodeGate
    <2>4. CASE req[q].gate = NoGate
      BY <2>3, <2>4, GatesApart
    <2>5. CASE req[q].gate # NoGate
      <3>1. req[q].tenant \in Tenants /\ req[q].gate \in {req[q].tenant} \X (1 .. made[req[q].tenant])
        BY <2>2, <2>5 DEF RequestOK
      <3>2. ASSUME req[q].gate = h PROVE FALSE
        <4>1. req[q].tenant = h[1] /\ h[2] \in 1 .. made[h[1]] /\ h[2] = made[h[1]] + 1
          BY <2>1, <3>1, <3>2
        <4> QED
          BY <1>2, <2>1, <4>1
      <3> QED
        BY <2>3, <3>2
    <2> QED
      BY <2>4, <2>5
  <1> HIDE DEF renewed
  <1>4. ASSUME NEW h \in Gates, renewed(h)
        PROVE  /\ sem'[h].budget = new[h[1]] /\ sem'[h].cur = 0 /\ sem'[h].waiters = <<>>
               /\ sem'[h] \in Semaphores
    <2>1. h[1] \in Tenants /\ new[h[1]] \in Nat
      BY <1>2, <1>4 DEF renewed
    <2>2. sem'[h] = [Free EXCEPT !.budget = new[h[1]]]
      BY <1>1, <1>4
    <2>3. PICK b \in Nat : b = new[h[1]]
      BY <2>1
    <2>4. PICK f : f = [budget |-> b, cur |-> 0, waiters |-> <<>>]
      OBVIOUS
    <2>5. f \in Semaphores /\ f.budget = b /\ f.cur = 0 /\ f.waiters = <<>>
      BY ONLY <2>4, b \in Nat DEF Semaphores
    <2>6. [Free EXCEPT !.budget = b] = f
      BY ONLY <2>4 DEF Free
    <2> QED
      BY ONLY <2>1, <2>2, <2>3, <2>5, <2>6
  <1>5. ASSUME NEW h \in Gates, ~renewed(h) PROVE sem'[h] = sem[h]
    BY <1>1, <1>5
  <1>6. TypeInv'
    <2>1. quota' \in [Tenants -> Quotas] /\ size' \in Charges /\ req' \in [Queries -> Requests]
      BY <1>1, <1>2 DEF TypeInv
    <2>2. made' \in [Tenants -> 0 .. MaxMade]
      <3>1. \A t \in Tenants : made[t] + (IF fresh(t) THEN 1 ELSE 0) \in 0 .. MaxMade
        BY <1>1, <1>2
      <3> QED
        BY <1>1, <3>1
    <2>3. gate' \in [Tenants -> Gates \cup {NoGate}]
      <3>1. ASSUME NEW t \in Tenants, fresh(t) PROVE <<t, made[t] + 1>> \in Gates
        BY <1>1, <1>2, <3>1, GatesApart
      <3>2. \A t \in Tenants : gate[t] \in Gates \cup {NoGate}
        BY <1>2 DEF TypeInv
      <3> QED
        BY <1>1, <3>1, <3>2
    <2>4. sem' \in [Gates -> Semaphores]
      <3>1. \A h \in Gates : sem'[h] \in Semaphores
        BY <1>2, <1>4, <1>5 DEF TypeInv
      <3> QED
        BY <1>1, <3>1
    <2>5. settled' \in [Tenants -> BOOLEAN]
      BY <1>1
    <2> QED
      BY <2>1, <2>2, <2>3, <2>4, <2>5 DEF TypeInv
  <1>7. RegistryInv'
    <2> SUFFICES ASSUME NEW t \in Tenants
                 PROVE  /\ gate'[t] = IF quota'[t] > 0 THEN <<t, made'[t]>> ELSE NoGate
                        /\ quota'[t] > 0 => made'[t] > 0 /\ sem'[gate'[t]].budget = quota'[t]
                        /\ settled'[t] => \A p \in InFlight(t)' : req'[p].gate = gate'[t]
      BY DEF RegistryInv
    <2>1. /\ gate[t] = IF quota[t] > 0 THEN <<t, made[t]>> ELSE NoGate
          /\ quota[t] > 0 => made[t] > 0 /\ sem[gate[t]].budget = quota[t]
          /\ settled[t] => \A q \in InFlight(t) : req[q].gate = gate[t]
      BY <1>2 DEF RegistryInv
    <2>2. InFlight(t)' = InFlight(t)
      BY <1>1 DEF InFlight
    <2>3. quota'[t] = new[t] /\ made'[t] = made[t] + (IF fresh(t) THEN 1 ELSE 0)
      BY <1>1
    <2>4. CASE Keeps(t, new)
      <3>1. gate'[t] = gate[t] /\ made'[t] = made[t] /\ new[t] = quota[t]
        BY <1>1, <1>2, <2>4 DEF Keeps
      <3>2. quota[t] > 0 => gate[t] \in Gates /\ gate[t][1] = t
        BY <1>2, <2>1, GatesApart
      <3>3. quota[t] > 0 => ~renewed(gate[t])
        BY <2>4, <3>2 DEF renewed
      <3>4. quota[t] > 0 => sem'[gate[t]] = sem[gate[t]]
        BY <1>5, <3>2, <3>3
      <3>5. ASSUME settled'[t], NEW p \in InFlight(t)' PROVE req'[p].gate = gate'[t]
        <4>1. p \in InFlight(t) /\ settled[t]
          BY <1>1, <2>2, <3>5
        <4> QED
          BY <1>1, <2>1, <3>1, <4>1
      <3> QED
        BY <2>1, <2>3, <3>1, <3>4, <3>5
    <2>5. CASE ~Keeps(t, new)
      <3>1. settled'[t] => InFlight(t) = {}
        BY <1>1, <2>5 DEF Keeps
      <3>2. CASE new[t] > 0
        <4>1. gate'[t] = <<t, made[t] + 1>> /\ made'[t] = made[t] + 1 /\ fresh(t)
          BY <1>1, <2>5, <3>2
        <4>2. gate'[t] \in Gates
          BY <1>1, <1>2, <4>1, GatesApart
        <4>3. renewed(gate'[t]) /\ gate'[t][1] = t
          BY <4>1 DEF renewed
        <4>4. sem'[gate'[t]].budget = new[t]
          BY <1>4, <4>2, <4>3
        <4> QED
          BY <1>2, <2>2, <2>3, <3>1, <3>2, <4>1, <4>4
      <3>3. CASE ~(new[t] > 0)
        <4>1. gate'[t] = NoGate
          BY <1>1, <2>5, <3>3
        <4> QED
          BY <2>2, <2>3, <3>1, <3>3, <4>1
      <3> QED
        BY <3>2, <3>3
    <2> QED
      BY <2>4, <2>5
  <1>8. RequestInv'
    <2> SUFFICES ASSUME NEW q \in Queries PROVE RequestOK(q)'
      BY DEF RequestInv
    <2>1. RequestOK(q) /\ req'[q] = req[q]
      BY <1>1, <1>2 DEF RequestInv
    <2>2. \A t \in Tenants : made'[t] \in Nat /\ made[t] \in Nat /\ made[t] <= made'[t]
      BY <1>1, <1>2
    <2>3. \A t \in Tenants : 1 .. made[t] \subseteq 1 .. made'[t]
      BY <2>2
    <2> QED
      BY <2>1, <2>3 DEF RequestOK, Charged, GateOf
  <1>9. QueueInv'
    <2> SUFFICES ASSUME NEW h \in Gates
                 PROVE  /\ Distinct(sem'[h].waiters)
                        /\ \A p \in Range(sem'[h].waiters) : req'[p].at \in Waiting /\ GateOf(p)' = h
      BY DEF QueueInv
    <2>1. CASE renewed(h)
      <3>1. sem'[h].waiters = <<>>
        BY <1>4, <2>1
      <3> QED
        BY <3>1 DEF Distinct, Range
    <2>2. CASE ~renewed(h)
      <3>1. /\ Distinct(sem[h].waiters)
            /\ \A p \in Range(sem[h].waiters) : req[p].at \in Waiting /\ GateOf(p) = h
        BY <1>2 DEF QueueInv
      <3> QED
        BY <1>1, <1>5, <2>2, <3>1 DEF GateOf
    <2> QED
      BY <2>1, <2>2
  <1>10. AccountInv'
    <2>1. ASSUME NEW h \in Gates PROVE sem'[h].cur = Sum(Holders(h))' /\ sem'[h].cur <= sem'[h].budget
      <3>1. CASE renewed(h)
        <4>1. ASSUME NEW q \in Queries PROVE ~Holds(q, h)'
          <5>1. req'[q].gate # h /\ h # NodeGate
            BY <1>1, <1>3, <3>1
          <5> QED
            BY <5>1 DEF Holds, GateOf
        <4>2. Holders(h)' = {}
          BY <4>1 DEF Holders
        <4>3. Sum(Holders(h))' = 0
          BY <4>2, SumEmpty, Zenon DEF Sum
        <4> QED
          BY <1>4, <3>1, <4>3 DEF Semaphores
      <3>2. CASE ~renewed(h)
        <4>1. sem'[h] = sem[h] /\ req' = req
          BY <1>1, <1>5, <3>2
        <4>2. \A q \in Queries : Holds(q, h)' <=> Holds(q, h)
          BY <4>1 DEF Holds, Charged, GateOf
        <4>3. Holders(h)' = Holders(h) /\ Costs' = Costs
          BY <4>1, <4>2 DEF Holders, Costs
        <4>4. Sum(Holders(h))' = Sum(Holders(h))
          BY <4>3, Zenon DEF Sum
        <4> QED
          BY <1>2, <4>1, <4>4 DEF AccountInv
      <3> QED
        BY <3>1, <3>2
    <2>2. sem'[NodeGate].budget = NodeBudget
      <3>1. ~renewed(NodeGate)
        BY AdmissionAssumption DEF renewed, NodeGate
      <3> QED
        BY <1>2, <1>5, <3>1, GatesApart DEF AccountInv
    <2> QED
      BY <2>1, <2>2 DEF AccountInv
  <1> QED
    BY <1>6, <1>7, <1>8, <1>9, <1>10 DEF IInv

LEMMA MutateStep ==
    ASSUME IInv, quota' = quota, gate' = gate, made' = made, sem' = sem, size' \in Charges,
           req' = req, settled' = settled
    PROVE  IInv'
  <1>1. TypeInv'
    BY DEF IInv, TypeInv
  <1>2. RegistryInv'
    <2>1. \A t \in Tenants : InFlight(t)' = InFlight(t)
      BY DEF InFlight
    <2> QED
      BY <2>1 DEF IInv, RegistryInv
  <1>3. RequestInv'
    BY DEF IInv, RequestInv, RequestOK, Charged, GateOf
  <1>4. QueueInv'
    BY DEF IInv, QueueInv, GateOf
  <1>5. AccountInv'
    <2>1. ASSUME NEW h \in Gates PROVE sem'[h].cur = Sum(Holders(h))' /\ sem'[h].cur <= sem'[h].budget
      <3>1. \A q \in Queries : Holds(q, h)' <=> Holds(q, h)
        BY DEF Holds, Charged, GateOf
      <3>2. Holders(h)' = Holders(h) /\ Costs' = Costs
        BY <3>1 DEF Holders, Costs
      <3>3. Sum(Holders(h))' = Sum(Holders(h))
        BY <3>2, Zenon DEF Sum
      <3> QED
        BY <3>3 DEF IInv, AccountInv
    <2> QED
      BY <2>1 DEF IInv, AccountInv
  <1> QED
    BY <1>1, <1>2, <1>3, <1>4, <1>5 DEF IInv

LEMMA AdmissionInit == Init => IInv
  <1> SUFFICES ASSUME Init PROVE IInv
    OBVIOUS
  <1> DEFINE share(h) == IF h = NodeGate THEN NodeBudget ELSE IF h[2] = 1 THEN quota[h[1]] ELSE 0
  <1>1. /\ quota \in [Tenants -> Quotas] /\ size \in Charges
        /\ made = [t \in Tenants |-> IF quota[t] > 0 THEN 1 ELSE 0]
        /\ gate = [t \in Tenants |-> IF quota[t] > 0 THEN <<t, 1>> ELSE NoGate]
        /\ sem = [h \in Gates |-> [Free EXCEPT !.budget = share(h)]]
        /\ req = [q \in Queries |-> NoRequest]
        /\ settled = [t \in Tenants |-> TRUE]
    BY DEF Init
  <1>2. NodeBudget \in Nat /\ MaxMade \in Nat /\ MaxMade > 0 /\ \A t \in Tenants : quota[t] \in Nat
    BY <1>1, AdmissionAssumption
  <1>3. ASSUME NEW h \in Gates PROVE share(h) \in Nat
    BY <1>2 DEF Gates
  <1>4. ASSUME NEW h \in Gates
        PROVE  /\ sem[h].budget = share(h) /\ sem[h].cur = 0 /\ sem[h].waiters = <<>>
               /\ sem[h] \in Semaphores
    <2>1. sem[h] = [Free EXCEPT !.budget = share(h)]
      BY <1>1
    <2>2. share(h) \in Nat
      BY <1>3
    <2> HIDE DEF share
    <2>3. PICK b \in Nat : b = share(h)
      BY <2>2
    <2>4. PICK f : f = [budget |-> b, cur |-> 0, waiters |-> <<>>]
      OBVIOUS
    <2>5. f \in Semaphores /\ f.budget = b /\ f.cur = 0 /\ f.waiters = <<>>
      BY ONLY <2>4, b \in Nat DEF Semaphores
    <2>6. [Free EXCEPT !.budget = b] = f
      BY ONLY <2>4 DEF Free
    <2> QED
      BY ONLY <2>1, <2>2, <2>3, <2>5, <2>6
  <1>5. \A q \in Queries : req[q] = NoRequest
    BY <1>1
  <1>6. TypeInv
    <2>1. gate \in [Tenants -> Gates \cup {NoGate}] /\ made \in [Tenants -> 0 .. MaxMade]
      BY <1>1, <1>2, GatesApart
    <2>2. sem \in [Gates -> Semaphores]
      BY <1>1, <1>4
    <2>3. req \in [Queries -> Requests] /\ settled \in [Tenants -> BOOLEAN]
      BY <1>1, NoRequestType
    <2> QED
      BY <1>1, <2>1, <2>2, <2>3 DEF TypeInv
  <1>7. RegistryInv
    <2> SUFFICES ASSUME NEW t \in Tenants
                 PROVE  /\ gate[t] = IF quota[t] > 0 THEN <<t, made[t]>> ELSE NoGate
                        /\ quota[t] > 0 => made[t] > 0 /\ sem[gate[t]].budget = quota[t]
                        /\ settled[t] => \A q \in InFlight(t) : req[q].gate = gate[t]
      BY DEF RegistryInv
    <2>1. InFlight(t) = {}
      BY <1>5 DEF InFlight, NoRequest
    <2>2. CASE quota[t] > 0
      <3>1. gate[t] = <<t, 1>> /\ made[t] = 1 /\ gate[t] \in Gates
        BY <1>1, <1>2, <2>2, GatesApart
      <3>2. share(gate[t]) = quota[t]
        BY <3>1, GatesApart
      <3> HIDE DEF share
      <3> QED
        BY <1>4, <2>1, <2>2, <3>1, <3>2
    <2>3. CASE ~(quota[t] > 0)
      BY <1>1, <2>1, <2>3
    <2> QED
      BY <2>2, <2>3
  <1>8. RequestInv
    BY <1>5 DEF RequestInv, RequestOK, NoRequest, Waiting
  <1>9. QueueInv
    <2>1. \A h \in Gates : Range(sem[h].waiters) = {} /\ Distinct(sem[h].waiters)
      BY <1>4 DEF Range, Distinct
    <2> QED
      BY <2>1 DEF QueueInv
  <1>10. AccountInv
    <2>1. ASSUME NEW h \in Gates PROVE sem[h].cur = Sum(Holders(h)) /\ sem[h].cur <= sem[h].budget
      <3>1. Holders(h) = {}
        BY <1>5 DEF Holders, Holds, Charged, NoRequest
      <3>2. Sum(Holders(h)) = 0
        BY <3>1, SumNone, Zenon
      <3> HIDE DEF share
      <3> QED
        BY <1>3, <1>4, <3>2
    <2>2. sem[NodeGate].budget = NodeBudget
      BY <1>4, GatesApart
    <2> QED
      BY <2>1, <2>2 DEF AccountInv
  <1> QED
    BY <1>6, <1>7, <1>8, <1>9, <1>10 DEF IInv

LEMMA AdmissionNext == IInv /\ [Next]_vars => IInv'
  <1> SUFFICES ASSUME IInv, [Next]_vars PROVE IInv'
    OBVIOUS
  <1>1. ASSUME NEW q \in Queries, NEW t \in Tenants, Arrive(q, t) PROVE IInv'
    BY <1>1, ArriveStep
  <1>2. ASSUME NEW q \in Queries, AcquireTenant(q) PROVE IInv'
    BY <1>2, AcquireStep DEF AcquireTenant
  <1>3. ASSUME NEW q \in Queries, AcquireNode(q) PROVE IInv'
    BY <1>3, AcquireStep DEF AcquireNode
  <1>4. ASSUME NEW q \in Queries, Wake(q) PROVE IInv'
    BY <1>4, WakeStep
  <1>5. ASSUME NEW q \in Queries, Execute(q) PROVE IInv'
    BY <1>5, ExecuteStep
  <1>6. ASSUME NEW q \in Queries, ReleaseNode(q) PROVE IInv'
    BY <1>6, ReleaseNodeStep
  <1>7. ASSUME NEW q \in Queries, ReleaseTenant(q) PROVE IInv'
    BY <1>7, ReleaseTenantStep
  <1>8. ASSUME NEW q \in Queries, Timeout(q) PROVE IInv'
    BY <1>8, TimeoutStep
  <1>9. ASSUME NEW q \in Queries, TooLate(q) PROVE IInv'
    BY <1>9, TooLateStep
  <1>10. ASSUME NEW new \in [Tenants -> Quotas], SetTenants(new) PROVE IInv'
    BY <1>10, SetTenantsStep
  <1>11. CASE Mutate
    BY <1>11, MutateStep DEF Mutate
  <1>12. CASE UNCHANGED vars
    BY <1>12, MutateStep DEF vars, IInv, TypeInv
  <1> QED
    BY <1>1, <1>2, <1>3, <1>4, <1>5, <1>6, <1>7, <1>8, <1>9, <1>10, <1>11, <1>12 DEF Next, Serve

LEMMA AdmissionInvariant == Spec => []IInv
  BY AdmissionInit, AdmissionNext, PTL DEF Spec

-----------------------------------------------------------------------------
(* What follows from it.                                                   *)

\* A request always is in a known phase, at a gate that exists, and a gate's
\* account never goes below zero: no path of runQuery releases twice.
THEOREM AdmissionTypeCorrect == Spec => []TypeOK
  <1>1. IInv => TypeOK
    <2> SUFFICES ASSUME IInv PROVE TypeOK
      OBVIOUS
    <2>1. TypeInv
      BY DEF IInv
    <2>2. \A t \in Tenants : gate[t] \in Gates \cup {NoGate} /\ made[t] \in 0 .. MaxMade
      BY <2>1 DEF TypeInv
    <2>3. \A g \in Gates : /\ sem[g].budget \in Nat /\ sem[g].cur \in Nat
                           /\ sem[g].waiters \in Seq(Queries)
      BY <2>1 DEF TypeInv, Semaphores
    <2>4. \A q \in Queries : req[q] \in Requests
      BY <2>1 DEF TypeInv
    <2> QED
      BY <2>1, <2>2, <2>3, <2>4 DEF TypeInv, TypeOK, Requests
  <1> QED
    BY <1>1, AdmissionInvariant, PTL

\* The work of the queries that run stays within Config.QueryMemBudget, for
\* every number of tenants and requests and every charge, whatever mutations
\* and reloads landed while they queued; and every admitter's account counts
\* exactly what requests that still have to release it hold.
THEOREM CeilingTheorem == Spec => []BudgetIsCeiling
  <1>1. IInv => BudgetIsCeiling
    <2> SUFFICES ASSUME IInv PROVE BudgetIsCeiling
      OBVIOUS
    <2> DEFINE H == Holders(NodeGate)
    <2>1. H \in SUBSET Queries /\ IsFiniteSet(H) /\ IsFiniteSet(Queries)
      BY SubsetsFinite DEF Holders
    <2>2. \A q \in Queries : Costs[q] \in Nat /\ Costs[q] = req[q].cost
      BY CostsType DEF IInv
    <2>3. \A q \in Queries : Work[q] \in Nat /\ Work[q] = req[q].work
      BY DEF IInv, TypeInv, Requests, Work
    <2>4. ASSUME NEW q \in Queries, Work[q] > 0 PROVE q \in H /\ Work[q] <= Costs[q]
      <3>1. req[q].at = "run" /\ req[q].work = req[q].cost /\ req[q].cost > 0
        BY <2>3, <2>4 DEF IInv, RequestInv, RequestOK
      <3>2. req[q].at \notin Waiting
        BY <3>1 DEF Waiting
      <3>3. Holds(q, NodeGate)
        BY <3>1, <3>2, GatesApart DEF Holds, Charged
      <3> QED
        BY <2>2, <2>3, <3>1, <3>3 DEF Holders
    <2> HIDE DEF H
    <2>5. SumFunctionOnSet(Work, Queries) <= SumFunctionOnSet(Costs, H)
      BY <2>1, <2>2, <2>3, <2>4, SumBelow
    <2>6. SumFunctionOnSet(Work, Queries) \in Nat
      BY <2>1, <2>3, SumNat
    <2>7. sem[NodeGate].cur = SumFunctionOnSet(Costs, H) /\ sem[NodeGate].cur <= NodeBudget
      BY GatesApart DEF IInv, AccountInv, H, Sum
    <2>8. sem[NodeGate].cur \in Nat /\ NodeBudget \in Nat
      BY GatesApart, AdmissionAssumption DEF IInv, TypeInv, Semaphores
    <2>9. SumFunctionOnSet(Work, Queries) <= NodeBudget
      BY <2>5, <2>6, <2>7, <2>8
    <2>10. \A g \in Gates : sem[g].cur = Sum({q \in Queries : Holds(q, g)})
      BY DEF IInv, AccountInv, Holders
    <2> QED
      BY <2>9, <2>10 DEF BudgetIsCeiling
  <1> QED
    BY <1>1, AdmissionInvariant, PTL

\* A tenant's queries never hold of the node's budget, or queue there for,
\* more than the tenant's own quota, for every number of tenants and requests.
THEOREM IsolationTheorem == Spec => []TenantIsolation
  <1>1. IInv => TenantIsolation
    <2> SUFFICES ASSUME IInv, NEW t \in Tenants, settled[t], quota[t] > 0
                 PROVE  Sum({q \in InFlight(t) : req[q].at \in {"node", "waitnode", "execute", "run"}})
                            <= quota[t]
      BY DEF TenantIsolation
    <2> DEFINE T == {q \in InFlight(t) : req[q].at \in {"node", "waitnode", "execute", "run"}}
               H == Holders(gate[t])
    <2>1. gate[t] \in Gates /\ gate[t] # NodeGate /\ sem[gate[t]].budget = quota[t]
      BY GatesApart DEF IInv, RegistryInv, TypeInv
    <2>2. T \in SUBSET Queries /\ H \in SUBSET Queries
      BY DEF InFlight, Holders
    <2>3. IsFiniteSet(T) /\ IsFiniteSet(H)
      BY <2>2, SubsetsFinite
    <2>4. \A q \in Queries : Costs[q] \in Nat /\ Costs[q] = req[q].cost
      BY CostsType DEF IInv
    <2>5. ASSUME NEW q \in T, Costs[q] > 0 PROVE q \in H
      <3>1. q \in Queries /\ req[q].gate = gate[t] /\ req[q].at \in {"node", "waitnode", "execute", "run"}
        BY DEF IInv, RegistryInv, InFlight
      <3>2. Charged(q, gate[t])
        BY <2>1, <2>4, <2>5, <3>1, GatesApart DEF Charged
      <3>3. ~(req[q].at \in Waiting /\ gate[t] = GateOf(q))
        BY <2>1, <3>1 DEF Waiting, GateOf
      <3> QED
        BY <2>1, <3>1, <3>2, <3>3 DEF Holders, Holds
    <2> HIDE DEF T, H
    <2>6. SumFunctionOnSet(Costs, T) <= SumFunctionOnSet(Costs, H)
      BY <2>2, <2>3, <2>4, <2>5, SumBelow
    <2>7. Sum(T) \in Nat
      BY <2>2, SumType DEF IInv
    <2>8. sem[gate[t]].cur = Sum(H) /\ sem[gate[t]].cur <= sem[gate[t]].budget
      BY <2>1 DEF IInv, AccountInv, H
    <2>9. sem[gate[t]].cur \in Nat /\ quota[t] \in Nat
      BY <2>1, AdmissionAssumption DEF IInv, TypeInv, Semaphores
    <2>10. Sum(T) <= quota[t]
      BY <2>1, <2>6, <2>7, <2>8, <2>9 DEF Sum
    <2> QED
      BY <2>10 DEF T
  <1> QED
    BY <1>1, AdmissionInvariant, PTL
=============================================================================
