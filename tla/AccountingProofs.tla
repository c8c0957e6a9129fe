-------------------------- MODULE AccountingProofs --------------------------
(***************************************************************************)
(* Theorems about what Agent counts: no label set gets more than its due,  *)
(* the ledger balances, and the agent implements Accounting.               *)
(***************************************************************************)
EXTENDS AgentProofs, SequenceTheorems, WellFoundedInduction

-----------------------------------------------------------------------------
(* Sums.  A set of finite sets that is not empty has a minimal element: what *)
(* fails for some set fails for one whose proper subsets it holds for.       *)

LEMMA MinimalSet ==
    ASSUME NEW S, IsFiniteSet(S), NEW T, T \subseteq SUBSET S, T # {}
    PROVE  \E s \in T : IsFiniteSet(s) /\ \A t \in T : t \subseteq s => t = s
<1>1. IsWellFoundedOn(StrictSubsetOrdering(S), FiniteSubsetsOf(S))
  BY FS_StrictSubsetOrderingWellFounded
<1>2. T \subseteq FiniteSubsetsOf(S)
  BY FS_FiniteSubsetsOfFinite
<1>3. PICK s \in T : \A t \in T : ~(<<t, s>> \in StrictSubsetOrdering(S))
  BY <1>1, <1>2, WFMin
<1>4. \A t \in T : t \subseteq s => t = s
  BY <1>3 DEF StrictSubsetOrdering
<1> QED
  BY <1>2, <1>4 DEF FiniteSubsetsOf

LEMMA MinimalNat ==
    ASSUME NEW T, T \subseteq Nat, T # {}
    PROVE  \E n \in T : \A m \in T : n <= m
<1>1. PICK n \in T : \A m \in T : ~(<<m, n>> \in OpToRel(<, Nat))
  BY NatLessThanWellFounded, WFMin
<1>2. ASSUME NEW m \in T PROVE n <= m
  <2>1. ~(m < n)
    BY <1>1, <1>2 DEF OpToRel
  <2> QED
    BY <2>1
<1> QED
  BY <1>2

Pick(s) == CHOOSE x \in s : TRUE

\* g gives the sum of f over every subset of S it is defined for.
SumStep(g, f, s) == IF s = {} THEN 0 ELSE f[Pick(s)] + g[s \ {Pick(s)}]

IsSum(g, f, S) == g = [s \in SUBSET S |-> SumStep(g, f, s)]

LEMMA SumIsFold ==
    ASSUME NEW f, NEW S
    PROVE  SumOver(f, S) = (CHOOSE g : IsSum(g, f, S))[S]
  BY DEF SumOver, MapThenSumSet, MapThenFoldSet, IsSum, SumStep, Pick

Upto(S, n) == {s \in SUBSET S : Cardinality(s) <= n}

LEMMA SumExists ==
    ASSUME NEW f, NEW S, IsFiniteSet(S)
    PROVE  \E g : IsSum(g, f, S)
<1> DEFINE P(n) == \E g : g = [s \in Upto(S, n) |-> SumStep(g, f, s)]
           T == {n \in Nat : ~P(n)}
<1>0. ASSUME NEW s \in SUBSET S
      PROVE  /\ Cardinality(s) \in Nat
             /\ Cardinality(s) = 0 => s = {}
             /\ Cardinality(s) <= Cardinality(S)
             /\ s # {} => Cardinality(s \ {Pick(s)}) = Cardinality(s) - 1
  <2>1. IsFiniteSet(s) /\ Cardinality(s) <= Cardinality(S)
    BY FS_Subset
  <2>2. s # {} => Pick(s) \in s
    BY DEF Pick
  <2> QED
    BY <2>1, <2>2, FS_CardinalityType, FS_EmptySet, FS_RemoveElement
<1>1. ASSUME T # {} PROVE FALSE
  <2>1. PICK n \in T : \A m \in T : n <= m
    BY <1>1, MinimalNat
  <2>2. CASE n = 0
    <3> DEFINE g == [s \in Upto(S, 0) |-> 0]
    <3>1. ASSUME NEW s \in Upto(S, 0) PROVE s = {}
      <4>1. s \in SUBSET S /\ Cardinality(s) <= 0
        BY DEF Upto
      <4>2. Cardinality(s) \in Nat /\ (Cardinality(s) = 0 => s = {})
        BY <1>0, <4>1
      <4> QED
        BY <4>1, <4>2
    <3>2. g = [s \in Upto(S, 0) |-> SumStep(g, f, s)]
      BY <3>1 DEF SumStep
    <3> QED
      BY <2>1, <2>2, <3>2
  <2>3. CASE n # 0
    <3>1. n - 1 \in Nat /\ n \in Nat /\ n - 1 \notin T
      BY <2>1, <2>3
    <3>2. PICK h : h = [s \in Upto(S, n - 1) |-> SumStep(h, f, s)]
      BY <3>1
    <3> DEFINE g == [s \in Upto(S, n) |->
                       IF s \in Upto(S, n - 1) THEN h[s] ELSE SumStep(h, f, s)]
    <3>3. ASSUME NEW s \in Upto(S, n), s # {}
          PROVE  s \ {Pick(s)} \in Upto(S, n - 1)
      <4>1. s \in SUBSET S /\ Cardinality(s) <= n
        BY DEF Upto
      <4>2. Cardinality(s) \in Nat
            /\ Cardinality(s \ {Pick(s)}) = Cardinality(s) - 1
        BY <1>0, <3>3, <4>1
      <4>3. Cardinality(s \ {Pick(s)}) <= n - 1
        BY <3>1, <4>1, <4>2
      <4> QED
        BY <4>1, <4>3 DEF Upto
    <3>4. ASSUME NEW s \in Upto(S, n - 1) PROVE s \in Upto(S, n)
      <4>1. s \in SUBSET S /\ Cardinality(s) <= n - 1
        BY DEF Upto
      <4>2. Cardinality(s) \in Nat
        BY <1>0, <4>1
      <4> QED
        BY <3>1, <4>1, <4>2 DEF Upto
    <3>5. ASSUME NEW s \in Upto(S, n) PROVE g[s] = SumStep(g, f, s)
      <4>1. SumStep(g, f, s) = SumStep(h, f, s)
        BY <3>3, <3>4 DEF SumStep
      <4> QED
        BY <3>2, <4>1
    <3>6. g = [s \in Upto(S, n) |-> SumStep(g, f, s)]
      BY <3>5
    <3> QED
      BY <2>1, <3>6
  <2> QED
    BY <2>2, <2>3
<1>2. P(Cardinality(S))
  BY <1>1, FS_CardinalityType
<1>3. Upto(S, Cardinality(S)) = SUBSET S
  BY <1>0 DEF Upto
<1> QED
  BY <1>2, <1>3 DEF IsSum

\* The sum, without the fold it is computed by.
NatOn(f, S) == \A x \in S : f[x] \in Nat

Additive(g, f, S) ==
    /\ g[{}] = 0
    /\ \A s \in SUBSET S : g[s] \in Nat
    /\ \A s \in SUBSET S : \A x \in s : g[s] = f[x] + g[s \ {x}]

LEMMA SumAdditive ==
    ASSUME NEW f, NEW S, IsFiniteSet(S), NatOn(f, S)
    PROVE  \E g : Additive(g, f, S) /\ SumOver(f, S) = g[S]
<1> DEFINE g == CHOOSE g : IsSum(g, f, S)
<1>1. g = [s \in SUBSET S |-> SumStep(g, f, s)]
  BY SumExists DEF IsSum
<1> HIDE DEF g
<1>2. g[{}] = 0
  BY <1>1 DEF SumStep
<1>3. ASSUME NEW s \in SUBSET S, s # {}
      PROVE  /\ Pick(s) \in s /\ f[Pick(s)] \in Nat
             /\ g[s] = f[Pick(s)] + g[s \ {Pick(s)}]
  <2>1. Pick(s) \in s
    BY <1>3 DEF Pick
  <2> QED
    BY <1>1, <1>3, <2>1 DEF SumStep, NatOn
<1>4. ASSUME NEW s \in SUBSET S PROVE g[s] \in Nat
  <2> DEFINE T == {t \in SUBSET S : g[t] \notin Nat}
  <2>0. T \subseteq SUBSET S
    OBVIOUS
  <2>1. ASSUME T # {} PROVE FALSE
    <3>1. PICK t \in T : \A u \in T : u \subseteq t => u = t
      <4> HIDE DEF T
      <4> QED
        BY <2>0, <2>1, MinimalSet
    <3>2. t \in SUBSET S /\ g[t] \notin Nat
      BY <3>1
    <3>5. t # {}
      BY <1>2, <3>2
    <3>3. /\ Pick(t) \in t /\ f[Pick(t)] \in Nat
          /\ g[t] = f[Pick(t)] + g[t \ {Pick(t)}]
      BY <1>3, <3>2, <3>5
    <3>4. g[t \ {Pick(t)}] \in Nat
      BY <3>1, <3>2, <3>3
    <3> QED
      BY <3>2, <3>3, <3>4
  <2> QED
    BY <2>1
<1>5. ASSUME NEW s \in SUBSET S, NEW x \in s PROVE g[s] = f[x] + g[s \ {x}]
  <2> DEFINE T == {t \in SUBSET S : \E y \in t : g[t] # f[y] + g[t \ {y}]}
  <2>0. T \subseteq SUBSET S
    OBVIOUS
  <2>1. ASSUME T # {} PROVE FALSE
    <3>1. PICK t \in T : \A u \in T : u \subseteq t => u = t
      <4> HIDE DEF T
      <4> QED
        BY <2>0, <2>1, MinimalSet
    <3>2. PICK y \in t : g[t] # f[y] + g[t \ {y}]
      BY <3>1
    <3> DEFINE p == Pick(t)
    <3>3. /\ p \in t /\ p # y /\ g[t] = f[p] + g[t \ {p}]
      BY <1>3, <3>1, <3>2
    <3>4. g[t \ {p}] = f[y] + g[(t \ {p}) \ {y}]
      <4>1. t \ {p} \in SUBSET S /\ t \ {p} \notin T /\ y \in t \ {p}
        BY <3>1, <3>2, <3>3
      <4> QED
        BY <4>1
    <3>5. g[t \ {y}] = f[p] + g[(t \ {y}) \ {p}]
      <4>1. t \ {y} \in SUBSET S /\ t \ {y} \notin T /\ p \in t \ {y}
        BY <3>1, <3>2, <3>3
      <4> QED
        BY <4>1
    <3>6. (t \ {p}) \ {y} = (t \ {y}) \ {p} /\ (t \ {y}) \ {p} \in SUBSET S
      BY <3>1
    <3>7. f[p] \in Nat /\ f[y] \in Nat /\ g[(t \ {y}) \ {p}] \in Nat
      BY <1>4, <3>1, <3>2, <3>3, <3>6 DEF NatOn
    <3> DEFINE rest == g[(t \ {y}) \ {p}]
    <3>8. g[t \ {p}] = f[y] + rest
      BY <3>4, <3>6, Zenon
    <3> HIDE DEF p, T, rest
    <3>9. g[t] = f[p] + (f[y] + rest) /\ g[t \ {y}] = f[p] + rest
      BY <3>3, <3>5, <3>8, Zenon DEF rest
    <3>10. f[p] + (f[y] + rest) = f[y] + (f[p] + rest)
      BY <3>7 DEF rest
    <3> QED
      BY <3>2, <3>9, <3>10, Zenon
  <2> QED
    BY <2>1
<1> QED
  BY <1>2, <1>4, <1>5, SumIsFold DEF Additive, g

\* The sum over a smaller set is the same sum.
LEMMA SumSame ==
    ASSUME NEW f, NEW h, NEW S, IsFiniteSet(S), NatOn(f, S),
           \A x \in S : f[x] = h[x],
           NEW a, NEW b, NEW A, NEW B, S \subseteq A, S \subseteq B,
           Additive(a, f, A), Additive(b, h, B)
    PROVE  a[S] = b[S]
<1> DEFINE T == {s \in SUBSET S : a[s] # b[s]}
<1>0. T \subseteq SUBSET S
  OBVIOUS
<1>1. ASSUME T # {} PROVE FALSE
  <2>1. PICK t \in T : \A u \in T : u \subseteq t => u = t
    <3> HIDE DEF T
    <3> QED
      BY <1>0, <1>1, MinimalSet
  <2>2. PICK x \in t : TRUE
    BY <2>1 DEF Additive
  <2>3. t \ {x} \notin T
    BY <2>1, <2>2
  <2>4. a[t] = f[x] + a[t \ {x}] /\ b[t] = h[x] + b[t \ {x}]
    BY <2>1, <2>2 DEF Additive
  <2> QED
    BY <2>1, <2>2, <2>3, <2>4
<1> QED
  BY <1>1

LEMMA SumEmpty == ASSUME NEW f PROVE SumOver(f, {}) = 0
  BY SumAdditive, FS_EmptySet DEF Additive, NatOn

\* The laws of sums.
LEMMA SumTyped ==
    ASSUME NEW f, NEW S, IsFiniteSet(S), NatOn(f, S)
    PROVE  SumOver(f, S) \in Nat
<1>1. PICK g : Additive(g, f, S) /\ SumOver(f, S) = g[S]
  BY SumAdditive
<1>2. S \in SUBSET S
  OBVIOUS
<1> QED
  BY <1>1, <1>2 DEF Additive

LEMMA SumRemove ==
    ASSUME NEW f, NEW S, IsFiniteSet(S), NatOn(f, S), NEW x \in S
    PROVE  SumOver(f, S) = f[x] + SumOver(f, S \ {x})
<1>1. PICK g : Additive(g, f, S) /\ SumOver(f, S) = g[S]
  BY SumAdditive
<1>2. IsFiniteSet(S \ {x}) /\ NatOn(f, S \ {x})
  BY FS_RemoveElement DEF NatOn
<1>3. PICK h : Additive(h, f, S \ {x}) /\ SumOver(f, S \ {x}) = h[S \ {x}]
  BY <1>2, SumAdditive
<1>4. g[S \ {x}] = h[S \ {x}]
  BY <1>1, <1>2, <1>3, SumSame
<1> QED
  BY <1>1, <1>3, <1>4 DEF Additive

\* Changing the values outside the set changes nothing.
LEMMA SumAgree ==
    ASSUME NEW f, NEW h, NEW S, IsFiniteSet(S), NatOn(f, S),
           \A x \in S : f[x] = h[x]
    PROVE  SumOver(f, S) = SumOver(h, S)
<1>1. NatOn(h, S)
  BY DEF NatOn
<1>2. PICK a : Additive(a, f, S) /\ SumOver(f, S) = a[S]
  BY SumAdditive
<1>3. PICK b : Additive(b, h, S) /\ SumOver(h, S) = b[S]
  BY <1>1, SumAdditive
<1> QED
  BY <1>2, <1>3, SumSame

\* Larger values over a larger set have a larger sum.
LEMMA SumMonotone ==
    ASSUME NEW f, NEW h, NEW S, NEW R, IsFiniteSet(R), S \subseteq R,
           NatOn(f, S), NatOn(h, R), \A x \in S : f[x] <= h[x]
    PROVE  SumOver(f, S) <= SumOver(h, R)
<1>0. IsFiniteSet(S)
  BY FS_Subset
<1> DEFINE T == {r \in SUBSET R : ~(SumOver(f, S \cap r) <= SumOver(h, r))}
<1>3. T \subseteq SUBSET R
  OBVIOUS
<1>1. ASSUME T # {} PROVE FALSE
  <2>1. PICK r \in T : IsFiniteSet(r) /\ \A u \in T : u \subseteq r => u = r
    <3> HIDE DEF T
    <3> QED
      BY <1>1, <1>3, MinimalSet
  <2>4. ~(SumOver(f, S \cap r) <= SumOver(h, r))
    BY <2>1
  <2>2. CASE r = {}
    <3>1. S \cap r = {}
      BY <2>2
    <3>2. SumOver(f, S \cap r) = 0 /\ SumOver(h, r) = 0
      BY <2>2, <3>1, SumEmpty
    <3> QED
      BY <2>1, <3>2
  <2>3. ASSUME NEW x \in r PROVE FALSE
    <3> DEFINE q == r \ {x}
    <3>1. q \in SUBSET R /\ q \notin T
      BY <2>1, <2>3
    <3>2. SumOver(f, S \cap q) <= SumOver(h, q)
      BY <3>1
    <3>3. /\ IsFiniteSet(S \cap q) /\ IsFiniteSet(q) /\ IsFiniteSet(S \cap r)
          /\ NatOn(f, S \cap q) /\ NatOn(f, S \cap r) /\ NatOn(h, q)
          /\ NatOn(h, r)
      BY <1>0, <2>1, FS_Subset DEF NatOn
    <3>4. SumOver(h, r) = h[x] + SumOver(h, q) /\ h[x] \in Nat
      BY <2>1, <2>3, <3>3, SumRemove DEF NatOn
    <3>5. SumOver(f, S \cap q) \in Nat /\ SumOver(h, q) \in Nat
      BY <3>3, SumTyped
    <3>6. CASE x \in S
      <4>1. (S \cap r) \ {x} = S \cap q
        OBVIOUS
      <4>2. SumOver(f, S \cap r) = f[x] + SumOver(f, (S \cap r) \ {x})
        BY <2>3, <3>3, <3>6, SumRemove
      <4>3. f[x] \in Nat /\ f[x] <= h[x]
        BY <3>6 DEF NatOn
      <4>4. SumOver(f, S \cap r) = f[x] + SumOver(f, S \cap q)
        BY <4>1, <4>2, Zenon
      <4> HIDE DEF q, T
      <4> QED
        BY <2>4, <3>2, <3>4, <3>5, <4>3, <4>4
    <3>7. CASE x \notin S
      <4>1. S \cap r = S \cap q
        BY <3>7
      <4>2. SumOver(f, S \cap r) = SumOver(f, S \cap q)
        BY <4>1, Zenon
      <4> HIDE DEF q, T
      <4> QED
        BY <2>4, <3>2, <3>4, <3>5, <4>2
    <3> QED
      BY <3>6, <3>7
  <2> QED
    BY <2>2, <2>3
<1>2. S \cap R = S
  OBVIOUS
<1> QED
  BY <1>1, <1>2

\* One more under one key is one more in all.
LEMMA SumBump ==
    ASSUME NEW f, NEW h, NEW S, IsFiniteSet(S), NatOn(f, S), NEW x \in S,
           h[x] = f[x] + 1, \A y \in S \ {x} : h[y] = f[y]
    PROVE  SumOver(h, S) = SumOver(f, S) + 1
<1>1. IsFiniteSet(S \ {x}) /\ NatOn(f, S \ {x}) /\ NatOn(h, S) /\ f[x] \in Nat
  BY FS_RemoveElement DEF NatOn
<1>2. SumOver(f, S \ {x}) = SumOver(h, S \ {x})
  BY <1>1, SumAgree
<1>3. SumOver(f, S \ {x}) \in Nat
  BY <1>1, SumTyped
<1>4. /\ SumOver(f, S) = f[x] + SumOver(f, S \ {x})
      /\ SumOver(h, S) = h[x] + SumOver(h, S \ {x})
  BY <1>1, SumRemove
<1> QED
  BY <1>1, <1>2, <1>3, <1>4

LEMMA SumZero ==
    ASSUME NEW f, NEW S, IsFiniteSet(S), \A x \in S : f[x] = 0
    PROVE  SumOver(f, S) = 0
<1>1. NatOn(f, S) /\ NatOn(f, {})
  BY DEF NatOn
<1> DEFINE T == {s \in SUBSET S : SumOver(f, s) # 0}
<1>2. T \subseteq SUBSET S
  OBVIOUS
<1>3. ASSUME T # {} PROVE FALSE
  <2>1. PICK t \in T : IsFiniteSet(t) /\ \A u \in T : u \subseteq t => u = t
    <3> HIDE DEF T
    <3> QED
      BY <1>2, <1>3, MinimalSet
  <2>2. PICK x \in t : TRUE
    BY <2>1, SumEmpty
  <2>3. SumOver(f, t) = f[x] + SumOver(f, t \ {x})
    BY <2>1, <2>2, SumRemove DEF NatOn
  <2>4. SumOver(f, t \ {x}) = 0 /\ f[x] = 0
    BY <2>1, <2>2
  <2> QED
    BY <2>1, <2>3, <2>4
<1> QED
  BY <1>3

\* `m[k]++` on a Go map, whether the key is new or not.
LEMMA SumIncrement ==
    ASSUME NEW m, NEW k, IsFiniteSet(DOMAIN m), NatOn(m, DOMAIN m)
    PROVE  /\ IsFiniteSet(DOMAIN Increment(m, k))
           /\ SumOver(Increment(m, k), DOMAIN Increment(m, k))
                = SumOver(m, DOMAIN m) + 1
<1> DEFINE h == Increment(m, k)
           D == DOMAIN m
<1>1. /\ DOMAIN h = D \cup {k}
      /\ h[k] = IF k \in D THEN m[k] + 1 ELSE 1
      /\ \A y \in D \ {k} : h[y] = m[y]
  BY DEF Increment, Put
<1>2. IsFiniteSet(DOMAIN h)
  BY <1>1, FS_AddElement
<1>3. CASE k \in D
  <2>1. DOMAIN h = D
    BY <1>1, <1>3
  <2>2. SumOver(h, D) = SumOver(m, D) + 1
    <3> HIDE DEF h, D
    <3> QED
      BY <1>1, <1>3, SumBump DEF D
  <2> QED
    BY <1>2, <2>1, <2>2
<1>4. CASE k \notin D
  <2>1. (DOMAIN h) \ {k} = D
    BY <1>1, <1>4
  <2>2. h[k] = 1 /\ \A y \in D : h[y] = m[y]
    BY <1>1, <1>4
  <2>3. NatOn(h, DOMAIN h) /\ k \in DOMAIN h
    BY <1>1, <2>2 DEF NatOn
  <2>4. SumOver(m, D) = SumOver(h, D) /\ SumOver(m, D) \in Nat
    <3> HIDE DEF h, D
    <3> QED
      BY <2>2, SumAgree, SumTyped DEF D
  <2>5. SumOver(h, DOMAIN h) = h[k] + SumOver(h, (DOMAIN h) \ {k})
    <3> HIDE DEF h, D
    <3> QED
      BY <1>2, <2>3, SumRemove
  <2>6. SumOver(h, (DOMAIN h) \ {k}) = SumOver(m, D)
    BY <2>1, <2>4, Zenon
  <2> HIDE DEF h, D
  <2>7. SumOver(h, DOMAIN h) = SumOver(m, D) + 1
    BY <2>2, <2>4, <2>5, <2>6
  <2> QED
    BY <1>2, <2>7 DEF h, D
<1> QED
  BY <1>3, <1>4

-----------------------------------------------------------------------------
(* The counters. *)

\* The calls that have been counted under k.
CountedUnder(k) == {i \in Ids : place[i] = "counted" /\ TrueKey(calls[i]) = k}

Tallied ==
    /\ \A k \in DOMAIN ioctlTotal :
           ioctlTotal[k] <= Cardinality(CountedUnder(k))
    /\ \A i \in Ids : place[i] = "counted" => Supported(calls[i])

LEMMA CountedFinite ==
    ASSUME Typed, NEW k PROVE IsFiniteSet(CountedUnder(k))
<1>1. Len(calls) \in Int
  BY DEF Typed, TypeOK, HistoryTypeOK
<1>2. IsFiniteSet(Ids)
  BY <1>1, FS_Interval DEF Ids
<1>3. CountedUnder(k) \in SUBSET Ids
  BY DEF CountedUnder
<1> QED
  BY <1>2, <1>3, FS_Subset

\* The worker counts an event under the labels of the call it stands for.
LEMMA LabelsTrue ==
    ASSUME Typed, MapsTrue, Carried, WorkerCounts
    PROVE  EventKey(work, lookup.ans.info) = TrueKey(calls[work.id])
<1>0. worker = "lookup" /\ lookup.st = "done" /\ lookup.ans.err = "none"
  BY DEF WorkerCounts
<1>1. /\ Faithful(work) /\ lookup.cg = work.cgroup
      /\ lookup.ans \in Permitted(lookup.cg)
  BY <1>0 DEF Carried, WorkerFits
<1>2. lookup.ans.info = Owner[work.cgroup]
  BY <1>0, <1>1 DEF Permitted, Failure, Success
<1> DEFINE n == work.node
<1>3. n \in DOMAIN deviceMap
  BY <1>1 DEF Faithful, Fits
<1>4. PICK d \in Devices : /\ n \in NodesOf[d]
                           /\ deviceMap[n] = [device |-> d, vendor |-> VendorOf(d)]
  BY <1>3 DEF MapsTrue
<1>5. DeviceOf(n) = d
  BY <1>4, DeviceOfNode
<1>6. /\ work.kind = Ioctls(VendorOf(d))[Nr(calls[work.id].cmd)]
      /\ calls[work.id].node = n /\ calls[work.id].cgroup = work.cgroup
  BY <1>1, <1>5 DEF Faithful, Fits
<1> QED
  BY <1>2, <1>4, <1>5, <1>6 DEF EventKey, TrueKey

LEMMA TalliedKept ==
    ASSUME Typed, MapsTrue, Carried, Located, Tallied, [Next]_vars
    PROVE  Tallied'
<1>0. /\ \A j \in Ids : place'[j] = place[j] \/ Move(j)
      /\ \A i \in Ids : i \in Ids' /\ calls'[i] = calls[i]
      /\ Typed'
  BY Moves, Grows, ProbeTyped, HistoryTyped, StartTyped, ControlTyped,
     ReaderTyped, WorkerTyped, MetricsTyped, OrderedKept, WorkKnownKept
     DEF Typed, TypeOK
<1>1. ASSUME NEW i \in Ids', i \notin Ids PROVE place'[i] # "counted"
  <2>0. /\ place \in Seq(Places) /\ calls \in Seq(Requests)
        /\ Len(place) = Len(calls)
    BY DEF Typed, TypeOK, HistoryTypeOK
  <2>1. ASSUME NEW q, NEW p \in {"program", "ignored"},
               calls' = Append(calls, q), place' = Append(place, p)
        PROVE  place'[i] # "counted"
    BY <1>1, <2>0, <2>1 DEF Ids
  <2>2. calls' # calls
    BY <1>1 DEF Ids
  <2> QED
    BY <2>1, <2>2, NextCases
       DEF NewLoader, Discover, Attach, StartServer, CreateReader,
           StartGoroutines, SkipDevice, FillDevice, ReadEvent, ReadClosed,
           Enqueue, SelectDefault, EnqueueFull, WaitWorkers, CloseLoader, CloseObjects,
           WorkerRecv, WorkerAnswer, WorkerLogs, WorkerDrops, WorkerCounts,
           WorkerExit, SigReceive, SigShutdown, SigCloseReader, SigCloseDone,
           ServerListen, ServerFail, Signal, Killed, KernelStep, Observe,
           Ignore, Reserve, ReserveFails, LoadLost, StoreLost, Submit, vars,
           probeVars
<1>2. ASSUME NEW i \in Ids, place[i] = "counted" PROVE place'[i] = "counted"
  BY <1>0, <1>2 DEF Move
<1>3. ASSUME NEW i \in Ids', place'[i] = "counted" PROVE Supported(calls'[i])
  <2>1. i \in Ids /\ calls'[i] = calls[i]
    BY <1>0, <1>1, <1>3
  <2>2. CASE place[i] = "counted"
    BY <2>1, <2>2 DEF Tallied
  <2>3. CASE place[i] # "counted"
    <3>1. WorkerCounts /\ i = work.id
      BY <1>0, <1>3, <2>1, <2>3 DEF Move
    <3> QED
      BY <2>1, <3>1 DEF WorkerCounts, Carried, WorkerFits, Faithful, Fits
  <2> QED
    BY <2>2, <2>3
<1>4. ASSUME NEW k
      PROVE  /\ CountedUnder(k) \subseteq CountedUnder(k)'
             /\ IsFiniteSet(CountedUnder(k)')
             /\ Cardinality(CountedUnder(k)) \in Nat
             /\ Cardinality(CountedUnder(k)') \in Nat
             /\ Cardinality(CountedUnder(k)) <= Cardinality(CountedUnder(k)')
  <2>1. CountedUnder(k) \in SUBSET CountedUnder(k)'
    BY <1>0, <1>2 DEF CountedUnder
  <2>2. IsFiniteSet(CountedUnder(k)) /\ IsFiniteSet(CountedUnder(k))'
    BY <1>0, CountedFinite, PTL
  <2> QED
    BY <2>1, <2>2, FS_Subset, FS_CardinalityType
<1>5. ASSUME NEW k \in DOMAIN ioctlTotal'
      PROVE  ioctlTotal'[k] <= Cardinality(CountedUnder(k)')
  <2>0. \A x \in DOMAIN ioctlTotal : ioctlTotal[x] \in Nat
    BY DEF Typed, TypeOK, MetricsTypeOK
  <2>1. CASE WorkerCounts
    <3> DEFINE i == work.id
               t == EventKey(work, lookup.ans.info)
    <3>1. ioctlTotal' = Increment(ioctlTotal, t)
      BY <2>1 DEF WorkerCounts, IncIoctl
    <3>2. t = TrueKey(calls[i])
      BY <2>1, LabelsTrue
    <3>3. i \in Ids /\ place[i] = "worker"
      BY <2>1 DEF WorkerCounts, Carried, WorkerFits, Faithful, Fits, Located,
                  WorkLocated
    <3>4. place'[i] = "counted"
      BY <2>1, <3>3 DEF WorkerCounts, MoveTo, Typed, TypeOK, HistoryTypeOK, Ids
    <3> HIDE DEF i, t
    <3>5. CASE k = t
      <4>1. i \in CountedUnder(k)' /\ i \notin CountedUnder(k)
        BY <1>0, <3>2, <3>3, <3>4, <3>5 DEF CountedUnder
      <4>2. CountedUnder(k) \cup {i} \in SUBSET CountedUnder(k)'
        BY <1>4, <4>1
      <4>3. IsFiniteSet(CountedUnder(k))
        BY CountedFinite
      <4>4. Cardinality(CountedUnder(k) \cup {i}) = Cardinality(CountedUnder(k)) + 1
        BY <4>1, <4>3, FS_AddElement
      <4>5. Cardinality(CountedUnder(k)) + 1 <= Cardinality(CountedUnder(k)')
        <5>1. Cardinality(CountedUnder(k) \cup {i})
                <= Cardinality(CountedUnder(k)')
          BY <1>4, <4>2, FS_Subset
        <5> QED
          BY <4>4, <5>1
      <4>6. ioctlTotal'[k] <= Cardinality(CountedUnder(k)) + 1
        <5>1. CASE k \in DOMAIN ioctlTotal
          <6>1. /\ ioctlTotal'[k] = ioctlTotal[k] + 1
                /\ ioctlTotal[k] <= Cardinality(CountedUnder(k))
            BY <3>1, <3>5, <5>1 DEF Increment, Put, Tallied
          <6> QED
            BY <1>4, <2>0, <5>1, <6>1
        <5>2. CASE k \notin DOMAIN ioctlTotal
          <6>1. ioctlTotal'[k] = 1
            BY <3>1, <3>5, <5>2 DEF Increment, Put
          <6> QED
            BY <1>4, <6>1
        <5> QED
          BY <5>1, <5>2
      <4>7. ioctlTotal'[k] \in Nat
        BY <1>0 DEF Typed, TypeOK, MetricsTypeOK
      <4> QED
        BY <1>4, <4>5, <4>6, <4>7
    <3>6. CASE k # t
      <4>1. k \in DOMAIN ioctlTotal /\ ioctlTotal'[k] = ioctlTotal[k]
        BY <1>5, <3>1, <3>6 DEF Increment, Put
      <4>2. ioctlTotal[k] <= Cardinality(CountedUnder(k))
        BY <4>1 DEF Tallied
      <4> QED
        BY <1>4, <2>0, <4>1, <4>2
    <3> QED
      BY <3>5, <3>6
  <2>2. CASE UNCHANGED ioctlTotal
    <3>1. k \in DOMAIN ioctlTotal /\ ioctlTotal[k] <= Cardinality(CountedUnder(k))
      BY <1>5, <2>2 DEF Tallied
    <3> QED
      BY <1>4, <2>0, <2>2, <3>1
  <2> QED
    BY <2>1, <2>2, NextCases
       DEF NewLoader, Discover, Attach, StartServer, CreateReader,
           StartGoroutines, SkipDevice, FillDevice, ReadEvent, ReadClosed,
           Enqueue, SelectDefault, EnqueueFull, WaitWorkers, CloseLoader, CloseObjects,
           WorkerRecv, WorkerAnswer, WorkerLogs, WorkerDrops, IncEventsDropped,
           WorkerExit, SigReceive, SigShutdown, SigCloseReader, SigCloseDone,
           ServerListen, ServerFail, Signal, Killed, vars, userVars,
           metricsVars
<1> QED
  BY <1>3, <1>5 DEF Tallied

LEMMA TalliedInvariant == Spec => [](Typed /\ Tallied)
<1>1. Init => Located /\ Tallied
  <2> SUFFICES ASSUME Init PROVE Located /\ Tallied
    OBVIOUS
  <2>1. RunLocated
    BY DEF Init, ProbeInit, RunLocated, Idle, Held
  <2>2. RingLocated /\ QueueLocated /\ HandLocated /\ WorkLocated
    BY DEF Init, ProbeInit, RingLocated, QueueLocated, HandLocated, WorkLocated
  <2>3. Ids = {} /\ DOMAIN ioctlTotal = {}
    BY DEF Init, ProbeInit, Ids, EmptyMap
  <2> QED
    BY <2>1, <2>2, <2>3 DEF Located, Tallied
<1>2. /\ Typed /\ MapsTrue /\ Carried /\ Located /\ Tallied
      /\ [Next]_vars
      => (Located /\ Tallied)'
  BY LocatedKept, TalliedKept
<1> QED
  BY <1>1, <1>2, CarriedInvariant, PTL DEF Spec

\* A container is never charged with a call it did not make, or twice with one
\* it did, whatever the filter maps, the ring buffer, the channel and the pod
\* lookup did in between (bpf/drm_common.bpf.c:45, cmd/agent/main.go:199-243).
THEOREM AttributionHolds == Spec => []Attribution
<1>1. ASSUME Typed, Tallied PROVE Attribution
  <2> SUFFICES ASSUME NEW k \in DOMAIN ioctlTotal
               PROVE  ioctlTotal[k] <=
                        Cardinality({i \in Ids : /\ Supported(calls[i])
                                                 /\ TrueKey(calls[i]) = k})
    BY DEF Attribution
  <2> DEFINE T == {i \in Ids : Supported(calls[i]) /\ TrueKey(calls[i]) = k}
  <2>1. Len(calls) \in Int /\ ioctlTotal[k] \in Nat
    BY <1>1 DEF Typed, TypeOK, HistoryTypeOK, MetricsTypeOK
  <2>2. IsFiniteSet(Ids)
    BY <2>1, FS_Interval DEF Ids
  <2>3. IsFiniteSet(T)
    BY <2>2, FS_Subset
  <2>4. CountedUnder(k) \in SUBSET T
    BY <1>1 DEF CountedUnder, Tallied
  <2>5. /\ Cardinality(CountedUnder(k)) <= Cardinality(T)
        /\ Cardinality(CountedUnder(k)) \in Nat /\ Cardinality(T) \in Nat
    BY <2>3, <2>4, FS_Subset, FS_CardinalityType
  <2>6. ioctlTotal[k] <= Cardinality(CountedUnder(k))
    BY <1>1 DEF Tallied
  <2> HIDE DEF T
  <2>7. ioctlTotal[k] <= Cardinality(T)
    BY <2>1, <2>5, <2>6
  <2> QED
    BY <2>7 DEF T
<1> QED
  BY <1>1, TalliedInvariant, PTL

-----------------------------------------------------------------------------
(* The ledger.  A record that nobody has finished is held by somebody: an    *)
(* instance of the program that has reserved one finds it in the ring        *)
(* buffer, because the reader stops at a busy record.                        *)

Reserved ==
    /\ \A c \in Cpus : run[c].at = "idle" => run[c].id = 0
    /\ \A c \in Cpus : run[c].at = "submit" =>
           /\ \E k \in 1 .. Len(events) :
                  events[k].id = run[c].id /\ events[k].busy
           /\ \A d \in Cpus :
                  run[d].at = "submit" /\ run[d].id = run[c].id => d = c

\* The reader's hand is empty or holds a call.
Handed == hand = NoEvent \/ (hand.id \in Ids /\ place[hand.id] = "hand")

\* The filter has let the supported calls through and no others.
Sifted == \A i \in Ids : Supported(calls[i]) <=> place[i] # "ignored"

LEMMA HandedKept ==
    ASSUME Typed, Carried, Located, Handed, [Next]_vars PROVE Handed'
<1>0. /\ HistoryTypeOK /\ ProbeTypeOK /\ RingFits
      /\ \A i \in Ids : i \in Ids' /\ (place'[i] = place[i] \/ Move(i))
  BY Grows, Moves DEF Typed, TypeOK, Carried
<1>1. CASE ReadEvent
  <2>1. Head(events) = events[1] /\ 1 \in 1 .. Len(events)
    BY <1>0, <1>1 DEF ReadEvent, ReadRecord, ProbeTypeOK
  <2>2. Head(events).id \in Ids
    BY <1>0, <2>1 DEF RingFits, Faithful, Fits
  <2>3. place'[Head(events).id] = "hand"
    BY <1>0, <1>1, <2>2 DEF ReadEvent, MoveTo, HistoryTypeOK, Ids
  <2> QED
    BY <1>0, <1>1, <2>2, <2>3 DEF ReadEvent, Handed
<1>2. CASE Enqueue \/ EnqueueFull
  BY <1>2 DEF Enqueue, EnqueueFull, Handed
<1>3. CASE UNCHANGED hand /\ ~Enqueue /\ ~EnqueueFull
  <2>1. CASE hand = NoEvent
    BY <1>3, <2>1 DEF Handed
  <2>2. CASE hand.id \in Ids /\ place[hand.id] = "hand"
    <3>1. place'[hand.id] = "hand"
      BY <1>0, <1>3, <2>2 DEF Move
    <3> QED
      BY <1>0, <1>3, <2>2, <3>1 DEF Handed
  <2> QED
    BY <2>1, <2>2 DEF Handed
<1> QED
  BY <1>1, <1>2, <1>3, NextCases
     DEF NewLoader, Discover, Attach, StartServer, CreateReader,
         StartGoroutines, SkipDevice, FillDevice, ReadClosed, SelectDefault,
         WaitWorkers, CloseLoader, CloseObjects, WorkerRecv, WorkerAnswer,
         WorkerLogs, WorkerDrops, WorkerCounts, WorkerExit, SigReceive,
         SigShutdown, SigCloseReader, SigCloseDone, ServerListen, ServerFail,
         Signal, Killed, vars, userVars

LEMMA SiftedKept ==
    ASSUME Typed, MapsTrue, Carried, MapsComplete, Gated, Located, Sifted,
           [Next]_vars
    PROVE  Sifted'
<1> SUFFICES ASSUME NEW i \in Ids'
             PROVE  Supported(calls'[i]) <=> place'[i] # "ignored"
  BY DEF Sifted
<1>1. CASE i \in Ids
  <2>1. calls'[i] = calls[i]
    BY <1>1, Grows
  <2>2. place'[i] = "ignored" <=> place[i] = "ignored"
    BY <1>1, Moves DEF Move
  <2> QED
    BY <1>1, <2>1, <2>2 DEF Sifted
<1>2. CASE i \notin Ids
  <2>1. PICK c \in Cpus, q \in Requests :
             /\ calls'[i] = q
             /\ \/ Observe(c, q) /\ place'[i] = "program"
                \/ Ignore(c, q) /\ place'[i] = "ignored"
    BY <1>2, NewCall
  <2>2. hook /\ (Observe(c, q) => InFilter(q)) /\ (Ignore(c, q) => ~InFilter(q))
    BY <2>1 DEF Observe, Ignore
  <2>3. InFilter(q) <=> Supported(q)
    BY <2>2, FilterExact DEF Gated
  <2> QED
    BY <2>1, <2>2, <2>3
<1> QED
  BY <1>1, <1>2

LEMMA ReservedKept ==
    ASSUME Typed, Carried, Located, Reserved, [Next]_vars PROVE Reserved'
<1>0. /\ ProbeTypeOK /\ RunLocated /\ RingLocated
      /\ events \in Seq(Records)
  BY DEF Typed, TypeOK, Located, ProbeTypeOK
<1> DEFINE HasRecord(c) == \E k \in 1 .. Len(events) :
                               events[k].id = run[c].id /\ events[k].busy
<1>1. ASSUME NEW c \in Cpus, NEW q \in Requests, Observe(c, q) PROVE Reserved'
  <2>1. /\ events' = events /\ run'[c].at = "reserve"
        /\ \A d \in Cpus \ {c} : run'[d] = run[d]
    BY <1>0, <1>1 DEF Observe, ProbeTypeOK
  <2> QED
    BY <2>1 DEF Reserved
<1>2. ASSUME NEW c \in Cpus, Reserve(c) PROVE Reserved'
  <2>0. /\ \A d \in Cpus \ {c} : run'[d] = run[d]
        /\ run'[c].at = "submit" /\ run'[c].id = run[c].id
        /\ place[run[c].id] = "program"
    BY <1>0, <1>2, ProgramStep DEF Reserve, RunLocated, Held
  <2>1. PICK e : events' = Append(events, e) /\ e.id = run[c].id /\ e.busy
    BY <1>2 DEF Reserve
  <2>2. /\ Len(events) + 1 \in 1 .. Len(events')
        /\ events'[Len(events) + 1] = e
        /\ \A k \in 1 .. Len(events) :
               k \in 1 .. Len(events') /\ events'[k] = events[k]
    BY <1>0, <2>1
  <2>3. \A d \in Cpus \ {c} : run[d].at = "submit" => run[d].id # run[c].id
    BY <1>0, <2>0 DEF Reserved, RingLocated
  <2>4. ASSUME NEW d \in Cpus, run'[d].at = "submit"
        PROVE  \E k \in 1 .. Len(events') :
                   events'[k].id = run'[d].id /\ events'[k].busy
    <3>1. CASE d = c
      BY <2>0, <2>1, <2>2, <3>1
    <3>2. CASE d # c
      BY <2>0, <2>2, <2>4, <3>2 DEF Reserved
    <3> QED
      BY <3>1, <3>2
  <2>5. ASSUME NEW d \in Cpus, run'[d].at = "submit", NEW b \in Cpus,
               run'[b].at = "submit", run'[b].id = run'[d].id
        PROVE  b = d
    BY <2>0, <2>3, <2>5 DEF Reserved
  <2>6. \A d \in Cpus : run'[d].at = "idle" => run'[d].id = 0
    BY <2>0 DEF Reserved
  <2> QED
    BY <2>4, <2>5, <2>6 DEF Reserved
<1>3. ASSUME NEW c \in Cpus, ReserveFails(c) \/ LoadLost(c) PROVE Reserved'
  <2>1. /\ events' = events /\ run'[c].at \in {"load", "store"}
        /\ \A d \in Cpus \ {c} : run'[d] = run[d]
    <3>1. CASE ReserveFails(c)
      BY <1>0, <3>1 DEF ReserveFails, ProbeTypeOK
    <3>2. CASE LoadLost(c)
      <4>1. run'[c] = [run[c] EXCEPT !.at = "store", !.lost = dropped[c]]
        BY <1>0, <3>2 DEF LoadLost, LossSlot, ProbeTypeOK
      <4>2. run'[c].at = "store"
        BY <1>0, <4>1 DEF ProbeTypeOK
      <4> QED
        BY <3>2, <4>2, ProgramStep DEF LoadLost
    <3> QED
      BY <1>3, <3>1, <3>2
  <2> QED
    BY <2>1 DEF Reserved
<1>4. ASSUME NEW c \in Cpus, StoreLost(c) \/ Submit(c) PROVE Reserved'
  <2>1. /\ run'[c] = Idle /\ \A d \in Cpus \ {c} : run'[d] = run[d]
    BY <1>0, <1>4 DEF StoreLost, Submit, ProbeTypeOK
  <2>2. Idle.at = "idle" /\ Idle.id = 0
    BY DEF Idle
  <2>3. ASSUME NEW d \in Cpus, run'[d].at = "submit"
        PROVE  \E k \in 1 .. Len(events') :
                   events'[k].id = run'[d].id /\ events'[k].busy
    <3>1. d # c /\ run'[d] = run[d] /\ run[d].at = "submit"
      BY <2>1, <2>2, <2>3
    <3>2. PICK k \in 1 .. Len(events) : events[k].id = run[d].id /\ events[k].busy
      BY <3>1 DEF Reserved
    <3>3. CASE StoreLost(c)
      BY <3>1, <3>2, <3>3 DEF StoreLost
    <3>4. CASE Submit(c)
      <4>1. run[c].at = "submit" /\ run[c].id # run[d].id
        BY <3>1, <3>4 DEF Submit, Reserved
      <4>2. k \in DOMAIN events /\ Len(events') = Len(events)
        BY <1>0, <3>4 DEF Submit
      <4>3. events'[k] = events[k]
        BY <3>2, <3>4, <4>1, <4>2 DEF Submit
      <4> QED
        BY <3>1, <3>2, <4>2, <4>3
    <3> QED
      BY <1>4, <3>3, <3>4
  <2> QED
    BY <2>1, <2>2, <2>3 DEF Reserved
<1>5. CASE ReadEvent
  <2>1. run' = run /\ events' = Tail(events) /\ events # << >> /\ ~events[1].busy
    BY <1>0, <1>5 DEF ReadEvent, ReadRecord
  <2>2. ASSUME NEW d \in Cpus, run[d].at = "submit"
        PROVE  \E k \in 1 .. Len(events') :
                   events'[k].id = run[d].id /\ events'[k].busy
    <3>1. PICK k \in 1 .. Len(events) : events[k].id = run[d].id /\ events[k].busy
      BY <2>2 DEF Reserved
    <3>2. k # 1
      BY <2>1, <3>1
    <3>3. k - 1 \in 1 .. Len(events') /\ events'[k - 1] = events[k]
      BY <1>0, <2>1, <3>2
    <3> QED
      BY <3>1, <3>3
  <2> QED
    BY <2>1, <2>2 DEF Reserved
<1>6. CASE UNCHANGED <<run, events>>
  BY <1>6 DEF Reserved
<1>7. CASE KernelStep
  BY <1>1, <1>2, <1>3, <1>4, <1>6, <1>7 DEF KernelStep, Ignore
<1> QED
  BY <1>5, <1>6, <1>7, NextCases
     DEF NewLoader, Discover, Attach, StartServer, CreateReader,
         StartGoroutines, SkipDevice, FillDevice, ReadClosed, Enqueue,
         SelectDefault, EnqueueFull, WaitWorkers, CloseLoader, CloseObjects,
         WorkerRecv, WorkerAnswer, WorkerLogs, WorkerDrops, WorkerCounts,
         WorkerExit, SigReceive, SigShutdown, SigCloseReader, SigCloseDone,
         ServerListen, ServerFail, Signal, Killed, vars, probeVars

\* The calls whose record is in one of the places P.
At(P) == {i \in Ids : place[i] \in P}

LEMMA AtFinite ==
    ASSUME Typed, NEW P PROVE IsFiniteSet(At(P)) /\ Cardinality(At(P)) \in Nat
<1>1. Len(calls) \in Int
  BY DEF Typed, TypeOK, HistoryTypeOK
<1>2. IsFiniteSet(Ids)
  BY <1>1, FS_Interval DEF Ids
<1>3. At(P) \in SUBSET Ids
  BY DEF At
<1> QED
  BY <1>2, <1>3, FS_Subset, FS_CardinalityType

LEMMA AtUnion ==
    ASSUME Typed, NEW P, NEW Q, P \cap Q = {}
    PROVE  Cardinality(At(P \cup Q)) = Cardinality(At(P)) + Cardinality(At(Q))
<1>1. At(P \cup Q) = At(P) \cup At(Q) /\ At(P) \cap At(Q) = {}
  BY DEF At
<1>2. /\ IsFiniteSet(At(P)) /\ IsFiniteSet(At(Q))
      /\ Cardinality(At(P)) \in Nat /\ Cardinality(At(Q)) \in Nat
  BY AtFinite
<1>3. Cardinality(At(P) \cup At(Q)) =
        Cardinality(At(P)) + Cardinality(At(Q)) - Cardinality(At(P) \cap At(Q))
  BY <1>2, FS_Union
<1>4. Cardinality(At(P) \cap At(Q)) = 0
  BY <1>1, FS_EmptySet
<1>5. Cardinality(At(P \cup Q)) = Cardinality(At(P) \cup At(Q))
  BY <1>1, Zenon
<1> QED
  BY <1>2, <1>3, <1>4, <1>5

\* A step that neither brings a record to P nor takes one away.
LEMMA AtSame ==
    ASSUME Typed, [Next]_vars, NEW P, P \cap {"program", "ignored"} = {},
           \A i \in Ids : place'[i] \in P <=> place[i] \in P
    PROVE  At(P)' = At(P)
<1>1. ASSUME NEW i \in Ids', i \notin Ids PROVE place'[i] \notin P
  BY <1>1, NewCall
<1> QED
  BY <1>1, Grows DEF At

\* A step that brings the record of call i to P.
LEMMA AtOneMore ==
    ASSUME Typed, NEW P, NEW i \in Ids, NEW p \in P, place[i] \notin P,
           MoveTo(i, p), calls' = calls
    PROVE  Cardinality(At(P)') = Cardinality(At(P)) + 1
<1>1. Ids' = Ids
  BY DEF Ids
<1>2. \A j \in Ids : place'[j] = IF j = i THEN p ELSE place[j]
  BY DEF MoveTo, Typed, TypeOK, HistoryTypeOK, Ids
<1>3. At(P)' = At(P) \cup {i} /\ i \notin At(P)
  BY <1>1, <1>2 DEF At
<1> QED
  BY <1>3, AtFinite, FS_AddElement

\* The counters are the numbers of calls in the places they stand for, and a
\* CPU that is about to store its loss counter has the current value.
Ledger ==
    /\ IsFiniteSet(DOMAIN ioctlTotal)
    /\ SumOver(ioctlTotal, DOMAIN ioctlTotal) = Cardinality(At({"counted"}))
    /\ SumOver(eventsDropped, dropReasons) = Cardinality(At(dropReasons))
    /\ SumOver(dropped, Cpus) = Cardinality(At({"ringbuf_full"}))
    /\ \A c \in Cpus : run[c].at = "store" => run[c].lost = dropped[c]

LEMMA ReasonsFinite == IsFiniteSet(dropReasons)
<1>1. IsFiniteSet({"device_unknown"})
  BY FS_Singleton
<1>2. IsFiniteSet({"device_unknown"} \cup {"not_pod"})
  BY <1>1, FS_AddElement
<1>3. IsFiniteSet({"device_unknown"} \cup {"not_pod"} \cup {"not_indexed"})
  BY <1>2, FS_AddElement
<1>4. IsFiniteSet({"device_unknown"} \cup {"not_pod"} \cup {"not_indexed"}
                  \cup {"container_not_found"})
  BY <1>3, FS_AddElement
<1>5. IsFiniteSet({"device_unknown"} \cup {"not_pod"} \cup {"not_indexed"}
                  \cup {"container_not_found"} \cup {"queue_full"})
  BY <1>4, FS_AddElement
<1>6. dropReasons = {"device_unknown"} \cup {"not_pod"} \cup {"not_indexed"}
                    \cup {"container_not_found"} \cup {"queue_full"}
  BY DEF dropReasons
<1> QED
  BY <1>5, <1>6

LEMMA LedgerKept ==
    ASSUME Typed, Carried, Located, Ledger, [Next]_vars PROVE Ledger'
<1>0. /\ HistoryTypeOK /\ ProbeTypeOK /\ WorkerTypeOK /\ ReaderTypeOK
      /\ MetricsTypeOK /\ RunLocated /\ HandLocated /\ WorkLocated
      /\ QueueLocated /\ HandFits /\ QueueFits /\ WorkerFits
  BY DEF Typed, TypeOK, Located, Carried
<1>1. \A j \in Ids : place'[j] = place[j] \/ Move(j)
  BY Moves
<1>2. WorkerCounts \/ WorkerDrops
      => work.id \in Ids /\ place[work.id] = "worker"
  BY <1>0 DEF WorkerCounts, WorkerDrops, WorkerFits, Faithful, Fits, WorkLocated
<1>3. /\ IsFiniteSet(DOMAIN ioctlTotal')
      /\ SumOver(ioctlTotal', DOMAIN ioctlTotal')
           = Cardinality(At({"counted"})')
  <2>1. CASE WorkerCounts
    <3> DEFINE k == EventKey(work, lookup.ans.info)
    <3>1. ioctlTotal' = Increment(ioctlTotal, k)
      BY <2>1 DEF WorkerCounts, IncIoctl
    <3>2. NatOn(ioctlTotal, DOMAIN ioctlTotal)
      BY <1>0 DEF NatOn, MetricsTypeOK
    <3>3. Cardinality(At({"counted"})') = Cardinality(At({"counted"})) + 1
      BY <1>2, <2>1, AtOneMore DEF WorkerCounts
    <3> HIDE DEF k
    <3>4. /\ IsFiniteSet(DOMAIN Increment(ioctlTotal, k))
          /\ SumOver(Increment(ioctlTotal, k), DOMAIN Increment(ioctlTotal, k))
               = SumOver(ioctlTotal, DOMAIN ioctlTotal) + 1
      BY <3>2, SumIncrement DEF Ledger
    <3> QED
      BY <3>1, <3>3, <3>4, Zenon DEF Ledger
  <2>2. CASE ~WorkerCounts
    <3>1. ioctlTotal' = ioctlTotal
      BY <2>2, NextCases
         DEF NewLoader, Discover, Attach, StartServer, CreateReader,
             StartGoroutines, SkipDevice, FillDevice, ReadEvent, ReadClosed,
             Enqueue, SelectDefault, EnqueueFull, WaitWorkers, CloseLoader,
             CloseObjects, WorkerRecv, WorkerAnswer, WorkerLogs, WorkerDrops,
             IncEventsDropped, WorkerExit, SigReceive, SigShutdown,
             SigCloseReader, SigCloseDone, ServerListen, ServerFail, Signal,
             Killed, vars, userVars, metricsVars
    <3>2. \A i \in Ids : place'[i] \in {"counted"} <=> place[i] \in {"counted"}
      BY <1>1, <2>2 DEF Move
    <3>3. At({"counted"})' = At({"counted"})
      BY <3>2, AtSame
    <3> QED
      BY <3>1, <3>3, Zenon DEF Ledger
  <2> QED
    BY <2>1, <2>2
<1>4. SumOver(eventsDropped', dropReasons) = Cardinality(At(dropReasons)')
  <2>0. eventsDropped \in [dropReasons -> Nat]
    BY <1>0 DEF MetricsTypeOK
  <2>1. ASSUME NEW r \in dropReasons, NEW i \in Ids, IncEventsDropped(r),
               MoveTo(i, r), calls' = calls, place[i] \notin dropReasons
        PROVE  SumOver(eventsDropped', dropReasons) = Cardinality(At(dropReasons)')
    <3>1. Cardinality(At(dropReasons)') = Cardinality(At(dropReasons)) + 1
      BY <2>1, AtOneMore
    <3>2. /\ eventsDropped'[r] = eventsDropped[r] + 1
          /\ \A y \in dropReasons \ {r} : eventsDropped'[y] = eventsDropped[y]
      BY <2>0, <2>1 DEF IncEventsDropped, Increment, Put
    <3>3. NatOn(eventsDropped, dropReasons)
      BY <2>0 DEF NatOn
    <3>4. SumOver(eventsDropped', dropReasons)
            = SumOver(eventsDropped, dropReasons) + 1
      BY <3>2, <3>3, ReasonsFinite, SumBump
    <3> QED
      BY <3>1, <3>4 DEF Ledger
  <2>2. ASSUME UNCHANGED eventsDropped,
               \A i \in Ids : place'[i] \in dropReasons <=> place[i] \in dropReasons
        PROVE  SumOver(eventsDropped', dropReasons) = Cardinality(At(dropReasons)')
    <3>1. dropReasons \cap {"program", "ignored"} = {}
      BY DEF dropReasons
    <3>2. At(dropReasons)' = At(dropReasons)
      BY <2>2, <3>1, AtSame
    <3> QED
      BY <2>2, <3>2, Zenon DEF Ledger
  <2>3. CASE EnqueueFull
    <3>1. hand.id \in Ids /\ place[hand.id] = "hand"
      BY <1>0, <2>3 DEF EnqueueFull, HandFits, Faithful, Fits, HandLocated
    <3> QED
      BY <2>1, <2>3, <3>1 DEF EnqueueFull, dropReasons
  <2>4. CASE WorkerDrops
    <3>1. lookup.ans.err \in dropReasons
      BY <1>0, <2>4 DEF WorkerDrops, WorkerTypeOK, Lookups, NoLookup, Answers,
                        Errors, dropReasons
    <3>2. "worker" \notin dropReasons
      BY DEF dropReasons
    <3> QED
      BY <1>2, <2>1, <2>4, <3>1, <3>2 DEF WorkerDrops
  <2>5. CASE WorkerRecv
    <3>1. Head(queue) = queue[1] /\ 1 \in 1 .. Len(queue)
      BY <1>0, <2>5 DEF WorkerRecv, ReaderTypeOK
    <3>2. /\ Head(queue).node \in DOMAIN deviceMap
          /\ Head(queue).id \in Ids /\ place[Head(queue).id] = "queue"
      BY <1>0, <3>1 DEF QueueFits, Faithful, Fits, QueueLocated
    <3>3. MoveTo(Head(queue).id, "worker") /\ UNCHANGED eventsDropped
      BY <2>5, <3>2 DEF WorkerRecv, metricsVars
    <3>4. \A i \in Ids : place'[i] \in dropReasons <=> place[i] \in dropReasons
      <4>1. \A j \in Ids : place'[j] = IF j = Head(queue).id THEN "worker"
                                                             ELSE place[j]
        BY <1>0, <3>3 DEF MoveTo, HistoryTypeOK, Ids
      <4> QED
        BY <3>2, <4>1 DEF dropReasons
    <3> QED
      BY <2>2, <3>3, <3>4
  <2>6. CASE ~EnqueueFull /\ ~WorkerDrops /\ ~WorkerRecv
    <3>1. UNCHANGED eventsDropped
      BY <2>6, NextCases
         DEF NewLoader, Discover, Attach, StartServer, CreateReader,
             StartGoroutines, SkipDevice, FillDevice, ReadEvent, ReadClosed,
             Enqueue, SelectDefault, WaitWorkers, CloseLoader,
             CloseObjects, WorkerAnswer, WorkerLogs, WorkerCounts, IncIoctl,
             WorkerExit, SigReceive, SigShutdown,
             SigCloseReader, SigCloseDone, ServerListen, ServerFail, Signal,
             Killed, vars, userVars, metricsVars
    <3>2. WorkerLogs => MoveTo(work.id, "logged")
      BY DEF WorkerLogs
    <3>3. ASSUME NEW i \in Ids, place'[i] # place[i]
          PROVE  place'[i] \notin dropReasons /\ place[i] \notin dropReasons
      <4>1. WorkerLogs => place'[i] = "logged"
        BY <1>0, <3>2, <3>3 DEF MoveTo, HistoryTypeOK, Ids
      <4> QED
        BY <1>1, <2>6, <3>3, <4>1 DEF Move, dropReasons
    <3> QED
      BY <2>2, <3>1, <3>3
  <2> QED
    BY <2>3, <2>4, <2>5, <2>6
<1>5. /\ SumOver(dropped', Cpus) = Cardinality(At({"ringbuf_full"})')
      /\ \A c \in Cpus : run'[c].at = "store" => run'[c].lost = dropped'[c]
  <2>0. /\ dropped \in [Cpus -> Nat] /\ NatOn(dropped, Cpus)
        /\ run \in [Cpus -> [at : {"idle", "reserve", "submit", "load", "store"},
                             id : Nat, kind : Kinds, lost : Nat]]
    BY <1>0 DEF ProbeTypeOK, NatOn
  <2>1. ASSUME NEW c \in Cpus, StoreLost(c)
        PROVE  /\ SumOver(dropped', Cpus) = Cardinality(At({"ringbuf_full"})')
               /\ \A d \in Cpus : run'[d].at = "store" =>
                                      run'[d].lost = dropped'[d]
    <3>1. /\ run[c].lost = dropped[c] /\ run[c].id \in Ids
          /\ place[run[c].id] = "program"
      BY <1>0, <2>1 DEF StoreLost, Ledger, ProbeTypeOK, RunLocated, Held
    <3>2. /\ dropped'[c] = dropped[c] + 1
          /\ \A d \in Cpus \ {c} : dropped'[d] = dropped[d]
      BY <2>0, <2>1, <3>1 DEF StoreLost, LossSlot
    <3>3. SumOver(dropped', Cpus) = SumOver(dropped, Cpus) + 1
      BY <2>0, <3>2, ProbeAssumption, SumBump
    <3>4. Cardinality(At({"ringbuf_full"})')
            = Cardinality(At({"ringbuf_full"})) + 1
      BY <2>1, <3>1, AtOneMore DEF StoreLost
    <3>5. \A d \in Cpus : run'[d].at = "store" => run'[d].lost = dropped'[d]
      BY <2>1, <3>2, ProgramStep DEF Ledger
    <3> QED
      BY <3>3, <3>4, <3>5 DEF Ledger
  <2>2. ASSUME UNCHANGED dropped, \A c \in Cpus : ~StoreLost(c)
        PROVE  SumOver(dropped', Cpus) = Cardinality(At({"ringbuf_full"})')
    <3>1. \A i \in Ids : place'[i] \in {"ringbuf_full"} <=>
                         place[i] \in {"ringbuf_full"}
      BY <1>1, <2>2 DEF Move
    <3>2. At({"ringbuf_full"})' = At({"ringbuf_full"})
      BY <3>1, AtSame
    <3> QED
      BY <2>2, <3>2, Zenon DEF Ledger
  <2>3. ASSUME UNCHANGED dropped,
               \A d \in Cpus : \/ run'[d].at # "store"
                               \/ run'[d] = run[d]
                               \/ run'[d].lost = dropped[d]
        PROVE  \A d \in Cpus : run'[d].at = "store" => run'[d].lost = dropped'[d]
    BY <2>3 DEF Ledger
  <2>4. ASSUME NEW c \in Cpus, NEW q \in Requests, Observe(c, q)
        PROVE  \A d \in Cpus : run'[d].at # "store" \/ run'[d] = run[d]
    BY <2>0, <2>4 DEF Observe
  <2>5. ASSUME NEW c \in Cpus, LoadLost(c), NEW d \in Cpus
        PROVE  run'[d] = run[d] \/ run'[d].lost = dropped[d]
    <3>1. CASE d = c
      <4>1. run'[c] = [run[c] EXCEPT !.at = "store", !.lost = dropped[c]]
        BY <2>0, <2>5 DEF LoadLost, LossSlot
      <4> QED
        BY <2>0, <3>1, <4>1
    <3> QED
      BY <2>5, <3>1, ProgramStep
  <2>6. ASSUME NEW c \in Cpus, Reserve(c) \/ ReserveFails(c) \/ Submit(c)
        PROVE  \A d \in Cpus : run'[d].at # "store" \/ run'[d] = run[d]
    <3>1. run'[c].at # "store"
      BY <2>0, <2>6 DEF Reserve, ReserveFails, Submit, Idle
    <3> QED
      BY <2>6, <3>1, ProgramStep
  <2>7. CASE KernelStep /\ \A c \in Cpus : ~StoreLost(c)
    <3>1. UNCHANGED dropped
      BY <2>7 DEF KernelStep, Observe, Ignore, Reserve, ReserveFails, LoadLost,
                  Submit
    <3>2. CASE UNCHANGED run
      BY <2>2, <2>3, <2>7, <3>1, <3>2
    <3> QED
      BY <2>2, <2>3, <2>4, <2>5, <2>6, <2>7, <3>1, <3>2 DEF KernelStep, Ignore
  <2>8. CASE UNCHANGED <<dropped, run>>
    <3>1. \A c \in Cpus : ~StoreLost(c)
      BY <2>0, <2>8 DEF StoreLost, Idle
    <3> QED
      BY <2>2, <2>3, <2>8, <3>1
  <2> QED
    BY <2>1, <2>7, <2>8, NextCases
       DEF NewLoader, Discover, Attach, StartServer, CreateReader,
           StartGoroutines, SkipDevice, FillDevice, ReadEvent, ReadClosed,
           Enqueue, SelectDefault, EnqueueFull, WaitWorkers, CloseLoader,
           CloseObjects, WorkerRecv, WorkerAnswer, WorkerLogs, WorkerDrops,
           WorkerCounts, WorkerExit, SigReceive, SigShutdown, SigCloseReader,
           SigCloseDone, ServerListen, ServerFail, Signal, Killed, vars,
           probeVars
<1> QED
  BY <1>3, <1>4, <1>5 DEF Ledger

LEMMA LedgerInvariant == Spec => [](Reserved /\ Handed /\ Sifted /\ Ledger)
<1>1. Init => Reserved /\ Handed /\ Sifted /\ Ledger
  <2> SUFFICES ASSUME Init PROVE Reserved /\ Handed /\ Sifted /\ Ledger
    OBVIOUS
  <2>1. /\ run = [c \in Cpus |-> Idle] /\ dropped = [c \in Cpus |-> 0]
        /\ hand = NoEvent /\ Ids = {} /\ ioctlTotal = EmptyMap
        /\ eventsDropped = [r \in dropReasons |-> 0]
    BY DEF Init, ProbeInit, Ids
  <2>2. Reserved /\ Handed /\ Sifted
    BY <2>1 DEF Reserved, Handed, Sifted, Idle
  <2>3. ASSUME NEW P PROVE Cardinality(At(P)) = 0
    <3>1. At(P) = {}
      BY <2>1 DEF At
    <3> QED
      BY <3>1, FS_EmptySet
  <2>4. DOMAIN ioctlTotal = {}
    BY <2>1 DEF EmptyMap
  <2>5. SumOver(ioctlTotal, {}) = 0
    BY SumEmpty
  <2>6. SumOver(dropped, Cpus) = 0
    BY <2>1, ProbeAssumption, SumZero
  <2>7. SumOver(eventsDropped, dropReasons) = 0
    BY <2>1, ReasonsFinite, SumZero
  <2>8. \A c \in Cpus : run[c].at # "store"
    BY <2>1 DEF Idle
  <2>9. SumOver(ioctlTotal, DOMAIN ioctlTotal) = 0 /\ IsFiniteSet(DOMAIN ioctlTotal)
    BY <2>4, <2>5, FS_EmptySet, Zenon
  <2> QED
    BY <2>2, <2>3, <2>6, <2>7, <2>8, <2>9 DEF Ledger
<1>2. /\ Typed /\ MapsTrue /\ Carried /\ MapsComplete /\ Gated /\ Located
      /\ Reserved /\ Handed /\ Sifted /\ Ledger /\ [Next]_vars
      => (Reserved /\ Handed /\ Sifted /\ Ledger)'
  BY ReservedKept, HandedKept, SiftedKept, LedgerKept
<1> QED
  BY <1>1, <1>2, GatedInvariant, TrackedInvariant, PTL DEF Spec

Unsettled == {"program", "ring", "hand", "queue", "worker"}

\* The records somebody holds are the calls that wait for their verdict.
LEMMA InFlightIs ==
    ASSUME Typed, Carried, Located, Tracked, Reserved, Handed
    PROVE  InFlight = At(Unsettled)
<1>0. /\ ProbeTypeOK /\ ReaderTypeOK /\ WorkerTypeOK /\ RingFits /\ QueueFits
      /\ WorkerFits /\ RunLocated /\ RingLocated /\ QueueLocated /\ WorkLocated
      /\ RunTracked /\ RingTracked /\ QueueTracked /\ HandTracked /\ WorkTracked
  BY DEF Typed, TypeOK, Carried, Located, Tracked
<1>1. DOMAIN events = 1 .. Len(events) /\ DOMAIN queue = 1 .. Len(queue)
  BY <1>0 DEF ProbeTypeOK, ReaderTypeOK
<1>2. ASSUME NEW k \in 1 .. Len(events)
      PROVE  events[k].id \in Ids /\ place[events[k].id] = "ring"
  BY <1>0 DEF RingFits, Faithful, Fits, RingLocated
<1>3. ASSUME NEW c \in Cpus, run[c].id # 0 PROVE run[c].id \in At(Unsettled)
  <2>1. CASE run[c].at \in Held
    BY <1>0, <2>1 DEF ProbeTypeOK, RunLocated, At, Unsettled, Held
  <2>2. CASE run[c].at = "submit"
    BY <1>2, <2>2 DEF Reserved, At, Unsettled
  <2> QED
    BY <1>0, <1>3, <2>1, <2>2 DEF Reserved, ProbeTypeOK, Held
<1>4. ASSUME NEW k \in 1 .. Len(queue) PROVE queue[k].id \in At(Unsettled)
  BY <1>0 DEF QueueFits, Faithful, Fits, QueueLocated, At, Unsettled
<1>5. ASSUME hand.id # 0 PROVE hand.id \in At(Unsettled)
  BY <1>5 DEF Handed, NoEvent, At, Unsettled
<1>6. ASSUME work.id # 0 PROVE work.id \in At(Unsettled)
  <2>1. worker = "lookup"
    BY <1>0, <1>6 DEF WorkerTypeOK, NoEvent
  <2> QED
    BY <1>0, <2>1 DEF WorkerFits, Faithful, Fits, WorkLocated, At, Unsettled
<1>7. ASSUME NEW i \in InFlight PROVE i \in At(Unsettled)
  <2>1. CASE \E c \in Cpus : i = run[c].id
    BY <1>3, <1>7, <2>1 DEF InFlight
  <2>2. CASE \E k \in DOMAIN events : i = events[k].id
    BY <1>1, <1>2, <2>2 DEF At, Unsettled
  <2>3. CASE \E k \in DOMAIN queue : i = queue[k].id
    BY <1>1, <1>4, <2>3
  <2> QED
    BY <1>5, <1>6, <1>7, <2>1, <2>2, <2>3 DEF InFlight
<1>8. ASSUME NEW i \in At(Unsettled) PROVE i \in InFlight
  <2>1. i \in Ids /\ place[i] \in Unsettled /\ i # 0
    BY DEF At, Ids
  <2>2. CASE place[i] = "program"
    BY <1>0, <2>1, <2>2 DEF RunTracked, InFlight
  <2>3. CASE place[i] = "ring"
    BY <1>0, <1>1, <2>1, <2>3 DEF RingTracked, InFlight
  <2>4. CASE place[i] = "queue"
    BY <1>0, <1>1, <2>1, <2>4 DEF QueueTracked, InFlight
  <2>5. CASE place[i] = "hand" \/ place[i] = "worker"
    BY <1>0, <2>1, <2>5 DEF HandTracked, WorkTracked, InFlight
  <2> QED
    BY <2>1, <2>2, <2>3, <2>4, <2>5 DEF Unsettled
<1> QED
  BY <1>7, <1>8

\* The ledger balances in every state, during startup and shutdown too: the
\* supported calls are those in flight, those the two kinds of counters show,
\* and those whose lookup failed with an error main only logs
\* (bpf/drm_common.bpf.c:66-84, cmd/agent/main.go:199-262).
THEOREM ConservationHolds == Spec => []Conservation
<1>1. ASSUME Typed, Carried, Located, Tracked, Reserved, Handed, Sifted, Ledger
      PROVE  Conservation
  <2> DEFINE A == Unsettled
             B == {"counted"}
             C == dropReasons
             D == {"ringbuf_full"}
             E == {"logged"}
  <2>1. {i \in Ids : Supported(calls[i])} = At(A \cup (B \cup (C \cup (D \cup E))))
    <3>1. ASSUME NEW i \in Ids
          PROVE  Supported(calls[i]) <=>
                   place[i] \in A \cup (B \cup (C \cup (D \cup E)))
      <4>1. place[i] \in Places
        BY <1>1 DEF Typed, TypeOK, HistoryTypeOK, Ids
      <4> QED
        BY <1>1, <4>1 DEF Sifted, Places, Final, dropReasons, Unsettled
    <3> QED
      BY <3>1 DEF At
  <2>2. /\ A \cap (B \cup (C \cup (D \cup E))) = {}
        /\ B \cap (C \cup (D \cup E)) = {}
        /\ C \cap (D \cup E) = {} /\ D \cap E = {}
    BY DEF dropReasons, Unsettled
  <2> HIDE DEF A, B, C, D, E
  <2>3. /\ Cardinality(At(A \cup (B \cup (C \cup (D \cup E)))))
             = Cardinality(At(A)) + Cardinality(At(B \cup (C \cup (D \cup E))))
        /\ Cardinality(At(B \cup (C \cup (D \cup E))))
             = Cardinality(At(B)) + Cardinality(At(C \cup (D \cup E)))
        /\ Cardinality(At(C \cup (D \cup E)))
             = Cardinality(At(C)) + Cardinality(At(D \cup E))
        /\ Cardinality(At(D \cup E)) = Cardinality(At(D)) + Cardinality(At(E))
    BY <1>1, <2>2, AtUnion
  <2>4. InFlight = At(A)
    BY <1>1, InFlightIs DEF A
  <2>5. /\ SumOver(ioctlTotal, DOMAIN ioctlTotal) = Cardinality(At(B))
        /\ SumOver(eventsDropped, dropReasons) = Cardinality(At(C))
        /\ SumOver(dropped, Cpus) = Cardinality(At(D))
    BY <1>1 DEF Ledger, B, C, D
  <2>6. {i \in Ids : place[i] = "logged"} = At(E)
    BY DEF At, E
  <2>7. /\ Cardinality(At(A)) \in Nat /\ Cardinality(At(B)) \in Nat
        /\ Cardinality(At(C)) \in Nat /\ Cardinality(At(D)) \in Nat
        /\ Cardinality(At(E)) \in Nat
    BY <1>1, AtFinite
  <2>8. Cardinality(At(A \cup (B \cup (C \cup (D \cup E)))))
          = Cardinality(At(A)) + Cardinality(At(B)) + Cardinality(At(C))
            + Cardinality(At(D)) + Cardinality(At(E))
    BY <2>3, <2>7
  <2> QED
    BY <2>1, <2>4, <2>5, <2>6, <2>8, Zenon DEF Conservation
<1> QED
  BY <1>1, LedgerInvariant, GatedInvariant, TrackedInvariant, PTL

-----------------------------------------------------------------------------
(* The agent implements Accounting.  The abstract specification has its own *)
(* copy of the ground truth, over the same constants.                       *)

LEMMA AppendIs ==
    ASSUME NEW S, NEW s \in Seq(S), NEW x \in S
    PROVE  Append(s, x) = [i \in 1 .. Len(s) + 1 |->
                             IF i = Len(s) + 1 THEN x ELSE s[i]]
<1> DEFINE n == Len(s)
           t == [i \in 1 .. n + 1 |-> IF i = n + 1 THEN x ELSE s[i]]
<1>1. n \in Nat /\ \A i \in 1 .. n : s[i] \in S
  OBVIOUS
<1>2. t \in [1 .. n + 1 -> S]
  BY <1>1
<1>3. t \in Seq(S) /\ Len(t) = n + 1
  BY <1>1, <1>2
<1>4. \A i \in 1 .. n + 1 : Append(s, x)[i] = t[i]
  OBVIOUS
<1>5. Append(s, x) \in Seq(S) /\ Len(Append(s, x)) = n + 1
  BY SeqAppend
<1> HIDE DEF t
<1> QED
  BY <1>3, <1>4, <1>5, SeqEqual DEF t

LEMMA SameTruth ==
    ASSUME NEW q
    PROVE  /\ Acc!Supported(q) <=> Supported(q)
           /\ Acc!TrueKey(q) = TrueKey(q)
<1>1. /\ \A d : Acc!VendorOf(d) = VendorOf(d)
      /\ \A n : Acc!DeviceOf(n) = DeviceOf(n)
      /\ \A n : Acc!Nr(n) = Nr(n)
      /\ Acc!NoVendor = NoVendor
  BY DEF Acc!VendorOf, VendorOf, Acc!GetVendor, GetVendor,
         Acc!registeredVendors, registeredVendors, Acc!Match, Match,
         Acc!MatchI915, MatchI915, Acc!MatchIvpu, MatchIvpu, Acc!NoVendor,
         NoVendor, Acc!DeviceOf, DeviceOf, Acc!Nr, Nr
<1>2. \A v : Acc!Ioctls(v) = Ioctls(v)
  BY DEF Acc!Ioctls, Ioctls, Acc!IoctlsI915, IoctlsI915, Acc!IoctlsIvpu,
         IoctlsIvpu, Acc!KindSubmit, KindSubmit, Acc!KindAlloc, KindAlloc,
         Acc!KindWait, KindWait
<1>3. \A k : Acc!KindString(k) = KindString(k)
  BY DEF Acc!KindString, KindString, Acc!KindSubmit, KindSubmit,
         Acc!KindAlloc, KindAlloc, Acc!KindWait, KindWait
<1>4. Acc!Supported(q) <=> Supported(q)
  BY <1>1, <1>2 DEF Acc!Supported, Supported, Acc!SupportedOn, SupportedOn
<1>5. Acc!TrueKey(q) = TrueKey(q)
  BY <1>1, <1>2, <1>3 DEF Acc!TrueKey, TrueKey
<1> QED
  BY <1>4, <1>5

LEMMA SameIncrement ==
    ASSUME NEW m, NEW k PROVE Acc!Increment(m, k) = Increment(m, k)
  BY DEF Acc!Increment, Increment, Acc!Put, Put

\* A step that moves records between the stages is invisible.
LEMMA SameVerdict ==
    ASSUME calls' = calls,
           \A i \in Ids : \/ place'[i] = place[i]
                          \/ place[i] \notin Final /\ place'[i] \notin Final
    PROVE  Verdict' = Verdict
<1>1. Ids' = Ids
  BY DEF Ids
<1> QED
  BY <1>1 DEF Verdict

\* A step that gives call i its final place is the abstract verdict on i.
LEMMA SettleStep ==
    ASSUME Typed, calls' = calls, NEW i \in Ids, NEW p \in Final,
           place[i] \notin Final, MoveTo(i, p)
    PROVE  Acc!Settle(i, p)
<1>0. /\ place \in Seq(Places) /\ calls \in Seq(Requests)
      /\ Len(place) = Len(calls) /\ DOMAIN calls = Ids /\ DOMAIN place = Ids
  BY DEF Typed, TypeOK, HistoryTypeOK, Ids
<1>1. \A j \in Ids : place'[j] = IF j = i THEN p ELSE place[j]
  BY <1>0 DEF MoveTo
<1>2. Ids' = Ids
  BY DEF Ids
<1>3. Verdict' = [Verdict EXCEPT ![i] = p]
  BY <1>1, <1>2 DEF Verdict
<1>4. Verdict[i] = "pending"
  BY DEF Verdict
<1> QED
  BY <1>0, <1>3, <1>4 DEF Acc!Settle

\* A step that adds a call is its arrival.
LEMMA Arrived ==
    ASSUME Typed, NEW q, NEW p \in Places,
           calls' = Append(calls, q), place' = Append(place, p)
    PROVE  Verdict' = Append(Verdict, IF p \in Final THEN p ELSE "pending")
<1>0. /\ place \in Seq(Places) /\ calls \in Seq(Requests)
      /\ Len(place) = Len(calls) /\ Len(calls) \in Nat
  BY DEF Typed, TypeOK, HistoryTypeOK
<1> DEFINE v == IF p \in Final THEN p ELSE "pending"
           n == Len(calls)
<1>1. Ids = 1 .. n /\ Ids' = 1 .. n + 1
  BY <1>0 DEF Ids
<1>2. \A i \in 1 .. n + 1 : place'[i] = IF i = n + 1 THEN p ELSE place[i]
  BY <1>0
<1>3. Verdict' = [i \in 1 .. n + 1 |-> IF i = n + 1 THEN v ELSE Verdict[i]]
  BY <1>0, <1>1, <1>2 DEF Verdict
<1>4. /\ Verdict \in Seq(Final \cup {"pending"}) /\ Len(Verdict) = n
      /\ n \in Nat
  <2>1. Verdict \in [1 .. n -> Final \cup {"pending"}]
    BY <1>1 DEF Verdict
  <2> QED
    BY <1>0, <2>1
<1>5. v \in Final \cup {"pending"}
  OBVIOUS
<1> HIDE DEF v, n
<1>6. Append(Verdict, v) = [i \in 1 .. Len(Verdict) + 1 |->
                              IF i = Len(Verdict) + 1 THEN v ELSE Verdict[i]]
  BY <1>4, <1>5, AppendIs
<1>7. Len(Verdict) = n
  BY <1>4
<1>8. Append(Verdict, v) = [i \in 1 .. n + 1 |->
                              IF i = n + 1 THEN v ELSE Verdict[i]]
  BY <1>6, <1>7, Zenon
<1>9. Verdict' = Append(Verdict, v)
  BY <1>3, <1>8, Zenon
<1> QED
  BY <1>9, Zenon DEF v

LEMMA InitAccounting == Init => Acc!AccInit
<1> SUFFICES ASSUME Init PROVE Acc!AccInit
  OBVIOUS
<1>1. calls = << >> /\ place = << >> /\ Ids = {}
  BY DEF Init, ProbeInit, Ids
<1>2. Verdict = << >>
  BY <1>1 DEF Verdict
<1> QED
  BY <1>1, <1>2 DEF Acc!AccInit, Init, EmptyMap, Acc!EmptyMap, dropReasons,
                    Acc!dropReasons

LEMMA AccountingStep ==
    ASSUME Typed, MapsTrue, Carried, MapsComplete, Gated, Located, [Next]_vars
    PROVE  [Acc!AccNext]_(Acc!accVars)
<1>0. /\ HistoryTypeOK /\ ProbeTypeOK /\ WorkerTypeOK /\ ReaderTypeOK
      /\ RunLocated /\ HandLocated /\ WorkLocated /\ RingLocated
      /\ QueueLocated /\ RunFits /\ HandFits /\ QueueFits /\ WorkerFits
  BY DEF Typed, TypeOK, Located, Carried
<1>1. \A j \in Ids : place'[j] = place[j] \/ Move(j)
  BY Moves
<1>2. /\ "program" \in Places \ Final /\ "ring" \notin Final
      /\ "hand" \notin Final /\ "queue" \notin Final /\ "worker" \notin Final
      /\ "ignored" \in Places /\ "ignored" \in Final
      /\ {"ringbuf_full", "queue_full", "logged", "counted", "not_pod",
          "not_indexed", "container_not_found"} \subseteq Final
  BY DEF Final, Places, dropReasons
<1>3. calls \in Seq(Requests) /\ DOMAIN calls = Ids
  BY <1>0 DEF HistoryTypeOK, Ids
\* A call enters the program.
<1>4. ASSUME NEW c \in Cpus, NEW q \in Requests, Observe(c, q) \/ Ignore(c, q),
             UNCHANGED userVars
      PROVE  Acc!Arrive(q)
  <2>1. InFilter(q) <=> Supported(q)
    BY <1>4, FilterExact DEF Gated, Observe, Ignore
  <2>2. UNCHANGED <<ioctlTotal, eventsDropped>>
    BY <1>4 DEF userVars, metricsVars
  <2>3. CASE Observe(c, q)
    BY <1>2, <2>1, <2>2, <2>3, Arrived, SameTruth DEF Observe, Acc!Arrive
  <2>4. CASE Ignore(c, q)
    BY <1>2, <2>1, <2>2, <2>4, Arrived, SameTruth DEF Ignore, Acc!Arrive
  <2> QED
    BY <1>4, <2>3, <2>4
\* The kernel counts a loss.
<1>5. ASSUME NEW c \in Cpus, StoreLost(c), UNCHANGED userVars
      PROVE  \E i \in DOMAIN calls : Acc!Lose(i, "ringbuf_full")
  <2>1. run[c].id \in Ids /\ place[run[c].id] = "program"
    BY <1>0, <1>5 DEF StoreLost, ProbeTypeOK, RunLocated, Held
  <2>2. Acc!Settle(run[c].id, "ringbuf_full")
    BY <1>2, <1>5, <2>1, SettleStep DEF StoreLost
  <2> QED
    BY <1>3, <1>5, <2>1, <2>2 DEF Acc!Lose, userVars, metricsVars
\* The channel is full.
<1>6. ASSUME EnqueueFull PROVE \E i \in DOMAIN calls : Acc!Drop(i, "queue_full")
  <2>1. hand.id \in Ids /\ place[hand.id] = "hand"
    BY <1>0, <1>6 DEF EnqueueFull, HandFits, Faithful, Fits, HandLocated
  <2>2. Acc!Settle(hand.id, "queue_full")
    BY <1>2, <1>6, <2>1, SettleStep DEF EnqueueFull
  <2> QED
    BY <1>3, <1>6, <2>1, <2>2, SameIncrement
       DEF EnqueueFull, IncEventsDropped, Acc!Drop
\* The worker is done with an event.
<1>7. ASSUME WorkerLogs \/ WorkerDrops \/ WorkerCounts
      PROVE  \E i \in DOMAIN calls :
                 \/ Acc!Count(i)
                 \/ \E r \in dropReasons : Acc!Drop(i, r)
                 \/ Acc!Lose(i, "logged")
  <2>1. worker = "lookup" /\ lookup.st = "done"
    BY <1>7 DEF WorkerLogs, WorkerDrops, WorkerCounts
  <2> DEFINE i == work.id
             a == lookup.ans
  <2>2. /\ i \in Ids /\ place[i] = "worker"
        /\ a \in Permitted(calls[i].cgroup)
    BY <1>0, <2>1 DEF WorkerFits, Faithful, Fits, WorkLocated
  <2>3. CASE WorkerLogs
    <3>1. Acc!Settle(i, "logged")
      BY <1>2, <2>2, <2>3, SettleStep DEF WorkerLogs
    <3> QED
      BY <1>3, <2>2, <2>3, <3>1 DEF WorkerLogs, metricsVars, Acc!Lose
  <2>4. CASE WorkerDrops
    <3>1. a.err \in {"not_pod", "not_indexed", "container_not_found"}
          /\ (a.err = "not_pod" => Owner[calls[i].cgroup] = NoPod)
      BY <2>2, <2>4 DEF WorkerDrops, Permitted, Failure, Success
    <3>2. Acc!Settle(i, a.err)
      BY <1>2, <2>2, <2>4, <3>1, SettleStep DEF WorkerDrops
    <3>3. Acc!Drop(i, a.err)
      BY <2>4, <3>1, <3>2, SameIncrement
         DEF WorkerDrops, IncEventsDropped, Acc!Drop
    <3> QED
      BY <1>3, <2>2, <3>1, <3>3 DEF dropReasons
  <2>5. CASE WorkerCounts
    <3>1. Owner[calls[i].cgroup] # NoPod
      BY <2>2, <2>5 DEF WorkerCounts, Permitted, Failure, Success
    <3>2. Acc!Settle(i, "counted")
      BY <1>2, <2>2, <2>5, SettleStep DEF WorkerCounts
    <3>3. Acc!Count(i)
      BY <2>5, <3>1, <3>2, SameIncrement, SameTruth, LabelsTrue
         DEF WorkerCounts, IncIoctl, Acc!Count
    <3> QED
      BY <1>3, <2>2, <3>3
  <2> QED
    BY <1>7, <2>3, <2>4, <2>5
\* The worker knows the device of every event.
<1>8. ASSUME calls' = calls, UNCHANGED <<ioctlTotal, eventsDropped>>,
             NEW i, NEW p, MoveTo(i, p), i \in Ids => place[i] \notin Final,
             p \notin Final
      PROVE  UNCHANGED Acc!accVars
  <2>1. \A j \in Ids : place'[j] = IF j = i THEN p ELSE place[j]
    BY <1>0, <1>8 DEF MoveTo, HistoryTypeOK, Ids
  <2> QED
    BY <1>8, <2>1, SameVerdict DEF Acc!accVars
\* The worker knows the device of every event.
<1>9. ASSUME WorkerRecv PROVE UNCHANGED Acc!accVars
  <2>1. Head(queue) = queue[1] /\ 1 \in 1 .. Len(queue)
    BY <1>0, <1>9 DEF WorkerRecv, ReaderTypeOK
  <2>2. Head(queue).node \in DOMAIN deviceMap
        /\ place[Head(queue).id] = "queue"
    BY <1>0, <2>1 DEF QueueFits, Faithful, Fits, QueueLocated
  <2>3. /\ MoveTo(Head(queue).id, "worker") /\ calls' = calls
        /\ UNCHANGED <<ioctlTotal, eventsDropped>>
    BY <1>9, <2>2 DEF WorkerRecv, metricsVars
  <2> QED
    BY <1>2, <1>8, <2>2, <2>3
<1>10. ASSUME ReadEvent PROVE UNCHANGED Acc!accVars
  <2>1. Head(events) = events[1] /\ 1 \in 1 .. Len(events)
    BY <1>0, <1>10 DEF ReadEvent, ReadRecord, ProbeTypeOK
  <2>2. place[Head(events).id] = "ring"
    BY <1>0, <2>1 DEF RingLocated
  <2> QED
    BY <1>2, <1>8, <1>10, <2>2 DEF ReadEvent, metricsVars
<1>11. ASSUME Enqueue PROVE UNCHANGED Acc!accVars
  BY <1>0, <1>2, <1>8, <1>11 DEF Enqueue, metricsVars, HandLocated
<1>12. ASSUME NEW c \in Cpus, Reserve(c), UNCHANGED userVars
       PROVE  UNCHANGED Acc!accVars
  <2>1. place[run[c].id] = "program"
    BY <1>0, <1>12 DEF Reserve, RunLocated, Held
  <2> QED
    BY <1>2, <1>8, <1>12, <2>1 DEF Reserve, userVars, metricsVars
<1>13. CASE UNCHANGED <<calls, place, ioctlTotal, eventsDropped>>
  BY <1>13, SameVerdict DEF Acc!accVars
<1>14. CASE KernelStep /\ UNCHANGED userVars
  <2>1. PICK c \in Cpus :
             \/ \E q \in Requests : Observe(c, q) \/ Ignore(c, q)
             \/ Reserve(c) \/ ReserveFails(c) \/ LoadLost(c) \/ StoreLost(c)
             \/ Submit(c)
    BY <1>14 DEF KernelStep
  <2>2. CASE ReserveFails(c) \/ LoadLost(c) \/ Submit(c)
    BY <1>13, <1>14, <2>2
       DEF ReserveFails, LoadLost, Submit, userVars, metricsVars
  <2> QED
    BY <1>4, <1>5, <1>12, <1>14, <2>1, <2>2 DEF Acc!AccNext
<1>15. CASE \/ EnqueueFull \/ WorkerLogs \/ WorkerDrops \/ WorkerCounts
  <2>1. dropReasons = Acc!dropReasons /\ "queue_full" \in dropReasons
    BY DEF dropReasons, Acc!dropReasons
  <2> QED
    BY <1>6, <1>7, <1>15, <2>1 DEF Acc!AccNext
<1> QED
  BY <1>9, <1>10, <1>11, <1>13, <1>14, <1>15, NextCases
     DEF NewLoader, Discover, Attach, StartServer, CreateReader,
         StartGoroutines, SkipDevice, FillDevice, ReadClosed, SelectDefault,
         WaitWorkers, CloseLoader, CloseObjects, WorkerAnswer, WorkerExit,
         SigReceive, SigShutdown, SigCloseReader, SigCloseDone, ServerListen,
         ServerFail, Signal, Killed, vars, probeVars, metricsVars

\* Every step of the kernel program and of the four goroutines is one step of
\* the abstract accounting or invisible to it: a call gets at most one verdict,
\* and the verdict moves one counter by one, under the true labels
\* (bpf/drm_common.bpf.c:45-86, cmd/agent/main.go:199-262).
THEOREM AgentImplementsAccounting == Spec => ImplementsAccounting
<1>1. /\ Typed /\ MapsTrue /\ Carried /\ MapsComplete /\ Gated /\ Located
      /\ [Next]_vars
      => [Acc!AccNext]_(Acc!accVars)
  BY AccountingStep
<1> QED
  BY <1>1, InitAccounting, GatedInvariant, TrackedInvariant, PTL
     DEF Spec, ImplementsAccounting, Acc!AccSpec

=============================================================================
