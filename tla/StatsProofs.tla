----------------------------- MODULE StatsProofs -----------------------------
(***************************************************************************)
(* Proofs about the queries and the statistics: what get_all and the loop  *)
(* of analyze return for every trace.                                      *)
(*                                                                         *)
(* The loop is a fold, a function defined by recursion on sets of indices. *)
(* That the recursion has a solution, and what it amounts to, is shown by  *)
(* looking at the least index at which it would fail (LeastNumber).        *)
(***************************************************************************)
EXTENDS TraceStats, FiniteSetTheorems, WellFoundedInduction, TLAPS

-----------------------------------------------------------------------------
(* Numbers. *)

\* A non-empty set of natural numbers has a least element.
LEMMA LeastNumber ==
  ASSUME NEW T, T \subseteq Nat, T # {}
  PROVE  \E x \in T : \A y \in T : x <= y
<1>1. PICK x \in T : \A y \in T : ~(<< y, x >> \in OpToRel(<, Nat))
  BY NatLessThanWellFounded, WFMin
<1>2. \A y \in T : ~(y < x)
  BY <1>1 DEF OpToRel
<1> QED
  BY <1>2

\* Induction up to n: a set that holds 0 and, with each k < n, also k + 1.
LEMMA UpTo ==
  ASSUME NEW n \in Nat, NEW P, 0 \in P, \A k \in 0 .. n - 1 : k \in P => k + 1 \in P
  PROVE  \A k \in 0 .. n : k \in P
<1> DEFINE T == {k \in 0 .. n : k \notin P}
<1> SUFFICES ASSUME T # {} PROVE FALSE
  OBVIOUS
<1>1. T \subseteq Nat
  OBVIOUS
<1>2. PICK x \in T : \A y \in T : x <= y
  BY <1>1, LeastNumber
<1>3. x \in 0 .. n /\ x \notin P /\ x # 0
  BY <1>2
<1>4. x - 1 \in 0 .. n - 1 /\ x - 1 \in 0 .. n /\ ~(x <= x - 1)
  BY <1>3
<1>5. x - 1 \in P
  BY <1>2, <1>4
<1> QED
  BY <1>3, <1>4, <1>5

\* A non-empty set of indices has a greatest element, which Max returns.
LEMMA MaxIndex ==
  ASSUME NEW n \in Nat, NEW S, S \subseteq 1 .. n, S # {}
  PROVE  Max(S) \in S /\ \A y \in S : Max(S) >= y
<1> DEFINE T == {n - y : y \in S}
<1>1. T \subseteq Nat
  <2>1. \A y \in S : n - y \in Nat
    OBVIOUS
  <2> QED
    BY <2>1
<1>2. PICK x \in T : \A y \in T : x <= y
  <2>1. T # {}
    OBVIOUS
  <2> QED
    BY <1>1, <2>1, LeastNumber
<1>3. PICK m \in S : x = n - m
  BY <1>2
<1>4. \A y \in S : m >= y
  BY <1>2, <1>3
<1> QED
  BY <1>4 DEF Max

-----------------------------------------------------------------------------
(* The fold of analyze. *)

Zero == [calls |-> 0, returns |-> 0, jumps |-> 0, mem |-> 0]

\* One turn of the loop.
Add(t, e) == [calls   |-> t.calls + One(e.insn \in Calls),
              returns |-> t.returns + One(e.insn \in Returns),
              jumps   |-> t.jumps + One(e.insn \in Branches),
              mem     |-> t.mem + Cardinality(e.mem_changes)]

\* g is the fold on the sets of indices up to n.
IsFold(list, n, g) ==
  g = [s \in SUBSET (1 .. n) |->
         IF s = {} THEN Zero ELSE Add(g[s \ {Max(s)}], list[Max(s)])]

Fold(list, n) == CHOOSE g : IsFold(list, n, g)

\* The recursion has a solution.
LEMMA FoldExists ==
  ASSUME NEW list, NEW n \in Nat
  PROVE  \E g : IsFold(list, n, g)
<1> DEFINE P == {k \in Nat : \E g : IsFold(list, k, g)}
<1>1. 0 \in P
  <2> DEFINE g == [s \in {{}} |-> Zero]
  <2>1. SUBSET (1 .. 0) = {{}}
    OBVIOUS
  <2>2. IsFold(list, 0, g)
    BY <2>1 DEF IsFold
  <2> QED
    BY <2>2
<1>2. ASSUME NEW k \in 0 .. n - 1, k \in P
      PROVE  k + 1 \in P
  <2>0. k \in Nat /\ k + 1 \in Nat
    OBVIOUS
  <2>1. PICK g : IsFold(list, k, g)
    BY <1>2
  <2> DEFINE h == [s \in SUBSET (1 .. k + 1) |->
                     IF k + 1 \in s THEN Add(g[s \ {k + 1}], list[k + 1]) ELSE g[s]]
  <2>2. ASSUME NEW s \in SUBSET (1 .. k + 1)
        PROVE  h[s] = IF s = {} THEN Zero ELSE Add(h[s \ {Max(s)}], list[Max(s)])
    <3>1. CASE k + 1 \in s
      <4>1. Max(s) \in s /\ Max(s) >= k + 1
        BY <2>0, <2>2, <3>1, MaxIndex
      <4>2. Max(s) = k + 1
        <5>1. Max(s) \in 1 .. k + 1
          BY <4>1
        <5> QED
          BY <2>0, <4>1, <5>1
      <4>3. s \ {k + 1} \in SUBSET (1 .. k + 1) /\ k + 1 \notin s \ {k + 1}
        OBVIOUS
      <4>4. h[s \ {k + 1}] = g[s \ {k + 1}]
        BY <4>3
      <4> QED
        BY <3>1, <4>2, <4>4
    <3>2. CASE k + 1 \notin s
      <4>1. s \in SUBSET (1 .. k)
        BY <2>0, <3>2
      <4>2. g[s] = IF s = {} THEN Zero ELSE Add(g[s \ {Max(s)}], list[Max(s)])
        BY <2>1, <4>1 DEF IsFold
      <4>3. h[s] = g[s] /\ h[s \ {Max(s)}] = g[s \ {Max(s)}]
        BY <3>2
      <4> QED
        BY <4>2, <4>3
    <3> QED
      BY <3>1, <3>2
  <2>3. h = [s \in SUBSET (1 .. k + 1) |->
               IF s = {} THEN Zero ELSE Add(h[s \ {Max(s)}], list[Max(s)])]
    BY <2>2
  <2>4. IsFold(list, k + 1, h)
    BY <2>3 DEF IsFold
  <2> HIDE DEF h
  <2> QED
    BY <2>0, <2>4
<1>3. \A k \in 0 .. n : k \in P
  BY <1>1, <1>2, UpTo
<1> QED
  BY <1>3

\* What the fold makes of the first indices.
LEMMA FoldSteps ==
  ASSUME NEW list, NEW n \in Nat
  PROVE  /\ Fold(list, n)[{}] = Zero
         /\ \A k \in 0 .. n - 1 :
              Fold(list, n)[1 .. k + 1] = Add(Fold(list, n)[1 .. k], list[k + 1])
<1> DEFINE g == Fold(list, n)
<1>1. IsFold(list, n, g)
  BY FoldExists DEF Fold
<1> HIDE DEF g
<1>2. \A s \in SUBSET (1 .. n) : g[s] = IF s = {} THEN Zero ELSE Add(g[s \ {Max(s)}], list[Max(s)])
  BY <1>1 DEF IsFold
<1>3. ASSUME NEW k \in 0 .. n - 1
      PROVE  g[1 .. k + 1] = Add(g[1 .. k], list[k + 1])
  <2>1. 1 .. k + 1 \in SUBSET (1 .. n) /\ 1 .. k + 1 # {} /\ k + 1 \in 1 .. k + 1
    OBVIOUS
  <2>2. Max(1 .. k + 1) \in 1 .. k + 1 /\ Max(1 .. k + 1) >= k + 1
    BY <2>1, MaxIndex
  <2>3. Max(1 .. k + 1) = k + 1
    BY <2>2
  <2>4. (1 .. k + 1) \ {k + 1} = 1 .. k
    OBVIOUS
  <2> QED
    BY <1>2, <2>1, <2>3, <2>4
<1> QED
  BY <1>2, <1>3 DEF g

\* Totals is that fold.
LEMMA TotalsIsFold ==
  ASSUME NEW list, NEW n \in Nat, DOMAIN list = 1 .. n
  PROVE  Totals(list) = Fold(list, n)[1 .. n]
BY DEF Totals, FoldLeft, MapThenFoldSet, Fold, IsFold, Add, Zero

-----------------------------------------------------------------------------
(* What the counters count. *)

\* Indices up to k of entries that are counted as calls, returns or jumps.
IndicesOf(list, k, kind) == {j \in 1 .. k : list[j].insn \in kind}

\* One more entry is one more index, if it is of the kind.
LEMMA CountNext ==
  ASSUME NEW list, NEW k \in Nat, NEW kind
  PROVE  /\ IsFiniteSet(IndicesOf(list, k, kind)) /\ Cardinality(IndicesOf(list, k, kind)) \in Nat
         /\ Cardinality(IndicesOf(list, 0, kind)) = 0
         /\ Cardinality(IndicesOf(list, k + 1, kind))
            = Cardinality(IndicesOf(list, k, kind)) + One(list[k + 1].insn \in kind)
<1>1. IsFiniteSet(1 .. k)
  BY FS_Interval
<1>2. IsFiniteSet(IndicesOf(list, k, kind)) /\ Cardinality(IndicesOf(list, k, kind)) \in Nat
  BY <1>1, FS_Subset, FS_CardinalityType DEF IndicesOf
<1>3. IndicesOf(list, 0, kind) = {}
  BY DEF IndicesOf
<1>4. CASE list[k + 1].insn \in kind
  <2>1. IndicesOf(list, k + 1, kind) = IndicesOf(list, k, kind) \cup {k + 1}
        /\ k + 1 \notin IndicesOf(list, k, kind)
    BY <1>4 DEF IndicesOf
  <2>2. Cardinality(IndicesOf(list, k, kind) \cup {k + 1}) = Cardinality(IndicesOf(list, k, kind)) + 1
    BY <1>2, <2>1, FS_AddElement
  <2> QED
    BY <1>2, <1>3, <1>4, <2>1, <2>2, FS_EmptySet DEF One
<1>5. CASE list[k + 1].insn \notin kind
  <2>1. IndicesOf(list, k + 1, kind) = IndicesOf(list, k, kind)
    BY <1>5 DEF IndicesOf
  <2> QED
    BY <1>2, <1>3, <1>5, <2>1, FS_EmptySet DEF One
<1> QED
  BY <1>4, <1>5

\* What the fold has counted after k entries.
Counted(list, k, t) ==
  /\ t \in [calls : Nat, returns : Nat, jumps : Nat, mem : Nat]
  /\ t.calls   = Cardinality(IndicesOf(list, k, Calls))
  /\ t.returns = Cardinality(IndicesOf(list, k, Returns))
  /\ t.jumps   = Cardinality(IndicesOf(list, k, Branches))
  /\ \A j \in 1 .. k : Cardinality(list[j].mem_changes) <= t.mem

\* The counters of a list are the numbers of its calls, returns and branches,
\* and no entry has more memory changes than are counted in all.
THEOREM TotalsCount ==
  ASSUME NEW list, NEW n \in Nat, DOMAIN list = 1 .. n,
         \A j \in 1 .. n : IsFiniteSet(list[j].mem_changes)
  PROVE  Counted(list, n, Totals(list))
<1> DEFINE g == Fold(list, n)
           P == {k \in Nat : Counted(list, k, g[1 .. k])}
<1>1. /\ g[{}] = Zero
      /\ \A k \in 0 .. n - 1 : g[1 .. k + 1] = Add(g[1 .. k], list[k + 1])
  BY FoldSteps
<1> HIDE DEF g
<1>2. 0 \in P
  <2>1. 1 .. 0 = {}
    OBVIOUS
  <2>2. \A kind : Cardinality(IndicesOf(list, 0, kind)) = 0
    BY CountNext
  <2>3. Counted(list, 0, Zero)
    BY <2>1, <2>2 DEF Counted, Zero
  <2> QED
    BY <1>1, <2>1, <2>3
<1>3. ASSUME NEW k \in 0 .. n - 1, k \in P
      PROVE  k + 1 \in P
  <2> DEFINE t == g[1 .. k]
  <2>1. k \in Nat /\ k + 1 \in Nat /\ k + 1 \in 1 .. n
    OBVIOUS
  <2>2. g[1 .. k + 1] = Add(t, list[k + 1]) /\ Counted(list, k, t)
    BY <1>1, <1>3
  <2> HIDE DEF t
  <2>3. Cardinality(list[k + 1].mem_changes) \in Nat
    BY <2>1, FS_CardinalityType
  <2>4. Add(t, list[k + 1]) \in [calls : Nat, returns : Nat, jumps : Nat, mem : Nat]
    BY <2>2, <2>3 DEF Add, One, Counted
  <2>5. /\ Add(t, list[k + 1]).calls = Cardinality(IndicesOf(list, k + 1, Calls))
        /\ Add(t, list[k + 1]).returns = Cardinality(IndicesOf(list, k + 1, Returns))
        /\ Add(t, list[k + 1]).jumps = Cardinality(IndicesOf(list, k + 1, Branches))
    <3>1. \A kind : Cardinality(IndicesOf(list, k + 1, kind))
                     = Cardinality(IndicesOf(list, k, kind)) + One(list[k + 1].insn \in kind)
      BY <2>1, CountNext
    <3> QED
      BY <2>2, <3>1 DEF Add, Counted
  <2>6. ASSUME NEW j \in 1 .. k + 1
        PROVE  Cardinality(list[j].mem_changes) <= Add(t, list[k + 1]).mem
    <3>1. t.mem \in Nat /\ Add(t, list[k + 1]).mem = t.mem + Cardinality(list[k + 1].mem_changes)
      BY <2>2 DEF Add, Counted
    <3>2. CASE j = k + 1
      BY <2>3, <3>1, <3>2
    <3>3. CASE j \in 1 .. k
      <4>1. Cardinality(list[j].mem_changes) <= t.mem /\ Cardinality(list[j].mem_changes) \in Nat
        BY <2>1, <2>2, <3>3, FS_CardinalityType DEF Counted
      <4> QED
        BY <2>3, <3>1, <4>1
    <3> QED
      BY <2>1, <3>2, <3>3
  <2> QED
    BY <2>1, <2>2, <2>4, <2>5, <2>6 DEF Counted
<1>4. n \in P
  <2> HIDE DEF P
  <2>1. \A k \in 0 .. n : k \in P
    BY <1>2, <1>3, UpTo
  <2> QED
    BY <2>1
<1> QED
  BY <1>4, TotalsIsFold DEF g

\* No entries: nothing is counted.
LEMMA TotalsEmpty ==
  ASSUME NEW list, DOMAIN list = 1 .. 0
  PROVE  Totals(list) = Zero
<1>1. 1 .. 0 = {} /\ 0 \in Nat
  OBVIOUS
<1> QED
  BY <1>1, TotalsIsFold, FoldSteps

\* One more entry is one more turn of the loop.
LEMMA TotalsAppend ==
  ASSUME NEW list, NEW longer, NEW n \in Nat, DOMAIN list = 1 .. n, DOMAIN longer = 1 .. n + 1,
         \A k \in 1 .. n : longer[k] = list[k]
  PROVE  Totals(longer) = Add(Totals(list), longer[n + 1])
<1> DEFINE g == Fold(list, n)
           h == Fold(longer, n + 1)
           P == {k \in Nat : h[1 .. k] = g[1 .. k]}
<1>1. /\ g[{}] = Zero
      /\ \A k \in 0 .. n - 1 : g[1 .. k + 1] = Add(g[1 .. k], list[k + 1])
  BY FoldSteps
<1>2. /\ h[{}] = Zero
      /\ \A k \in 0 .. (n + 1) - 1 : h[1 .. k + 1] = Add(h[1 .. k], longer[k + 1])
  BY FoldSteps
<1>3. Totals(list) = g[1 .. n] /\ Totals(longer) = h[1 .. n + 1]
  BY TotalsIsFold
<1> HIDE DEF g, h
<1>4. 0 \in P
  <2>1. 1 .. 0 = {}
    OBVIOUS
  <2> QED
    BY <1>1, <1>2, <2>1
<1>5. ASSUME NEW k \in 0 .. n - 1, k \in P
      PROVE  k + 1 \in P
  <2>1. k \in 0 .. (n + 1) - 1 /\ k + 1 \in 1 .. n /\ k + 1 \in Nat
    OBVIOUS
  <2>2. longer[k + 1] = list[k + 1] /\ h[1 .. k] = g[1 .. k]
    BY <1>5, <2>1
  <2> QED
    BY <1>1, <1>2, <2>1, <2>2
<1>6. n \in P
  <2> HIDE DEF P
  <2>1. \A k \in 0 .. n : k \in P
    BY <1>4, <1>5, UpTo
  <2> QED
    BY <2>1
<1> QED
  BY <1>2, <1>3, <1>6

-----------------------------------------------------------------------------
(* The queries. *)

\* The entries of a trace without gaps, in order.
LEMMA GetAll ==
  ASSUME NEW n \in Nat, NEW d, DOMAIN d = 0 .. n - 1
  PROVE  get_all(d) = [k \in 1 .. n |-> d[k - 1]]
<1>1. Count(d) = n
  BY FS_Interval DEF Count
<1>2. ASSUME NEW s \in 0 .. n - 1
      PROVE  Cardinality({t \in DOMAIN d : t <= s}) = s + 1
  <2>1. {t \in DOMAIN d : t <= s} = 0 .. s
    OBVIOUS
  <2>2. s \in Nat /\ 0 \in Int
    OBVIOUS
  <2>3. Cardinality(0 .. s) = s + 1
    BY <2>2, FS_Interval
  <2> QED
    BY <2>1, <2>3
<1>3. ASSUME NEW k \in 1 .. n
      PROVE  (CHOOSE s \in DOMAIN d : Cardinality({t \in DOMAIN d : t <= s}) = k) = k - 1
  <2>1. k - 1 \in 0 .. n - 1
    OBVIOUS
  <2>2. \A s \in 0 .. n - 1 : Cardinality({t \in DOMAIN d : t <= s}) = k <=> s = k - 1
    BY <1>2
  <2> QED
    BY <2>1, <2>2
<1>4. \A k \in 1 .. Count(d) : d[CHOOSE s \in DOMAIN d : Cardinality({t \in DOMAIN d : t <= s}) = k] = d[k - 1]
  BY <1>1, <1>3
<1> QED
  BY <1>1, <1>4 DEF get_all

\* How many numbers of D there are up to s.
Rank(D, s) == Cardinality({t \in D : t <= s})

\* In a finite set of numbers the ranks are those from 1 up, each of one number,
\* and in the order of the numbers.
LEMMA Ranks ==
  ASSUME NEW D, IsFiniteSet(D), D \subseteq Int
  PROVE  /\ Cardinality(D) \in Nat
         /\ \A s \in D : Rank(D, s) \in 1 .. Cardinality(D)
         /\ \A s, t \in D : s < t => Rank(D, s) < Rank(D, t)
         /\ \A k \in 1 .. Cardinality(D) : \E s \in D : Rank(D, s) = k
<1> DEFINE upto(s) == {t \in D : t <= s}
           n == Cardinality(D)
           f == [s \in D |-> Rank(D, s)]
<1>1. n \in Nat
  BY FS_CardinalityType
<1>2. ASSUME NEW s \in D
      PROVE  IsFiniteSet(upto(s)) /\ Rank(D, s) \in 1 .. n
  <2>1. upto(s) \subseteq D /\ s \in upto(s)
    OBVIOUS
  <2>2. IsFiniteSet(upto(s)) /\ Cardinality(upto(s)) \in Nat /\ Cardinality(upto(s)) <= n
    BY <2>1, FS_Subset, FS_CardinalityType
  <2>3. Cardinality(upto(s)) # 0
    BY <2>1, <2>2, FS_EmptySet
  <2> QED
    BY <1>1, <2>2, <2>3 DEF Rank
<1>3. ASSUME NEW s \in D, NEW t \in D, s < t
      PROVE  Rank(D, s) < Rank(D, t)
  <2>0. s \in Int /\ t \in Int
    OBVIOUS
  <2>1. t \in upto(t) /\ t \notin upto(s) /\ upto(s) \subseteq upto(t)
    <3>1. ASSUME NEW u \in D, u <= s PROVE u <= t
      <4>1. u \in Int
        OBVIOUS
      <4> QED
        BY <1>3, <2>0, <3>1, <4>1
    <3>2. ~(t <= s) /\ t <= t
      BY <1>3, <2>0
    <3>3. upto(s) \subseteq upto(t)
      BY <3>1
    <3> QED
      BY <3>2, <3>3
  <2>2. IsFiniteSet(upto(t)) /\ Cardinality(upto(s)) \in Nat /\ Cardinality(upto(t)) \in Nat
    BY <1>2, FS_CardinalityType
  <2>3. Cardinality(upto(s)) <= Cardinality(upto(t)) /\ Cardinality(upto(s)) # Cardinality(upto(t))
    <3> HIDE DEF upto
    <3> QED
      BY <2>1, <2>2, FS_Subset
  <2> QED
    BY <2>2, <2>3 DEF Rank
<1>4. \A k \in 1 .. n : \E s \in D : Rank(D, s) = k
  <2>1. f \in [D -> 1 .. n]
    BY <1>2
  <2>2. \A s, t \in D : f[s] = f[t] => s = t
    <3> SUFFICES ASSUME NEW s \in D, NEW t \in D, f[s] = f[t], s # t PROVE FALSE
      OBVIOUS
    <3>0. s \in Int /\ t \in Int
      OBVIOUS
    <3>1. s < t \/ t < s
      BY <3>0
    <3>2. Rank(D, s) \in 1 .. n /\ Rank(D, t) \in 1 .. n /\ Rank(D, s) = Rank(D, t)
      BY <1>2
    <3>3. ~(Rank(D, s) < Rank(D, t)) /\ ~(Rank(D, t) < Rank(D, s))
      BY <1>1, <3>2
    <3> QED
      BY <1>3, <3>1, <3>3
  <2> HIDE DEF f
  <2>3. f \in Injection(D, 1 .. n)
    BY <2>1, <2>2 DEF Injection, IsInjective
  <2>4. IsFiniteSet(1 .. n) /\ Cardinality(1 .. n) = n
    BY <1>1, FS_Interval
  <2>5. f \in Surjection(D, 1 .. n)
    BY <2>3, <2>4, FS_Injection
  <2> QED
    BY <2>5 DEF Surjection, f
<1> QED
  BY <1>1, <1>2, <1>3, <1>4

\* get_all lists every entry of a database once, in the order of the steps.
LEMMA GetAllInOrder ==
  ASSUME NEW d, IsFiniteSet(DOMAIN d), DOMAIN d \subseteq Int
  PROVE  /\ Count(d) \in Nat
         /\ DOMAIN get_all(d) = 1 .. Count(d) /\ Len(get_all(d)) = Count(d)
         /\ \A s \in DOMAIN d : Rank(DOMAIN d, s) \in 1 .. Count(d)
                                /\ get_all(d)[Rank(DOMAIN d, s)] = d[s]
         /\ \A k \in 1 .. Count(d) : \E s \in DOMAIN d :
              Rank(DOMAIN d, s) = k /\ get_all(d)[k] = d[s]
<1> DEFINE D == DOMAIN d
           n == Count(d)
<1>1. /\ n \in Nat
      /\ \A s \in D : Rank(D, s) \in 1 .. n
      /\ \A s, t \in D : s < t => Rank(D, s) < Rank(D, t)
      /\ \A k \in 1 .. n : \E s \in D : Rank(D, s) = k
  BY Ranks DEF Count
<1>2. get_all(d) = [k \in 1 .. n |-> d[CHOOSE s \in D : Rank(D, s) = k]]
  BY DEF get_all, Rank
<1>3. ASSUME NEW s \in D, NEW t \in D, Rank(D, s) = Rank(D, t) PROVE s = t
  <2>1. s < t \/ t < s \/ s = t
    OBVIOUS
  <2>2. Rank(D, s) \in Int /\ Rank(D, t) \in Int
    BY <1>1
  <2> QED
    BY <1>1, <1>3, <2>1, <2>2
<1>4. ASSUME NEW s \in D PROVE get_all(d)[Rank(D, s)] = d[s]
  <2> DEFINE k == Rank(D, s)
             u == CHOOSE t \in D : Rank(D, t) = k
  <2>1. k \in 1 .. n /\ get_all(d)[k] = d[u]
    BY <1>1, <1>2
  <2>2. u \in D /\ Rank(D, u) = k
    OBVIOUS
  <2> QED
    BY <1>3, <2>1, <2>2
<1>5. ASSUME NEW k \in 1 .. n PROVE \E s \in D : Rank(D, s) = k /\ get_all(d)[k] = d[s]
  <2>1. PICK s \in D : Rank(D, s) = k
    BY <1>1
  <2> QED
    BY <1>4, <2>1
<1>6. DOMAIN get_all(d) = 1 .. n
  BY <1>2
<1>7. Len(get_all(d)) = n
  BY <1>1, <1>6
<1> QED
  BY <1>1, <1>4, <1>5, <1>6, <1>7

=============================================================================
