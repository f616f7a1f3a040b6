----------------------------- MODULE SublistProofs -----------------------------
(* Theorems about Sublist: the tree keeps its shape and no branch is left over, *)
(* a search finds each subscription that matches once, the cache agrees with    *)
(* the tree, and together they are a plain set of interests.                    *)
EXTENDS Sublist, FiniteSetTheorems, SequenceTheorems, TLAPS

(* The hash map first: its shape is kept by every operation, and it is a map    *)
(* from keys to data.                                                           *)
-----------------------------------------------------------------------------
(* Induction up to N, for a set.                                                *)
LEMMA Induct ==
  ASSUME NEW N \in Nat, NEW S, 0 \in S, \A n \in 1..N : n - 1 \in S => n \in S
  PROVE  0..N \subseteq S
<1> SUFFICES ASSUME NEW m \in 0..N, m \notin S PROVE FALSE
  OBVIOUS
<1> DEFINE T == S \cap (0..m)
           f == [t \in T |-> t + 1]
<1>1. IsFiniteSet(0..m)
  BY FS_Interval
<1>2. IsFiniteSet(T)
  BY <1>1, FS_Subset
<1>3. 0 \in T
  OBVIOUS
<1>4. IsFiniteSet(T \ {0}) /\ Cardinality(T \ {0}) = Cardinality(T) - 1 /\ Cardinality(T) \in Nat
  BY <1>2, <1>3, FS_RemoveElement, FS_CardinalityType
<1>5. f \in Injection(T, T \ {0})
  <2>1. \A t \in T : t + 1 \in T \ {0}
    OBVIOUS
  <2>2. \A s, t \in T : s + 1 = t + 1 => s = t
    OBVIOUS
  <2> HIDE DEF T
  <2> QED BY <2>1, <2>2 DEF Injection, IsInjective
<1>6. Cardinality(T) <= Cardinality(T \ {0})
  BY <1>4, <1>5, FS_Injection
<1> QED BY <1>4, <1>6

IsSolution(g, N, base, step) == g[0] = base /\ \A n \in 1..N : g[n] = step[n][g[n - 1]]

(* A recursive definition up to N of values in V has a solution, ...            *)
LEMMA Solution ==
  ASSUME NEW N \in Nat, NEW V, NEW base \in V, NEW step \in [1..N -> [V -> V]]
  PROVE  \E g \in [0..N -> V] : IsSolution(g, N, base, step)
<1> DEFINE Upto(g, m) == g[0] = base /\ \A n \in 1..m : g[n] = step[n][g[n - 1]]
           Has(m) == \E g \in [0..N -> V] : Upto(g, m)
           S == {m \in 0..N : Has(m)}
<1>1. Has(0)
  <2> DEFINE g == [n \in 0..N |-> base]
  <2>1. g \in [0..N -> V] /\ g[0] = base
    OBVIOUS
  <2> HIDE DEF g
  <2>2. \A n \in 1..0 : g[n] = step[n][g[n - 1]]
    OBVIOUS
  <2> QED BY <2>1, <2>2
<1>2. ASSUME NEW m \in 1..N, Has(m - 1) PROVE Has(m)
  <2>1. PICK g \in [0..N -> V] : Upto(g, m - 1)
    BY <1>2
  <2>2. m - 1 \in 0..N /\ m \in 0..N /\ g[m - 1] \in V
    OBVIOUS
  <2>3. PICK v \in V : v = step[m][g[m - 1]]
    BY <2>2
  <2> DEFINE h == [g EXCEPT ![m] = v]
  <2>4. h \in [0..N -> V] /\ h[m] = v /\ \A n \in 0..N : n # m => h[n] = g[n]
    BY <2>2
  <2>5. Upto(h, m)
    <3> HIDE DEF h
    <3>1. h[0] = base
      BY <2>1, <2>4
    <3>2. ASSUME NEW n \in 1..m PROVE h[n] = step[n][h[n - 1]]
      <4>1. n - 1 \in 0..N /\ n - 1 # m /\ n \in 0..N
        OBVIOUS
      <4>2. h[n - 1] = g[n - 1]
        BY <2>4, <4>1
      <4>3. CASE n = m
        BY <2>3, <2>4, <4>2, <4>3
      <4>4. CASE n # m
        <5>1. n \in 1..(m - 1) /\ h[n] = g[n]
          BY <2>4, <4>1, <4>4
        <5>2. g[n] = step[n][g[n - 1]]
          BY <2>1, <5>1
        <5> QED BY <4>2, <5>1, <5>2
      <4> QED BY <4>3, <4>4
    <3> QED BY <3>1, <3>2
  <2> HIDE DEF h
  <2> QED BY <2>4, <2>5
<1>3. 0..N \subseteq S
  <2> HIDE DEF Has
  <2>1. 0 \in S /\ \A n \in 1..N : n - 1 \in S => n \in S
    BY <1>1, <1>2
  <2> HIDE DEF S
  <2> QED BY <2>1, Induct
<1>4. N \in S
  BY <1>3
<1> QED BY <1>4 DEF IsSolution

(* ... and any solution has its values there.                                   *)
LEMMA SolutionType ==
  ASSUME NEW N \in Nat, NEW V, NEW f, f[0] \in V,
         \A n \in 1..N : f[n - 1] \in V => f[n] \in V
  PROVE  \A n \in 0..N : f[n] \in V
<1> DEFINE S == {n \in 0..N : f[n] \in V}
<1>1. 0..N \subseteq S
  <2>1. 0 \in S /\ \A n \in 1..N : n - 1 \in S => n \in S
    OBVIOUS
  <2> HIDE DEF S
  <2> QED BY <2>1, Induct
<1> QED BY <1>1

-----------------------------------------------------------------------------
LEMMA EntriesIs ==
  ASSUME NEW E, NEW bkts \in Seq(Seq(E))
  PROVE  \E f \in [0..Len(bkts) -> Seq(E)] :
            /\ f[0] = <<>>
            /\ \A b \in 1..Len(bkts) : f[b] = f[b - 1] \o bkts[b]
            /\ Entries(bkts) = f[Len(bkts)]
<1> DEFINE V == Seq(E)
<1>1. PICK N \in Nat : N = Len(bkts) /\ \A b \in 1..N : bkts[b] \in V
  BY LenProperties
<1> DEFINE Eq(f) == f = [b \in 0..N |-> IF b = 0 THEN <<>> ELSE f[b - 1] \o bkts[b]]
           st == [b \in 1..N |-> [v \in V |-> v \o bkts[b]]]
<1>2. \A b \in 1..N, v \in V : v \o bkts[b] \in V
  BY <1>1, ConcatProperties
<1>3. <<>> \in V
  OBVIOUS
<1>4. PICK g \in [0..N -> V] : g[0] = <<>> /\ \A b \in 1..N : g[b] = g[b - 1] \o bkts[b]
  <2> HIDE DEF V
  <2>1. st \in [1..N -> [V -> V]]
    BY <1>2
  <2>2. \A b \in 1..N, v \in V : st[b][v] = v \o bkts[b]
    OBVIOUS
  <2> HIDE DEF st
  <2>3. PICK g \in [0..N -> V] : g[0] = <<>> /\ \A b \in 1..N : g[b] = st[b][g[b - 1]]
    <3>1. PICK base \in V : base = <<>>
      BY <1>3
    <3>2. PICK g \in [0..N -> V] : IsSolution(g, N, base, st)
      BY <2>1, Solution
    <3> QED BY <3>1, <3>2 DEF IsSolution
  <2>4. \A b \in 1..N : g[b - 1] \in V
    BY <2>3
  <2> QED BY ZenonT(30), <2>2, <2>3, <2>4
<1>5. Eq(g)
  <2> HIDE DEF V
  <2> QED BY SMTT(30), <1>4
<1>6. PICK f : f = CHOOSE x : Eq(x)
  OBVIOUS
<1>7. Eq(f)
  <2> HIDE DEF Eq
  <2> QED BY <1>5, <1>6
<1>8. Entries(bkts) = f[N]
  BY <1>1, <1>6 DEF Entries
<1>9. f[0] = <<>> /\ \A b \in 1..N : f[b] = f[b - 1] \o bkts[b]
  <2>1. \A b \in 0..N : f[b] = IF b = 0 THEN <<>> ELSE f[b - 1] \o bkts[b]
    BY <1>7
  <2>2. 0 \in 0..N /\ \A b \in 1..N : b \in 0..N /\ b # 0
    OBVIOUS
  <2> HIDE DEF Eq
  <2> QED BY <2>1, <2>2
<1>10. \A b \in 0..N : f[b] \in V
  <2> HIDE DEF V, Eq
  <2>1. \A b \in 1..N : f[b - 1] \in V => f[b] \in V
    BY <1>2, <1>9
  <2> QED BY <1>3, <1>9, <2>1, SolutionType
<1>11. f \in [0..N -> V]
  <2>1. f = [b \in 0..N |-> f[b]]
    BY <1>7
  <2> HIDE DEF V, Eq
  <2> QED BY <1>10, <2>1
<1> QED BY <1>1, <1>8, <1>9, <1>11

(* The least member of a set of naturals.                                       *)
LEMMA MinIs ==
  ASSUME NEW S \in SUBSET Nat, S # {}
  PROVE  Min(S) \in S /\ \A y \in S : Min(S) <= y
<1>1. \E x \in S : \A y \in S : x <= y
  <2> SUFFICES ASSUME \A x \in S : \E y \in S : y < x PROVE FALSE
    OBVIOUS
  <2>1. PICK m \in S : TRUE
    OBVIOUS
  <2> DEFINE T == {n \in 0..m : \A y \in S : y > n}
  <2>2. 0 \in T
    OBVIOUS
  <2>3. \A n \in 1..m : n - 1 \in T => n \in T
    OBVIOUS
  <2>4. m \notin T
    OBVIOUS
  <2>5. 0..m \subseteq T
    <3> HIDE DEF T
    <3> QED BY <2>2, <2>3, Induct
  <2> QED BY <2>4, <2>5
<1> QED BY <1>1 DEF Min

(* The greatest member of a bounded one.                                        *)
LEMMA MaxIs ==
  ASSUME NEW n \in Nat, NEW S \in SUBSET (0..n), S # {}
  PROVE  Max(S) \in S /\ \A y \in S : Max(S) >= y
<1> DEFINE T == {n - x : x \in S}
<1>1. T \in SUBSET Nat /\ T # {}
  <2>1. \A x \in S : n - x \in Nat
    OBVIOUS
  <2>2. PICK x \in S : TRUE
    OBVIOUS
  <2>3. n - x \in T
    OBVIOUS
  <2> QED BY <2>1, <2>3
<1>2. PICK t \in T : \A y \in T : t <= y
  <2> HIDE DEF T
  <2> QED BY <1>1, MinIs
<1>3. \E x \in S : \A y \in S : x >= y
  <2>1. PICK x \in S : t = n - x
    OBVIOUS
  <2>2. ASSUME NEW y \in S PROVE x >= y
    <3>1. n - y \in T
      OBVIOUS
    <3>2. n - x <= n - y
      BY <1>2, <2>1, <3>1
    <3> QED BY <3>2
  <2> QED BY <2>2
<1> QED BY <1>3 DEF Max

-----------------------------------------------------------------------------
(* Chains.                                                                      *)

Entry(D) == [key : DOMAIN Hash, data : D]

Chains(D) == Seq(Seq(Entry(D))) \ {<<>>}

Holds(bkts, e) == \E b \in DOMAIN bkts : \E i \in DOMAIN bkts[b] : bkts[b][i] = e

Placed(bkts) ==
  \A b \in DOMAIN bkts : \A i \in DOMAIN bkts[b] :
    /\ Slot(bkts[b][i].key, Len(bkts)) = b
    /\ \A j \in DOMAIN bkts[b] : bkts[b][j].key = bkts[b][i].key => j = i

LEMMA SlotIs ==
  ASSUME NEW key \in DOMAIN Hash, NEW n \in Nat \ {0}
  PROVE  Slot(key, n) \in 1..n
BY HashAssumption DEF Slot

LEMMA ChainsAre ==
  ASSUME NEW D, NEW bkts \in Chains(D)
  PROVE  /\ Len(bkts) \in Nat \ {0} /\ DOMAIN bkts = 1..Len(bkts)
         /\ \A b \in 1..Len(bkts) :
               /\ bkts[b] \in Seq(Entry(D)) /\ Len(bkts[b]) \in Nat
               /\ DOMAIN bkts[b] = 1..Len(bkts[b])
               /\ \A i \in 1..Len(bkts[b]) :
                     /\ bkts[b][i] \in Entry(D)
                     /\ bkts[b][i].key \in DOMAIN Hash /\ bkts[b][i].data \in D
<1>1. Len(bkts) \in Nat \ {0} /\ DOMAIN bkts = 1..Len(bkts)
  BY LenProperties, EmptySeq DEF Chains
<1>2. ASSUME NEW b \in 1..Len(bkts)
      PROVE  /\ bkts[b] \in Seq(Entry(D)) /\ Len(bkts[b]) \in Nat
             /\ DOMAIN bkts[b] = 1..Len(bkts[b])
             /\ \A i \in 1..Len(bkts[b]) :
                   /\ bkts[b][i] \in Entry(D)
                   /\ bkts[b][i].key \in DOMAIN Hash /\ bkts[b][i].data \in D
  <2>1. bkts[b] \in Seq(Entry(D))
    BY ElementOfSeq DEF Chains
  <2>2. \A i \in 1..Len(bkts[b]) : bkts[b][i] \in Entry(D)
    BY <2>1, ElementOfSeq
  <2>3. \A e \in Entry(D) : e.key \in DOMAIN Hash /\ e.data \in D
    BY DEF Entry
  <2> QED BY <2>1, <2>2, <2>3, LenProperties
<1> QED BY <1>1, <1>2

(* The walk holds what the chains hold.                                         *)
LEMMA WalkHolds ==
  ASSUME NEW D, NEW bkts \in Chains(D)
  PROVE  /\ Entries(bkts) \in Seq(Entry(D))
         /\ \A n \in 1..Len(Entries(bkts)) : Holds(bkts, Entries(bkts)[n])
         /\ \A e : Holds(bkts, e) => \E n \in 1..Len(Entries(bkts)) : Entries(bkts)[n] = e
<1> DEFINE E == Entry(D)
           Among(x, b) == \E c \in 1..b : \E i \in DOMAIN bkts[c] : bkts[c][i] = x
<1>1. PICK N \in Nat : N = Len(bkts) /\ DOMAIN bkts = 1..N /\ bkts \in Seq(Seq(E))
                       /\ \A b \in 1..N : bkts[b] \in Seq(E) /\ DOMAIN bkts[b] = 1..Len(bkts[b])
  BY SMTT(30), ChainsAre DEF Chains
<1> HIDE DEF E
<1>2. PICK f \in [0..N -> Seq(E)] : /\ f[0] = <<>>
                                    /\ \A b \in 1..N : f[b] = f[b - 1] \o bkts[b]
                                    /\ Entries(bkts) = f[N]
  BY <1>1, EntriesIs
<1> DEFINE Same(b) == /\ \A n \in 1..Len(f[b]) : Among(f[b][n], b)
                      /\ \A x : Among(x, b) => \E n \in 1..Len(f[b]) : f[b][n] = x
           S == {b \in 0..N : Same(b)}
<1>3. Same(0)
  BY <1>2, EmptySeq
<1>4. ASSUME NEW b \in 1..N, Same(b - 1) PROVE Same(b)
  <2>1. PICK p \in Seq(E), q \in Seq(E) : p = f[b - 1] /\ q = bkts[b]
    <3>1. b - 1 \in 0..N
      OBVIOUS
    <3> QED BY <1>1, <1>2, <3>1
  <2>2. Len(p) \in Nat /\ Len(q) \in Nat /\ DOMAIN q = 1..Len(q)
    BY <2>1, LenProperties
  <2>3. /\ f[b] = p \o q
        /\ Len(p \o q) = Len(p) + Len(q)
        /\ \A n \in 1..(Len(p) + Len(q)) : (p \o q)[n] = IF n <= Len(p) THEN p[n] ELSE q[n - Len(p)]
    <3>1. f[b] = p \o q
      BY <1>2, <2>1
    <3>2. p \in Seq(E) /\ q \in Seq(E)
      OBVIOUS
    <3> QED BY ONLY <3>1, <3>2, ConcatProperties
  <2>4. ASSUME NEW n \in 1..Len(f[b]) PROVE Among(f[b][n], b)
    <3>1. n \in 1..(Len(p) + Len(q))
      BY <2>3
    <3>2. CASE n <= Len(p)
      <4>1. n \in 1..Len(p) /\ f[b][n] = p[n]
        BY <2>2, <2>3, <3>1, <3>2
      <4>2. Among(p[n], b - 1)
        BY <1>4, <2>1, <4>1
      <4> QED BY <4>1, <4>2
    <3>3. CASE n > Len(p)
      <4>1. n - Len(p) \in 1..Len(q) /\ f[b][n] = q[n - Len(p)]
        BY <2>2, <2>3, <3>1, <3>3
      <4> QED BY <2>1, <2>2, <4>1
    <3> QED BY <2>2, <3>1, <3>2, <3>3
  <2>5. ASSUME NEW x, Among(x, b) PROVE \E n \in 1..Len(f[b]) : f[b][n] = x
    <3>1. PICK c \in 1..b : \E i \in DOMAIN bkts[c] : bkts[c][i] = x
      BY <2>5
    <3>2. CASE c \in 1..(b - 1)
      <4>1. Among(x, b - 1)
        BY <3>1, <3>2
      <4>2. PICK n \in 1..Len(p) : p[n] = x
        BY <1>4, <2>1, <4>1
      <4>3. n \in 1..(Len(p) + Len(q)) /\ n <= Len(p)
        BY <2>2
      <4> QED BY <2>3, <4>2, <4>3
    <3>3. CASE c = b
      <4>1. PICK i \in 1..Len(q) : q[i] = x
        BY <2>1, <2>2, <3>1, <3>3
      <4>2. Len(p) + i \in 1..(Len(p) + Len(q)) /\ ~(Len(p) + i <= Len(p))
            /\ (Len(p) + i) - Len(p) = i
        BY <2>2
      <4> QED BY <2>3, <4>1, <4>2
    <3> QED BY <3>2, <3>3
  <2> QED BY <2>4, <2>5
<1>5. Same(N)
  <2> HIDE DEF Same
  <2>1. 0 \in S /\ \A b \in 1..N : b - 1 \in S => b \in S
    BY <1>3, <1>4
  <2> HIDE DEF S
  <2>2. 0..N \subseteq S
    BY <2>1, Induct
  <2>3. N \in S
    BY <2>2
  <2> QED BY <2>3 DEF S
<1>6. \A x : Among(x, N) <=> Holds(bkts, x)
  BY <1>1 DEF Holds
<1>7. PICK w \in Seq(E) : w = f[N] /\ w = Entries(bkts)
  BY <1>2
<1>8. /\ \A n \in 1..Len(w) : Among(w[n], N)
      /\ \A x : Among(x, N) => \E n \in 1..Len(w) : w[n] = x
  <2> HIDE DEF Among
  <2> QED BY <1>5, <1>7
<1> HIDE DEF Among
<1>9. /\ \A n \in 1..Len(w) : Holds(bkts, w[n])
      /\ \A x : Holds(bkts, x) => \E n \in 1..Len(w) : w[n] = x
  BY <1>6, <1>8
<1> QED BY <1>7, <1>9 DEF E

(* It meets each key once.                                                      *)
LEMMA WalkOnce ==
  ASSUME NEW D, NEW bkts \in Chains(D), Placed(bkts)
  PROVE  \A m, n \in 1..Len(Entries(bkts)) : Entries(bkts)[m].key = Entries(bkts)[n].key => m = n
<1> DEFINE E == Entry(D)
<1>1. PICK N \in Nat : N = Len(bkts) /\ DOMAIN bkts = 1..N /\ bkts \in Seq(Seq(E))
                       /\ \A b \in 1..N : bkts[b] \in Seq(E) /\ DOMAIN bkts[b] = 1..Len(bkts[b])
  BY ChainsAre DEF Chains
<1> HIDE DEF E
<1>2. PICK f \in [0..N -> Seq(E)] : /\ f[0] = <<>>
                                    /\ \A b \in 1..N : f[b] = f[b - 1] \o bkts[b]
                                    /\ Entries(bkts) = f[N]
  BY <1>1, EntriesIs
<1> DEFINE Once(w, b) == /\ \A n \in 1..Len(w) : Slot(w[n].key, N) \in 1..b
                         /\ \A m, n \in 1..Len(w) : w[m].key = w[n].key => m = n
           S == {b \in 0..N : Once(f[b], b)}
<1>3. Once(f[0], 0)
  BY <1>2, EmptySeq
<1>4. ASSUME NEW b \in 1..N, Once(f[b - 1], b - 1) PROVE Once(f[b], b)
  <2>1. PICK p \in Seq(E), q \in Seq(E) : p = f[b - 1] /\ q = bkts[b]
    <3>1. b - 1 \in 0..N
      OBVIOUS
    <3> QED BY <1>1, <1>2, <3>1
  <2>2. Len(p) \in Nat /\ Len(q) \in Nat /\ DOMAIN q = 1..Len(q)
    BY <2>1, LenProperties
  <2>3. PICK r : /\ r = f[b] /\ Len(r) = Len(p) + Len(q)
                 /\ \A n \in 1..Len(r) : r[n] = IF n <= Len(p) THEN p[n] ELSE q[n - Len(p)]
    <3>1. f[b] = p \o q
      BY <1>2, <2>1
    <3>2. p \in Seq(E) /\ q \in Seq(E)
      OBVIOUS
    <3>3. /\ Len(p \o q) = Len(p) + Len(q)
          /\ \A n \in 1..(Len(p) + Len(q)) : (p \o q)[n] = IF n <= Len(p) THEN p[n] ELSE q[n - Len(p)]
      BY ONLY <3>2, ConcatProperties
    <3> QED BY <3>1, <3>3
  <2>4. Once(p, b - 1)
    BY <1>4, <2>1
  <2>5. \A i \in 1..Len(q) : /\ Slot(q[i].key, N) = b
                             /\ \A j \in 1..Len(q) : q[j].key = q[i].key => j = i
    BY <1>1, <2>1, <2>2 DEF Placed
  <2> DEFINE Old(n) == n \in 1..Len(p) /\ r[n] = p[n]
             New1(n) == n - Len(p) \in 1..Len(q) /\ r[n] = q[n - Len(p)]
  <2>6. ASSUME NEW n \in 1..Len(r) PROVE Old(n) \/ New1(n)
    BY <2>2, <2>3
  <2> HIDE DEF Once
  <2>7. ASSUME NEW n \in 1..Len(r) PROVE Slot(r[n].key, N) \in 1..b
    <3>1. CASE Old(n)
      <4>1. Slot(p[n].key, N) \in 1..(b - 1) /\ r[n] = p[n]
        BY <2>4, <3>1 DEF Once
      <4> QED BY <4>1
    <3>2. CASE New1(n)
      <4>1. Slot(r[n].key, N) = b
        BY <2>5, <3>2
      <4> QED BY <4>1
    <3> QED BY <2>6, <3>1, <3>2
  <2>8. ASSUME NEW m \in 1..Len(r), NEW n \in 1..Len(r), r[m].key = r[n].key PROVE m = n
    <3>1. CASE Old(m) /\ Old(n)
      BY <2>4, <2>8, <3>1 DEF Once
    <3>2. CASE New1(m) /\ New1(n)
      <4>1. m - Len(p) = n - Len(p)
        BY <2>5, <2>8, <3>2
      <4> QED BY <2>2, <4>1
    <3>3. CASE Old(m) /\ New1(n)
      <4>1. Slot(r[m].key, N) \in 1..(b - 1) /\ Slot(r[n].key, N) = b
        BY <2>4, <2>5, <3>3 DEF Once
      <4> QED BY <2>8, <4>1
    <3>4. CASE New1(m) /\ Old(n)
      <4>1. Slot(r[n].key, N) \in 1..(b - 1) /\ Slot(r[m].key, N) = b
        BY <2>4, <2>5, <3>4 DEF Once
      <4> QED BY <2>8, <4>1
    <3> QED BY <2>6, <3>1, <3>2, <3>3, <3>4
  <2> QED BY <2>3, <2>7, <2>8 DEF Once
<1>5. Once(f[N], N)
  <2> HIDE DEF Once
  <2>1. 0 \in S /\ \A b \in 1..N : b - 1 \in S => b \in S
    BY <1>3, <1>4
  <2> HIDE DEF S
  <2>2. 0..N \subseteq S
    BY <2>1, Induct
  <2>3. N \in S
    BY <2>2
  <2> QED BY <2>3 DEF S
<1> QED BY <1>2, <1>5

(* Its length changes as one chain's does.                                      *)
LEMMA WalkLength ==
  ASSUME NEW D, NEW bkts \in Chains(D), NEW other \in Chains(D), Len(other) = Len(bkts),
         NEW c \in 1..Len(bkts), NEW d \in Int, Len(other[c]) = Len(bkts[c]) + d,
         \A b \in 1..Len(bkts) : b # c => other[b] = bkts[b]
  PROVE  Len(Entries(other)) = Len(Entries(bkts)) + d
<1> DEFINE E == Entry(D)
<1>1. PICK N \in Nat : /\ N = Len(bkts) /\ N = Len(other) /\ bkts \in Seq(Seq(E)) /\ other \in Seq(Seq(E))
                       /\ \A b \in 1..N : bkts[b] \in Seq(E) /\ other[b] \in Seq(E)
  BY ChainsAre DEF Chains
<1> HIDE DEF E
<1>2. PICK f \in [0..N -> Seq(E)] : /\ f[0] = <<>>
                                    /\ \A b \in 1..N : f[b] = f[b - 1] \o bkts[b]
                                    /\ Entries(bkts) = f[N]
  <2>1. bkts \in Seq(Seq(E))
    BY <1>1
  <2>2. \E f \in [0..Len(bkts) -> Seq(E)] :
           /\ f[0] = <<>>
           /\ \A b \in 1..Len(bkts) : f[b] = f[b - 1] \o bkts[b]
           /\ Entries(bkts) = f[Len(bkts)]
    BY ONLY <2>1, EntriesIs
  <2> QED BY <1>1, <2>2
<1>3. PICK g \in [0..N -> Seq(E)] : /\ g[0] = <<>>
                                    /\ \A b \in 1..N : g[b] = g[b - 1] \o other[b]
                                    /\ Entries(other) = g[N]
  <2>1. other \in Seq(Seq(E))
    BY <1>1
  <2>2. \E g \in [0..Len(other) -> Seq(E)] :
           /\ g[0] = <<>>
           /\ \A b \in 1..Len(other) : g[b] = g[b - 1] \o other[b]
           /\ Entries(other) = g[Len(other)]
    BY ONLY <2>1, EntriesIs
  <2> QED BY <1>1, <2>2
<1>4. \A b \in 1..N : Len(f[b]) = Len(f[b - 1]) + Len(bkts[b]) /\ Len(g[b]) = Len(g[b - 1]) + Len(other[b])
  <2> SUFFICES ASSUME NEW b \in 1..N
               PROVE  Len(f[b]) = Len(f[b - 1]) + Len(bkts[b]) /\ Len(g[b]) = Len(g[b - 1]) + Len(other[b])
    OBVIOUS
  <2>1. b - 1 \in 0..N
    OBVIOUS
  <2>2. f[b - 1] \in Seq(E) /\ g[b - 1] \in Seq(E) /\ bkts[b] \in Seq(E) /\ other[b] \in Seq(E)
    BY <1>1, <2>1
  <2>3. \A p, q \in Seq(E) : Len(p \o q) = Len(p) + Len(q)
    BY ONLY ConcatProperties
  <2> QED BY <1>2, <1>3, <2>2, <2>3
<1>5. \A b \in 0..N : Len(f[b]) \in Nat /\ Len(g[b]) \in Nat
  BY LenProperties
<1>6. \A b \in 1..N : /\ Len(bkts[b]) \in Nat /\ Len(other[b]) \in Nat
                      /\ b # c => Len(other[b]) = Len(bkts[b])
                      /\ b = c => Len(other[b]) = Len(bkts[b]) + d
  BY <1>1, LenProperties
<1> DEFINE Moved(b) == /\ b < c => Len(g[b]) = Len(f[b])
                       /\ b >= c => Len(g[b]) = Len(f[b]) + d
           S == {b \in 0..N : Moved(b)}
<1>7. Moved(0)
  BY <1>1, <1>2, <1>3
<1>8. ASSUME NEW b \in 1..N, Moved(b - 1) PROVE Moved(b)
  <2>1. b - 1 \in 0..N /\ b \in 0..N
    OBVIOUS
  <2>2. PICK k \in Nat, k1 \in Nat, m \in Nat, m1 \in Nat, x \in Nat, y \in Nat :
           /\ k = Len(f[b]) /\ k1 = Len(f[b - 1]) /\ m = Len(g[b]) /\ m1 = Len(g[b - 1])
           /\ x = Len(bkts[b]) /\ y = Len(other[b])
    BY <1>5, <1>6, <2>1
  <2>3. k = k1 + x /\ m = m1 + y
    BY <1>4, <2>2
  <2>4. (b # c => y = x) /\ (b = c => y = x + d)
    BY <1>6, <2>2
  <2>5. (b - 1 < c => m1 = k1) /\ (b - 1 >= c => m1 = k1 + d)
    BY <1>8, <2>2
  <2>6. (b < c => m = k) /\ (b >= c => m = k + d)
    BY <1>1, <2>3, <2>4, <2>5
  <2> QED BY <2>2, <2>6
<1>9. Moved(N)
  <2> HIDE DEF Moved
  <2>1. 0 \in S /\ \A b \in 1..N : b - 1 \in S => b \in S
    BY <1>7, <1>8
  <2> HIDE DEF S
  <2>2. 0..N \subseteq S
    BY <2>1, Induct
  <2>3. N \in S
    BY <2>2
  <2> QED BY <2>3 DEF S
<1> QED BY <1>1, <1>2, <1>3, <1>9

(* Nothing is met where there is nothing.                                       *)
LEMMA WalkNothing ==
  ASSUME NEW D, NEW bkts \in Chains(D), \A b \in 1..Len(bkts) : bkts[b] = <<>>
  PROVE  Len(Entries(bkts)) = 0 /\ Placed(bkts) /\ \A e : ~Holds(bkts, e)
<1>1. \A e : ~Holds(bkts, e)
  BY ChainsAre, EmptySeq DEF Holds
<1>2. Entries(bkts) \in Seq(Entry(D)) /\ \A n \in 1..Len(Entries(bkts)) : FALSE
  BY <1>1, WalkHolds
<1>3. Len(Entries(bkts)) \in Nat
  BY <1>2, LenProperties
<1>4. Len(Entries(bkts)) = 0
  <2>1. PICK k \in Nat : k = Len(Entries(bkts)) /\ \A n \in 1..k : FALSE
    BY <1>2, <1>3
  <2> QED BY <2>1
<1> QED BY <1>1, <1>4, ChainsAre DEF Placed

-----------------------------------------------------------------------------
(* What may be chain c of n.                                                    *)
Fits(q, c, n) ==
  \A i \in 1..Len(q) : /\ Slot(q[i].key, n) = c
                       /\ \A j \in 1..Len(q) : q[j].key = q[i].key => j = i

(* The chains become others, of which chain c is q.                             *)
Becomes(bkts, next, c, q) ==
  /\ Len(next) = Len(bkts) /\ Placed(next)
  /\ Len(Entries(next)) = Len(Entries(bkts)) + (Len(q) - Len(bkts[c]))
  /\ \A x : Holds(next, x) <=> \/ \E i \in 1..Len(q) : q[i] = x
                               \/ Holds(bkts, x) /\ Slot(x.key, Len(bkts)) # c

(* One chain is replaced.                                                       *)
LEMMA Replaced ==
  ASSUME NEW D, NEW bkts \in Chains(D), Placed(bkts), NEW c \in 1..Len(bkts),
         NEW q \in Seq(Entry(D)),
         Fits(q, c, Len(bkts))
  PROVE  [bkts EXCEPT ![c] = q] \in Chains(D) /\ Becomes(bkts, [bkts EXCEPT ![c] = q], c, q)
<1>0. PICK next : next = [bkts EXCEPT ![c] = q]
  OBVIOUS
<1> DEFINE E == Entry(D)
<1>1. PICK N \in Nat \ {0} : /\ N = Len(bkts) /\ DOMAIN bkts = 1..N
                             /\ bkts \in Seq(Seq(E)) /\ bkts # <<>>
                             /\ \A b \in 1..N : /\ bkts[b] \in Seq(E)
                                                /\ DOMAIN bkts[b] = 1..Len(bkts[b])
  <2>1. bkts \in Seq(Seq(E)) /\ bkts # <<>>
    BY DEF Chains
  <2>2. Len(bkts) \in Nat \ {0}
    BY ChainsAre
  <2> HIDE DEF E
  <2>3. \A b \in 1..Len(bkts) : bkts[b] \in Seq(E) /\ DOMAIN bkts[b] = 1..Len(bkts[b])
    BY ChainsAre DEF E
  <2> QED BY <2>1, <2>2, <2>3, LenProperties
<1>2. q \in Seq(E) /\ Len(q) \in Nat /\ DOMAIN q = 1..Len(q)
  BY LenProperties
<1> HIDE DEF E
<1>3. /\ next \in Seq(Seq(E)) /\ Len(next) = N
      /\ next[c] = q /\ \A b \in 1..N : b # c => next[b] = bkts[b]
  <2>1. bkts \in Seq(Seq(E)) /\ q \in Seq(E) /\ c \in 1..Len(bkts)
    BY <1>1, <1>2
  <2>2. /\ [bkts EXCEPT ![c] = q] \in Seq(Seq(E))
        /\ Len([bkts EXCEPT ![c] = q]) = Len(bkts)
        /\ \A j \in 1..Len(bkts) : [bkts EXCEPT ![c] = q][j] = IF j = c THEN q ELSE bkts[j]
    BY ONLY <2>1, ExceptSeq
  <2> QED BY <1>0, <1>1, <2>2
<1>4. next \in Chains(D) /\ DOMAIN next = 1..N
  <2>1. next # <<>>
    BY <1>3, EmptySeq
  <2> QED BY <1>3, <2>1, LenProperties DEF Chains, E
<1>5. \A b \in 1..N : b # c => next[b] = bkts[b] /\ DOMAIN next[b] = DOMAIN bkts[b]
  BY <1>3
<1>6. Placed(next)
  <2> SUFFICES ASSUME NEW b \in 1..N, NEW i \in DOMAIN next[b]
               PROVE  /\ Slot(next[b][i].key, N) = b
                      /\ \A j \in DOMAIN next[b] : next[b][j].key = next[b][i].key => j = i
    BY <1>3, <1>4 DEF Placed
  <2>1. CASE b = c
    BY <1>1, <1>2, <1>3, <2>1 DEF Fits
  <2>2. CASE b # c
    BY <1>1, <1>3, <2>2 DEF Placed
  <2> QED BY <2>1, <2>2
<1>7. Len(Entries(next)) = Len(Entries(bkts)) + (Len(q) - Len(bkts[c]))
  <2>1. Len(bkts[c]) \in Nat
    BY ChainsAre
  <2>2. PICK d \in Int : d = Len(q) - Len(bkts[c])
    <3>1. \A x, y \in Nat : x - y \in Int
      OBVIOUS
    <3>2. Len(q) - Len(bkts[c]) \in Int
      BY <1>2, <2>1, <3>1
    <3> QED BY <3>2
  <2>3. Len(next[c]) = Len(bkts[c]) + d
    <3>1. \A x, y \in Nat : x = y + (x - y)
      OBVIOUS
    <3>2. next[c] = q
      BY <1>3
    <3> QED BY <1>2, <2>1, <2>2, <3>1, <3>2
  <2>4. \A b \in 1..Len(bkts) : b # c => next[b] = bkts[b]
    BY <1>1, <1>3
  <2>5. Len(next) = Len(bkts)
    BY <1>1, <1>3
  <2>6. Len(Entries(next)) = Len(Entries(bkts)) + d
    BY ONLY <1>4, <2>2, <2>3, <2>4, <2>5, WalkLength, bkts \in Chains(D), c \in 1..Len(bkts)
  <2> QED BY <2>2, <2>6
<1>8. ASSUME NEW x PROVE Holds(next, x) <=> \/ \E i \in 1..Len(q) : q[i] = x
                                            \/ Holds(bkts, x) /\ Slot(x.key, Len(bkts)) # c
  <2>1. Holds(next, x) <=> \E b \in 1..N : \E i \in DOMAIN next[b] : next[b][i] = x
    BY <1>4 DEF Holds
  <2>2. Holds(bkts, x) <=> \E b \in 1..N : \E i \in DOMAIN bkts[b] : bkts[b][i] = x
    BY <1>1 DEF Holds
  <2>3. \A b \in 1..N : \A i \in DOMAIN bkts[b] : Slot(bkts[b][i].key, N) = b
    BY <1>1 DEF Placed
  <2>4. (\E i \in DOMAIN next[c] : next[c][i] = x) <=> \E i \in 1..Len(q) : q[i] = x
    BY <1>2, <1>3
  <2>5. ASSUME NEW b \in 1..N, b # c
        PROVE  (\E i \in DOMAIN next[b] : next[b][i] = x) <=>
               (\E i \in DOMAIN bkts[b] : bkts[b][i] = x)
    BY <1>3, <2>5
  <2>6. ASSUME NEW b \in 1..N, \E i \in DOMAIN bkts[b] : bkts[b][i] = x
        PROVE  Slot(x.key, N) = b
    BY <2>3, <2>6
  <2> DEFINE InNext(b) == \E i \in DOMAIN next[b] : next[b][i] = x
             InBkts(b) == \E i \in DOMAIN bkts[b] : bkts[b][i] = x
             InQ == \E i \in 1..Len(q) : q[i] = x
  <2> HIDE DEF InNext, InBkts, InQ
  <2>7. /\ Holds(next, x) <=> \E b \in 1..N : InNext(b)
        /\ Holds(bkts, x) <=> \E b \in 1..N : InBkts(b)
        /\ InNext(c) <=> InQ
        /\ \A b \in 1..N : b # c => (InNext(b) <=> InBkts(b))
        /\ \A b \in 1..N : InBkts(b) => Slot(x.key, N) = b
    BY <2>1, <2>2, <2>4, <2>5, <2>6 DEF InNext, InBkts, InQ
  <2>8. c \in 1..N
    BY <1>1
  <2>9. Holds(next, x) <=> (InQ \/ (Holds(bkts, x) /\ Slot(x.key, N) # c))
    BY <2>7, <2>8
  <2> QED BY <1>1, <2>9 DEF InQ
<1>9. Becomes(bkts, next, c, q)
  BY <1>1, <1>3, <1>6, <1>7, <1>8 DEF Becomes
<1> QED BY <1>0, <1>4, <1>9

Absent(bkts, key) == \A x : Holds(bkts, x) => x.key # key

(* The chains become others, with e.                                            *)
Gains(bkts, next, e) ==
  /\ Len(next) = Len(bkts) /\ Placed(next)
  /\ Len(Entries(next)) = Len(Entries(bkts)) + 1
  /\ \A x : Holds(next, x) <=> Holds(bkts, x) \/ x = e

LEMMA Push ==
  ASSUME NEW D, NEW bkts \in Chains(D), Placed(bkts), NEW e \in Entry(D), Absent(bkts, e.key),
         NEW c \in 1..Len(bkts), c = Slot(e.key, Len(bkts))
  PROVE  LET next == [bkts EXCEPT ![c] = <<e>> \o @]
         IN  next \in Chains(D) /\ Gains(bkts, next, e)
<1>0. PICK next : next = [bkts EXCEPT ![c] = <<e>> \o @]
  OBVIOUS
<1>1. c \in 1..Len(bkts)
  OBVIOUS
<1>2. PICK p \in Seq(Entry(D)) : /\ p = bkts[c] /\ Len(p) \in Nat /\ DOMAIN p = 1..Len(p)
  BY <1>1, ChainsAre
<1> DEFINE q == <<e>> \o p
<1>3. /\ q \in Seq(Entry(D)) /\ Len(q) = Len(p) + 1
      /\ q[1] = e /\ \A i \in 2..Len(q) : q[i] = p[i - 1]
  <2>1. <<e>> \in Seq(Entry(D)) /\ Len(<<e>>) = 1 /\ <<e>>[1] = e
    OBVIOUS
  <2>2. /\ <<e>> \o p \in Seq(Entry(D)) /\ Len(<<e>> \o p) = Len(<<e>>) + Len(p)
        /\ \A i \in 1..(Len(<<e>>) + Len(p)) :
              (<<e>> \o p)[i] = IF i <= Len(<<e>>) THEN <<e>>[i] ELSE p[i - Len(<<e>>)]
    BY ONLY <2>1, ConcatProperties, p \in Seq(Entry(D))
  <2> QED BY <1>2, <2>1, <2>2
<1>4. next = [bkts EXCEPT ![c] = q]
  BY <1>0, <1>2
<1> HIDE DEF q
<1>5. \A b \in 1..Len(bkts) : \A i \in 1..Len(bkts[b]) :
         /\ Slot(bkts[b][i].key, Len(bkts)) = b
         /\ \A j \in 1..Len(bkts[b]) : bkts[b][j].key = bkts[b][i].key => j = i
         /\ Holds(bkts, bkts[b][i])
  BY ChainsAre DEF Placed, Holds
<1>6. \A i \in 1..Len(p) : /\ Slot(p[i].key, Len(bkts)) = c /\ p[i].key # e.key
                           /\ \A j \in 1..Len(p) : p[j].key = p[i].key => j = i
  BY <1>1, <1>2, <1>5 DEF Absent
<1>7. \A i \in 1..Len(q) : i = 1 \/ (i \in 2..Len(q) /\ i - 1 \in 1..Len(p))
  BY <1>2, <1>3
<1>8. Fits(q, c, Len(bkts))
  <2> SUFFICES ASSUME NEW i \in 1..Len(q), NEW j \in 1..Len(q)
               PROVE  /\ Slot(q[i].key, Len(bkts)) = c
                      /\ q[j].key = q[i].key => j = i
    BY DEF Fits
  <2>1. CASE i = 1 /\ j = 1
    BY <1>3, <2>1
  <2>2. CASE i = 1 /\ j # 1
    BY <1>3, <1>6, <1>7, <2>2
  <2>3. CASE i # 1 /\ j = 1
    <3>1. i - 1 \in 1..Len(p) /\ q[i] = p[i - 1] /\ q[j] = e
      BY <1>3, <1>7, <2>3
    <3>2. Slot(p[i - 1].key, Len(bkts)) = c /\ p[i - 1].key # e.key
      BY <1>6, <3>1
    <3> QED BY <3>1, <3>2
  <2>4. CASE i # 1 /\ j # 1
    <3>1. /\ i - 1 \in 1..Len(p) /\ j - 1 \in 1..Len(p)
          /\ q[i] = p[i - 1] /\ q[j] = p[j - 1]
      BY <1>3, <1>7, <2>4
    <3>2. q[j].key = q[i].key => j - 1 = i - 1
      BY <1>6, <3>1
    <3> QED BY <1>6, <3>1, <3>2
  <2> QED BY <2>1, <2>2, <2>3, <2>4
<1>9. /\ next \in Chains(D) /\ Len(next) = Len(bkts) /\ Placed(next)
      /\ Len(Entries(next)) = Len(Entries(bkts)) + (Len(q) - Len(bkts[c]))
      /\ \A x : Holds(next, x) <=> \/ \E i \in 1..Len(q) : q[i] = x
                                   \/ Holds(bkts, x) /\ Slot(x.key, Len(bkts)) # c
  <2>1. q \in Seq(Entry(D))
    BY <1>3
  <2>2. [bkts EXCEPT ![c] = q] \in Chains(D) /\ Becomes(bkts, [bkts EXCEPT ![c] = q], c, q)
    BY <1>1, <2>1, <1>8, Replaced
  <2> QED BY <1>4, <2>2 DEF Becomes
<1>10. Len(Entries(next)) = Len(Entries(bkts)) + 1
  BY <1>2, <1>3, <1>9
<1>11. ASSUME NEW x PROVE (\E i \in 1..Len(q) : q[i] = x) <=> x = e \/ \E i \in 1..Len(p) : p[i] = x
  <2>1. 1 \in 1..Len(q)
    BY <1>2, <1>3
  <2>2. ASSUME NEW i \in 1..Len(p) PROVE i + 1 \in 1..Len(q) /\ q[i + 1] = p[i]
    <3>1. i + 1 \in 2..Len(q) /\ (i + 1) - 1 = i
      BY <1>2, <1>3
    <3> QED BY <1>3, <3>1
  <2>3. ASSUME NEW i \in 1..Len(q) PROVE q[i] = e \/ \E j \in 1..Len(p) : p[j] = q[i]
    <3>1. CASE i = 1
      BY <1>3, <3>1
    <3>2. CASE i # 1
      <4>1. i - 1 \in 1..Len(p) /\ q[i] = p[i - 1]
        BY <1>3, <1>7, <3>2
      <4> QED BY <4>1
    <3> QED BY <3>1, <3>2
  <2>4. q[1] = e
    BY <1>3
  <2> QED BY <2>1, <2>2, <2>3, <2>4
<1>12. ASSUME NEW x, Holds(bkts, x), Slot(x.key, Len(bkts)) = c PROVE \E i \in 1..Len(p) : p[i] = x
  <2>1. PICK b \in 1..Len(bkts) : \E i \in 1..Len(bkts[b]) : bkts[b][i] = x
    BY <1>12, ChainsAre DEF Holds
  <2>2. b = c
    BY <1>5, <1>12, <2>1
  <2> QED BY <1>2, <2>1, <2>2
<1>13. \A i \in 1..Len(p) : Holds(bkts, p[i])
  BY <1>1, <1>2, <1>5
<1>14. \A x : Holds(next, x) <=> Holds(bkts, x) \/ x = e
  BY <1>9, <1>11, <1>12, <1>13
<1> QED BY <1>0, <1>9, <1>10, <1>14 DEF Gains

(* Entry i of chain p is cut out of q.                                          *)
CutOut(p, i, q) ==
  /\ i \in 1..Len(p) /\ Len(q) = Len(p) - 1
  /\ \A j \in 1..Len(q) : q[j] = IF j < i THEN p[j] ELSE p[j + 1]

LEMMA ChainFacts ==
  ASSUME NEW D, NEW bkts \in Chains(D), Placed(bkts), NEW c \in 1..Len(bkts)
  PROVE  \E p \in Seq(Entry(D)) :
            /\ p = bkts[c] /\ Len(p) \in Nat /\ DOMAIN p = 1..Len(p)
            /\ Fits(p, c, Len(bkts))
            /\ \A i \in 1..Len(p) : /\ Holds(bkts, p[i]) /\ p[i] \in Entry(D)
                                    /\ p[i].key \in DOMAIN Hash /\ p[i].data \in D
            /\ \A x : Holds(bkts, x) /\ Slot(x.key, Len(bkts)) = c => \E i \in 1..Len(p) : p[i] = x
<1>1. PICK p \in Seq(Entry(D)) : /\ p = bkts[c] /\ Len(p) \in Nat /\ DOMAIN p = 1..Len(p)
                                 /\ \A i \in 1..Len(p) :
                                       /\ p[i] \in Entry(D)
                                       /\ p[i].key \in DOMAIN Hash /\ p[i].data \in D
  BY ChainsAre
<1>2. DOMAIN bkts = 1..Len(bkts)
  BY ChainsAre
<1>3. Fits(p, c, Len(bkts))
  BY <1>1, <1>2 DEF Fits, Placed
<1>4. \A i \in 1..Len(p) : Holds(bkts, p[i])
  BY <1>1, <1>2 DEF Holds
<1>5. ASSUME NEW x, Holds(bkts, x), Slot(x.key, Len(bkts)) = c PROVE \E i \in 1..Len(p) : p[i] = x
  <2>1. PICK b \in 1..Len(bkts) : \E i \in DOMAIN bkts[b] : bkts[b][i] = x
    BY <1>2, <1>5 DEF Holds
  <2>2. b = c
    BY <1>2, <1>5, <2>1 DEF Placed
  <2> QED BY <1>1, <2>1, <2>2
<1> QED BY <1>1, <1>3, <1>4, <1>5

(* The chains become others, without the entry of a key.                        *)
Loses(bkts, next, key) ==
  /\ Len(next) = Len(bkts) /\ Placed(next)
  /\ Len(Entries(next)) = Len(Entries(bkts)) - 1
  /\ \A x : Holds(next, x) <=> Holds(bkts, x) /\ x.key # key

LEMMA Drop ==
  ASSUME NEW D, NEW bkts \in Chains(D), Placed(bkts), NEW c \in 1..Len(bkts), NEW i,
         NEW q \in Seq(Entry(D)), CutOut(bkts[c], i, q)
  PROVE  LET next == [bkts EXCEPT ![c] = q]
         IN  next \in Chains(D) /\ Loses(bkts, next, bkts[c][i].key)
<1>1. PICK p \in Seq(Entry(D)) : /\ p = bkts[c] /\ Len(p) \in Nat
                                 /\ Fits(p, c, Len(bkts))
                                 /\ \A j \in 1..Len(p) : Holds(bkts, p[j])
                                 /\ \A x : Holds(bkts, x) /\ Slot(x.key, Len(bkts)) = c
                                              => \E j \in 1..Len(p) : p[j] = x
  BY ChainFacts
<1>2. /\ i \in 1..Len(p) /\ Len(q) = Len(p) - 1 /\ Len(q) \in Nat
      /\ \A j \in 1..Len(q) : /\ j < i => q[j] = p[j]
                              /\ j >= i => q[j] = p[j + 1]
  BY <1>1, LenProperties DEF CutOut
<1>3. ASSUME NEW j \in 1..Len(q)
      PROVE  \E k \in 1..Len(p) : k # i /\ k = (IF j < i THEN j ELSE j + 1) /\ q[j] = p[k]
  <2>1. CASE j < i
    BY <1>1, <1>2, <2>1
  <2>2. CASE j >= i
    BY <1>1, <1>2, <2>2
  <2> QED BY <1>1, <1>2, <2>1, <2>2
<1>4. ASSUME NEW k \in 1..Len(p), k # i PROVE \E j \in 1..Len(q) : q[j] = p[k]
  <2>1. CASE k < i
    BY <1>1, <1>2, <2>1
  <2>2. CASE k > i
    <3>1. k - 1 \in 1..Len(q) /\ k - 1 >= i /\ (k - 1) + 1 = k
      BY <1>1, <1>2, <2>2
    <3> QED BY <1>2, <3>1
  <2> QED BY <1>1, <1>2, <1>4, <2>1, <2>2
<1>5. Fits(q, c, Len(bkts))
  <2> SUFFICES ASSUME NEW j \in 1..Len(q), NEW l \in 1..Len(q)
               PROVE  /\ Slot(q[j].key, Len(bkts)) = c
                      /\ q[l].key = q[j].key => l = j
    BY DEF Fits
  <2>1. PICK k \in 1..Len(p) : k = (IF j < i THEN j ELSE j + 1) /\ q[j] = p[k]
    BY <1>3
  <2>2. PICK m \in 1..Len(p) : m = (IF l < i THEN l ELSE l + 1) /\ q[l] = p[m]
    BY <1>3
  <2>3. q[l].key = q[j].key => m = k
    BY <1>1, <2>1, <2>2 DEF Fits
  <2>4. m = k => l = j
    <3>1. CASE j < i /\ l < i
      BY <2>1, <2>2, <3>1
    <3>2. CASE j < i /\ ~(l < i)
      BY <1>1, <1>2, <2>1, <2>2, <3>2
    <3>3. CASE ~(j < i) /\ l < i
      BY <1>1, <1>2, <2>1, <2>2, <3>3
    <3>4. CASE ~(j < i) /\ ~(l < i)
      BY <1>1, <1>2, <2>1, <2>2, <3>4
    <3> QED BY <3>1, <3>2, <3>3, <3>4
  <2>5. Slot(q[j].key, Len(bkts)) = c
    BY <1>1, <2>1 DEF Fits
  <2> QED BY <2>3, <2>4, <2>5
<1>6. PICK next : next = [bkts EXCEPT ![c] = q]
  OBVIOUS
<1>7. next \in Chains(D) /\ Becomes(bkts, next, c, q)
  BY <1>5, <1>6, Replaced
<1>8. Len(Entries(next)) = Len(Entries(bkts)) - 1
  <2>1. Entries(bkts) \in Seq(Entry(D))
    BY WalkHolds
  <2>2. PICK n \in Nat : n = Len(Entries(bkts))
    BY <2>1, LenProperties
  <2> QED BY <1>1, <1>2, <1>7, <2>2 DEF Becomes
<1>9. ASSUME NEW x PROVE Holds(next, x) <=> Holds(bkts, x) /\ x.key # p[i].key
  <2>1. Slot(p[i].key, Len(bkts)) = c /\ \A k \in 1..Len(p) : p[k].key = p[i].key => k = i
    BY <1>1, <1>2 DEF Fits
  <2>2. ASSUME Holds(next, x) PROVE Holds(bkts, x) /\ x.key # p[i].key
    <3>1. CASE \E j \in 1..Len(q) : q[j] = x
      <4>1. PICK k \in 1..Len(p) : k # i /\ p[k] = x
        BY <1>3, <3>1
      <4> QED BY <1>1, <2>1, <4>1
    <3>2. CASE Holds(bkts, x) /\ Slot(x.key, Len(bkts)) # c
      BY <2>1, <3>2
    <3> QED BY <1>7, <2>2, <3>1, <3>2 DEF Becomes
  <2>3. ASSUME Holds(bkts, x), x.key # p[i].key PROVE Holds(next, x)
    <3>1. CASE Slot(x.key, Len(bkts)) = c
      <4>1. PICK k \in 1..Len(p) : p[k] = x
        BY <1>1, <2>3, <3>1
      <4>2. k # i
        BY <2>3, <4>1
      <4>3. \E j \in 1..Len(q) : q[j] = x
        BY <1>4, <4>1, <4>2
      <4> QED BY <1>7, <4>3 DEF Becomes
    <3>2. CASE Slot(x.key, Len(bkts)) # c
      BY <1>7, <2>3, <3>2 DEF Becomes
    <3> QED BY <3>1, <3>2
  <2> QED BY <2>2, <2>3
<1>10. Loses(bkts, next, p[i].key)
  BY <1>7, <1>8, <1>9 DEF Becomes, Loses
<1> QED BY <1>1, <1>6, <1>7, <1>10

(* The chains become others, with e for its key.                                *)
Gives(bkts, next, e) ==
  /\ Len(next) = Len(bkts) /\ Placed(next)
  /\ Len(Entries(next)) = Len(Entries(bkts))
  /\ \A x : Holds(next, x) <=> (Holds(bkts, x) /\ x.key # e.key) \/ x = e

LEMMA Update ==
  ASSUME NEW D, NEW bkts \in Chains(D), Placed(bkts), NEW c \in 1..Len(bkts),
         NEW i \in 1..Len(bkts[c]), NEW d \in D
  PROVE  LET next == [bkts EXCEPT ![c][i].data = d]
         IN  next \in Chains(D) /\ Gives(bkts, next, [key |-> bkts[c][i].key, data |-> d])
<1>1. PICK p \in Seq(Entry(D)) : /\ p = bkts[c] /\ Len(p) \in Nat
                                 /\ Fits(p, c, Len(bkts))
                                 /\ \A j \in 1..Len(p) : Holds(bkts, p[j]) /\ p[j] \in Entry(D)
                                 /\ \A x : Holds(bkts, x) /\ Slot(x.key, Len(bkts)) = c
                                              => \E j \in 1..Len(p) : p[j] = x
  BY ChainFacts
<1>2. PICK k \in DOMAIN Hash : k = p[i].key
  BY <1>1 DEF Entry
<1>3. PICK e \in Entry(D) : e = [key |-> k, data |-> d]
  BY DEF Entry
<1>4. [p[i] EXCEPT !.data = d] = e
  BY <1>1, <1>2, <1>3 DEF Entry
<1>5. PICK q \in Seq(Entry(D)) : /\ q = [p EXCEPT ![i] = e] /\ Len(q) = Len(p) /\ q[i] = e
                                 /\ \A j \in 1..Len(p) : j # i => q[j] = p[j]
  <2>1. i \in 1..Len(p)
    BY <1>1
  <2>2. /\ [p EXCEPT ![i] = e] \in Seq(Entry(D)) /\ Len([p EXCEPT ![i] = e]) = Len(p)
        /\ \A j \in 1..Len(p) : [p EXCEPT ![i] = e][j] = IF j = i THEN e ELSE p[j]
    BY ONLY <2>1, ExceptSeq, p \in Seq(Entry(D)), e \in Entry(D)
  <2> QED BY <2>1, <2>2
<1>6. [bkts EXCEPT ![c][i].data = d] = [bkts EXCEPT ![c] = q]
  BY <1>1, <1>4, <1>5
<1>7. e.key = k /\ \A j \in 1..Len(p) : q[j].key = p[j].key
  BY <1>1, <1>2, <1>3, <1>5
<1>8. Fits(q, c, Len(bkts))
  BY <1>1, <1>5, <1>7 DEF Fits
<1>9. PICK next : next = [bkts EXCEPT ![c] = q]
  OBVIOUS
<1>10. next \in Chains(D) /\ Becomes(bkts, next, c, q)
  BY <1>8, <1>9, Replaced
<1>11. Len(Entries(next)) = Len(Entries(bkts))
  <2>1. Entries(bkts) \in Seq(Entry(D))
    BY WalkHolds
  <2>2. PICK n \in Nat : n = Len(Entries(bkts))
    BY <2>1, LenProperties
  <2> QED BY <1>1, <1>5, <1>10, <2>2 DEF Becomes
<1>12. i \in 1..Len(p) /\ Slot(k, Len(bkts)) = c /\ \A j \in 1..Len(p) : p[j].key = k => j = i
  BY <1>1, <1>2 DEF Fits
<1>13. ASSUME NEW x PROVE Holds(next, x) <=> ((Holds(bkts, x) /\ x.key # k) \/ x = e)
  <2>1. ASSUME Holds(next, x) PROVE (Holds(bkts, x) /\ x.key # k) \/ x = e
    <3>1. CASE \E j \in 1..Len(q) : q[j] = x
      <4>1. PICK j \in 1..Len(p) : q[j] = x
        BY <1>5, <3>1
      <4>2. CASE j = i
        BY <1>5, <4>1, <4>2
      <4>3. CASE j # i
        BY <1>1, <1>5, <1>12, <4>1, <4>3
      <4> QED BY <4>2, <4>3
    <3>2. CASE Holds(bkts, x) /\ Slot(x.key, Len(bkts)) # c
      BY <1>12, <3>2
    <3> QED BY <1>10, <2>1, <3>1, <3>2 DEF Becomes
  <2>2. ASSUME Holds(bkts, x), x.key # k PROVE Holds(next, x)
    <3>1. CASE Slot(x.key, Len(bkts)) = c
      <4>1. PICK j \in 1..Len(p) : p[j] = x
        BY <1>1, <2>2, <3>1
      <4>2. j # i
        BY <1>2, <2>2, <4>1
      <4>3. \E l \in 1..Len(q) : q[l] = x
        BY <1>5, <4>1, <4>2
      <4> QED BY <1>10, <4>3 DEF Becomes
    <3>2. CASE Slot(x.key, Len(bkts)) # c
      BY <1>10, <2>2, <3>2 DEF Becomes
    <3> QED BY <3>1, <3>2
  <2>3. Holds(next, e)
    <3>1. \E l \in 1..Len(q) : q[l] = e
      BY <1>5, <1>12
    <3> QED BY <1>10, <3>1 DEF Becomes
  <2> QED BY <2>1, <2>2, <2>3
<1>14. Gives(bkts, next, e)
  BY <1>7, <1>10, <1>11, <1>13 DEF Becomes, Gives
<1> QED BY <1>1, <1>2, <1>3, <1>6, <1>9, <1>10, <1>14

-----------------------------------------------------------------------------
(* Resize.                                                                      *)

(* What has been moved of the first n entries of a walk.                        *)
MovedOf(walk, n, bkts, D, size) ==
  /\ bkts \in Chains(D) /\ Len(bkts) = size /\ Placed(bkts)
  /\ Len(Entries(bkts)) = n
  /\ \A x : Holds(bkts, x) <=> \E m \in 1..n : walk[m] = x

LEMMA ResizeIs ==
  ASSUME NEW D, NEW h \in [bkts : Chains(D), used : Nat], Placed(h.bkts), NEW size \in Nat \ {0}
  PROVE  /\ Resize(h, size) = [h EXCEPT !.bkts = Resize(h, size).bkts]
         /\ MovedOf(Entries(h.bkts), Len(Entries(h.bkts)), Resize(h, size).bkts, D, size)
<1> DEFINE E == Entry(D)
           V == {x \in Seq(Seq(E)) : Len(x) = size}
<1>1. PICK walk \in Seq(E) : /\ walk = Entries(h.bkts)
                             /\ \A m, n \in 1..Len(walk) : walk[m].key = walk[n].key => m = n
  BY WalkHolds, WalkOnce
<1>2. PICK N \in Nat : N = Len(walk)
  BY LenProperties
<1>3. \A n \in 1..N : walk[n] \in E /\ Slot(walk[n].key, size) \in 1..size
  <2>1. \A n \in 1..N : walk[n] \in Entry(D)
    BY <1>2, ElementOfSeq
  <2>2. \A e \in Entry(D) : e.key \in DOMAIN Hash
    BY DEF Entry
  <2>3. \A e \in Entry(D) : Slot(e.key, size) \in 1..size
    BY <2>2, SlotIs
  <2> QED BY <2>1, <2>3
<1> DEFINE Empty == [b \in 1..size |-> <<>>]
           Push1(v, n) == [v EXCEPT ![Slot(walk[n].key, size)] = <<walk[n]>> \o @]
           Eq(f) == f = [n \in 0..N |-> IF n = 0 THEN Empty ELSE Push1(f[n - 1], n)]
           st == [n \in 1..N |-> [v \in V |-> Push1(v, n)]]
<1> HIDE DEF E
<1>4. Empty \in V /\ Empty \in Seq(Seq(E)) /\ Len(Empty) = size /\ \A b \in 1..size : Empty[b] = <<>>
  <2>1. \A b \in 1..size : <<>> \in Seq(E)
    OBVIOUS
  <2>2. Empty \in [1..size -> Seq(E)]
    BY <2>1
  <2>3. Empty \in Seq(Seq(E)) /\ Len(Empty) = size
    BY <2>2
  <2> QED BY <2>3
<1>5. \A n \in 1..N, v \in V : Push1(v, n) \in V
  <2> SUFFICES ASSUME NEW n \in 1..N, NEW v \in V PROVE Push1(v, n) \in V
    OBVIOUS
  <2>1. PICK c \in 1..size : c = Slot(walk[n].key, size)
    BY <1>3
  <2>2. v \in Seq(Seq(E)) /\ Len(v) = size
    OBVIOUS
  <2>3. v[c] \in Seq(E)
    BY <2>2, ElementOfSeq
  <2>4. PICK q \in Seq(E) : q = <<walk[n]>> \o v[c]
    <3>1. <<walk[n]>> \in Seq(E)
      BY <1>3
    <3> QED BY <2>3, <3>1, ConcatProperties
  <2>5. Push1(v, n) = [v EXCEPT ![c] = q]
    BY <2>1, <2>4
  <2>6. c \in 1..Len(v)
    BY <2>2
  <2>7. [v EXCEPT ![c] = q] \in Seq(Seq(E)) /\ Len([v EXCEPT ![c] = q]) = Len(v)
    BY ONLY <2>2, <2>6, q \in Seq(E), ExceptSeq
  <2> QED BY <2>2, <2>5, <2>7
<1>6. PICK g \in [0..N -> V] : g[0] = Empty /\ \A n \in 1..N : g[n] = Push1(g[n - 1], n)
  <2> HIDE DEF V, Empty, Push1
  <2>1. st \in [1..N -> [V -> V]]
    BY <1>5
  <2>2. \A n \in 1..N, v \in V : st[n][v] = Push1(v, n)
    OBVIOUS
  <2> HIDE DEF st
  <2>3. PICK g \in [0..N -> V] : IsSolution(g, N, Empty, st)
    BY <1>4, <2>1, Solution
  <2>4. \A n \in 1..N : g[n - 1] \in V
    BY <2>3
  <2> QED BY <2>2, <2>3, <2>4 DEF IsSolution
<1>7. Eq(g)
  <2> HIDE DEF V, Empty, Push1
  <2> QED BY <1>6
<1>8. PICK f : f = CHOOSE x : Eq(x)
  OBVIOUS
<1>9. Eq(f)
  <2> HIDE DEF Eq
  <2> QED BY <1>7, <1>8
<1>10. Resize(h, size) = [h EXCEPT !.bkts = f[N]]
  BY <1>1, <1>2, <1>8 DEF Resize
<1>11. f[0] = Empty /\ \A n \in 1..N : f[n] = Push1(f[n - 1], n)
  <2> HIDE DEF Empty, Push1
  <2>1. \A n \in 0..N : f[n] = IF n = 0 THEN Empty ELSE Push1(f[n - 1], n)
    BY <1>9
  <2>2. 0 \in 0..N /\ \A n \in 1..N : n \in 0..N /\ n # 0
    OBVIOUS
  <2> HIDE DEF Eq
  <2> QED BY <2>1, <2>2
<1> DEFINE S == {n \in 0..N : MovedOf(walk, n, f[n], D, size)}
<1>12. MovedOf(walk, 0, f[0], D, size)
  <2>1. Empty \in Chains(D)
    <3> HIDE DEF Empty
    <3> QED BY <1>4, EmptySeq DEF Chains, E
  <2>2. Len(Entries(Empty)) = 0 /\ Placed(Empty) /\ \A x : ~Holds(Empty, x)
    <3> HIDE DEF Empty
    <3> QED BY <1>4, <2>1, WalkNothing
  <2> HIDE DEF Empty, Push1
  <2> QED BY <1>4, <1>11, <2>1, <2>2 DEF MovedOf
<1>13. ASSUME NEW n \in 1..N, MovedOf(walk, n - 1, f[n - 1], D, size)
       PROVE  MovedOf(walk, n, f[n], D, size)
  <2>1. PICK v \in Chains(D) : v = f[n - 1] /\ Len(v) = size /\ Placed(v) /\ Len(Entries(v)) = n - 1
                               /\ \A x : Holds(v, x) <=> \E m \in 1..(n - 1) : walk[m] = x
    BY <1>13 DEF MovedOf
  <2>2. PICK e \in Entry(D) : e = walk[n]
    BY <1>3 DEF E
  <2>3. Absent(v, e.key)
    <3> SUFFICES ASSUME NEW x, Holds(v, x), x.key = e.key PROVE FALSE
      BY DEF Absent
    <3>1. PICK m \in 1..(n - 1) : walk[m] = x
      BY <2>1
    <3>2. m \in 1..N /\ n \in 1..N /\ m # n
      OBVIOUS
    <3>3. walk[m].key = walk[n].key
      BY <2>2, <3>1
    <3> QED BY <1>1, <1>2, <3>2, <3>3
  <2>4. PICK c \in 1..Len(v) : c = Slot(e.key, Len(v))
    BY <1>3, <2>1, <2>2
  <2>5. PICK next : next = [v EXCEPT ![c] = <<e>> \o @]
    OBVIOUS
  <2>6. next \in Chains(D) /\ Gains(v, next, e)
    BY <2>1, <2>3, <2>4, <2>5, Push
  <2>7. f[n] = next
    BY <1>11, <2>1, <2>2, <2>4, <2>5
  <2>8. \A x : Holds(next, x) <=> \E m \in 1..n : walk[m] = x
    <3>1. \A m \in 1..n : m = n \/ m \in 1..(n - 1)
      OBVIOUS
    <3>2. n \in 1..n /\ \A m \in 1..(n - 1) : m \in 1..n
      OBVIOUS
    <3> QED BY <2>1, <2>2, <2>6, <3>1, <3>2 DEF Gains
  <2> QED BY <2>1, <2>6, <2>7, <2>8 DEF MovedOf, Gains
<1>14. MovedOf(walk, N, f[N], D, size)
  <2> HIDE DEF Eq
  <2>1. 0 \in S /\ \A b \in 1..N : b - 1 \in S => b \in S
    BY <1>12, <1>13
  <2> HIDE DEF S
  <2>2. 0..N \subseteq S
    BY <2>1, Induct
  <2>3. N \in S
    BY <2>2
  <2> QED BY <2>3 DEF S
<1> QED BY <1>1, <1>2, <1>10, <1>14

-----------------------------------------------------------------------------
(* The operations of the map.                                                   *)

(* A hash map with data in D, in its shape.                                     *)
IsMap(h, D) == h \in [bkts : Chains(D), used : Nat] /\ Sound(h)

LEMMA SoundIs == ASSUME NEW h PROVE Sound(h) <=> Placed(h.bkts) /\ h.used = Len(Entries(h.bkts))
BY DEF Sound, Placed

LEMMA MapIs ==
  ASSUME NEW D, NEW h, IsMap(h, D)
  PROVE  /\ h \in [bkts : Chains(D), used : Nat] /\ h = [bkts |-> h.bkts, used |-> h.used]
         /\ h.bkts \in Chains(D) /\ h.used \in Nat
         /\ Placed(h.bkts) /\ h.used = Len(Entries(h.bkts))
BY SoundIs DEF IsMap

(* Get finds the data of a key that is there, and only that.                    *)
LEMMA GetIs ==
  ASSUME NEW D, NEW h, IsMap(h, D), NEW key \in DOMAIN Hash
  PROVE  /\ \A x : Holds(h.bkts, x) /\ x.key = key => Get(h, key) = <<x.data>>
         /\ Absent(h.bkts, key) => Get(h, key) = <<>>
         /\ ~Absent(h.bkts, key) =>
               \E c \in 1..Len(h.bkts) : \E i \in 1..Len(h.bkts[c]) :
                  /\ c = Slot(key, Len(h.bkts)) /\ i = Min(At(h, key)) /\ At(h, key) = {i}
                  /\ h.bkts[c][i].key = key
<1>1. PICK bkts \in Chains(D) : bkts = h.bkts /\ Placed(bkts)
  BY MapIs
<1>2. PICK c \in 1..Len(bkts) : c = Slot(key, Len(bkts))
  BY ChainsAre, SlotIs
<1>3. PICK p \in Seq(Entry(D)) : /\ p = bkts[c] /\ Len(p) \in Nat /\ DOMAIN p = 1..Len(p)
                                 /\ Fits(p, c, Len(bkts))
                                 /\ \A i \in 1..Len(p) : Holds(bkts, p[i])
                                 /\ \A x : Holds(bkts, x) /\ Slot(x.key, Len(bkts)) = c
                                              => \E i \in 1..Len(p) : p[i] = x
  <2>1. Placed(bkts)
    BY Zenon, <1>1
  <2>2. PICK p \in Seq(Entry(D)) :
               /\ p = bkts[c] /\ Len(p) \in Nat /\ DOMAIN p = 1..Len(p)
               /\ Fits(p, c, Len(bkts))
               /\ \A i \in 1..Len(p) : /\ Holds(bkts, p[i]) /\ p[i] \in Entry(D)
                                       /\ p[i].key \in DOMAIN Hash /\ p[i].data \in D
               /\ \A x : Holds(bkts, x) /\ Slot(x.key, Len(bkts)) = c => \E i \in 1..Len(p) : p[i] = x
    BY <2>1, ChainFacts, SMTT(60)
  <2>3. \A i \in 1..Len(p) : Holds(bkts, p[i])
    BY Zenon, <2>2
  <2> QED BY Zenon, <2>2, <2>3
<1>4. At(h, key) = {i \in 1..Len(p) : p[i].key = key} /\ Chain(h, key) = p
  BY <1>1, <1>2, <1>3 DEF At, Chain
<1>5. ASSUME NEW i \in 1..Len(p), p[i].key = key
      PROVE  At(h, key) = {i} /\ Min(At(h, key)) = i /\ Get(h, key) = <<p[i].data>>
  <2>1. \A j \in 1..Len(p) : p[j].key = key => j = i
    BY <1>3, <1>5 DEF Fits
  <2>2. At(h, key) = {i}
    BY <1>4, <1>5, <2>1
  <2>3. {i} \in SUBSET Nat /\ {i} # {}
    BY <1>3
  <2>4. Min({i}) = i
    BY <2>3, MinIs
  <2> QED BY <1>4, <2>2, <2>4 DEF Get
<1>6. ASSUME NEW x, Holds(bkts, x), x.key = key PROVE \E i \in 1..Len(p) : p[i] = x
  BY <1>2, <1>3, <1>6
<1>7. ASSUME Absent(bkts, key) PROVE Get(h, key) = <<>>
  <2>1. At(h, key) = {}
    BY <1>3, <1>4, <1>7 DEF Absent
  <2> QED BY <2>1 DEF Get
<1>8. \A x : Holds(bkts, x) /\ x.key = key => Get(h, key) = <<x.data>>
  BY <1>5, <1>6
<1>9. ASSUME ~Absent(bkts, key)
      PROVE  \E i \in 1..Len(bkts[c]) : /\ i = Min(At(h, key)) /\ At(h, key) = {i}
                                        /\ bkts[c][i].key = key
  <2>1. PICK i \in 1..Len(p) : p[i].key = key
    BY <1>6, <1>9 DEF Absent
  <2> QED BY <1>3, <1>5, <2>1
<1> QED BY <1>1, <1>2, <1>7, <1>8, <1>9

(* Two maps with the same entries for a key.                                    *)
LEMMA GetSame ==
  ASSUME NEW D, NEW h, IsMap(h, D), NEW g, IsMap(g, D), NEW key \in DOMAIN Hash,
         \A x : x.key = key => (Holds(h.bkts, x) <=> Holds(g.bkts, x))
  PROVE  Get(g, key) = Get(h, key)
<1>1. CASE Absent(h.bkts, key)
  <2>1. Absent(g.bkts, key)
    BY <1>1 DEF Absent
  <2> QED BY <1>1, <2>1, GetIs
<1>2. CASE ~Absent(h.bkts, key)
  <2>1. PICK x : Holds(h.bkts, x) /\ x.key = key
    BY <1>2 DEF Absent
  <2> QED BY <2>1, GetIs
<1> QED BY <1>1, <1>2

LEMMA GetType ==
  ASSUME NEW D, NEW h, IsMap(h, D), NEW key \in DOMAIN Hash, Get(h, key) # <<>>
  PROVE  \E d \in D : Get(h, key) = <<d>>
<1>1. ~Absent(h.bkts, key)
  BY GetIs
<1>2. PICK x : Holds(h.bkts, x) /\ x.key = key
  BY <1>1 DEF Absent
<1>3. x.data \in D
  BY <1>2, MapIs, ChainsAre DEF Holds
<1> QED BY <1>2, <1>3, GetIs

(* The same entries, in other chains.                                           *)
Alike(h, g) == g.used = h.used /\ \A x : Holds(g.bkts, x) <=> Holds(h.bkts, x)

LEMMA ResizeKeeps ==
  ASSUME NEW D, NEW h, IsMap(h, D), NEW size \in Nat \ {0}
  PROVE  IsMap(Resize(h, size), D) /\ Alike(h, Resize(h, size))
<1>1. /\ h \in [bkts : Chains(D), used : Nat] /\ h = [bkts |-> h.bkts, used |-> h.used]
      /\ h.bkts \in Chains(D) /\ h.used \in Nat
      /\ Placed(h.bkts) /\ h.used = Len(Entries(h.bkts))
  BY MapIs
<1>2. PICK next : next = Resize(h, size).bkts
  OBVIOUS
<1>3. Resize(h, size) = [h EXCEPT !.bkts = next] /\ MovedOf(Entries(h.bkts), Len(Entries(h.bkts)), next, D, size)
  BY <1>1, <1>2, ResizeIs
<1>4. Resize(h, size) = [bkts |-> next, used |-> h.used]
  BY <1>1, <1>3
<1>5. /\ next \in Chains(D) /\ Placed(next) /\ Len(Entries(next)) = h.used
      /\ \A x : Holds(next, x) <=> \E m \in 1..Len(Entries(h.bkts)) : Entries(h.bkts)[m] = x
  BY <1>1, <1>3 DEF MovedOf
<1>6. \A x : Holds(next, x) <=> Holds(h.bkts, x)
  <2>1. PICK w : w = Entries(h.bkts)
    OBVIOUS
  <2>2. /\ \A n \in 1..Len(w) : Holds(h.bkts, w[n])
        /\ \A x : Holds(h.bkts, x) => \E n \in 1..Len(w) : w[n] = x
    BY <1>1, <2>1, WalkHolds
  <2>3. \A x : Holds(next, x) <=> \E m \in 1..Len(w) : w[m] = x
    BY <1>5, <2>1
  <2> QED BY <2>2, <2>3
<1>7. PICK g : g = [bkts |-> next, used |-> h.used]
  OBVIOUS
<1>8. g \in [bkts : Chains(D), used : Nat] /\ g.bkts = next /\ g.used = h.used
  BY <1>1, <1>5, <1>7
<1>9. IsMap(g, D)
  BY <1>5, <1>8, SoundIs DEF IsMap
<1> QED BY <1>4, <1>6, <1>7, <1>8, <1>9 DEF Alike

LEMMA GrowKeeps ==
  ASSUME NEW D, NEW h, IsMap(h, D)
  PROVE  IsMap(Grow(h), D) /\ Alike(h, Grow(h))
<1>1. Len(h.bkts) \in Nat \ {0}
  BY MapIs, ChainsAre
<1>2. 2 * Len(h.bkts) \in Nat \ {0}
  BY <1>1
<1> QED BY <1>2, ResizeKeeps DEF Grow, Alike

LEMMA Half ==
  ASSUME NEW n \in Nat, n >= 2
  PROVE  n \div 2 \in Nat \ {0}
<1>1. n \div 2 \in Nat
  OBVIOUS
<1>2. n \div 2 >= 1
  OBVIOUS
<1> QED BY <1>1, <1>2

LEMMA ShrinkKeeps ==
  ASSUME NEW D, NEW h, IsMap(h, D)
  PROVE  IsMap(Shrink(h), D) /\ Alike(h, Shrink(h))
<1>1. Len(h.bkts) \in Nat \ {0}
  BY MapIs, ChainsAre
<1>2. CASE Len(h.bkts) <= BSZ
  BY <1>2 DEF Shrink, Alike
<1>3. CASE ~(Len(h.bkts) <= BSZ)
  <2>1. Len(h.bkts) \div 2 \in Nat \ {0}
    <3>1. PICK n \in Nat : n = Len(h.bkts) /\ n >= 2
      BY <1>1, <1>3, SizeAssumption
    <3> QED BY <3>1, Half
  <2> QED BY <1>3, <2>1, ResizeKeeps DEF Shrink
<1> QED BY <1>2, <1>3

(* g is h but for a key, which it has with the data found, if any.              *)
ButFor(h, g, key, found) ==
  /\ Get(g, key) = found
  /\ \A k \in DOMAIN Hash : k # key => Get(g, k) = Get(h, k)

LEMMA NewIs ==
  ASSUME NEW D
  PROVE  IsMap(New, D) /\ New.used = 0 /\ \A k \in DOMAIN Hash : Get(New, k) = <<>>
<1>1. PICK bkts : bkts = New.bkts
  OBVIOUS
<1>2. bkts \in [1..BSZ -> Seq(Entry(D))] /\ \A i \in 1..BSZ : bkts[i] = <<>>
  <2>1. \A i \in 1..BSZ : <<>> \in Seq(Entry(D))
    OBVIOUS
  <2> QED BY <1>1, <2>1 DEF New
<1>3. bkts \in Seq(Seq(Entry(D))) /\ Len(bkts) = BSZ /\ BSZ \in Nat \ {0}
  BY <1>2, SizeAssumption
<1>4. bkts \in Chains(D)
  BY <1>3, EmptySeq DEF Chains
<1>5. Len(Entries(bkts)) = 0 /\ Placed(bkts) /\ \A x : ~Holds(bkts, x)
  BY <1>2, <1>3, <1>4, WalkNothing
<1>6. New \in [bkts : Chains(D), used : Nat] /\ New.used = 0
  BY <1>1, <1>4 DEF New
<1>7. IsMap(New, D)
  BY <1>1, <1>5, <1>6, SoundIs DEF IsMap
<1>8. \A k \in DOMAIN Hash : Absent(New.bkts, k)
  BY <1>1, <1>5 DEF Absent
<1> QED BY <1>6, <1>7, <1>8, GetIs

(* Set gives the key its data, and counts a key that was not there.             *)
THEOREM SetIs ==
  ASSUME NEW D, NEW h, IsMap(h, D), NEW key \in DOMAIN Hash, NEW data \in D
  PROVE  /\ IsMap(Set(h, key, data), D) /\ ButFor(h, Set(h, key, data), key, <<data>>)
         /\ Set(h, key, data).used = IF Get(h, key) = <<>> THEN h.used + 1 ELSE h.used
<1>1. /\ h \in [bkts : Chains(D), used : Nat] /\ h = [bkts |-> h.bkts, used |-> h.used]
      /\ h.bkts \in Chains(D) /\ h.used \in Nat
      /\ Placed(h.bkts) /\ h.used = Len(Entries(h.bkts))
  BY MapIs
<1>2. PICK bkts \in Chains(D) : bkts = h.bkts
  BY <1>1
<1>3. PICK e \in Entry(D) : e = [key |-> key, data |-> data]
  BY DEF Entry
<1>4. e.key = key /\ e.data = data
  BY <1>3
<1>5. ASSUME NEW g, IsMap(g, D),
             \A x : Holds(g.bkts, x) <=> (Holds(bkts, x) /\ x.key # key) \/ x = e
      PROVE  ButFor(h, g, key, <<data>>)
  <2>1. Get(g, key) = <<data>>
    BY <1>4, <1>5, GetIs
  <2>2. ASSUME NEW k \in DOMAIN Hash, k # key PROVE Get(g, k) = Get(h, k)
    <3>1. \A x : x.key = k => (Holds(h.bkts, x) <=> Holds(g.bkts, x))
      BY <1>2, <1>4, <1>5, <2>2
    <3> QED BY <1>5, <3>1, GetSame
  <2> QED BY <2>1, <2>2 DEF ButFor
<1>6. CASE Absent(bkts, key)
  <2>1. At(h, key) = {}
    <3>1. ASSUME NEW j \in At(h, key) PROVE FALSE
      <4>1. PICK c \in 1..Len(bkts) : c = Slot(key, Len(bkts))
        BY <1>2, ChainsAre, SlotIs
      <4>2. j \in DOMAIN bkts[c] /\ bkts[c][j].key = key
        BY <1>2, <3>1, <4>1 DEF At, Chain
      <4>3. Holds(bkts, bkts[c][j])
        BY <4>1, <4>2, ChainsAre DEF Holds
      <4> QED BY <1>6, <4>2, <4>3 DEF Absent
    <3> QED BY <3>1
  <2>2. PICK c \in 1..Len(bkts) : c = Slot(e.key, Len(bkts))
    BY <1>4, ChainsAre, SlotIs
  <2>3. PICK next : next = [bkts EXCEPT ![c] = <<e>> \o @]
    OBVIOUS
  <2>4. next \in Chains(D) /\ Gains(bkts, next, e)
    BY <1>1, <1>2, <1>4, <1>6, <2>2, <2>3, Push
  <2>5. PICK put : put = [bkts |-> next, used |-> h.used + 1]
    OBVIOUS
  <2>6. put \in [bkts : Chains(D), used : Nat] /\ put.bkts = next /\ put.used = h.used + 1
    BY <1>1, <2>4, <2>5
  <2>7. IsMap(put, D)
    BY <1>1, <1>2, <2>4, <2>6, SoundIs DEF IsMap, Gains
  <2>8. Set(h, key, data) = IF put.used > Len(put.bkts) THEN Grow(put) ELSE put
    BY <1>2, <1>3, <1>4, <2>1, <2>2, <2>3, <2>5 DEF Set
  <2>9. IsMap(Set(h, key, data), D) /\ Alike(put, Set(h, key, data))
    BY <2>7, <2>8, GrowKeeps DEF Alike
  <2>10. PICK g : g = Set(h, key, data)
    OBVIOUS
  <2>11. \A x : Holds(g.bkts, x) <=> (Holds(bkts, x) /\ x.key # key) \/ x = e
    BY <1>6, <2>4, <2>6, <2>9, <2>10 DEF Absent, Gains, Alike
  <2>12. ButFor(h, g, key, <<data>>)
    BY <1>5, <2>9, <2>10, <2>11
  <2>13. Get(h, key) = <<>> /\ g.used = h.used + 1
    BY <1>2, <1>6, <2>6, <2>9, <2>10, GetIs DEF Alike
  <2> QED BY <2>9, <2>10, <2>12, <2>13
<1>7. CASE ~Absent(bkts, key)
  <2>1. PICK c \in 1..Len(bkts), i \in 1..Len(bkts[Slot(key, Len(bkts))]) :
           /\ c = Slot(key, Len(bkts)) /\ i = Min(At(h, key)) /\ At(h, key) = {i}
           /\ bkts[c][i].key = key
    BY <1>2, <1>7, GetIs
  <2>2. PICK next : next = [bkts EXCEPT ![c][i].data = data]
    OBVIOUS
  <2>3. /\ next \in Chains(D) /\ Placed(next) /\ Len(Entries(next)) = Len(Entries(bkts))
        /\ \A x : Holds(next, x) <=> (Holds(bkts, x) /\ x.key # key) \/ x = e
    <3>1. i \in 1..Len(bkts[c])
      BY <2>1
    <3>2. Placed(bkts)
      BY <1>1, <1>2
    <3>3. e = [key |-> bkts[c][i].key, data |-> data]
      BY <1>3, <2>1
    <3>4. next \in Chains(D) /\ Gives(bkts, next, e)
      BY <2>2, <3>1, <3>2, <3>3, Update
    <3> QED BY <1>4, <3>4 DEF Gives
  <2>4. PICK g : g = [bkts |-> next, used |-> h.used]
    OBVIOUS
  <2>5. g \in [bkts : Chains(D), used : Nat] /\ g.bkts = next /\ g.used = h.used
    BY <1>1, <2>3, <2>4
  <2>6. IsMap(g, D)
    BY <1>1, <1>2, <2>3, <2>5, SoundIs DEF IsMap
  <2>7. Set(h, key, data) = g
    <3>1. Set(h, key, data) = [h EXCEPT !.bkts[c][i].data = data]
      BY <1>2, <2>1 DEF Set
    <3>2. [h EXCEPT !.bkts[c][i].data = data] = [h EXCEPT !.bkts = next]
      BY <1>1, <1>2, <2>2
    <3>3. [h EXCEPT !.bkts = next] = g
      BY <1>1, <2>4
    <3> QED BY <3>1, <3>2, <3>3
  <2>8. ButFor(h, g, key, <<data>>)
    BY <1>5, <2>3, <2>5, <2>6
  <2>9. Get(h, key) # <<>>
    <3>1. PICK x : Holds(bkts, x) /\ x.key = key
      BY <1>7 DEF Absent
    <3>2. Get(h, key) = <<x.data>>
      BY <1>2, <3>1, GetIs
    <3> QED BY <3>2
  <2> QED BY <2>5, <2>6, <2>7, <2>8, <2>9
<1> QED BY <1>6, <1>7

LEMMA RemoveAtIs ==
  ASSUME NEW S, NEW p \in Seq(S), NEW i \in 1..Len(p)
  PROVE  RemoveAt(p, i) \in Seq(S) /\ CutOut(p, i, RemoveAt(p, i))
<1>1. PICK n \in Nat : n = Len(p) /\ i \in 1..n /\ \A j \in 1..n : p[j] \in S
  BY LenProperties, ElementOfSeq
<1>2. PICK a \in Seq(S), b \in Seq(S) :
         /\ a = SubSeq(p, 1, i - 1) /\ Len(a) = i - 1 /\ \A j \in 1..(i - 1) : a[j] = p[j]
         /\ b = SubSeq(p, i + 1, n) /\ Len(b) = n - i /\ \A j \in 1..(n - i) : b[j] = p[i + j]
  <2>1. /\ SubSeq(p, 1, i - 1) \in Seq(S) /\ Len(SubSeq(p, 1, i - 1)) = i - 1
        /\ \A j \in 1..(i - 1) : SubSeq(p, 1, i - 1)[j] = p[j]
    <3>1. 1 \in Int /\ i - 1 \in Int /\ \A j \in 1..(i - 1) : p[j] \in S
      BY <1>1
    <3>2. /\ SubSeq(p, 1, i - 1) \in Seq(S)
          /\ Len(SubSeq(p, 1, i - 1)) = IF 1 <= i - 1 THEN (i - 1) - 1 + 1 ELSE 0
          /\ \A j \in 1..((i - 1) - 1 + 1) : SubSeq(p, 1, i - 1)[j] = p[1 + j - 1]
      BY ONLY <3>1, SubSeqProperties
    <3>3. i \in Nat /\ i >= 1
      BY <1>1
    <3> QED BY <3>2, <3>3
  <2>2. /\ SubSeq(p, i + 1, n) \in Seq(S) /\ Len(SubSeq(p, i + 1, n)) = n - i
        /\ \A j \in 1..(n - i) : SubSeq(p, i + 1, n)[j] = p[i + j]
    <3>1. i + 1 \in Int /\ n \in Int /\ \A j \in (i + 1)..n : p[j] \in S
      BY <1>1
    <3>2. /\ SubSeq(p, i + 1, n) \in Seq(S)
          /\ Len(SubSeq(p, i + 1, n)) = IF i + 1 <= n THEN n - (i + 1) + 1 ELSE 0
          /\ \A j \in 1..(n - (i + 1) + 1) : SubSeq(p, i + 1, n)[j] = p[(i + 1) + j - 1]
      BY ONLY <3>1, SubSeqProperties
    <3>3. i \in Nat /\ i >= 1 /\ i <= n
      BY <1>1
    <3> QED BY <3>2, <3>3
  <2> QED BY <2>1, <2>2
<1>3. RemoveAt(p, i) = a \o b
  BY <1>1, <1>2 DEF RemoveAt
<1>4. /\ a \o b \in Seq(S) /\ Len(a \o b) = Len(a) + Len(b)
      /\ \A j \in 1..(Len(a) + Len(b)) : (a \o b)[j] = IF j <= Len(a) THEN a[j] ELSE b[j - Len(a)]
  BY ONLY a \in Seq(S), b \in Seq(S), ConcatProperties
<1>5. PICK q : q = a \o b
  OBVIOUS
<1>6. Len(q) = n - 1
  <2>1. PICK i1 \in Nat : i1 = i /\ i1 >= 1 /\ i1 <= n
    BY <1>1
  <2>2. Len(q) = (i1 - 1) + (n - i1)
    BY <1>2, <1>4, <1>5, <2>1
  <2> QED BY <2>2
<1>7. ASSUME NEW j \in 1..Len(q) PROVE q[j] = IF j < i THEN p[j] ELSE p[j + 1]
  <2>1. j \in 1..(Len(a) + Len(b)) /\ i \in Nat /\ i >= 1 /\ j \in 1..(n - 1)
    <3>1. PICK i1 \in Nat : i1 = i /\ i1 >= 1 /\ i1 <= n
      BY <1>1
    <3>2. Len(a) + Len(b) = (i1 - 1) + (n - i1)
      BY <1>2, <3>1
    <3>3. Len(a) + Len(b) = n - 1
      BY <3>2
    <3> QED BY <1>6, <3>1, <3>3
  <2>2. CASE j < i
    <3>1. j <= Len(a) /\ j \in 1..(i - 1)
      BY <1>1, <1>2, <2>1, <2>2
    <3> QED BY <1>2, <1>4, <1>5, <2>1, <2>2, <3>1
  <2>3. CASE ~(j < i)
    <3>1. ~(j <= Len(a)) /\ j - Len(a) \in 1..(n - i) /\ i + (j - Len(a)) = j + 1
      BY <1>1, <1>2, <2>1, <2>3
    <3>2. q[j] = b[j - Len(a)]
      BY <1>4, <1>5, <2>1, <3>1
    <3> QED BY <1>2, <2>3, <3>1, <3>2
  <2> QED BY <2>2, <2>3
<1> QED BY <1>1, <1>3, <1>4, <1>5, <1>6, <1>7 DEF CutOut

(* g is h without the entry of a key that it has.                               *)
LEMMA Without ==
  ASSUME NEW D, NEW h, IsMap(h, D), NEW g, IsMap(g, D), NEW key \in DOMAIN Hash,
         \A x : Holds(g.bkts, x) <=> Holds(h.bkts, x) /\ x.key # key
  PROVE  ButFor(h, g, key, <<>>)
<1>1. Get(g, key) = <<>>
  <2>1. Absent(g.bkts, key)
    BY DEF Absent
  <2> QED BY <2>1, GetIs
<1>2. ASSUME NEW k \in DOMAIN Hash, k # key PROVE Get(g, k) = Get(h, k)
  <2>1. \A x : x.key = k => (Holds(h.bkts, x) <=> Holds(g.bkts, x))
    BY <1>2
  <2> QED BY <2>1, GetSame
<1> QED BY <1>1, <1>2 DEF ButFor

Cut(h, g, key) ==
  /\ g.used = h.used - 1
  /\ \A x : Holds(g.bkts, x) <=> Holds(h.bkts, x) /\ x.key # key

(* Taking out entry i of chain c.                                               *)
LEMMA CutIs ==
  ASSUME NEW D, NEW h, IsMap(h, D), NEW c \in 1..Len(h.bkts), NEW i,
         NEW q \in Seq(Entry(D)), CutOut(h.bkts[c], i, q), NEW key, key = h.bkts[c][i].key
  PROVE  LET cut == [bkts |-> [h.bkts EXCEPT ![c] = q], used |-> h.used - 1]
         IN  IsMap(cut, D) /\ Cut(h, cut, key)
<1>1. h.bkts \in Chains(D) /\ h.used \in Nat /\ Placed(h.bkts) /\ h.used = Len(Entries(h.bkts))
  BY MapIs
<1>2. PICK bkts \in Chains(D) : bkts = h.bkts /\ Placed(bkts)
  BY <1>1
<1>3. PICK next : next = [bkts EXCEPT ![c] = q]
  OBVIOUS
<1>4. next \in Chains(D) /\ Loses(bkts, next, key)
  BY <1>2, <1>3, Drop
<1>5. PICK cut : cut = [bkts |-> next, used |-> h.used - 1]
  OBVIOUS
<1>6. cut.bkts = next /\ cut.used = h.used - 1
  BY <1>5
<1>7. Len(Entries(next)) \in Nat
  BY <1>4, WalkHolds, LenProperties
<1>8. h.used - 1 \in Nat /\ cut.used = Len(Entries(next))
  BY <1>1, <1>2, <1>4, <1>6, <1>7 DEF Loses
<1>9. cut \in [bkts : Chains(D), used : Nat]
  BY <1>4, <1>5, <1>8
<1>10. IsMap(cut, D)
  BY <1>4, <1>6, <1>8, <1>9, SoundIs DEF IsMap, Loses
<1>11. Cut(h, cut, key)
  BY <1>2, <1>4, <1>6 DEF Cut, Loses
<1> QED BY <1>2, <1>3, <1>5, <1>10, <1>11

(* Unset takes the key out.                                                     *)
THEOREM UnsetIs ==
  ASSUME NEW D, NEW h, IsMap(h, D), NEW key \in DOMAIN Hash
  PROVE  /\ IsMap(Unset(h, key), D) /\ ButFor(h, Unset(h, key), key, <<>>)
         /\ Unset(h, key).used <= h.used
<1>1. h.bkts \in Chains(D) /\ h.used \in Nat
  BY MapIs
<1>2. CASE Absent(h.bkts, key)
  <2>1. Get(h, key) = <<>>
    BY <1>2, GetIs
  <2>2. At(h, key) = {}
    BY <2>1 DEF Get
  <2>3. Unset(h, key) = h
    BY <2>2 DEF Unset
  <2> QED BY <1>1, <2>1, <2>3 DEF ButFor
<1>3. CASE ~Absent(h.bkts, key)
  <2>1. PICK c \in 1..Len(h.bkts), i \in 1..Len(h.bkts[Slot(key, Len(h.bkts))]) :
           /\ c = Slot(key, Len(h.bkts)) /\ i = Min(At(h, key)) /\ At(h, key) = {i}
           /\ h.bkts[c][i].key = key
    BY <1>3, GetIs
  <2>2. PICK q \in Seq(Entry(D)) : q = RemoveAt(h.bkts[c], i) /\ CutOut(h.bkts[c], i, q)
    <3>1. h.bkts[c] \in Seq(Entry(D))
      BY <1>1, ChainsAre
    <3> QED BY <2>1, <3>1, RemoveAtIs
  <2>3. PICK cut : cut = [bkts |-> [h.bkts EXCEPT ![c] = q], used |-> h.used - 1]
    OBVIOUS
  <2>4. IsMap(cut, D) /\ Cut(h, cut, key)
    BY <2>1, <2>2, <2>3, CutIs
  <2>5. PICK g : g = Unset(h, key)
    OBVIOUS
  <2>6. g = IF Len(h.bkts) > BSZ /\ cut.used < Len(h.bkts) \div 4 THEN Shrink(cut) ELSE cut
    <3>1. At(h, key) # {}
      BY <2>1
    <3> QED BY <2>1, <2>2, <2>3, <2>5, <3>1 DEF Unset
  <2>7. IsMap(g, D) /\ Alike(cut, g)
    BY <2>4, <2>6, ShrinkKeeps DEF Alike
  <2>8. \A x : Holds(g.bkts, x) <=> Holds(h.bkts, x) /\ x.key # key
    BY <2>4, <2>7 DEF Alike, Cut
  <2>9. ButFor(h, g, key, <<>>)
    BY <2>7, <2>8, Without
  <2>10. g.used <= h.used
    BY <1>1, <2>4, <2>7 DEF Alike, Cut
  <2> QED BY <2>5, <2>7, <2>9, <2>10
<1> QED BY <1>2, <1>3

(* Eviction takes one key out of a map that is not empty.                       *)
THEOREM RandomIs ==
  ASSUME NEW D, NEW h, IsMap(h, D), NEW g \in RemoveRandom(h)
  PROVE  /\ IsMap(g, D) /\ (h.used > 0 => g.used = h.used - 1)
         /\ \A k \in DOMAIN Hash : Get(g, k) \in {<<>>, Get(h, k)}
<1>1. h.bkts \in Chains(D) /\ h.used \in Nat /\ h.used = Len(Entries(h.bkts))
  BY MapIs
<1>2. CASE h.used = 0
  <2>1. g = h
    BY <1>2 DEF RemoveRandom
  <2> QED BY <1>2, <2>1
<1>3. CASE h.used # 0
  <2>1. PICK bkts \in Chains(D) : bkts = h.bkts
    BY <1>1
  <2>2. PICK n \in Nat : n = Len(bkts) /\ DOMAIN bkts = 1..n /\ \A b \in 1..n : bkts[b] \in Seq(Entry(D))
    BY ChainsAre
  <2> DEFINE inUse == {b \in DOMAIN h.bkts : h.bkts[b] # <<>>}
             victim(i) == IF \E b \in inUse : b >= i
                          THEN Min({b \in inUse : b >= i}) ELSE Max(inUse)
  <2>3. PICK i \in DOMAIN h.bkts :
           g = [bkts |-> [h.bkts EXCEPT ![victim(i)] = Tail(@)], used |-> h.used - 1]
    BY <1>3 DEF RemoveRandom
  <2>4. inUse \in SUBSET (0..n) /\ inUse # {}
    <3>1. inUse # {}
      <4>1. \E b \in 1..n : bkts[b] # <<>>
        BY <1>1, <1>3, <2>1, <2>2, WalkNothing
      <4> QED BY <2>1, <2>2, <4>1
    <3>2. inUse \in SUBSET (0..n)
      BY <2>1, <2>2
    <3> QED BY <3>1, <3>2
  <2>5. PICK c \in inUse : c = victim(i)
    <3>1. CASE \E b \in inUse : b >= i
      <4>1. {b \in inUse : b >= i} \in SUBSET Nat /\ {b \in inUse : b >= i} # {}
        BY <2>4, <3>1
      <4>2. Min({b \in inUse : b >= i}) \in {b \in inUse : b >= i}
        BY <4>1, MinIs
      <4> HIDE DEF inUse
      <4> QED BY <3>1, <4>2
    <3>2. CASE ~\E b \in inUse : b >= i
      <4> HIDE DEF inUse
      <4>1. Max(inUse) \in inUse
        BY <2>4, MaxIs
      <4> QED BY <3>2, <4>1
    <3> QED BY <3>1, <3>2
  <2> HIDE DEF victim
  <2>6. c \in 1..Len(h.bkts) /\ h.bkts[c] # <<>> /\ h.bkts[c] \in Seq(Entry(D))
    BY <2>1, <2>2, <2>5
  <2> HIDE DEF inUse
  <2>7. PICK q \in Seq(Entry(D)) : q = Tail(h.bkts[c]) /\ CutOut(h.bkts[c], 1, q)
    <3>1. PICK p \in Seq(Entry(D)) : p = h.bkts[c] /\ p # <<>>
      BY <2>6
    <3>2. PICK m \in Nat \ {0} : m = Len(p)
      BY <3>1, EmptySeq
    <3>3. Tail(p) \in Seq(Entry(D)) /\ Len(Tail(p)) = Len(p) - 1 /\ \A j \in 1..Len(Tail(p)) : Tail(p)[j] = p[j + 1]
      BY ONLY <3>1, HeadTailProperties, p \in Seq(Entry(D))
    <3>4. 1 \in 1..m /\ \A j \in 1..(m - 1) : ~(j < 1)
      OBVIOUS
    <3>5. CutOut(p, 1, Tail(p))
      BY <3>2, <3>3, <3>4 DEF CutOut
    <3> QED BY <3>1, <3>3, <3>5
  <2>8. PICK key \in DOMAIN Hash : key = h.bkts[c][1].key
    <3>1. PICK p \in Seq(Entry(D)) : p = h.bkts[c] /\ p # <<>>
      BY <2>6
    <3>2. p[1] \in Entry(D)
      BY <3>1, EmptySeq, ElementOfSeq
    <3> QED BY <3>1, <3>2 DEF Entry
  <2>9. g = [bkts |-> [h.bkts EXCEPT ![c] = q], used |-> h.used - 1]
    BY <2>3, <2>5, <2>7
  <2>10. IsMap(g, D) /\ Cut(h, g, key)
    BY <2>6, <2>7, <2>8, <2>9, CutIs
  <2>11. ButFor(h, g, key, <<>>)
    BY <2>10, Without DEF Cut
  <2> QED BY <2>10, <2>11 DEF ButFor, Cut
<1> QED BY <1>2, <1>3

(* AllKeys gives each key that is there, once.                                  *)
THEOREM KeysAre ==
  ASSUME NEW D, NEW h, IsMap(h, D)
  PROVE  /\ AllKeys(h) \in Seq(DOMAIN Hash) /\ Len(AllKeys(h)) = h.used
         /\ \A k \in DOMAIN Hash :
               Get(h, k) # <<>> <=> \E n \in 1..Len(AllKeys(h)) : AllKeys(h)[n] = k
         /\ \A m, n \in 1..Len(AllKeys(h)) : AllKeys(h)[m] = AllKeys(h)[n] => m = n
<1>1. h.bkts \in Chains(D) /\ Placed(h.bkts) /\ h.used = Len(Entries(h.bkts))
  BY MapIs
<1>2. PICK walk \in Seq(Entry(D)) :
         /\ walk = Entries(h.bkts)
         /\ \A n \in 1..Len(walk) : Holds(h.bkts, walk[n])
         /\ \A e : Holds(h.bkts, e) => \E n \in 1..Len(walk) : walk[n] = e
         /\ \A m, n \in 1..Len(walk) : walk[m].key = walk[n].key => m = n
  BY <1>1, WalkHolds, WalkOnce
<1>3. PICK N \in Nat : N = Len(walk) /\ DOMAIN walk = 1..N
  BY LenProperties
<1>4. PICK keys : keys = [i \in 1..N |-> walk[i].key]
  OBVIOUS
<1>5. AllKeys(h) = keys
  BY <1>2, <1>3, <1>4 DEF AllKeys
<1>6. \A i \in 1..N : walk[i].key \in DOMAIN Hash
  <2>1. \A i \in 1..N : walk[i] \in Entry(D)
    BY <1>3, ElementOfSeq
  <2> QED BY <2>1 DEF Entry
<1>7. keys \in Seq(DOMAIN Hash) /\ Len(keys) = N
  BY <1>4, <1>6
<1>8. ASSUME NEW k \in DOMAIN Hash PROVE Get(h, k) # <<>> <=> \E n \in 1..N : keys[n] = k
  <2>1. ASSUME Get(h, k) # <<>> PROVE \E n \in 1..N : keys[n] = k
    <3>1. PICK x : Holds(h.bkts, x) /\ x.key = k
      BY <2>1, GetIs DEF Absent
    <3> QED BY <1>2, <1>3, <1>4, <3>1
  <2>2. ASSUME NEW n \in 1..N, keys[n] = k PROVE Get(h, k) # <<>>
    <3>1. Holds(h.bkts, walk[n]) /\ walk[n].key = k
      BY <1>2, <1>3, <1>4, <2>2
    <3>2. Get(h, k) = <<walk[n].data>>
      BY <3>1, GetIs
    <3> QED BY <3>2
  <2> QED BY <2>1, <2>2
<1>9. \A m, n \in 1..N : keys[m] = keys[n] => m = n
  BY <1>2, <1>3, <1>4
<1>10. N = h.used
  BY <1>1, <1>2, <1>3
<1>11. Len(AllKeys(h)) = N
  BY <1>5, <1>7
<1>12. \A k \in DOMAIN Hash : Get(h, k) # <<>> <=> \E n \in 1..Len(AllKeys(h)) : AllKeys(h)[n] = k
  BY ONLY <1>5, <1>8, <1>11
<1>13. \A m, n \in 1..Len(AllKeys(h)) : AllKeys(h)[m] = AllKeys(h)[n] => m = n
  BY ONLY <1>5, <1>9, <1>11
<1>14. AllKeys(h) \in Seq(DOMAIN Hash)
  BY <1>5, <1>7
<1> QED BY ONLY <1>10, <1>11, <1>12, <1>13, <1>14

-----------------------------------------------------------------------------
(* The tree and its cache.                                                      *)
(* The first k members of a sequence.                                           *)
LEMMA UpTo ==
  ASSUME NEW S, NEW p \in Seq(S), NEW k \in 0..Len(p)
  PROVE  /\ SubSeq(p, 1, k) \in Seq(S) /\ Len(SubSeq(p, 1, k)) = k
         /\ \A i \in 1..k : SubSeq(p, 1, k)[i] = p[i]
<1>1. Len(p) \in Nat /\ \A i \in 1..Len(p) : p[i] \in S
  BY LenProperties, ElementOfSeq
<1>2. 1 \in Int /\ k \in Int /\ \A i \in 1..k : p[i] \in S
  BY <1>1
<1>3. /\ SubSeq(p, 1, k) \in Seq(S)
      /\ Len(SubSeq(p, 1, k)) = IF 1 <= k THEN k - 1 + 1 ELSE 0
      /\ \A i \in 1..(k - 1 + 1) : SubSeq(p, 1, k)[i] = p[1 + i - 1]
  BY ONLY <1>2, SubSeqProperties
<1>4. k \in Nat
  BY <1>1
<1>5. Len(SubSeq(p, 1, k)) = k
  BY <1>3, <1>4
<1>6. ASSUME NEW i \in 1..k PROVE SubSeq(p, 1, k)[i] = p[i]
  <2>1. i \in 1..(k - 1 + 1) /\ 1 + i - 1 = i
    BY <1>4
  <2> QED BY <1>3, <2>1
<1> QED BY <1>3, <1>5, <1>6

(* A sequence that begins another.                                              *)
LEMMA PrefixIs ==
  ASSUME NEW S, NEW p \in Seq(S), NEW q \in Seq(S)
  PROVE  /\ IsPrefix(p, q) <=> Len(p) <= Len(q) /\ \A i \in 1..Len(p) : p[i] = q[i]
         /\ IsPrefix(p, q) <=> Len(p) <= Len(q) /\ p = SubSeq(q, 1, Len(p))
<1>1. Len(p) \in Nat /\ Len(q) \in Nat /\ SubSeq(p, 1, Len(p)) = p
  BY LenProperties, SubSeqFull
<1>2. CASE Len(p) <= Len(q)
  <2>1. Len(p) \in 0..Len(q)
    BY <1>1, <1>2
  <2>2. /\ SubSeq(q, 1, Len(p)) \in Seq(S) /\ Len(SubSeq(q, 1, Len(p))) = Len(p)
        /\ \A i \in 1..Len(p) : SubSeq(q, 1, Len(p))[i] = q[i]
    BY <2>1, UpTo
  <2>3. p = SubSeq(q, 1, Len(p)) <=> \A i \in 1..Len(p) : p[i] = q[i]
    <3>1. ASSUME \A i \in 1..Len(p) : p[i] = q[i] PROVE p = SubSeq(q, 1, Len(p))
      BY <2>2, <3>1, SeqEqual
    <3> QED BY <2>2, <3>1
  <2> QED BY <1>1, <2>3 DEF IsPrefix
<1>3. CASE ~(Len(p) <= Len(q))
  BY <1>3 DEF IsPrefix
<1> QED BY <1>2, <1>3

(* The bytes of subjects; the provers do not know that a literal is a STRING.   *)
Byte == STRING \union {PWC, FWC, SEP}

Token == Seq(Byte)

Path == Seq(Token) \ {<<>>}

LEMMA PathIs ==
  ASSUME NEW p \in Path
  PROVE  /\ p \in Seq(Token) /\ Len(p) \in Nat \ {0} /\ DOMAIN p = 1..Len(p)
         /\ \A i \in 1..Len(p) : p[i] \in Token
         /\ SubSeq(p, 1, Len(p)) = p
         /\ p \in Along(p)
         /\ \A k \in 1..Len(p) : /\ SubSeq(p, 1, k) \in Path /\ Len(SubSeq(p, 1, k)) = k
                                 /\ SubSeq(p, 1, k) \in Along(p)
                                 /\ \A i \in 1..k : SubSeq(p, 1, k)[i] = p[i]
<1>1. p \in Seq(Token) /\ p # <<>>
  BY DEF Path
<1>2. Len(p) \in Nat \ {0} /\ DOMAIN p = 1..Len(p)
  BY <1>1, EmptySeq, LenProperties
<1>3. \A i \in 1..Len(p) : p[i] \in Token
  BY <1>1, ElementOfSeq
<1>4. SubSeq(p, 1, Len(p)) = p
  BY <1>1, SubSeqFull
<1>5. ASSUME NEW k \in 1..Len(p)
      PROVE  /\ SubSeq(p, 1, k) \in Path /\ Len(SubSeq(p, 1, k)) = k
             /\ SubSeq(p, 1, k) \in Along(p)
             /\ \A i \in 1..k : SubSeq(p, 1, k)[i] = p[i]
  <2>1. k \in 0..Len(p) /\ k # 0
    BY <1>2
  <2>2. /\ SubSeq(p, 1, k) \in Seq(Token) /\ Len(SubSeq(p, 1, k)) = k
        /\ \A i \in 1..k : SubSeq(p, 1, k)[i] = p[i]
    BY <1>1, <2>1, UpTo
  <2>3. SubSeq(p, 1, k) # <<>>
    BY <2>1, <2>2, EmptySeq
  <2> QED BY <2>2, <2>3 DEF Path, Along
<1>6. p \in Along(p)
  <2>1. Len(p) \in 1..Len(p)
    BY <1>2
  <2> QED BY <1>4, <2>1 DEF Along
<1> QED BY <1>1, <1>2, <1>3, <1>4, <1>5, <1>6

(* What lies along what lies along a path.                                      *)
LEMMA AlongIs ==
  ASSUME NEW p \in Path, NEW q \in Along(p)
  PROVE  /\ q \in Path /\ Len(q) \in 1..Len(p) /\ q = SubSeq(p, 1, Len(q))
         /\ Along(q) \subseteq Along(p)
         /\ \A k \in 1..Len(q) : SubSeq(q, 1, k) = SubSeq(p, 1, k)
<1>1. PICK k \in 1..Len(p) : q = SubSeq(p, 1, k)
  BY DEF Along
<1>2. q \in Path /\ Len(q) = k
  BY <1>1, PathIs
<1>3. ASSUME NEW j \in 1..k PROVE SubSeq(q, 1, j) = SubSeq(p, 1, j) /\ j \in 1..Len(p)
  <2>1. j \in 1..Len(p) /\ \A i \in 1..j : i \in 1..k
    BY PathIs
  <2>2. /\ SubSeq(p, 1, j) \in Path /\ Len(SubSeq(p, 1, j)) = j
        /\ \A i \in 1..j : SubSeq(p, 1, j)[i] = p[i]
    BY <2>1, PathIs
  <2>3. /\ SubSeq(q, 1, j) \in Path /\ Len(SubSeq(q, 1, j)) = j
        /\ \A i \in 1..j : SubSeq(q, 1, j)[i] = q[i]
    BY <1>2, PathIs
  <2>4. \A i \in 1..j : q[i] = p[i]
    BY <1>1, <2>1, PathIs
  <2>5. SubSeq(q, 1, j) = SubSeq(p, 1, j)
    <3>1. SubSeq(q, 1, j) \in Seq(Token) /\ SubSeq(p, 1, j) \in Seq(Token)
      BY <2>2, <2>3 DEF Path
    <3> QED BY <2>2, <2>3, <2>4, <3>1, SeqEqual
  <2> QED BY <2>1, <2>5
<1> QED BY <1>1, <1>2, <1>3 DEF Along

-----------------------------------------------------------------------------
(* Tokens.                                                                      *)

(* The tokens once one more byte is read.                                       *)
Read(toks, b) ==
  IF b = SEP THEN Append(toks, <<>>) ELSE [toks EXCEPT ![Len(toks)] = Append(@, b)]

LEMMA ReadIs ==
  ASSUME NEW toks \in Path, NEW b \in Byte
  PROVE  /\ Read(toks, b) \in Path
         /\ b = SEP => /\ Len(Read(toks, b)) = Len(toks) + 1
                       /\ Read(toks, b)[Len(toks) + 1] = <<>>
                       /\ \A i \in 1..Len(toks) : Read(toks, b)[i] = toks[i]
         /\ b # SEP => /\ Len(Read(toks, b)) = Len(toks)
                       /\ Read(toks, b)[Len(toks)] = Append(toks[Len(toks)], b)
                       /\ \A i \in 1..(Len(toks) - 1) : Read(toks, b)[i] = toks[i]
<1>1. PICK k \in Nat \ {0} : k = Len(toks) /\ toks \in Seq(Token) /\ toks[k] \in Token
  BY PathIs
<1>2. CASE b = SEP
  <2>1. Read(toks, b) = Append(toks, <<>>)
    BY <1>2 DEF Read
  <2>2. <<>> \in Token
    BY DEF Token
  <2>3. /\ Append(toks, <<>>) \in Seq(Token) /\ Append(toks, <<>>) # <<>>
        /\ Len(Append(toks, <<>>)) = Len(toks) + 1
        /\ \A i \in 1..Len(toks) : Append(toks, <<>>)[i] = toks[i]
        /\ Append(toks, <<>>)[Len(toks) + 1] = <<>>
    BY ONLY <1>1, <2>2, AppendProperties
  <2> QED BY <1>2, <2>1, <2>3 DEF Path
<1>3. CASE b # SEP
  <2>1. PICK t \in Token : t = Append(toks[k], b)
    BY <1>1, AppendProperties DEF Token
  <2>2. Read(toks, b) = [toks EXCEPT ![k] = t]
    BY <1>1, <1>3, <2>1 DEF Read
  <2>3. k \in 1..Len(toks)
    BY <1>1
  <2>4. /\ [toks EXCEPT ![k] = t] \in Seq(Token) /\ Len([toks EXCEPT ![k] = t]) = Len(toks)
        /\ \A j \in 1..Len(toks) : [toks EXCEPT ![k] = t][j] = IF j = k THEN t ELSE toks[j]
    BY ONLY <1>1, <2>3, t \in Token, ExceptSeq
  <2>5. PICK r \in Seq(Token) : /\ r = Read(toks, b) /\ Len(r) = k
                                /\ \A j \in 1..k : r[j] = IF j = k THEN t ELSE toks[j]
    BY <1>1, <2>2, <2>4
  <2>6. r # <<>>
    BY <2>5, EmptySeq
  <2>7. r[k] = t /\ \A j \in 1..(k - 1) : r[j] = toks[j]
    <3>1. k \in 1..k /\ \A j \in 1..(k - 1) : j \in 1..k /\ j # k
      OBVIOUS
    <3> QED BY <2>5, <3>1
  <2> QED BY <1>1, <1>3, <2>1, <2>5, <2>6, <2>7 DEF Path
<1> QED BY <1>2, <1>3

(* f[n] are the tokens of the first n bytes.                                    *)
Splits(f, s) ==
  /\ f \in [0..Len(s) -> Path] /\ f[0] = <<<<>>>>
  /\ \A n \in 1..Len(s) : f[n] = Read(f[n - 1], s[n])

LEMMA SplitIs ==
  ASSUME NEW s \in Seq(Byte)
  PROVE  \E f : Splits(f, s) /\ split(s) = f[Len(s)]
<1>1. PICK N \in Nat : N = Len(s) /\ \A n \in 1..N : s[n] \in Byte
  BY LenProperties, ElementOfSeq
<1> DEFINE Eq(f) == f = [n \in 0..N |->
                           IF n = 0 THEN <<<<>>>>
                           ELSE LET toks == f[n - 1]
                                IN IF s[n] = SEP THEN Append(toks, <<>>)
                                   ELSE [toks EXCEPT ![Len(toks)] = Append(@, s[n])]]
           st == [n \in 1..N |-> [v \in Path |-> Read(v, s[n])]]
<1>2. PICK base \in Path : base = <<<<>>>>
  <2>1. <<<<>>>> \in Seq(Token)
    BY DEF Token
  <2> QED BY <2>1 DEF Path
<1>3. \A n \in 1..N, v \in Path : Read(v, s[n]) \in Path
  BY <1>1, ReadIs
<1>4. PICK g \in [0..N -> Path] : g[0] = base /\ \A n \in 1..N : g[n] = Read(g[n - 1], s[n])
  <2>1. st \in [1..N -> [Path -> Path]]
    BY <1>3
  <2>2. \A n \in 1..N, v \in Path : st[n][v] = Read(v, s[n])
    OBVIOUS
  <2> HIDE DEF st
  <2>3. PICK g \in [0..N -> Path] : IsSolution(g, N, base, st)
    BY <2>1, Solution
  <2>4. \A n \in 1..N : g[n - 1] \in Path
    BY <2>3
  <2> QED BY <2>2, <2>3, <2>4 DEF IsSolution
<1>5. Eq(g)
  <2>1. g = [n \in 0..N |-> g[n]]
    OBVIOUS
  <2>2. \A n \in 0..N : g[n] = IF n = 0 THEN <<<<>>>>
                               ELSE LET toks == g[n - 1]
                                    IN IF s[n] = SEP THEN Append(toks, <<>>)
                                       ELSE [toks EXCEPT ![Len(toks)] = Append(@, s[n])]
    <3>1. \A n \in 0..N : n = 0 \/ n \in 1..N
      OBVIOUS
    <3> QED BY <1>2, <1>4, <3>1 DEF Read
  <2> QED BY <2>1, <2>2
<1>6. PICK f : f = CHOOSE x : Eq(x)
  OBVIOUS
<1>7. Eq(f)
  <2> HIDE DEF Eq
  <2> QED BY <1>5, <1>6
<1>8. split(s) = f[N]
  BY <1>1, <1>6 DEF split
<1>9. f[0] = <<<<>>>> /\ \A n \in 1..N : f[n] = Read(f[n - 1], s[n])
  <2>1. \A n \in 0..N : f[n] = IF n = 0 THEN <<<<>>>>
                               ELSE LET toks == f[n - 1]
                                    IN IF s[n] = SEP THEN Append(toks, <<>>)
                                       ELSE [toks EXCEPT ![Len(toks)] = Append(@, s[n])]
    BY <1>7
  <2>2. 0 \in 0..N /\ \A n \in 1..N : n \in 0..N /\ n # 0
    OBVIOUS
  <2> HIDE DEF Eq
  <2> QED BY <2>1, <2>2 DEF Read
<1>10. \A n \in 0..N : f[n] \in Path
  <2> HIDE DEF Eq
  <2>1. \A n \in 1..N : f[n - 1] \in Path => f[n] \in Path
    BY <1>3, <1>9
  <2>2. f[0] \in Path
    BY <1>2, <1>9
  <2> QED BY <2>1, <2>2, SolutionType
<1>11. f \in [0..N -> Path]
  <2>1. f = [n \in 0..N |-> f[n]]
    BY <1>7
  <2> HIDE DEF Eq
  <2> QED BY <1>10, <2>1
<1> HIDE DEF Eq
<1> QED BY <1>1, <1>8, <1>9, <1>11 DEF Splits

LEMMA TokensAre ==
  ASSUME NEW s \in Subjects \union Literals
  PROVE  /\ s \in Seq(Byte) /\ Tokens[s] = split(s) /\ Tokens[s] \in Path
         /\ \E f : Splits(f, s) /\ Tokens[s] = f[Len(s)]
<1>1. s \in Seq(Byte)
  <2>1. s \in Seq(STRING)
    BY SubjectAssumption
  <2>2. STRING \subseteq Byte
    BY DEF Byte
  <2> QED BY <2>1, <2>2, SeqMonotonic
<1>2. Tokens[s] = split(s)
  BY DEF Tokens
<1>3. PICK f : Splits(f, s) /\ split(s) = f[Len(s)]
  BY <1>1, SplitIs
<1>4. Len(s) \in 0..Len(s)
  BY <1>1, LenProperties
<1> QED BY <1>1, <1>2, <1>3, <1>4 DEF Splits

LEMMA Single ==
  ASSUME NEW S, NEW b \in S
  PROVE  <<b>> \in Seq(S) /\ Len(<<b>>) = 1 /\ <<b>>[1] = b
OBVIOUS

LEMMA NodeKeyIs ==
  ASSUME NEW t \in Token, t # <<>>
  PROVE  NodeKey(t) \in Token
<1>1. t[1] \in Byte
  <2>1. Len(t) \in Nat \ {0}
    BY EmptySeq DEF Token
  <2> QED BY <2>1, ElementOfSeq DEF Token
<1>2. PICK b \in Byte : b = t[1]
  BY <1>1
<1>3. <<b>> \in Token
  BY Single DEF Token
<1> QED BY <1>2, <1>3 DEF NodeKey

LEMMA WalkIs ==
  ASSUME NEW toks \in Path
  PROVE  /\ Walk(toks) \in Seq(Token)
         /\ Refused(toks) = {} => /\ Walk(toks) \in Path /\ Len(Walk(toks)) = Len(toks)
                                  /\ \A i \in 1..Len(toks) : /\ Walk(toks)[i] = NodeKey(toks[i])
                                                             /\ toks[i] # <<>>
<1>1. PICK m \in Nat \ {0} : /\ m = Len(toks) /\ DOMAIN toks = 1..m
                             /\ \A i \in 1..m : toks[i] \in Token
  BY PathIs
<1>2. PICK n \in 0..m : /\ n = IF Refused(toks) = {} THEN Len(toks) ELSE Min(Refused(toks)) - 1
                        /\ \A i \in 1..n : i \notin Refused(toks)
                        /\ Refused(toks) = {} => n = m
  <2>1. Refused(toks) \in SUBSET (1..m)
    BY <1>1 DEF Refused
  <2>2. CASE Refused(toks) = {}
    BY <1>1, <2>2
  <2>3. CASE Refused(toks) # {}
    <3>1. PICK k \in Refused(toks) : k = Min(Refused(toks)) /\ \A y \in Refused(toks) : k <= y
      BY <2>1, <2>3, MinIs
    <3>2. k - 1 \in 0..m /\ \A i \in 1..(k - 1) : ~(k <= i)
      BY <2>1, <3>1
    <3>3. \A i \in 1..(k - 1) : i \notin Refused(toks)
      BY <3>1, <3>2
    <3> QED BY <2>3, <3>1, <3>2, <3>3
  <2> QED BY <2>2, <2>3
<1>3. \A i \in 1..n : i \in 1..m /\ toks[i] # <<>>
  BY <1>1, <1>2 DEF Refused
<1>4. Walk(toks) = [i \in 1..n |-> NodeKey(toks[i])]
  BY <1>2 DEF Walk
<1>5. \A i \in 1..n : NodeKey(toks[i]) \in Token
  BY <1>1, <1>3, NodeKeyIs
<1>6. Walk(toks) \in Seq(Token) /\ Len(Walk(toks)) = n
  BY <1>4, <1>5
<1>7. ASSUME Refused(toks) = {} PROVE Walk(toks) # <<>>
  BY <1>2, <1>6, <1>7, EmptySeq
<1> QED BY <1>1, <1>2, <1>3, <1>4, <1>6, <1>7 DEF Path

-----------------------------------------------------------------------------
(* The tree.                                                                    *)

IsTree(ns) ==
  /\ ns = [p \in DOMAIN ns |-> ns[p]]
  /\ \A p \in DOMAIN ns : p \in Path /\ ns[p] \in Seq(Sub) /\ Along(p) \subseteq DOMAIN ns

(* A subscription somewhere in the tree.                                        *)
In(ns, s) == \E p \in DOMAIN ns : s \in ToSet(ns[p])

(* Each is at its subject's node, and there once.                               *)
Filed(ns) ==
  \A p \in DOMAIN ns : /\ IsInjective(ns[p])
                       /\ \A s \in ToSet(ns[p]) : s \in Sub /\ Walk(Tokens[s.subject]) = p

(* Where a refused subject broke off.                                           *)
BrokenOff(p) ==
  \E subject \in Subjects : Refused(Tokens[subject]) # {} /\ p \in Along(Walk(Tokens[subject]))

(* A node without subs nor nodes below it.                                      *)
LEMMA EmptyIs ==
  ASSUME NEW ns, IsTree(ns), NEW p \in Path
  PROVE  isEmpty(ns, p) <=> /\ ns[p] = <<>>
                            /\ \A q \in DOMAIN ns : ~(Len(q) = Len(p) + 1 /\ p = SubSeq(q, 1, Len(p)))
<1>1. ASSUME NEW q \in DOMAIN ns, Len(q) = Len(p) + 1
      PROVE  IsPrefix(p, q) <=> p = SubSeq(q, 1, Len(p))
  <2>1. q \in Seq(Token) /\ p \in Seq(Token)
    BY DEF IsTree, Path
  <2>2. Len(p) <= Len(q)
    BY <1>1, PathIs
  <2> QED BY <2>1, <2>2, PrefixIs
<1> QED BY <1>1 DEF isEmpty

(* Nothing hangs below an empty node.                                           *)
LEMMA EmptyAlone ==
  ASSUME NEW ns, IsTree(ns), NEW p \in Path, isEmpty(ns, p), NEW q \in DOMAIN ns, IsPrefix(p, q)
  PROVE  q = p
<1>1. q \in Path /\ Along(q) \subseteq DOMAIN ns
  BY DEF IsTree
<1>2. Len(p) <= Len(q) /\ p = SubSeq(q, 1, Len(p))
  BY <1>1, PrefixIs DEF Path
<1>3. CASE Len(p) = Len(q)
  BY <1>1, <1>2, <1>3, PathIs
<1>4. CASE Len(p) < Len(q)
  <2>0. PICK m \in Nat \ {0}, n \in Nat : m = Len(p) /\ n = Len(q)
    BY <1>1, PathIs
  <2>1. PICK k \in 1..Len(q) : k = Len(p) + 1 /\ Len(p) \in 1..k
    BY <1>4, <2>0
  <2>2. PICK r \in Along(q) : r = SubSeq(q, 1, k) /\ Len(r) = k
    <3>1. \A j \in 1..Len(q) : SubSeq(q, 1, j) \in Along(q) /\ Len(SubSeq(q, 1, j)) = j
      BY <1>1, PathIs
    <3> QED BY <3>1
  <2>3. SubSeq(r, 1, Len(p)) = p
    BY <1>1, <1>2, <2>1, <2>2, AlongIs
  <2> QED BY <1>1, <2>1, <2>2, <2>3, EmptyIs
<1> QED BY <1>1, <1>2, <1>3, <1>4, PathIs

(* Insert.                                                                      *)

(* The tree with the nodes along a path.                                        *)
Grown(ns, path) == [p \in DOMAIN ns \union Along(path) |-> SubsAt(ns, p)]

LEMMA GrownIs ==
  ASSUME NEW ns, IsTree(ns), NEW path \in Seq(Token)
  PROVE  /\ IsTree(Grown(ns, path))
         /\ DOMAIN Grown(ns, path) = DOMAIN ns \union Along(path)
         /\ \A p \in DOMAIN ns : Grown(ns, path)[p] = ns[p]
         /\ \A p \in Along(path) : p \notin DOMAIN ns => Grown(ns, path)[p] = <<>>
<1>1. PICK g : g = Grown(ns, path)
  OBVIOUS
<1>2. g = [p \in DOMAIN ns \union Along(path) |-> IF p \in DOMAIN ns THEN ns[p] ELSE <<>>]
  BY <1>1 DEF Grown, SubsAt
<1>3. /\ DOMAIN g = DOMAIN ns \union Along(path)
      /\ \A p \in DOMAIN ns : g[p] = ns[p]
      /\ \A p \in Along(path) : p \notin DOMAIN ns => g[p] = <<>>
  BY <1>2
<1>4. g = [p \in DOMAIN g |-> g[p]]
  BY <1>2
<1>5. ASSUME NEW p \in Along(path) PROVE p \in Path /\ Along(p) \subseteq Along(path)
  <2>1. path \in Path
    <3>1. PICK k \in 1..Len(path) : TRUE
      BY DEF Along
    <3>2. path # <<>>
      BY <3>1, EmptySeq
    <3> QED BY <3>2 DEF Path
  <2> QED BY <2>1, AlongIs
<1>6. \A p \in DOMAIN g : p \in Path /\ g[p] \in Seq(Sub) /\ Along(p) \subseteq DOMAIN g
  <2> SUFFICES ASSUME NEW p \in DOMAIN g
               PROVE  p \in Path /\ g[p] \in Seq(Sub) /\ Along(p) \subseteq DOMAIN g
    OBVIOUS
  <2>1. CASE p \in DOMAIN ns
    BY <1>3, <2>1 DEF IsTree
  <2>2. CASE p \notin DOMAIN ns
    <3>1. p \in Along(path) /\ g[p] = <<>>
      BY <1>3, <2>2
    <3>2. <<>> \in Seq(Sub)
      OBVIOUS
    <3> QED BY <1>3, <1>5, <3>1, <3>2
  <2> QED BY <2>1, <2>2
<1> QED BY <1>1, <1>3, <1>4, <1>6 DEF IsTree

(* A node that is empty in a larger tree is empty, or new.                      *)
LEMMA StaysEmpty ==
  ASSUME NEW ns, IsTree(ns), NEW gs, IsTree(gs), DOMAIN ns \subseteq DOMAIN gs,
         NEW p \in DOMAIN ns, ns[p] # <<>> => gs[p] # <<>>, isEmpty(gs, p)
  PROVE  isEmpty(ns, p)
<1>1. p \in Path
  BY DEF IsTree
<1>2. gs[p] = <<>> /\ \A q \in DOMAIN gs : ~(Len(q) = Len(p) + 1 /\ p = SubSeq(q, 1, Len(p)))
  BY <1>1, EmptyIs
<1> QED BY <1>1, <1>2, EmptyIs

(* The last of the nodes along a path is the only one that may be empty.        *)
LEMMA LastEmpty ==
  ASSUME NEW ns, IsTree(ns), NEW path \in Path, path \in DOMAIN ns,
         NEW p \in Along(path), isEmpty(ns, p)
  PROVE  p = path
<1>1. p \in Path /\ Len(p) \in 1..Len(path) /\ p = SubSeq(path, 1, Len(p))
  BY AlongIs
<1>2. IsPrefix(p, path)
  <2>1. p \in Seq(Token) /\ path \in Seq(Token) /\ Len(p) <= Len(path)
    BY <1>1, PathIs
  <2> QED BY <1>1, <2>1, PrefixIs
<1> QED BY <1>1, <1>2, EmptyAlone

Tidy(ns) == \A p \in DOMAIN ns : isEmpty(ns, p) => BrokenOff(p)

(* A refused subject leaves nodes behind, and where it broke off is known.      *)
LEMMA RefusedTidy ==
  ASSUME NEW ns, IsTree(ns), Filed(ns), Tidy(ns), NEW subject \in Subjects,
         Refused(Tokens[subject]) # {}
  PROVE  LET gs == Grown(ns, Walk(Tokens[subject]))
         IN  IsTree(gs) /\ Filed(gs) /\ Tidy(gs) /\ \A s : In(gs, s) <=> In(ns, s)
<1>1. PICK path \in Seq(Token) : path = Walk(Tokens[subject])
  BY TokensAre, WalkIs
<1>2. PICK gs : gs = Grown(ns, path)
  OBVIOUS
<1>3. /\ IsTree(gs) /\ DOMAIN gs = DOMAIN ns \union Along(path)
      /\ \A p \in DOMAIN ns : gs[p] = ns[p]
      /\ \A p \in Along(path) : p \notin DOMAIN ns => gs[p] = <<>>
  BY <1>2, GrownIs
<1>4. \A p \in DOMAIN gs : p \notin DOMAIN ns => p \in Along(path) /\ gs[p] = <<>> /\ ToSet(gs[p]) = {}
  BY <1>3 DEF ToSet
<1>5. Filed(gs)
  <2>1. IsInjective(<<>>)
    BY DEF IsInjective
  <2> QED BY <1>3, <1>4, <2>1 DEF Filed
<1>6. \A s : In(gs, s) <=> In(ns, s)
  BY <1>3, <1>4 DEF In
<1>7. ASSUME NEW p \in DOMAIN gs, isEmpty(gs, p) PROVE BrokenOff(p)
  <2>1. CASE p \in DOMAIN ns
    BY <1>3, <1>7, <2>1, StaysEmpty DEF Tidy
  <2>2. CASE p \notin DOMAIN ns
    BY <1>1, <1>4, <2>2 DEF BrokenOff
  <2> QED BY <2>1, <2>2
<1> QED BY <1>1, <1>2, <1>3, <1>5, <1>6, <1>7 DEF Tidy

(* An insertion adds its subscription, at its node.                             *)
LEMMA InsertTidy ==
  ASSUME NEW ns, IsTree(ns), Filed(ns), Tidy(ns), NEW sub \in Sub, ~In(ns, sub),
         Refused(Tokens[sub.subject]) = {}
  PROVE  LET path == Walk(Tokens[sub.subject])
             gs == [Grown(ns, path) EXCEPT ![path] = Append(@, sub)]
         IN  IsTree(gs) /\ Filed(gs) /\ Tidy(gs) /\ \A s : In(gs, s) <=> In(ns, s) \/ s = sub
<1>1. PICK path \in Path : path = Walk(Tokens[sub.subject])
  BY TokensAre, WalkIs DEF Sub
<1>2. PICK ms : ms = Grown(ns, path)
  OBVIOUS
<1>3. /\ IsTree(ms) /\ DOMAIN ms = DOMAIN ns \union Along(path)
      /\ \A p \in DOMAIN ns : ms[p] = ns[p]
      /\ \A p \in Along(path) : p \notin DOMAIN ns => ms[p] = <<>>
  BY <1>2, GrownIs DEF Path
<1>4. path \in DOMAIN ms
  BY <1>3, PathIs
<1>5. PICK subs \in Seq(Sub) : subs = ms[path]
  BY <1>3, <1>4 DEF IsTree
<1>6. PICK more \in Seq(Sub) : /\ more = Append(subs, sub) /\ Len(more) = Len(subs) + 1
                               /\ \A i \in 1..Len(subs) : more[i] = subs[i]
                               /\ more[Len(subs) + 1] = sub
  BY ONLY subs \in Seq(Sub), sub \in Sub, AppendProperties
<1>7. PICK n \in Nat : n = Len(subs) /\ DOMAIN subs = 1..n /\ DOMAIN more = 1..(n + 1)
  BY <1>6, LenProperties
<1>8. PICK gs : gs = [ms EXCEPT ![path] = more]
  OBVIOUS
<1>9. /\ DOMAIN gs = DOMAIN ms /\ gs[path] = more /\ \A p \in DOMAIN ms : p # path => gs[p] = ms[p]
      /\ gs = [p \in DOMAIN gs |-> gs[p]]
  BY <1>3, <1>4, <1>8 DEF IsTree
<1>10. IsTree(gs)
  BY <1>3, <1>9 DEF IsTree
<1>11. \A p \in DOMAIN ms : ToSet(ms[p]) = IF p \in DOMAIN ns THEN ToSet(ns[p]) ELSE {}
  BY <1>3 DEF ToSet
<1>12. ToSet(more) = ToSet(subs) \union {sub}
  <2>1. \A i \in 1..(n + 1) : i \in 1..n \/ i = n + 1
    OBVIOUS
  <2>2. n + 1 \in 1..(n + 1) /\ \A i \in 1..n : i \in 1..(n + 1)
    OBVIOUS
  <2> QED BY <1>6, <1>7, <2>1, <2>2 DEF ToSet
<1>13. \A s : In(gs, s) <=> In(ns, s) \/ s = sub
  BY <1>3, <1>4, <1>5, <1>9, <1>11, <1>12 DEF In
<1>14. Filed(gs)
  <2>1. \A p \in DOMAIN ms : /\ IsInjective(ms[p])
                             /\ \A s \in ToSet(ms[p]) : s \in Sub /\ Walk(Tokens[s.subject]) = p
    <3>1. IsInjective(<<>>)
      BY DEF IsInjective
    <3> QED BY <1>3, <1>11, <3>1 DEF Filed
  <2>2. IsInjective(more)
    <3>1. \A i \in 1..n : subs[i] # sub
      <4>1. sub \notin ToSet(subs)
        BY <1>4, <1>5, <1>11 DEF In
      <4> QED BY <1>7, <4>1 DEF ToSet
    <3>2. \A i, j \in 1..n : subs[i] = subs[j] => i = j
      BY <1>4, <1>5, <1>7, <2>1 DEF IsInjective
    <3>3. \A i \in 1..(n + 1) : i \in 1..n \/ i = n + 1
      OBVIOUS
    <3> QED BY <1>6, <1>7, <3>1, <3>2, <3>3 DEF IsInjective
  <2>3. \A s \in ToSet(more) : s \in Sub /\ Walk(Tokens[s.subject]) = path
    BY <1>1, <1>4, <1>5, <1>12, <2>1
  <2> QED BY <1>9, <2>1, <2>2, <2>3 DEF Filed
<1>15. ASSUME NEW p \in DOMAIN gs, isEmpty(gs, p) PROVE BrokenOff(p)
  <2>0. more # <<>>
    BY <1>6, <1>7, EmptySeq
  <2>1. p # path
    BY <1>9, <1>15, <2>0 DEF isEmpty
  <2>2. CASE p \in DOMAIN ns
    <3>1. gs[p] = ns[p]
      BY <1>3, <1>9, <2>1, <2>2
    <3> QED BY <1>3, <1>9, <1>10, <1>15, <2>2, <3>1, StaysEmpty DEF Tidy
  <2>3. CASE p \notin DOMAIN ns
    <3>1. p \in Along(path)
      BY <1>3, <1>9, <2>3
    <3> QED BY <1>4, <1>9, <1>10, <1>15, <2>1, <3>1, LastEmpty
  <2> QED BY <2>2, <2>3
<1>16. gs = [Grown(ns, path) EXCEPT ![path] = Append(@, sub)]
  BY <1>2, <1>5, <1>6, <1>8
<1> QED BY <1>1, <1>10, <1>13, <1>14, <1>15, <1>16 DEF Tidy

-----------------------------------------------------------------------------
(* Remove.                                                                      *)

(* Part of the tree, down to the depth k of a path along which it was pruned:   *)
(* only nodes without subs are gone, and none that is left over is deeper.      *)
PrunedTo(ns, v, path, k) ==
  /\ IsTree(v) /\ DOMAIN v \subseteq DOMAIN ns
  /\ \A p \in DOMAIN v : v[p] = ns[p]
  /\ \A p \in DOMAIN ns : p \notin DOMAIN v => ns[p] = <<>>
  /\ \A j \in 1..k : SubSeq(path, 1, j) \in DOMAIN v
  /\ \A p \in DOMAIN v : isEmpty(v, p) => BrokenOff(p) \/ (p \in Along(path) /\ Len(p) <= k)

PruneAt(v, p) == IF isEmpty(v, p) THEN pruneNode(v, p) ELSE v

LEMMA Below ==
  ASSUME NEW k \in Nat, NEW n \in Nat, n <= k, n # k
  PROVE  n <= k - 1
OBVIOUS

LEMMA PruneAtIs ==
  ASSUME NEW ns, IsTree(ns), NEW path \in Path, NEW k \in 1..Len(path),
         NEW v, PrunedTo(ns, v, path, k)
  PROVE  PrunedTo(ns, PruneAt(v, SubSeq(path, 1, k)), path, k - 1)
<1>1. PICK p \in Path : /\ p = SubSeq(path, 1, k) /\ Len(p) = k /\ p \in Along(path)
                        /\ \A j \in 1..k : SubSeq(p, 1, j) = SubSeq(path, 1, j)
  <2>1. SubSeq(path, 1, k) \in Path /\ Len(SubSeq(path, 1, k)) = k /\ SubSeq(path, 1, k) \in Along(path)
    BY PathIs
  <2> QED BY ZenonT(30), <2>1, AlongIs
<1>2. PICK m \in Nat \ {0} : m = k /\ k - 1 \in Nat
  BY PathIs
<1>3. /\ IsTree(v) /\ DOMAIN v \subseteq DOMAIN ns /\ p \in DOMAIN v
      /\ \A j \in 1..(k - 1) : SubSeq(path, 1, j) \in DOMAIN v
  <2>1. k \in 1..k /\ \A j \in 1..(k - 1) : j \in 1..k
    BY <1>2
  <2> QED BY <1>1, <2>1 DEF PrunedTo
<1>4. CASE ~isEmpty(v, p)
  <2>1. PruneAt(v, p) = v
    BY <1>4 DEF PruneAt
  <2>2. ASSUME NEW q \in DOMAIN v, isEmpty(v, q), ~BrokenOff(q)
        PROVE  q \in Along(path) /\ Len(q) <= k - 1
    <3>1. q \in Along(path) /\ Len(q) <= k
      BY <2>2 DEF PrunedTo
    <3>2. Len(q) \in Nat /\ q = SubSeq(path, 1, Len(q))
      BY <3>1, AlongIs, PathIs
    <3>3. Len(q) # k
      BY <1>1, <1>4, <2>2, <3>2
    <3> QED BY <1>2, <3>1, <3>2, <3>3, Below
  <2> QED BY <1>1, <1>3, <2>1, <2>2 DEF PrunedTo
<1>5. CASE isEmpty(v, p)
  <2>1. PICK w : w = PruneAt(v, p)
    OBVIOUS
  <2>2. w = [q \in {q \in DOMAIN v : ~IsPrefix(p, q)} |-> v[q]]
    BY <1>5, <2>1 DEF PruneAt, pruneNode, Restrict
  <2>3. \A q \in DOMAIN v : IsPrefix(p, q) <=> q = p
    <3>1. IsPrefix(p, p)
      <4>1. p \in Seq(Token) /\ Len(p) <= Len(p)
        BY <1>1, PathIs
      <4> QED BY <4>1, PrefixIs
    <3> QED BY <1>3, <1>5, <3>1, EmptyAlone
  <2>4. /\ DOMAIN w = DOMAIN v \ {p} /\ w = [q \in DOMAIN w |-> w[q]]
        /\ \A q \in DOMAIN w : w[q] = v[q]
    BY <2>2, <2>3
  <2>5. v[p] = <<>>
    BY <1>5 DEF isEmpty
  <2>6. IsTree(w)
    <3>1. ASSUME NEW q \in DOMAIN w, NEW r \in Along(q) PROVE r \in DOMAIN w
      <4>1. q \in Path /\ r \in DOMAIN v
        BY <1>3, <2>4, <3>1 DEF IsTree
      <4>2. r # p
        <5>1. SUFFICES ASSUME r = p PROVE FALSE
          OBVIOUS
        <5>2. p = SubSeq(q, 1, Len(p)) /\ Len(p) <= Len(q)
          BY <3>1, <4>1, <5>1, AlongIs, PathIs
        <5>3. IsPrefix(p, q)
          <6>1. p \in Seq(Token) /\ q \in Seq(Token)
            BY <4>1, PathIs
          <6> QED BY <5>2, <6>1, PrefixIs
        <5> QED BY <2>3, <2>4, <5>3
      <4> QED BY <2>4, <4>1, <4>2
    <3> QED BY <1>3, <2>4, <3>1 DEF IsTree
  <2>7. \A j \in 1..(k - 1) : SubSeq(path, 1, j) \in DOMAIN w
    <3> SUFFICES ASSUME NEW j \in 1..(k - 1) PROVE SubSeq(path, 1, j) \in DOMAIN w
      OBVIOUS
    <3>1. j \in 1..Len(path) /\ j # k
      BY <1>2, PathIs
    <3>2. SubSeq(path, 1, j) # p
      BY <1>1, <3>1, PathIs
    <3> QED BY <1>3, <2>4, <3>2
  <2>8. ASSUME NEW q \in DOMAIN w, isEmpty(w, q), ~BrokenOff(q)
        PROVE  q \in Along(path) /\ Len(q) <= k - 1
    <3>1. q \in DOMAIN v /\ q \in Path /\ q # p
      BY <1>3, <2>4, <2>8 DEF IsTree
    <3>2. CASE isEmpty(v, q)
      <4>1. q \in Along(path) /\ Len(q) <= k
        BY <2>8, <3>1, <3>2 DEF PrunedTo
      <4>2. Len(q) \in Nat /\ q = SubSeq(path, 1, Len(q))
        BY <4>1, AlongIs, PathIs
      <4>3. Len(q) # k
        BY <1>1, <3>1, <4>2
      <4> QED BY <1>2, <4>1, <4>2, <4>3, Below
    <3>3. CASE ~isEmpty(v, q)
      <4>1. w[q] = <<>> /\ \A r \in DOMAIN w : ~(Len(r) = Len(q) + 1 /\ q = SubSeq(r, 1, Len(q)))
        BY <2>6, <2>8, <3>1, EmptyIs
      <4>2. PICK r \in DOMAIN v : Len(r) = Len(q) + 1 /\ q = SubSeq(r, 1, Len(q))
        BY <1>3, <2>4, <3>1, <3>3, <4>1, EmptyIs
      <4>3. r = p
        BY <2>4, <4>1, <4>2
      <4>4. Len(q) \in Nat \ {0} /\ Len(q) = k - 1
        <5>1. PICK n \in Nat \ {0} : n = Len(q)
          BY <3>1, PathIs
        <5>2. m = n + 1
          BY <1>1, <1>2, <4>2, <4>3, <5>1
        <5> QED BY <1>2, <5>1, <5>2
      <4>5. q = SubSeq(path, 1, k - 1) /\ k - 1 \in 1..Len(path)
        BY <1>1, <1>2, <4>2, <4>3, <4>4, PathIs
      <4> QED BY <4>4, <4>5, PathIs
    <3> QED BY <3>2, <3>3
  <2>9. \A q \in DOMAIN ns : q \notin DOMAIN w => ns[q] = <<>>
    BY <1>3, <2>4, <2>5 DEF PrunedTo
  <2> QED BY <1>1, <1>3, <2>1, <2>4, <2>6, <2>7, <2>8, <2>9 DEF PrunedTo
<1> QED BY <1>4, <1>5

(* Pruning up a path leaves no branch along it.                                 *)
LEMMA PruneUpIs ==
  ASSUME NEW ns, IsTree(ns), NEW path \in Path, PrunedTo(ns, ns, path, Len(path))
  PROVE  PrunedTo(ns, PruneUp(ns, path), path, 0)
<1>1. PICK N \in Nat : N = Len(path)
  BY PathIs
<1> DEFINE V == {[p \in S |-> ns[p]] : S \in SUBSET DOMAIN ns}
           At1(n) == SubSeq(path, 1, N - n + 1)
           Eq(f) == f = [n \in 0..N |->
                           IF n = 0 THEN ns
                           ELSE LET tree == f[n - 1]
                                    p == SubSeq(path, 1, N - n + 1)
                                IN IF isEmpty(tree, p) THEN pruneNode(tree, p) ELSE tree]
           st == [n \in 1..N |-> [v \in V |-> PruneAt(v, At1(n))]]
<1>2. ns \in V
  BY DEF IsTree
<1>3. \A v \in V : \A p : PruneAt(v, p) \in V
  <2> SUFFICES ASSUME NEW v \in V, NEW p PROVE pruneNode(v, p) \in V
    BY DEF PruneAt
  <2>1. PICK S \in SUBSET DOMAIN ns : v = [q \in S |-> ns[q]]
    OBVIOUS
  <2>2. PICK T \in SUBSET S : T = {q \in S : ~IsPrefix(p, q)}
    OBVIOUS
  <2>3. pruneNode(v, p) = [q \in T |-> ns[q]]
    BY <2>1, <2>2 DEF pruneNode, Restrict
  <2> QED BY <2>3
<1>4. PICK g \in [0..N -> V] : g[0] = ns /\ \A n \in 1..N : g[n] = PruneAt(g[n - 1], At1(n))
  <2> HIDE DEF V, At1
  <2>1. st \in [1..N -> [V -> V]]
    BY <1>3
  <2>2. \A n \in 1..N, v \in V : st[n][v] = PruneAt(v, At1(n))
    OBVIOUS
  <2> HIDE DEF st
  <2>3. PICK g \in [0..N -> V] : IsSolution(g, N, ns, st)
    BY <1>2, <2>1, Solution
  <2>4. \A n \in 1..N : g[n - 1] \in V
    BY <2>3
  <2> QED BY <2>2, <2>3, <2>4 DEF IsSolution
<1>5. Eq(g)
  <2>1. g = [n \in 0..N |-> g[n]]
    OBVIOUS
  <2>2. \A n \in 0..N : g[n] = IF n = 0 THEN ns
                               ELSE LET tree == g[n - 1]
                                        p == SubSeq(path, 1, N - n + 1)
                                    IN IF isEmpty(tree, p) THEN pruneNode(tree, p) ELSE tree
    <3>1. \A n \in 0..N : n = 0 \/ n \in 1..N
      OBVIOUS
    <3> HIDE DEF V
    <3> QED BY <1>4, <3>1 DEF PruneAt
  <2> QED BY <2>1, <2>2
<1>6. PICK f : f = CHOOSE x : Eq(x)
  OBVIOUS
<1>7. Eq(f)
  <2> HIDE DEF Eq
  <2> QED BY <1>5, <1>6
<1>8. PruneUp(ns, path) = f[N]
  BY <1>1, <1>6 DEF PruneUp
<1>9. f[0] = ns /\ \A n \in 1..N : f[n] = PruneAt(f[n - 1], At1(n))
  <2>1. \A n \in 0..N : f[n] = IF n = 0 THEN ns
                               ELSE LET tree == f[n - 1]
                                        p == SubSeq(path, 1, N - n + 1)
                                    IN IF isEmpty(tree, p) THEN pruneNode(tree, p) ELSE tree
    BY <1>7
  <2>2. 0 \in 0..N /\ \A n \in 1..N : n \in 0..N /\ n # 0
    OBVIOUS
  <2> HIDE DEF Eq
  <2> QED BY <2>1, <2>2 DEF PruneAt
<1> DEFINE S == {n \in 0..N : PrunedTo(ns, f[n], path, N - n)}
<1>10. 0..N \subseteq S
  <2> HIDE DEF Eq
  <2>1. 0 \in S
    BY <1>1, <1>9
  <2>2. ASSUME NEW n \in 1..N, n - 1 \in S PROVE n \in S
    <3>1. PICK k \in 1..Len(path) : k = N - n + 1 /\ k = N - (n - 1) /\ N - n = k - 1
      BY <1>1
    <3>2. PrunedTo(ns, f[n - 1], path, k)
      BY <2>2, <3>1
    <3>3. PrunedTo(ns, PruneAt(f[n - 1], SubSeq(path, 1, k)), path, k - 1)
      BY <3>2, PruneAtIs
    <3>4. PrunedTo(ns, f[n], path, N - n)
      BY <1>9, <3>1, <3>3
    <3> QED BY <3>4
  <2> HIDE DEF S
  <2> QED BY <2>1, <2>2, Induct
<1>11. N \in S
  BY <1>10
<1>12. N - N = 0
  OBVIOUS
<1> QED BY <1>8, <1>11, <1>12

(* The first of a sequence without repetitions that is e goes.                  *)
LEMMA RemoveFirstIs ==
  ASSUME NEW S, NEW p \in Seq(S), IsInjective(p), NEW e \in ToSet(p)
  PROVE  /\ RemoveFirst(p, e) \in Seq(S) /\ IsInjective(RemoveFirst(p, e))
         /\ ToSet(RemoveFirst(p, e)) = ToSet(p) \ {e}
<1>1. PICK n \in Nat : n = Len(p) /\ DOMAIN p = 1..n
  BY LenProperties
<1>2. PICK i \in 1..n : p[i] = e
  BY <1>1 DEF ToSet
<1>3. \A j \in 1..n : p[j] = e => j = i
  BY <1>1, <1>2 DEF IsInjective
<1>4. {j \in 1..Len(p) : p[j] = e} = {i}
  BY <1>1, <1>2, <1>3
<1>5. Min({i}) = i
  <2>1. {i} \in SUBSET Nat /\ {i} # {}
    OBVIOUS
  <2> QED BY <2>1, MinIs
<1>6. RemoveFirst(p, e) = RemoveAt(p, i)
  BY <1>1, <1>2, <1>4, <1>5 DEF RemoveFirst, SelectInSeq
<1>7. PICK q \in Seq(S) : q = RemoveAt(p, i) /\ CutOut(p, i, q)
  BY <1>1, RemoveAtIs
<1>8. Len(q) = n - 1 /\ DOMAIN q = 1..(n - 1)
  BY <1>1, <1>7, LenProperties DEF CutOut
<1> DEFINE o(j) == IF j < i THEN j ELSE j + 1
<1>9. \A j \in 1..(n - 1) : o(j) \in 1..n /\ o(j) # i /\ q[j] = p[o(j)]
  <2>1. \A j \in 1..(n - 1) : q[j] = IF j < i THEN p[j] ELSE p[j + 1]
    BY <1>7, <1>8 DEF CutOut
  <2>2. \A j \in 1..(n - 1) : o(j) \in 1..n /\ o(j) # i
    OBVIOUS
  <2> QED BY <2>1, <2>2
<1>10. \A k \in 1..n : k # i => \E j \in 1..(n - 1) : o(j) = k
  <2> SUFFICES ASSUME NEW k \in 1..n, k # i PROVE \E j \in 1..(n - 1) : o(j) = k
    OBVIOUS
  <2>1. CASE k < i
    <3>1. k \in 1..(n - 1) /\ o(k) = k
      BY <2>1
    <3> QED BY <3>1
  <2>2. CASE ~(k < i)
    <3>1. k - 1 \in 1..(n - 1) /\ o(k - 1) = k
      BY <2>2
    <3> QED BY <3>1
  <2> QED BY <2>1, <2>2
<1>11. IsInjective(q)
  <2>1. ASSUME NEW j \in 1..(n - 1), NEW k \in 1..(n - 1), q[j] = q[k] PROVE j = k
    <3>1. o(j) = o(k)
      BY <1>1, <1>9, <2>1 DEF IsInjective
    <3> QED BY <3>1
  <2> QED BY <1>8, <2>1 DEF IsInjective
<1>12. ToSet(q) = ToSet(p) \ {e}
  <2> HIDE DEF o
  <2>1. \A x : x \in ToSet(p) <=> \E k \in 1..n : p[k] = x
    BY <1>1 DEF ToSet
  <2>2. \A x : x \in ToSet(q) <=> \E k \in 1..(n - 1) : q[k] = x
    BY <1>8 DEF ToSet
  <2>3. \A x : x \in ToSet(q) <=> x \in ToSet(p) /\ x # e
    <3>1. ASSUME NEW x, x \in ToSet(q) PROVE x \in ToSet(p) /\ x # e
      <4>1. PICK j \in 1..(n - 1) : q[j] = x
        BY <2>2, <3>1
      <4>2. o(j) \in 1..n /\ p[o(j)] = x /\ o(j) # i
        BY <1>9, <4>1
      <4> QED BY <1>3, <2>1, <4>2
    <3>2. ASSUME NEW x, x \in ToSet(p), x # e PROVE x \in ToSet(q)
      <4>1. PICK k \in 1..n : p[k] = x
        BY <2>1, <3>2
      <4>2. PICK j \in 1..(n - 1) : o(j) = k
        BY <1>2, <1>10, <3>2, <4>1
      <4>3. q[j] = x
        BY <1>9, <4>1, <4>2
      <4> QED BY <2>2, <4>3
    <3> QED BY <3>1, <3>2
  <2> QED BY <2>3
<1> QED BY <1>6, <1>7, <1>11, <1>12

Removed(ns, path, sub) == PruneUp([ns EXCEPT ![path] = removeFromNode(@, sub)], path)

(* A removal takes its subscription out, and no other.                          *)
LEMMA RemoveTidy ==
  ASSUME NEW ns, IsTree(ns), Filed(ns), Tidy(ns), NEW sub \in Sub,
         NEW path \in DOMAIN ns, sub \in ToSet(ns[path])
  PROVE  LET gs == Removed(ns, path, sub)
         IN  IsTree(gs) /\ Filed(gs) /\ Tidy(gs) /\ \A s : In(gs, s) <=> In(ns, s) /\ s # sub
<1>1. path \in Path /\ ns[path] \in Seq(Sub) /\ IsInjective(ns[path])
  BY DEF IsTree, Filed
<1>2. PICK less \in Seq(Sub) : /\ less = removeFromNode(ns[path], sub) /\ IsInjective(less)
                               /\ ToSet(less) = ToSet(ns[path]) \ {sub}
  BY <1>1, RemoveFirstIs DEF removeFromNode
<1>3. PICK ms : ms = [ns EXCEPT ![path] = less]
  OBVIOUS
<1>4. /\ DOMAIN ms = DOMAIN ns /\ ms[path] = less /\ \A p \in DOMAIN ns : p # path => ms[p] = ns[p]
      /\ ms = [p \in DOMAIN ms |-> ms[p]]
  BY <1>3 DEF IsTree
<1>5. IsTree(ms)
  BY <1>4 DEF IsTree
<1>6. Filed(ms)
  BY <1>2, <1>4 DEF Filed
<1>7. \A s : In(ms, s) <=> In(ns, s) /\ s # sub
  <2>1. \A p \in DOMAIN ns : sub \in ToSet(ns[p]) => p = path
    BY DEF Filed
  <2> QED BY <1>2, <1>4, <2>1 DEF In
<1>8. PrunedTo(ms, ms, path, Len(path))
  <2>1. \A j \in 1..Len(path) : SubSeq(path, 1, j) \in DOMAIN ms
    BY <1>1, <1>4, PathIs DEF IsTree
  <2>2. ASSUME NEW p \in DOMAIN ms, isEmpty(ms, p), ~BrokenOff(p)
        PROVE  p \in Along(path) /\ Len(p) <= Len(path)
    <3>1. p = path
      BY <1>4, <1>5, <2>2, StaysEmpty DEF Tidy
    <3> QED BY <1>1, <3>1, PathIs
  <2> QED BY <1>5, <2>1, <2>2 DEF PrunedTo
<1>9. PICK gs : gs = PruneUp(ms, path) /\ gs = Removed(ns, path, sub)
  BY <1>2, <1>3 DEF Removed
<1>10. PrunedTo(ms, gs, path, 0)
  BY <1>1, <1>5, <1>8, <1>9, PruneUpIs
<1>11. Filed(gs)
  BY <1>6, <1>10 DEF Filed, PrunedTo
<1>12. Tidy(gs)
  <2>1. ASSUME NEW p \in Along(path), Len(p) <= 0 PROVE FALSE
    BY <1>1, <2>1, AlongIs, PathIs
  <2> QED BY <1>10, <2>1 DEF Tidy, PrunedTo
<1>13. \A s : In(gs, s) <=> In(ms, s)
  <2>1. \A p \in DOMAIN ms : p \notin DOMAIN gs => ToSet(ms[p]) = {}
    BY <1>10 DEF PrunedTo, ToSet
  <2> QED BY <1>10, <2>1 DEF In, PrunedTo
<1> QED BY <1>2, <1>3, <1>7, <1>9, <1>10, <1>11, <1>12, <1>13 DEF PrunedTo

-----------------------------------------------------------------------------
(* The search.                                                                  *)

LEMMA Wild ==
  /\ PWC \in Byte /\ FWC \in Byte /\ SEP \in Byte
  /\ PWC # FWC /\ PWC # SEP /\ FWC # SEP
  /\ <<PWC>> \in Token /\ <<FWC>> \in Token
  /\ <<PWC>> # <<FWC>> /\ <<PWC>> # <<>> /\ <<FWC>> # <<>>
<1>1. PWC \in Byte /\ FWC \in Byte /\ SEP \in Byte
  <2>1. PWC \in Byte
    BY DEF Byte
  <2>2. FWC \in Byte
    BY DEF Byte
  <2>3. SEP \in Byte
    BY DEF Byte
  <2> QED BY <2>1, <2>2, <2>3
<1>2. PWC # FWC /\ PWC # SEP /\ FWC # SEP
  <2>1. PWC # FWC
    BY DEF PWC, FWC
  <2>2. PWC # SEP
    BY DEF PWC, SEP
  <2>3. FWC # SEP
    BY DEF FWC, SEP
  <2> QED BY <2>1, <2>2, <2>3
<1>3. <<PWC>> \in Token /\ <<FWC>> \in Token
  BY <1>1, Single DEF Token
<1>4. Len(<<PWC>>) = 1 /\ Len(<<FWC>>) = 1 /\ <<PWC>>[1] = PWC /\ <<FWC>>[1] = FWC
  BY <1>1, Single
<1>5. <<PWC>> # <<FWC>>
  BY <1>2, <1>4
<1>6. <<PWC>> # <<>> /\ <<FWC>> # <<>>
  BY <1>4, EmptySeq
<1> QED BY <1>1, <1>2, <1>3, <1>5, <1>6

LEMMA ConcatSet ==
  ASSUME NEW S, NEW a \in Seq(S), NEW b \in Seq(S)
  PROVE  /\ a \o b \in Seq(S) /\ ToSet(a \o b) = ToSet(a) \union ToSet(b)
         /\ IsInjective(a) /\ IsInjective(b) /\ ToSet(a) \cap ToSet(b) = {} => IsInjective(a \o b)
<1>1. PICK m \in Nat, n \in Nat : m = Len(a) /\ n = Len(b) /\ DOMAIN a = 1..m /\ DOMAIN b = 1..n
  BY LenProperties
<1>2. PICK c \in Seq(S) : /\ c = a \o b /\ Len(c) = m + n
                          /\ \A i \in 1..(m + n) : c[i] = IF i <= m THEN a[i] ELSE b[i - m]
  <2>1. /\ a \o b \in Seq(S) /\ Len(a \o b) = Len(a) + Len(b)
        /\ \A i \in 1..(Len(a) + Len(b)) : (a \o b)[i] = IF i <= Len(a) THEN a[i] ELSE b[i - Len(a)]
    BY ONLY a \in Seq(S), b \in Seq(S), ConcatProperties
  <2> QED BY <1>1, <2>1
<1>3. DOMAIN c = 1..(m + n)
  BY <1>2, LenProperties
<1>4. /\ \A i \in 1..m : i \in 1..(m + n) /\ c[i] = a[i]
      /\ \A i \in 1..n : m + i \in 1..(m + n) /\ c[m + i] = b[i]
  <2>1. \A i \in 1..m : i \in 1..(m + n) /\ i <= m
    OBVIOUS
  <2>2. \A i \in 1..n : m + i \in 1..(m + n) /\ ~(m + i <= m) /\ (m + i) - m = i
    OBVIOUS
  <2> QED BY <1>2, <2>1, <2>2
<1>5. \A i \in 1..(m + n) : i \in 1..m \/ \E j \in 1..n : i = m + j
  <2> SUFFICES ASSUME NEW i \in 1..(m + n), ~(i \in 1..m) PROVE \E j \in 1..n : i = m + j
    OBVIOUS
  <2>1. i - m \in 1..n /\ i = m + (i - m)
    OBVIOUS
  <2> QED BY <2>1
<1>6. ToSet(c) = ToSet(a) \union ToSet(b)
  <2>1. ASSUME NEW x \in ToSet(c) PROVE x \in ToSet(a) \/ x \in ToSet(b)
    <3>1. PICK i \in 1..(m + n) : c[i] = x
      BY <1>3, <2>1 DEF ToSet
    <3>2. CASE i \in 1..m
      <4>1. i \in DOMAIN a /\ a[i] = x
        BY <1>1, <1>4, <3>1, <3>2
      <4> QED BY <4>1 DEF ToSet
    <3>3. ASSUME NEW j \in 1..n, i = m + j PROVE x \in ToSet(b)
      <4>1. j \in DOMAIN b /\ b[j] = x
        BY <1>1, <1>4, <3>1, <3>3
      <4> QED BY <4>1 DEF ToSet
    <3> QED BY <1>5, <3>2, <3>3
  <2>2. ASSUME NEW x \in ToSet(a) PROVE x \in ToSet(c)
    <3>1. PICK i \in 1..m : a[i] = x
      BY <1>1, <2>2 DEF ToSet
    <3> QED BY <1>3, <1>4, <3>1 DEF ToSet
  <2>3. ASSUME NEW x \in ToSet(b) PROVE x \in ToSet(c)
    <3>1. PICK i \in 1..n : b[i] = x
      BY <1>1, <2>3 DEF ToSet
    <3> QED BY <1>3, <1>4, <3>1 DEF ToSet
  <2> QED BY <2>1, <2>2, <2>3
<1>7. ASSUME IsInjective(a), IsInjective(b), ToSet(a) \cap ToSet(b) = {}
      PROVE  IsInjective(c)
  <2>1. \A i \in 1..m, j \in 1..n : a[i] # b[j]
    BY <1>1, <1>7 DEF ToSet
  <2>2. ASSUME NEW i \in 1..(m + n), NEW j \in 1..(m + n), c[i] = c[j] PROVE i = j
    <3>1. CASE i \in 1..m /\ j \in 1..m
      BY <1>1, <1>4, <1>7, <2>2, <3>1 DEF IsInjective
    <3>2. CASE i \in 1..m /\ \E l \in 1..n : j = m + l
      <4>1. PICK l \in 1..n : j = m + l
        BY <3>2
      <4>2. c[i] = a[i] /\ c[j] = b[l]
        BY <1>4, <3>2, <4>1
      <4> QED BY <2>1, <2>2, <3>2, <4>2
    <3>3. CASE j \in 1..m /\ \E l \in 1..n : i = m + l
      <4>1. PICK l \in 1..n : i = m + l
        BY <3>3
      <4>2. c[j] = a[j] /\ c[i] = b[l]
        BY <1>4, <3>3, <4>1
      <4> QED BY <2>1, <2>2, <3>3, <4>2
    <3>4. ASSUME NEW k \in 1..n, NEW l \in 1..n, i = m + k, j = m + l PROVE i = j
      <4>1. b[k] = b[l]
        BY <1>4, <2>2, <3>4
      <4> QED BY <1>1, <1>7, <3>4, <4>1 DEF IsInjective
    <3> QED BY <1>5, <3>1, <3>2, <3>3, <3>4
  <2> QED BY <1>3, <2>2 DEF IsInjective
<1> QED BY <1>2, <1>6, <1>7

(* The token a level of the tree holds under its own key.                       *)
Plain(t) == t \notin {<<>>, <<PWC>>, <<FWC>>}

(* The nodes a search from the level below path takes its subs from.            *)
Picks(toks, path, p) ==
  /\ Len(path) < Len(p) /\ Len(p) <= Len(toks)
  /\ \A i \in 1..Len(path) : p[i] = path[i]
  /\ \A i \in (Len(path) + 1)..Len(p) : \/ p[i] = <<PWC>>
                                        \/ p[i] = toks[i] /\ Plain(toks[i])
                                        \/ p[i] = <<FWC>> /\ i = Len(p)
  /\ Len(p) = Len(toks) \/ p[Len(p)] = <<FWC>>

LEMMA PicksBelow ==
  ASSUME NEW toks \in Path, NEW path \in Seq(Token), NEW k \in 1..Len(toks), k = Len(path) + 1,
         NEW p \in Path, NEW t \in Token, t = <<PWC>> \/ (t = toks[k] /\ Plain(t)), t # <<FWC>>
  PROVE  Picks(toks, Append(path, t), p) <=> Picks(toks, path, p) /\ p[k] = t /\ Len(p) > k
<1>1. PICK m \in Nat, n \in Nat, N \in Nat : m = Len(path) /\ n = Len(p) /\ N = Len(toks) /\ k = m + 1
  BY LenProperties, PathIs
<1>2. PICK q \in Seq(Token) : q = Append(path, t) /\ Len(q) = k /\ q[k] = t /\ \A i \in 1..m : q[i] = path[i]
  <2>1. /\ Append(path, t) \in Seq(Token) /\ Len(Append(path, t)) = Len(path) + 1
        /\ \A i \in 1..Len(path) : Append(path, t)[i] = path[i]
        /\ Append(path, t)[Len(path) + 1] = t
    BY ONLY path \in Seq(Token), t \in Token, AppendProperties
  <2> QED BY <1>1, <2>1
<1>3. ASSUME Picks(toks, q, p) PROVE Picks(toks, path, p) /\ p[k] = t /\ Len(p) > k
  <2>1. k < n /\ n <= N /\ (n = N \/ p[n] = <<FWC>>)
    BY <1>1, <1>2, <1>3 DEF Picks
  <2>2. \A i \in 1..k : p[i] = q[i]
    BY <1>2, <1>3 DEF Picks
  <2>3. p[k] = t /\ \A i \in 1..m : p[i] = path[i]
    <3>1. k \in 1..k /\ \A i \in 1..m : i \in 1..k
      BY <1>1
    <3> QED BY <1>2, <2>2, <3>1
  <2>4. ASSUME NEW i \in (m + 1)..n
        PROVE  p[i] = <<PWC>> \/ (p[i] = toks[i] /\ Plain(toks[i])) \/ (p[i] = <<FWC>> /\ i = n)
    <3>1. CASE i = k
      BY <2>3, <3>1
    <3>2. CASE i # k
      <4>1. i \in (k + 1)..n
        BY <1>1, <3>2
      <4> QED BY <1>1, <1>2, <1>3, <4>1 DEF Picks
    <3> QED BY <3>1, <3>2
  <2>5. m < n
    BY <1>1, <2>1
  <2> QED BY <1>1, <2>1, <2>3, <2>4, <2>5 DEF Picks
<1>4. ASSUME Picks(toks, path, p), p[k] = t, Len(p) > k PROVE Picks(toks, q, p)
  <2>1. k < n /\ n <= N /\ (n = N \/ p[n] = <<FWC>>)
    BY <1>1, <1>4 DEF Picks
  <2>2. \A i \in 1..k : p[i] = q[i]
    <3>1. \A i \in 1..k : i = k \/ i \in 1..m
      BY <1>1
    <3>2. \A i \in 1..m : p[i] = path[i]
      BY <1>1, <1>4 DEF Picks
    <3> QED BY <1>2, <1>4, <3>1, <3>2
  <2>3. ASSUME NEW i \in (k + 1)..n
        PROVE  p[i] = <<PWC>> \/ (p[i] = toks[i] /\ Plain(toks[i])) \/ (p[i] = <<FWC>> /\ i = n)
    <3>1. i \in (m + 1)..n
      BY <1>1
    <3> QED BY <1>1, <1>4, <3>1 DEF Picks
  <2> QED BY <1>1, <1>2, <2>1, <2>2, <2>3 DEF Picks
<1> QED BY <1>1, <1>2, <1>3, <1>4

LEMMA PicksFwc ==
  ASSUME NEW toks \in Path, NEW path \in Seq(Token), NEW k \in 1..Len(toks), k = Len(path) + 1,
         NEW p \in Path
  PROVE  p = Append(path, <<FWC>>) <=> Picks(toks, path, p) /\ p[k] = <<FWC>>
<1>1. PICK m \in Nat, n \in Nat, N \in Nat : m = Len(path) /\ n = Len(p) /\ N = Len(toks) /\ k = m + 1
  BY LenProperties, PathIs
<1>2. PICK q \in Seq(Token) : /\ q = Append(path, <<FWC>>) /\ Len(q) = k /\ q[k] = <<FWC>>
                              /\ \A i \in 1..m : q[i] = path[i]
  <2>1. /\ Append(path, <<FWC>>) \in Seq(Token) /\ Len(Append(path, <<FWC>>)) = Len(path) + 1
        /\ \A i \in 1..Len(path) : Append(path, <<FWC>>)[i] = path[i]
        /\ Append(path, <<FWC>>)[Len(path) + 1] = <<FWC>>
    BY Wild, AppendProperties
  <2> QED BY <1>1, <2>1
<1>3. ASSUME p = q PROVE Picks(toks, path, p) /\ p[k] = <<FWC>>
  <2>1. n = k /\ m < n /\ n <= N /\ \A i \in (m + 1)..n : i = k
    BY <1>1, <1>2, <1>3
  <2> QED BY <1>1, <1>2, <1>3, <2>1 DEF Picks
<1>4. ASSUME Picks(toks, path, p), p[k] = <<FWC>> PROVE p = q
  <2>1. m < n /\ k \in (m + 1)..n
    BY <1>1, <1>4 DEF Picks
  <2>2. p[k] = <<PWC>> \/ (p[k] = toks[k] /\ Plain(toks[k])) \/ (p[k] = <<FWC>> /\ k = n)
    BY <1>1, <1>4, <2>1 DEF Picks
  <2>3. k = n
    BY <1>4, <2>2, Wild DEF Plain
  <2>4. \A i \in 1..n : p[i] = q[i]
    <3>1. \A i \in 1..n : i = k \/ i \in 1..m
      BY <1>1, <2>3
    <3>2. \A i \in 1..m : p[i] = path[i]
      BY <1>1, <1>4 DEF Picks
    <3> QED BY <1>2, <1>4, <3>1, <3>2
  <2> QED BY <1>1, <1>2, <2>3, <2>4, SeqEqual DEF Path
<1> QED BY <1>1, <1>2, <1>3, <1>4

(* A key under which a level holds what matches token k.                        *)
Opens(toks, k, t) == t = <<PWC>> \/ (t = toks[k] /\ Plain(t))

(* At the last token the search takes what is at the level itself.              *)
LEMMA PicksLast ==
  ASSUME NEW toks \in Path, NEW path \in Seq(Token), NEW k \in 1..Len(toks), 
         k = Len(path) + 1 /\ k = Len(toks),
         NEW p \in Path, NEW t \in Token, Opens(toks, k, t)
  PROVE  p = Append(path, t) <=> Picks(toks, path, p) /\ p[k] = t
<1>1. PICK m \in Nat, n \in Nat : m = Len(path) /\ n = Len(p) /\ k = m + 1
  BY LenProperties, PathIs
<1>2. PICK q \in Seq(Token) : /\ q = Append(path, t) /\ Len(q) = k /\ q[k] = t
                              /\ \A i \in 1..m : q[i] = path[i]
  <2>1. /\ Append(path, t) \in Seq(Token) /\ Len(Append(path, t)) = Len(path) + 1
        /\ \A i \in 1..Len(path) : Append(path, t)[i] = path[i]
        /\ Append(path, t)[Len(path) + 1] = t
    BY ONLY path \in Seq(Token), t \in Token, AppendProperties
  <2> QED BY <1>1, <2>1
<1>3. ASSUME p = q PROVE Picks(toks, path, p) /\ p[k] = t
  <2>1. n = k /\ m < n /\ n <= k /\ \A i \in (m + 1)..n : i = k
    BY <1>1, <1>2, <1>3
  <2> QED BY <1>1, <1>2, <1>3, <2>1 DEF Picks, Opens
<1>4. ASSUME Picks(toks, path, p), p[k] = t PROVE p = q
  <2>1. m < n /\ n <= k
    BY <1>1, <1>4 DEF Picks
  <2>2. n = k
    BY <1>1, <2>1
  <2>3. \A i \in 1..n : p[i] = q[i]
    <3>1. \A i \in 1..n : i = k \/ i \in 1..m
      BY <1>1, <2>2
    <3>2. \A i \in 1..m : p[i] = path[i]
      BY <1>1, <1>4 DEF Picks
    <3> QED BY <1>2, <1>4, <3>1, <3>2
  <2> QED BY <1>1, <1>2, <2>2, <2>3, SeqEqual DEF Path
<1> QED BY <1>1, <1>2, <1>3, <1>4

(* Whatever a search picks below path, the tree has the node it descends to.    *)
LEMMA PicksNode ==
  ASSUME NEW ns, IsTree(ns), NEW toks \in Path, NEW path \in Seq(Token), NEW t \in Token,
         NEW p \in DOMAIN ns, Picks(toks, Append(path, t), p)
  PROVE  Append(path, t) \in DOMAIN ns
<1>1. PICK q \in Path : q = Append(path, t)
  <2>1. Append(path, t) \in Seq(Token) /\ Append(path, t) # <<>>
    BY AppendProperties
  <2> QED BY <2>1 DEF Path
<1>2. p \in Path /\ Along(p) \subseteq DOMAIN ns
  BY DEF IsTree
<1>3. PICK k \in Nat \ {0} : k = Len(q)
  BY PathIs
<1>4. k \in 1..Len(p)
  <2>1. PICK n \in Nat : n = Len(p)
    BY <1>2, PathIs
  <2>2. k < n
    BY <1>1, <1>3, <2>1 DEF Picks
  <2> QED BY <1>3, <2>1, <2>2
<1>5. /\ SubSeq(p, 1, k) \in Path /\ Len(SubSeq(p, 1, k)) = k /\ SubSeq(p, 1, k) \in Along(p)
      /\ \A i \in 1..k : SubSeq(p, 1, k)[i] = p[i]
  BY <1>2, <1>4, PathIs
<1>6. \A i \in 1..k : p[i] = q[i]
  BY <1>1, <1>3 DEF Picks
<1>7. SubSeq(p, 1, k) = q
  BY <1>3, <1>5, <1>6, SeqEqual DEF Path
<1> QED BY <1>1, <1>2, <1>5, <1>7

(* What a search finds from the level below a path on, given what it finds from *)
(* the levels below that.                                                       *)
Level(ns, toks, f, path) ==
  LET t == toks[Len(path) + 1]
      pwc == Append(path, <<PWC>>)
      own == IF t \in {<<>>, <<PWC>>, <<FWC>>} THEN <<>> ELSE Append(path, t)
  IN IF Len(path) >= Len(toks) THEN <<>>
     ELSE SubsAt(ns, Append(path, <<FWC>>))
          \o (IF pwc \in DOMAIN ns THEN f[pwc] ELSE <<>>)
          \o (IF Len(path) + 1 = Len(toks) THEN SubsAt(ns, own) \o SubsAt(ns, pwc)
              ELSE IF own \in DOMAIN ns THEN f[own] ELSE <<>>)

Levels(ns) == DOMAIN ns \union {<<>>}

LEMMA LevelsAre ==
  ASSUME NEW ns, IsTree(ns), NEW path \in Levels(ns)
  PROVE  path \in Seq(Token) /\ Len(path) \in Nat /\ <<>> \notin DOMAIN ns
<1>1. path \in Seq(Token) /\ <<>> \notin DOMAIN ns
  <2>1. <<>> \notin DOMAIN ns /\ \A p \in DOMAIN ns : p \in Seq(Token)
    BY DEF IsTree, Path
  <2>2. <<>> \in Seq(Token)
    OBVIOUS
  <2> QED BY <2>1, <2>2 DEF Levels
<1> QED BY <1>1, LenProperties

LEMMA SubsAtType ==
  ASSUME NEW ns, IsTree(ns), NEW p
  PROVE  SubsAt(ns, p) \in Seq(Sub)
<1>1. <<>> \in Seq(Sub)
  OBVIOUS
<1> QED BY <1>1 DEF SubsAt, IsTree

LEMMA LevelType ==
  ASSUME NEW ns, IsTree(ns), NEW toks \in Path, NEW f \in [Levels(ns) -> Seq(Sub)],
         NEW path \in Levels(ns)
  PROVE  Level(ns, toks, f, path) \in Seq(Sub)
<1>1. <<>> \in Seq(Sub) /\ \A p \in DOMAIN ns : f[p] \in Seq(Sub)
  BY DEF Levels
<1>2. \A a, b \in Seq(Sub) : a \o b \in Seq(Sub)
  BY ConcatProperties
<1> QED BY <1>1, <1>2, SubsAtType DEF Level

(* A level depends on the levels below it alone.                                *)
LEMMA LevelSame ==
  ASSUME NEW ns, IsTree(ns), NEW toks \in Path, NEW f, NEW g, NEW path \in Levels(ns),
         \A q \in Levels(ns) : Len(q) = Len(path) + 1 => f[q] = g[q]
  PROVE  Level(ns, toks, f, path) = Level(ns, toks, g, path)
<1>1. path \in Seq(Token) /\ Len(path) \in Nat /\ <<>> \notin DOMAIN ns
  BY LevelsAre
<1>2. CASE Len(path) >= Len(toks)
  BY <1>2 DEF Level
<1>3. CASE ~(Len(path) >= Len(toks))
  <2>1. toks[Len(path) + 1] \in Token
    <3>1. PICK m \in Nat, N \in Nat : m = Len(path) /\ N = Len(toks)
      BY <1>1, PathIs
    <3>2. m + 1 \in 1..N
      BY <1>3, <3>1
    <3> QED BY <3>1, <3>2, PathIs
  <2>2. \A t \in Token : Append(path, t) \in DOMAIN ns => f[Append(path, t)] = g[Append(path, t)]
    <3> SUFFICES ASSUME NEW t \in Token, Append(path, t) \in DOMAIN ns
                 PROVE  f[Append(path, t)] = g[Append(path, t)]
      OBVIOUS
    <3>1. Len(Append(path, t)) = Len(path) + 1
      BY <1>1, AppendProperties
    <3> QED BY <3>1 DEF Levels
  <2> QED BY <1>1, <1>3, <2>1, <2>2, Wild DEF Level
<1> QED BY <1>2, <1>3

(* The search is well defined: levels are searched from the deepest up.         *)
LEMMA FoundIs ==
  ASSUME NEW ns, IsTree(ns), NEW toks \in Path
  PROVE  \E f : /\ f = [path \in Levels(ns) |-> Level(ns, toks, f, path)]
                /\ matchLevel(ns, toks) = f[<<>>]
<1>1. PICK N \in Nat : N = Len(toks)
  BY PathIs
<1> DEFINE V == [Levels(ns) -> Seq(Sub)]
           base == [path \in Levels(ns) |-> <<>>]
           Up(v) == [path \in Levels(ns) |-> Level(ns, toks, v, path)]
           st == [n \in 1..N |-> [v \in V |-> Up(v)]]
           Eq(f) == f = [path \in DOMAIN ns \union {<<>>} |->
              LET t == toks[Len(path) + 1]
                  pwc == Append(path, <<PWC>>)
                  own == IF t \in {<<>>, <<PWC>>, <<FWC>>} THEN <<>> ELSE Append(path, t)
              IN IF Len(path) >= Len(toks) THEN <<>>
                 ELSE SubsAt(ns, Append(path, <<FWC>>))
                      \o (IF pwc \in DOMAIN ns THEN f[pwc] ELSE <<>>)
                      \o (IF Len(path) + 1 = Len(toks) THEN SubsAt(ns, own) \o SubsAt(ns, pwc)
                          ELSE IF own \in DOMAIN ns THEN f[own] ELSE <<>>)]
<1>2. base \in V
  <2>1. <<>> \in Seq(Sub)
    OBVIOUS
  <2> QED BY <2>1
<1>3. \A v \in V : Up(v) \in V
  BY LevelType
<1>4. PICK g \in [0..N -> V] : g[0] = base /\ \A n \in 1..N : g[n] = Up(g[n - 1])
  <2> HIDE DEF V, Up, base
  <2>1. st \in [1..N -> [V -> V]]
    BY <1>3
  <2>2. \A n \in 1..N, v \in V : st[n][v] = Up(v)
    OBVIOUS
  <2> HIDE DEF st
  <2>3. PICK g \in [0..N -> V] : IsSolution(g, N, base, st)
    BY <1>2, <2>1, Solution
  <2>4. \A n \in 1..N : g[n - 1] \in V
    BY <2>3
  <2> QED BY <2>2, <2>3, <2>4 DEF IsSolution
<1> DEFINE Done(n) == \A path \in Levels(ns) : Len(path) >= N - n => Level(ns, toks, g[n], path) = g[n][path]
           S == {n \in 0..N : Done(n)}
<1>5. 0..N \subseteq S
  <2>1. Done(0)
    <3> SUFFICES ASSUME NEW path \in Levels(ns), Len(path) >= N PROVE Level(ns, toks, g[0], path) = g[0][path]
      OBVIOUS
    <3> QED BY <1>1, <1>4 DEF Level
  <2>2. ASSUME NEW n \in 1..N, Done(n - 1) PROVE Done(n)
    <3> SUFFICES ASSUME NEW path \in Levels(ns), Len(path) >= N - n
                 PROVE  Level(ns, toks, g[n], path) = g[n][path]
      OBVIOUS
    <3>1. ASSUME NEW q \in Levels(ns), Len(q) = Len(path) + 1 PROVE g[n][q] = g[n - 1][q]
      <4>1. PICK m \in Nat : m = Len(path) /\ m >= N - n
        BY LevelsAre
      <4>2. Len(q) >= N - (n - 1)
        BY <3>1, <4>1
      <4>3. Level(ns, toks, g[n - 1], q) = g[n - 1][q]
        BY <2>2, <4>2
      <4> QED BY <1>4, <4>3
    <3>2. Level(ns, toks, g[n], path) = Level(ns, toks, g[n - 1], path)
      BY <3>1, LevelSame
    <3> QED BY <1>4, <3>2
  <2> HIDE DEF Done
  <2>3. 0 \in S /\ \A n \in 1..N : n - 1 \in S => n \in S
    BY <2>1, <2>2
  <2> HIDE DEF S
  <2> QED BY <2>3, Induct
<1>6. PICK h \in V : h = g[N]
  OBVIOUS
<1>7. h = Up(h)
  <2>1. \A path \in Levels(ns) : Level(ns, toks, h, path) = h[path]
    <3>1. N \in S
      BY <1>5
    <3>2. \A path \in Levels(ns) : Len(path) >= N - N
      <4>1. \A path \in Levels(ns) : Len(path) \in Nat
        BY LevelsAre
      <4> QED BY <4>1
    <3> QED BY <1>6, <3>1, <3>2
  <2>2. h = [path \in Levels(ns) |-> h[path]]
    OBVIOUS
  <2> QED BY <2>1, <2>2
<1>8. \A f : Eq(f) <=> f = Up(f)
  BY DEF Levels, Level
<1>9. Eq(h)
  <2> HIDE DEF Eq, Up
  <2> QED BY <1>7, <1>8
<1>10. PICK f : f = CHOOSE x : Eq(x)
  OBVIOUS
<1>11. Eq(f)
  <2> HIDE DEF Eq
  <2> QED BY <1>9, <1>10
<1>12. matchLevel(ns, toks) = f[<<>>]
  BY <1>10 DEF matchLevel
<1>13. f = Up(f)
  <2> HIDE DEF Eq, Up
  <2> QED BY <1>8, <1>11
<1> HIDE DEF Eq
<1> QED BY <1>12, <1>13

(* What a search from the level below path finds: the subs of the nodes that it *)
(* picks, each once.                                                            *)
Finds(ns, toks, path, subs) ==
  /\ subs \in Seq(Sub) /\ IsInjective(subs)
  /\ \A s : s \in ToSet(subs) <=>
              \E p \in DOMAIN ns : s \in ToSet(ns[p]) /\ Picks(toks, path, p)

(* The subs of some of the nodes, each once.                                    *)
Takes(ns, T, subs) ==
  /\ subs \in Seq(Sub) /\ IsInjective(subs)
  /\ \A s : s \in ToSet(subs) <=> \E p \in DOMAIN ns : s \in ToSet(ns[p]) /\ p \in T

LEMMA TakesNone ==
  ASSUME NEW ns, NEW T, T \cap DOMAIN ns = {}
  PROVE  Takes(ns, T, <<>>)
<1>1. <<>> \in Seq(Sub)
  OBVIOUS
<1>2. IsInjective(<<>>) /\ ToSet(<<>>) = {}
  BY DEF IsInjective, ToSet
<1> QED BY <1>1, <1>2 DEF Takes

LEMMA TakesOne ==
  ASSUME NEW ns, IsTree(ns), Filed(ns), NEW p
  PROVE  Takes(ns, {p}, SubsAt(ns, p))
<1>1. CASE p \in DOMAIN ns
  BY <1>1 DEF SubsAt, Takes, IsTree, Filed
<1>2. CASE p \notin DOMAIN ns
  BY <1>2, TakesNone DEF SubsAt
<1> QED BY <1>1, <1>2

LEMMA TakesBoth ==
  ASSUME NEW ns, Filed(ns), NEW T, NEW U, T \cap U = {},
         NEW a, Takes(ns, T, a), NEW b, Takes(ns, U, b)
  PROVE  Takes(ns, T \union U, a \o b)
<1>1. ToSet(a) \cap ToSet(b) = {}
  <2> SUFFICES ASSUME NEW s, s \in ToSet(a), s \in ToSet(b) PROVE FALSE
    OBVIOUS
  <2>1. PICK p \in DOMAIN ns : s \in ToSet(ns[p]) /\ p \in T
    BY DEF Takes
  <2>2. PICK q \in DOMAIN ns : s \in ToSet(ns[q]) /\ q \in U
    BY DEF Takes
  <2>3. p = q
    BY <2>1, <2>2 DEF Filed
  <2> QED BY <2>1, <2>2, <2>3
<1>2. /\ a \o b \in Seq(Sub) /\ ToSet(a \o b) = ToSet(a) \union ToSet(b)
      /\ IsInjective(a \o b)
  BY <1>1, ConcatSet DEF Takes
<1> QED BY <1>2 DEF Takes

(* A level finds what it should if the levels below do.                         *)
LEMMA LevelFinds ==
  ASSUME NEW ns, IsTree(ns), Filed(ns), NEW toks \in Path, NEW f, NEW path \in Levels(ns),
         \A q \in Levels(ns) : Len(q) = Len(path) + 1 => Finds(ns, toks, q, f[q])
  PROVE  Finds(ns, toks, path, Level(ns, toks, f, path))
<1>1. path \in Seq(Token) /\ Len(path) \in Nat /\ <<>> \notin DOMAIN ns
  BY LevelsAre
<1>2. PICK N \in Nat : N = Len(toks)
  BY PathIs
<1>3. \A p \in DOMAIN ns : p \in Path
  BY DEF IsTree
<1> DEFINE Picked(q) == {p \in DOMAIN ns : Picks(toks, q, p)}
<1>4. \A q, subs : Finds(ns, toks, q, subs) <=> Takes(ns, Picked(q), subs)
  BY DEF Finds, Takes
<1>5. CASE Len(path) >= N
  <2>1. \A p \in DOMAIN ns : ~Picks(toks, path, p)
    <3> SUFFICES ASSUME NEW p \in DOMAIN ns, Picks(toks, path, p) PROVE FALSE
      OBVIOUS
    <3>1. PICK n \in Nat : n = Len(p)
      BY <1>3, PathIs
    <3> QED BY <1>1, <1>2, <1>5, <3>1 DEF Picks
  <2>2. Takes(ns, Picked(path), <<>>)
    BY <2>1, TakesNone
  <2> QED BY <1>2, <1>4, <1>5, <2>2 DEF Level
<1>6. CASE ~(Len(path) >= N)
  <2>1. PICK k \in 1..Len(toks) : k = Len(path) + 1 /\ k <= N
    BY <1>1, <1>2, <1>6
  <2>2. PICK t \in Token : t = toks[k]
    BY PathIs
  <2> DEFINE fwc == Append(path, <<FWC>>)
             pwc == Append(path, <<PWC>>)
             own == IF Plain(t) THEN Append(path, t) ELSE <<>>
             A == SubsAt(ns, fwc)
             B == IF pwc \in DOMAIN ns THEN f[pwc] ELSE <<>>
             C == IF k = N THEN SubsAt(ns, own) \o SubsAt(ns, pwc)
                  ELSE IF own \in DOMAIN ns THEN f[own] ELSE <<>>
             Is(p, x) == Picks(toks, path, p) /\ p[k] = x
             TA == {p \in DOMAIN ns : Is(p, <<FWC>>)}
             TB == {p \in DOMAIN ns : Is(p, <<PWC>>) /\ k # N}
             TC == {p \in DOMAIN ns : (Is(p, t) /\ Plain(t)) \/ (Is(p, <<PWC>>) /\ k = N)}
  <2>3. Level(ns, toks, f, path) = A \o B \o C
    BY <1>2, <1>6, <2>1, <2>2 DEF Level, Plain
  <2>4. \A x \in Token : Append(path, x) \in DOMAIN ns =>
                           /\ Finds(ns, toks, Append(path, x), f[Append(path, x)])
    <3> SUFFICES ASSUME NEW x \in Token, Append(path, x) \in DOMAIN ns
                 PROVE  Finds(ns, toks, Append(path, x), f[Append(path, x)])
      OBVIOUS
    <3>1. Len(Append(path, x)) = Len(path) + 1
      BY <1>1, AppendProperties
    <3> QED BY <3>1 DEF Levels
  <2>5. ASSUME NEW x \in Token, x = <<PWC>> \/ (x = t /\ Plain(x)), k # N
        PROVE  Takes(ns, {p \in DOMAIN ns : Is(p, x)},
                     IF Append(path, x) \in DOMAIN ns THEN f[Append(path, x)] ELSE <<>>)
    <3>1. x # <<FWC>>
      BY <2>5, Wild DEF Plain
    <3>2. \A p \in DOMAIN ns : Picks(toks, Append(path, x), p) <=> Is(p, x) /\ Len(p) > k
      BY <1>1, <1>3, <2>1, <2>2, <2>5, <3>1, PicksBelow
    <3>3. \A p \in DOMAIN ns : Is(p, x) => Len(p) > k
      <4> SUFFICES ASSUME NEW p \in DOMAIN ns, Is(p, x) PROVE Len(p) > k
        OBVIOUS
      <4>1. PICK n \in Nat, m \in Nat : n = Len(p) /\ m = Len(path) /\ k = m + 1
        BY <1>1, <1>3, <2>1, PathIs
      <4>2. n > m /\ n <= N /\ (n = N \/ p[n] = <<FWC>>)
        BY <1>2, <4>1 DEF Picks
      <4>3. n # k
        BY <2>5, <3>1, <4>1, <4>2
      <4> QED BY <4>1, <4>2, <4>3
    <3>4. Picked(Append(path, x)) = {p \in DOMAIN ns : Is(p, x)}
      BY <3>2, <3>3
    <3>5. CASE Append(path, x) \in DOMAIN ns
      BY <1>4, <2>4, <3>4, <3>5
    <3>6. CASE Append(path, x) \notin DOMAIN ns
      <4>1. \A p \in DOMAIN ns : ~Picks(toks, Append(path, x), p)
        BY <1>1, <3>6, PicksNode
      <4>2. {p \in DOMAIN ns : Is(p, x)} \cap DOMAIN ns = {}
        BY <3>4, <4>1
      <4> QED BY <3>6, <4>2, TakesNone
    <3> QED BY <3>5, <3>6
  <2>6. Takes(ns, TA, A)
    <3>1. \A p \in DOMAIN ns : p = fwc <=> Is(p, <<FWC>>)
      BY <1>1, <1>3, <2>1, PicksFwc
    <3>2. Takes(ns, {fwc}, A)
      BY TakesOne
    <3> QED BY <3>1, <3>2 DEF Takes
  <2>7. Takes(ns, TB, B)
    <3>1. CASE k = N
      <4>1. TB = {}
        BY <3>1
      <4>2. pwc \in DOMAIN ns => f[pwc] = <<>>
        <5> SUFFICES ASSUME pwc \in DOMAIN ns PROVE f[pwc] = <<>>
          OBVIOUS
        <5>1. Finds(ns, toks, pwc, f[pwc])
          BY <2>4, Wild
        <5>2. \A p \in DOMAIN ns : ~Picks(toks, pwc, p)
          <6> SUFFICES ASSUME NEW p \in DOMAIN ns, Picks(toks, pwc, p) PROVE FALSE
            OBVIOUS
          <6>1. Len(pwc) = k
            BY <1>1, <2>1, Wild, AppendProperties
          <6>2. PICK n \in Nat : n = Len(p)
            BY <1>3, PathIs
          <6> QED BY <1>2, <3>1, <6>1, <6>2 DEF Picks
        <5>3. f[pwc] \in Seq(Sub) /\ ToSet(f[pwc]) = {}
          BY <5>1, <5>2 DEF Finds
        <5> HIDE DEF pwc
        <5>4. PICK z \in Seq(Sub) : z = f[pwc]
          BY <5>3
        <5>5. \A i \in DOMAIN z : FALSE
          BY <5>3, <5>4 DEF ToSet
        <5>6. Len(z) \in Nat /\ DOMAIN z = 1..Len(z)
          BY LenProperties
        <5>7. Len(z) = 0
          <6>1. Len(z) # 0 => 1 \in 1..Len(z)
            BY <5>6
          <6> QED BY <5>5, <5>6, <6>1
        <5> QED BY <5>4, <5>7, EmptySeq
      <4>3. B = <<>>
        BY <4>2
      <4>4. {} \cap DOMAIN ns = {}
        OBVIOUS
      <4> QED BY <4>1, <4>3, <4>4, TakesNone
    <3>2. CASE k # N
      <4>1. TB = {p \in DOMAIN ns : Is(p, <<PWC>>)}
        BY <3>2
      <4> QED BY <2>5, <3>2, <4>1, Wild
    <3> QED BY <3>1, <3>2
  <2>8. Takes(ns, TC, C)
    <3>1. CASE k = N
      <4>1. \A p \in DOMAIN ns : p = pwc <=> Is(p, <<PWC>>)
        <5>1. k = Len(path) + 1 /\ k = Len(toks)
          BY <1>2, <2>1, <3>1
        <5>2. PICK x \in Token : x = <<PWC>>
          BY Wild
        <5>3. \A p \in DOMAIN ns : p = Append(path, x) <=> Picks(toks, path, p) /\ p[k] = x
          <6> SUFFICES ASSUME NEW p \in DOMAIN ns
                       PROVE  p = Append(path, x) <=> Picks(toks, path, p) /\ p[k] = x
            OBVIOUS
          <6>1. p \in Path /\ path \in Seq(Token) /\ Opens(toks, k, x)
            BY <1>1, <1>3, <5>2 DEF Opens
          <6> HIDE DEF pwc, own, Is, TA, TB, TC
          <6> QED BY ONLY <5>1, <6>1, toks \in Path, k \in 1..Len(toks), x \in Token, PicksLast
        <5> QED BY <5>2, <5>3
      <4>2. \A p \in DOMAIN ns : p = own <=> Is(p, t) /\ Plain(t)
        <5>1. k = Len(path) + 1 /\ k = Len(toks) /\ (Plain(t) => Opens(toks, k, t))
          BY <1>2, <2>1, <2>2, <3>1 DEF Opens
        <5>2. ASSUME NEW p \in DOMAIN ns, Plain(t) PROVE p = Append(path, t) <=> Is(p, t)
          <6>1. p \in Path /\ path \in Seq(Token) /\ Opens(toks, k, t)
            BY <1>1, <1>3, <5>1, <5>2
          <6> QED BY ONLY <5>1, <6>1, toks \in Path, k \in 1..Len(toks), t \in Token, PicksLast
        <5>3. \A p \in DOMAIN ns : p # <<>>
          BY <1>1
        <5> QED BY <5>2, <5>3
      <4>3. {own} \cap {pwc} = {}
        <5>1. CASE Plain(t)
          <6>1. t # <<PWC>>
            BY <5>1 DEF Plain
          <6> QED BY <1>1, <5>1, <6>1, Wild, AppendInjective
        <5>2. CASE ~Plain(t)
          BY <1>1, <5>2, Wild, AppendProperties
        <5> QED BY <5>1, <5>2
      <4>4. Takes(ns, {own} \union {pwc}, SubsAt(ns, own) \o SubsAt(ns, pwc))
        BY <4>3, TakesOne, TakesBoth
      <4>5. \A p \in DOMAIN ns : p \in TC <=> p \in {own} \union {pwc}
        BY <3>1, <4>1, <4>2
      <4> HIDE DEF TC, own, pwc
      <4> QED BY <3>1, <4>4, <4>5 DEF Takes
    <3>2. CASE k # N
      <4>1. CASE Plain(t)
        <5>1. TC = {p \in DOMAIN ns : Is(p, t)}
          BY <3>2, <4>1
        <5>2. C = IF Append(path, t) \in DOMAIN ns THEN f[Append(path, t)] ELSE <<>>
          BY <3>2, <4>1
        <5> QED BY <2>5, <3>2, <4>1, <5>1, <5>2
      <4>2. CASE ~Plain(t)
        <5>1. TC = {}
          BY <3>2, <4>2
        <5>2. C = <<>>
          BY <1>1, <3>2, <4>2
        <5>3. {} \cap DOMAIN ns = {}
          OBVIOUS
        <5> QED BY <5>1, <5>2, <5>3, TakesNone
      <4> QED BY <4>1, <4>2
    <3> QED BY <3>1, <3>2
  <2>9. TA \cap TB = {} /\ (TA \union TB) \cap TC = {}
    BY Wild DEF Plain
  <2>10. TA \union TB \union TC = Picked(path)
    <3>1. ASSUME NEW p \in DOMAIN ns, Picks(toks, path, p)
          PROVE  p[k] \in {<<FWC>>, <<PWC>>} \/ (p[k] = t /\ Plain(t))
      <4>1. k \in (Len(path) + 1)..Len(p)
        <5>1. PICK n \in Nat, m \in Nat : n = Len(p) /\ m = Len(path) /\ k = m + 1
          BY <1>1, <1>3, <2>1, PathIs
        <5> QED BY <3>1, <5>1 DEF Picks
      <4> QED BY <2>2, <3>1, <4>1 DEF Picks
    <3> QED BY <3>1
  <2>11. Takes(ns, Picked(path), A \o B \o C)
    <3> HIDE DEF TA, TB, TC, A, B, C, Picked
    <3>1. Takes(ns, TA \union TB, A \o B)
      BY <2>6, <2>7, <2>9, TakesBoth
    <3>2. Takes(ns, (TA \union TB) \union TC, (A \o B) \o C)
      BY <2>8, <2>9, <3>1, TakesBoth
    <3> QED BY <2>10, <3>2
  <2> QED BY <1>4, <2>3, <2>11
<1> QED BY <1>5, <1>6

(* The search finds the subs of the nodes it should pick, each once.            *)
LEMMA SearchFinds ==
  ASSUME NEW ns, IsTree(ns), Filed(ns), NEW toks \in Path
  PROVE  Finds(ns, toks, <<>>, matchLevel(ns, toks))
<1>1. PICK f : f = [path \in Levels(ns) |-> Level(ns, toks, f, path)] /\ matchLevel(ns, toks) = f[<<>>]
  BY FoundIs
<1>2. \A path \in Levels(ns) : f[path] = Level(ns, toks, f, path)
  BY <1>1
<1>3. PICK N \in Nat : N = Len(toks)
  BY PathIs
<1> DEFINE Done(n) == \A path \in Levels(ns) : Len(path) >= N - n => Finds(ns, toks, path, f[path])
           S == {n \in 0..(N + 1) : Done(n)}
<1>4. ASSUME NEW path \in Levels(ns),
             \A q \in Levels(ns) : Len(q) = Len(path) + 1 => Finds(ns, toks, q, f[q])
      PROVE  Finds(ns, toks, path, f[path])
  BY <1>2, <1>4, LevelFinds
<1>5. Done(0)
  <2> SUFFICES ASSUME NEW path \in Levels(ns), Len(path) >= N PROVE Finds(ns, toks, path, f[path])
    OBVIOUS
  <2>1. f[path] = <<>>
    BY <1>2, <1>3 DEF Level
  <2>2. path \in Seq(Token) /\ Len(path) \in Nat
    BY LevelsAre
  <2>3. \A p \in DOMAIN ns : ~Picks(toks, path, p)
    <3> SUFFICES ASSUME NEW p \in DOMAIN ns, Picks(toks, path, p) PROVE FALSE
      OBVIOUS
    <3>1. PICK n \in Nat : n = Len(p)
      BY PathIs DEF IsTree
    <3> QED BY <1>3, <2>2, <3>1 DEF Picks
  <2>4. Takes(ns, {}, <<>>)
    BY TakesNone
  <2> QED BY <2>1, <2>3, <2>4 DEF Takes, Finds
<1>6. ASSUME NEW n \in 1..(N + 1), Done(n - 1) PROVE Done(n)
  <2> SUFFICES ASSUME NEW path \in Levels(ns), Len(path) >= N - n
               PROVE  Finds(ns, toks, path, f[path])
    OBVIOUS
  <2>1. ASSUME NEW q \in Levels(ns), Len(q) = Len(path) + 1 PROVE Finds(ns, toks, q, f[q])
    <3>1. PICK m \in Nat : m = Len(path) /\ m >= N - n
      BY LevelsAre
    <3>2. Len(q) >= N - (n - 1)
      BY <2>1, <3>1
    <3> QED BY <1>6, <3>2
  <2> QED BY <1>4, <2>1
<1>7. 0..(N + 1) \subseteq S
  <2> HIDE DEF Done
  <2>1. 0 \in S /\ \A n \in 1..(N + 1) : n - 1 \in S => n \in S
    BY <1>5, <1>6
  <2>2. N + 1 \in Nat
    OBVIOUS
  <2> HIDE DEF S
  <2> QED BY <2>1, <2>2, Induct
<1>8. Done(N)
  <2> HIDE DEF Done
  <2>1. N \in 0..(N + 1)
    OBVIOUS
  <2> QED BY <1>7, <2>1
<1>9. <<>> \in Levels(ns) /\ Len(<<>>) = 0
  BY DEF Levels
<1> QED BY <1>1, <1>8, <1>9

-----------------------------------------------------------------------------
(* Subjects that are well formed, and literals that are valid.                  *)

(* A literal and a subject that match, as in SubjectInterest.                   *)
Match(literal, subject) ==
  /\ \A i \in 1..Len(subject) : i <= Len(literal) /\ subject[i] \in {literal[i], <<PWC>>, <<FWC>>}
  /\ Len(literal) > Len(subject) => subject[Len(subject)] = <<FWC>>

(* The tokens of a well-formed subject.                                         *)
Proper1(toks) ==
  /\ \A i \in 1..Len(toks) : /\ toks[i] # <<>>
                             /\ \A b \in 1..Len(toks[i]) :
                                  toks[i][b] \in {PWC, FWC} => Len(toks[i]) = 1
                             /\ toks[i] = <<FWC>> => i = Len(toks)

LEMMA WellFormedIs ==
  ASSUME NEW subject \in Subjects, WellFormed(subject)
  PROVE  /\ Tokens[subject] \in Path /\ Proper1(Tokens[subject])
         /\ Refused(Tokens[subject]) = {} /\ Walk(Tokens[subject]) = Tokens[subject]
<1>1. PICK toks \in Path : toks = Tokens[subject]
  BY TokensAre
<1>2. PICK n \in Nat \ {0} : n = Len(toks) /\ DOMAIN toks = 1..n /\ \A i \in 1..n : toks[i] \in Token
  BY PathIs
<1>3. Refused(toks) = {} /\ \A t \in ToSet(toks) : Len(t) > 1 => ToSet(t) \intersect {PWC, FWC} = {}
  BY <1>1 DEF WellFormed
<1>4. ASSUME NEW i \in 1..n
      PROVE  /\ toks[i] # <<>> /\ Len(toks[i]) \in Nat \ {0} /\ DOMAIN toks[i] = 1..Len(toks[i])
             /\ \A b \in 1..Len(toks[i]) : toks[i][b] \in {PWC, FWC} => Len(toks[i]) = 1
             /\ toks[i] = <<FWC>> => i = n
  <2>1. toks[i] # <<>> /\ \A j \in 1..(i - 1) : ~IsPrefix(<<FWC>>, toks[j])
    BY <1>2, <1>3 DEF Refused
  <2>2. PICK t \in Token : t = toks[i]
    BY <1>2
  <2>3. Len(t) \in Nat \ {0} /\ DOMAIN t = 1..Len(t)
    BY <2>1, <2>2, EmptySeq, LenProperties DEF Token
  <2>4. \A b \in 1..Len(t) : t[b] \in {PWC, FWC} => Len(t) = 1
    <3> SUFFICES ASSUME NEW b \in 1..Len(t), t[b] \in {PWC, FWC}, Len(t) # 1 PROVE FALSE
      OBVIOUS
    <3>1. t \in ToSet(toks) /\ t[b] \in ToSet(t)
      BY <1>2, <2>2, <2>3 DEF ToSet
    <3>2. Len(t) > 1
      BY <2>3
    <3> QED BY <1>3, <3>1, <3>2
  <2>5. ASSUME t = <<FWC>>, i # n PROVE FALSE
    <3>1. n \in DOMAIN toks /\ i \in 1..(n - 1)
      BY <1>2, <2>5
    <3>2. ~IsPrefix(<<FWC>>, t)
      BY <1>2, <1>3, <2>2, <3>1 DEF Refused
    <3>3. IsPrefix(t, t)
      BY <2>3, PrefixIs DEF Token
    <3> QED BY <2>5, <3>2, <3>3
  <2> QED BY <2>1, <2>2, <2>3, <2>4, <2>5
<1>5. Proper1(toks)
  BY <1>2, <1>4 DEF Proper1
<1>6. Walk(toks) = toks
  <2>1. /\ Walk(toks) \in Path /\ Len(Walk(toks)) = n
        /\ \A i \in 1..n : Walk(toks)[i] = NodeKey(toks[i])
    BY <1>2, <1>3, WalkIs
  <2>2. ASSUME NEW i \in 1..n PROVE NodeKey(toks[i]) = toks[i]
    <3>1. PICK t \in Token : t = toks[i]
      BY <1>2
    <3>2. CASE t[1] \in {PWC, FWC}
      <4>1. 1 \in 1..Len(t)
        BY <1>4, <3>1
      <4>2. Len(t) = 1
        BY <1>4, <3>1, <3>2, <4>1
      <4>3. PICK b \in Byte : b = t[1]
        BY <4>1, ElementOfSeq DEF Token
      <4>4. <<b>> \in Token /\ Len(<<b>>) = 1 /\ <<b>>[1] = b
        BY Single DEF Token
      <4>5. t = <<b>>
        BY <4>2, <4>3, <4>4, SeqEqual DEF Token
      <4> QED BY <3>1, <3>2, <4>3, <4>5 DEF NodeKey
    <3>3. CASE ~(t[1] \in {PWC, FWC})
      BY <3>1, <3>3 DEF NodeKey
    <3> QED BY <3>2, <3>3
  <2>3. Walk(toks) \in Seq(Token) /\ toks \in Seq(Token)
    BY <2>1 DEF Path
  <2> QED BY <1>2, <2>1, <2>2, <2>3, SeqEqual
<1> QED BY <1>1, <1>3, <1>5, <1>6

(* A search for a valid literal picks a well-formed subject's node just when    *)
(* they match.                                                                  *)
LEMMA PicksMatch ==
  ASSUME NEW toks \in Path, \A i \in 1..Len(toks) : Plain(toks[i]), NEW p \in Path, Proper1(p)
  PROVE  Picks(toks, <<>>, p) <=> Match(toks, p)
<1>1. PICK n \in Nat \ {0}, N \in Nat \ {0} : n = Len(p) /\ N = Len(toks)
  BY PathIs
<1>2. ASSUME Picks(toks, <<>>, p) PROVE Match(toks, p)
  <2>1. n <= N /\ (n = N \/ p[n] = <<FWC>>)
    BY <1>1, <1>2 DEF Picks
  <2>2. ASSUME NEW i \in 1..n PROVE i <= N /\ p[i] \in {toks[i], <<PWC>>, <<FWC>>}
    <3>1. i \in (Len(<<>>) + 1)..Len(p)
      BY <1>1
    <3>2. p[i] = <<PWC>> \/ (p[i] = toks[i] /\ Plain(toks[i])) \/ (p[i] = <<FWC>> /\ i = Len(p))
      BY <1>2, <3>1 DEF Picks
    <3>3. i <= N
      BY <1>1, <2>1
    <3> QED BY <3>2, <3>3
  <2> QED BY <1>1, <2>1, <2>2 DEF Match
<1>3. ASSUME Match(toks, p) PROVE Picks(toks, <<>>, p)
  <2>1. \A i \in 1..n : i <= N /\ p[i] \in {toks[i], <<PWC>>, <<FWC>>}
    BY <1>1, <1>3 DEF Match
  <2>2. n <= N /\ (n = N \/ p[n] = <<FWC>>)
    BY <1>1, <1>3, <2>1 DEF Match
  <2>3. ASSUME NEW i \in 1..n
        PROVE  p[i] = <<PWC>> \/ (p[i] = toks[i] /\ Plain(toks[i])) \/ (p[i] = <<FWC>> /\ i = n)
    BY <1>1, <2>1, <2>2 DEF Proper1
  <2>4. Len(<<>>) = 0
    OBVIOUS
  <2> QED BY <1>1, <2>2, <2>3, <2>4 DEF Picks
<1> QED BY <1>2, <1>3

-----------------------------------------------------------------------------
(* The cache's own matching, byte by byte.                                      *)

Begins(a, b) == Len(a) <= Len(b) /\ \A i \in 1..Len(a) : a[i] = b[i]

(* Tokens that become others as more bytes are read.                            *)
Grows(a, b) ==
  /\ Len(a) <= Len(b) /\ \A i \in 1..(Len(a) - 1) : a[i] = b[i]
  /\ Begins(a[Len(a)], b[Len(a)])

LEMMA TokenIs ==
  ASSUME NEW t \in Token, NEW b \in Byte
  PROVE  /\ Len(t) \in Nat /\ Append(t, b) \in Token /\ Len(Append(t, b)) = Len(t) + 1
         /\ \A i \in 1..Len(t) : Append(t, b)[i] = t[i]
         /\ Append(t, b)[Len(t) + 1] = b
  BY LenProperties, AppendProperties DEF Token

LEMMA GrowsSelf ==
  ASSUME NEW a \in Path
  PROVE  Grows(a, a)
<1>1. Len(a) \in Nat \ {0} /\ a[Len(a)] \in Token
  BY PathIs
<1>2. Len(a[Len(a)]) \in Nat
  BY <1>1, LenProperties DEF Token
<1> QED BY <1>1, <1>2 DEF Grows, Begins

LEMMA GrowsRead ==
  ASSUME NEW a \in Path, NEW c \in Path, Grows(a, c), NEW b \in Byte
  PROVE  Grows(a, Read(c, b))
<1>1. PICK k \in Nat \ {0}, m \in Nat \ {0} : k = Len(a) /\ m = Len(c) /\ k <= m
  BY PathIs DEF Grows
<1>2. PICK t \in Token, u \in Token : t = a[k] /\ u = c[k] /\ Begins(t, u)
  <2>1. k \in 1..Len(a) /\ k \in 1..Len(c)
    BY <1>1
  <2> QED BY <1>1, <2>1, PathIs DEF Grows
<1>3. Len(t) \in Nat /\ Len(u) \in Nat
  BY LenProperties DEF Token
<1>4. PICK r \in Path : r = Read(c, b)
  BY ReadIs
<1>5. \A i \in 1..(k - 1) : a[i] = c[i] /\ i \in 1..(m - 1) /\ i \in 1..m
  BY <1>1 DEF Grows
<1>6. CASE b = SEP
  <2>1. Len(r) = m + 1 /\ \A i \in 1..m : r[i] = c[i]
    BY <1>1, <1>4, <1>6, ReadIs
  <2>2. k \in 1..m
    BY <1>1
  <2> QED BY <1>1, <1>2, <1>4, <1>5, <2>1, <2>2 DEF Grows
<1>7. CASE b # SEP
  <2>1. /\ Len(r) = m /\ r[m] = Append(c[m], b) /\ \A i \in 1..(m - 1) : r[i] = c[i]
    BY <1>1, <1>4, <1>7, ReadIs
  <2>2. Begins(t, r[k])
    <3>1. CASE k = m
      <4>1. r[k] = Append(u, b)
        BY <1>2, <2>1, <3>1
      <4>2. Len(Append(u, b)) = Len(u) + 1 /\ \A i \in 1..Len(u) : Append(u, b)[i] = u[i]
        BY TokenIs
      <4>3. \A i \in 1..Len(t) : i \in 1..Len(u) /\ t[i] = u[i]
        BY <1>2, <1>3 DEF Begins
      <4> QED BY <1>2, <1>3, <4>1, <4>2, <4>3 DEF Begins
    <3>2. CASE k # m
      <4>1. k \in 1..(m - 1)
        BY <1>1, <3>2
      <4> QED BY <1>2, <2>1, <4>1
    <3> QED BY <3>1, <3>2
  <2> QED BY <1>1, <1>2, <1>4, <1>5, <2>1, <2>2 DEF Grows
<1> QED BY <1>6, <1>7

LEMMA SplitGrows ==
  ASSUME NEW s \in Seq(Byte), NEW f, Splits(f, s), NEW m \in 0..Len(s), NEW n \in m..Len(s)
  PROVE  Grows(f[m], f[n])
<1>1. PICK N \in Nat : N = Len(s) /\ \A i \in 1..N : s[i] \in Byte
  BY LenProperties, ElementOfSeq
<1>2. \A i \in 0..N : f[i] \in Path
  BY <1>1 DEF Splits
<1> DEFINE S == {d \in 0..(N - m) : Grows(f[m], f[m + d])}
<1>3. 0..(N - m) \subseteq S
  <2>1. 0 \in S
    <3>1. Grows(f[m], f[m])
      BY <1>1, <1>2, GrowsSelf
    <3>2. m + 0 = m /\ 0 \in 0..(N - m)
      BY <1>1
    <3> QED BY <3>1, <3>2
  <2>2. ASSUME NEW d \in 1..(N - m), d - 1 \in S PROVE d \in S
    <3>1. PICK j \in 1..N : j = m + d /\ j - 1 = m + (d - 1) /\ j - 1 \in 0..N
      BY <1>1
    <3>2. f[j] = Read(f[j - 1], s[j])
      BY <1>1, <3>1 DEF Splits
    <3>3. Grows(f[m], f[j - 1])
      BY <2>2, <3>1
    <3>4. f[m] \in Path /\ f[j - 1] \in Path /\ s[j] \in Byte
      BY <1>1, <1>2, <3>1
    <3>5. Grows(f[m], f[j])
      BY <3>2, <3>3, <3>4, GrowsRead
    <3> QED BY <3>1, <3>5
  <2>3. N - m \in Nat
    BY <1>1
  <2> HIDE DEF S
  <2> QED BY <2>1, <2>2, <2>3, Induct
<1>4. n - m \in 0..(N - m) /\ m + (n - m) = n
  BY <1>1
<1> QED BY <1>3, <1>4

(* The tokens of n bytes, the next byte and the tokens in the end.              *)
Leads(a, b, t) ==
  LET k == Len(a)
  IN /\ k <= Len(t) /\ \A i \in 1..(k - 1) : a[i] = t[i]
     /\ Begins(a[k], t[k])
     /\ b = SEP => Len(t) > k /\ t[k] = a[k]
     /\ b # SEP => Len(t[k]) > Len(a[k]) /\ t[k][Len(a[k]) + 1] = b

LEMMA NextByte ==
  ASSUME NEW s \in Seq(Byte), NEW f, Splits(f, s), NEW n \in 1..Len(s)
  PROVE  Leads(f[n - 1], s[n], f[Len(s)])
<1>1. PICK N \in Nat : N = Len(s) /\ \A i \in 1..N : s[i] \in Byte
  BY LenProperties, ElementOfSeq
<1>2. n - 1 \in 0..N /\ n \in 0..N /\ N \in 0..N
  BY <1>1
<1>3. PICK a \in Path, t \in Path, r \in Path :
         a = f[n - 1] /\ t = f[N] /\ r = f[n] /\ r = Read(a, s[n])
  BY <1>1, <1>2 DEF Splits
<1>4. Grows(a, t) /\ Grows(r, t)
  <2>1. N \in (n - 1)..Len(s) /\ N \in n..Len(s)
    BY <1>1
  <2>2. n - 1 \in 0..Len(s) /\ n \in 0..Len(s)
    BY <1>1
  <2>3. Grows(f[n - 1], f[N])
    BY <2>1, <2>2, SplitGrows
  <2>4. Grows(f[n], f[N])
    BY <2>1, <2>2, SplitGrows
  <2> QED BY <1>3, <2>3, <2>4
<1>5. PICK k \in Nat \ {0}, m \in Nat : k = Len(a) /\ m = Len(t) /\ a[k] \in Token
  BY PathIs
<1>6. PICK b \in Byte : b = s[n]
  BY <1>1
<1>7. CASE b = SEP
  <2>0. r = Read(a, b)
    BY <1>3, <1>6
  <2>1. Len(r) = k + 1 /\ \A i \in 1..k : r[i] = a[i]
    BY <1>5, <1>7, <2>0, ReadIs
  <2>2. k + 1 <= m /\ \A i \in 1..k : r[i] = t[i]
    BY <1>4, <1>5, <2>1 DEF Grows
  <2>3. t[k] = a[k] /\ m > k
    BY <1>5, <2>1, <2>2
  <2> QED BY <1>1, <1>3, <1>4, <1>5, <1>6, <1>7, <2>3 DEF Leads, Grows
<1>8. CASE b # SEP
  <2>0. r = Read(a, b)
    BY <1>3, <1>6
  <2>1. Len(r) = k /\ r[k] = Append(a[k], b)
    BY <1>5, <1>8, <2>0, ReadIs
  <2>2. PICK u \in Token : u = a[k]
    BY <1>5
  <2>3. Len(u) \in Nat /\ Len(r[k]) = Len(u) + 1 /\ r[k][Len(u) + 1] = b
    BY <2>1, <2>2, TokenIs
  <2>4. PICK w \in Token : w = t[k]
    <3>1. k <= m
      BY <1>4, <1>5 DEF Grows
    <3> QED BY <1>5, <3>1, PathIs
  <2>5. Len(w) \in Nat /\ Begins(r[k], w)
    BY <1>4, <2>1, <2>4, LenProperties DEF Grows, Token
  <2>6. Len(w) > Len(u) /\ w[Len(u) + 1] = b
    BY <2>3, <2>5 DEF Begins
  <2> QED BY <1>1, <1>3, <1>4, <1>5, <1>6, <1>8, <2>2, <2>4, <2>6 DEF Leads, Grows
<1> QED BY <1>7, <1>8

LEMMA ReadSep ==
  ASSUME NEW a \in Path, NEW x \in Byte, x = SEP
  PROVE  \E r \in Path : /\ r = Read(a, x) /\ Len(r) = Len(a) + 1 /\ r[Len(a) + 1] = <<>>
                         /\ \A i \in 1..Len(a) : r[i] = a[i]
<1>1. /\ Read(a, x) \in Path /\ Len(Read(a, x)) = Len(a) + 1 /\ Read(a, x)[Len(a) + 1] = <<>>
      /\ \A i \in 1..Len(a) : Read(a, x)[i] = a[i]
  BY ReadIs
<1> QED BY <1>1

LEMMA ReadByte ==
  ASSUME NEW a \in Path, NEW x \in Byte, x # SEP
  PROVE  \E r \in Path : /\ r = Read(a, x) /\ Len(r) = Len(a) /\ r[Len(a)] = Append(a[Len(a)], x)
                         /\ \A i \in 1..(Len(a) - 1) : r[i] = a[i]
<1>1. /\ Read(a, x) \in Path /\ Len(Read(a, x)) = Len(a)
      /\ Read(a, x)[Len(a)] = Append(a[Len(a)], x)
      /\ \A i \in 1..(Len(a) - 1) : Read(a, x)[i] = a[i]
  BY ReadIs
<1> QED BY <1>1

(* A byte that is no wildcard follows no wildcard, and one that is stands alone. *)
LEMMA Wildless ==
  ASSUME NEW a \in Path, NEW t \in Path, Proper1(t), NEW x \in Byte, Leads(a, x, t), x # SEP
  PROVE  /\ a[Len(a)] # <<PWC>> /\ a[Len(a)] # <<FWC>>
         /\ x \in {PWC, FWC} => a[Len(a)] = <<>> /\ t[Len(a)] = <<x>>
<1>1. PICK k \in Nat \ {0} : k = Len(a) /\ a[k] \in Token
  BY PathIs
<1>2. k \in 1..Len(t) /\ t[k] \in Token
  <2>1. Len(t) \in Nat /\ k <= Len(t)
    BY <1>1, PathIs DEF Leads
  <2>2. k \in 1..Len(t)
    BY <1>1, <2>1
  <2> QED BY <2>2, PathIs
<1>3. PICK u \in Token, w \in Token : u = a[k] /\ w = t[k]
  BY <1>1, <1>2
<1>4. Len(u) \in Nat /\ Len(w) \in Nat
  BY LenProperties DEF Token
<1>5. Len(w) > Len(u) /\ w[Len(u) + 1] = x /\ \A i \in 1..Len(u) : u[i] = w[i]
  BY <1>1, <1>3 DEF Leads, Begins
<1>6. \A b \in 1..Len(w) : w[b] \in {PWC, FWC} => Len(w) = 1
  BY <1>2, <1>3 DEF Proper1
<1>7. ASSUME NEW y \in Byte, y \in {PWC, FWC} PROVE u # <<y>>
  <2> SUFFICES ASSUME u = <<y>> PROVE FALSE
    OBVIOUS
  <2>1. Len(u) = 1 /\ u[1] = y
    BY Single
  <2>2. 1 \in 1..Len(w) /\ w[1] = y
    BY <1>4, <1>5, <2>1
  <2> QED BY <1>4, <1>5, <1>6, <1>7, <2>1, <2>2
<1>8. ASSUME x \in {PWC, FWC} PROVE u = <<>> /\ w = <<x>>
  <2>1. Len(u) + 1 \in 1..Len(w)
    BY <1>4, <1>5
  <2>2. Len(w) = 1
    BY <1>5, <1>6, <1>8, <2>1
  <2>3. Len(u) = 0 /\ w[1] = x
    BY <1>4, <1>5, <2>2
  <2>4. u = <<>>
    BY <2>3, EmptySeq DEF Token
  <2>5. <<x>> \in Seq(Byte) /\ Len(<<x>>) = 1 /\ <<x>>[1] = x
    BY Single
  <2>6. w = <<x>>
    BY <2>2, <2>3, <2>5, SeqEqual DEF Token
  <2> QED BY <2>4, <2>6
<1> QED BY <1>1, <1>3, <1>7, <1>8, Wild

(* Nothing is decided yet: the tokens read of the subject, a, match those read  *)
(* of the literal, b; after a wildcard its token has been read to the end.      *)
Alive(a, b, ends) ==
  /\ Len(a) = Len(b) /\ \A i \in 1..(Len(a) - 1) : a[i] \in {b[i], <<PWC>>}
  /\ a[Len(a)] # <<FWC>>
  /\ a[Len(a)] = <<PWC>> => ends
  /\ a[Len(a)] # <<PWC>> => a[Len(a)] = b[Len(a)]

(* The literal is at its end and a byte follows in the subject.                 *)
LEMMA Past ==
  ASSUME NEW a \in Path, NEW t \in Path, NEW L \in Path, Proper1(t), NEW x \in Byte,
         Leads(a, x, t), Alive(a, L, TRUE), \A i \in 1..Len(L) : Plain(L[i])
  PROVE  ~Match(L, t)
<1> SUFFICES ASSUME Match(L, t) PROVE FALSE
  OBVIOUS
<1>1. PICK k \in Nat \ {0} : k = Len(a) /\ k = Len(L) /\ a[k] \in Token
  BY PathIs DEF Alive
<1>2. Len(t) \in Nat /\ k <= Len(t) /\ k \in 1..Len(t) /\ k \in 1..Len(L)
  <2>1. Len(t) \in Nat /\ k <= Len(t)
    BY <1>1, PathIs DEF Leads
  <2> QED BY <1>1, <2>1
<1>3. PICK u \in Token, w \in Token : u = a[k] /\ w = t[k]
  BY <1>1, <1>2, PathIs
<1>4. CASE x = SEP
  <2>1. Len(t) > k
    BY <1>1, <1>4 DEF Leads
  <2>2. Len(t) \in 1..Len(t) /\ ~(Len(t) <= Len(L))
    BY <1>1, <1>2, <2>1
  <2> QED BY <2>2 DEF Match
<1>5. CASE x # SEP
  <2>1. u # <<PWC>> /\ Len(w) > Len(u)
    BY <1>1, <1>3, <1>5, Wildless DEF Leads
  <2>2. u = L[k] /\ Plain(u)
    BY <1>1, <1>2, <1>3, <2>1 DEF Alive
  <2>3. Len(u) \in Nat \ {0} /\ Len(w) \in Nat
    BY <2>2, EmptySeq, LenProperties DEF Plain, Token
  <2>4. Len(<<PWC>>) = 1 /\ Len(<<FWC>>) = 1
    OBVIOUS
  <2>5. Len(w) # 1 /\ w # u
    <3>1. PICK n \in Nat \ {0}, m \in Nat : n = Len(u) /\ m = Len(w) /\ m > n
      BY <2>1, <2>3
    <3>2. m # 1 /\ m # n
      BY <3>1
    <3> QED BY <3>1, <3>2
  <2>6. w # <<PWC>> /\ w # <<FWC>>
    BY <2>4, <2>5
  <2> QED BY <1>2, <1>3, <2>2, <2>5, <2>6 DEF Match
<1> QED BY <1>4, <1>5

(* A '*' takes the rest of the literal's token.                                 *)
LEMMA TakeToken ==
  ASSUME NEW a \in Path, NEW t \in Path, Proper1(t), Leads(a, PWC, t),
         NEW b \in Path, NEW ends, Alive(a, b, ends),
         NEW c \in Path, Len(c) = Len(b), \A i \in 1..(Len(b) - 1) : c[i] = b[i]
  PROVE  Alive(Read(a, PWC), c, TRUE)
<1>1. PICK k \in Nat \ {0} : k = Len(a) /\ k = Len(b) /\ k = Len(c)
  BY PathIs DEF Alive
<1>2. a[k] = <<>>
  BY <1>1, Wild, Wildless
<1>3. PICK r \in Path : r = Read(a, PWC) /\ Len(r) = k /\ r[k] = Append(a[k], PWC)
                        /\ \A i \in 1..(k - 1) : r[i] = a[i]
  <2>1. PWC \in Byte /\ PWC # SEP
    BY Wild
  <2>2. \E r \in Path : /\ r = Read(a, PWC) /\ Len(r) = Len(a) /\ r[Len(a)] = Append(a[Len(a)], PWC)
                       /\ \A i \in 1..(Len(a) - 1) : r[i] = a[i]
    BY <2>1, ReadByte
  <2> QED BY <1>1, <2>2
<1>4. r[k] = <<PWC>>
  BY <1>2, <1>3
<1> QED BY <1>1, <1>3, <1>4, Wild DEF Alive

(* A '>' takes all that is left.                                                *)
LEMMA TakeRest ==
  ASSUME NEW a \in Path, NEW t \in Path, Proper1(t), Leads(a, FWC, t),
         NEW b \in Path, NEW ends, Alive(a, b, ends), NEW L \in Path, Grows(b, L)
  PROVE  Match(L, t)
<1>1. PICK k \in Nat \ {0} : k = Len(a) /\ k = Len(b) /\ k <= Len(L) /\ k <= Len(t) /\ k \in 1..Len(t)
  <2>1. PICK k \in Nat \ {0} : k = Len(a) /\ k = Len(b) /\ k <= Len(L) /\ k <= Len(t)
    BY PathIs DEF Alive, Grows, Leads
  <2>2. Len(t) \in Nat
    BY PathIs
  <2> QED BY <2>1, <2>2
<1>2. t[k] = <<FWC>>
  <2>1. t[Len(a)] = <<FWC>>
    BY Wild, Wildless
  <2> QED BY <1>1, <2>1
<1>3. k = Len(t)
  BY <1>1, <1>2 DEF Proper1
<1>4. \A i \in 1..(k - 1) : t[i] \in {L[i], <<PWC>>}
  BY <1>1 DEF Alive, Leads, Grows
<1>5. Len(L) \in Nat
  BY PathIs
<1>6. ASSUME NEW i \in 1..Len(t) PROVE i <= Len(L) /\ t[i] \in {L[i], <<PWC>>, <<FWC>>}
  <2>1. CASE i = k
    BY <1>1, <1>2, <2>1
  <2>2. CASE i # k
    <3>1. i \in 1..(k - 1)
      BY <1>3, <2>2
    <3> QED BY <1>1, <1>4, <1>5, <3>1
  <2> QED BY <2>1, <2>2
<1> QED BY <1>2, <1>3, <1>6 DEF Match

(* The same byte follows in both.                                               *)
LEMMA TakeByte ==
  ASSUME NEW a \in Path, NEW t \in Path, Proper1(t), NEW x \in Byte, x # PWC, x # FWC,
         Leads(a, x, t), NEW b \in Path, Alive(a, b, x = SEP), NEW ends
  PROVE  Alive(Read(a, x), Read(b, x), ends)
<1>1. PICK k \in Nat \ {0} : k = Len(a) /\ k = Len(b)
  BY PathIs DEF Alive
<1>2. CASE x = SEP
  <2>1. PICK r \in Path : r = Read(a, x) /\ Len(r) = k + 1 /\ r[k + 1] = <<>>
                          /\ \A i \in 1..k : r[i] = a[i]
    <3>1. \E r \in Path : /\ r = Read(a, x) /\ Len(r) = Len(a) + 1 /\ r[Len(a) + 1] = <<>>
                         /\ \A i \in 1..Len(a) : r[i] = a[i]
      BY <1>2, ReadSep
    <3> QED BY <1>1, <3>1
  <2>2. PICK q \in Path : q = Read(b, x) /\ Len(q) = k + 1 /\ q[k + 1] = <<>>
                          /\ \A i \in 1..k : q[i] = b[i]
    <3>1. \E q \in Path : /\ q = Read(b, x) /\ Len(q) = Len(b) + 1 /\ q[Len(b) + 1] = <<>>
                         /\ \A i \in 1..Len(b) : q[i] = b[i]
      BY <1>2, ReadSep
    <3> QED BY <1>1, <3>1
  <2>3. ASSUME NEW i \in 1..k PROVE r[i] \in {q[i], <<PWC>>}
    <3>1. i = k \/ i \in 1..(k - 1)
      BY <1>1
    <3>2. a[i] \in {b[i], <<PWC>>}
      BY <1>1, <3>1 DEF Alive
    <3> QED BY <2>1, <2>2, <3>2
  <2>4. (k + 1) - 1 = k
    OBVIOUS
  <2> QED BY <2>1, <2>2, <2>3, <2>4, Wild DEF Alive
<1>3. CASE x # SEP
  <2>1. PICK r \in Path : r = Read(a, x) /\ Len(r) = k /\ r[k] = Append(a[k], x)
                          /\ \A i \in 1..(k - 1) : r[i] = a[i]
    <3>1. \E r \in Path : /\ r = Read(a, x) /\ Len(r) = Len(a) /\ r[Len(a)] = Append(a[Len(a)], x)
                         /\ \A i \in 1..(Len(a) - 1) : r[i] = a[i]
      BY <1>3, ReadByte
    <3> QED BY <1>1, <3>1
  <2>2. PICK q \in Path : q = Read(b, x) /\ Len(q) = k /\ q[k] = Append(b[k], x)
                          /\ \A i \in 1..(k - 1) : q[i] = b[i]
    <3>1. \E q \in Path : /\ q = Read(b, x) /\ Len(q) = Len(b) /\ q[Len(b)] = Append(b[Len(b)], x)
                         /\ \A i \in 1..(Len(b) - 1) : q[i] = b[i]
      BY <1>3, ReadByte
    <3> QED BY <1>1, <3>1
  <2>3. a[k] # <<PWC>> /\ a[k] = b[k]
    BY <1>1, <1>3, Wildless DEF Alive
  <2>4. PICK u \in Token : u = a[k]
    <3>1. k \in 1..Len(a)
      BY <1>1
    <3> QED BY <1>1, <3>1, PathIs
  <2>5. PICK w \in Token : w = r[k] /\ Len(w) = Len(u) + 1 /\ w[Len(u) + 1] = x /\ Len(u) \in Nat
    BY ZenonT(30), <2>1, <2>4, TokenIs
  <2>6. ASSUME NEW y \in Byte, y # x PROVE w # <<y>>
    <3>1. Len(<<y>>) = 1 /\ <<y>>[1] = y
      BY Single
    <3> QED BY <2>5, <2>6, <3>1
  <2>7. r[k] # <<PWC>> /\ r[k] # <<FWC>>
    BY <2>5, <2>6, Wild
  <2>8. r[k] = q[k] /\ \A i \in 1..(k - 1) : r[i] \in {q[i], <<PWC>>}
    BY <1>1, <2>1, <2>2, <2>3 DEF Alive
  <2> QED BY <2>1, <2>2, <2>7, <2>8 DEF Alive
<1> QED BY <1>2, <1>3

(* Another byte than the literal's follows in the subject.                      *)
LEMMA OtherByte ==
  ASSUME NEW a \in Path, NEW t \in Path, Proper1(t), NEW x \in Byte, x # PWC, x # FWC,
         Leads(a, x, t), NEW b \in Path, NEW L \in Path, NEW y \in Byte, y # x,
         Leads(b, y, L), Alive(a, b, y = SEP)
  PROVE  ~Match(L, t)
<1> SUFFICES ASSUME Match(L, t) PROVE FALSE
  OBVIOUS
<1>1. PICK k \in Nat \ {0} : k = Len(a) /\ k = Len(b) /\ k <= Len(t) /\ k <= Len(L)
  <2>1. Len(a) \in Nat \ {0} /\ Len(a) = Len(b) /\ Len(a) <= Len(t) /\ Len(b) <= Len(L)
    BY PathIs DEF Alive, Leads
  <2> QED BY <2>1
<1>2. k \in 1..Len(t) /\ k \in 1..Len(L) /\ k \in 1..Len(a)
  <2>1. Len(t) \in Nat /\ Len(L) \in Nat
    BY PathIs
  <2> QED BY <1>1, <2>1
<1>3. PICK u \in Token, w \in Token, z \in Token : u = a[k] /\ w = t[k] /\ z = L[k]
  BY <1>2, PathIs
<1>4. Len(u) \in Nat /\ Len(w) \in Nat /\ Len(z) \in Nat
  BY LenProperties DEF Token
<1>5. u # <<FWC>> /\ (u = <<PWC>> => y = SEP) /\ (u # <<PWC>> => u = b[k])
  BY <1>1, <1>3 DEF Alive
<1>6. w \in {z, <<PWC>>, <<FWC>>}
  BY <1>2, <1>3 DEF Match
<1>7. CASE x = SEP
  <2>1. w = u /\ u = b[k] /\ u # <<PWC>>
    BY <1>1, <1>3, <1>5, <1>7 DEF Leads
  <2>2. Len(z) > Len(u)
    BY <1>1, <1>3, <1>7, <2>1 DEF Leads
  <2>3. w = z
    BY <1>5, <1>6, <2>1
  <2> QED BY <1>4, <2>1, <2>2, <2>3
<1>8. CASE x # SEP
  <2>1. u # <<PWC>>
    BY <1>1, <1>3, <1>8, Wildless
  <2>2. Len(w) > Len(u) /\ w[Len(u) + 1] = x
    BY <1>1, <1>3, <1>8 DEF Leads
  <2>3. w = z
    <3>1. ASSUME NEW c \in Byte, c \in {PWC, FWC}, w = <<c>> PROVE FALSE
      <4>1. Len(w) = 1 /\ w[1] = c
        BY <3>1, Single
      <4>2. Len(u) = 0
        BY <1>4, <2>2, <4>1
      <4>3. w[1] = x
        BY <2>2, <4>2
      <4> QED BY <3>1, <4>1, <4>3
    <3> QED BY <1>6, <3>1, Wild
  <2>4. CASE y = SEP
    <3>1. z = u
      BY <1>1, <1>3, <1>5, <2>1, <2>4 DEF Leads
    <3> QED BY <1>4, <2>2, <2>3, <3>1
  <2>5. CASE y # SEP
    <3>1. b[k] = u
      BY <1>5, <2>1
    <3>2. z[Len(u) + 1] = y
      BY <1>1, <1>3, <2>5, <3>1 DEF Leads
    <3> QED BY <2>2, <2>3, <3>2
  <2> QED BY <2>4, <2>5
<1> QED BY <1>7, <1>8

(* The subject is at its end and a byte follows in the literal.                 *)
LEMMA Short ==
  ASSUME NEW t \in Path, NEW b \in Path, NEW L \in Path, NEW y \in Byte, Leads(b, y, L),
         Alive(t, b, y = SEP)
  PROVE  ~Match(L, t)
<1> SUFFICES ASSUME Match(L, t) PROVE FALSE
  OBVIOUS
<1>1. PICK k \in Nat \ {0} : k = Len(t) /\ k = Len(b) /\ k <= Len(L)
  <2>1. Len(t) \in Nat \ {0} /\ Len(t) = Len(b) /\ Len(b) <= Len(L)
    BY PathIs DEF Alive, Leads
  <2> QED BY <2>1
<1>2. k \in 1..Len(t) /\ k \in 1..Len(L) /\ Len(L) \in Nat
  BY <1>1, PathIs
<1>3. t[k] # <<FWC>> /\ (t[k] = <<PWC>> => y = SEP) /\ (t[k] # <<PWC>> => t[k] = b[k])
  BY <1>1 DEF Alive
<1>4. Len(L) <= k
  BY <1>1, <1>2, <1>3 DEF Match
<1>5. CASE y = SEP
  BY <1>1, <1>2, <1>4, <1>5 DEF Leads
<1>6. CASE y # SEP
  <2>1. t[k] = b[k] /\ t[k] # <<PWC>>
    BY <1>3, <1>6
  <2>2. t[k] = L[k]
    BY <1>2, <1>3, <2>1 DEF Match
  <2>3. Len(L[k]) > Len(b[k])
    BY <1>1, <1>6 DEF Leads
  <2>4. L[k] \in Token
    BY <1>2, PathIs
  <2>5. Len(L[k]) \in Nat
    BY <2>4, LenProperties DEF Token
  <2> QED BY <2>1, <2>2, <2>3, <2>5
<1> QED BY <1>5, <1>6

(* Both are at their ends.                                                      *)
LEMMA BothEnd ==
  ASSUME NEW t \in Path, NEW L \in Path, Alive(t, L, TRUE)
  PROVE  Match(L, t)
<1>1. PICK k \in Nat \ {0} : k = Len(t) /\ k = Len(L)
  BY PathIs DEF Alive
<1>2. ASSUME NEW i \in 1..k PROVE t[i] \in {L[i], <<PWC>>, <<FWC>>}
  <2>1. i = k \/ i \in 1..(k - 1)
    BY <1>1
  <2> QED BY <1>1, <2>1 DEF Alive
<1> QED BY <1>1, <1>2 DEF Match

(* The end of the token of the literal that li is in.                           *)
Skip(literal, li) ==
  Min({j \in li..(Len(literal) + 1) : j > Len(literal) \/ literal[j] = SEP})

LEMMA SkipIs ==
  ASSUME NEW s \in Seq(Byte), NEW f, Splits(f, s), NEW v \in 1..Len(s)
  PROVE  /\ Skip(s, v) \in v..(Len(s) + 1)
         /\ Skip(s, v) > Len(s) \/ s[Skip(s, v)] = SEP
         /\ Len(f[Skip(s, v) - 1]) = Len(f[v - 1])
         /\ \A i \in 1..(Len(f[v - 1]) - 1) : f[Skip(s, v) - 1][i] = f[v - 1][i]
<1>1. PICK N \in Nat : N = Len(s) /\ v \in 1..N /\ \A i \in 1..N : s[i] \in Byte
  BY LenProperties, ElementOfSeq
<1> DEFINE S == {j \in v..(N + 1) : j > N \/ s[j] = SEP}
<1>2. /\ Min(S) \in S /\ \A y \in S : Min(S) <= y
  <2>1. S \in SUBSET Nat
    BY <1>1
  <2>2. N + 1 \in S
    BY <1>1
  <2> QED BY <2>1, <2>2, MinIs
<1>3. PICK w \in S : w = Skip(s, v) /\ \A y \in S : w <= y
  BY <1>1, <1>2 DEF Skip
<1>4. w \in v..(N + 1) /\ (w > N \/ s[w] = SEP)
  OBVIOUS
<1>5. \A j \in v..(w - 1) : s[j] # SEP /\ j \in 1..N
  <2>1. ASSUME NEW j \in v..(w - 1) PROVE j \in 1..N /\ j \in v..(N + 1) /\ ~(w <= j)
    BY <1>1, <1>4
  <2> QED BY <1>3, <2>1
<1>6. \A i \in 0..N : f[i] \in Path
  BY <1>1 DEF Splits
<1>7. PICK a \in Path, k \in Nat \ {0} : a = f[v - 1] /\ k = Len(a)
  <2>1. v - 1 \in 0..N
    BY <1>1
  <2> QED BY <1>6, <2>1, PathIs
<1> DEFINE Same(r) == Len(r) = k /\ \A i \in 1..(k - 1) : r[i] = a[i]
           G == {d \in 0..(w - v) : Same(f[v - 1 + d])}
<1> HIDE DEF S
<1>8. 0..(w - v) \subseteq G
  <2>1. 0 \in G
    <3>1. v - 1 + 0 = v - 1 /\ 0 \in 0..(w - v)
      BY <1>1, <1>4
    <3> QED BY <1>7, <3>1
  <2>2. ASSUME NEW d \in 1..(w - v), d - 1 \in G PROVE d \in G
    <3>1. PICK j \in v..(w - 1) : j = v - 1 + d /\ j - 1 = v - 1 + (d - 1)
      BY <1>1, <1>4
    <3>2. j \in 1..N /\ j - 1 \in 0..N /\ s[j] # SEP
      BY <1>1, <1>5, <3>1
    <3>3. PICK c \in Path, x \in Byte : c = f[j - 1] /\ x = s[j] /\ x # SEP /\ Same(c)
      BY <1>1, <1>6, <2>2, <3>1, <3>2
    <3>4. f[j] = Read(c, x)
      BY <1>1, <3>2, <3>3 DEF Splits
    <3>5. \E r \in Path : /\ r = Read(c, x) /\ Len(r) = Len(c) /\ r[Len(c)] = Append(c[Len(c)], x)
                         /\ \A i \in 1..(Len(c) - 1) : r[i] = c[i]
      BY <3>3, ReadByte
    <3>6. Same(f[j])
      BY <3>3, <3>4, <3>5
    <3> QED BY <3>1, <3>6
  <2>3. w - v \in Nat
    BY <1>1, <1>4
  <2> HIDE DEF G
  <2> QED BY <2>1, <2>2, <2>3, Induct
<1>9. w - v \in 0..(w - v) /\ v - 1 + (w - v) = w - 1
  BY <1>1, <1>4
<1>10. Same(f[w - 1])
  BY <1>8, <1>9
<1> QED BY <1>1, <1>3, <1>4, <1>7, <1>10

(* What one byte of the subject does to the place reached in the literal.       *)
Step(literal, li, b) ==
  IF li = -1 THEN -1
  ELSE IF li = 0 \/ li > Len(literal) THEN 0
  ELSE IF b = PWC THEN Skip(literal, li)
  ELSE IF b = FWC THEN -1
  ELSE IF b = literal[li] THEN li + 1 ELSE 0

Places(literal) == (-1)..(Len(literal) + 1)

LEMMA StepType ==
  ASSUME NEW l \in Seq(Byte), NEW v \in Places(l), NEW b
  PROVE  Step(l, v, b) \in Places(l)
<1>1. PICK N \in Nat : N = Len(l)
  BY LenProperties
<1>2. CASE v \in 1..N
  <2>1. PICK f : Splits(f, l)
    BY SplitIs
  <2>2. Skip(l, v) \in v..(Len(l) + 1)
    BY <1>1, <1>2, <2>1, SkipIs
  <2>3. Skip(l, v) \in (-1)..(N + 1)
    BY <1>1, <1>2, <2>2
  <2>4. -1 \in (-1)..(N + 1) /\ 0 \in (-1)..(N + 1) /\ v + 1 \in (-1)..(N + 1)
    BY <1>2
  <2> QED BY <1>1, <2>3, <2>4 DEF Step, Places
<1>3. CASE v \notin 1..N
  <2>1. v = -1 \/ v = 0 \/ v > N
    BY <1>1, <1>3 DEF Places
  <2>2. -1 \in (-1)..(N + 1) /\ 0 \in (-1)..(N + 1)
    OBVIOUS
  <2> QED BY <1>1, <2>1, <2>2 DEF Step, Places
<1> QED BY <1>2, <1>3

Runs(f, l, s) ==
  /\ f \in [0..Len(s) -> Places(l)] /\ f[0] = 1
  /\ \A n \in 1..Len(s) : f[n] = Step(l, f[n - 1], s[n])

LEMMA RunIs ==
  ASSUME NEW l \in Seq(Byte), NEW s \in Seq(Byte)
  PROVE  \E f : Runs(f, l, s) /\ (matchLiteral(l, s) <=> f[Len(s)] \in {-1, Len(l) + 1})
<1>1. PICK N \in Nat : N = Len(s) /\ \A n \in 1..N : s[n] \in Byte
  BY LenProperties, ElementOfSeq
<1> DEFINE Eq(f) == f = [n \in 0..N |->
                           IF n = 0 THEN 1
                           ELSE LET li == f[n - 1]
                                    b == s[n]
                                IN IF li = -1 THEN -1
                                   ELSE IF li = 0 \/ li > Len(l) THEN 0
                                   ELSE IF b = PWC THEN Min({j \in li..(Len(l) + 1) : j > Len(l) \/ l[j] = SEP})
                                   ELSE IF b = FWC THEN -1
                                   ELSE IF b = l[li] THEN li + 1 ELSE 0]
           st == [n \in 1..N |-> [v \in Places(l) |-> Step(l, v, s[n])]]
<1>2. 1 \in Places(l)
  <2>1. Len(l) \in Nat
    BY LenProperties
  <2> QED BY <2>1 DEF Places
<1>3. \A n \in 1..N, v \in Places(l) : Step(l, v, s[n]) \in Places(l)
  BY StepType
<1>4. PICK g \in [0..N -> Places(l)] : g[0] = 1 /\ \A n \in 1..N : g[n] = Step(l, g[n - 1], s[n])
  <2>1. st \in [1..N -> [Places(l) -> Places(l)]]
    BY <1>3
  <2>2. \A n \in 1..N, v \in Places(l) : st[n][v] = Step(l, v, s[n])
    OBVIOUS
  <2> HIDE DEF st
  <2>3. PICK g \in [0..N -> Places(l)] : IsSolution(g, N, 1, st)
    BY <1>2, <2>1, Solution
  <2>4. \A n \in 1..N : g[n - 1] \in Places(l)
    BY <2>3
  <2> QED BY <2>2, <2>3, <2>4 DEF IsSolution
<1>5. Eq(g)
  <2>1. g = [n \in 0..N |-> g[n]]
    OBVIOUS
  <2>2. \A n \in 0..N : g[n] = IF n = 0 THEN 1
                           ELSE LET li == g[n - 1]
                                    b == s[n]
                                IN IF li = -1 THEN -1
                                   ELSE IF li = 0 \/ li > Len(l) THEN 0
                                   ELSE IF b = PWC THEN Min({j \in li..(Len(l) + 1) : j > Len(l) \/ l[j] = SEP})
                                   ELSE IF b = FWC THEN -1
                                   ELSE IF b = l[li] THEN li + 1 ELSE 0
    <3>1. \A n \in 0..N : n = 0 \/ n \in 1..N
      OBVIOUS
    <3> QED BY <1>4, <3>1 DEF Step, Skip
  <2> QED BY <2>1, <2>2
<1>6. PICK f : f = CHOOSE x : Eq(x)
  OBVIOUS
<1>7. Eq(f)
  <2> HIDE DEF Eq
  <2> QED BY <1>5, <1>6
<1>8. matchLiteral(l, s) <=> f[N] \in {-1, Len(l) + 1}
  BY <1>1, <1>6 DEF matchLiteral
<1>9. f[0] = 1 /\ \A n \in 1..N : f[n] = Step(l, f[n - 1], s[n])
  <2>1. \A n \in 0..N : f[n] = IF n = 0 THEN 1
                           ELSE LET li == f[n - 1]
                                    b == s[n]
                                IN IF li = -1 THEN -1
                                   ELSE IF li = 0 \/ li > Len(l) THEN 0
                                   ELSE IF b = PWC THEN Min({j \in li..(Len(l) + 1) : j > Len(l) \/ l[j] = SEP})
                                   ELSE IF b = FWC THEN -1
                                   ELSE IF b = l[li] THEN li + 1 ELSE 0
    BY <1>7
  <2>2. 0 \in 0..N /\ \A n \in 1..N : n \in 0..N /\ n # 0
    OBVIOUS
  <2> HIDE DEF Eq
  <2> QED BY <2>1, <2>2 DEF Step, Skip
<1>10. \A n \in 0..N : f[n] \in Places(l)
  <2> HIDE DEF Eq
  <2>1. \A n \in 1..N : f[n - 1] \in Places(l) => f[n] \in Places(l)
    BY <1>3, <1>9
  <2>2. f[0] \in Places(l)
    BY <1>2, <1>9
  <2> QED BY <2>1, <2>2, SolutionType
<1>11. f \in [0..N -> Places(l)]
  <2>1. f = [n \in 0..N |-> f[n]]
    BY <1>7
  <2> HIDE DEF Eq
  <2> QED BY <1>10, <2>1
<1> HIDE DEF Eq
<1> QED BY <1>1, <1>8, <1>9, <1>11 DEF Runs

(* What a place says of the literal and the subject, whose tokens up to it are  *)
(* a and b and whose tokens in the end are t and L.                             *)
Tells(v, l, fl, a, t, L) ==
  /\ v = -1 => Match(L, t)
  /\ v = 0 => ~Match(L, t)
  /\ v \in 1..(Len(l) + 1) => Alive(a, fl[v - 1], v > Len(l) \/ l[v] = SEP)

LEMMA TellsNext ==
  ASSUME NEW l \in Seq(Byte), NEW fl, Splits(fl, l), NEW L \in Path, L = fl[Len(l)],
         \A i \in 1..Len(L) : Plain(L[i]),
         NEW t \in Path, Proper1(t), NEW a \in Path, NEW x \in Byte, Leads(a, x, t),
         NEW v \in Places(l), Tells(v, l, fl, a, t, L)
  PROVE  Tells(Step(l, v, x), l, fl, Read(a, x), t, L)
<1>1. PICK N \in Nat : N = Len(l) /\ \A i \in 1..N : l[i] \in Byte
  BY LenProperties, ElementOfSeq
<1>2. \A i \in 0..N : fl[i] \in Path
  BY <1>1 DEF Splits
<1>3. CASE v = -1
  BY <1>3 DEF Step, Tells
<1>4. CASE v = 0
  BY <1>4 DEF Step, Tells
<1>5. CASE v > N /\ v # 0 /\ v # -1
  <2>1. v = N + 1 /\ v \in 1..(N + 1) /\ v - 1 = N
    BY <1>1, <1>5 DEF Places
  <2>2. Alive(a, L, TRUE)
    BY <1>1, <1>5, <2>1 DEF Tells
  <2>3. ~Match(L, t)
    BY <2>2, Past
  <2>4. Step(l, v, x) = 0
    BY <1>1, <1>5 DEF Step
  <2> QED BY <2>3, <2>4 DEF Tells
<1>6. CASE v \in 1..N
  <2>1. PICK b \in Path, y \in Byte : b = fl[v - 1] /\ y = l[v]
    <3>1. v - 1 \in 0..N
      BY <1>1, <1>6
    <3> QED BY <1>1, <1>2, <1>6, <3>1
  <2>2. Alive(a, b, y = SEP)
    <3>1. v \in 1..(N + 1) /\ ~(v > N)
      BY <1>1, <1>6
    <3>2. Alive(a, fl[v - 1], v > Len(l) \/ l[v] = SEP)
      BY <1>1, <3>1 DEF Tells
    <3>3. (v > Len(l) \/ l[v] = SEP) <=> y = SEP
      BY <1>1, <2>1, <3>1
    <3> QED BY <2>1, <3>2, <3>3 DEF Alive
  <2>3. v # -1 /\ v # 0 /\ ~(v > Len(l))
    BY <1>1, <1>6
  <2>4. Leads(b, y, L)
    BY <1>1, <1>6, <2>1, NextByte
  <2>5. CASE x = PWC
    <3>1. PICK w \in v..(N + 1) : /\ w = Skip(l, v) /\ (w > N \/ l[w] = SEP)
                                  /\ Len(fl[w - 1]) = Len(b)
                                  /\ \A i \in 1..(Len(b) - 1) : fl[w - 1][i] = b[i]
      <4>1. v \in 1..Len(l)
        BY <1>1, <1>6
      <4>2. /\ Skip(l, v) \in v..(Len(l) + 1)
            /\ Skip(l, v) > Len(l) \/ l[Skip(l, v)] = SEP
            /\ Len(fl[Skip(l, v) - 1]) = Len(fl[v - 1])
            /\ \A i \in 1..(Len(fl[v - 1]) - 1) : fl[Skip(l, v) - 1][i] = fl[v - 1][i]
        BY <4>1, SkipIs
      <4>3. PICK w : w = Skip(l, v)
        OBVIOUS
      <4> QED BY <1>1, <2>1, <4>2, <4>3
    <3>2. w \in 1..(N + 1) /\ w - 1 \in 0..N /\ w # -1 /\ w # 0
      BY <1>1, <1>6
    <3>3. PICK c \in Path : c = fl[w - 1]
      BY <1>2, <3>2
    <3>4. Alive(Read(a, PWC), c, TRUE)
      BY <2>2, <2>5, <3>1, <3>3, TakeToken
    <3>5. Step(l, v, x) = w
      BY <2>3, <2>5, <3>1 DEF Step
    <3>6. Alive(Read(a, x), fl[w - 1], w > Len(l) \/ l[w] = SEP)
      BY <1>1, <2>5, <3>1, <3>3, <3>4 DEF Alive
    <3> QED BY <3>2, <3>5, <3>6 DEF Tells
  <2>6. CASE x = FWC
    <3>1. Grows(b, L)
      <4>1. v - 1 \in 0..Len(l) /\ Len(l) \in (v - 1)..Len(l)
        BY <1>1, <1>6
      <4>2. Grows(fl[v - 1], fl[Len(l)])
        BY <4>1, SplitGrows
      <4> QED BY <2>1, <4>2
    <3>2. Leads(a, FWC, t)
      BY <2>6
    <3>3. Match(L, t)
      BY <2>2, <3>1, <3>2, TakeRest
    <3>4. Step(l, v, x) = -1
      BY <2>3, <2>6, Wild DEF Step
    <3> QED BY <3>3, <3>4 DEF Tells
  <2>7. CASE x # PWC /\ x # FWC /\ x = y
    <3>1. v + 1 \in 1..(N + 1) /\ (v + 1) - 1 = v /\ v + 1 # -1 /\ v + 1 # 0
      BY <1>1, <1>6
    <3>2. fl[v] = Read(b, x)
      BY <1>1, <1>6, <2>1, <2>7 DEF Splits
    <3>3. Alive(a, b, x = SEP)
      BY <2>2, <2>7
    <3>4. Alive(Read(a, x), Read(b, x), v + 1 > Len(l) \/ l[v + 1] = SEP)
      BY <2>7, <3>3, TakeByte
    <3>5. Step(l, v, x) = v + 1
      BY <2>1, <2>3, <2>7 DEF Step
    <3> QED BY <3>1, <3>2, <3>4, <3>5 DEF Tells
  <2>8. CASE x # PWC /\ x # FWC /\ x # y
    <3>1. ~Match(L, t)
      BY <2>2, <2>4, <2>8, OtherByte
    <3>2. Step(l, v, x) = 0
      BY <2>1, <2>3, <2>8 DEF Step
    <3> QED BY <3>1, <3>2 DEF Tells
  <2> QED BY <2>5, <2>6, <2>7, <2>8
<1> QED BY <1>1, <1>3, <1>4, <1>5, <1>6 DEF Places

(* The cache's reading of a subject agrees with the tree's.                     *)
THEOREM MatchLiteralIs ==
  ASSUME NEW l \in Literals, IsValidLiteralSubject(l), NEW s \in Subjects, WellFormed(s)
  PROVE  matchLiteral(l, s) <=> Match(Tokens[l], Tokens[s])
<1>1. PICK fl : Splits(fl, l) /\ l \in Seq(Byte) /\ Tokens[l] = fl[Len(l)] /\ Tokens[l] \in Path
  BY TokensAre
<1>2. PICK fs : Splits(fs, s) /\ s \in Seq(Byte) /\ Tokens[s] = fs[Len(s)] /\ Tokens[s] \in Path
  BY TokensAre
<1>3. PICK L \in Path, t \in Path : L = Tokens[l] /\ t = Tokens[s] /\ L = fl[Len(l)] /\ t = fs[Len(s)]
  BY <1>1, <1>2
<1>4. Proper1(t)
  BY <1>3, WellFormedIs
<1>5. \A i \in 1..Len(L) : Plain(L[i])
  <2>1. DOMAIN L = 1..Len(L)
    BY PathIs
  <2> QED BY <1>3, <2>1 DEF IsValidLiteralSubject, ToSet, Plain
<1>6. PICK f : Runs(f, l, s) /\ (matchLiteral(l, s) <=> f[Len(s)] \in {-1, Len(l) + 1})
  BY <1>1, <1>2, RunIs
<1>7. PICK M \in Nat, N \in Nat : /\ M = Len(s) /\ N = Len(l)
                                  /\ \A i \in 1..M : s[i] \in Byte
                                  /\ \A i \in 1..N : l[i] \in Byte
  BY <1>1, <1>2, LenProperties, ElementOfSeq
<1>8. /\ \A i \in 0..M : fs[i] \in Path
      /\ \A i \in 0..N : fl[i] \in Path
      /\ \A i \in 0..M : f[i] \in Places(l)
  BY <1>1, <1>2, <1>6, <1>7 DEF Splits, Runs
<1> DEFINE S == {n \in 0..M : Tells(f[n], l, fl, fs[n], t, L)}
<1>9. 0..M \subseteq S
  <2>1. 0 \in S
    <3>1. f[0] = 1 /\ fs[0] = <<<<>>>> /\ fl[0] = <<<<>>>>
      BY <1>1, <1>2, <1>6 DEF Splits, Runs
    <3>2. PICK e \in Path : e = <<<<>>>>
      <4>1. 0 \in 0..M
        BY <1>7
      <4> QED BY <1>8, <3>1, <4>1
    <3>3. Len(e) = 1 /\ e[1] = <<>>
      BY <3>2
    <3>4. \A ends : Alive(e, e, ends)
      BY <3>3, Wild DEF Alive
    <3>5. 1 - 1 = 0
      OBVIOUS
    <3>6. Tells(1, l, fl, e, t, L)
      BY <3>1, <3>2, <3>4, <3>5 DEF Tells
    <3> QED BY <1>7, <3>1, <3>2, <3>6
  <2>2. ASSUME NEW n \in 1..M, n - 1 \in S PROVE n \in S
    <3>1. n - 1 \in 0..M /\ n \in 0..M
      BY <1>7
    <3>2. PICK a \in Path, x \in Byte, v \in Places(l) : a = fs[n - 1] /\ x = s[n] /\ v = f[n - 1]
      BY <1>7, <1>8, <3>1
    <3>3. Leads(a, x, t)
      BY <1>2, <1>3, <1>7, <3>2, NextByte
    <3>4. Tells(v, l, fl, a, t, L)
      BY <2>2, <3>2
    <3>5. Tells(Step(l, v, x), l, fl, Read(a, x), t, L)
      BY <1>1, <1>3, <1>4, <1>5, <3>3, <3>4, TellsNext
    <3>6. f[n] = Step(l, v, x) /\ fs[n] = Read(a, x)
      BY <1>2, <1>6, <1>7, <3>2 DEF Runs, Splits
    <3> QED BY <3>1, <3>5, <3>6
  <2> HIDE DEF S
  <2> QED BY <2>1, <2>2, Induct
<1>10. PICK v \in Places(l) : v = f[M] /\ Tells(v, l, fl, t, t, L)
  <2>1. M \in 0..M
    BY <1>7
  <2> QED BY <1>3, <1>7, <1>8, <1>9, <2>1
<1>11. CASE v = -1
  BY <1>3, <1>6, <1>7, <1>10, <1>11 DEF Tells
<1>12. CASE v = 0
  BY <1>3, <1>6, <1>7, <1>10, <1>12 DEF Tells
<1>13. CASE v = N + 1
  <2>1. v \in 1..(N + 1) /\ v - 1 = N /\ v > N
    BY <1>7, <1>13
  <2>2. Alive(t, L, TRUE)
    BY <1>3, <1>7, <1>10, <2>1 DEF Tells, Alive
  <2>3. Match(L, t)
    BY <2>2, BothEnd
  <2> QED BY <1>3, <1>6, <1>7, <1>10, <1>13, <2>3
<1>14. CASE v \in 1..N
  <2>1. v \in 1..(N + 1) /\ v - 1 \in 0..N /\ ~(v > N) /\ v # -1 /\ v # N + 1
    BY <1>7, <1>14
  <2>2. PICK b \in Path, y \in Byte : b = fl[v - 1] /\ y = l[v]
    BY <1>7, <1>8, <1>14, <2>1
  <2>3. Leads(b, y, L)
    BY <1>1, <1>3, <1>7, <1>14, <2>2, NextByte
  <2>4. Alive(t, b, y = SEP)
    BY <1>7, <1>10, <2>1, <2>2 DEF Tells, Alive
  <2>5. ~Match(L, t)
    BY <2>3, <2>4, Short
  <2> QED BY <1>3, <1>6, <1>7, <1>10, <2>1, <2>5
<1>15. v = -1 \/ v = 0 \/ v \in 1..N \/ v = N + 1
  BY <1>7 DEF Places
<1> QED BY <1>11, <1>12, <1>13, <1>14, <1>15

(* One token sequence is read from one subject only.                            *)
LEMMA SameByte ==
  ASSUME NEW a \in Path, NEW t \in Path, NEW x \in Byte, NEW y \in Byte,
         Leads(a, x, t), Leads(a, y, t)
  PROVE  x = y
<1>1. PICK k \in Nat \ {0} : k = Len(a) /\ k <= Len(t) /\ k \in 1..Len(t)
  <2>1. Len(a) \in Nat \ {0} /\ Len(t) \in Nat /\ Len(a) <= Len(t)
    BY PathIs DEF Leads
  <2> QED BY <2>1
<1>2. PICK w \in Token : w = t[k]
  BY <1>1, PathIs
<1>3. Len(w) \in Nat
  BY LenProperties DEF Token
<1>4. CASE x = SEP
  <2>1. w = a[k]
    BY <1>1, <1>2, <1>4 DEF Leads
  <2>2. y # SEP => Len(w) > Len(a[k])
    BY <1>1, <1>2 DEF Leads
  <2> QED BY <1>3, <1>4, <2>1, <2>2
<1>5. CASE y = SEP
  <2>1. w = a[k]
    BY <1>1, <1>2, <1>5 DEF Leads
  <2>2. x # SEP => Len(w) > Len(a[k])
    BY <1>1, <1>2 DEF Leads
  <2> QED BY <1>3, <1>5, <2>1, <2>2
<1>6. CASE x # SEP /\ y # SEP
  BY <1>6 DEF Leads
<1> QED BY <1>4, <1>5, <1>6

LEMMA NoByte == ASSUME NEW t \in Path, NEW x \in Byte PROVE ~Leads(t, x, t)
<1>1. Len(t) \in Nat \ {0} /\ t[Len(t)] \in Token
  <2>1. Len(t) \in Nat \ {0}
    BY PathIs
  <2>2. Len(t) \in 1..Len(t)
    BY <2>1
  <2> QED BY <2>1, <2>2, PathIs
<1>2. Len(t[Len(t)]) \in Nat
  BY <1>1, LenProperties DEF Token
<1> QED BY <1>1, <1>2 DEF Leads

LEMMA SplitLonger ==
  ASSUME NEW s \in Seq(Byte), NEW q \in Seq(Byte), NEW f, NEW g, Splits(f, s), Splits(g, q),
         f[Len(s)] = g[Len(q)], Len(s) <= Len(q)
  PROVE  s = q
<1>1. PICK M \in Nat, N \in Nat : /\ M = Len(s) /\ N = Len(q) /\ M <= N
                                  /\ \A i \in 1..M : s[i] \in Byte
                                  /\ \A i \in 1..N : q[i] \in Byte
  BY LenProperties, ElementOfSeq
<1>2. (\A i \in 0..M : f[i] \in Path) /\ (\A i \in 0..N : g[i] \in Path)
  BY <1>1 DEF Splits
<1>3. PICK t \in Path : t = f[Len(s)] /\ t = g[Len(q)]
  BY <1>1, <1>2
<1>4. ASSUME NEW n \in 1..M, f[n - 1] = g[n - 1] PROVE s[n] = q[n] /\ f[n] = g[n]
  <2>1. n - 1 \in 0..M /\ n \in 1..N
    BY <1>1
  <2>2. PICK a \in Path, x \in Byte, y \in Byte : a = f[n - 1] /\ x = s[n] /\ y = q[n]
    BY <1>1, <1>2, <2>1
  <2>3. Leads(a, x, t)
    BY <1>1, <1>3, <2>2, NextByte
  <2>4. n \in 1..Len(q) /\ g[n - 1] = a
    BY <1>1, <1>4, <2>1, <2>2
  <2>5. Leads(g[n - 1], q[n], g[Len(q)])
    BY <2>4, NextByte
  <2>6. x = y
    BY <1>3, <2>2, <2>3, <2>4, <2>5, SameByte
  <2>7. f[n] = Read(a, x) /\ g[n] = Read(a, y)
    BY <1>1, <2>1, <2>2, <2>4 DEF Splits
  <2> QED BY <2>2, <2>6, <2>7
<1> DEFINE S == {n \in 0..M : f[n] = g[n]}
<1>5. 0..M \subseteq S
  <2>1. 0 \in S
    <3>1. f[0] = <<<<>>>> /\ g[0] = <<<<>>>>
      BY DEF Splits
    <3> QED BY <1>1, <3>1
  <2>2. \A n \in 1..M : n - 1 \in S => n \in S
    BY <1>4
  <2> HIDE DEF S
  <2> QED BY <2>1, <2>2, Induct
<1>6. M = N
  <2> SUFFICES ASSUME M < N PROVE FALSE
    BY <1>1
  <2>1. M + 1 \in 1..Len(q) /\ (M + 1) - 1 = M /\ M \in 0..M
    BY <1>1
  <2>2. Leads(g[(M + 1) - 1], q[M + 1], g[Len(q)])
    BY <2>1, NextByte
  <2>3. g[M] = t
    BY <1>1, <1>3, <1>5, <2>1
  <2>4. Leads(t, q[M + 1], t)
    BY <1>3, <2>1, <2>2, <2>3
  <2>5. q[M + 1] \in Byte
    BY <1>1, <2>1
  <2> QED BY <2>4, <2>5, NoByte
<1>7. \A n \in 1..M : s[n] = q[n]
  <2>1. ASSUME NEW n \in 1..M PROVE s[n] = q[n]
    <3>1. n - 1 \in 0..M
      BY <1>1
    <3>2. f[n - 1] = g[n - 1]
      BY <1>5, <3>1
    <3> QED BY <1>4, <3>2
  <2> QED BY <2>1
<1> QED BY <1>1, <1>6, <1>7, SeqEqual

LEMMA TokensOnce ==
  ASSUME NEW s \in Subjects \union Literals, NEW q \in Subjects \union Literals,
         Tokens[s] = Tokens[q]
  PROVE  s = q
<1>1. PICK f : Splits(f, s) /\ s \in Seq(Byte) /\ Tokens[s] = f[Len(s)]
  BY TokensAre
<1>2. PICK g : Splits(g, q) /\ q \in Seq(Byte) /\ Tokens[q] = g[Len(q)]
  BY TokensAre
<1>3. Len(s) \in Nat /\ Len(q) \in Nat /\ f[Len(s)] = g[Len(q)]
  BY <1>1, <1>2, LenProperties
<1>4. CASE Len(s) <= Len(q)
  BY <1>1, <1>2, <1>3, <1>4, SplitLonger
<1>5. CASE Len(q) <= Len(s)
  <2>1. q = s
    BY <1>1, <1>2, <1>3, <1>5, SplitLonger
  <2> QED BY <2>1
<1> QED BY <1>3, <1>4, <1>5

-----------------------------------------------------------------------------
(* What Insert and Remove do to the cache, key by key.                          *)

Found == Seq(Sub)

(* From h to g, what is found for k changes to found if it was old.             *)
Turns(h, g, k, old, found) ==
  IsMap(h, Found) /\ Get(h, k) = old =>
    IsMap(g, Found) /\ g.used <= h.used /\ ButFor(h, g, k, found)

(* The first n keys are as wanted, the others as in c.                          *)
Reaches(h, n, c, keys, want) ==
  /\ IsMap(h, Found) /\ h.used <= c.used
  /\ \A k \in DOMAIN Hash :
        Get(h, k) = IF \E m \in 1..n : keys[m] = k THEN want[k] ELSE Get(c, k)

LEMMA WalkKeys ==
  ASSUME NEW c, IsMap(c, Found), NEW keys \in Seq(DOMAIN Hash),
         \A m, n \in 1..Len(keys) : keys[m] = keys[n] => m = n,
         NEW want, NEW f, f[0] = c,
         \A n \in 1..Len(keys) : Turns(f[n - 1], f[n], keys[n], Get(c, keys[n]), want[keys[n]])
  PROVE  Reaches(f[Len(keys)], Len(keys), c, keys, want)
<1>1. PICK N \in Nat : N = Len(keys) /\ \A n \in 1..N : keys[n] \in DOMAIN Hash
  BY LenProperties, ElementOfSeq
<1> DEFINE S == {n \in 0..N : Reaches(f[n], n, c, keys, want)}
<1>2. 0..N \subseteq S
  <2>1. 0 \in S
    <3>1. c.used \in Nat
      BY MapIs
    <3>2. ~\E m \in 1..0 : TRUE
      OBVIOUS
    <3>3. Reaches(c, 0, c, keys, want)
      BY <3>1, <3>2 DEF Reaches
    <3> QED BY <1>1, <3>3
  <2>2. ASSUME NEW n \in 1..N, n - 1 \in S PROVE n \in S
    <3>1. PICK key \in DOMAIN Hash : key = keys[n]
      BY <1>1
    <3> DEFINE h == f[n - 1]
               g == f[n]
    <3> HIDE DEF h, g
    <3>2. Reaches(h, n - 1, c, keys, want)
      BY <2>2 DEF h
    <3>3. Turns(h, g, key, Get(c, key), want[key])
      BY <1>1, <3>1 DEF h, g
    <3>4. \A m \in 1..N : keys[m] = key => m = n
      BY <1>1, <3>1
    <3>5. \A m \in 1..n : m \in 1..N /\ (m = n \/ m \in 1..(n - 1))
      BY <1>1
    <3>6. \A m \in 1..(n - 1) : m \in 1..n /\ m # n
      BY <1>1
    <3>7. Get(h, key) = Get(c, key)
      BY <3>2, <3>4, <3>5, <3>6 DEF Reaches
    <3>8. IsMap(g, Found) /\ g.used <= h.used /\ ButFor(h, g, key, want[key])
      BY <3>2, <3>3, <3>7 DEF Turns, Reaches
    <3>9. g.used <= c.used
      <4>1. g.used \in Nat /\ h.used \in Nat /\ c.used \in Nat /\ h.used <= c.used
        BY <3>2, <3>8, MapIs DEF Reaches
      <4> QED BY <3>8, <4>1
    <3>10. ASSUME NEW k \in DOMAIN Hash
           PROVE  Get(g, k) = IF \E m \in 1..n : keys[m] = k THEN want[k] ELSE Get(c, k)
      <4>1. CASE k = key
        <5>1. n \in 1..n
          OBVIOUS
        <5> QED BY <3>1, <3>8, <4>1, <5>1 DEF ButFor
      <4>2. CASE k # key
        <5>1. Get(g, k) = Get(h, k)
          BY <3>8, <4>2 DEF ButFor
        <5>2. (\E m \in 1..n : keys[m] = k) <=> (\E m \in 1..(n - 1) : keys[m] = k)
          BY <3>1, <3>5, <3>6, <4>2
        <5> QED BY <3>2, <5>1, <5>2 DEF Reaches
      <4> QED BY <4>1, <4>2
    <3>11. Reaches(g, n, c, keys, want)
      BY <3>8, <3>9, <3>10 DEF Reaches
    <3>12. n \in 0..N
      OBVIOUS
    <3> QED BY <3>11, <3>12 DEF g
  <2> HIDE DEF S
  <2> QED BY <2>1, <2>2, Induct
<1>3. N \in 0..N
  OBVIOUS
<1> QED BY <1>1, <1>2, <1>3

(* The sub is appended to what is cached for each subject it matches.           *)
AddedTo(c, subject, sub, h) ==
  /\ IsMap(h, Found) /\ h.used <= c.used
  /\ \A k \in DOMAIN Hash :
        Get(h, k) = IF Get(c, k) # <<>> /\ matchLiteral(k, subject)
                    THEN <<Append(Get(c, k)[1], sub)>> ELSE Get(c, k)

LEMMA AddIs ==
  ASSUME NEW c, IsMap(c, Found), NEW sub \in Sub, NEW subject
  PROVE  AddedTo(c, subject, sub, addToCache(c, subject, sub))
<1>1. PICK keys \in Seq(DOMAIN Hash) :
         /\ keys = AllKeys(c)
         /\ \A k \in DOMAIN Hash : Get(c, k) # <<>> <=> \E n \in 1..Len(keys) : keys[n] = k
         /\ \A m, n \in 1..Len(keys) : keys[m] = keys[n] => m = n
  BY KeysAre
<1>2. PICK N \in Nat : N = Len(keys) /\ \A n \in 1..N : keys[n] \in DOMAIN Hash
  BY LenProperties, ElementOfSeq
<1> DEFINE Change(h, k) == IF matchLiteral(k, subject) THEN Set(h, k, Append(Get(h, k)[1], sub)) ELSE h
           V == {h \in [bkts : Chains(Found), used : Nat] :
                    IsMap(h, Found) /\ \A n \in 1..N : Get(h, keys[n]) # <<>>}
           Eq(f) == f = [n \in 0..N |->
                           IF n = 0 THEN c
                           ELSE LET h == f[n - 1]
                                IN IF matchLiteral(keys[n], subject)
                                   THEN Set(h, keys[n], Append(Get(h, keys[n])[1], sub)) ELSE h]
           st == [n \in 1..N |-> [v \in V |-> Change(v, keys[n])]]
<1>3. c \in V
  BY <1>1, <1>2, MapIs
<1>4. ASSUME NEW k \in DOMAIN Hash, NEW h, IsMap(h, Found), Get(h, k) # <<>>
      PROVE  /\ IsMap(Change(h, k), Found) /\ Change(h, k).used <= h.used
             /\ ButFor(h, Change(h, k), k, IF matchLiteral(k, subject)
                                           THEN <<Append(Get(h, k)[1], sub)>> ELSE Get(h, k))
  <2>1. h.used \in Nat
    BY <1>4, MapIs
  <2>2. CASE matchLiteral(k, subject)
    <3>1. PICK d \in Found : Get(h, k) = <<d>>
      BY <1>4, GetType
    <3>2. Get(h, k)[1] = d
      BY <3>1
    <3>3. PICK e \in Found : e = Append(d, sub)
      BY AppendProperties DEF Found
    <3>4. Change(h, k) = Set(h, k, e)
      BY <2>2, <3>2, <3>3
    <3>5. /\ IsMap(Set(h, k, e), Found) /\ ButFor(h, Set(h, k, e), k, <<e>>)
          /\ Set(h, k, e).used = IF Get(h, k) = <<>> THEN h.used + 1 ELSE h.used
      BY <1>4, SetIs
    <3> QED BY <1>4, <2>1, <2>2, <3>2, <3>3, <3>4, <3>5
  <2>3. CASE ~matchLiteral(k, subject)
    BY <1>4, <2>1, <2>3 DEF ButFor
  <2> QED BY <2>2, <2>3
<1>5. ASSUME NEW n \in 1..N, NEW v \in V PROVE Change(v, keys[n]) \in V
  <2>1. keys[n] \in DOMAIN Hash /\ IsMap(v, Found) /\ Get(v, keys[n]) # <<>>
    BY <1>2
  <2>2. PICK g : g = Change(v, keys[n])
    OBVIOUS
  <2>3. PICK w : w = IF matchLiteral(keys[n], subject) THEN <<Append(Get(v, keys[n])[1], sub)>> ELSE Get(v, keys[n])
    OBVIOUS
  <2>4. IsMap(g, Found) /\ ButFor(v, g, keys[n], w)
    BY <1>4, <2>1, <2>2, <2>3
  <2>5. w # <<>>
    BY <2>1, <2>3
  <2>6. \A m \in 1..N : Get(g, keys[m]) # <<>>
    BY <1>2, <2>4, <2>5 DEF ButFor
  <2>7. g \in [bkts : Chains(Found), used : Nat]
    BY <2>4, MapIs
  <2> QED BY <2>2, <2>4, <2>6, <2>7
<1>6. PICK g \in [0..N -> V] : g[0] = c /\ \A n \in 1..N : g[n] = Change(g[n - 1], keys[n])
  <2> HIDE DEF V, Change
  <2>1. st \in [1..N -> [V -> V]]
    BY <1>5
  <2>2. \A n \in 1..N, v \in V : st[n][v] = Change(v, keys[n])
    OBVIOUS
  <2> HIDE DEF st
  <2>3. PICK g \in [0..N -> V] : IsSolution(g, N, c, st)
    BY <1>3, <2>1, Solution
  <2>4. \A n \in 1..N : g[n - 1] \in V
    BY <2>3
  <2>5. \A n \in 1..N : g[n] = st[n][g[n - 1]]
    BY <2>3 DEF IsSolution
  <2>6. \A n \in 1..N : st[n][g[n - 1]] = Change(g[n - 1], keys[n])
    BY <2>2, <2>4
  <2>7. g[0] = c
    BY <2>3 DEF IsSolution
  <2> QED BY <2>5, <2>6, <2>7
<1>7. Eq(g)
  <2> HIDE DEF V
  <2>1. g = [n \in 0..N |-> g[n]]
    OBVIOUS
  <2>2. \A n \in 0..N : g[n] = IF n = 0 THEN c
                               ELSE LET h == g[n - 1]
                                    IN IF matchLiteral(keys[n], subject)
                                       THEN Set(h, keys[n], Append(Get(h, keys[n])[1], sub)) ELSE h
    <3>1. \A n \in 0..N : n = 0 \/ n \in 1..N
      OBVIOUS
    <3> QED BY <1>6, <3>1
  <2> QED BY <2>1, <2>2
<1>8. PICK f : f = CHOOSE x : Eq(x)
  OBVIOUS
<1>9. Eq(f)
  <2> HIDE DEF Eq
  <2> QED BY <1>7, <1>8
<1>10. addToCache(c, subject, sub) = f[N]
  BY <1>1, <1>2, <1>8 DEF addToCache
<1>11. f[0] = c /\ \A n \in 1..N : f[n] = Change(f[n - 1], keys[n])
  <2>1. \A n \in 0..N : f[n] = IF n = 0 THEN c
                               ELSE LET h == f[n - 1]
                                    IN IF matchLiteral(keys[n], subject)
                                       THEN Set(h, keys[n], Append(Get(h, keys[n])[1], sub)) ELSE h
    BY <1>9
  <2>2. 0 \in 0..N /\ \A n \in 1..N : n \in 0..N /\ n # 0
    OBVIOUS
  <2> HIDE DEF Eq
  <2> QED BY <2>1, <2>2
<1> HIDE DEF Eq
<1> DEFINE want == [k \in DOMAIN Hash |-> IF matchLiteral(k, subject)
                                          THEN <<Append(Get(c, k)[1], sub)>> ELSE Get(c, k)]
<1>12. ASSUME NEW n \in 1..N PROVE Turns(f[n - 1], f[n], keys[n], Get(c, keys[n]), want[keys[n]])
  <2>1. PICK h, k : h = f[n - 1] /\ k = keys[n] /\ k \in DOMAIN Hash /\ f[n] = Change(h, k)
    BY <1>2, <1>11
  <2>2. Get(c, k) # <<>>
    BY <1>1, <1>2, <2>1
  <2>3. ASSUME IsMap(h, Found), Get(h, k) = Get(c, k)
        PROVE  /\ IsMap(Change(h, k), Found) /\ Change(h, k).used <= h.used
               /\ ButFor(h, Change(h, k), k, want[k])
    <3>1. want[k] = IF matchLiteral(k, subject) THEN <<Append(Get(c, k)[1], sub)>> ELSE Get(c, k)
      BY <2>1
    <3>2. PICK w : w = IF matchLiteral(k, subject) THEN <<Append(Get(h, k)[1], sub)>> ELSE Get(h, k)
      OBVIOUS
    <3> HIDE DEF Change, want
    <3>3. want[k] = w
      BY <2>3, <3>1, <3>2
    <3>4. k \in DOMAIN Hash /\ Get(h, k) # <<>>
      BY <2>1, <2>2, <2>3
    <3>5. IsMap(Change(h, k), Found) /\ Change(h, k).used <= h.used /\ ButFor(h, Change(h, k), k, w)
      BY <1>4, <2>3, <3>2, <3>4
    <3> QED BY <3>3, <3>5
  <2> HIDE DEF Change, want
  <2> QED BY <2>1, <2>3 DEF Turns
<1>13. Reaches(f[N], N, c, keys, want)
  <2> HIDE DEF want, Change
  <2> QED BY SMTT(30), <1>1, <1>2, <1>11, <1>12, WalkKeys
<1>14. \A k \in DOMAIN Hash : (\E m \in 1..N : keys[m] = k) <=> Get(c, k) # <<>>
  BY <1>1, <1>2
<1>15. \A k \in DOMAIN Hash : want[k] = IF matchLiteral(k, subject)
                                        THEN <<Append(Get(c, k)[1], sub)>> ELSE Get(c, k)
  OBVIOUS
<1> HIDE DEF want, Change
<1> QED BY <1>10, <1>13, <1>14, <1>15 DEF Reaches, AddedTo

(* What is cached for each subject that the removed one matches goes.           *)
DroppedFrom(c, subject, h) ==
  /\ IsMap(h, Found) /\ h.used <= c.used
  /\ \A k \in DOMAIN Hash : Get(h, k) = IF matchLiteral(k, subject) THEN <<>> ELSE Get(c, k)

LEMMA DropIs ==
  ASSUME NEW c, IsMap(c, Found), NEW subject
  PROVE  DroppedFrom(c, subject, removeFromCache(c, subject))
<1>1. PICK keys \in Seq(DOMAIN Hash) :
         /\ keys = AllKeys(c)
         /\ \A k \in DOMAIN Hash : Get(c, k) # <<>> <=> \E n \in 1..Len(keys) : keys[n] = k
         /\ \A m, n \in 1..Len(keys) : keys[m] = keys[n] => m = n
  BY KeysAre
<1>2. PICK N \in Nat : N = Len(keys) /\ \A n \in 1..N : keys[n] \in DOMAIN Hash
  BY LenProperties, ElementOfSeq
<1> DEFINE Change(h, k) == IF matchLiteral(k, subject) THEN Unset(h, k) ELSE h
           V == {h \in [bkts : Chains(Found), used : Nat] : IsMap(h, Found)}
           Eq(f) == f = [n \in 0..N |->
                           IF n = 0 THEN c
                           ELSE LET h == f[n - 1]
                                IN IF matchLiteral(keys[n], subject) THEN Unset(h, keys[n]) ELSE h]
           st == [n \in 1..N |-> [v \in V |-> Change(v, keys[n])]]
<1>3. c \in V
  BY MapIs
<1>4. ASSUME NEW k \in DOMAIN Hash, NEW h, IsMap(h, Found)
      PROVE  /\ IsMap(Change(h, k), Found) /\ Change(h, k).used <= h.used
             /\ ButFor(h, Change(h, k), k, IF matchLiteral(k, subject) THEN <<>> ELSE Get(h, k))
  <2>1. h.used \in Nat
    BY <1>4, MapIs
  <2>2. CASE matchLiteral(k, subject)
    <3>1. /\ IsMap(Unset(h, k), Found) /\ ButFor(h, Unset(h, k), k, <<>>)
          /\ Unset(h, k).used <= h.used
      BY <1>4, UnsetIs
    <3> QED BY <2>2, <3>1
  <2>3. CASE ~matchLiteral(k, subject)
    BY <1>4, <2>1, <2>3 DEF ButFor
  <2> QED BY <2>2, <2>3
<1>5. ASSUME NEW n \in 1..N, NEW v \in V PROVE Change(v, keys[n]) \in V
  <2>1. keys[n] \in DOMAIN Hash /\ IsMap(v, Found)
    BY <1>2
  <2> HIDE DEF Change
  <2>2. IsMap(Change(v, keys[n]), Found)
    BY <1>4, <2>1
  <2> QED BY <2>2, MapIs
<1>6. PICK g \in [0..N -> V] : g[0] = c /\ \A n \in 1..N : g[n] = Change(g[n - 1], keys[n])
  <2> HIDE DEF V, Change
  <2>1. st \in [1..N -> [V -> V]]
    BY <1>5
  <2>2. \A n \in 1..N, v \in V : st[n][v] = Change(v, keys[n])
    OBVIOUS
  <2> HIDE DEF st
  <2>3. PICK g \in [0..N -> V] : IsSolution(g, N, c, st)
    BY <1>3, <2>1, Solution
  <2>4. \A n \in 1..N : g[n - 1] \in V
    BY <2>3
  <2>5. \A n \in 1..N : g[n] = st[n][g[n - 1]]
    BY <2>3 DEF IsSolution
  <2>6. \A n \in 1..N : st[n][g[n - 1]] = Change(g[n - 1], keys[n])
    BY <2>2, <2>4
  <2>7. g[0] = c
    BY <2>3 DEF IsSolution
  <2> QED BY <2>5, <2>6, <2>7
<1>7. Eq(g)
  <2> HIDE DEF V
  <2>1. g = [n \in 0..N |-> g[n]]
    OBVIOUS
  <2>2. \A n \in 0..N : g[n] = IF n = 0 THEN c
                               ELSE LET h == g[n - 1]
                                    IN IF matchLiteral(keys[n], subject) THEN Unset(h, keys[n]) ELSE h
    <3>1. \A n \in 0..N : n = 0 \/ n \in 1..N
      OBVIOUS
    <3> QED BY <1>6, <3>1
  <2> QED BY <2>1, <2>2
<1>8. PICK f : f = CHOOSE x : Eq(x)
  OBVIOUS
<1>9. Eq(f)
  <2> HIDE DEF Eq
  <2> QED BY <1>7, <1>8
<1>10. removeFromCache(c, subject) = f[N]
  BY <1>1, <1>2, <1>8 DEF removeFromCache
<1>11. f[0] = c /\ \A n \in 1..N : f[n] = Change(f[n - 1], keys[n])
  <2>1. \A n \in 0..N : f[n] = IF n = 0 THEN c
                               ELSE LET h == f[n - 1]
                                    IN IF matchLiteral(keys[n], subject) THEN Unset(h, keys[n]) ELSE h
    BY <1>9
  <2>2. 0 \in 0..N /\ \A n \in 1..N : n \in 0..N /\ n # 0
    OBVIOUS
  <2> HIDE DEF Eq
  <2> QED BY <2>1, <2>2
<1> HIDE DEF Eq
<1> DEFINE want == [k \in DOMAIN Hash |-> IF matchLiteral(k, subject) THEN <<>> ELSE Get(c, k)]
<1>12. ASSUME NEW n \in 1..N PROVE Turns(f[n - 1], f[n], keys[n], Get(c, keys[n]), want[keys[n]])
  <2>1. PICK h, k : h = f[n - 1] /\ k = keys[n] /\ k \in DOMAIN Hash /\ f[n] = Change(h, k)
    BY <1>2, <1>11
  <2>2. ASSUME IsMap(h, Found), Get(h, k) = Get(c, k)
        PROVE  /\ IsMap(Change(h, k), Found) /\ Change(h, k).used <= h.used
               /\ ButFor(h, Change(h, k), k, want[k])
    <3>1. want[k] = IF matchLiteral(k, subject) THEN <<>> ELSE Get(c, k)
      BY <2>1
    <3>2. PICK w : w = IF matchLiteral(k, subject) THEN <<>> ELSE Get(h, k)
      OBVIOUS
    <3> HIDE DEF Change, want
    <3>3. want[k] = w
      BY <2>2, <3>1, <3>2
    <3>4. IsMap(Change(h, k), Found) /\ Change(h, k).used <= h.used /\ ButFor(h, Change(h, k), k, w)
      BY <1>4, <2>1, <2>2, <3>2
    <3> QED BY <3>3, <3>4
  <2> HIDE DEF Change, want
  <2> QED BY <2>1, <2>2 DEF Turns
<1>13. Reaches(f[N], N, c, keys, want)
  <2> HIDE DEF want, Change
  <2> QED BY <1>1, <1>2, <1>11, <1>12, WalkKeys
<1>14. \A k \in DOMAIN Hash : (\E m \in 1..N : keys[m] = k) <=> Get(c, k) # <<>>
  BY <1>1, <1>2
<1>15. \A k \in DOMAIN Hash : want[k] = IF matchLiteral(k, subject) THEN <<>> ELSE Get(c, k)
  OBVIOUS
<1> HIDE DEF want, Change
<1> QED BY <1>10, <1>13, <1>14, <1>15 DEF Reaches, DroppedFrom

-----------------------------------------------------------------------------
(* The cache and the tree.                                                      *)

(* The subs a match of a valid literal should give: of the well-formed ones,    *)
(* those in the tree that match, once.                                          *)
Due(ns, literal, s) == In(ns, s) /\ Match(Tokens[literal], Tokens[s.subject])

Right(ns, literal, subs) ==
  /\ subs \in Found
  /\ \A s \in Sub : WellFormed(s.subject) => (s \in ToSet(subs) <=> Due(ns, literal, s))
  /\ \A i, j \in DOMAIN subs : WellFormed(subs[i].subject) /\ subs[j] = subs[i] => j = i

CacheRight(ns, c) ==
  \A l \in Literals : IsValidLiteralSubject(l) /\ Get(c, l) # <<>> => Right(ns, l, Get(c, l)[1])

LEMMA SubIs ==
  ASSUME NEW s \in Sub
  PROVE  s.subject \in Subjects /\ s.id \in Ids /\ s = [subject |-> s.subject, id |-> s.id]
BY DEF Sub

LEMMA PlainTokens ==
  ASSUME NEW l \in Literals, IsValidLiteralSubject(l)
  PROVE  Tokens[l] \in Path /\ \A i \in 1..Len(Tokens[l]) : Plain(Tokens[l][i])
<1>1. PICK L \in Path : L = Tokens[l]
  BY TokensAre
<1>2. DOMAIN L = 1..Len(L)
  BY PathIs
<1> QED BY <1>1, <1>2 DEF IsValidLiteralSubject, ToSet, Plain

LEMMA SearchRight ==
  ASSUME NEW ns, IsTree(ns), Filed(ns), NEW l \in Literals
  PROVE  /\ matchLevel(ns, Tokens[l]) \in Found
         /\ IsValidLiteralSubject(l) => Right(ns, l, matchLevel(ns, Tokens[l]))
<1>1. PICK toks \in Path : toks = Tokens[l]
  BY TokensAre
<1>2. PICK subs : subs = matchLevel(ns, toks)
  OBVIOUS
<1>3. Finds(ns, toks, <<>>, subs)
  BY <1>2, SearchFinds
<1>4. subs \in Found
  BY <1>3 DEF Finds, Found
<1>5. ASSUME IsValidLiteralSubject(l) PROVE Right(ns, l, subs)
  <2>1. \A i \in 1..Len(toks) : Plain(toks[i])
    BY <1>1, <1>5, PlainTokens
  <2>2. ASSUME NEW s \in Sub, WellFormed(s.subject) PROVE s \in ToSet(subs) <=> Due(ns, l, s)
    <3>1. PICK p \in Path : /\ p = Tokens[s.subject] /\ Proper1(p)
                            /\ Walk(Tokens[s.subject]) = p
      BY <2>2, SubIs, WellFormedIs
    <3>2. Picks(toks, <<>>, p) <=> Match(toks, p)
      BY <2>1, <3>1, PicksMatch
    <3>3. ASSUME NEW q \in DOMAIN ns, s \in ToSet(ns[q]) PROVE q = p
      BY <3>1, <3>3 DEF Filed
    <3>4. In(ns, s) <=> \E q \in DOMAIN ns : s \in ToSet(ns[q])
      BY DEF In
    <3>5. s \in ToSet(subs) <=> \E q \in DOMAIN ns : s \in ToSet(ns[q]) /\ Picks(toks, <<>>, q)
      BY <1>3 DEF Finds
    <3>6. s \in ToSet(subs) <=> In(ns, s) /\ Picks(toks, <<>>, p)
      BY <3>3, <3>4, <3>5
    <3> QED BY <1>1, <3>1, <3>2, <3>6 DEF Due
  <2>3. \A i, j \in DOMAIN subs : subs[j] = subs[i] => j = i
    BY <1>3 DEF Finds, IsInjective
  <2> QED BY <1>4, <2>2, <2>3 DEF Right
<1> QED BY <1>1, <1>2, <1>4, <1>5

LEMMA AppendSet ==
  ASSUME NEW subs \in Found, NEW sub \in Sub
  PROVE  /\ Append(subs, sub) \in Found /\ Len(subs) \in Nat /\ DOMAIN subs = 1..Len(subs)
         /\ DOMAIN Append(subs, sub) = 1..(Len(subs) + 1)
         /\ \A i \in 1..Len(subs) : Append(subs, sub)[i] = subs[i]
         /\ Append(subs, sub)[Len(subs) + 1] = sub
         /\ ToSet(Append(subs, sub)) = ToSet(subs) \union {sub}
<1>1. PICK n \in Nat : n = Len(subs) /\ DOMAIN subs = 1..n
  BY LenProperties DEF Found
<1>2. PICK a \in Found : /\ a = Append(subs, sub) /\ Len(a) = n + 1 /\ a[n + 1] = sub
                         /\ \A i \in 1..n : a[i] = subs[i]
  <2>1. subs \in Seq(Sub)
    BY DEF Found
  <2>2. /\ Append(subs, sub) \in Seq(Sub) /\ Len(Append(subs, sub)) = Len(subs) + 1
        /\ \A i \in 1..Len(subs) : Append(subs, sub)[i] = subs[i]
        /\ Append(subs, sub)[Len(subs) + 1] = sub
    BY ONLY <2>1, sub \in Sub, AppendProperties
  <2> QED BY <1>1, <2>2 DEF Found
<1>3. DOMAIN a = 1..(n + 1)
  BY <1>2, LenProperties DEF Found
<1>4. ToSet(a) = ToSet(subs) \union {sub}
  <2>1. n + 1 \in 1..(n + 1) /\ \A i \in 1..(n + 1) : i \in 1..n \/ i = n + 1
    OBVIOUS
  <2>2. \A i \in 1..n : i \in 1..(n + 1)
    OBVIOUS
  <2> QED BY <1>1, <1>2, <1>3, <2>1, <2>2 DEF ToSet
<1> QED BY <1>1, <1>2, <1>3, <1>4

(* An Insert keeps the cache right, ...                                         *)
LEMMA InsertRight ==
  ASSUME NEW ns, NEW gs, NEW c, CacheRight(ns, c), NEW sub \in Sub, ~In(ns, sub),
         \A s : In(gs, s) <=> In(ns, s) \/ s = sub,
         NEW h, AddedTo(c, sub.subject, sub, h)
  PROVE  CacheRight(gs, h)
<1> SUFFICES ASSUME NEW l \in Literals, IsValidLiteralSubject(l), Get(h, l) # <<>>
             PROVE  Right(gs, l, Get(h, l)[1])
  BY DEF CacheRight
<1>1. l \in DOMAIN Hash
  BY CacheAssumption
<1>2. Get(h, l) = IF Get(c, l) # <<>> /\ matchLiteral(l, sub.subject)
                  THEN <<Append(Get(c, l)[1], sub)>> ELSE Get(c, l)
  BY <1>1 DEF AddedTo
<1>3. Get(c, l) # <<>>
  BY <1>2
<1>4. PICK old \in Found : old = Get(c, l)[1] /\ Right(ns, l, old)
  BY <1>3 DEF CacheRight, Right
<1>5. \A s \in Sub : WellFormed(s.subject) => (s \in ToSet(old) <=> Due(ns, l, s))
  BY <1>4 DEF Right
<1>6. ASSUME WellFormed(sub.subject)
      PROVE  matchLiteral(l, sub.subject) <=> Match(Tokens[l], Tokens[sub.subject])
  BY <1>6, SubIs, MatchLiteralIs
<1>7. CASE matchLiteral(l, sub.subject)
  <2>1. PICK new \in Found : new = Append(old, sub)
    BY AppendSet
  <2>8. Get(h, l)[1] = new
    <3>1. Get(h, l) = <<Append(Get(c, l)[1], sub)>>
      BY <1>2, <1>3, <1>7
    <3>2. Get(h, l) = <<new>>
      BY <1>4, <2>1, <3>1
    <3> QED BY <3>2
  <2>2. PICK n \in Nat : /\ n = Len(old) /\ DOMAIN old = 1..n /\ DOMAIN new = 1..(n + 1)
                         /\ \A i \in 1..n : new[i] = old[i]
                         /\ new[n + 1] = sub
    BY <2>1, AppendSet
  <2>3. ToSet(new) = ToSet(old) \union {sub}
    BY <2>1, AppendSet
  <2>4. ASSUME NEW s \in Sub, WellFormed(s.subject) PROVE s \in ToSet(new) <=> Due(gs, l, s)
    <3>1. CASE s = sub
      BY <1>6, <1>7, <2>3, <2>4, <3>1 DEF Due
    <3>2. CASE s # sub
      BY <1>5, <2>3, <2>4, <3>2 DEF Due
    <3> QED BY <3>1, <3>2
  <2>5. ASSUME WellFormed(sub.subject) PROVE sub \notin ToSet(old)
    BY <1>5, <2>5 DEF Due
  <2>6. ASSUME NEW i \in DOMAIN new, NEW j \in DOMAIN new, WellFormed(new[i].subject), new[j] = new[i]
        PROVE  j = i
    <3>1. (i \in 1..n \/ i = n + 1) /\ (j \in 1..n \/ j = n + 1)
      BY <2>2
    <3>2. CASE i \in 1..n /\ j \in 1..n
      BY <1>4, <2>2, <2>6, <3>2 DEF Right
    <3>3. CASE i \in 1..n /\ j = n + 1
      <4>1. old[i] = sub /\ old[i] \in ToSet(old)
        BY <2>2, <2>6, <3>3 DEF ToSet
      <4> QED BY <2>2, <2>5, <2>6, <3>3, <4>1
    <3>4. CASE j \in 1..n /\ i = n + 1
      <4>1. old[j] = sub /\ old[j] \in ToSet(old)
        BY <2>2, <2>6, <3>4 DEF ToSet
      <4> QED BY <2>2, <2>5, <2>6, <3>4, <4>1
    <3> QED BY <3>1, <3>2, <3>3, <3>4
  <2>7. Right(gs, l, new)
    BY <2>4, <2>6 DEF Right
  <2> QED BY <2>7, <2>8
<1>8. CASE ~matchLiteral(l, sub.subject)
  <2>1. Get(h, l)[1] = old
    BY <1>2, <1>4, <1>8
  <2>2. ASSUME NEW s \in Sub, WellFormed(s.subject) PROVE s \in ToSet(old) <=> Due(gs, l, s)
    <3>1. CASE s = sub
      BY <1>5, <1>6, <1>8, <2>2, <3>1 DEF Due
    <3>2. CASE s # sub
      BY <1>5, <2>2, <3>2 DEF Due
    <3> QED BY <3>1, <3>2
  <2>3. Right(gs, l, old)
    BY <1>4, <2>2 DEF Right
  <2> QED BY <2>1, <2>3
<1> QED BY <1>7, <1>8

(* ... and so does a Remove.                                                    *)
LEMMA RemoveRight ==
  ASSUME NEW ns, NEW gs, NEW c, CacheRight(ns, c), NEW sub \in Sub,
         \A s : In(gs, s) <=> In(ns, s) /\ s # sub,
         NEW h, DroppedFrom(c, sub.subject, h)
  PROVE  CacheRight(gs, h)
<1> SUFFICES ASSUME NEW l \in Literals, IsValidLiteralSubject(l), Get(h, l) # <<>>
             PROVE  Right(gs, l, Get(h, l)[1])
  BY DEF CacheRight
<1>1. l \in DOMAIN Hash
  BY CacheAssumption
<1>2. Get(h, l) = Get(c, l) /\ ~matchLiteral(l, sub.subject)
  BY <1>1 DEF DroppedFrom
<1>3. PICK old \in Found : old = Get(h, l)[1] /\ Right(ns, l, old)
  BY <1>2 DEF CacheRight, Right
<1>4. \A s \in Sub : WellFormed(s.subject) => (s \in ToSet(old) <=> Due(ns, l, s))
  BY <1>3 DEF Right
<1>5. ASSUME WellFormed(sub.subject) PROVE ~Match(Tokens[l], Tokens[sub.subject])
  BY <1>2, <1>5, SubIs, MatchLiteralIs
<1>6. ASSUME NEW s \in Sub, WellFormed(s.subject) PROVE s \in ToSet(old) <=> Due(gs, l, s)
  <2>1. CASE s = sub
    BY <1>4, <1>5, <1>6, <2>1 DEF Due
  <2>2. CASE s # sub
    BY <1>4, <1>6, <2>2 DEF Due
  <2> QED BY <2>1, <2>2
<1>7. Right(gs, l, old)
  BY <1>3, <1>6 DEF Right
<1> QED BY <1>3, <1>7

LEMMA FillRight ==
  ASSUME NEW ns, NEW c, CacheRight(ns, c), IsMap(c, Found), c.used <= CMax,
         \A k \in DOMAIN Hash : Get(c, k) # <<>> => k \in Literals,
         NEW room \in IF Count(c) >= CMax THEN RemoveRandom(c) ELSE {c},
         NEW l \in Literals, NEW results \in Found,
         IsValidLiteralSubject(l) => Right(ns, l, results)
  PROVE  LET g == Set(room, l, results)
         IN  /\ IsMap(g, Found) /\ g.used <= CMax /\ CacheRight(ns, g)
             /\ \A k \in DOMAIN Hash : Get(g, k) # <<>> => k \in Literals
<1>1. l \in DOMAIN Hash /\ CMax \in Nat \ {0} /\ c.used \in Nat
  BY CacheAssumption, MapIs
<1>2. /\ IsMap(room, Found) /\ room.used < CMax
      /\ \A k \in DOMAIN Hash : Get(room, k) \in {<<>>, Get(c, k)}
  <2>1. CASE c.used >= CMax
    <3>1. room \in RemoveRandom(c) /\ c.used > 0
      BY <1>1, <2>1 DEF Count
    <3>2. /\ IsMap(room, Found) /\ (c.used > 0 => room.used = c.used - 1)
          /\ \A k \in DOMAIN Hash : Get(room, k) \in {<<>>, Get(c, k)}
      BY <3>1, RandomIs
    <3> QED BY <1>1, <3>1, <3>2
  <2>2. CASE ~(c.used >= CMax)
    BY <1>1, <2>2 DEF Count
  <2> QED BY <2>1, <2>2
<1>3. PICK g : g = Set(room, l, results)
  OBVIOUS
<1>4. /\ IsMap(g, Found) /\ ButFor(room, g, l, <<results>>)
      /\ g.used = IF Get(room, l) = <<>> THEN room.used + 1 ELSE room.used
  BY <1>1, <1>2, <1>3, SetIs
<1>5. g.used <= CMax
  <2>1. room.used \in Nat
    BY <1>2, MapIs
  <2> QED BY <1>1, <1>2, <1>4, <2>1
<1>6. ASSUME NEW k \in DOMAIN Hash, Get(g, k) # <<>>
      PROVE  (k = l /\ Get(g, k) = <<results>>) \/ (k # l /\ Get(g, k) = Get(c, k))
  <2>1. CASE k = l
    BY <1>4, <2>1 DEF ButFor
  <2>2. CASE k # l
    BY <1>2, <1>4, <1>6, <2>2 DEF ButFor
  <2> QED BY <2>1, <2>2
<1>7. \A k \in DOMAIN Hash : Get(g, k) # <<>> => k \in Literals
  BY <1>6
<1>8. CacheRight(ns, g)
  <2> SUFFICES ASSUME NEW k \in Literals, IsValidLiteralSubject(k), Get(g, k) # <<>>
               PROVE  Right(ns, k, Get(g, k)[1])
    BY DEF CacheRight
  <2>1. k \in DOMAIN Hash
    BY CacheAssumption
  <2>2. CASE k = l
    <3>1. Get(g, k) = <<results>>
      BY <1>6, <2>1, <2>2
    <3>2. Get(g, k)[1] = results
      BY <3>1
    <3> QED BY <2>2, <3>2
  <2>3. CASE k # l
    BY <1>6, <2>1, <2>3 DEF CacheRight
  <2> QED BY <2>2, <2>3
<1> QED BY <1>3, <1>4, <1>5, <1>7, <1>8

-----------------------------------------------------------------------------
(* The inductive invariant.                                                     *)

TreeGood(ns) == IsTree(ns) /\ Filed(ns) /\ Tidy(ns)

Counted(ns, n) ==
  LET in == UNION {ToSet(ns[p]) : p \in DOMAIN ns}
  IN IsFiniteSet(in) /\ n = Cardinality(in)

CacheGood(ns, c) ==
  /\ IsMap(c, Found) /\ c.used <= CMax /\ CacheRight(ns, c)
  /\ \A k \in DOMAIN Hash : Get(c, k) # <<>> => k \in Literals

Waiting == {{}} \union {{l} : l \in Literals}

SublistInv ==
  /\ TreeGood(nodes) /\ Counted(nodes, count) /\ CacheGood(nodes, cache)
  /\ pc \in [Threads -> Waiting]

LEMMA InsertedIs ==
  ASSUME NEW ns, NEW s
  PROVE  s \in UNION {ToSet(ns[p]) : p \in DOMAIN ns} <=> In(ns, s)
BY DEF In

LEMMA CountedSame ==
  ASSUME NEW ns, NEW gs, NEW n, Counted(ns, n), \A s : In(gs, s) <=> In(ns, s)
  PROVE  Counted(gs, n)
<1>1. UNION {ToSet(gs[p]) : p \in DOMAIN gs} = UNION {ToSet(ns[p]) : p \in DOMAIN ns}
  BY InsertedIs
<1> QED BY <1>1 DEF Counted

LEMMA CountedMore ==
  ASSUME NEW ns, NEW gs, NEW n, Counted(ns, n), NEW sub, ~In(ns, sub),
         \A s : In(gs, s) <=> In(ns, s) \/ s = sub
  PROVE  Counted(gs, n + 1)
<1>1. PICK A, B : /\ A = UNION {ToSet(ns[p]) : p \in DOMAIN ns}
                  /\ B = UNION {ToSet(gs[p]) : p \in DOMAIN gs}
  OBVIOUS
<1>2. \A s : s \in A <=> In(ns, s)
  BY <1>1, InsertedIs
<1>3. \A s : s \in B <=> In(gs, s)
  BY <1>1, InsertedIs
<1>4. B = A \union {sub} /\ sub \notin A
  BY <1>2, <1>3
<1>5. IsFiniteSet(A) /\ n = Cardinality(A)
  BY <1>1 DEF Counted
<1>6. IsFiniteSet(B) /\ Cardinality(B) = n + 1
  BY <1>4, <1>5, FS_AddElement
<1> QED BY <1>1, <1>6 DEF Counted

LEMMA CountedLess ==
  ASSUME NEW ns, NEW gs, NEW n, Counted(ns, n), NEW sub, In(ns, sub),
         \A s : In(gs, s) <=> In(ns, s) /\ s # sub
  PROVE  Counted(gs, n - 1)
<1>1. PICK A, B : /\ A = UNION {ToSet(ns[p]) : p \in DOMAIN ns}
                  /\ B = UNION {ToSet(gs[p]) : p \in DOMAIN gs}
  OBVIOUS
<1>2. \A s : s \in A <=> In(ns, s)
  BY <1>1, InsertedIs
<1>3. \A s : s \in B <=> In(gs, s)
  BY <1>1, InsertedIs
<1>4. B = A \ {sub} /\ sub \in A
  BY <1>2, <1>3
<1>5. IsFiniteSet(A) /\ n = Cardinality(A)
  BY <1>1 DEF Counted
<1>6. IsFiniteSet(B) /\ Cardinality(B) = n - 1
  BY <1>4, <1>5, FS_RemoveElement
<1> QED BY <1>1, <1>6 DEF Counted

LEMMA InitGood == Init => SublistInv
<1> SUFFICES ASSUME Init PROVE SublistInv
  OBVIOUS
<1> USE DEF Init
<1>1. DOMAIN nodes = {} /\ nodes = <<>>
  OBVIOUS
<1>2. IsTree(nodes)
  <2>1. nodes = [p \in DOMAIN nodes |-> nodes[p]]
    BY <1>1
  <2> QED BY <1>1, <2>1 DEF IsTree
<1>3. Filed(nodes) /\ Tidy(nodes)
  BY <1>1 DEF Filed, Tidy
<1>4. Counted(nodes, count)
  <2>1. UNION {ToSet(nodes[p]) : p \in DOMAIN nodes} = {}
    BY <1>1
  <2> QED BY <2>1, FS_EmptySet DEF Counted
<1>5. CacheGood(nodes, cache)
  <2>1. IsMap(New, Found) /\ New.used = 0 /\ \A k \in DOMAIN Hash : Get(New, k) = <<>>
    BY NewIs
  <2>2. CacheRight(nodes, New)
    BY <2>1, CacheAssumption DEF CacheRight
  <2>3. 0 <= CMax
    BY CacheAssumption
  <2> QED BY <2>1, <2>2, <2>3 DEF CacheGood
<1>6. pc \in [Threads -> Waiting]
  BY DEF Waiting
<1> QED BY <1>2, <1>3, <1>4, <1>5, <1>6 DEF SublistInv, TreeGood

(* What each operation does, for the invariant and for the promise.             *)

LEMMA InsertDoes ==
  ASSUME SublistInv, NEW sub \in Sub, Insert(sub)
  PROVE  /\ SublistInv' /\ answer' = {} /\ ~In(nodes, sub)
         /\ IF Refused(Tokens[sub.subject]) = {}
            THEN \A s : In(nodes', s) <=> In(nodes, s) \/ s = sub
            ELSE \A s : In(nodes', s) <=> In(nodes, s)
<1> DEFINE subject == sub.subject
           path == Walk(Tokens[subject])
<1>1. /\ \A p \in DOMAIN nodes : sub \notin ToSet(nodes[p])
      /\ answer' = {} /\ pc' = pc
      /\ Refused(Tokens[subject]) # {} => nodes' = Grown(nodes, path) /\ count' = count /\ cache' = cache
      /\ Refused(Tokens[subject]) = {} =>
            /\ nodes' = [Grown(nodes, path) EXCEPT ![path] = Append(@, sub)]
            /\ count' = count + 1
            /\ cache' = addToCache(cache, subject, sub)
  BY DEF Insert, Grown
<1>2. ~In(nodes, sub)
  BY <1>1 DEF In
<1>3. /\ IsTree(nodes) /\ Filed(nodes) /\ Tidy(nodes) /\ Counted(nodes, count)
      /\ CacheGood(nodes, cache) /\ pc \in [Threads -> Waiting] /\ subject \in Subjects
  BY SubIs DEF SublistInv, TreeGood
<1>4. CASE Refused(Tokens[subject]) # {}
  <2>1. IsTree(nodes') /\ Filed(nodes') /\ Tidy(nodes') /\ \A s : In(nodes', s) <=> In(nodes, s)
    <3> HIDE DEF subject
    <3> QED BY <1>1, <1>3, <1>4, RefusedTidy
  <2>2. Counted(nodes', count')
    BY <1>1, <1>3, <1>4, <2>1, CountedSame
  <2>3. CacheGood(nodes', cache')
    <3>1. \A l, s : Due(nodes', l, s) <=> Due(nodes, l, s)
      BY <2>1 DEF Due
    <3>2. CacheRight(nodes', cache)
      BY <1>3, <3>1 DEF CacheGood, CacheRight, Right
    <3> QED BY <1>1, <1>3, <1>4, <3>2 DEF CacheGood
  <2>4. TreeGood(nodes') /\ pc' \in [Threads -> Waiting]
    BY <1>1, <1>3, <2>1 DEF TreeGood
  <2> QED BY <1>1, <1>2, <1>4, <2>1, <2>2, <2>3, <2>4 DEF SublistInv
<1>5. CASE Refused(Tokens[subject]) = {}
  <2>1. /\ IsTree(nodes') /\ Filed(nodes') /\ Tidy(nodes')
        /\ \A s : In(nodes', s) <=> In(nodes, s) \/ s = sub
    BY <1>1, <1>2, <1>3, <1>5, InsertTidy
  <2>2. Counted(nodes', count')
    BY <1>1, <1>2, <1>3, <1>5, <2>1, CountedMore
  <2>3. CacheGood(nodes', cache')
    <3>1. AddedTo(cache, subject, sub, cache')
      BY <1>1, <1>3, <1>5, AddIs DEF CacheGood
    <3>2. CacheRight(nodes', cache')
      BY <1>2, <1>3, <2>1, <3>1, InsertRight DEF CacheGood
    <3>3. IsMap(cache', Found) /\ cache'.used <= CMax
      <4>1. cache'.used \in Nat /\ cache.used \in Nat /\ cache'.used <= cache.used /\ CMax \in Nat
        BY <1>3, <3>1, MapIs, CacheAssumption DEF AddedTo, CacheGood
      <4> QED BY <1>3, <3>1, <4>1 DEF AddedTo, CacheGood
    <3>4. \A k \in DOMAIN Hash : Get(cache', k) # <<>> => k \in Literals
      BY <1>3, <3>1 DEF AddedTo, CacheGood
    <3> QED BY <3>2, <3>3, <3>4 DEF CacheGood
  <2>4. TreeGood(nodes') /\ pc' \in [Threads -> Waiting]
    BY <1>1, <1>3, <2>1 DEF TreeGood
  <2> QED BY <1>1, <1>2, <1>5, <2>1, <2>2, <2>3, <2>4 DEF SublistInv
<1> QED BY <1>4, <1>5

LEMMA WithdrawDoes ==
  ASSUME SublistInv, NEW sub \in Sub, Withdraw(sub)
  PROVE  /\ SublistInv' /\ answer' = {} /\ In(nodes, sub)
         /\ \A s : In(nodes', s) <=> In(nodes, s) /\ s # sub
<1> DEFINE subject == sub.subject
           path == Walk(Tokens[subject])
<1>1. /\ path \in DOMAIN nodes /\ sub \in ToSet(nodes[path])
      /\ nodes' = PruneUp([nodes EXCEPT ![path] = removeFromNode(@, sub)], path)
      /\ count' = count - 1
      /\ cache' = removeFromCache(cache, subject)
      /\ answer' = {} /\ pc' = pc
  BY DEF Withdraw
<1>2. In(nodes, sub)
  BY <1>1 DEF In
<1>3. /\ IsTree(nodes) /\ Filed(nodes) /\ Tidy(nodes) /\ Counted(nodes, count)
      /\ CacheGood(nodes, cache) /\ pc \in [Threads -> Waiting] /\ subject \in Subjects
  BY SubIs DEF SublistInv, TreeGood
<1>4. /\ IsTree(nodes') /\ Filed(nodes') /\ Tidy(nodes')
      /\ \A s : In(nodes', s) <=> In(nodes, s) /\ s # sub
  <2>1. nodes' = Removed(nodes, path, sub)
    BY <1>1 DEF Removed
  <2>2. PICK p \in DOMAIN nodes : p = path /\ sub \in ToSet(nodes[p])
    BY <1>1
  <2> HIDE DEF path
  <2> QED BY <1>3, <2>1, <2>2, RemoveTidy
<1>5. Counted(nodes', count')
  BY <1>1, <1>2, <1>3, <1>4, CountedLess
<1>6. CacheGood(nodes', cache')
  <2>1. DroppedFrom(cache, subject, cache')
    BY <1>1, <1>3, DropIs DEF CacheGood
  <2>2. CacheRight(nodes', cache')
    BY <1>3, <1>4, <2>1, RemoveRight DEF CacheGood
  <2>3. IsMap(cache', Found) /\ cache'.used <= CMax
    <3>1. cache'.used \in Nat /\ cache.used \in Nat /\ cache'.used <= cache.used /\ CMax \in Nat
      BY <1>3, <2>1, MapIs, CacheAssumption DEF DroppedFrom, CacheGood
    <3> QED BY <1>3, <2>1, <3>1 DEF DroppedFrom, CacheGood
  <2>4. \A k \in DOMAIN Hash : Get(cache', k) # <<>> => k \in Literals
    BY <1>3, <2>1 DEF DroppedFrom, CacheGood
  <2> QED BY <2>2, <2>3, <2>4 DEF CacheGood
<1>7. TreeGood(nodes') /\ pc' \in [Threads -> Waiting]
  BY <1>1, <1>3, <1>4 DEF TreeGood
<1> QED BY <1>1, <1>2, <1>4, <1>5, <1>6, <1>7 DEF SublistInv

(* What a Match returns: subs, which are what a search would find.              *)
Returns(l, subs) ==
  /\ subs \in Found /\ answer' = {[literal |-> l, results |-> subs]}
  /\ IsValidLiteralSubject(l) => Right(nodes, l, subs)

LEMMA MatchCachedDoes ==
  ASSUME SublistInv, NEW t \in Threads, NEW l \in Literals, MatchCached(t, l)
  PROVE  /\ SublistInv' /\ nodes' = nodes
         /\ answer' = {} \/ \E subs : Returns(l, subs)
<1>1. nodes' = nodes /\ count' = count /\ cache' = cache
  BY DEF MatchCached
<1>2. pc' \in [Threads -> Waiting]
  <2>1. {l} \in Waiting
    BY DEF Waiting
  <2> QED BY <2>1 DEF MatchCached, SublistInv
<1>3. l \in DOMAIN Hash
  BY CacheAssumption
<1>4. CASE Get(cache, l) = <<>>
  BY <1>1, <1>2, <1>4 DEF MatchCached, SublistInv
<1>5. CASE Get(cache, l) # <<>>
  <2>1. PICK subs \in Found : Get(cache, l) = <<subs>>
    <3>1. IsMap(cache, Found)
      BY DEF SublistInv, CacheGood
    <3> QED BY <1>3, <1>5, <3>1, GetType
  <2>2. Get(cache, l)[1] = subs
    BY <2>1
  <2>3. answer' = {[literal |-> l, results |-> subs]}
    BY <1>5, <2>2 DEF MatchCached
  <2>4. IsValidLiteralSubject(l) => Right(nodes, l, subs)
    BY <1>5, <2>2 DEF SublistInv, CacheGood, CacheRight
  <2> QED BY <1>1, <1>2, <2>3, <2>4 DEF SublistInv, Returns
<1> QED BY <1>4, <1>5

LEMMA MatchTreeDoes ==
  ASSUME SublistInv, NEW t \in Threads, MatchTree(t)
  PROVE  /\ SublistInv' /\ nodes' = nodes
         /\ \E l \in Literals : \E subs : Returns(l, subs)
<1>1. nodes' = nodes /\ count' = count /\ pc' = [pc EXCEPT ![t] = {}]
  BY DEF MatchTree
<1>2. pc' \in [Threads -> Waiting]
  <2>1. {} \in Waiting
    BY DEF Waiting
  <2> QED BY <1>1, <2>1 DEF SublistInv
<1>3. PICK l \in Literals : l \in pc[t]
  <2>1. pc[t] \in Waiting /\ pc[t] # {}
    BY DEF MatchTree, SublistInv
  <2> QED BY <2>1 DEF Waiting
<1>4. pc[t] = {l}
  BY <1>3 DEF SublistInv, Waiting
<1>5. PICK subs : subs = matchLevel(nodes, Tokens[l])
  OBVIOUS
<1>6. PICK room \in IF Count(cache) >= CMax THEN RemoveRandom(cache) ELSE {cache} :
         cache' = Set(room, l, subs)
  BY <1>4, <1>5 DEF MatchTree
<1>7. answer' = {[literal |-> l, results |-> subs]}
  BY <1>4, <1>5 DEF MatchTree
<1>8. subs \in Found /\ (IsValidLiteralSubject(l) => Right(nodes, l, subs))
  BY <1>5, SearchRight DEF SublistInv, TreeGood
<1>9. CacheGood(nodes, cache')
  BY <1>6, <1>8, FillRight DEF SublistInv, CacheGood
<1> QED BY <1>1, <1>2, <1>7, <1>8, <1>9 DEF SublistInv, Returns

LEMMA NextGood == SublistInv /\ [Next]_vars => SublistInv'
<1> SUFFICES ASSUME SublistInv, [Next]_vars PROVE SublistInv'
  OBVIOUS
<1>1. CASE \E sub \in Sub : Insert(sub)
  BY <1>1, InsertDoes
<1>2. CASE \E sub \in Sub : Withdraw(sub)
  BY <1>2, WithdrawDoes
<1>3. CASE \E t \in Threads : \E l \in Literals : MatchCached(t, l)
  BY <1>3, MatchCachedDoes
<1>4. CASE \E t \in Threads : MatchTree(t)
  BY <1>4, MatchTreeDoes
<1>5. CASE UNCHANGED vars
  BY <1>5 DEF vars, SublistInv
<1> QED BY <1>1, <1>2, <1>3, <1>4, <1>5 DEF Next

(* The invariant holds whatever the order of the goroutines' calls.             *)
THEOREM SublistInvariance == Spec => []SublistInv
<1> QED BY InitGood, NextGood, PTL DEF Spec

(* The tree's and the map's shape, and each count, are always as they should be *)
(* (Sublist.TypeOK): whatever subjects come, valid or not.                      *)
THEOREM SublistTypes == Spec => []TypeOK
<1>1. SublistInv => TypeOK
  <2> SUFFICES ASSUME SublistInv PROVE TypeOK
    OBVIOUS
  <2>1. \A p \in DOMAIN nodes : Along(p) \subseteq DOMAIN nodes
    BY DEF SublistInv, TreeGood, IsTree
  <2>2. \A p \in DOMAIN nodes : /\ IsInjective(nodes[p])
                                /\ \A s \in ToSet(nodes[p]) : s \in Sub /\ Walk(Tokens[s.subject]) = p
    BY DEF SublistInv, TreeGood, Filed
  <2>3. count = Cardinality(Inserted)
    BY DEF SublistInv, Counted, Inserted
  <2>4. Sound(cache) /\ cache.used <= CMax
    BY DEF SublistInv, CacheGood, IsMap
  <2>5. pc \in [Threads -> {{}} \union {{l} : l \in Literals}]
    BY DEF SublistInv, Waiting
  <2> QED BY <2>1, <2>2, <2>3, <2>4, <2>5 DEF TypeOK
<1> QED BY <1>1, SublistInvariance, PTL

(* What Remove leaves behind is only what refused subjects have made            *)
(* (Sublist.TreeTidy).                                                          *)
THEOREM TidyAlways == Spec => []TreeTidy
<1>1. SublistInv => TreeTidy
  BY DEF SublistInv, TreeGood, Tidy, BrokenOff, TreeTidy
<1> QED BY <1>1, SublistInvariance, PTL

LEMMA FoundSubs ==
  ASSUME NEW subs \in Found
  PROVE  \A s \in ToSet(subs) : s \in Sub
<1>1. DOMAIN subs = 1..Len(subs) /\ \A i \in 1..Len(subs) : subs[i] \in Sub
  BY LenProperties, ElementOfSeq DEF Found
<1> QED BY <1>1 DEF ToSet

LEMMA RightProper ==
  ASSUME NEW ns, NEW l, NEW subs, Right(ns, l, subs)
  PROVE  \A s : s \in Proper(subs) <=> s \in Sub /\ WellFormed(s.subject) /\ Due(ns, l, s)
<1>1. \A s \in ToSet(subs) : s \in Sub
  BY FoundSubs DEF Right
<1> QED BY <1>1 DEF Right, Proper

(* The cache agrees with the tree (Sublist.CacheAgrees): neither an Insert nor  *)
(* a Remove between two Matches, nor one between a Match's look and its fill,   *)
(* leaves a subscriber out, or one in.                                          *)
THEOREM CacheAgreesAlways == Spec => []CacheAgrees
<1>1. SublistInv => CacheAgrees
  <2> SUFFICES ASSUME SublistInv, NEW l \in ToSet(AllKeys(cache)), IsValidLiteralSubject(l)
               PROVE  /\ Proper(Get(cache, l)[1]) = Proper(matchLevel(nodes, Tokens[l]))
                      /\ \A i, j \in DOMAIN Get(cache, l)[1] :
                            WellFormed(Get(cache, l)[1][i].subject) /\ Get(cache, l)[1][j] = Get(cache, l)[1][i]
                              => j = i
    BY DEF CacheAgrees
  <2>1. IsMap(cache, Found)
    BY DEF SublistInv, CacheGood
  <2>2. l \in DOMAIN Hash /\ Get(cache, l) # <<>>
    <3>1. PICK keys \in Seq(DOMAIN Hash) :
             /\ keys = AllKeys(cache)
             /\ \A k \in DOMAIN Hash : Get(cache, k) # <<>> <=> \E n \in 1..Len(keys) : keys[n] = k
      BY <2>1, KeysAre
    <3>2. PICK n \in 1..Len(keys) : keys[n] = l
      BY <3>1, LenProperties DEF ToSet
    <3>3. l \in DOMAIN Hash
      BY <3>2, ElementOfSeq
    <3> QED BY <3>1, <3>2, <3>3
  <2>3. l \in Literals
    BY <2>2 DEF SublistInv, CacheGood
  <2>4. PICK subs : subs = Get(cache, l)[1] /\ Right(nodes, l, subs)
    BY <2>2, <2>3 DEF SublistInv, CacheGood, CacheRight
  <2>5. Right(nodes, l, matchLevel(nodes, Tokens[l]))
    BY <2>3, SearchRight DEF SublistInv, TreeGood
  <2>6. Proper(subs) = Proper(matchLevel(nodes, Tokens[l]))
    <3>1. \A s : s \in Proper(subs) <=> s \in Proper(matchLevel(nodes, Tokens[l]))
      BY <2>4, <2>5, RightProper
    <3> QED BY <3>1 DEF Proper
  <2>7. \A i, j \in DOMAIN subs : WellFormed(subs[i].subject) /\ subs[j] = subs[i] => j = i
    BY <2>4 DEF Right
  <2> QED BY <2>4, <2>6, <2>7
<1> QED BY <1>1, SublistInvariance, PTL

-----------------------------------------------------------------------------
(* The promise.                                                                 *)

Abstract(s) == [subject |-> Tokens[s.subject], id |-> s.id]

LEMMA AbstractOnce ==
  ASSUME NEW s \in Sub, NEW q \in Sub, Abstract(s) = Abstract(q)
  PROVE  s = q
<1>1. Tokens[s.subject] = Tokens[q.subject] /\ s.id = q.id
  BY DEF Abstract
<1>2. s.subject = q.subject
  BY <1>1, SubIs, TokensOnce
<1> QED BY <1>1, <1>2, SubIs

InterestOf(ns) ==
  {Abstract(s) : s \in {x \in UNION {ToSet(ns[p]) : p \in DOMAIN ns} : WellFormed(x.subject)}}

AnswerOf(a) ==
  {[literal |-> Tokens[x.literal], subs |-> {Abstract(s) : s \in Proper(x.results)}] :
     x \in {y \in a : IsValidLiteralSubject(y.literal)}}

LEMMA InterestIs ==
  ASSUME NEW ns, NEW e
  PROVE  e \in InterestOf(ns) <=> \E s : In(ns, s) /\ WellFormed(s.subject) /\ e = Abstract(s)
BY DEF InterestOf, In

LEMMA InterestSame ==
  ASSUME NEW ns, NEW gs, \A s : WellFormed(s.subject) => (In(gs, s) <=> In(ns, s))
  PROVE  InterestOf(gs) = InterestOf(ns)
<1>1. \A e : e \in InterestOf(gs) <=> e \in InterestOf(ns)
  BY InterestIs
<1> QED BY <1>1 DEF InterestOf

LEMMA InSub == ASSUME NEW ns, Filed(ns), NEW s, In(ns, s) PROVE s \in Sub
BY DEF In, Filed

(* An answer is what the promise says.                                          *)
LEMMA AnswerIs ==
  ASSUME NEW ns, Filed(ns), NEW l \in Literals, IsValidLiteralSubject(l), NEW subs, Right(ns, l, subs)
  PROVE  AnswerOf({[literal |-> l, results |-> subs]}) =
           {[literal |-> Tokens[l],
             subs |-> {e \in InterestOf(ns) : Match(Tokens[l], e.subject)}]}
<1>1. \A s : s \in Proper(subs) <=> s \in Sub /\ WellFormed(s.subject) /\ Due(ns, l, s)
  BY RightProper
<1>2. ASSUME NEW e
      PROVE  (\E s \in Proper(subs) : e = Abstract(s)) <=> e \in InterestOf(ns) /\ Match(Tokens[l], e.subject)
  <2>1. \A s : Abstract(s).subject = Tokens[s.subject]
    BY DEF Abstract
  <2>2. ASSUME NEW s \in Proper(subs), e = Abstract(s)
        PROVE  e \in InterestOf(ns) /\ Match(Tokens[l], e.subject)
    BY <1>1, <2>1, <2>2, InterestIs DEF Due
  <2>3. ASSUME e \in InterestOf(ns), Match(Tokens[l], e.subject)
        PROVE  \E s \in Proper(subs) : e = Abstract(s)
    <3>1. PICK s : In(ns, s) /\ WellFormed(s.subject) /\ e = Abstract(s)
      BY <2>3, InterestIs
    <3>2. s \in Sub /\ Due(ns, l, s)
      BY <2>1, <2>3, <3>1, InSub DEF Due
    <3> QED BY <1>1, <3>1, <3>2
  <2> QED BY <2>2, <2>3
<1>3. {Abstract(s) : s \in Proper(subs)} = {e \in InterestOf(ns) : Match(Tokens[l], e.subject)}
  BY <1>2
<1>4. PICK r : r = [literal |-> l, results |-> subs]
  OBVIOUS
<1>5. r.literal = l /\ r.results = subs
  BY <1>4
<1>6. {y \in {r} : IsValidLiteralSubject(y.literal)} = {r}
  BY <1>5
<1>7. AnswerOf({r}) = {[literal |-> Tokens[r.literal], subs |-> {Abstract(s) : s \in Proper(r.results)}]}
  BY <1>6 DEF AnswerOf
<1>8. AnswerOf({r}) = {[literal |-> Tokens[l], subs |-> {Abstract(s) : s \in Proper(subs)}]}
  BY <1>7, <1>5
<1> QED BY <1>3, <1>4, <1>8

LEMMA AnswerNone ==
  /\ AnswerOf({}) = {}
  /\ \A l, subs : ~IsValidLiteralSubject(l) => AnswerOf({[literal |-> l, results |-> subs]}) = {}
BY DEF AnswerOf

LEMMA InterestInit == Init => Interest!Init
<1> SUFFICES ASSUME Init PROVE Interest!Init
  OBVIOUS
<1>1. Inserted = {} /\ answer = {}
  <2>1. DOMAIN nodes = {}
    BY DEF Init
  <2> QED BY <2>1 DEF Init, Inserted
<1> QED BY <1>1 DEF Interest!Init

LEMMA InterestNext == SublistInv /\ [Next]_vars => [Interest!Next]_(Interest!vars)
<1> SUFFICES ASSUME SublistInv, [Next]_vars PROVE [Interest!Next]_(Interest!vars)
  OBVIOUS
<1> DEFINE before == InterestOf(nodes)
           after == InterestOf(nodes')
           said == AnswerOf(answer')
<1>1. ASSUME after = before, said = {} PROVE Interest!Next
  BY <1>1 DEF Interest!Next, Interest!Forget, InterestOf, AnswerOf, Inserted, Abstract
<1>2. ASSUME NEW sub \in Sub, ~(Abstract(sub) \in before), after = before \union {Abstract(sub)}, said = {}
      PROVE  Interest!Next
  <2>1. Abstract(sub) \in {[subject |-> Tokens[s.subject], id |-> s.id] : s \in Sub}
    BY DEF Abstract
  <2>2. Interest!Insert(Abstract(sub))
    BY <1>2 DEF Interest!Insert, InterestOf, AnswerOf, Inserted, Abstract
  <2> QED BY <2>1, <2>2 DEF Interest!Next
<1>3. ASSUME NEW sub \in Sub, Abstract(sub) \in before, after = before \ {Abstract(sub)}, said = {}
      PROVE  Interest!Next
  <2>1. Abstract(sub) \in {[subject |-> Tokens[s.subject], id |-> s.id] : s \in Sub}
    BY DEF Abstract
  <2>2. Interest!Remove(Abstract(sub))
    BY <1>3 DEF Interest!Remove, InterestOf, AnswerOf, Inserted, Abstract
  <2> QED BY <2>1, <2>2 DEF Interest!Next
<1>4. ASSUME NEW l \in Literals, after = before,
             said = {[literal |-> Tokens[l], subs |-> {e \in before : Match(Tokens[l], e.subject)}]}
      PROVE  Interest!Next
  <2>1. Tokens[l] \in {Tokens[k] : k \in Literals}
    OBVIOUS
  <2>2. Interest!Answer(Tokens[l])
    BY <1>4 DEF Interest!Answer, Interest!Matches, Match, InterestOf, AnswerOf, Inserted, Abstract
  <2> QED BY <2>1, <2>2 DEF Interest!Next
<1>5. /\ IsTree(nodes) /\ Filed(nodes)
  BY DEF SublistInv, TreeGood
<1>6. CASE \E sub \in Sub : Insert(sub)
  <2>1. PICK sub \in Sub : Insert(sub)
    BY <1>6
  <2>2. /\ SublistInv' /\ answer' = {} /\ ~In(nodes, sub)
        /\ IF Refused(Tokens[sub.subject]) = {}
           THEN \A s : In(nodes', s) <=> In(nodes, s) \/ s = sub
           ELSE \A s : In(nodes', s) <=> In(nodes, s)
    BY <2>1, InsertDoes
  <2>3. said = {}
    BY <2>2, AnswerNone
  <2>4. CASE WellFormed(sub.subject)
    <3>1. \A s : In(nodes', s) <=> In(nodes, s) \/ s = sub
      BY <2>2, <2>4 DEF WellFormed
    <3>2. ~(Abstract(sub) \in before)
      <4>1. ASSUME NEW s, In(nodes, s), Abstract(sub) = Abstract(s) PROVE FALSE
        BY <1>5, <2>2, <4>1, InSub, AbstractOnce
      <4> QED BY <4>1, InterestIs
    <3>3. \A e : e \in after <=> e \in before \/ e = Abstract(sub)
      BY <2>4, <3>1, InterestIs
    <3>4. after = before \union {Abstract(sub)}
      <4> HIDE DEF after, before
      <4> QED BY <3>3
    <3> QED BY <1>2, <2>3, <3>2, <3>4
  <2>5. CASE ~WellFormed(sub.subject)
    <3>1. \A s : WellFormed(s.subject) => (In(nodes', s) <=> In(nodes, s))
      BY <2>2, <2>5
    <3>2. after = before
      BY <3>1, InterestSame
    <3> QED BY <1>1, <2>3, <3>2
  <2> QED BY <2>4, <2>5
<1>7. CASE \E sub \in Sub : Withdraw(sub)
  <2>1. PICK sub \in Sub : Withdraw(sub)
    BY <1>7
  <2>2. /\ SublistInv' /\ answer' = {} /\ In(nodes, sub)
        /\ \A s : In(nodes', s) <=> In(nodes, s) /\ s # sub
    BY <2>1, WithdrawDoes
  <2>3. said = {}
    BY <2>2, AnswerNone
  <2>4. CASE WellFormed(sub.subject)
    <3>1. Abstract(sub) \in before
      BY <2>2, <2>4, InterestIs
    <3>2. ASSUME NEW e PROVE e \in after <=> e \in before /\ e # Abstract(sub)
      <4>1. ASSUME NEW s, In(nodes, s), Abstract(sub) = Abstract(s) PROVE s = sub
        BY <1>5, <4>1, InSub, AbstractOnce
      <4> QED BY <2>2, <4>1, InterestIs
    <3>3. after = before \ {Abstract(sub)}
      <4> HIDE DEF after, before
      <4> QED BY <3>2
    <3> QED BY <1>3, <2>3, <3>1, <3>3
  <2>5. CASE ~WellFormed(sub.subject)
    <3>1. \A s : WellFormed(s.subject) => (In(nodes', s) <=> In(nodes, s))
      BY <2>2, <2>5
    <3>2. after = before
      BY <3>1, InterestSame
    <3> QED BY <1>1, <2>3, <3>2
  <2> QED BY <2>4, <2>5
<1>8. ASSUME NEW l \in Literals, NEW subs, Returns(l, subs), nodes' = nodes
      PROVE  Interest!Next
  <2>1. after = before
    BY <1>8
  <2>2. answer' = {[literal |-> l, results |-> subs]}
    BY <1>8 DEF Returns
  <2>3. CASE IsValidLiteralSubject(l)
    <3>1. Right(nodes, l, subs)
      BY <1>8, <2>3 DEF Returns
    <3>2. said = {[literal |-> Tokens[l], subs |-> {e \in before : Match(Tokens[l], e.subject)}]}
      BY <1>5, <2>2, <2>3, <3>1, AnswerIs
    <3> QED BY <1>4, <2>1, <3>2
  <2>4. CASE ~IsValidLiteralSubject(l)
    <3>1. said = {}
      BY <2>2, <2>4, AnswerNone
    <3> QED BY <1>1, <2>1, <3>1
  <2> QED BY <2>3, <2>4
<1>9. CASE \E t \in Threads : MatchTree(t)
  BY <1>8, <1>9, MatchTreeDoes
<1>10. CASE \E t \in Threads : \E l \in Literals : MatchCached(t, l)
  <2>1. PICK t \in Threads, l \in Literals : MatchCached(t, l)
    BY <1>10
  <2>2. /\ nodes' = nodes
        /\ answer' = {} \/ \E subs : Returns(l, subs)
    BY <2>1, MatchCachedDoes
  <2>3. CASE answer' = {}
    <3>1. said = {} /\ after = before
      BY <2>2, <2>3, AnswerNone
    <3> QED BY <1>1, <3>1
  <2>4. CASE \E subs : Returns(l, subs)
    BY <1>8, <2>2, <2>4
  <2> QED BY <2>2, <2>3, <2>4
<1>11. CASE UNCHANGED vars
  <2>1. nodes' = nodes /\ answer' = answer
    BY <1>11 DEF vars
  <2>2. UNCHANGED Interest!vars
    BY <2>1 DEF Interest!vars, Inserted
  <2> QED BY <2>2
<1> QED BY <1>6, <1>7, <1>9, <1>10, <1>11 DEF Next

(* The tree and its cache are a plain set of interests (Sublist.InterestSpec):  *)
(* each operation changes one, pruning takes no other with it, and every Match  *)
(* answers with exactly those that match at some instant while it runs.         *)
THEOREM SublistRefinesInterest == Spec => InterestSpec
<1> QED BY InterestInit, InterestNext, SublistInvariance, PTL DEF Spec, InterestSpec, Interest!Spec
================================================================================
