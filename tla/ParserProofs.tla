------------------------------ MODULE ParserProofs -----------------------------
(* Theorems about Parser: however a stream is cut into reads, what it asks is   *)
(* what is called.                                                              *)
EXTENDS Parser, FiniteSetTheorems, SequenceTheorems, TLAPS

(* Induction up to N, for a set.                                                *)
LEMMA Induct ==
  ASSUME NEW N \in Nat, NEW S, 0 \in S, \A n \in 1..N : n - 1 \in S => n \in S
  PROVE  0..N \subseteq S
<1> SUFFICES ASSUME NEW m \in 0..N, m \notin S PROVE FALSE
  OBVIOUS
<1> DEFINE T == S \cap (0..m)
           f == [t \in T |-> t + 1]
<1>1. IsFiniteSet(0..m)
  BY FS_Interval
<1>2. IsFiniteSet(T)
  BY <1>1, FS_Subset
<1>3. 0 \in T
  OBVIOUS
<1>4. IsFiniteSet(T \ {0}) /\ Cardinality(T \ {0}) = Cardinality(T) - 1 /\ Cardinality(T) \in Nat
  BY <1>2, <1>3, FS_RemoveElement, FS_CardinalityType
<1>5. f \in Injection(T, T \ {0})
  <2>1. \A t \in T : t + 1 \in T \ {0}
    OBVIOUS
  <2>2. \A s, t \in T : s + 1 = t + 1 => s = t
    OBVIOUS
  <2> HIDE DEF T
  <2> QED BY <2>1, <2>2 DEF Injection, IsInjective
<1>6. Cardinality(T) <= Cardinality(T \ {0})
  BY <1>4, <1>5, FS_Injection
<1> QED BY <1>4, <1>6

IsSolution(g, N, base, step) == g[0] = base /\ \A n \in 1..N : g[n] = step[n][g[n - 1]]

(* A recursive definition up to N of values in V has a solution, ...            *)
LEMMA Solution ==
  ASSUME NEW N \in Nat, NEW V, NEW base \in V, NEW step \in [1..N -> [V -> V]]
  PROVE  \E g \in [0..N -> V] : IsSolution(g, N, base, step)
<1> DEFINE Upto(g, m) == g[0] = base /\ \A n \in 1..m : g[n] = step[n][g[n - 1]]
           Has(m) == \E g \in [0..N -> V] : Upto(g, m)
           S == {m \in 0..N : Has(m)}
<1>1. Has(0)
  <2> DEFINE g == [n \in 0..N |-> base]
  <2>1. g \in [0..N -> V] /\ g[0] = base
    OBVIOUS
  <2> HIDE DEF g
  <2>2. \A n \in 1..0 : g[n] = step[n][g[n - 1]]
    OBVIOUS
  <2> QED BY <2>1, <2>2
<1>2. ASSUME NEW m \in 1..N, Has(m - 1) PROVE Has(m)
  <2>1. PICK g \in [0..N -> V] : Upto(g, m - 1)
    BY <1>2
  <2>2. m - 1 \in 0..N /\ m \in 0..N /\ g[m - 1] \in V
    OBVIOUS
  <2>3. PICK v \in V : v = step[m][g[m - 1]]
    BY <2>2
  <2> DEFINE h == [g EXCEPT ![m] = v]
  <2>4. h \in [0..N -> V] /\ h[m] = v /\ \A n \in 0..N : n # m => h[n] = g[n]
    BY <2>2
  <2>5. Upto(h, m)
    <3> HIDE DEF h
    <3>1. h[0] = base
      BY <2>1, <2>4
    <3>2. ASSUME NEW n \in 1..m PROVE h[n] = step[n][h[n - 1]]
      <4>1. n - 1 \in 0..N /\ n - 1 # m /\ n \in 0..N
        OBVIOUS
      <4>2. h[n - 1] = g[n - 1]
        BY <2>4, <4>1
      <4>3. CASE n = m
        BY <2>3, <2>4, <4>2, <4>3
      <4>4. CASE n # m
        <5>1. n \in 1..(m - 1) /\ h[n] = g[n]
          BY <2>4, <4>1, <4>4
        <5>2. g[n] = step[n][g[n - 1]]
          BY <2>1, <5>1
        <5> QED BY <4>2, <5>1, <5>2
      <4> QED BY <4>3, <4>4
    <3> QED BY <3>1, <3>2
  <2> HIDE DEF h
  <2> QED BY <2>4, <2>5
<1>3. 0..N \subseteq S
  <2> HIDE DEF Has
  <2>1. 0 \in S /\ \A n \in 1..N : n - 1 \in S => n \in S
    BY <1>1, <1>2
  <2> HIDE DEF S
  <2> QED BY <2>1, Induct
<1>4. N \in S
  BY <1>3
<1> QED BY <1>4 DEF IsSolution

(* ... and any solution has its values there.                                   *)
LEMMA SolutionType ==
  ASSUME NEW N \in Nat, NEW V, NEW f, f[0] \in V,
         \A n \in 1..N : f[n - 1] \in V => f[n] \in V
  PROVE  \A n \in 0..N : f[n] \in V
<1> DEFINE S == {n \in 0..N : f[n] \in V}
<1>1. 0..N \subseteq S
  <2>1. 0 \in S /\ \A n \in 1..N : n - 1 \in S => n \in S
    OBVIOUS
  <2> HIDE DEF S
  <2> QED BY <2>1, Induct
<1> QED BY <1>1

(* The first k members of a sequence.                                           *)
LEMMA UpTo ==
  ASSUME NEW S, NEW p \in Seq(S), NEW k \in 0..Len(p)
  PROVE  /\ SubSeq(p, 1, k) \in Seq(S) /\ Len(SubSeq(p, 1, k)) = k
         /\ \A j \in 1..k : SubSeq(p, 1, k)[j] = p[j]
<1>1. Len(p) \in Nat /\ \A j \in 1..Len(p) : p[j] \in S
  BY LenProperties, ElementOfSeq
<1>2. 1 \in Int /\ k \in Int /\ \A j \in 1..k : p[j] \in S
  BY <1>1
<1>3. /\ SubSeq(p, 1, k) \in Seq(S)
      /\ Len(SubSeq(p, 1, k)) = IF 1 <= k THEN k - 1 + 1 ELSE 0
      /\ \A j \in 1..(k - 1 + 1) : SubSeq(p, 1, k)[j] = p[1 + j - 1]
  BY ONLY <1>2, SubSeqProperties
<1>4. k \in Nat
  BY <1>1
<1>5. Len(SubSeq(p, 1, k)) = k
  BY <1>3, <1>4
<1>6. ASSUME NEW j \in 1..k PROVE SubSeq(p, 1, k)[j] = p[j]
  <2>1. j \in 1..(k - 1 + 1) /\ 1 + j - 1 = j
    BY <1>4
  <2> QED BY <1>3, <2>1
<1> QED BY <1>3, <1>5, <1>6

(* A sequence that begins another.                                              *)
LEMMA PrefixIs ==
  ASSUME NEW S, NEW p \in Seq(S), NEW q \in Seq(S)
  PROVE  /\ IsPrefix(p, q) <=> Len(p) <= Len(q) /\ \A j \in 1..Len(p) : p[j] = q[j]
         /\ IsPrefix(p, q) <=> Len(p) <= Len(q) /\ p = SubSeq(q, 1, Len(p))
<1>1. Len(p) \in Nat /\ Len(q) \in Nat /\ SubSeq(p, 1, Len(p)) = p
  BY LenProperties, SubSeqFull
<1>2. CASE Len(p) <= Len(q)
  <2>1. Len(p) \in 0..Len(q)
    BY <1>1, <1>2
  <2>2. /\ SubSeq(q, 1, Len(p)) \in Seq(S) /\ Len(SubSeq(q, 1, Len(p))) = Len(p)
        /\ \A j \in 1..Len(p) : SubSeq(q, 1, Len(p))[j] = q[j]
    BY <2>1, UpTo
  <2>3. p = SubSeq(q, 1, Len(p)) <=> \A j \in 1..Len(p) : p[j] = q[j]
    <3>1. ASSUME \A j \in 1..Len(p) : p[j] = q[j] PROVE p = SubSeq(q, 1, Len(p))
      BY <2>2, <3>1, SeqEqual
    <3> QED BY <2>2, <3>1
  <2> QED BY <1>1, <2>3 DEF IsPrefix
<1>3. CASE ~(Len(p) <= Len(q))
  BY <1>3 DEF IsPrefix
<1> QED BY <1>2, <1>3

-----------------------------------------------------------------------------
(* Sequences put together.                                                      *)
Joins(f, n, ss) == f[0] = <<>> /\ \A c \in 1..n : f[c] = f[c - 1] \o ss[c]

LEMMA FlatIs ==
  ASSUME NEW A, NEW ss \in Seq(Seq(A))
  PROVE  \E f \in [0..Len(ss) -> Seq(A)] : Joins(f, Len(ss), ss) /\ FlattenSeq(ss) = f[Len(ss)]
<1> DEFINE V == Seq(A)
<1>1. PICK n \in Nat : n = Len(ss) /\ \A c \in 1..n : ss[c] \in V
  BY LenProperties, ElementOfSeq
<1> DEFINE st == [c \in 1..n |-> [v \in V |-> v \o ss[c]]]
           Eq(f) == f = [c \in 1..n |-> IF c = 1 THEN ss[c] ELSE f[c - 1] \o ss[c]]
<1>2. \A c \in 1..n, v \in V : v \o ss[c] \in V
  BY <1>1, ConcatProperties
<1>3. <<>> \in V
  OBVIOUS
<1>4. PICK g \in [0..n -> V] : Joins(g, n, ss)
  <2> HIDE DEF V
  <2>1. st \in [1..n -> [V -> V]]
    BY <1>2
  <2>2. \A c \in 1..n, v \in V : st[c][v] = v \o ss[c]
    OBVIOUS
  <2> HIDE DEF st
  <2>3. PICK g \in [0..n -> V] : IsSolution(g, n, <<>>, st)
    BY <1>3, <2>1, Solution
  <2>4. \A c \in 1..n : g[c - 1] \in V
    BY <2>3
  <2>5. g[0] = <<>> /\ \A c \in 1..n : g[c] = st[c][g[c - 1]]
    BY Zenon, <2>3 DEF IsSolution
  <2>6. \A c \in 1..n : g[c] = g[c - 1] \o ss[c]
    BY Zenon, <2>2, <2>4, <2>5
  <2>7. Joins(g, n, ss)
    BY Zenon, <2>5, <2>6 DEF Joins
  <2> QED BY Zenon, <2>3, <2>7
<1>5. CASE n = 0
  <2>1. ss = <<>> /\ g[0] = <<>>
    BY <1>1, <1>4, <1>5, EmptySeq DEF Joins
  <2>2. FlattenSeq(ss) = ss
    BY <1>1, <1>5 DEF FlattenSeq
  <2> QED BY <1>1, <1>4, <1>5, <2>1, <2>2
<1>6. CASE n # 0
  <2> DEFINE h == [c \in 1..n |-> g[c]]
  <2>1. Eq(h)
    <3>1. ASSUME NEW c \in 1..n PROVE h[c] = IF c = 1 THEN ss[c] ELSE h[c - 1] \o ss[c]
      <4>1. g[c] = g[c - 1] \o ss[c]
        BY <1>4 DEF Joins
      <4>2. CASE c = 1
        <5>1. g[c - 1] = <<>> /\ ss[c] \in Seq(A)
          BY <1>1, <1>4, <4>2 DEF Joins
        <5>2. <<>> \o ss[c] = ss[c]
          BY ONLY <5>1, ConcatEmptySeq
        <5> QED BY <4>1, <4>2, <5>1, <5>2
      <4>3. CASE c # 1
        <5>1. c - 1 \in 1..n
          BY <4>3
        <5> QED BY <4>1, <4>3, <5>1
      <4> QED BY <4>2, <4>3
    <3>2. h = [c \in 1..n |-> h[c]]
      OBVIOUS
    <3> HIDE DEF h
    <3> QED BY <3>1, <3>2
  <2>2. PICK f : f = CHOOSE x : Eq(x)
    OBVIOUS
  <2>3. Eq(f)
    <3> HIDE DEF Eq, h
    <3> QED BY <2>1, <2>2
  <2>4. FlattenSeq(ss) = f[n]
    <3>1. Len(ss) # 0
      BY <1>1, <1>6
    <3> QED BY <1>1, <2>2, <3>1 DEF FlattenSeq
  <2>5. \A c \in 1..n : f[c] = IF c = 1 THEN ss[c] ELSE f[c - 1] \o ss[c]
    BY <2>3
  <2> DEFINE S == {c \in 0..n : c # 0 => f[c] = g[c]}
  <2>6. 0 \in S
    OBVIOUS
  <2>7. ASSUME NEW c \in 1..n, c - 1 \in S PROVE c \in S
    <3> HIDE DEF Eq, h
    <3>1. g[c] = IF c = 1 THEN ss[c] ELSE g[c - 1] \o ss[c]
      <4>1. h[c] = IF c = 1 THEN ss[c] ELSE h[c - 1] \o ss[c]
        BY <2>1 DEF Eq
      <4>2. h[c] = g[c] /\ (c # 1 => h[c - 1] = g[c - 1])
        BY DEF h
      <4> QED BY <4>1, <4>2
    <3>2. c # 1 => f[c - 1] = g[c - 1]
      BY <2>7
    <3> QED BY <2>5, <3>1, <3>2
  <2>8. 0..n \subseteq S
    <3> HIDE DEF S, Eq, h
    <3> QED BY <2>6, <2>7, Induct
  <2>9. f[n] = g[n]
    <3>1. n \in S
      BY <2>8
    <3> QED BY <1>6, <3>1
  <2> QED BY <1>1, <1>4, <2>4, <2>9
<1> QED BY <1>5, <1>6

(* One more at the end.                                                         *)
LEMMA FlatSteps ==
  ASSUME NEW A, NEW n \in Nat, NEW ss, \A c \in 1..n : ss[c] \in Seq(A)
  PROVE  /\ FlattenSeq([j \in 1..0 |-> ss[j]]) = <<>>
         /\ \A k \in 1..n : FlattenSeq([j \in 1..k |-> ss[j]])
                            = FlattenSeq([j \in 1..(k - 1) |-> ss[j]]) \o ss[k]
         /\ \A k \in 0..n : FlattenSeq([j \in 1..k |-> ss[j]]) \in Seq(A)
<1> DEFINE Fl(k) == FlattenSeq([j \in 1..k |-> ss[j]])
<1>1. ASSUME NEW k \in 0..n
      PROVE  \E f \in [0..k -> Seq(A)] : Joins(f, k, ss) /\ Fl(k) = f[k]
  <2> DEFINE t == [j \in 1..k |-> ss[j]]
  <2>1. k \in Nat /\ \A j \in 1..k : ss[j] \in Seq(A)
    OBVIOUS
  <2>2. t \in Seq(Seq(A)) /\ Len(t) = k /\ \A j \in 1..k : t[j] = ss[j]
    BY <2>1
  <2> HIDE DEF t
  <2>3. PICK f \in [0..k -> Seq(A)] : Joins(f, k, t) /\ FlattenSeq(t) = f[k]
    BY <2>2, FlatIs
  <2>4. Joins(f, k, ss)
    BY <2>2, <2>3 DEF Joins
  <2> QED BY <2>3, <2>4 DEF t
<1> HIDE DEF Fl
<1>2. Fl(0) = <<>>
  <2>1. 0 \in 0..n
    OBVIOUS
  <2>2. PICK f \in [0..0 -> Seq(A)] : Joins(f, 0, ss) /\ Fl(0) = f[0]
    BY <1>1, <2>1
  <2> QED BY Zenon, <2>2 DEF Joins
<1>3. ASSUME NEW k \in 0..n PROVE Fl(k) \in Seq(A)
  <2>1. PICK f \in [0..k -> Seq(A)] : Fl(k) = f[k]
    BY <1>1
  <2>2. k \in 0..k
    OBVIOUS
  <2> QED BY Zenon, <2>1, <2>2
<1>4. ASSUME NEW k \in 1..n PROVE Fl(k) = Fl(k - 1) \o ss[k]
  <2>1. k - 1 \in 0..n /\ k \in 0..n
    OBVIOUS
  <2>2. PICK f \in [0..k -> Seq(A)] : Joins(f, k, ss) /\ Fl(k) = f[k]
    BY <1>1, <2>1
  <2>3. PICK g \in [0..(k - 1) -> Seq(A)] : Joins(g, k - 1, ss) /\ Fl(k - 1) = g[k - 1]
    BY <1>1, <2>1
  <2> DEFINE S == {c \in 0..(k - 1) : f[c] = g[c]}
  <2>4. 0 \in S
    BY <2>2, <2>3 DEF Joins
  <2>5. ASSUME NEW c \in 1..(k - 1), c - 1 \in S PROVE c \in S
    <3>1. c \in 1..k
      OBVIOUS
    <3>2. f[c] = f[c - 1] \o ss[c] /\ g[c] = g[c - 1] \o ss[c]
      BY Zenon, <2>2, <2>3, <3>1 DEF Joins
    <3>3. f[c - 1] = g[c - 1] /\ c \in 0..(k - 1)
      BY <2>5
    <3> QED BY Zenon, <3>2, <3>3
  <2>6. 0..(k - 1) \subseteq S
    <3>1. k - 1 \in Nat
      OBVIOUS
    <3> HIDE DEF S
    <3> QED BY <2>4, <2>5, <3>1, Induct
  <2>7. f[k - 1] = g[k - 1]
    BY <2>6
  <2>8. k \in 1..k
    OBVIOUS
  <2> QED BY Zenon, <2>2, <2>3, <2>7, <2>8 DEF Joins
<1> QED BY <1>2, <1>3, <1>4 DEF Fl

(* What is put together begins as it began.                                     *)
Grows(A, n, F, ss) ==
  /\ \A k \in 0..n : F[k] \in Seq(A)
  /\ \A k \in 1..n : ss[k] \in Seq(A) /\ F[k] = F[k - 1] \o ss[k]

BeginsAs(s, t) == Len(s) <= Len(t) /\ \A j \in 1..Len(s) : t[j] = s[j]

LEMMA Begins ==
  ASSUME NEW A, NEW n \in Nat, NEW F, NEW ss, Grows(A, n, F, ss), NEW m \in 0..n
  PROVE  \A k \in m..n : BeginsAs(F[m], F[k])
<1>0. /\ \A k \in 0..n : F[k] \in Seq(A)
      /\ \A k \in 1..n : ss[k] \in Seq(A) /\ F[k] = F[k - 1] \o ss[k]
  BY DEF Grows
<1> DEFINE Good(k) == Len(F[m]) <= Len(F[k]) /\ \A j \in 1..Len(F[m]) : F[k][j] = F[m][j]
           S == {d \in 0..(n - m) : Good(m + d)}
<1>1. 0 \in S
  <2>1. Len(F[m]) \in Nat
    BY <1>0, LenProperties
  <2> QED BY <2>1
<1>2. ASSUME NEW d \in 1..(n - m), d - 1 \in S PROVE d \in S
  <2>1. PICK k \in 1..n : k = m + d /\ k - 1 = m + (d - 1) /\ k - 1 \in 0..n
    OBVIOUS
  <2>2. Good(k - 1)
    BY <1>2, <2>1
  <2>3. PICK a \in Seq(A), c \in Seq(A) : a = F[k - 1] /\ c = ss[k]
    BY <1>0, <2>1
  <2>4. F[k] = a \o c
    BY <1>0, <2>1, <2>3
  <2>5. /\ Len(a \o c) = Len(a) + Len(c)
        /\ \A j \in 1..(Len(a) + Len(c)) : (a \o c)[j] = IF j <= Len(a) THEN a[j] ELSE c[j - Len(a)]
    BY ConcatProperties
  <2>6. Len(a) \in Nat /\ Len(c) \in Nat /\ Len(F[m]) \in Nat /\ Len(F[m]) <= Len(a)
    BY <2>2, <2>3, LenProperties, <1>0
  <2>7. Len(F[m]) <= Len(F[k])
    BY <2>4, <2>5, <2>6
  <2>8. ASSUME NEW j \in 1..Len(F[m]) PROVE F[k][j] = F[m][j]
    <3>1. j \in 1..(Len(a) + Len(c)) /\ j <= Len(a)
      BY <2>6
    <3>2. (a \o c)[j] = a[j]
      BY <2>5, <3>1
    <3> QED BY <2>2, <2>3, <2>4, <3>2
  <2>9. Good(m + d)
    BY <2>1, <2>7, <2>8
  <2> QED BY <2>9
<1>3. 0..(n - m) \subseteq S
  <2>1. n - m \in Nat
    OBVIOUS
  <2> HIDE DEF S
  <2> QED BY <1>1, <1>2, <2>1, Induct
<1>4. ASSUME NEW k \in m..n PROVE Good(k)
  <2>1. k - m \in 0..(n - m) /\ m + (k - m) = k
    OBVIOUS
  <2>2. k - m \in S
    BY <1>3, <2>1
  <2> QED BY <2>1, <2>2
<1> QED BY <1>4 DEF BeginsAs

-----------------------------------------------------------------------------
(* Bytes; the provers do not know that a literal is a STRING.                   *)
Known == {SP, "TAB", CR, LF, "spoilt", "+", "-", "B", "C", "E", "F", "G", "I", "K", "M", "N",
          "O", "P", "R", "S", "T", "U"}
Octet == STRING \union Known
NoEol == Octet \ {CR, LF}

LEMMA Single ==
  ASSUME NEW S, NEW x \in S
  PROVE  <<x>> \in Seq(S) /\ Len(<<x>>) = 1 /\ <<x>>[1] = x
OBVIOUS

LEMMA Widen ==
  ASSUME NEW S, NEW T, S \subseteq T
  PROVE  Seq(S) \subseteq Seq(T)
BY SeqMonotonic

Cuts == [words : Seq(Seq(Octet)), word : Seq(Octet)]

NoWord == [words |-> <<>>, word |-> <<>>]

LEMMA CutIs ==
  ASSUME NEW c \in Cuts, NEW x \in Octet
  PROVE  /\ Cut(c, x) \in Cuts
         /\ x \in Blank => Cut(c, x) = [words |-> IF c.word = <<>> THEN c.words
                                                  ELSE Append(c.words, c.word), word |-> <<>>]
         /\ x \notin Blank /\ x \in NoEol =>
              Cut(c, x) = [words |-> c.words, word |-> Append(c.word, x)]
<1>1. /\ c.words \in Seq(Seq(Octet)) /\ c.word \in Seq(Octet)
      /\ c = [words |-> c.words, word |-> c.word]
  BY DEF Cuts
<1>2. Append(c.words, c.word) \in Seq(Seq(Octet)) /\ Append(c.word, x) \in Seq(Octet)
  BY <1>1, AppendProperties
<1>3. <<>> \in Seq(Octet)
  OBVIOUS
<1>4. CASE x \in Blank \union {CR, LF}
  <2>1. Cut(c, x) = [words |-> IF c.word = <<>> THEN c.words ELSE Append(c.words, c.word),
                     word |-> <<>>]
    BY <1>4 DEF Cut
  <2> QED BY <1>1, <1>2, <1>3, <1>4, <2>1 DEF Cuts, NoEol
<1>5. CASE x \notin Blank \union {CR, LF}
  <2>1. Cut(c, x) = [words |-> c.words, word |-> Append(c.word, x)]
    BY <1>1, <1>5 DEF Cut
  <2> QED BY <1>1, <1>2, <1>5, <2>1 DEF Cuts
<1> QED BY <1>4, <1>5

(* What splitArg does byte by byte.                                             *)
Splits(f, s) ==
  /\ f \in [0..Len(s) -> Cuts] /\ f[0] = NoWord
  /\ \A n \in 1..Len(s) : f[n] = Cut(f[n - 1], s[n])

LEMMA SplitIs ==
  ASSUME NEW s \in Seq(Octet)
  PROVE  \E f : Splits(f, s) /\ splitArg(s) = Cut(f[Len(s)], SP).words
<1>1. PICK m \in Nat : m = Len(s) /\ \A n \in 1..m : s[n] \in Octet
  BY LenProperties, ElementOfSeq
<1> DEFINE Eq(f) == f = [n \in 0..m |-> IF n = 0 THEN [words |-> <<>>, word |-> <<>>]
                                        ELSE Cut(f[n - 1], s[n])]
           st == [n \in 1..m |-> [v \in Cuts |-> Cut(v, s[n])]]
<1>2. NoWord \in Cuts
  BY DEF NoWord, Cuts
<1>3. \A n \in 1..m, v \in Cuts : Cut(v, s[n]) \in Cuts
  BY <1>1, CutIs
<1>4. PICK g \in [0..m -> Cuts] : g[0] = NoWord /\ \A n \in 1..m : g[n] = Cut(g[n - 1], s[n])
  <2>1. st \in [1..m -> [Cuts -> Cuts]]
    BY <1>3
  <2>2. \A n \in 1..m, v \in Cuts : st[n][v] = Cut(v, s[n])
    OBVIOUS
  <2> HIDE DEF st
  <2>3. PICK g \in [0..m -> Cuts] : IsSolution(g, m, NoWord, st)
    BY <1>2, <2>1, Solution
  <2>4. \A n \in 1..m : g[n - 1] \in Cuts
    BY <2>3
  <2> QED BY <2>2, <2>3, <2>4 DEF IsSolution
<1>5. Eq(g)
  <2>1. g = [n \in 0..m |-> g[n]]
    OBVIOUS
  <2>2. \A n \in 0..m : g[n] = IF n = 0 THEN [words |-> <<>>, word |-> <<>>] ELSE Cut(g[n - 1], s[n])
    <3>1. \A n \in 0..m : n = 0 \/ n \in 1..m
      OBVIOUS
    <3> QED BY <1>4, <3>1 DEF NoWord
  <2> QED BY Zenon, <2>1, <2>2
<1>6. PICK f : f = CHOOSE x : Eq(x)
  OBVIOUS
<1>7. Eq(f)
  <2> HIDE DEF Eq
  <2> QED BY <1>5, <1>6
<1>8. splitArg(s) = Cut(f[m], SP).words
  BY <1>1, <1>6 DEF splitArg
<1>9. f[0] = NoWord /\ \A n \in 1..m : f[n] = Cut(f[n - 1], s[n])
  <2>1. \A n \in 0..m : f[n] = IF n = 0 THEN [words |-> <<>>, word |-> <<>>] ELSE Cut(f[n - 1], s[n])
    BY Zenon, <1>7
  <2>2. 0 \in 0..m /\ \A n \in 1..m : n \in 0..m /\ n # 0
    OBVIOUS
  <2> HIDE DEF Eq
  <2> QED BY <2>1, <2>2 DEF NoWord
<1>10. \A n \in 0..m : f[n] \in Cuts
  <2> HIDE DEF Eq
  <2>1. \A n \in 1..m : f[n - 1] \in Cuts => f[n] \in Cuts
    BY <1>3, <1>9
  <2>2. f[0] \in Cuts
    BY <1>2, <1>9
  <2> QED BY <2>1, <2>2, SolutionType
<1>11. f \in [0..m -> Cuts]
  <2>1. f = [n \in 0..m |-> f[n]]
    BY Zenon, <1>7
  <2> HIDE DEF Eq
  <2> QED BY <1>10, <2>1
<1> HIDE DEF Eq
<1> QED BY <1>1, <1>8, <1>9, <1>11 DEF Splits

(* Words are split from words.                                                  *)
LEMMA SplitType ==
  ASSUME NEW s \in Seq(Octet)
  PROVE  splitArg(s) \in Seq(Seq(Octet))
<1>1. PICK f : Splits(f, s) /\ splitArg(s) = Cut(f[Len(s)], SP).words
  BY SplitIs
<1>2. f[Len(s)] \in Cuts
  <2>1. Len(s) \in 0..Len(s)
    BY LenProperties
  <2> QED BY <1>1, <2>1 DEF Splits
<1>3. Cut(f[Len(s)], SP) \in Cuts
  BY <1>2, CutIs DEF Octet, Known
<1> QED BY <1>1, <1>3 DEF Cuts

(* A size is a number.                                                          *)
LEMMA SizeType ==
  ASSUME NEW d \in Seq(Octet)
  PROVE  parseSize(d) \in Int
<1>1. PICK m \in Nat : m = Len(d)
  BY LenProperties
<1> DEFINE Eq(f) == f = [n \in 0..m |-> IF n = 0 THEN 0 ELSE f[n - 1] * 10 + Digit[d[n]]]
           st == [n \in 1..m |-> [v \in Int |-> v * 10 + Digit[d[n]]]]
<1>2. CASE d = <<>> \/ \E n \in 1..Len(d) : d[n] \notin DOMAIN Digit
  BY <1>2 DEF parseSize
<1>3. CASE ~(d = <<>> \/ \E n \in 1..Len(d) : d[n] \notin DOMAIN Digit)
  <2>1. \A n \in 1..m : Digit[d[n]] \in Int
    <3>1. \A x \in DOMAIN Digit : Digit[x] \in Int
      BY DEF Digit
    <3> QED BY <1>1, <1>3, <3>1
  <2>2. \A n \in 1..m, v \in Int : v * 10 + Digit[d[n]] \in Int
    BY <2>1
  <2>3. PICK g \in [0..m -> Int] : g[0] = 0 /\ \A n \in 1..m : g[n] = g[n - 1] * 10 + Digit[d[n]]
    <3>1. st \in [1..m -> [Int -> Int]]
      BY <2>2
    <3>2. \A n \in 1..m, v \in Int : st[n][v] = v * 10 + Digit[d[n]]
      OBVIOUS
    <3> HIDE DEF st
    <3>3. PICK g \in [0..m -> Int] : IsSolution(g, m, 0, st)
      <4>1. 0 \in Int
        OBVIOUS
      <4> QED BY <3>1, <4>1, Solution
    <3>4. \A n \in 1..m : g[n - 1] \in Int
      BY <3>3
    <3> QED BY <3>2, <3>3, <3>4 DEF IsSolution
  <2>4. Eq(g)
    <3>1. g = [n \in 0..m |-> g[n]]
      OBVIOUS
    <3>2. \A n \in 0..m : g[n] = IF n = 0 THEN 0 ELSE g[n - 1] * 10 + Digit[d[n]]
      BY <2>3
    <3> QED BY Zenon, <3>1, <3>2
  <2>5. PICK f : f = CHOOSE x : Eq(x)
    OBVIOUS
  <2>6. Eq(f)
    <3> HIDE DEF Eq
    <3> QED BY <2>4, <2>5
  <2>7. parseSize(d) = f[m]
    BY <1>1, <1>3, <2>5 DEF parseSize
  <2>8. \A n \in 0..m : f[n] = IF n = 0 THEN 0 ELSE f[n - 1] * 10 + Digit[d[n]]
    BY Zenon, <2>6
  <2>9. \A n \in 0..m : f[n] \in Int
    <3> HIDE DEF Eq
    <3>1. ASSUME NEW n \in 1..m, f[n - 1] \in Int PROVE f[n] \in Int
      <4>1. n \in 0..m /\ n # 0 /\ Digit[d[n]] \in Int
        BY <2>1
      <4>2. f[n] = f[n - 1] * 10 + Digit[d[n]]
        BY <2>8, <4>1
      <4> HIDE DEF Digit
      <4>3. \A x, y \in Int : x * 10 + y \in Int
        OBVIOUS
      <4> QED BY Zenon, <3>1, <4>1, <4>2, <4>3
    <3>2. f[0] \in Int
      BY <2>8
    <3> QED BY <3>1, <3>2, SolutionType
  <2> HIDE DEF Eq
  <2> QED BY <2>7, <2>9
<1> QED BY <1>2, <1>3
-----------------------------------------------------------------------------
(* The parts of an operation: keyword, blank, words, end of line, message.      *)
Blanked(op) == [n \in DOMAIN op.args |-> <<SP>> \o op.args[n]]
ArgText(op) == FlattenSeq(Blanked(op))
Text(op) == SubSeq(ArgText(op), 2, Len(ArgText(op)))

(* What of the text the first k words are.                                      *)
TextTo(op, k) == FlattenSeq([n \in 1..k |-> Blanked(op)[n]])

LEMMA TextSteps ==
  ASSUME NEW S, SP \in S, NEW op, op.args \in Seq(Seq(S))
  PROVE  /\ Len(op.args) \in Nat /\ DOMAIN op.args = 1..Len(op.args)
         /\ \A k \in 1..Len(op.args) : /\ op.args[k] \in Seq(S)
                                       /\ Blanked(op)[k] = <<SP>> \o op.args[k]
                                       /\ Blanked(op)[k] \in Seq(S)
         /\ TextTo(op, 0) = <<>>
         /\ \A k \in 1..Len(op.args) : TextTo(op, k) = TextTo(op, k - 1) \o Blanked(op)[k]
         /\ \A k \in 0..Len(op.args) : TextTo(op, k) \in Seq(S)
         /\ ArgText(op) = TextTo(op, Len(op.args))
<1>1. PICK m \in Nat : m = Len(op.args) /\ DOMAIN op.args = 1..m /\ \A k \in 1..m : op.args[k] \in Seq(S)
  BY LenProperties, ElementOfSeq
<1>2. PICK ss : ss = Blanked(op)
  OBVIOUS
<1>3. \A k \in 1..m : ss[k] = <<SP>> \o op.args[k]
  BY <1>1, <1>2 DEF Blanked
<1>4. ASSUME NEW k \in 1..m PROVE ss[k] \in Seq(S)
  <2>1. <<SP>> \in Seq(S) /\ op.args[k] \in Seq(S)
    BY <1>1
  <2>2. <<SP>> \o op.args[k] \in Seq(S)
    BY ONLY <2>1, ConcatProperties
  <2> QED BY <1>3, <2>2
<1>5. /\ FlattenSeq([j \in 1..0 |-> ss[j]]) = <<>>
      /\ \A k \in 1..m : FlattenSeq([j \in 1..k |-> ss[j]])
                         = FlattenSeq([j \in 1..(k - 1) |-> ss[j]]) \o ss[k]
      /\ \A k \in 0..m : FlattenSeq([j \in 1..k |-> ss[j]]) \in Seq(S)
  BY <1>4, FlatSteps
<1>6. ArgText(op) = TextTo(op, m)
  <2>1. ss = [n \in 1..m |-> ss[n]]
    BY <1>1, <1>2 DEF Blanked
  <2> QED BY <1>2, <2>1 DEF ArgText, TextTo
<1> QED BY Zenon, <1>1, <1>2, <1>3, <1>4, <1>5, <1>6 DEF TextTo

(* From one word to the next.                                                   *)
WordAt(s, n, w) ==
  \A j \in 1..Len(w) : s[n + j] = w[j] /\ w[j] \in NoEol /\ w[j] \notin Blank

NoWordAt(f, n) == f[n].word = <<>>

HasRead(f, n, w) == f[n + Len(w)] = [words |-> f[n].words, word |-> w]

LEMMA WordRead ==
  ASSUME NEW s \in Seq(Octet), NEW f, Splits(f, s), NEW n \in 0..Len(s), NoWordAt(f, n),
         NEW w \in Seq(Octet), n + Len(w) <= Len(s), WordAt(s, n, w)
  PROVE  HasRead(f, n, w)
<1>1. PICK m \in Nat : m = Len(w) /\ n + m <= Len(s) /\ Len(s) \in Nat /\ n \in Nat
  BY LenProperties
<1> DEFINE Good(j) == f[n + j] = [words |-> f[n].words, word |-> SubSeq(w, 1, j)]
           S == {j \in 0..m : Good(j)}
<1>2. \A k \in 0..Len(s) : f[k] \in Cuts
  BY DEF Splits
<1>3. 0 \in S
  <2>1. f[n] = [words |-> f[n].words, word |-> <<>>]
    BY <1>2 DEF Cuts, NoWordAt
  <2>2. SubSeq(w, 1, 0) = <<>> /\ n + 0 = n
    BY <1>1, EmptySeq, UpTo
  <2> QED BY <1>1, <2>1, <2>2
<1>4. ASSUME NEW j \in 1..m, j - 1 \in S PROVE j \in S
  <2>1. n + j \in 1..Len(s) /\ n + (j - 1) \in 0..Len(s) /\ (n + j) - 1 = n + (j - 1)
    BY <1>1
  <2>2. PICK c \in Cuts : c = f[n + (j - 1)]
    BY <1>2, <2>1
  <2>3. c.words = f[n].words /\ c.word = SubSeq(w, 1, j - 1)
    BY <1>4, <2>2
  <2>4. PICK x \in Octet : x = w[j] /\ x \in NoEol /\ x \notin Blank /\ s[n + j] = x
    BY <1>1 DEF NoEol, WordAt
  <2>5. f[n + j] = Cut(c, x)
    BY <2>1, <2>2, <2>4 DEF Splits
  <2>6. f[n + j] = [words |-> c.words, word |-> Append(c.word, x)]
    BY <2>4, <2>5, CutIs
  <2>7. Append(SubSeq(w, 1, j - 1), w[j]) = SubSeq(w, 1, j)
    <3>1. j - 1 \in 0..Len(w) /\ j \in 0..Len(w)
      BY <1>1
    <3>2. PICK p \in Seq(Octet) : p = SubSeq(w, 1, j - 1) /\ Len(p) = j - 1 /\ \A k \in 1..(j - 1) : p[k] = w[k]
      <4>1. /\ SubSeq(w, 1, j - 1) \in Seq(Octet) /\ Len(SubSeq(w, 1, j - 1)) = j - 1
            /\ \A k \in 1..(j - 1) : SubSeq(w, 1, j - 1)[k] = w[k]
        BY ONLY w \in Seq(Octet), <3>1, UpTo
      <4> QED BY <4>1
    <3>3. PICK q \in Seq(Octet) : q = SubSeq(w, 1, j) /\ Len(q) = j /\ \A k \in 1..j : q[k] = w[k]
      <4>1. /\ SubSeq(w, 1, j) \in Seq(Octet) /\ Len(SubSeq(w, 1, j)) = j
            /\ \A k \in 1..j : SubSeq(w, 1, j)[k] = w[k]
        BY ONLY w \in Seq(Octet), <3>1, UpTo
      <4> QED BY <4>1
    <3>4. PICK r \in Seq(Octet) : r = Append(p, x) /\ Len(r) = j /\ r[j] = x /\ \A k \in 1..(j - 1) : r[k] = p[k]
      <4>1. /\ Append(p, x) \in Seq(Octet) /\ Len(Append(p, x)) = Len(p) + 1
            /\ \A k \in 1..Len(p) : Append(p, x)[k] = p[k]
            /\ Append(p, x)[Len(p) + 1] = x
        BY ONLY p \in Seq(Octet), x \in Octet, AppendProperties
      <4>2. Len(p) + 1 = j /\ Len(p) = j - 1
        BY <3>2
      <4> QED BY <4>1, <4>2
    <3>5. \A k \in 1..j : r[k] = q[k]
      BY <2>4, <3>2, <3>3, <3>4
    <3>6. r = q
      BY <3>3, <3>4, <3>5, SeqEqual
    <3> QED BY <2>4, <3>2, <3>3, <3>4, <3>6
  <2>8. Good(j)
    BY <2>3, <2>4, <2>6, <2>7
  <2> QED BY <2>8
<1>5. 0..m \subseteq S
  <2> HIDE DEF S
  <2> QED BY <1>3, <1>4, Induct
<1>6. Good(m)
  <2>1. m \in 0..m
    OBVIOUS
  <2>2. m \in S
    <3> HIDE DEF S
    <3> QED BY <1>5, <2>1
  <2> QED BY <2>2
<1>7. SubSeq(w, 1, Len(w)) = w
  BY SubSeqFull
<1> QED BY <1>1, <1>6, <1>7 DEF HasRead

(* The text has the words, each after a blank.                                  *)
LaidOut(op) ==
  \A k \in 1..Len(op.args) :
    /\ Len(TextTo(op, k)) = Len(TextTo(op, k - 1)) + 1 + Len(op.args[k])
    /\ Len(TextTo(op, k)) <= Len(Text(op)) + 1
    /\ k > 1 => Text(op)[Len(TextTo(op, k - 1))] = SP
    /\ \A j \in 1..Len(op.args[k]) : Text(op)[Len(TextTo(op, k - 1)) + j] = op.args[k][j]

LEMMA TextIs ==
  ASSUME NEW S, SP \in S, NEW op, op.args \in Seq(Seq(S)), op.args # <<>>
  PROVE  /\ ArgText(op) \in Seq(S) /\ Text(op) \in Seq(S) /\ Len(ArgText(op)) = Len(Text(op)) + 1
         /\ ArgText(op)[1] = SP /\ \A j \in 1..Len(Text(op)) : ArgText(op)[j + 1] = Text(op)[j]
         /\ LaidOut(op)
<1>1. PICK m \in Nat : m = Len(op.args)
  BY LenProperties
<1>2. /\ \A k \in 1..m : /\ op.args[k] \in Seq(S) /\ Blanked(op)[k] = <<SP>> \o op.args[k]
                         /\ Blanked(op)[k] \in Seq(S)
      /\ TextTo(op, 0) = <<>>
      /\ \A k \in 1..m : TextTo(op, k) = TextTo(op, k - 1) \o Blanked(op)[k]
      /\ \A k \in 0..m : TextTo(op, k) \in Seq(S)
      /\ ArgText(op) = TextTo(op, m)
  <2>1. /\ \A k \in 1..Len(op.args) : /\ op.args[k] \in Seq(S)
                                       /\ Blanked(op)[k] = <<SP>> \o op.args[k]
                                       /\ Blanked(op)[k] \in Seq(S)
        /\ TextTo(op, 0) = <<>>
        /\ \A k \in 1..Len(op.args) : TextTo(op, k) = TextTo(op, k - 1) \o Blanked(op)[k]
        /\ \A k \in 0..Len(op.args) : TextTo(op, k) \in Seq(S)
        /\ ArgText(op) = TextTo(op, Len(op.args))
    BY TextSteps
  <2> QED BY Zenon, <1>1, <2>1
<1>3. m > 0
  BY <1>1, EmptySeq
<1>4. ASSUME NEW k \in 1..m
      PROVE  /\ Len(TextTo(op, k)) = Len(TextTo(op, k - 1)) + 1 + Len(op.args[k])
             /\ Len(TextTo(op, k)) <= Len(ArgText(op))
             /\ ArgText(op)[Len(TextTo(op, k - 1)) + 1] = SP
             /\ \A j \in 1..Len(op.args[k]) : ArgText(op)[Len(TextTo(op, k - 1)) + 1 + j] = op.args[k][j]
  <2>1. k - 1 \in 0..m /\ k \in 0..m /\ m \in k..m
    OBVIOUS
  <2>2. PICK p \in Seq(S), w \in Seq(S), q \in Seq(S) :
          p = TextTo(op, k - 1) /\ w = op.args[k] /\ q = Blanked(op)[k]
    BY <1>2, <2>1
  <2>3. Len(p) \in Nat /\ Len(w) \in Nat
    BY LenProperties
  <2>4. /\ Len(q) = 1 + Len(w) /\ q[1] = SP /\ \A j \in 1..Len(w) : q[1 + j] = w[j]
    <3>1. q = <<SP>> \o w
      BY <1>2, <2>2
    <3>2. PICK u \in Seq(S) : u = <<SP>> /\ Len(u) = 1 /\ u[1] = SP
      BY Single
    <3>3. /\ Len(u \o w) = Len(u) + Len(w)
          /\ \A j \in 1..(Len(u) + Len(w)) : (u \o w)[j] = IF j <= Len(u) THEN u[j] ELSE w[j - Len(u)]
      BY ONLY ConcatProperties, u \in Seq(S), w \in Seq(S)
    <3>4. \A j \in 1..Len(w) : 1 + j \in 1..(1 + Len(w)) /\ ~(1 + j <= 1) /\ (1 + j) - 1 = j
      BY <2>3
    <3>5. 1 \in 1..(1 + Len(w)) /\ 1 <= 1
      BY <2>3
    <3> QED BY <3>1, <3>2, <3>3, <3>4, <3>5
  <2>5. TextTo(op, k) = p \o q
    BY <1>2, <2>2
  <2>6. PICK r \in Seq(S) :
          /\ r = TextTo(op, k) /\ Len(r) = Len(p) + Len(q)
          /\ \A j \in 1..(Len(p) + Len(q)) : r[j] = IF j <= Len(p) THEN p[j] ELSE q[j - Len(p)]
    <3>1. /\ p \o q \in Seq(S) /\ Len(p \o q) = Len(p) + Len(q)
          /\ \A j \in 1..(Len(p) + Len(q)) : (p \o q)[j] = IF j <= Len(p) THEN p[j] ELSE q[j - Len(p)]
      BY ONLY ConcatProperties, p \in Seq(S), q \in Seq(S)
    <3> QED BY <2>5, <3>1
  <2>7. Len(r) <= Len(ArgText(op)) /\ \A j \in 1..Len(r) : ArgText(op)[j] = r[j]
    <3> DEFINE F == [n \in 0..m |-> TextTo(op, n)]
    <3>1. \A n \in 0..m : F[n] \in Seq(S)
      BY <1>2
    <3>2. \A n \in 1..m : Blanked(op)[n] \in Seq(S) /\ F[n] = F[n - 1] \o Blanked(op)[n]
      <4>1. \A n \in 1..m : n - 1 \in 0..m /\ n \in 0..m
        OBVIOUS
      <4> QED BY <1>2, <4>1
    <3>3. F[k] = r /\ F[m] = ArgText(op)
      BY <1>2, <2>1, <2>6
    <3> HIDE DEF F
    <3>4. BeginsAs(F[k], F[m])
      <4>1. Grows(S, m, F, Blanked(op))
        BY <3>1, <3>2 DEF Grows
      <4> QED BY ONLY m \in Nat, <2>1, <4>1, Begins
    <3> QED BY <3>3, <3>4 DEF BeginsAs
  <2>8. Len(p) + 1 \in 1..Len(r) /\ ~(Len(p) + 1 <= Len(p)) /\ (Len(p) + 1) - Len(p) = 1
    BY <2>3, <2>4, <2>6
  <2>9. ArgText(op)[Len(p) + 1] = SP
    BY <2>4, <2>6, <2>7, <2>8
  <2>10. ASSUME NEW j \in 1..Len(w) PROVE ArgText(op)[Len(p) + 1 + j] = w[j]
    <3>1. /\ Len(p) + 1 + j \in 1..Len(r) /\ ~(Len(p) + 1 + j <= Len(p))
          /\ (Len(p) + 1 + j) - Len(p) = 1 + j
      BY <2>3, <2>4, <2>6
    <3> QED BY <2>4, <2>6, <2>7, <3>1
  <2>11. Len(r) = Len(p) + 1 + Len(w)
    BY <2>3, <2>4, <2>6
  <2> QED BY <2>2, <2>6, <2>7, <2>9, <2>10, <2>11
<1>5. PICK t \in Seq(S), L \in Nat : t = ArgText(op) /\ L = Len(t)
  <2>1. ArgText(op) \in Seq(S)
    BY <1>2
  <2> QED BY <2>1, LenProperties
<1>6. \A k \in 0..m : Len(TextTo(op, k)) \in Nat
  BY <1>2, LenProperties
<1>7. L >= 1 /\ t[1] = SP
  <2>1. 1 \in 1..m /\ Len(TextTo(op, 0)) = 0 /\ Len(op.args[1]) \in Nat
    BY <1>2, <1>3, EmptySeq, LenProperties
  <2>2. Len(TextTo(op, 1)) = 0 + 1 + Len(op.args[1]) /\ Len(TextTo(op, 1)) <= L /\ t[0 + 1] = SP
    <3>1. 1 - 1 = 0
      OBVIOUS
    <3>2. /\ Len(TextTo(op, 1)) = Len(TextTo(op, 1 - 1)) + 1 + Len(op.args[1])
          /\ Len(TextTo(op, 1)) <= Len(ArgText(op))
          /\ ArgText(op)[Len(TextTo(op, 1 - 1)) + 1] = SP
      BY <1>4, <2>1
    <3> QED BY <1>5, <2>1, <3>1, <3>2
  <2> QED BY <2>1, <2>2
<1>8. PICK x \in Seq(S) : x = Text(op) /\ Len(x) = L - 1 /\ \A j \in 1..(L - 1) : x[j] = t[j + 1]
  <2>1. \A j \in 2..L : t[j] \in S
    BY <1>5, ElementOfSeq
  <2>2. /\ SubSeq(t, 2, L) \in Seq(S)
        /\ Len(SubSeq(t, 2, L)) = IF 2 <= L THEN L - 2 + 1 ELSE 0
        /\ \A j \in 1..(L - 2 + 1) : SubSeq(t, 2, L)[j] = t[2 + j - 1]
    <3>1. 2 \in Int /\ L \in Int
      OBVIOUS
    <3> QED BY ONLY <2>1, <3>1, SubSeqProperties
  <2>3. Len(SubSeq(t, 2, L)) = L - 1
    BY <1>7, <2>2
  <2>4. \A j \in 1..(L - 1) : j \in 1..(L - 2 + 1) /\ 2 + j - 1 = j + 1
    BY <1>7
  <2>5. \A j \in 1..(L - 1) : SubSeq(t, 2, L)[j] = t[j + 1]
    BY <2>2, <2>4
  <2> QED BY <1>5, <2>2, <2>3, <2>5 DEF Text
<1>9. ASSUME NEW k \in 1..m
      PROVE  /\ Len(TextTo(op, k)) = Len(TextTo(op, k - 1)) + 1 + Len(op.args[k])
             /\ Len(TextTo(op, k)) <= Len(x) + 1
             /\ k > 1 => x[Len(TextTo(op, k - 1))] = SP
             /\ \A j \in 1..Len(op.args[k]) : x[Len(TextTo(op, k - 1)) + j] = op.args[k][j]
  <2>1. PICK p \in Nat, q \in Nat : p = Len(TextTo(op, k - 1)) /\ q = Len(op.args[k])
    <3>1. k - 1 \in 0..m /\ op.args[k] \in Seq(S)
      BY <1>2
    <3> QED BY <1>6, <3>1, LenProperties
  <2>2. /\ Len(TextTo(op, k)) = p + 1 + q /\ p + 1 + q <= L
        /\ t[p + 1] = SP /\ \A j \in 1..q : t[p + 1 + j] = op.args[k][j]
    BY <1>4, <1>5, <2>1
  <2>3. ASSUME k > 1 PROVE x[p] = SP
    <3>1. k - 1 \in 1..m /\ k - 2 \in 0..m /\ (k - 1) - 1 = k - 2
      BY <2>3
    <3>2. p = Len(TextTo(op, k - 2)) + 1 + Len(op.args[k - 1])
      BY <1>4, <2>1, <3>1
    <3>3. Len(TextTo(op, k - 2)) \in Nat /\ Len(op.args[k - 1]) \in Nat
      BY <1>2, <1>6, <3>1, LenProperties
    <3>4. p \in 1..(L - 1)
      <4>1. PICK c \in Nat, d \in Nat : c = Len(TextTo(op, k - 2)) /\ d = Len(op.args[k - 1])
        BY <3>3
      <4>2. p = c + 1 + d
        BY <3>2, <4>1
      <4> QED BY ONLY <2>2, <4>2, p \in Nat, q \in Nat, c \in Nat, d \in Nat, L \in Nat
    <3> QED BY <1>8, <2>2, <3>4
  <2>4. ASSUME NEW j \in 1..q PROVE x[p + j] = op.args[k][j]
    <3>1. p + j \in 1..(L - 1) /\ (p + j) + 1 = p + 1 + j
      BY <2>2
    <3> QED BY <1>8, <2>2, <3>1
  <2>5. p + 1 + q <= Len(x) + 1
    BY <1>8, <2>2
  <2> QED BY <2>1, <2>2, <2>3, <2>4, <2>5
<1>10. \A j \in 1..Len(x) : t[j + 1] = x[j]
  BY <1>8
<1>11. L = Len(x) + 1
  BY <1>8
<1>12. LaidOut(op)
  BY <1>1, <1>8, <1>9 DEF LaidOut
<1> QED BY <1>1, <1>5, <1>7, <1>8, <1>10, <1>11, <1>12
(* Narrowing a sequence to a set its members are in.                            *)
LEMMA Narrow ==
  ASSUME NEW S, NEW T, NEW s \in Seq(S), \A j \in 1..Len(s) : s[j] \in T
  PROVE  s \in Seq(T)
<1>1. s = [j \in 1..Len(s) |-> s[j]] /\ Len(s) \in Nat
  BY LenProperties
<1> QED BY <1>1

(* splitArg finds the words of the text.                                        *)
LEMMA SplitWords ==
  ASSUME NEW op, op.args \in Seq(Seq(Octet)), op.args # <<>>,
         \A k \in 1..Len(op.args) : \A j \in 1..Len(op.args[k]) :
            op.args[k][j] \in NoEol /\ op.args[k][j] \notin Blank,
         \A k \in 1..Len(op.args) : op.args[k] # <<>>
  PROVE  splitArg(Text(op)) = op.args
<1>1. PICK m \in Nat, args \in Seq(Seq(Octet)) : m = Len(op.args) /\ args = op.args
  BY LenProperties
<1>2. m > 0 /\ \A k \in 1..m : args[k] \in Seq(Octet) /\ Len(args[k]) \in Nat
  <2>1. m > 0
    BY <1>1, EmptySeq
  <2>2. \A k \in 1..m : args[k] \in Seq(Octet)
    BY <1>1, ElementOfSeq
  <2> QED BY <2>1, <2>2, LenProperties
<1>3. SP \in Octet /\ SP \in Blank
  BY DEF Octet, Known, Blank
<1>4. PICK x \in Seq(Octet) : x = Text(op)
  BY <1>3, TextIs
<1> DEFINE T == [k \in 0..m |-> Len(TextTo(op, k))]
<1>5. /\ T[0] = 0 /\ \A k \in 0..m : T[k] \in Nat
      /\ \A k \in 1..m : /\ T[k] = T[k - 1] + 1 + Len(args[k]) /\ T[k] <= Len(x) + 1
                         /\ k > 1 => x[T[k - 1]] = SP
                         /\ \A j \in 1..Len(args[k]) : x[T[k - 1] + j] = args[k][j]
  <2>1. \A k \in 1..m : k - 1 \in 0..m /\ k \in 0..m
    OBVIOUS
  <2>2. TextTo(op, 0) = <<>> /\ \A k \in 0..m : TextTo(op, k) \in Seq(Octet)
    BY <1>1, <1>3, TextSteps
  <2>3. Len(TextTo(op, 0)) = 0 /\ \A k \in 0..m : Len(TextTo(op, k)) \in Nat
    BY <2>2, EmptySeq, LenProperties
  <2>4. \A k \in 1..m :
              /\ Len(TextTo(op, k)) = Len(TextTo(op, k - 1)) + 1 + Len(args[k])
              /\ Len(TextTo(op, k)) <= Len(x) + 1
              /\ k > 1 => x[Len(TextTo(op, k - 1))] = SP
              /\ \A j \in 1..Len(args[k]) : x[Len(TextTo(op, k - 1)) + j] = args[k][j]
    <3>1. LaidOut(op)
      BY <1>3, TextIs
    <3> QED BY <1>1, <1>4, <3>1 DEF LaidOut
  <2>5. \A k \in 0..m : T[k] = Len(TextTo(op, k))
    OBVIOUS
  <2> HIDE DEF T
  <2>6. 0 \in 0..m
    OBVIOUS
  <2> QED BY Zenon, <2>1, <2>3, <2>4, <2>5, <2>6
<1> HIDE DEF T
<1>6. T[m] = Len(x) + 1
  <2>1. ArgText(op) = TextTo(op, m)
    BY <1>1, <1>3, TextSteps
  <2>2. Len(ArgText(op)) = Len(x) + 1
    BY <1>3, <1>4, TextIs
  <2> QED BY <2>1, <2>2 DEF T
<1>7. PICK f : Splits(f, x) /\ splitArg(x) = Cut(f[Len(x)], SP).words
  BY SplitIs
<1>8. \A n \in 0..Len(x) : f[n] \in Cuts
  BY <1>7 DEF Splits
<1> DEFINE Good(k) == f[T[k] - 1] = [words |-> SubSeq(args, 1, k - 1), word |-> args[k]]
           S == {k \in 0..(m - 1) : Good(k + 1)}
<1>9. Len(x) \in Nat
  BY LenProperties
<1>10. ASSUME NEW k \in 1..m, NEW ws, f[T[k - 1]] = [words |-> ws, word |-> <<>>]
       PROVE  f[T[k] - 1] = [words |-> ws, word |-> args[k]]
  <2>1. PICK n \in Nat, w \in Seq(Octet), q \in Nat : n = T[k - 1] /\ w = args[k] /\ q = Len(w)
    <3>1. k - 1 \in 0..m
      OBVIOUS
    <3> QED BY <1>2, <1>5, <3>1
  <2>2. T[k] = n + 1 + q /\ n + 1 + q <= Len(x) + 1 /\ \A j \in 1..q : x[n + j] = w[j]
    BY <1>5, <2>1
  <2>3. n \in 0..Len(x) /\ n + q <= Len(x) /\ T[k] - 1 = n + q
    BY <1>9, <2>2
  <2>4. \A j \in 1..Len(w) : x[n + j] = w[j] /\ w[j] \in NoEol /\ w[j] \notin Blank
    BY <1>1, <2>1, <2>2
  <2>5. f[n].words = ws /\ f[n].word = <<>>
    BY <1>10, <2>1
  <2>6. n + Len(w) <= Len(x)
    BY <2>1, <2>3
  <2>7. f[n + Len(w)] = [words |-> f[n].words, word |-> w]
    <3>1. WordAt(x, n, w)
      BY <2>4 DEF WordAt
    <3>2. x \in Seq(Octet) /\ w \in Seq(Octet) /\ n \in 0..Len(x)
      BY <2>3
    <3>3. Splits(f, x) /\ NoWordAt(f, n)
      BY <1>7, <2>5 DEF NoWordAt
    <3>4. HasRead(f, n, w)
      BY ONLY <2>6, <3>1, <3>2, <3>3, WordRead
    <3> QED BY <3>4 DEF HasRead
  <2> QED BY <2>1, <2>3, <2>5, <2>7
<1>11. SubSeq(args, 1, 0) = <<>>
  <2>1. 0 \in 0..Len(args)
    BY <1>1
  <2>2. SubSeq(args, 1, 0) \in Seq(Seq(Octet)) /\ Len(SubSeq(args, 1, 0)) = 0
    BY <2>1, UpTo
  <2> QED BY <2>2, EmptySeq
<1>12. 0 \in S
  <2>1. f[0] = [words |-> <<>>, word |-> <<>>]
    BY <1>7 DEF Splits, NoWord
  <2>2. f[T[1 - 1]] = [words |-> <<>>, word |-> <<>>] /\ 1 \in 1..m
    BY <1>2, <1>5, <2>1
  <2>3. f[T[1] - 1] = [words |-> <<>>, word |-> args[1]]
    BY <1>10, <2>2
  <2> QED BY <1>2, <1>11, <2>3
<1>13. ASSUME NEW k \in 1..m PROVE Append(SubSeq(args, 1, k - 1), args[k]) = SubSeq(args, 1, k)
  <2>1. k - 1 \in 0..Len(args) /\ k \in 0..Len(args) /\ k \in Nat
    BY <1>1
  <2>2. PICK p \in Seq(Seq(Octet)) : p = SubSeq(args, 1, k - 1) /\ Len(p) = k - 1 /\ \A j \in 1..(k - 1) : p[j] = args[j]
    <3>1. /\ SubSeq(args, 1, k - 1) \in Seq(Seq(Octet)) /\ Len(SubSeq(args, 1, k - 1)) = k - 1
          /\ \A j \in 1..(k - 1) : SubSeq(args, 1, k - 1)[j] = args[j]
      BY ONLY args \in Seq(Seq(Octet)), <2>1, UpTo
    <3> QED BY <3>1
  <2>3. PICK q \in Seq(Seq(Octet)) : q = SubSeq(args, 1, k) /\ Len(q) = k /\ \A j \in 1..k : q[j] = args[j]
    <3>1. /\ SubSeq(args, 1, k) \in Seq(Seq(Octet)) /\ Len(SubSeq(args, 1, k)) = k
          /\ \A j \in 1..k : SubSeq(args, 1, k)[j] = args[j]
      BY ONLY args \in Seq(Seq(Octet)), <2>1, UpTo
    <3> QED BY <3>1
  <2>4. PICK w \in Seq(Octet) : w = args[k]
    BY <1>2
  <2>5. PICK r \in Seq(Seq(Octet)) : r = Append(p, w) /\ Len(r) = k /\ r[k] = w /\ \A j \in 1..(k - 1) : r[j] = p[j]
    <3>1. /\ Append(p, w) \in Seq(Seq(Octet)) /\ Len(Append(p, w)) = Len(p) + 1
          /\ \A j \in 1..Len(p) : Append(p, w)[j] = p[j]
          /\ Append(p, w)[Len(p) + 1] = w
      BY ONLY p \in Seq(Seq(Octet)), w \in Seq(Octet), AppendProperties
    <3>2. Len(p) + 1 = k /\ Len(p) = k - 1
      BY <2>1, <2>2
    <3> QED BY <3>1, <3>2
  <2>6. \A j \in 1..k : r[j] = q[j]
    BY <2>2, <2>3, <2>4, <2>5
  <2>7. r = q
    BY <2>3, <2>5, <2>6, SeqEqual
  <2> QED BY <2>2, <2>3, <2>4, <2>5, <2>7
<1>14. ASSUME NEW k \in 1..(m - 1), k - 1 \in S PROVE k \in S
  <2>1. k \in 1..m /\ k + 1 \in 1..m /\ (k - 1) + 1 = k /\ (k + 1) - 1 = k /\ k \in 0..m
    OBVIOUS
  <2>2. PICK n \in Nat : n = T[k] /\ n >= 1 /\ n <= Len(x) /\ x[n] = SP
    <3>1. T[k] \in Nat /\ T[k + 1] = T[k] + 1 + Len(args[k + 1]) /\ T[k + 1] <= Len(x) + 1 /\ x[T[k]] = SP
      <4>1. /\ T[k + 1] = T[(k + 1) - 1] + 1 + Len(args[k + 1]) /\ T[k + 1] <= Len(x) + 1
            /\ k + 1 > 1 => x[T[(k + 1) - 1]] = SP
        BY <1>5, <2>1
      <4> QED BY <1>5, <2>1, <4>1
    <3>2. PICK d \in Nat, n \in Nat : d = Len(args[k + 1]) /\ n = T[k]
      BY <1>2, <2>1, <3>1
    <3>3. PICK c \in Nat, e \in Nat : c = T[k - 1] /\ e = Len(args[k])
      <4>1. k - 1 \in 0..m
        BY <2>1
      <4> QED BY <1>2, <1>5, <2>1, <4>1
    <3>4. n = c + 1 + e
      BY <1>5, <2>1, <3>2, <3>3
    <3>5. n >= 1 /\ n <= Len(x)
      <4>1. n + 1 + d <= Len(x) + 1
        BY <3>1, <3>2
      <4> QED BY ONLY <1>9, <3>4, <4>1, n \in Nat, c \in Nat, d \in Nat, e \in Nat
    <3> QED BY <3>1, <3>2, <3>5
  <2>3. f[n - 1] = [words |-> SubSeq(args, 1, k - 1), word |-> args[k]]
    BY <1>14, <2>1, <2>2
  <2>4. n \in 1..Len(x) /\ n - 1 \in 0..Len(x)
    BY <1>9, <2>2
  <2>5. f[n] = Cut(f[n - 1], SP) /\ f[n - 1] \in Cuts
    BY <1>7, <1>8, <2>2, <2>4 DEF Splits
  <2>6. f[n] = [words |-> Append(f[n - 1].words, f[n - 1].word), word |-> <<>>]
    <3>1. f[n - 1].word # <<>>
      BY <1>1, <2>1, <2>3
    <3> QED BY <1>3, <2>5, <3>1, CutIs
  <2>7. f[n] = [words |-> SubSeq(args, 1, k), word |-> <<>>]
    <3>1. f[n - 1].words = SubSeq(args, 1, k - 1) /\ f[n - 1].word = args[k]
      BY <2>3
    <3>2. Append(SubSeq(args, 1, k - 1), args[k]) = SubSeq(args, 1, k)
      BY <1>13, <2>1
    <3> QED BY <2>6, <3>1, <3>2
  <2>8. f[T[(k + 1) - 1]] = [words |-> SubSeq(args, 1, k), word |-> <<>>]
    BY <2>1, <2>2, <2>7
  <2>9. f[T[k + 1] - 1] = [words |-> SubSeq(args, 1, k), word |-> args[k + 1]]
    BY <1>10, <2>1, <2>8
  <2> QED BY <2>1, <2>9
<1>15. 0..(m - 1) \subseteq S
  <2>1. m - 1 \in Nat
    BY <1>2
  <2> HIDE DEF S
  <2> QED BY <1>12, <1>14, <2>1, Induct
<1>16. f[Len(x)] = [words |-> SubSeq(args, 1, m - 1), word |-> args[m]]
  <2>1. m - 1 \in 0..(m - 1) /\ (m - 1) + 1 = m
    BY <1>2
  <2>2. Good((m - 1) + 1)
    BY <1>15, <2>1
  <2>3. T[m] - 1 = Len(x)
    BY <1>6, <1>9
  <2> QED BY <2>1, <2>2, <2>3
<1>17. splitArg(x) = Append(SubSeq(args, 1, m - 1), args[m])
  <2>1. args[m] # <<>> /\ Len(x) \in 0..Len(x)
    BY <1>1, <1>2, <1>9
  <2>2. Cut(f[Len(x)], SP).words = Append(f[Len(x)].words, f[Len(x)].word)
    <3>1. f[Len(x)] \in Cuts /\ f[Len(x)].word # <<>>
      BY <1>8, <1>16, <2>1
    <3> QED BY <1>3, <3>1, CutIs
  <2>3. f[Len(x)].words = SubSeq(args, 1, m - 1) /\ f[Len(x)].word = args[m]
    BY <1>16
  <2> QED BY <1>7, <2>2, <2>3
<1>18. splitArg(x) = SubSeq(args, 1, m)
  <2>1. m \in 1..m
    BY <1>2
  <2> QED BY <1>13, <1>17, <2>1
<1> QED BY <1>1, <1>4, <1>18, SubSeqFull
-----------------------------------------------------------------------------
(* What an operation is.                                                        *)
Messages == {"PUB", "MSG"}
Bare == {"PING", "PONG", "OK"}

Clean(op) ==
  /\ op.kind \in DOMAIN Keyword
  /\ op.args \in Seq(Seq(NoEol)) /\ op.payload \in Seq(Octet) /\ op.eol \in {<<LF>>, <<CR, LF>>}
  /\ Len(op.args) \in Words[op.kind]
  /\ \A n \in 1..Len(op.args) : op.args[n] # <<>> /\ op.args[n][1] \notin Blank
  /\ op.kind \notin Lines => \A n \in 1..Len(op.args) : \A m \in 1..Len(op.args[n]) :
                               op.args[n][m] \notin Blank
  /\ op.kind \in Messages => parseSize(Last(op.args)) = Len(op.payload)

LEMMA CleanIs ==
  ASSUME NEW typ, NEW op \in Operation, Sendable(typ, op)
  PROVE  Clean(op)
<1>1. /\ op.kind \in DOMAIN Keyword /\ op.args \in Seq(Seq(STRING))
      /\ op.payload \in Seq(STRING) /\ op.eol \in {<<LF>>, <<CR, LF>>}
  BY DEF Operation
<1>2. STRING \subseteq Octet
  BY DEF Octet
<1>3. op.payload \in Seq(Octet)
  BY <1>1, <1>2, Widen
<1>4. op.args \in Seq(Seq(NoEol))
  <2>1. ASSUME NEW n \in 1..Len(op.args) PROVE op.args[n] \in Seq(NoEol)
    <3>1. PICK w \in Seq(STRING) : w = op.args[n]
      BY <1>1, ElementOfSeq
    <3>2. \A m \in 1..Len(w) : w[m] \in STRING
      BY ElementOfSeq
    <3>3. \A m \in 1..Len(w) : w[m] \notin {CR, LF}
      BY Zenon, <3>1 DEF Sendable
    <3>4. \A m \in 1..Len(w) : w[m] \in NoEol
      BY <1>2, <3>2, <3>3 DEF NoEol
    <3>5. w \in Seq(NoEol)
      BY <3>4, Narrow
    <3> QED BY <3>1, <3>5
  <2> QED BY <1>1, <2>1, Narrow
<1>5. /\ Len(op.args) \in Words[op.kind]
      /\ \A n \in 1..Len(op.args) : op.args[n] # <<>> /\ op.args[n][1] \notin Blank
      /\ op.kind \notin Lines => \A n \in 1..Len(op.args) : \A m \in 1..Len(op.args[n]) :
                                   op.args[n][m] \notin Blank
      /\ op.kind \in {"PUB", "MSG"} => parseSize(Last(op.args)) = Len(op.payload)
  BY Zenon DEF Sendable
<1> QED BY Zenon, <1>1, <1>3, <1>4, <1>5 DEF Clean, Messages

(* The argument has no end of line in it, begins with no blank, and is what the *)
(* words are split from.                                                        *)
LEMMA ArgumentIs ==
  ASSUME NEW op, Clean(op), op.kind \notin Bare
  PROVE  /\ Text(op) \in Seq(NoEol) /\ Len(Text(op)) \in Nat /\ Len(Text(op)) >= 1
         /\ Text(op)[1] \notin Blank
         /\ op.args # <<>> /\ Len(op.args) >= 1
         /\ op.kind \in Lines => Text(op) = op.args[1]
         /\ op.kind \notin Lines => splitArg(Text(op)) = op.args
<1>1. op.args \in Seq(Seq(NoEol)) /\ op.kind \in DOMAIN Keyword /\ Len(op.args) \in Words[op.kind]
  BY DEF Clean
<1>2. SP \in NoEol /\ SP \in Octet /\ NoEol \subseteq Octet
  BY DEF NoEol, Octet, Known, SP, CR, LF
<1>3. Len(op.args) >= 1 /\ (op.kind \in Lines => Len(op.args) = 1)
  <2>1. op.kind \in {"CONNECT", "PUB", "SUB", "UNSUB", "MSG", "INFO", "ERR"}
    BY <1>1 DEF Keyword, Bare
  <2>2. /\ op.kind \in {"CONNECT", "INFO", "ERR"} => Words[op.kind] = {1}
        /\ op.kind \in {"PUB", "SUB"} => Words[op.kind] = {2, 3}
        /\ op.kind = "UNSUB" => Words[op.kind] = {1, 2}
        /\ op.kind = "MSG" => Words[op.kind] = {3, 4}
    BY DEF Words
  <2>3. PICK d \in Nat : d = Len(op.args) /\ d \in Words[op.kind]
    BY <1>1, LenProperties
  <2>4. d >= 1 /\ (op.kind \in {"CONNECT", "INFO", "ERR"} => d = 1)
    <3>1. CASE op.kind \in {"CONNECT", "INFO", "ERR"}
      <4>1. d \in {1}
        BY Zenon, <2>2, <2>3, <3>1
      <4> QED BY <4>1
    <3>2. CASE op.kind \in {"PUB", "SUB"}
      BY <2>2, <2>3, <3>2
    <3>3. CASE op.kind \in {"UNSUB", "MSG"}
      BY <2>2, <2>3, <3>3
    <3> QED BY <2>1, <3>1, <3>2, <3>3
  <2> QED BY <2>3, <2>4 DEF Lines
<1>4. op.args # <<>> /\ 1 \in 1..Len(op.args) /\ Len(op.args) \in Nat
  BY <1>1, <1>3, EmptySeq, LenProperties
<1>5. PICK w \in Seq(NoEol), n \in Nat : w = op.args[1] /\ n = Len(w)
  <2>1. op.args[1] \in Seq(NoEol)
    BY <1>1, <1>4, ElementOfSeq
  <2> QED BY <2>1, LenProperties
<1>6. n >= 1 /\ w[1] \notin Blank
  <2>1. w # <<>> /\ w[1] \notin Blank
    BY <1>4, <1>5 DEF Clean
  <2>2. n # 0
    BY <1>5, <2>1, EmptySeq
  <2> QED BY <2>1, <2>2
<1>7. PICK x \in Seq(NoEol), m \in Nat : x = Text(op) /\ m = Len(x)
  <2>1. Text(op) \in Seq(NoEol)
    BY <1>1, <1>2, <1>4, TextIs
  <2> QED BY <2>1, LenProperties
<1>8. /\ Len(TextTo(op, 1)) = 1 + n /\ 1 + n <= m + 1 /\ \A j \in 1..n : x[j] = w[j]
  <2>1. LaidOut(op)
    BY <1>1, <1>2, <1>4, TextIs
  <2>2. /\ Len(TextTo(op, 1)) = Len(TextTo(op, 1 - 1)) + 1 + Len(op.args[1])
        /\ Len(TextTo(op, 1)) <= Len(Text(op)) + 1
        /\ \A j \in 1..Len(op.args[1]) : Text(op)[Len(TextTo(op, 1 - 1)) + j] = op.args[1][j]
    BY <1>4, <2>1 DEF LaidOut
  <2>3. 1 - 1 = 0
    OBVIOUS
  <2>4. Len(TextTo(op, 1 - 1)) = 0
    <3>1. TextTo(op, 0) = <<>>
      BY <1>1, <1>2, TextSteps
    <3> QED BY <2>3, <3>1, EmptySeq
  <2>5. \A j \in 1..n : 0 + j = j
    OBVIOUS
  <2>6. Len(TextTo(op, 1)) = 1 + n /\ 1 + n <= m + 1
    <3>1. Len(TextTo(op, 1)) = Len(TextTo(op, 1 - 1)) + 1 + Len(op.args[1])
      BY <2>2
    <3>2. Len(TextTo(op, 1)) = 0 + 1 + n
      BY Zenon, <1>5, <2>4, <3>1
    <3>3. Len(TextTo(op, 1)) <= m + 1
      BY Zenon, <1>7, <2>2
    <3> QED BY <3>2, <3>3
  <2>7. \A j \in 1..n : x[0 + j] = w[j]
    BY Zenon, <1>5, <1>7, <2>2, <2>4
  <2> QED BY <2>5, <2>6, <2>7
<1>9. x[1] = w[1] /\ m >= 1
  BY <1>6, <1>8
<1>10. ASSUME op.kind \in Lines PROVE x = w
  <2>1. ArgText(op) = TextTo(op, 1)
    BY <1>1, <1>2, <1>3, <1>10, TextSteps
  <2>2. Len(ArgText(op)) = m + 1
    BY <1>1, <1>2, <1>4, <1>7, TextIs
  <2>3. m = n
    BY <1>8, <2>1, <2>2
  <2>4. w \in Seq(NoEol) /\ x \in Seq(NoEol) /\ Len(w) = Len(x) /\ \A j \in 1..Len(w) : w[j] = x[j]
    BY Zenon, <1>5, <1>7, <1>8, <2>3
  <2> QED BY ONLY <2>4, SeqEqual
<1>11. ASSUME op.kind \notin Lines PROVE splitArg(Text(op)) = op.args
  <2>1. op.args \in Seq(Seq(Octet))
    <3>1. Seq(NoEol) \subseteq Seq(Octet)
      BY <1>2, Widen
    <3>2. Seq(Seq(NoEol)) \subseteq Seq(Seq(Octet))
      BY <3>1, Widen
    <3> QED BY <1>1, <3>2
  <2>2. \A k \in 1..Len(op.args) : op.args[k] # <<>>
    BY DEF Clean
  <2>3. \A k \in 1..Len(op.args) : \A j \in 1..Len(op.args[k]) :
            op.args[k][j] \in NoEol /\ op.args[k][j] \notin Blank
    <3>1. \A k \in 1..Len(op.args) : op.args[k] \in Seq(NoEol)
      BY <1>1, ElementOfSeq
    <3>2. \A k \in 1..Len(op.args) : \A j \in 1..Len(op.args[k]) : op.args[k][j] \in NoEol
      BY <3>1, ElementOfSeq
    <3> QED BY <1>11, <3>2 DEF Clean
  <2> QED BY <1>4, <2>1, <2>2, <2>3, SplitWords
<1> QED BY <1>3, <1>4, <1>5, <1>6, <1>7, <1>9, <1>10, <1>11
(* A sequence of two parts, and of four.                                        *)
LEMMA TwoParts ==
  ASSUME NEW S, NEW p \in Seq(S), NEW q \in Seq(S)
  PROVE  /\ p \o q \in Seq(S) /\ Len(p) \in Nat /\ Len(q) \in Nat /\ Len(p \o q) = Len(p) + Len(q)
         /\ \A j \in 1..Len(p) : (p \o q)[j] = p[j]
         /\ \A j \in 1..Len(q) : (p \o q)[Len(p) + j] = q[j]
<1>1. /\ p \o q \in Seq(S) /\ Len(p \o q) = Len(p) + Len(q)
      /\ \A j \in 1..(Len(p) + Len(q)) : (p \o q)[j] = IF j <= Len(p) THEN p[j] ELSE q[j - Len(p)]
  BY ONLY ConcatProperties, p \in Seq(S), q \in Seq(S)
<1>2. PICK m \in Nat, n \in Nat : m = Len(p) /\ n = Len(q)
  BY LenProperties
<1>3. ASSUME NEW j \in 1..m PROVE (p \o q)[j] = p[j]
  <2>1. j \in 1..(m + n) /\ j <= m
    OBVIOUS
  <2> QED BY <1>1, <1>2, <2>1
<1>4. ASSUME NEW j \in 1..n PROVE (p \o q)[m + j] = q[j]
  <2>1. m + j \in 1..(m + n) /\ ~(m + j <= m) /\ (m + j) - m = j
    OBVIOUS
  <2>2. (p \o q)[m + j] = IF m + j <= m THEN p[m + j] ELSE q[(m + j) - m]
    BY Zenon, <1>1, <1>2, <2>1
  <2> QED BY <2>1, <2>2
<1> QED BY <1>1, <1>2, <1>3, <1>4

Part(s, n, q) == \A j \in 1..Len(q) : s[n + j] = q[j]

LEMMA FourParts ==
  ASSUME NEW S, NEW p \in Seq(S), NEW q \in Seq(S), NEW r \in Seq(S), NEW t \in Seq(S)
  PROVE  /\ p \o q \o r \o t \in Seq(S)
         /\ Len(p) \in Nat /\ Len(q) \in Nat /\ Len(r) \in Nat /\ Len(t) \in Nat
         /\ Len(p \o q \o r \o t) = Len(p) + Len(q) + Len(r) + Len(t)
         /\ Part(p \o q \o r \o t, 0, p) /\ Part(p \o q \o r \o t, Len(p), q)
         /\ Part(p \o q \o r \o t, Len(p) + Len(q), r)
         /\ Part(p \o q \o r \o t, Len(p) + Len(q) + Len(r), t)
<1>1. PICK u \in Seq(S), a \in Nat, c \in Nat :
        /\ u = p \o q /\ a = Len(p) /\ c = Len(q) /\ Len(u) = a + c
        /\ \A j \in 1..a : u[j] = p[j]
        /\ \A j \in 1..c : u[a + j] = q[j]
  <2>1. /\ p \o q \in Seq(S) /\ Len(p) \in Nat /\ Len(q) \in Nat /\ Len(p \o q) = Len(p) + Len(q)
        /\ \A j \in 1..Len(p) : (p \o q)[j] = p[j]
        /\ \A j \in 1..Len(q) : (p \o q)[Len(p) + j] = q[j]
    BY TwoParts
  <2> QED BY Zenon, <2>1
<1>2. PICK v \in Seq(S), d \in Nat :
        /\ v = u \o r /\ d = Len(r) /\ Len(v) = a + c + d
        /\ \A j \in 1..(a + c) : v[j] = u[j]
        /\ \A j \in 1..d : v[a + c + j] = r[j]
  <2>1. /\ u \o r \in Seq(S) /\ Len(u) \in Nat /\ Len(r) \in Nat /\ Len(u \o r) = Len(u) + Len(r)
        /\ \A j \in 1..Len(u) : (u \o r)[j] = u[j]
        /\ \A j \in 1..Len(r) : (u \o r)[Len(u) + j] = r[j]
    BY TwoParts
  <2>2. Len(u) = a + c
    BY <1>1
  <2>3. /\ Len(u \o r) = a + c + Len(r) /\ \A j \in 1..(a + c) : (u \o r)[j] = u[j]
    BY Zenon, <2>1, <2>2
  <2>4. \A j \in 1..Len(r) : (u \o r)[a + c + j] = r[j]
    BY Zenon, <2>1, <2>2
  <2> QED BY Zenon, <2>1, <2>3, <2>4
<1>3. PICK w \in Seq(S), e \in Nat :
        /\ w = v \o t /\ e = Len(t) /\ Len(w) = a + c + d + e
        /\ \A j \in 1..(a + c + d) : w[j] = v[j]
        /\ \A j \in 1..e : w[a + c + d + j] = t[j]
  <2>1. /\ v \o t \in Seq(S) /\ Len(v) \in Nat /\ Len(t) \in Nat /\ Len(v \o t) = Len(v) + Len(t)
        /\ \A j \in 1..Len(v) : (v \o t)[j] = v[j]
        /\ \A j \in 1..Len(t) : (v \o t)[Len(v) + j] = t[j]
    BY TwoParts
  <2>2. Len(v) = a + c + d
    BY <1>2
  <2>3. /\ Len(v \o t) = a + c + d + Len(t) /\ \A j \in 1..(a + c + d) : (v \o t)[j] = v[j]
    BY Zenon, <2>1, <2>2
  <2>4. \A j \in 1..Len(t) : (v \o t)[a + c + d + j] = t[j]
    BY Zenon, <2>1, <2>2
  <2> QED BY Zenon, <2>1, <2>3, <2>4
<1>4. w = p \o q \o r \o t
  BY <1>1, <1>2, <1>3
<1>5. \A j \in 1..a : w[0 + j] = p[j]
  <2>1. \A j \in 1..a : 0 + j = j /\ j \in 1..(a + c) /\ j \in 1..(a + c + d)
    OBVIOUS
  <2> QED BY <1>1, <1>2, <1>3, <2>1
<1>6. ASSUME NEW j \in 1..c PROVE w[a + j] = q[j]
  <2>1. a + j \in 1..(a + c) /\ a + j \in 1..(a + c + d)
    OBVIOUS
  <2>2. w[a + j] = v[a + j]
    BY Zenon, <1>3, <2>1
  <2>3. v[a + j] = u[a + j]
    BY Zenon, <1>2, <2>1
  <2>4. u[a + j] = q[j]
    BY Zenon, <1>1
  <2> QED BY Zenon, <2>2, <2>3, <2>4
<1>7. \A j \in 1..d : w[a + c + j] = r[j]
  <2>1. \A j \in 1..d : a + c + j \in 1..(a + c + d)
    OBVIOUS
  <2> QED BY Zenon, <1>2, <1>3, <2>1
<1>8. Part(w, 0, p) /\ Part(w, a, q) /\ Part(w, a + c, r) /\ Part(w, a + c + d, t)
  BY Zenon, <1>1, <1>2, <1>3, <1>5, <1>6, <1>7 DEF Part
<1> QED BY Zenon, <1>1, <1>2, <1>3, <1>4, <1>8

HeadLen(op) == Len(Keyword[op.kind]) + (IF op.args = <<>> THEN 0 ELSE 1)
LineLen(op) == HeadLen(op) + Len(Text(op)) + Len(op.eol)
Body(op) == op.payload \o <<CR, LF>>
BodyLen(op) == IF op.kind \in Messages THEN Len(op.payload) + 2 ELSE 0

LEMMA KeywordIs ==
  ASSUME NEW kind \in DOMAIN Keyword
  PROVE  Keyword[kind] \in Seq(Octet) /\ Len(Keyword[kind]) \in 3..7
<1>1. Known \subseteq Octet
  BY DEF Octet
<1>2. /\ <<"C", "O", "N", "N", "E", "C", "T">> \in Seq(Known) /\ <<"P", "I", "N", "G">> \in Seq(Known)
      /\ <<"P", "O", "N", "G">> \in Seq(Known) /\ <<"P", "U", "B">> \in Seq(Known)
      /\ <<"S", "U", "B">> \in Seq(Known) /\ <<"U", "N", "S", "U", "B">> \in Seq(Known)
      /\ <<"M", "S", "G">> \in Seq(Known) /\ <<"I", "N", "F", "O">> \in Seq(Known)
      /\ <<"+", "O", "K">> \in Seq(Known) /\ <<"-", "E", "R", "R">> \in Seq(Known)
  BY DEF Known
<1>3. Keyword[kind] \in Seq(Known)
  <2>1. kind \in {"CONNECT", "PING", "PONG", "PUB", "SUB", "UNSUB", "MSG", "INFO", "OK", "ERR"}
    BY DEF Keyword
  <2>2. /\ Keyword["CONNECT"] = <<"C", "O", "N", "N", "E", "C", "T">>
        /\ Keyword["PING"] = <<"P", "I", "N", "G">> /\ Keyword["PONG"] = <<"P", "O", "N", "G">>
        /\ Keyword["PUB"] = <<"P", "U", "B">> /\ Keyword["SUB"] = <<"S", "U", "B">>
        /\ Keyword["UNSUB"] = <<"U", "N", "S", "U", "B">> /\ Keyword["MSG"] = <<"M", "S", "G">>
        /\ Keyword["INFO"] = <<"I", "N", "F", "O">> /\ Keyword["OK"] = <<"+", "O", "K">>
        /\ Keyword["ERR"] = <<"-", "E", "R", "R">>
    BY DEF Keyword
  <2> QED BY Zenon, <1>2, <2>1, <2>2
<1>4. Keyword[kind] \in Seq(Octet)
  BY <1>1, <1>3, Widen
<1>5. Len(Keyword[kind]) \in 3..7
  BY DEF Keyword
<1> QED BY <1>4, <1>5

(* The line ends, and the message.                                              *)
LEMMA EndsAre ==
  ASSUME NEW op, Clean(op)
  PROVE  /\ op.eol \in Seq(Octet)
         /\ \/ Len(op.eol) = 1 /\ op.eol[1] = LF
            \/ Len(op.eol) = 2 /\ op.eol[1] = CR /\ op.eol[2] = LF
         /\ Body(op) \in Seq(Octet) /\ Len(op.payload) \in Nat /\ Len(Body(op)) = Len(op.payload) + 2
         /\ Body(op)[Len(op.payload) + 1] = CR /\ Body(op)[Len(op.payload) + 2] = LF
<1>1. op.payload \in Seq(Octet) /\ op.eol \in {<<LF>>, <<CR, LF>>}
  BY DEF Clean
<1>2. CR \in Octet /\ LF \in Octet
  BY DEF Octet, Known
<1>3. PICK n \in Nat : n = Len(op.payload)
  BY <1>1, LenProperties
<1>4. PICK q \in Seq(Octet) : q = <<CR, LF>> /\ Len(q) = 2 /\ q[1] = CR /\ q[2] = LF
  <2>1. <<CR, LF>> \in Seq(Octet)
    BY <1>2
  <2>2. Len(<<CR, LF>>) = 2 /\ <<CR, LF>>[1] = CR /\ <<CR, LF>>[2] = LF
    OBVIOUS
  <2> QED BY Zenon, <2>1, <2>2
<1>5. /\ op.payload \o q \in Seq(Octet) /\ Len(op.payload \o q) = n + 2
      /\ \A j \in 1..2 : (op.payload \o q)[n + j] = q[j]
  <2>1. /\ op.payload \o q \in Seq(Octet) /\ Len(op.payload \o q) = Len(op.payload) + Len(q)
        /\ \A j \in 1..Len(q) : (op.payload \o q)[Len(op.payload) + j] = q[j]
    BY <1>1, TwoParts
  <2> QED BY Zenon, <1>3, <1>4, <2>1
<1>6. 1 \in 1..2 /\ 2 \in 1..2
  OBVIOUS
<1>7. /\ op.eol \in Seq(Octet)
      /\ \/ Len(op.eol) = 1 /\ op.eol[1] = LF
         \/ Len(op.eol) = 2 /\ op.eol[1] = CR /\ op.eol[2] = LF
  <2>1. CASE op.eol = <<LF>>
    BY <1>2, <2>1, Single
  <2>2. CASE op.eol = <<CR, LF>>
    BY Zenon, <1>4, <2>2
  <2> QED BY <1>1, <2>1, <2>2
<1> QED BY Zenon, <1>3, <1>4, <1>5, <1>6, <1>7 DEF Body
(* Where in a stream that has the operation at n its parts are.                 *)
Written(s, n, op) ==
  /\ \A j \in 1..Len(Keyword[op.kind]) : s[n + j] = Keyword[op.kind][j]
  /\ op.args # <<>> => s[n + HeadLen(op)] = SP
  /\ \A j \in 1..Len(Text(op)) : s[n + HeadLen(op) + j] = Text(op)[j]
  /\ \A j \in 1..Len(op.eol) : s[n + HeadLen(op) + Len(Text(op)) + j] = op.eol[j]
  /\ op.kind \in Messages => \A j \in 1..Len(Body(op)) : s[n + LineLen(op) + j] = Body(op)[j]

Lengths(op) ==
  /\ Len(Keyword[op.kind]) \in 3..7 /\ Len(Text(op)) \in Nat /\ Len(op.eol) \in 1..2
  /\ HeadLen(op) \in Nat /\ LineLen(op) \in Nat /\ BodyLen(op) \in Nat /\ HeadLen(op) >= 3
  /\ LineLen(op) = HeadLen(op) + Len(Text(op)) + Len(op.eol)
  /\ HeadLen(op) = Len(Keyword[op.kind]) + (IF op.kind \in Bare THEN 0 ELSE 1)
  /\ op.args = <<>> <=> op.kind \in Bare
  /\ op.kind \in Bare => Len(Text(op)) = 0

LEMMA LengthsAre ==
  ASSUME NEW op, Clean(op)
  PROVE  Lengths(op) /\ Text(op) \in Seq(Octet)
<1>1. op.kind \in DOMAIN Keyword /\ op.args \in Seq(Seq(NoEol)) /\ Len(op.args) \in Words[op.kind]
  BY DEF Clean
<1>2. Len(Keyword[op.kind]) \in 3..7
  BY <1>1, KeywordIs
<1>3. op.args = <<>> <=> op.kind \in Bare
  <2>1. CASE op.kind \in Bare
    <3>1. Len(op.args) = 0
      BY <1>1, <2>1 DEF Bare, Words
    <3>2. op.args = <<>>
      BY <1>1, <3>1, EmptySeq
    <3> QED BY <2>1, <3>2
  <2>2. CASE op.kind \notin Bare
    BY <2>2, ArgumentIs
  <2> QED BY <2>1, <2>2
<1>4. Text(op) \in Seq(Octet) /\ Len(Text(op)) \in Nat /\ (op.kind \in Bare => Len(Text(op)) = 0)
  <2>1. CASE op.kind \in Bare
    <3>1. SP \in NoEol
      BY DEF NoEol, Octet, Known, SP, CR, LF
    <3>2. Len(op.args) = 0
      BY <1>3, <2>1, EmptySeq
    <3>3. ArgText(op) = <<>>
      BY Zenon, <1>1, <3>1, <3>2, TextSteps
    <3>4. Text(op) = <<>>
      BY <3>3 DEF Text
    <3> QED BY <3>4
  <2>2. CASE op.kind \notin Bare
    <3>1. NoEol \subseteq Octet
      BY DEF NoEol
    <3> QED BY <2>2, <3>1, ArgumentIs, Widen
  <2> QED BY <2>1, <2>2
<1>5. Len(op.eol) \in 1..2 /\ Len(op.payload) \in Nat
  BY EndsAre
<1>6. BodyLen(op) \in Nat
  BY <1>5 DEF BodyLen
<1>7. PICK k \in 3..7, t \in Nat, e \in 1..2 :
        k = Len(Keyword[op.kind]) /\ t = Len(Text(op)) /\ e = Len(op.eol)
  BY <1>2, <1>4, <1>5
<1>8. HeadLen(op) = k + (IF op.kind \in Bare THEN 0 ELSE 1)
  BY <1>3, <1>7 DEF HeadLen
<1>9. HeadLen(op) \in Nat /\ HeadLen(op) >= 3
  BY <1>8
<1>10. LineLen(op) = HeadLen(op) + t + e
  BY <1>7 DEF LineLen
<1>11. LineLen(op) \in Nat
  BY <1>9, <1>10
<1> QED BY Zenon, <1>3, <1>4, <1>6, <1>7, <1>8, <1>9, <1>10, <1>11 DEF Lengths

LEMMA EncodeIs ==
  ASSUME NEW op, Clean(op)
  PROVE  /\ Encode(op) \in Seq(Octet) /\ Len(Encode(op)) = LineLen(op) + BodyLen(op)
         /\ Written(Encode(op), 0, op)
<1>1. op.kind \in DOMAIN Keyword /\ op.args \in Seq(Seq(NoEol))
  BY DEF Clean
<1>2. SP \in NoEol /\ SP \in Octet /\ NoEol \subseteq Octet
  BY DEF NoEol, Octet, Known, SP, CR, LF
<1>3. op.args \in Seq(Seq(Octet))
  <2>1. Seq(NoEol) \subseteq Seq(Octet)
    BY <1>2, Widen
  <2>2. Seq(Seq(NoEol)) \subseteq Seq(Seq(Octet))
    BY <2>1, Widen
  <2> QED BY <1>1, <2>2
<1>4. Lengths(op) /\ Text(op) \in Seq(Octet)
  BY LengthsAre
<1>5. PICK tail : tail = IF op.kind \in Messages THEN Body(op) ELSE <<>>
  OBVIOUS
<1>6. tail \in Seq(Octet) /\ Len(tail) = BodyLen(op)
  BY <1>5, EndsAre DEF BodyLen
<1>7. PICK p \in Seq(Octet), q \in Seq(Octet), r \in Seq(Octet) :
        p = Keyword[op.kind] /\ q = ArgText(op) /\ r = op.eol
  <2>1. ArgText(op) = TextTo(op, Len(op.args)) /\ \A k \in 0..Len(op.args) : TextTo(op, k) \in Seq(Octet)
    BY <1>2, <1>3, TextSteps
  <2>2. Len(op.args) \in 0..Len(op.args)
    BY <1>1, LenProperties
  <2>3. ArgText(op) \in Seq(Octet)
    BY Zenon, <2>1, <2>2
  <2> QED BY <1>1, <2>3, KeywordIs, EndsAre
<1>8. PICK e \in Seq(Octet) :
        /\ e = p \o q \o r \o tail
        /\ Len(p) \in Nat /\ Len(q) \in Nat /\ Len(r) \in Nat /\ Len(tail) \in Nat
        /\ Len(e) = Len(p) + Len(q) + Len(r) + Len(tail)
        /\ Part(e, 0, p) /\ Part(e, Len(p), q) /\ Part(e, Len(p) + Len(q), r)
        /\ Part(e, Len(p) + Len(q) + Len(r), tail)
  <2>1. /\ p \o q \o r \o tail \in Seq(Octet)
        /\ Len(p) \in Nat /\ Len(q) \in Nat /\ Len(r) \in Nat /\ Len(tail) \in Nat
        /\ Len(p \o q \o r \o tail) = Len(p) + Len(q) + Len(r) + Len(tail)
        /\ Part(p \o q \o r \o tail, 0, p) /\ Part(p \o q \o r \o tail, Len(p), q)
        /\ Part(p \o q \o r \o tail, Len(p) + Len(q), r)
        /\ Part(p \o q \o r \o tail, Len(p) + Len(q) + Len(r), tail)
    BY <1>6, FourParts
  <2> QED BY Zenon, <2>1
<1>9. Encode(op) = e
  BY Zenon, <1>5, <1>7, <1>8 DEF Encode, ArgText, Blanked, Messages, Body
<1>10. /\ Len(p) + Len(q) = HeadLen(op) + Len(Text(op))
       /\ op.args # <<>> => /\ HeadLen(op) = Len(p) + 1 /\ Len(q) = Len(Text(op)) + 1 /\ q[1] = SP
                            /\ \A j \in 1..Len(Text(op)) : q[j + 1] = Text(op)[j]
  <2>1. CASE op.args = <<>>
    <3>1. Len(op.args) = 0
      BY <2>1, EmptySeq
    <3>2. q = <<>>
      BY Zenon, <1>1, <1>2, <1>7, <3>1, TextSteps
    <3>3. Len(q) = 0 /\ Len(Text(op)) = 0
      BY <1>4, <2>1, <3>2 DEF Lengths
    <3>4. PICK n \in Nat : n = Len(p) /\ HeadLen(op) = n
      BY <1>7, <1>8, <2>1 DEF HeadLen
    <3> QED BY <2>1, <3>3, <3>4
  <2>2. CASE op.args # <<>>
    <3>1. /\ Len(q) = Len(Text(op)) + 1 /\ q[1] = SP
          /\ \A j \in 1..Len(Text(op)) : q[j + 1] = Text(op)[j]
      BY <1>2, <1>3, <1>7, <2>2, TextIs
    <3>2. HeadLen(op) = Len(p) + 1
      BY <1>7, <2>2 DEF HeadLen
    <3>3. PICK n \in Nat, t \in Nat : n = Len(p) /\ t = Len(Text(op))
      BY <1>4, <1>8 DEF Lengths
    <3>4. Len(p) + Len(q) = HeadLen(op) + Len(Text(op))
      BY <3>1, <3>2, <3>3
    <3> QED BY <3>1, <3>2, <3>4
  <2> QED BY <2>1, <2>2
<1>11. Len(e) = LineLen(op) + BodyLen(op)
  BY <1>4, <1>6, <1>7, <1>8, <1>10 DEF Lengths
<1>12. Written(e, 0, op)
  <2>1. PICK h \in Nat, t \in Nat, n \in Nat, m \in Nat :
          h = HeadLen(op) /\ t = Len(Text(op)) /\ n = Len(p) /\ m = Len(r)
    BY <1>4, <1>8 DEF Lengths
  <2>2. \A j \in 1..n : e[0 + j] = p[j]
    BY <1>8, <2>1 DEF Part
  <2>3. ASSUME op.args # <<>> PROVE e[0 + h] = SP /\ \A j \in 1..t : e[0 + h + j] = Text(op)[j]
    <3>1. h = n + 1 /\ Len(q) = t + 1 /\ q[1] = SP /\ \A j \in 1..t : q[j + 1] = Text(op)[j]
      BY <1>10, <2>1, <2>3
    <3>2. \A j \in 1..(t + 1) : e[n + j] = q[j]
      BY <1>8, <2>1, <3>1 DEF Part
    <3>3. e[n + 1] = SP
      BY <3>1, <3>2
    <3>4. ASSUME NEW j \in 1..t PROVE e[0 + h + j] = Text(op)[j]
      <4>1. j + 1 \in 1..(t + 1) /\ n + (j + 1) = 0 + h + j
        BY <3>1
      <4> QED BY <3>1, <3>2, <4>1
    <3> QED BY <3>1, <3>3, <3>4
  <2>4. op.args = <<>> => \A j \in 1..t : e[0 + h + j] = Text(op)[j]
    BY <1>4, <2>1 DEF Lengths
  <2>5. \A j \in 1..m : e[0 + h + t + j] = r[j]
    <3>1. n + Len(q) = 0 + h + t
      BY <1>10, <2>1
    <3> QED BY Zenon, <1>8, <2>1, <3>1 DEF Part
  <2>6. \A j \in 1..Len(tail) : e[0 + LineLen(op) + j] = tail[j]
    <3>1. n + Len(q) + m = 0 + LineLen(op)
      <4>1. LineLen(op) = h + t + m /\ n + Len(q) = h + t
        BY <1>4, <1>7, <1>10, <2>1 DEF Lengths
      <4> QED BY <4>1
    <3> QED BY Zenon, <1>8, <2>1, <3>1 DEF Part
  <2> QED BY Zenon, <1>5, <1>7, <2>1, <2>2, <2>3, <2>4, <2>5, <2>6 DEF Written
<1> QED BY <1>9, <1>11, <1>12
-----------------------------------------------------------------------------
(* The stream: its first k operations are its first Offset bytes.               *)
SentTo(ops, k) == FlattenSeq([j \in 1..k |-> Encode(ops[j])])
Offset(ops, k) == Len(SentTo(ops, k))

Laid(ops, s) ==
  /\ s \in Seq(Octet) /\ Len(ops) \in Nat /\ Len(s) \in Nat
  /\ Offset(ops, 0) = 0 /\ Offset(ops, Len(ops)) = Len(s)
  /\ \A k \in 0..Len(ops) : Offset(ops, k) \in Nat /\ Offset(ops, k) <= Len(s)
  /\ \A k \in 1..Len(ops) : /\ Offset(ops, k) = Offset(ops, k - 1) + LineLen(ops[k]) + BodyLen(ops[k])
                            /\ Clean(ops[k]) /\ Written(s, Offset(ops, k - 1), ops[k])

LEMMA WrittenAt ==
  ASSUME NEW op, Clean(op), NEW s, NEW n \in Nat,
         \A j \in 1..Len(Encode(op)) : s[n + j] = Encode(op)[j]
  PROVE  Written(s, n, op)
<1>1. PICK h \in Nat, t \in Nat, e \in Nat, k \in 1..7, c \in Nat :
        /\ h = HeadLen(op) /\ t = Len(Text(op)) /\ e = Len(op.eol) /\ k = Len(Keyword[op.kind])
        /\ c = BodyLen(op) /\ h >= 3 /\ k <= h /\ LineLen(op) = h + t + e
  <2>1. Lengths(op)
    BY LengthsAre
  <2>2. /\ HeadLen(op) = Len(Keyword[op.kind]) + (IF op.kind \in Bare THEN 0 ELSE 1)
        /\ Len(Keyword[op.kind]) \in 3..7
    BY <2>1 DEF Lengths
  <2>3. PICK k \in 3..7 : k = Len(Keyword[op.kind])
    BY <2>2
  <2>4. HeadLen(op) = k + (IF op.kind \in Bare THEN 0 ELSE 1)
    BY <2>2, <2>3
  <2>5. k <= HeadLen(op) /\ k \in 1..7
    BY <2>4
  <2>6. /\ HeadLen(op) \in Nat /\ Len(Text(op)) \in Nat /\ Len(op.eol) \in Nat /\ BodyLen(op) \in Nat
        /\ HeadLen(op) >= 3 /\ LineLen(op) = HeadLen(op) + Len(Text(op)) + Len(op.eol)
    <3>1. Len(op.eol) \in 1..2
      BY <2>1 DEF Lengths
    <3>2. Len(op.eol) \in Nat
      BY <3>1
    <3> QED BY Zenon, <2>1, <3>2 DEF Lengths
  <2> QED BY Zenon, <2>3, <2>5, <2>6
<1>2. PICK m \in Nat, x \in Seq(Octet) : m = h + t + e + c /\ x = Encode(op) /\ m = Len(x)
  BY <1>1, EncodeIs
<1>10. m = h + t + e + c /\ h >= 3 /\ k <= h
  BY Zenon, <1>1, <1>2
<1>3. \A j \in 1..m : s[n + j] = x[j]
  BY <1>2
<1>4. Written(x, 0, op)
  BY <1>2, EncodeIs
<1>5. \A j \in 1..k : s[n + j] = Keyword[op.kind][j]
  <2>1. \A j \in 1..k : x[j] = Keyword[op.kind][j]
    <3>1. \A j \in 1..k : x[0 + j] = Keyword[op.kind][j]
      BY Zenon, <1>1, <1>4 DEF Written
    <3> QED BY <3>1
  <2>2. \A j \in 1..k : j \in 1..m
    BY <1>10
  <2> QED BY <1>3, <2>1, <2>2
<1>6. op.args # <<>> => s[n + h] = SP
  <2>1. op.args # <<>> => x[0 + h] = SP
    BY Zenon, <1>1, <1>4 DEF Written
  <2>2. h \in 1..m
    BY <1>10
  <2> QED BY <1>3, <2>1, <2>2
<1>7. \A j \in 1..t : s[n + h + j] = Text(op)[j]
  <2>1. \A j \in 1..t : x[0 + h + j] = Text(op)[j]
    BY Zenon, <1>1, <1>4 DEF Written
  <2>2. \A j \in 1..t : h + j \in 1..m /\ n + h + j = n + (h + j) /\ 0 + h + j = h + j
    BY <1>10
  <2> QED BY Zenon, <1>3, <2>1, <2>2
<1>8. \A j \in 1..e : s[n + h + t + j] = op.eol[j]
  <2>1. \A j \in 1..e : x[0 + h + t + j] = op.eol[j]
    BY Zenon, <1>1, <1>4 DEF Written
  <2>2. \A j \in 1..e : h + t + j \in 1..m /\ n + h + t + j = n + (h + t + j) /\ 0 + h + t + j = h + t + j
    BY <1>10
  <2> QED BY Zenon, <1>3, <2>1, <2>2
<1>9. ASSUME op.kind \in Messages PROVE \A j \in 1..Len(Body(op)) : s[n + LineLen(op) + j] = Body(op)[j]
  <2>1. \A j \in 1..Len(Body(op)) : x[0 + LineLen(op) + j] = Body(op)[j]
    BY Zenon, <1>4, <1>9 DEF Written
  <2>2. Len(Body(op)) = c
    BY <1>1, <1>9, EndsAre DEF BodyLen
  <2>3. PICK l \in Nat : l = LineLen(op) /\ m = l + c
    <3>1. h + t + e \in Nat /\ m = (h + t + e) + c
      BY <1>10
    <3> QED BY Zenon, <1>1, <3>1
  <2>4. ASSUME NEW j \in 1..Len(Body(op)) PROVE s[n + LineLen(op) + j] = Body(op)[j]
    <3>1. j \in 1..c
      BY Zenon, <2>2
    <3>2. l + j \in 1..m /\ n + l + j = n + (l + j) /\ 0 + l + j = l + j
      BY <2>3, <3>1, SMTT(30)
    <3>3. s[n + (l + j)] = x[l + j]
      BY Zenon, <1>3, <3>2
    <3>4. x[0 + l + j] = Body(op)[j]
      BY Zenon, <2>1, <2>3
    <3> QED BY Zenon, <2>3, <3>2, <3>3, <3>4
  <2> QED BY Zenon, <2>4
<1> QED BY Zenon, <1>1, <1>5, <1>6, <1>7, <1>8, <1>9 DEF Written

LEMMA StreamIs ==
  ASSUME NEW ops, Len(ops) \in Nat, DOMAIN ops = 1..Len(ops), \A k \in 1..Len(ops) : Clean(ops[k])
  PROVE  Laid(ops, Stream(ops))
<1>1. PICK n \in Nat : n = Len(ops)
  OBVIOUS
<1>2. PICK ss : ss = [j \in 1..n |-> Encode(ops[j])]
  OBVIOUS
<1>3. \A j \in 1..n : ss[j] = Encode(ops[j]) /\ ss[j] \in Seq(Octet)
  BY <1>1, <1>2, EncodeIs
<1>4. ASSUME NEW k \in 0..n PROVE [j \in 1..k |-> ss[j]] = [j \in 1..k |-> Encode(ops[j])]
  BY <1>3
<1> DEFINE F == [k \in 0..n |-> SentTo(ops, k)]
<1>5. /\ SentTo(ops, 0) = <<>>
      /\ \A k \in 1..n : SentTo(ops, k) = SentTo(ops, k - 1) \o ss[k]
      /\ \A k \in 0..n : SentTo(ops, k) \in Seq(Octet)
  <2>1. /\ FlattenSeq([j \in 1..0 |-> ss[j]]) = <<>>
        /\ \A k \in 1..n : FlattenSeq([j \in 1..k |-> ss[j]])
                           = FlattenSeq([j \in 1..(k - 1) |-> ss[j]]) \o ss[k]
        /\ \A k \in 0..n : FlattenSeq([j \in 1..k |-> ss[j]]) \in Seq(Octet)
    BY <1>3, FlatSteps
  <2>2. \A k \in 0..n : FlattenSeq([j \in 1..k |-> ss[j]]) = SentTo(ops, k)
    BY Zenon, <1>4 DEF SentTo
  <2>3. 0 \in 0..n /\ \A k \in 1..n : k \in 0..n /\ k - 1 \in 0..n
    OBVIOUS
  <2> QED BY Zenon, <2>1, <2>2, <2>3
<1>6. Stream(ops) = SentTo(ops, n)
  BY Zenon, <1>1 DEF Stream, SentTo
<1>7. PICK s \in Seq(Octet) : s = Stream(ops) /\ s = SentTo(ops, n) /\ Len(s) \in Nat
  <2>1. n \in 0..n
    OBVIOUS
  <2> QED BY <1>5, <1>6, <2>1, LenProperties
<1>8. \A k \in 0..n : F[k] = SentTo(ops, k)
  OBVIOUS
<1>9. Grows(Octet, n, F, ss)
  <2>1. \A k \in 1..n : k \in 0..n /\ k - 1 \in 0..n
    OBVIOUS
  <2> HIDE DEF F
  <2> QED BY Zenon, <1>3, <1>5, <1>8, <2>1 DEF Grows
<1> HIDE DEF F
<1>10. ASSUME NEW k \in 0..n PROVE BeginsAs(SentTo(ops, k), s)
  <2>1. n \in k..n /\ n \in 0..n
    OBVIOUS
  <2>2. BeginsAs(F[k], F[n])
    BY <1>9, <2>1, Begins
  <2> QED BY <1>7, <1>8, <2>1, <2>2
<1>11. ASSUME NEW k \in 0..n PROVE Offset(ops, k) \in Nat /\ Offset(ops, k) <= Len(s)
  BY <1>5, <1>10, LenProperties DEF Offset, BeginsAs
<1>12. ASSUME NEW k \in 1..n
       PROVE  /\ Offset(ops, k) = Offset(ops, k - 1) + LineLen(ops[k]) + BodyLen(ops[k])
              /\ Written(s, Offset(ops, k - 1), ops[k])
  <2>1. k - 1 \in 0..n /\ k \in 0..n
    OBVIOUS
  <2>2. PICK p \in Seq(Octet), q \in Seq(Octet) : p = SentTo(ops, k - 1) /\ q = Encode(ops[k])
    BY <1>3, <1>5, <2>1
  <2>3. /\ Len(p \o q) = Len(p) + Len(q) /\ Len(p) \in Nat /\ Len(q) \in Nat
        /\ \A j \in 1..Len(q) : (p \o q)[Len(p) + j] = q[j]
    BY TwoParts
  <2>4. SentTo(ops, k) = p \o q
    BY <1>3, <1>5, <2>2
  <2>5. PICK n0 \in Nat, m \in Nat : n0 = Len(p) /\ m = Len(q) /\ Len(SentTo(ops, k)) = n0 + m
    BY <2>3, <2>4
  <2>6. Clean(ops[k])
    BY <1>1
  <2>7. m = LineLen(ops[k]) + BodyLen(ops[k]) /\ LineLen(ops[k]) \in Nat /\ BodyLen(ops[k]) \in Nat
    BY <2>2, <2>5, <2>6, EncodeIs, LengthsAre DEF Lengths
  <2>8. \A j \in 1..m : s[n0 + j] = q[j]
    <3>1. \A j \in 1..(n0 + m) : s[j] = SentTo(ops, k)[j]
      BY <1>10, <2>1, <2>5 DEF BeginsAs
    <3>2. \A j \in 1..m : n0 + j \in 1..(n0 + m)
      OBVIOUS
    <3> QED BY Zenon, <2>3, <2>4, <2>5, <3>1, <3>2
  <2>9. Written(s, n0, ops[k])
    BY <2>2, <2>5, <2>6, <2>8, WrittenAt
  <2>10. Offset(ops, k) = n0 + m /\ Offset(ops, k - 1) = n0
    BY <2>2, <2>5 DEF Offset
  <2> QED BY <2>7, <2>9, <2>10
<1>13. Offset(ops, 0) = 0 /\ Offset(ops, n) = Len(s)
  BY <1>5, <1>7, EmptySeq DEF Offset
<1> QED BY Zenon, <1>1, <1>7, <1>11, <1>12, <1>13 DEF Laid
-----------------------------------------------------------------------------
(* The states: within a keyword, before, within and after an argument.          *)
LetterStates == {l[1] : l \in Letters}
SpaceStates == {s[1] : s \in Spaces}
ArgStates == SplitStates \union {"INFO_ARG"}
BareStates == {"OP_PING", "OP_PONG", "OP_PLUS_OK"}
MsgStates == {"MSG_PAYLOAD", "MSG_END"}

(* The state after each byte of keyword and blank, ...                          *)
Heads ==
  [PUB |-> <<"OP_P", "OP_PU", "OP_PUB", "OP_PUB_SPC">>,
   SUB |-> <<"OP_S", "OP_SU", "OP_SUB", "OP_SUB_SPC">>,
   UNSUB |-> <<"OP_U", "OP_UN", "OP_UNS", "OP_UNSU", "OP_UNSUB", "OP_UNSUB">>,
   CONNECT |-> <<"OP_C", "OP_CO", "OP_CON", "OP_CONN", "OP_CONNE", "OP_CONNEC", "OP_CONNECT",
                 "OP_CONNECT">>,
   MSG |-> <<"OP_M", "OP_MS", "OP_MSG", "OP_MSG_SPC">>,
   INFO |-> <<"OP_I", "OP_IN", "OP_INF", "OP_INFO", "OP_INFO">>,
   ERR |-> <<"OP_MINUS", "OP_MINUS_E", "OP_MINUS_ER", "OP_MINUS_ERR", "OP_MINUS_ERR_SPC">>,
   PING |-> <<"OP_P", "OP_PI", "OP_PIN", "OP_PING">>,
   PONG |-> <<"OP_P", "OP_PO", "OP_PON", "OP_PONG">>,
   OK |-> <<"OP_PLUS", "OP_PLUS_O", "OP_PLUS_OK">>]

(* ... and within the argument.                                                 *)
ArgState ==
  [PUB |-> "PUB_ARG", SUB |-> "SUB_ARG", UNSUB |-> "UNSUB_ARG", CONNECT |-> "CONNECT_ARG",
   MSG |-> "MSG_ARG", INFO |-> "INFO_ARG", ERR |-> "MINUS_ERR_ARG"]

LetterSets(l) ==
  \/ l \in PubLetters \/ l \in SubLetters \/ l \in UnsubLetters \/ l \in PingLetters
  \/ l \in PongLetters \/ l \in ConnectLetters \/ l \in MsgLetters \/ l \in InfoLetters
  \/ l \in OkLetters \/ l \in ErrLetters

LEMMA LettersAre ==
  ASSUME NEW l
  PROVE  l \in Letters <=> LetterSets(l)
BY DEF Letters, LetterSets

(* A letter leads from a state to one state.                                    *)
LEMMA LetterOnce ==
  ASSUME NEW l \in Letters, NEW m \in Letters, l[1] = m[1], l[2] = m[2]
  PROVE  l[3] = m[3]
<1>1. LetterSets(l) /\ LetterSets(m)
  BY LettersAre
<1> QED BY <1>1 DEF LetterSets, SP, PubLetters, SubLetters, UnsubLetters, PingLetters, PongLetters,
                    ConnectLetters, MsgLetters, InfoLetters, OkLetters, ErrLetters

LEMMA SpaceOnce ==
  ASSUME NEW s \in Spaces, NEW r \in Spaces, s[1] = r[1]
  PROVE  s[2] = r[2]
BY DEF Spaces

(* No state is of two sorts.                                                    *)
LEMMA Sorts ==
  /\ \A st \in LetterStates : st \notin SpaceStates \union ArgStates \union BareStates \union MsgStates \union {"OP_START"}
  /\ \A st \in SpaceStates : st \notin ArgStates \union BareStates \union MsgStates \union {"OP_START"}
  /\ \A st \in ArgStates : st \notin BareStates \union MsgStates \union {"OP_START"}
  /\ \A st \in BareStates : st \notin MsgStates \union {"OP_START"}
  /\ "OP_START" \notin MsgStates
<1>1. \A s \in Spaces : s[1] \in {"OP_PUB_SPC", "OP_SUB_SPC", "OP_UNSUB", "OP_CONNECT", "OP_MSG_SPC",
                                  "OP_INFO", "OP_MINUS_ERR_SPC"}
  BY DEF Spaces
<1>2. ASSUME NEW l \in Letters
      PROVE  l[1] \notin {"OP_PUB_SPC", "OP_SUB_SPC", "OP_UNSUB", "OP_CONNECT", "OP_MSG_SPC", "OP_INFO",
                          "OP_MINUS_ERR_SPC", "INFO_ARG", "OP_START"}
                         \union SplitStates \union BareStates \union MsgStates
  <2>1. LetterSets(l)
    BY LettersAre
  <2> QED BY <2>1 DEF LetterSets, PubLetters, SubLetters, UnsubLetters, PingLetters, PongLetters,
                      ConnectLetters, MsgLetters, InfoLetters, OkLetters, ErrLetters,
                      SplitStates, BareStates, MsgStates
<1> QED BY <1>1, <1>2 DEF LetterStates, SpaceStates, ArgStates, SplitStates, BareStates, MsgStates

(* From one byte of a keyword to the next, and on to the argument.              *)
HeadStep(kind, j) ==
  LET n == Len(Keyword[kind])
  IN /\ j < n => /\ <<Heads[kind][j], Keyword[kind][j + 1], Heads[kind][j + 1]>> \in Letters
                 /\ Keyword[kind][j + 1] \notin Blank
     /\ j = n /\ kind \notin Bare =>
          \/ <<Heads[kind][j], SP, Heads[kind][j + 1]>> \in Letters
          \/ Heads[kind][j] \in SpaceStates /\ Heads[kind][j + 1] = Heads[kind][j]
     /\ j > n => <<Heads[kind][j], ArgState[kind]>> \in Spaces
     /\ j = n /\ kind \in Bare => Heads[kind][j] \in BareStates

LEMMA HeadsAre ==
  ASSUME NEW kind \in DOMAIN Keyword, NEW j \in 1..(Len(Keyword[kind]) + (IF kind \in Bare THEN 0 ELSE 1))
  PROVE  HeadStep(kind, j)
<1>1. kind \in {"CONNECT", "PING", "PONG", "PUB", "SUB", "UNSUB", "MSG", "INFO", "OK", "ERR"}
  BY DEF Keyword
<1>2. \A l \in PubLetters \union SubLetters \union UnsubLetters \union PingLetters \union PongLetters
         \union ConnectLetters \union MsgLetters \union InfoLetters \union OkLetters \union ErrLetters :
        l \in Letters
  BY DEF Letters
<1>3. {"OP_UNSUB", "OP_CONNECT", "OP_INFO"} \subseteq SpaceStates
  <2>1. <<"OP_UNSUB", "UNSUB_ARG">> \in Spaces /\ <<"OP_CONNECT", "CONNECT_ARG">> \in Spaces
        /\ <<"OP_INFO", "INFO_ARG">> \in Spaces
    BY DEF Spaces
  <2> QED BY <2>1 DEF SpaceStates
<1>4. CASE kind = "CONNECT"
  BY <1>2, <1>3, <1>4 DEF HeadStep, Heads, Keyword, ArgState, Bare, BareStates, Spaces, Blank, SP, ConnectLetters
<1>5. CASE kind = "PING"
  BY <1>2, <1>3, <1>5 DEF HeadStep, Heads, Keyword, ArgState, Bare, BareStates, Spaces, Blank, SP, PingLetters, PubLetters
<1>6. CASE kind = "PONG"
  BY <1>2, <1>3, <1>6 DEF HeadStep, Heads, Keyword, ArgState, Bare, BareStates, Spaces, Blank, SP, PongLetters, PubLetters
<1>7. CASE kind = "PUB"
  BY <1>2, <1>3, <1>7 DEF HeadStep, Heads, Keyword, ArgState, Bare, BareStates, Spaces, Blank, SP, PubLetters
<1>8. CASE kind = "SUB"
  BY <1>2, <1>3, <1>8 DEF HeadStep, Heads, Keyword, ArgState, Bare, BareStates, Spaces, Blank, SP, SubLetters
<1>9. CASE kind = "UNSUB"
  BY <1>2, <1>3, <1>9 DEF HeadStep, Heads, Keyword, ArgState, Bare, BareStates, Spaces, Blank, SP, UnsubLetters
<1>10. CASE kind = "MSG"
  BY <1>2, <1>3, <1>10 DEF HeadStep, Heads, Keyword, ArgState, Bare, BareStates, Spaces, Blank, SP, MsgLetters
<1>11. CASE kind = "INFO"
  BY <1>2, <1>3, <1>11 DEF HeadStep, Heads, Keyword, ArgState, Bare, BareStates, Spaces, Blank, SP, InfoLetters
<1>12. CASE kind = "OK"
  BY <1>2, <1>3, <1>12 DEF HeadStep, Heads, Keyword, ArgState, Bare, BareStates, Spaces, Blank, SP, OkLetters
<1>13. CASE kind = "ERR"
  BY <1>2, <1>3, <1>13 DEF HeadStep, Heads, Keyword, ArgState, Bare, BareStates, Spaces, Blank, SP, ErrLetters
<1> QED BY <1>1, <1>4, <1>5, <1>6, <1>7, <1>8, <1>9, <1>10, <1>11, <1>12, <1>13
-----------------------------------------------------------------------------
(* The inductive invariant: the types, and where in the stream the parser is.   *)
States == {"OP_START"} \union {"OP_P", "OP_S", "OP_U", "OP_C", "OP_I", "OP_M", "OP_PLUS", "OP_MINUS"}
       \union {l[3] : l \in Letters} \union {s[2] : s \in Spaces} \union {"MSG_PAYLOAD", "MSG_END"}

Slices == {{}} \union {{s} : s \in Seq(Octet)}

PaType == [subject : Seq(Octet), reply : Slices, sid : Slices, szb : Seq(Octet), size : Nat,
           inBuf : BOOLEAN]

Errors == {"nil", "parse", "payload", "authorization", "panic"}

(* What no byte changes, and what one may.                                      *)
FixedTyped ==
  /\ \E in \in Inputs : input = [typ |-> in.typ, ops |-> in.ops, auth |-> in.auth,
                                 stream |-> Stream(in.ops)]
  /\ lo \in Nat /\ hi \in Nat /\ lo <= hi /\ hi <= Len(input.stream)
  /\ reads \in Nat /\ (reads < MaxReads \/ (reads = MaxReads /\ hi = Len(input.stream)))
  /\ parsing \in BOOLEAN /\ infoSplit \in BOOLEAN /\ msgCap \in Int

MovingTyped ==
  /\ i \in Nat /\ start \in Nat /\ drop \in {0, 1}
  /\ argBuf \in Slices /\ msgBuf \in Slices /\ pa \in PaType
  /\ state \in States /\ err \in Errors /\ authTimer \in BOOLEAN /\ authSet \in BOOLEAN

Typed == FixedTyped /\ MovingTyped

(* What the first k operations ask.                                             *)
CalledTo(ops, k) == FlattenSeq([j \in 1..k |-> Asks(ops[j])])

Position == IF parsing THEN lo + i ELSE hi

(* Bytes of operation k that are consumed.                                      *)
Into(k) == Position - Offset(input.ops, k - 1)

(* Between operations.                                                          *)
AtStart(k) ==
  /\ state = "OP_START" /\ Into(k) = 0 /\ Position <= hi
  /\ argBuf = {} /\ msgBuf = {} /\ drop = 0

(* Within the keyword and the blank after it.                                   *)
InHead(k) ==
  LET op == input.ops[k]
  IN /\ Into(k) \in 1..HeadLen(op) /\ Position <= hi
     /\ state = Heads[op.kind][Into(k)]
     /\ argBuf = {} /\ msgBuf = {} /\ drop = 0

(* Within the line end of an operation without arguments.                       *)
InBare(k) ==
  LET op == input.ops[k]
  IN /\ op.kind \in Bare
     /\ Into(k) \in (HeadLen(op) + 1)..(LineLen(op) - 1) /\ Position <= hi
     /\ state = Heads[op.kind][HeadLen(op)]
     /\ argBuf = {} /\ msgBuf = {} /\ drop = 0

(* Within the argument: what there is of it is in argBuf, or begins at start in *)
(* the read; after its CR, drop is set.                                         *)
InArg(k) ==
  LET op == input.ops[k]
      got == Into(k) - HeadLen(op)
  IN /\ op.kind \notin Bare
     /\ got \in 1..(Len(Text(op)) + Len(op.eol) - 1) /\ Position <= hi
     /\ state = ArgState[op.kind]
     /\ msgBuf = {}
     /\ drop = IF got > Len(Text(op)) THEN 1 ELSE 0
     /\ \/ argBuf = {} /\ parsing /\ lo + start = Offset(input.ops, k - 1) + HeadLen(op)
        \/ op.kind # "INFO" /\ argBuf = {SubSeq(Text(op), 1, got - drop)}

(* pa says what the operation says.                                             *)
Parsed(op) ==
  /\ pa.subject = op.args[1] /\ pa.size = Len(op.payload)
  /\ pa.sid = (IF op.kind = "MSG" THEN {op.args[2]} ELSE {})
  /\ pa.reply = (IF Len(op.args) = (IF op.kind = "MSG" THEN 4 ELSE 3)
                 THEN {op.args[Len(op.args) - 1]} ELSE {})

(* Within the message, all of it in this read: it begins at start.              *)
InBody(k) ==
  LET op == input.ops[k]
  IN /\ op.kind \in Messages /\ Parsed(op) /\ drop = 0 /\ Refusal(k) = "nil"
     /\ msgBuf = {} /\ parsing /\ (argBuf # {} => ~pa.inBuf)
     /\ lo + start = Offset(input.ops, k - 1) + LineLen(op) /\ start <= hi - lo
     /\ \/ state = "MSG_PAYLOAD" /\ i - start \in -1..Len(op.payload)
        \/ state = "MSG_END" /\ i - start = Len(op.payload) + 1 /\ i <= hi - lo

(* Within the message, what there is of it is in msgBuf.                        *)
InCopy(k) ==
  LET op == input.ops[k]
      got == Into(k) - LineLen(op)
  IN /\ op.kind \in Messages /\ Parsed(op) /\ drop = 0 /\ Refusal(k) = "nil"
     /\ ~pa.inBuf /\ Position <= hi
     /\ msgBuf = {SubSeq(Body(op), 1, got)}
     /\ \/ state = "MSG_PAYLOAD" /\ got \in 0..Len(op.payload) /\ Len(op.payload) <= msgCap
        \/ state = "MSG_END" /\ got \in Len(op.payload)..(Len(op.payload) + 1)

(* What has been asked has been called, and no more; the timer runs until the   *)
(* first operation.                                                             *)
Upto(k) ==
  /\ k \in 1..(Len(input.ops) + 1)
  /\ calls = CalledTo(input.ops, k - 1)
  /\ \A j \in 1..(k - 1) : Refusal(j) = "nil"
  /\ authTimer <=> (input.auth /\ k = 1)
  /\ parsing => (authSet <=> authTimer)
  /\ input.typ = "CLIENT" => pa.sid = {}

Admitted(k) == k <= Len(input.ops) /\ ~(k = 1 /\ input.auth /\ input.ops[k].kind # "CONNECT")

Within(k) == InHead(k) \/ InBare(k) \/ InArg(k) \/ InBody(k) \/ InCopy(k)

At(k) ==
  /\ Upto(k)
  /\ \/ err = "nil" /\ AtStart(k)
     \/ err = "nil" /\ Admitted(k) /\ Within(k)
     \/ err # "nil" /\ parsing /\ k <= Len(input.ops) /\ err = Refusal(k)

Somewhere == ~infoSplit => \E k \in 1..(Len(input.ops) + 1) : At(k)

ParserInv == Typed /\ Somewhere

(* What is known of the stream.                                                 *)
OpKnown(k) ==
  LET op == input.ops[k]
  IN /\ Clean(op) /\ Lengths(op) /\ Text(op) \in Seq(Octet)
     /\ op.kind = "PUB" => input.typ = "CLIENT"
     /\ op.kind = "MSG" => input.typ = "ROUTER"
     /\ Written(input.stream, Offset(input.ops, k - 1), op)
     /\ Offset(input.ops, k - 1) \in Nat /\ Offset(input.ops, k) \in Nat
     /\ Offset(input.ops, k) = Offset(input.ops, k - 1) + LineLen(op) + BodyLen(op)
     /\ Offset(input.ops, k) <= Len(input.stream)
LEMMA StreamKnown ==
  ASSUME Typed
  PROVE  /\ input.stream \in Seq(Octet) /\ Len(input.stream) \in Nat /\ Len(input.ops) \in Nat
         /\ DOMAIN input.ops = 1..Len(input.ops)
         /\ Offset(input.ops, 0) = 0 /\ Offset(input.ops, Len(input.ops)) = Len(input.stream)
         /\ \A k \in 0..Len(input.ops) : Offset(input.ops, k) \in Nat
         /\ \A k \in 1..Len(input.ops) : OpKnown(k)
<1>1. PICK in \in Inputs : input = [typ |-> in.typ, ops |-> in.ops, auth |-> in.auth,
                                    stream |-> Stream(in.ops)]
  BY DEF Typed, FixedTyped
<1>2. in.ops \in Seq(Operation) /\ \A k \in 1..Len(in.ops) : Sendable(in.typ, in.ops[k])
  BY InputAssumption
<1>3. PICK ops, s, typ : ops \in Seq(Operation) /\ ops = in.ops /\ s = Stream(ops) /\ typ = in.typ
  BY <1>2
<1>4. input.ops = ops /\ input.stream = s /\ input.typ = typ
  BY <1>1, <1>3
<1>5. /\ Len(ops) \in Nat /\ DOMAIN ops = 1..Len(ops)
      /\ \A k \in 1..Len(ops) : ops[k] \in Operation /\ Sendable(typ, ops[k])
  BY <1>2, <1>3, LenProperties, ElementOfSeq
<1>6. \A k \in 1..Len(ops) : Clean(ops[k])
  BY <1>5, CleanIs
<1>7. Laid(ops, s)
  BY <1>3, <1>5, <1>6, StreamIs
<1>8. ASSUME NEW k \in 1..Len(ops) PROVE OpKnown(k)
  <2>1. PICK op : op = ops[k]
    OBVIOUS
  <2>2. Clean(op) /\ Lengths(op) /\ Text(op) \in Seq(Octet)
    BY <1>6, <2>1, LengthsAre
  <2>3. (op.kind = "PUB" => typ = "CLIENT") /\ (op.kind = "MSG" => typ = "ROUTER")
    BY <1>5, <2>1 DEF Sendable
  <2>4. k - 1 \in 0..Len(ops) /\ k \in 0..Len(ops)
    BY <1>5
  <2>5. /\ Written(s, Offset(ops, k - 1), op) /\ Offset(ops, k - 1) \in Nat /\ Offset(ops, k) \in Nat
        /\ Offset(ops, k) = Offset(ops, k - 1) + LineLen(op) + BodyLen(op)
        /\ Offset(ops, k) <= Len(s)
    BY Zenon, <1>7, <2>1, <2>4 DEF Laid
  <2> QED BY Zenon, <1>4, <2>1, <2>2, <2>3, <2>5 DEF OpKnown
<1> QED BY Zenon, <1>4, <1>5, <1>7, <1>8 DEF Laid

(* The byte looked at, by where it is in its operation.                         *)
ByteOf(op, n, x) ==
  LET h == HeadLen(op)
      t == Len(Text(op))
  IN /\ n < Len(Keyword[op.kind]) => x = Keyword[op.kind][n + 1]
     /\ op.kind \notin Bare /\ n = Len(Keyword[op.kind]) => x = SP
     /\ n >= h /\ n < h + t => x = Text(op)[n - h + 1]
     /\ n >= h + t /\ n < LineLen(op) => x = op.eol[n - h - t + 1]
     /\ op.kind \in Messages /\ n >= LineLen(op) /\ n < LineLen(op) + BodyLen(op) =>
          x = Body(op)[n - LineLen(op) + 1]

LEMMA ByteIs ==
  ASSUME Typed, parsing, NEW k \in 1..Len(input.ops), Into(k) \in Nat
  PROVE  ByteOf(input.ops[k], Into(k), b)
<1>1. OpKnown(k)
  BY StreamKnown
<1>2. PICK op, s : op = input.ops[k] /\ s = input.stream
  OBVIOUS
<1>3. PICK o \in Nat, n \in Nat : o = Offset(input.ops, k - 1) /\ n = Into(k)
  BY <1>1 DEF OpKnown
<1>4. Clean(op) /\ Lengths(op) /\ Written(s, o, op)
  BY Zenon, <1>1, <1>2, <1>3 DEF OpKnown
<1>5. PICK h \in Nat, t \in Nat, e \in Nat, c \in Nat, l \in Nat, z \in Nat :
        /\ h = HeadLen(op) /\ t = Len(Text(op)) /\ e = Len(op.eol) /\ c = Len(Keyword[op.kind])
        /\ l = LineLen(op) /\ z = BodyLen(op)
  <2>1. Len(op.eol) \in Nat /\ Len(Keyword[op.kind]) \in Nat
    <3>1. Len(op.eol) \in 1..2 /\ Len(Keyword[op.kind]) \in 3..7
      BY <1>4 DEF Lengths
    <3> QED BY <3>1
  <2> QED BY Zenon, <1>4, <2>1 DEF Lengths
<1>6. l = h + t + e /\ (op.kind \notin Bare => h = c + 1)
  BY <1>4, <1>5 DEF Lengths
<1>7. b = s[o + n + 1]
  <2>1. lo + i = o + n
    <3>1. n = (lo + i) - o
      BY Zenon, <1>3 DEF Into, Position
    <3>2. lo \in Nat /\ i \in Nat
      BY DEF Typed, FixedTyped, MovingTyped
    <3> QED BY <3>1, <3>2
  <2> QED BY Zenon, <1>2, <2>1 DEF b
<1>8. ASSUME n < c PROVE b = Keyword[op.kind][n + 1]
  <2>1. n + 1 \in 1..c /\ o + (n + 1) = o + n + 1
    BY <1>8
  <2>2. s[o + (n + 1)] = Keyword[op.kind][n + 1]
    BY Zenon, <1>4, <1>5, <2>1 DEF Written
  <2> QED BY Zenon, <1>7, <2>1, <2>2
<1>9. ASSUME op.kind \notin Bare, n = c PROVE b = SP
  <2>1. o + h = o + n + 1
    BY <1>6, <1>9
  <2>2. op.args # <<>>
    BY <1>4, <1>9 DEF Lengths
  <2> QED BY Zenon, <1>4, <1>5, <1>7, <2>1, <2>2 DEF Written
<1>10. ASSUME n >= h, n < h + t PROVE b = Text(op)[n - h + 1]
  <2>1. n - h + 1 \in 1..t /\ o + h + (n - h + 1) = o + n + 1
    BY <1>10
  <2> QED BY Zenon, <1>4, <1>5, <1>7, <2>1 DEF Written
<1>11. ASSUME n >= h + t, n < l PROVE b = op.eol[n - h - t + 1]
  <2>1. n - h - t + 1 \in 1..e /\ o + h + t + (n - h - t + 1) = o + n + 1
    BY <1>6, <1>11
  <2> QED BY Zenon, <1>4, <1>5, <1>7, <2>1 DEF Written
<1>12. ASSUME op.kind \in Messages, n >= l, n < l + z PROVE b = Body(op)[n - l + 1]
  <2>1. n - l + 1 \in 1..z /\ o + l + (n - l + 1) = o + n + 1
    BY <1>12
  <2>2. z = Len(Body(op))
    BY <1>4, <1>5, <1>12, EndsAre DEF BodyLen
  <2> QED BY Zenon, <1>4, <1>5, <1>7, <1>12, <2>1, <2>2 DEF Written
<1> QED BY Zenon, <1>2, <1>3, <1>5, <1>8, <1>9, <1>10, <1>11, <1>12 DEF ByteOf
-----------------------------------------------------------------------------
(* Slices of a read.                                                            *)
LEMMA BufIs ==
  ASSUME Typed
  PROVE  /\ buf \in Seq(Octet) /\ Len(buf) = hi - lo /\ hi - lo \in Nat
         /\ \A j \in 1..(hi - lo) : buf[j] = input.stream[lo + j]
<1>1. PICK s \in Seq(Octet), n \in Nat : s = input.stream /\ n = Len(s)
  BY StreamKnown
<1>2. lo \in Nat /\ hi \in Nat /\ lo <= hi /\ hi <= n
  BY <1>1 DEF Typed, FixedTyped
<1>3. \A j \in (lo + 1)..hi : s[j] \in Octet
  <2>1. \A j \in (lo + 1)..hi : j \in 1..n
    BY <1>2
  <2> QED BY <1>1, <2>1, ElementOfSeq
<1>4. lo + 1 \in Int /\ hi \in Int
  BY <1>2
<1>5. /\ SubSeq(s, lo + 1, hi) \in Seq(Octet)
      /\ Len(SubSeq(s, lo + 1, hi)) = IF lo + 1 <= hi THEN hi - (lo + 1) + 1 ELSE 0
      /\ \A j \in 1..(hi - (lo + 1) + 1) : SubSeq(s, lo + 1, hi)[j] = s[(lo + 1) + j - 1]
  BY ONLY <1>3, <1>4, SubSeqProperties
<1>6. Len(SubSeq(s, lo + 1, hi)) = hi - lo /\ hi - lo \in Nat
  BY <1>2, <1>5
<1>7. ASSUME NEW j \in 1..(hi - lo) PROVE SubSeq(s, lo + 1, hi)[j] = s[lo + j]
  <2>1. j \in 1..(hi - (lo + 1) + 1) /\ (lo + 1) + j - 1 = lo + j
    BY <1>2
  <2> QED BY Zenon, <1>5, <2>1
<1> QED BY Zenon, <1>1, <1>5, <1>6, <1>7 DEF buf

LEMMA SliceType ==
  ASSUME Typed, NEW p \in Nat, NEW q \in Int, q <= hi - lo
  PROVE  /\ SubSeq(buf, p + 1, q) \in Seq(Octet)
         /\ Len(SubSeq(buf, p + 1, q)) = IF p <= q THEN q - p ELSE 0
         /\ \A j \in 1..(q - p) : SubSeq(buf, p + 1, q)[j] = input.stream[lo + p + j]
<1>1. PICK u \in Seq(Octet), n \in Nat : u = buf /\ n = hi - lo /\ Len(u) = n
  BY BufIs
<1>2. \A j \in 1..n : u[j] = input.stream[lo + j] /\ u[j] \in Octet
  BY <1>1, BufIs, ElementOfSeq
<1>3. q <= n /\ p + 1 \in Int /\ \A j \in (p + 1)..q : u[j] \in Octet
  <2>1. q <= n
    BY <1>1
  <2>2. \A j \in (p + 1)..q : j \in 1..n
    BY <2>1
  <2> QED BY <1>2, <2>1, <2>2
<1>4. /\ SubSeq(u, p + 1, q) \in Seq(Octet)
      /\ Len(SubSeq(u, p + 1, q)) = IF p + 1 <= q THEN q - (p + 1) + 1 ELSE 0
      /\ \A j \in 1..(q - (p + 1) + 1) : SubSeq(u, p + 1, q)[j] = u[(p + 1) + j - 1]
  BY ONLY <1>3, q \in Int, SubSeqProperties
<1>5. Len(SubSeq(u, p + 1, q)) = IF p <= q THEN q - p ELSE 0
  BY <1>4
<1>6. ASSUME NEW j \in 1..(q - p) PROVE SubSeq(u, p + 1, q)[j] = input.stream[lo + p + j]
  <2>1. j \in 1..(q - (p + 1) + 1) /\ (p + 1) + j - 1 = p + j /\ p + j \in 1..n
    BY <1>3
  <2>2. lo + (p + j) = lo + p + j
    <3>1. lo \in Nat
      BY DEF Typed, FixedTyped
    <3> QED BY <3>1
  <2> QED BY Zenon, <1>2, <1>4, <2>1, <2>2
<1> QED BY <1>1, <1>4, <1>5, <1>6

(* A slice that has what t begins with.                                         *)
LEMMA SliceIs ==
  ASSUME Typed, NEW p \in Nat, NEW q \in Nat, p <= q, q <= hi - lo,
         NEW t \in Seq(Octet), q - p <= Len(t),
         \A j \in 1..(q - p) : input.stream[lo + p + j] = t[j]
  PROVE  SubSeq(buf, p + 1, q) = SubSeq(t, 1, q - p)
<1>1. PICK n \in Nat : n = q - p
  OBVIOUS
<1>2. PICK u \in Seq(Octet) : u = SubSeq(buf, p + 1, q) /\ Len(u) = n
                              /\ \A j \in 1..n : u[j] = input.stream[lo + p + j]
  <2>1. q \in Int
    OBVIOUS
  <2>2. /\ SubSeq(buf, p + 1, q) \in Seq(Octet)
        /\ Len(SubSeq(buf, p + 1, q)) = IF p <= q THEN q - p ELSE 0
        /\ \A j \in 1..(q - p) : SubSeq(buf, p + 1, q)[j] = input.stream[lo + p + j]
    BY <2>1, SliceType
  <2> QED BY <1>1, <2>2
<1>3. n \in 0..Len(t)
  BY <1>1, LenProperties
<1>4. SubSeq(t, 1, n) \in Seq(Octet) /\ Len(SubSeq(t, 1, n)) = n /\ \A j \in 1..n : SubSeq(t, 1, n)[j] = t[j]
  BY <1>3, UpTo
<1>5. \A j \in 1..n : u[j] = SubSeq(t, 1, n)[j]
  BY Zenon, <1>1, <1>2, <1>4
<1>6. u = SubSeq(t, 1, n)
  BY <1>2, <1>4, <1>5, SeqEqual
<1> QED BY <1>1, <1>2, <1>6
-----------------------------------------------------------------------------
(* The types are kept.                                                          *)
LEMMA SliceOf ==
  ASSUME NEW s \in Seq(Octet)
  PROVE  {s} \in Slices
BY DEF Slices

LEMMA TheSlice ==
  ASSUME NEW x \in Slices, x # {}
  PROVE  The(x) \in Seq(Octet) /\ x = {The(x)}
<1>1. PICK s \in Seq(Octet) : x = {s}
  BY DEF Slices
<1>2. \A r \in x : r = s
  BY <1>1
<1>3. The(x) \in x
  BY <1>1 DEF The
<1> QED BY <1>1, <1>2, <1>3

LEMMA TheOnly ==
  ASSUME NEW s
  PROVE  The({s}) = s
BY DEF The

LEMMA Appended ==
  ASSUME NEW x \in Slices, NEW y \in Octet
  PROVE  {Append(s, y) : s \in x} \in Slices
<1>1. CASE x = {}
  BY <1>1 DEF Slices
<1>2. CASE x # {}
  <2>1. PICK s \in Seq(Octet) : x = {s}
    BY <1>2 DEF Slices
  <2>2. {Append(r, y) : r \in x} = {Append(s, y)}
    BY <2>1
  <2>3. Append(s, y) \in Seq(Octet)
    BY ONLY s \in Seq(Octet), y \in Octet, AppendProperties
  <2> QED BY <2>2, <2>3, SliceOf
<1> QED BY <1>1, <1>2

LEMMA ByteType ==
  ASSUME Typed, parsing, i < hi - lo
  PROVE  b \in Octet
<1>1. PICK s \in Seq(Octet), n \in Nat : s = input.stream /\ n = Len(s)
  BY StreamKnown
<1>2. lo \in Nat /\ hi \in Nat /\ hi <= n /\ i \in Nat
  BY <1>1 DEF Typed, FixedTyped, MovingTyped
<1>3. lo + i + 1 \in 1..n
  BY <1>2
<1> QED BY <1>1, <1>3, ElementOfSeq DEF b

LEMMA FailTyped ==
  ASSUME Typed, NEW e \in Errors, Fail(e), UNCHANGED <<authTimer, authSet>>
  PROVE  MovingTyped'
BY DEF Typed, MovingTyped, Fail

LEMMA RestTyped ==
  ASSUME Typed, Rest, MovingTyped'
  PROVE  Typed'
<1>1. FixedTyped'
  BY DEF Typed, FixedTyped, Rest
<1> QED BY <1>1 DEF Typed

LEMMA OpStartTyped ==
  ASSUME Typed, OpStart
  PROVE  Typed'
<1>1. Rest /\ UNCHANGED <<authTimer, authSet>>
  BY DEF OpStart, Same
<1>2. PICK next : /\ next \subseteq {<<"P", "OP_P">>, <<"S", "OP_S">>, <<"U", "OP_U">>, <<"C", "OP_C">>,
                                     <<"I", "OP_I">>, <<"+", "OP_PLUS">>, <<"-", "OP_MINUS">>,
                                     <<"M", "OP_M">>}
                  /\ \/ Fail("authorization")
                     \/ Fail("parse")
                     \/ /\ next # {} /\ state' = The(next)[2] /\ i' = i + 1
                        /\ UNCHANGED <<start, drop, argBuf, msgBuf, pa, err, calls>>
  <2>1. PICK next : /\ next = {p \in {<<"P", "OP_P">>, <<"S", "OP_S">>, <<"U", "OP_U">>, <<"C", "OP_C">>,
                                      <<"I", "OP_I">>, <<"+", "OP_PLUS">>, <<"-", "OP_MINUS">>,
                                      <<"M", "OP_M">>} :
                                 p[1] = b /\ (b = "M" => input.typ # "CLIENT")}
    OBVIOUS
  <2> QED BY <2>1 DEF OpStart
<1>3. MovingTyped'
  <2>1. CASE Fail("authorization") \/ Fail("parse")
    BY <1>1, <2>1, FailTyped DEF Errors
  <2>2. CASE /\ next # {} /\ state' = The(next)[2] /\ i' = i + 1
             /\ UNCHANGED <<start, drop, argBuf, msgBuf, pa, err, calls>>
    <3>1. The(next) \in next
      BY <2>2 DEF The
    <3>2. The(next)[2] \in {"OP_P", "OP_S", "OP_U", "OP_C", "OP_I", "OP_M", "OP_PLUS", "OP_MINUS"}
      BY <1>2, <3>1
    <3>3. state' \in States
      BY <2>2, <3>2 DEF States
    <3> QED BY <1>1, <2>2, <3>3 DEF Typed, MovingTyped
  <2> QED BY <1>2, <2>1, <2>2
<1> QED BY <1>1, <1>3, RestTyped

LEMMA LetterTyped ==
  ASSUME Typed, Letter
  PROVE  Typed'
<1>1. Rest /\ UNCHANGED <<authTimer, authSet>>
  BY DEF Letter, Same
<1>2. \/ Fail("parse")
      \/ /\ \E l \in Letters : state' = l[3]
         /\ i' = i + 1 /\ UNCHANGED <<start, drop, argBuf, msgBuf, pa, err, calls>>
  <2>1. PICK byte : byte = IF b \in Blank THEN SP ELSE b
    OBVIOUS
  <2>2. PICK next : next = {l \in Letters : l[1] = state /\ l[2] = byte}
    OBVIOUS
  <2>3. next # {} => The(next) \in next
    BY DEF The
  <2> QED BY <2>1, <2>2, <2>3 DEF Letter
<1>3. MovingTyped'
  <2>1. CASE Fail("parse")
    BY <1>1, <2>1, FailTyped DEF Errors
  <2>2. CASE /\ \E l \in Letters : state' = l[3]
             /\ i' = i + 1 /\ UNCHANGED <<start, drop, argBuf, msgBuf, pa, err, calls>>
    <3>1. state' \in States
      BY <2>2 DEF States
    <3> QED BY <1>1, <2>2, <3>1 DEF Typed, MovingTyped
  <2> QED BY <1>2, <2>1, <2>2
<1> QED BY <1>1, <1>3, RestTyped

LEMMA SpaceTyped ==
  ASSUME Typed, Space
  PROVE  Typed'
<1>1. Rest /\ UNCHANGED <<authTimer, authSet>>
  BY DEF Space, Same
<1>2. state' \in States /\ start' \in Nat
  <2>1. CASE b \in Blank
    BY <2>1 DEF Space, Typed, MovingTyped
  <2>2. CASE b \notin Blank
    <3>1. PICK next : next = {s \in Spaces : s[1] = state}
      OBVIOUS
    <3>2. next # {}
      BY <3>1 DEF Space, In
    <3>3. The(next) \in next
      BY <3>2 DEF The
    <3>4. state' = The(next)[2] /\ start' = i
      BY <2>2, <3>1 DEF Space
    <3> QED BY <3>1, <3>3, <3>4 DEF States, Typed, MovingTyped
  <2> QED BY <2>1, <2>2
<1>3. MovingTyped'
  BY <1>1, <1>2 DEF Space, Typed, MovingTyped
<1> QED BY <1>1, <1>3, RestTyped

LEMMA ArgByteTyped ==
  ASSUME Typed, parsing, i < hi - lo, ArgByte
  PROVE  Typed'
<1>1. Rest /\ UNCHANGED <<authTimer, authSet, state, start, msgBuf, pa, err>>
  BY DEF ArgByte, Same
<1>2. argBuf' \in Slices /\ drop' \in {0, 1} /\ i' \in Nat
  <2>1. b \in Octet
    BY ByteType
  <2>2. argBuf \in Slices /\ drop \in {0, 1} /\ i \in Nat
    BY DEF Typed, MovingTyped
  <2>3. {Append(s, b) : s \in argBuf} \in Slices
    BY <2>1, <2>2, Appended
  <2> QED BY <2>2, <2>3 DEF ArgByte
<1>3. MovingTyped'
  BY <1>1, <1>2 DEF Typed, MovingTyped
<1> QED BY <1>1, <1>3, RestTyped
LEMMA MinMax ==
  ASSUME NEW m \in Int, NEW n \in Int
  PROVE  Min({m, n}) = (IF m <= n THEN m ELSE n) /\ Max({m, n}) = (IF m <= n THEN n ELSE m)
<1>1. Min({m, n}) = CHOOSE x \in {m, n} : \A y \in {m, n} : x <= y
  BY DEF Min
<1>2. Max({m, n}) = CHOOSE x \in {m, n} : \A y \in {m, n} : x >= y
  BY DEF Max
<1>3. CASE m <= n
  BY <1>1, <1>2, <1>3
<1>4. CASE ~(m <= n)
  BY <1>1, <1>2, <1>4
<1> QED BY <1>3, <1>4

LEMMA ArgType ==
  ASSUME Typed, i < hi - lo
  PROVE  Arg \in Seq(Octet)
<1>1. CASE argBuf # {}
  BY <1>1, TheSlice DEF Arg, Typed, MovingTyped
<1>2. CASE argBuf = {}
  <2>1. start \in Nat /\ i - drop \in Int /\ i - drop <= hi - lo
    BY DEF Typed, FixedTyped, MovingTyped
  <2>2. SubSeq(buf, start + 1, i - drop) \in Seq(Octet)
    BY <2>1, SliceType
  <2> QED BY <1>2, <2>2 DEF Arg
<1> QED BY <1>1, <1>2

LEMMA ArgsType ==
  ASSUME Typed, i < hi - lo
  PROVE  /\ splitArg(Arg) \in Seq(Seq(Octet)) /\ Len(splitArg(Arg)) \in Nat
         /\ \A n \in 1..Len(splitArg(Arg)) : splitArg(Arg)[n] \in Seq(Octet)
         /\ Len(splitArg(Arg)) >= 1 => /\ Last(splitArg(Arg)) \in Seq(Octet)
                                       /\ parseSize(Last(splitArg(Arg))) \in Int
<1>1. PICK args \in Seq(Seq(Octet)) : args = splitArg(Arg)
  BY ArgType, SplitType
<1>2. Len(args) \in Nat /\ \A n \in 1..Len(args) : args[n] \in Seq(Octet)
  BY LenProperties, ElementOfSeq
<1>3. Len(args) >= 1 => Last(args) \in Seq(Octet)
  <2>1. Last(args) = args[Len(args)]
    BY DEF Last
  <2>2. Len(args) >= 1 => Len(args) \in 1..Len(args)
    BY <1>2
  <2> QED BY <1>2, <2>1, <2>2
<1>4. Len(args) >= 1 => parseSize(Last(args)) \in Int
  BY <1>3, SizeType
<1> QED BY <1>1, <1>2, <1>3, <1>4

LEMMA PubTyped ==
  ASSUME Typed, i < hi - lo, NEW done, done = processPub(Arg)
  PROVE  done.err \in Errors /\ (done.err = "nil" => done.pa \in PaType)
<1>1. PICK args, size : args = splitArg(Arg) /\ size = parseSize(Last(args))
  OBVIOUS
<1>2. CASE Len(args) \notin {2, 3} \/ size < 0
  <2>1. done = [err |-> "parse"]
    BY Zenon, <1>1, <1>2 DEF processPub
  <2> QED BY <2>1 DEF Errors
<1>3. CASE ~(Len(args) \notin {2, 3} \/ size < 0) /\ MaxPayload > 0 /\ size > MaxPayload
  <2>1. done = [err |-> "payload"]
    BY Zenon, <1>1, <1>3 DEF processPub
  <2> QED BY <2>1 DEF Errors
<1>4. CASE ~(Len(args) \notin {2, 3} \/ size < 0) /\ ~(MaxPayload > 0 /\ size > MaxPayload)
  <2>1. done = [err |-> "nil",
                pa |-> [pa EXCEPT !.subject = args[1], !.size = size, !.szb = Last(args),
                                  !.inBuf = argBuf = {},
                                  !.reply = IF Len(args) = 3 THEN {args[2]} ELSE {}]]
    BY Zenon, <1>1, <1>4 DEF processPub
  <2>2. Len(args) \in {2, 3} /\ 1 \in 1..Len(args) /\ 2 \in 1..Len(args) /\ Len(args) >= 1
    <3>1. PICK n \in {2, 3} : n = Len(args)
      BY Zenon, <1>4
    <3>2. 1 \in 1..n /\ 2 \in 1..n /\ n >= 1
      OBVIOUS
    <3> QED BY Zenon, <3>1, <3>2
  <2>3. args[1] \in Seq(Octet) /\ args[2] \in Seq(Octet) /\ Last(args) \in Seq(Octet) /\ size \in Int
    BY <1>1, <2>2, ArgsType
  <2>4. size \in Nat
    BY <1>4, <2>3
  <2>5. (IF Len(args) = 3 THEN {args[2]} ELSE {}) \in Slices
    BY <2>3 DEF Slices
  <2>6. pa \in PaType
    BY DEF Typed, MovingTyped
  <2>7. PICK from \in BOOLEAN, reply \in Slices :
          from = (argBuf = {}) /\ reply = IF Len(args) = 3 THEN {args[2]} ELSE {}
    <3>1. (argBuf = {}) \in BOOLEAN
      OBVIOUS
    <3> QED BY Zenon, <2>5, <3>1
  <2>8. /\ done.err = "nil"
        /\ done.pa = [pa EXCEPT !.subject = args[1], !.size = size, !.szb = Last(args),
                                !.inBuf = from, !.reply = reply]
    <3>1. done = [err |-> "nil",
                  pa |-> [pa EXCEPT !.subject = args[1], !.size = size, !.szb = Last(args),
                                    !.inBuf = from, !.reply = reply]]
      BY Zenon, <2>1, <2>7
    <3> QED BY ONLY <3>1
  <2>9. done.pa \in PaType /\ done.err = "nil"
    BY <2>3, <2>4, <2>6, <2>8 DEF PaType
  <2> QED BY <2>9 DEF Errors
<1> QED BY <1>2, <1>3, <1>4

LEMMA MsgTyped ==
  ASSUME Typed, i < hi - lo, NEW done, done = processMsgArgs(Arg)
  PROVE  done.err \in Errors /\ (done.err = "nil" => done.pa \in PaType)
<1>1. PICK args, size : args = splitArg(Arg) /\ size = parseSize(Last(args))
  OBVIOUS
<1>2. CASE Len(args) \notin {3, 4} \/ size < 0
  <2>1. done = [err |-> "parse"]
    BY Zenon, <1>1, <1>2 DEF processMsgArgs
  <2> QED BY <2>1 DEF Errors
<1>3. CASE ~(Len(args) \notin {3, 4} \/ size < 0)
  <2>1. done = [err |-> "nil",
                pa |-> [subject |-> args[1], sid |-> {args[2]}, size |-> size, szb |-> Last(args),
                        inBuf |-> argBuf = {},
                        reply |-> IF Len(args) = 4 THEN {args[3]} ELSE {}]]
    BY Zenon, <1>1, <1>3 DEF processMsgArgs
  <2>2. Len(args) \in {3, 4} /\ 1 \in 1..Len(args) /\ 2 \in 1..Len(args) /\ 3 \in 1..Len(args) /\ Len(args) >= 1
    <3>1. PICK n \in {3, 4} : n = Len(args)
      BY <1>3
    <3>2. 1 \in 1..n /\ 2 \in 1..n /\ 3 \in 1..n /\ n >= 1
      BY <3>1
    <3> QED BY Zenon, <3>1, <3>2
  <2>3. /\ args[1] \in Seq(Octet) /\ args[2] \in Seq(Octet) /\ args[3] \in Seq(Octet)
        /\ Last(args) \in Seq(Octet) /\ size \in Int
    BY <1>1, <2>2, ArgsType
  <2>4. size \in Nat
    BY <1>3, <2>3
  <2>5. (IF Len(args) = 4 THEN {args[3]} ELSE {}) \in Slices /\ {args[2]} \in Slices
    BY <2>3 DEF Slices
  <2>6. PICK from \in BOOLEAN, reply \in Slices, sid \in Slices :
          /\ from = (argBuf = {}) /\ sid = {args[2]}
          /\ reply = IF Len(args) = 4 THEN {args[3]} ELSE {}
    <3>1. (argBuf = {}) \in BOOLEAN
      OBVIOUS
    <3> QED BY Zenon, <2>5, <3>1
  <2>7. /\ done.err = "nil"
        /\ done.pa = [subject |-> args[1], sid |-> sid, size |-> size, szb |-> Last(args),
                      inBuf |-> from, reply |-> reply]
    <3>1. done = [err |-> "nil",
                  pa |-> [subject |-> args[1], sid |-> sid, size |-> size, szb |-> Last(args),
                          inBuf |-> from, reply |-> reply]]
      BY Zenon, <2>1, <2>6
    <3> QED BY ONLY <3>1
  <2>8. PICK x \in Seq(Octet), y \in Seq(Octet), n \in Nat : x = args[1] /\ y = Last(args) /\ n = size
    BY <2>3, <2>4
  <2>9. [subject |-> x, sid |-> sid, size |-> n, szb |-> y, inBuf |-> from, reply |-> reply] \in PaType
    BY DEF PaType
  <2>10. done.pa \in PaType /\ done.err = "nil"
    BY Zenon, <2>7, <2>8, <2>9
  <2> QED BY <2>10 DEF Errors
<1> QED BY <1>2, <1>3

(* The line of a message is done: what of it the two arguments have in common.  *)
Payload(done, next) ==
  /\ pa' = done.pa /\ drop' = 0 /\ start' = i + 1 /\ state' = "MSG_PAYLOAD"
  /\ i' = next /\ UNCHANGED <<argBuf, msgBuf, err, calls>>

LEMMA PayloadTyped ==
  ASSUME Typed, NEW done, done.pa \in PaType, NEW next \in Nat, Payload(done, next),
         UNCHANGED <<authTimer, authSet>>
  PROVE  MovingTyped'
<1>1. state' \in States
  BY DEF Payload, States
<1> QED BY <1>1 DEF Typed, MovingTyped, Payload

LEMMA PubArgTyped ==
  ASSUME Typed, PubArg
  PROVE  Typed'
<1>1. parsing /\ i < hi - lo
  BY DEF PubArg, In
<1>2. CASE ArgByte
  BY <1>1, <1>2, ArgByteTyped
<1>3. CASE ~ArgByte
  <2>1. PICK done : done = processPub(Arg)
    OBVIOUS
  <2>2. done.err \in Errors /\ (done.err = "nil" => done.pa \in PaType)
    BY <1>1, <2>1, PubTyped
  <2>3. /\ Same
        /\ IF done.err # "nil" THEN Fail(done.err)
           ELSE Payload(done, IF msgBuf = {} THEN (i + 1) + done.pa.size - LenCRLF + 1 ELSE i + 1)
    BY Zenon, <1>3, <2>1 DEF PubArg, Payload
  <2>4. MovingTyped'
    <3>1. CASE done.err # "nil"
      BY <2>2, <2>3, <3>1, FailTyped DEF Same
    <3>2. CASE done.err = "nil"
      <4>1. (IF msgBuf = {} THEN (i + 1) + done.pa.size - LenCRLF + 1 ELSE i + 1) \in Nat
        <5>1. done.pa.size \in Nat /\ i \in Nat
          BY <2>2, <3>2 DEF PaType, Typed, MovingTyped
        <5> QED BY <5>1 DEF LenCRLF
      <4> QED BY <2>2, <2>3, <3>2, <4>1, PayloadTyped DEF Same
    <3> QED BY <3>1, <3>2
  <2> QED BY <2>3, <2>4, RestTyped DEF Same
<1> QED BY <1>2, <1>3

LEMMA MsgArgTyped ==
  ASSUME Typed, MsgArg
  PROVE  Typed'
<1>1. parsing /\ i < hi - lo
  BY DEF MsgArg, In
<1>2. CASE ArgByte
  BY <1>1, <1>2, ArgByteTyped
<1>3. CASE ~ArgByte
  <2>1. PICK done : done = processMsgArgs(Arg)
    OBVIOUS
  <2>2. done.err \in Errors /\ (done.err = "nil" => done.pa \in PaType)
    BY <1>1, <2>1, MsgTyped
  <2>3. Same /\ IF done.err # "nil" THEN Fail(done.err) ELSE Payload(done, i + 1)
    BY Zenon, <1>3, <2>1 DEF MsgArg, Payload
  <2>4. MovingTyped'
    <3>1. CASE done.err # "nil"
      BY <2>2, <2>3, <3>1, FailTyped DEF Same
    <3>2. CASE done.err = "nil"
      <4>1. i + 1 \in Nat
        BY DEF Typed, MovingTyped
      <4> QED BY <2>2, <2>3, <3>2, <4>1, PayloadTyped DEF Same
    <3> QED BY <3>1, <3>2
  <2> QED BY <2>3, <2>4, RestTyped DEF Same
<1> QED BY <1>2, <1>3
LEMMA MsgPayloadTyped ==
  ASSUME Typed, MsgPayload
  PROVE  Typed'
<1>1. parsing /\ i < hi - lo /\ Rest /\ UNCHANGED <<authTimer, authSet>>
  BY DEF MsgPayload, In, Same
<1>2. CASE msgBuf # {}
  <2>1. PICK have \in Seq(Octet), toCopy \in Int :
          have = The(msgBuf) /\ toCopy = Min({pa.size - Len(have), hi - lo - i})
    <3>1. The(msgBuf) \in Seq(Octet)
      BY <1>2, TheSlice DEF Typed, MovingTyped
    <3>2. pa.size \in Nat /\ hi - lo - i \in Int /\ Len(The(msgBuf)) \in Nat
      BY <3>1, LenProperties DEF Typed, FixedTyped, MovingTyped, PaType
    <3>3. pa.size - Len(The(msgBuf)) \in Int
      BY <3>2
    <3>4. Min({pa.size - Len(The(msgBuf)), hi - lo - i}) \in Int
      BY <3>2, <3>3, MinMax
    <3> QED BY <3>1, <3>4
  <2>2. PICK got \in Seq(Octet) :
          got = IF toCopy > 0 THEN have \o SubSeq(buf, i + 1, i + toCopy) ELSE Append(have, b)
    <3>1. CASE toCopy > 0
      <4>1. toCopy <= hi - lo - i
        <5>1. pa.size - Len(have) \in Int /\ hi - lo - i \in Int
          BY LenProperties DEF Typed, FixedTyped, MovingTyped, PaType
        <5> QED BY <2>1, <5>1, MinMax
      <4>2. i \in Nat /\ i + toCopy \in Int /\ i + toCopy <= hi - lo
        BY <4>1 DEF Typed, FixedTyped, MovingTyped
      <4>3. SubSeq(buf, i + 1, i + toCopy) \in Seq(Octet)
        BY <4>2, SliceType
      <4>4. have \o SubSeq(buf, i + 1, i + toCopy) \in Seq(Octet)
        BY ONLY have \in Seq(Octet), <4>3, ConcatProperties
      <4> QED BY <3>1, <4>4
    <3>2. CASE ~(toCopy > 0)
      <4>1. b \in Octet
        BY <1>1, ByteType
      <4>2. Append(have, b) \in Seq(Octet)
        BY ONLY have \in Seq(Octet), <4>1, AppendProperties
      <4> QED BY <3>2, <4>2
    <3> QED BY <3>1, <3>2
  <2>3. \/ Fail("panic")
        \/ /\ msgBuf' = {got} /\ i' = i + Max({toCopy, 1})
           /\ state' = IF Len(got) >= pa.size THEN "MSG_END" ELSE state
           /\ UNCHANGED <<start, drop, argBuf, pa, err, calls>>
    BY Zenon, <1>2, <2>1, <2>2 DEF MsgPayload
  <2>4. MovingTyped'
    <3>1. CASE Fail("panic")
      BY <1>1, <3>1, FailTyped DEF Errors
    <3>2. CASE /\ msgBuf' = {got} /\ i' = i + Max({toCopy, 1})
               /\ state' = IF Len(got) >= pa.size THEN "MSG_END" ELSE state
               /\ UNCHANGED <<start, drop, argBuf, pa, err, calls>>
      <4>1. msgBuf' \in Slices
        BY <3>2, SliceOf
      <4>2. 1 \in Int
        OBVIOUS
      <4>3. Max({toCopy, 1}) \in Nat
        <5>1. Max({toCopy, 1}) = IF toCopy <= 1 THEN 1 ELSE toCopy
          BY <4>2, MinMax
        <5> QED BY <5>1
      <4>4. i' \in Nat /\ state' \in States
        BY <3>2, <4>3 DEF States, Typed, MovingTyped
      <4> QED BY <1>1, <3>2, <4>1, <4>4 DEF Typed, MovingTyped
    <3> QED BY <2>3, <3>1, <3>2
  <2> QED BY <1>1, <2>4, RestTyped
<1>3. CASE msgBuf = {}
  <2>1. /\ i' = i + 1 /\ state' = IF i - start >= pa.size THEN "MSG_END" ELSE state
        /\ UNCHANGED <<start, drop, argBuf, msgBuf, pa, err>>
    BY <1>3 DEF MsgPayload
  <2>2. i' \in Nat /\ state' \in States
    BY <2>1 DEF States, Typed, MovingTyped
  <2>3. MovingTyped'
    BY <1>1, <2>1, <2>2 DEF Typed, MovingTyped
  <2> QED BY <1>1, <2>3, RestTyped
<1> QED BY <1>2, <1>3

LEMMA MsgEndTyped ==
  ASSUME Typed, MsgEnd
  PROVE  Typed'
<1>1. parsing /\ i < hi - lo /\ Rest /\ UNCHANGED <<authTimer, authSet>>
  BY DEF MsgEnd, In, Same
<1>2. b \in Octet /\ {Append(m, b) : m \in msgBuf} \in Slices /\ i + 1 \in Nat /\ {} \in Slices
  <2>1. b \in Octet
    BY <1>1, ByteType
  <2>2. msgBuf \in Slices /\ i \in Nat
    BY DEF Typed, MovingTyped
  <2>3. {Append(m, b) : m \in msgBuf} \in Slices
    BY <2>1, <2>2, Appended
  <2>4. {} \in Slices
    BY DEF Slices
  <2> QED BY <2>1, <2>2, <2>3, <2>4
<1>3. \/ Fail("parse")
      \/ argBuf' = {} /\ msgBuf' = {} /\ start' = i + 1 /\ Done /\ UNCHANGED <<pa, err>>
      \/ /\ msgBuf' = {Append(m, b) : m \in msgBuf} /\ i' = i + 1
         /\ UNCHANGED <<state, start, drop, argBuf, pa, err>>
  BY DEF MsgEnd
<1>4. MovingTyped'
  <2>1. CASE Fail("parse")
    BY <1>1, <2>1, FailTyped DEF Errors
  <2>2. CASE argBuf' = {} /\ msgBuf' = {} /\ start' = i + 1 /\ Done /\ UNCHANGED <<pa, err>>
    BY <1>1, <1>2, <2>2 DEF Typed, MovingTyped, Done, States
  <2>3. CASE /\ msgBuf' = {Append(m, b) : m \in msgBuf} /\ i' = i + 1
             /\ UNCHANGED <<state, start, drop, argBuf, pa, err>>
    BY <1>1, <1>2, <2>3 DEF Typed, MovingTyped
  <2> QED BY <1>3, <2>1, <2>2, <2>3
<1> QED BY <1>1, <1>4, RestTyped

(* The line of an operation is done.                                            *)
LEMMA DoneTyped ==
  ASSUME Typed, Rest, Done, argBuf' = {}, start' \in {start, i + 1}, UNCHANGED <<msgBuf, pa, err>>,
         authTimer' \in BOOLEAN, authSet' \in BOOLEAN
  PROVE  Typed'
<1>1. argBuf' \in Slices /\ i + 1 \in Nat /\ "OP_START" \in States
  BY DEF Typed, MovingTyped, Slices, States
<1>2. MovingTyped'
  BY <1>1 DEF Typed, MovingTyped, Done
<1> QED BY <1>2, RestTyped

LEMMA LineTyped ==
  ASSUME Typed, SubArg \/ UnsubArg \/ ConnectArg \/ MinusErrArg
  PROVE  Typed'
<1>1. parsing /\ i < hi - lo /\ authTimer \in BOOLEAN /\ authSet \in BOOLEAN
  BY DEF SubArg, UnsubArg, ConnectArg, MinusErrArg, In, Typed, MovingTyped
<1>2. CASE ArgByte
  BY <1>1, <1>2, ArgByteTyped
<1>3. CASE Fail("parse") /\ Same
  <2>1. MovingTyped'
    BY <1>3, FailTyped DEF Same, Errors
  <2> QED BY <1>3, <2>1, RestTyped DEF Same
<1>4. CASE /\ Rest /\ Done /\ argBuf' = {} /\ start' \in {start, i + 1} /\ UNCHANGED <<msgBuf, pa, err>>
           /\ authTimer' \in BOOLEAN /\ authSet' \in BOOLEAN
  BY <1>4, DoneTyped
<1>5. SubArg => ArgByte \/ (Fail("parse") /\ Same)
                \/ /\ Rest /\ Done /\ argBuf' = {} /\ start' \in {start, i + 1} /\ UNCHANGED <<msgBuf, pa, err>>
                   /\ authTimer' \in BOOLEAN /\ authSet' \in BOOLEAN
  BY <1>1 DEF SubArg, Same
<1>6. UnsubArg => ArgByte \/ (Fail("parse") /\ Same)
                \/ /\ Rest /\ Done /\ argBuf' = {} /\ start' \in {start, i + 1} /\ UNCHANGED <<msgBuf, pa, err>>
                   /\ authTimer' \in BOOLEAN /\ authSet' \in BOOLEAN
  BY <1>1 DEF UnsubArg, Same
<1>7. ConnectArg => ArgByte
                \/ /\ Rest /\ Done /\ argBuf' = {} /\ start' \in {start, i + 1} /\ UNCHANGED <<msgBuf, pa, err>>
                   /\ authTimer' \in BOOLEAN /\ authSet' \in BOOLEAN
  BY <1>1 DEF ConnectArg
<1>8. MinusErrArg => ArgByte
                \/ /\ Rest /\ Done /\ argBuf' = {} /\ start' \in {start, i + 1} /\ UNCHANGED <<msgBuf, pa, err>>
                   /\ authTimer' \in BOOLEAN /\ authSet' \in BOOLEAN
  BY <1>1 DEF MinusErrArg
<1> QED BY <1>2, <1>3, <1>4, <1>5, <1>6, <1>7, <1>8

LEMMA InfoTyped ==
  ASSUME Typed, InfoArg
  PROVE  Typed'
<1>1. Rest /\ UNCHANGED <<authTimer, authSet, start, argBuf, msgBuf, pa>> /\ i' = i + 1
  BY DEF InfoArg, Same
<1>2. state' \in States /\ drop' \in {0, 1} /\ err' \in Errors
  BY DEF InfoArg, Typed, MovingTyped, States, Errors
<1>3. MovingTyped'
  BY <1>1, <1>2 DEF Typed, MovingTyped
<1> QED BY <1>1, <1>3, RestTyped

LEMMA BareTyped ==
  ASSUME Typed, NEW st, NEW handler, Line(st, handler)
  PROVE  Typed'
<1>1. Rest /\ UNCHANGED <<authTimer, authSet, start, argBuf, msgBuf, pa, err>> /\ i' = i + 1
  BY DEF Line, Same
<1>2. state' \in States /\ drop' \in {0, 1}
  BY DEF Line, Typed, MovingTyped, States
<1>3. MovingTyped'
  BY <1>1, <1>2 DEF Typed, MovingTyped
<1> QED BY <1>1, <1>3, RestTyped

LEMMA ByteTyped ==
  ASSUME Typed, Byte
  PROVE  Typed'
BY OpStartTyped, LetterTyped, SpaceTyped, PubArgTyped, MsgArgTyped, MsgPayloadTyped, MsgEndTyped,
   LineTyped, InfoTyped, BareTyped DEF Byte, Ping, Pong, PlusOk
LEMMA ReadTyped ==
  ASSUME Typed, NEW n \in 1..(Len(input.stream) - hi), Read(n)
  PROVE  Typed'
<1>1. PICK m \in Nat : m = Len(input.stream)
  BY StreamKnown
<1>2. /\ lo' = hi /\ hi' = hi + n /\ hi \in Nat /\ n \in Nat /\ hi + n <= m /\ n > 0
  <2>1. lo' = hi /\ hi' = hi + n
    BY Zenon DEF Read
  <2>2. hi \in Nat
    BY Zenon DEF Typed, FixedTyped
  <2>3. n \in 1..(m - hi)
    BY Zenon, <1>1
  <2> QED BY <2>1, <2>2, <2>3
<1>3. reads' = reads + 1 /\ reads \in Nat /\ (reads < MaxReads \/ (reads = MaxReads /\ hi = m))
      /\ (reads + 1 < MaxReads \/ hi + n = m)
  <2>1. reads' = reads + 1 /\ (reads + 1 < MaxReads \/ hi + n = Len(input.stream))
    BY Zenon DEF Read
  <2>2. reads \in Nat /\ (reads < MaxReads \/ (reads = MaxReads /\ hi = Len(input.stream)))
    BY Zenon DEF Typed, FixedTyped
  <2> QED BY Zenon, <1>1, <2>1, <2>2
<1>4. reads' \in Nat /\ (reads' < MaxReads \/ (reads' = MaxReads /\ hi + n = m))
  BY <1>2, <1>3, BoundAssumption
<1>5. input' = input /\ UNCHANGED <<msgCap, infoSplit>> /\ parsing' = TRUE
  BY DEF Read
<1>6. FixedTyped'
  <2>1. msgCap \in Int /\ infoSplit \in BOOLEAN
        /\ \E in \in Inputs : input = [typ |-> in.typ, ops |-> in.ops, auth |-> in.auth,
                                       stream |-> Stream(in.ops)]
    BY DEF Typed, FixedTyped
  <2>2. lo' \in Nat /\ hi' \in Nat /\ lo' <= hi' /\ hi' <= m /\ m = Len(input'.stream)
    BY <1>1, <1>2, <1>5
  <2> QED BY <1>2, <1>4, <1>5, <2>1, <2>2 DEF FixedTyped
<1>7. pa' \in PaType
  <2>1. pa \in PaType
    BY DEF Typed, MovingTyped
  <2>2. CASE ~pa.inBuf
    BY <2>1, <2>2 DEF Read
  <2>3. CASE pa.inBuf
    <3>1. Spoilt \in Seq(Octet)
      BY DEF Spoilt, Octet, Known
    <3>2. \A x \in Slices : {Spoilt : r \in x} \in Slices
      <4>1. {Spoilt} \in Slices /\ {} \in Slices
        BY <3>1 DEF Slices
      <4>2. \A x \in Slices : {Spoilt : r \in x} = {} \/ {Spoilt : r \in x} = {Spoilt}
        BY DEF Slices
      <4> QED BY <4>1, <4>2
    <3>3. PICK x \in Slices, y \in Slices : x = {Spoilt : r \in pa.reply} /\ y = {Spoilt : s \in pa.sid}
      BY <2>1, <3>2 DEF PaType
    <3>4. pa' = [pa EXCEPT !.subject = Spoilt, !.reply = x, !.sid = y, !.szb = Spoilt]
      BY <2>3, <3>3 DEF Read
    <3> QED BY <2>1, <3>1, <3>4 DEF PaType
  <2> QED BY <2>2, <2>3
<1>8. MovingTyped'
  <2>1. i' = 0 /\ authSet' = authTimer
        /\ UNCHANGED <<state, start, drop, argBuf, msgBuf, authTimer, err>>
    BY DEF Read
  <2> QED BY <1>7, <2>1 DEF Typed, MovingTyped
<1> QED BY <1>6, <1>8 DEF Typed

LEMMA BytesType ==
  ASSUME NEW x \in Slices
  PROVE  Bytes(x) \in Seq(Octet)
<1>1. x # {} => The(x) \in Seq(Octet)
  BY TheSlice
<1>2. <<>> \in Seq(Octet)
  OBVIOUS
<1> QED BY <1>1, <1>2 DEF Bytes

LEMMA CloneType ==
  ASSUME NEW p \in PaType, pa = p
  PROVE  clonePubArg.argBuf \in Slices /\ clonePubArg.pa = [p EXCEPT !.inBuf = FALSE] /\ clonePubArg.pa \in PaType
<1>1. PICK q \in Seq(Octet), r \in Seq(Octet), s \in Seq(Octet), t \in Seq(Octet) :
        q = pa.subject /\ r = Bytes(pa.reply) /\ s = Bytes(pa.sid) /\ t = pa.szb
  BY BytesType DEF PaType
<1>2. q \o r \o s \o t \in Seq(Octet)
  BY FourParts
<1>3. clonePubArg = [argBuf |-> {q \o r \o s \o t}, pa |-> [p EXCEPT !.inBuf = FALSE]]
  BY Zenon, <1>1 DEF clonePubArg
<1>4. [p EXCEPT !.inBuf = FALSE] \in PaType
  BY DEF PaType
<1>5. {q \o r \o s \o t} \in Slices
  BY <1>2, SliceOf
<1> QED BY <1>3, <1>4, <1>5

(* What is kept when a read ends within a message.                              *)
LEMMA SplitMessageIs ==
  ASSUME Typed, SplitMessage
  PROVE  /\ argBuf' \in Slices /\ pa' \in PaType /\ msgCap' \in Int
         /\ state \in MsgStates /\ msgBuf = {} /\ msgBuf' = {SubSeq(buf, start + 1, hi - lo)}
         /\ pa' = pa \/ pa' = [pa EXCEPT !.inBuf = FALSE]
         /\ argBuf = {} => ~pa'.inBuf
         /\ msgCap' >= pa.size
<1>1. PICK kept : kept = IF argBuf = {} THEN clonePubArg ELSE [argBuf |-> argBuf, pa |-> pa]
  OBVIOUS
<1>2. pa \in PaType /\ argBuf \in Slices
  BY DEF Typed, MovingTyped
<1>3. /\ argBuf' = kept.argBuf /\ pa' = kept.pa
      /\ msgCap' = IF Overflows(kept.argBuf) THEN pa.size + LenCRLF ELSE ScratchCap - Len(Bytes(kept.argBuf))
      /\ state \in MsgStates /\ msgBuf = {} /\ msgBuf' = {SubSeq(buf, start + 1, hi - lo)}
  BY Zenon, <1>1 DEF SplitMessage, MsgStates
<1>4. /\ kept.argBuf \in Slices /\ kept.pa \in PaType
      /\ kept.pa = pa \/ kept.pa = [pa EXCEPT !.inBuf = FALSE]
      /\ argBuf = {} => ~kept.pa.inBuf
  <2>1. CASE argBuf = {}
    <3>1. /\ clonePubArg.argBuf \in Slices /\ clonePubArg.pa = [pa EXCEPT !.inBuf = FALSE]
          /\ clonePubArg.pa \in PaType
      BY <1>2, CloneType
    <3>2. ~[pa EXCEPT !.inBuf = FALSE].inBuf
      BY <1>2 DEF PaType
    <3> QED BY Zenon, <1>1, <2>1, <3>1, <3>2
  <2>2. CASE argBuf # {}
    <3>1. kept = [argBuf |-> argBuf, pa |-> pa]
      BY <1>1, <2>2
    <3> QED BY <1>2, <2>2, <3>1
  <2> QED BY <2>1, <2>2
<1>5. Len(Bytes(kept.argBuf)) \in Nat
  BY <1>4, BytesType, LenProperties
<1>6. msgCap' \in Int /\ msgCap' >= pa.size
  <2>1. PICK n \in Nat, m \in Nat : n = pa.size /\ m = Len(Bytes(kept.argBuf))
    BY <1>2, <1>5 DEF PaType
  <2>2. msgCap' = IF n > ScratchCap - m THEN n + 2 ELSE ScratchCap - m
    BY <1>3, <2>1 DEF Overflows, LenCRLF
  <2> QED BY <2>1, <2>2, BoundAssumption
<1> QED BY <1>3, <1>4, <1>6

LEMMA EndOfReadTyped ==
  ASSUME Typed, EndOfRead
  PROVE  Typed'
<1>1. /\ UNCHANGED <<input, reads, lo, hi, i, state, start, drop, authTimer, authSet, err>>
      /\ parsing' = FALSE /\ infoSplit' \in BOOLEAN
  BY DEF EndOfRead, Typed, FixedTyped
<1>2. argBuf' \in Slices /\ msgBuf' \in Slices /\ pa' \in PaType /\ msgCap' \in Int
  <2>1. argBuf \in Slices /\ msgBuf \in Slices /\ pa \in PaType /\ msgCap \in Int /\ start \in Nat
        /\ hi - lo \in Int /\ hi - lo - drop \in Int /\ hi - lo - drop <= hi - lo /\ hi - lo <= hi - lo
    BY DEF Typed, FixedTyped, MovingTyped
  <2>2. CASE SplitArgument
    <3>1. SubSeq(buf, start + 1, hi - lo - drop) \in Seq(Octet)
      BY <2>1, SliceType
    <3> QED BY <2>1, <2>2, <3>1, SliceOf DEF SplitArgument
  <2>3. CASE SplitMessage
    <3>1. SubSeq(buf, start + 1, hi - lo) \in Seq(Octet)
      BY <2>1, SliceType
    <3> QED BY <2>3, <3>1, SliceOf, SplitMessageIs
  <2>4. CASE UNCHANGED <<argBuf, pa, msgBuf, msgCap>>
    BY <2>1, <2>4
  <2> QED BY <2>2, <2>3, <2>4 DEF EndOfRead
<1>3. FixedTyped' /\ MovingTyped'
  <2>1. FixedTyped'
    BY <1>1, <1>2 DEF Typed, FixedTyped
  <2>2. MovingTyped'
    BY <1>1, <1>2 DEF Typed, MovingTyped
  <2> QED BY <2>1, <2>2
<1> QED BY <1>3 DEF Typed

LEMMA InitTyped ==
  ASSUME Init
  PROVE  Typed
<1>1. PICK in \in Inputs : /\ input = [typ |-> in.typ, ops |-> in.ops, auth |-> in.auth,
                                       stream |-> Stream(in.ops)]
                           /\ authTimer = in.auth
  BY DEF Init
<1>2. Len(input.stream) \in Nat
  <2>1. in.ops \in Seq(Operation) /\ \A k \in 1..Len(in.ops) : Sendable(in.typ, in.ops[k])
    BY InputAssumption
  <2>2. Len(in.ops) \in Nat /\ DOMAIN in.ops = 1..Len(in.ops) /\ \A k \in 1..Len(in.ops) : in.ops[k] \in Operation
    BY <2>1, LenProperties, ElementOfSeq
  <2>3. \A k \in 1..Len(in.ops) : Clean(in.ops[k])
    BY <2>1, <2>2, CleanIs
  <2>4. Laid(in.ops, Stream(in.ops))
    BY <2>2, <2>3, StreamIs
  <2> QED BY <1>1, <2>4 DEF Laid
<1>3. authTimer \in BOOLEAN
  BY <1>1, InputAssumption
<1>4. FixedTyped
  <2>1. lo = 0 /\ hi = 0 /\ reads = 0 /\ parsing = FALSE /\ infoSplit = FALSE /\ msgCap = 0
    BY DEF Init
  <2>2. /\ lo \in Nat /\ hi \in Nat /\ lo <= hi /\ hi <= Len(input.stream)
        /\ parsing \in BOOLEAN /\ infoSplit \in BOOLEAN /\ msgCap \in Int
    <3>1. PICK m \in Nat : m = Len(input.stream)
      BY <1>2
    <3>2. lo \in Nat /\ hi \in Nat /\ lo <= hi /\ hi <= m /\ msgCap \in Int
      BY <2>1
    <3>3. parsing \in BOOLEAN /\ infoSplit \in BOOLEAN
      BY <2>1
    <3> QED BY Zenon, <3>1, <3>2, <3>3
  <2>3. reads \in Nat /\ reads < MaxReads
    BY <2>1, BoundAssumption
  <2> QED BY Zenon, <1>1, <2>2, <2>3 DEF FixedTyped
<1>5. pa \in PaType
  <2>1. <<>> \in Seq(Octet) /\ {} \in Slices
    BY DEF Slices
  <2> QED BY <2>1 DEF Init, PaType
<1>6. MovingTyped
  BY <1>3, <1>5 DEF Init, MovingTyped, Slices, States, Errors
<1> QED BY <1>4, <1>6 DEF Typed
-----------------------------------------------------------------------------
(* What has been called.                                                        *)
LEMMA AsksIs ==
  ASSUME NEW op
  PROVE  Asks(op) = <<>> \/ \E x : Asks(op) = <<x>>
<1>1. CASE op.kind \in {"PUB", "MSG"}
  BY Zenon, <1>1 DEF Asks
<1>2. CASE op.kind \in {"SUB", "UNSUB"}
  BY <1>2 DEF Asks
<1>3. CASE op.kind \in {"CONNECT", "INFO", "ERR"}
  BY <1>3 DEF Asks
<1>4. CASE op.kind \in {"PING", "PONG"}
  BY <1>4 DEF Asks
<1>5. CASE op.kind \notin {"PUB", "MSG", "SUB", "UNSUB", "CONNECT", "INFO", "ERR", "PING", "PONG"}
  BY <1>5 DEF Asks
<1> QED BY <1>1, <1>2, <1>3, <1>4, <1>5

CallsOf(ops) == {Asks(ops[k])[1] : k \in 1..Len(ops)}

LEMMA CalledSteps ==
  ASSUME NEW ops, Len(ops) \in Nat
  PROVE  /\ CalledTo(ops, 0) = <<>>
         /\ \A k \in 1..Len(ops) : CalledTo(ops, k) = CalledTo(ops, k - 1) \o Asks(ops[k])
         /\ \A k \in 0..Len(ops) : CalledTo(ops, k) \in Seq(CallsOf(ops))
         /\ \A k \in 1..Len(ops) : Asks(ops[k]) \in Seq(CallsOf(ops))
<1>1. PICK n \in Nat : n = Len(ops)
  OBVIOUS
<1>2. PICK ss : ss = [j \in 1..n |-> Asks(ops[j])]
  OBVIOUS
<1>3. ASSUME NEW j \in 1..n PROVE Asks(ops[j]) \in Seq(CallsOf(ops))
  <2>1. CASE Asks(ops[j]) = <<>>
    BY <2>1
  <2>2. CASE Asks(ops[j]) # <<>>
    <3>1. PICK x : Asks(ops[j]) = <<x>>
      BY <2>2, AsksIs
    <3>2. x = Asks(ops[j])[1]
      BY <3>1
    <3>3. x \in CallsOf(ops)
      BY <1>1, <3>2 DEF CallsOf
    <3> QED BY <3>1, <3>3
  <2> QED BY <2>1, <2>2
<1>4. \A j \in 1..n : ss[j] = Asks(ops[j]) /\ ss[j] \in Seq(CallsOf(ops))
  BY <1>2, <1>3
<1>5. /\ FlattenSeq([j \in 1..0 |-> ss[j]]) = <<>>
      /\ \A k \in 1..n : FlattenSeq([j \in 1..k |-> ss[j]])
                         = FlattenSeq([j \in 1..(k - 1) |-> ss[j]]) \o ss[k]
      /\ \A k \in 0..n : FlattenSeq([j \in 1..k |-> ss[j]]) \in Seq(CallsOf(ops))
  BY <1>4, FlatSteps
<1>6. ASSUME NEW k \in 0..n PROVE FlattenSeq([j \in 1..k |-> ss[j]]) = CalledTo(ops, k)
  <2>1. [j \in 1..k |-> ss[j]] = [j \in 1..k |-> Asks(ops[j])]
    BY <1>4
  <2> QED BY <2>1 DEF CalledTo
<1>7. 0 \in 0..n /\ \A k \in 1..n : k \in 0..n /\ k - 1 \in 0..n
  OBVIOUS
<1> QED BY Zenon, <1>1, <1>4, <1>5, <1>6, <1>7

(* The k-th operation has been called for.                                      *)
LEMMA OneCall ==
  ASSUME Typed, NEW k \in 1..Len(input.ops), Upto(k), NEW x,
         Asks(input.ops[k]) = <<x>>, calls' = Append(calls, x)
  PROVE  calls' = CalledTo(input.ops, k)
<1>1. Len(input.ops) \in Nat
  BY StreamKnown
<1>2. PICK ops : ops = input.ops
  OBVIOUS
<1>3. /\ CalledTo(ops, k) = CalledTo(ops, k - 1) \o Asks(ops[k])
      /\ k - 1 \in 0..Len(ops) /\ CalledTo(ops, k - 1) \in Seq(CallsOf(ops))
  <2>1. Len(ops) \in Nat /\ k \in 1..Len(ops)
    BY <1>1, <1>2
  <2>2. k - 1 \in 0..Len(ops)
    BY <2>1
  <2> QED BY <2>1, <2>2, CalledSteps
<1>4. PICK c \in Seq(CallsOf(ops)) : c = CalledTo(ops, k - 1) /\ calls = c
  BY <1>2, <1>3 DEF Upto
<1>5. x \in CallsOf(ops)
  <2>1. Asks(ops[k])[1] = x
    BY <1>2
  <2> QED BY <1>2, <2>1 DEF CallsOf
<1>6. Append(c, x) = c \o <<x>>
  BY ONLY c \in Seq(CallsOf(ops)), <1>5, AppendIsConcat
<1> QED BY Zenon, <1>2, <1>3, <1>4, <1>6

LEMMA NoCall ==
  ASSUME Typed, NEW k \in 1..Len(input.ops), Upto(k), Asks(input.ops[k]) = <<>>, calls' = calls
  PROVE  calls' = CalledTo(input.ops, k)
<1>1. Len(input.ops) \in Nat
  BY StreamKnown
<1>2. PICK ops : ops = input.ops
  OBVIOUS
<1>3. /\ CalledTo(ops, k) = CalledTo(ops, k - 1) \o Asks(ops[k])
      /\ k - 1 \in 0..Len(ops) /\ CalledTo(ops, k - 1) \in Seq(CallsOf(ops))
  <2>1. Len(ops) \in Nat /\ k \in 1..Len(ops)
    BY <1>1, <1>2
  <2>2. k - 1 \in 0..Len(ops)
    BY <2>1
  <2> QED BY <2>1, <2>2, CalledSteps
<1>4. PICK c \in Seq(CallsOf(ops)) : c = CalledTo(ops, k - 1) /\ calls = c
  BY <1>2, <1>3 DEF Upto
<1>5. c \o <<>> = c
  BY ConcatEmptySeq
<1> QED BY Zenon, <1>2, <1>3, <1>4, <1>5

-----------------------------------------------------------------------------
(* From an operation to the next, or to where it is refused.                    *)
LEMMA RefusalKept ==
  ASSUME input' = input, NEW k
  PROVE  Refusal(k)' = Refusal(k)
BY DEF Refusal

LEMMA UptoKept ==
  ASSUME NEW k, Upto(k), UNCHANGED <<input, calls, authTimer>>, parsing' => (authSet' <=> authTimer),
         input.typ = "CLIENT" => pa'.sid = pa.sid
  PROVE  Upto(k)'
<1>1. \A j \in 1..(k - 1) : Refusal(j)' = "nil"
  <2>1. \A j \in 1..(k - 1) : Refusal(j) = "nil"
    BY DEF Upto
  <2> QED BY <2>1, RefusalKept
<1>2. /\ k \in 1..(Len(input.ops) + 1) /\ calls = CalledTo(input.ops, k - 1)
      /\ authTimer <=> (input.auth /\ k = 1)
      /\ input.typ = "CLIENT" => pa.sid = {}
  BY DEF Upto
<1> QED BY Zenon, <1>1, <1>2 DEF Upto

LEMMA Refused ==
  ASSUME Typed, NEW k \in 1..Len(input.ops), Upto(k), NEW e, Refusal(k) = e, e # "nil", Fail(e), Same, parsing
  PROVE  At(k)'
<1>1. /\ UNCHANGED <<input, calls, authTimer, authSet, pa, parsing>> /\ err' = e
  BY DEF Fail, Same, Rest
<1>2. parsing => (authSet <=> authTimer)
  BY DEF Upto
<1>3. Upto(k)'
  BY <1>1, <1>2, UptoKept
<1>4. Refusal(k)' = e /\ Len(input.ops)' = Len(input.ops) /\ k <= Len(input.ops)
  <2>1. Len(input.ops) \in Nat
    BY StreamKnown
  <2>2. PICK n \in Nat : n = Len(input.ops)
    BY <2>1
  <2>3. k \in 1..n
    BY Zenon, <2>2
  <2>4. k <= n
    BY <2>3
  <2> QED BY <1>1, <2>2, <2>4, RefusalKept
<1> QED BY Zenon, <1>1, <1>3, <1>4 DEF At

LEMMA NextOperation ==
  ASSUME Typed, NEW k \in 1..Len(input.ops), Upto(k), Refusal(k) = "nil",
         Rest, parsing, lo + i' = Offset(input.ops, k), lo + i' <= hi,
         state' = "OP_START", argBuf' = {}, msgBuf' = {}, drop' = 0, err' = "nil", pa' = pa,
         calls' = CalledTo(input.ops, k), ~authTimer', ~authSet'
  PROVE  At(k + 1)'
<1>1. Len(input.ops) \in Nat
  BY StreamKnown
<1>2. k + 1 \in 1..(Len(input.ops) + 1) /\ (k + 1) - 1 = k /\ k + 1 # 1 /\ k \in Nat
  <2>1. PICK n \in Nat : n = Len(input.ops)
    BY <1>1
  <2>2. k \in 1..n
    BY Zenon, <2>1
  <2>3. k + 1 \in 1..(n + 1) /\ (k + 1) - 1 = k /\ k + 1 # 1 /\ k \in Nat
    BY <2>2
  <2> QED BY Zenon, <2>1, <2>3
<1>3. UNCHANGED <<input, lo, hi, parsing>>
  BY DEF Rest
<1>4. \A j \in 1..k : Refusal(j)' = "nil"
  <2>1. \A j \in 1..(k - 1) : Refusal(j) = "nil"
    BY DEF Upto
  <2>2. \A j \in 1..k : j = k \/ j \in 1..(k - 1)
    BY <1>2
  <2> QED BY <1>3, <2>1, <2>2, RefusalKept
<1>5. Upto(k + 1)'
  <2>1. input.typ = "CLIENT" => pa.sid = {}
    BY DEF Upto
  <2> QED BY Zenon, <1>2, <1>3, <1>4, <2>1 DEF Upto
<1>6. Position' = lo + i' /\ Offset(input.ops, k) \in Nat
  <2>1. OpKnown(k)
    BY StreamKnown
  <2> QED BY <1>3, <2>1 DEF Position, OpKnown
<1>7. Into(k + 1)' = 0
  <2>1. Into(k + 1)' = Position' - Offset(input.ops, k)
    BY Zenon, <1>2, <1>3 DEF Into
  <2>2. PICK n \in Nat : n = Offset(input.ops, k)
    BY <1>6
  <2>3. Position' = n
    BY Zenon, <1>6, <2>2
  <2>4. n - n = 0
    OBVIOUS
  <2> QED BY Zenon, <2>1, <2>2, <2>3, <2>4
<1>8. AtStart(k + 1)'
  BY Zenon, <1>3, <1>6, <1>7 DEF AtStart
<1> QED BY Zenon, <1>5, <1>8 DEF At
LEMMA StillWithin ==
  ASSUME NEW k, Upto(k), Admitted(k), UNCHANGED <<input, calls, authTimer>>,
         parsing' => (authSet' <=> authTimer), input.typ = "CLIENT" => pa'.sid = pa.sid,
         err' = "nil", Within(k)'
  PROVE  At(k)'
<1>1. Upto(k)'
  BY UptoKept
<1>2. Admitted(k)'
  BY DEF Admitted
<1> QED BY Zenon, <1>1, <1>2 DEF At

(* Where the parser is when a byte is looked at.                                *)
LEMMA Here ==
  ASSUME ParserInv, ~infoSplit, parsing, err = "nil"
  PROVE  \E k \in 1..(Len(input.ops) + 1) : /\ Upto(k)
                                            /\ AtStart(k) \/ (Admitted(k) /\ k \in 1..Len(input.ops) /\ Within(k))
<1>1. PICK k \in 1..(Len(input.ops) + 1) : At(k)
  BY DEF ParserInv, Somewhere
<1>2. Admitted(k) => k \in 1..Len(input.ops)
  <2>1. PICK n \in Nat : n = Len(input.ops)
    BY StreamKnown DEF ParserInv
  <2>2. k \in 1..(n + 1) /\ (Admitted(k) => k <= n)
    BY Zenon, <2>1 DEF Admitted
  <2>3. Admitted(k) => k \in 1..n
    BY <2>2
  <2> QED BY <2>1, <2>3
<1> QED BY Zenon, <1>1, <1>2 DEF At

LEMMA StartsOne ==
  ASSUME Typed, parsing, i < hi - lo, NEW k \in 1..(Len(input.ops) + 1), AtStart(k)
  PROVE  k \in 1..Len(input.ops)
<1>1. PICK n \in Nat, m \in Nat : n = Len(input.ops) /\ m = Len(input.stream) /\ Offset(input.ops, n) = m
  BY StreamKnown
<1>2. lo \in Nat /\ hi \in Nat /\ i \in Nat /\ hi <= m
  BY <1>1 DEF Typed, FixedTyped, MovingTyped
<1>3. CASE k = n + 1
  <2>1. k - 1 = n
    BY <1>3
  <2>2. Position - Offset(input.ops, k - 1) = 0
    BY DEF AtStart, Into
  <2>3. Position = lo + i
    BY DEF Position
  <2>4. Offset(input.ops, k - 1) = m
    BY Zenon, <1>1, <2>1
  <2>5. PICK q \in Nat : q = lo + i
    BY <1>2
  <2>6. q = Position /\ m = Offset(input.ops, k - 1)
    BY Zenon, <2>3, <2>4, <2>5
  <2>7. q - m = 0
    BY Zenon, <2>2, <2>6
  <2> QED BY <1>2, <2>5, <2>7
<1>4. CASE k # n + 1
  <2>1. k \in 1..(n + 1)
    BY Zenon, <1>1
  <2>2. k \in 1..n
    BY <1>4, <2>1
  <2> QED BY <1>1, <2>2
<1> QED BY <1>3, <1>4

(* The numbers of an operation, and how a byte moves on.                        *)
Sizes(op, n, c, h, t, e, l, z) ==
  /\ n \in Nat /\ c \in 3..7 /\ h \in Nat /\ t \in Nat /\ e \in 1..2 /\ l \in Nat /\ z \in Nat /\ h >= 3
  /\ c = Len(Keyword[op.kind]) /\ h = HeadLen(op) /\ t = Len(Text(op)) /\ e = Len(op.eol)
  /\ l = LineLen(op) /\ z = BodyLen(op)
  /\ l = h + t + e /\ h = c + (IF op.kind \in Bare THEN 0 ELSE 1)
  /\ op.kind \in Bare => t = 0
  /\ op.kind \notin Bare => t >= 1
  /\ IF op.kind \in Messages THEN n = Len(op.payload) /\ z = n + 2 ELSE z = 0

LEMMA SizesAre ==
  ASSUME Typed, NEW k \in 1..Len(input.ops)
  PROVE  \E n, c, h, t, e, l, z : Sizes(input.ops[k], n, c, h, t, e, l, z)
<1>1. PICK op : op = input.ops[k] /\ Clean(op) /\ Lengths(op)
  BY StreamKnown DEF OpKnown
<1>2. Len(op.payload) \in Nat /\ (op.kind \notin Bare => Len(Text(op)) >= 1)
  BY <1>1, EndsAre, ArgumentIs
<1>3. BodyLen(op) = IF op.kind \in Messages THEN Len(op.payload) + 2 ELSE 0
  BY DEF BodyLen
<1>4. Sizes(op, Len(op.payload), Len(Keyword[op.kind]), HeadLen(op), Len(Text(op)), Len(op.eol),
            LineLen(op), BodyLen(op))
  BY Zenon, <1>1, <1>2, <1>3 DEF Sizes, Lengths
<1> QED BY Zenon, <1>1, <1>4

LEMMA Moved ==
  ASSUME Typed, Typed', Rest, parsing, NEW k \in 1..Len(input.ops)
  PROVE  \E o \in Nat : /\ o = Offset(input.ops, k - 1)
                        /\ Position = lo + i /\ Position' = lo + i'
                        /\ Into(k) = lo + i - o /\ Into(k)' = lo + i' - o
                        /\ lo \in Nat /\ hi \in Nat /\ i \in Nat /\ i' \in Nat
<1>1. PICK o \in Nat : o = Offset(input.ops, k - 1)
  BY StreamKnown DEF OpKnown
<1>2. UNCHANGED <<input, lo, hi, parsing>>
  BY DEF Rest
<1>3. Position = lo + i /\ Position' = lo + i'
  BY <1>2 DEF Position
<1>4. Into(k) = lo + i - o /\ Into(k)' = lo + i' - o
  <2>1. Into(k)' = Position' - Offset(input.ops, k - 1)
    BY <1>2 DEF Into
  <2>2. Into(k) = Position - Offset(input.ops, k - 1)
    BY DEF Into
  <2>3. PICK x, y : x = lo + i /\ y = lo + i' /\ x = Position /\ y = Position'
    BY Zenon, <1>3
  <2>4. Into(k) = x - o /\ Into(k)' = y - o
    BY Zenon, <1>1, <2>1, <2>2, <2>3
  <2>5. PICK u, v : u = Into(k) /\ v = Into(k)'
    OBVIOUS
  <2>6. u = x - o /\ v = y - o
    BY Zenon, <2>4, <2>5
  <2>7. lo \in Nat /\ i \in Nat /\ i' \in Nat
    BY DEF Typed, FixedTyped, MovingTyped
  <2>8. x = lo + i /\ y = lo + i'
    BY Zenon, <2>3
  <2>9. u = lo + i - o /\ v = lo + i' - o
    BY <2>6, <2>7, <2>8
  <2> QED BY Zenon, <2>5, <2>9
<1>5. lo \in Nat /\ hi \in Nat /\ i \in Nat /\ i' \in Nat
  BY DEF Typed, FixedTyped, MovingTyped
<1> QED BY Zenon, <1>1, <1>3, <1>4, <1>5

(* What a state says of where the parser is.                                    *)
LEMMA HeadStates ==
  ASSUME Typed, NEW k \in 1..Len(input.ops), NEW j \in 1..HeadLen(input.ops[k])
  PROVE  LET op == input.ops[k]
             st == Heads[op.kind][j]
             c == Len(Keyword[op.kind])
         IN /\ HeadStep(op.kind, j)
            /\ st \in LetterStates \union SpaceStates \union BareStates
            /\ st \in BareStates => op.kind \in Bare /\ j = c /\ j = HeadLen(op)
            /\ st \in LetterStates => j < c \/ (j = c /\ op.kind \notin Bare)
            /\ st \in SpaceStates => op.kind \notin Bare /\ (j = c \/ j = HeadLen(op))
<1>1. PICK op, n, c, h, t, e, l, z : op = input.ops[k] /\ Sizes(op, n, c, h, t, e, l, z)
  BY SizesAre
<1>2. op.kind \in DOMAIN Keyword
  BY <1>1, StreamKnown DEF OpKnown, Clean
<1>3. c \in 3..7 /\ h = c + (IF op.kind \in Bare THEN 0 ELSE 1) /\ c = Len(Keyword[op.kind]) /\ h = HeadLen(op)
  BY Zenon, <1>1 DEF Sizes
<1>4. j \in 1..(Len(Keyword[op.kind]) + (IF op.kind \in Bare THEN 0 ELSE 1))
  BY Zenon, <1>1, <1>3
<1>5. HeadStep(op.kind, j)
  BY <1>2, <1>4, HeadsAre
<1>6. PICK st : st = Heads[op.kind][j]
  OBVIOUS
<1>7. j < c => st \in LetterStates
  <2>1. j < c => \E m \in Letters : m[1] = st
    <3> SUFFICES ASSUME j < c PROVE \E m \in Letters : m[1] = st
      OBVIOUS
    <3>1. PICK m \in Letters : m = <<st, Keyword[op.kind][j + 1], Heads[op.kind][j + 1]>>
      BY Zenon, <1>3, <1>5, <1>6 DEF HeadStep
    <3>2. m[1] = st
      BY <3>1
    <3> QED BY <3>2
  <2> QED BY <2>1 DEF LetterStates
<1>8. j = c /\ op.kind \notin Bare => st \in LetterStates \union SpaceStates
  <2>1. j = c /\ op.kind \notin Bare => st \in SpaceStates \/ \E m \in Letters : m[1] = st
    <3> SUFFICES ASSUME j = c, op.kind \notin Bare, st \notin SpaceStates PROVE \E m \in Letters : m[1] = st
      OBVIOUS
    <3>1. PICK m \in Letters : m = <<st, SP, Heads[op.kind][j + 1]>>
      BY Zenon, <1>3, <1>5, <1>6 DEF HeadStep
    <3>2. m[1] = st
      BY <3>1
    <3> QED BY <3>2
  <2> QED BY <2>1 DEF LetterStates
<1>9. j > c => st \in SpaceStates
  <2>1. j > c => \E s \in Spaces : s[1] = st
    <3> SUFFICES ASSUME j > c PROVE \E s \in Spaces : s[1] = st
      OBVIOUS
    <3>1. PICK s \in Spaces : s = <<st, ArgState[op.kind]>>
      BY Zenon, <1>3, <1>5, <1>6 DEF HeadStep
    <3>2. s[1] = st
      BY <3>1
    <3> QED BY <3>2
  <2> QED BY <2>1 DEF SpaceStates
<1>10. j = c /\ op.kind \in Bare => st \in BareStates
  BY Zenon, <1>3, <1>5, <1>6 DEF HeadStep
<1>11. /\ j \in Nat /\ j >= 1 /\ j <= h
       /\ j < c \/ (j = c /\ op.kind \notin Bare) \/ (j > c /\ j = h /\ op.kind \notin Bare)
          \/ (j = c /\ op.kind \in Bare /\ j = h)
  <2>1. j \in 1..h
    BY Zenon, <1>1, <1>3
  <2>2. CASE op.kind \in Bare
    <3>1. h = c
      BY <1>3, <2>2
    <3> QED BY <1>3, <2>1, <2>2, <3>1
  <2>3. CASE op.kind \notin Bare
    <3>1. h = c + 1
      BY <1>3, <2>3
    <3> QED BY <1>3, <2>1, <2>3, <3>1
  <2> QED BY <2>2, <2>3
<1>12. /\ \A x \in LetterStates : x \notin SpaceStates \union BareStates
       /\ \A x \in SpaceStates : x \notin BareStates
  BY Sorts
<1>13. /\ st \in LetterStates \union SpaceStates \union BareStates
       /\ st \in BareStates => op.kind \in Bare /\ j = c /\ j = h
       /\ st \in LetterStates => j < c \/ (j = c /\ op.kind \notin Bare)
       /\ st \in SpaceStates => op.kind \notin Bare /\ (j = c \/ j = h)
  BY <1>7, <1>8, <1>9, <1>10, <1>11, <1>12
<1> QED BY Zenon, <1>1, <1>3, <1>5, <1>6, <1>13

LEMMA ArgStatesAre ==
  ASSUME NEW kind \in DOMAIN Keyword, kind \notin Bare
  PROVE  ArgState[kind] \in ArgStates
BY DEF Keyword, Bare, ArgState, ArgStates, SplitStates

LEMMA WhichWithin ==
  ASSUME Typed, NEW k \in 1..Len(input.ops), Within(k)
  PROVE  /\ state # "OP_START"
         /\ state \in LetterStates => InHead(k)
         /\ state \in SpaceStates => InHead(k)
         /\ state \in BareStates => InHead(k) \/ InBare(k)
         /\ state \in ArgStates => InArg(k)
         /\ state \in MsgStates => InBody(k) \/ InCopy(k)
         /\ InHead(k) \/ InBare(k) => state \notin ArgStates \union MsgStates
<1>1. PICK op : op = input.ops[k] /\ op.kind \in DOMAIN Keyword /\ HeadLen(op) \in Nat /\ HeadLen(op) >= 3
  BY StreamKnown DEF OpKnown, Clean, Lengths
<1>2. InHead(k) => state \in LetterStates \union SpaceStates \union BareStates
  BY <1>1, HeadStates DEF InHead
<1>3. InBare(k) => state \in BareStates
  <2>1. HeadLen(op) \in 1..HeadLen(op)
    BY <1>1
  <2>2. Heads[op.kind][HeadLen(op)] \in LetterStates \union SpaceStates \union BareStates
        /\ (Heads[op.kind][HeadLen(op)] \in LetterStates => HeadLen(op) < Len(Keyword[op.kind]) \/ op.kind \notin Bare)
        /\ (Heads[op.kind][HeadLen(op)] \in SpaceStates => op.kind \notin Bare)
    BY <1>1, <2>1, HeadStates
  <2>3. op.kind \in Bare => ~(HeadLen(op) < Len(Keyword[op.kind]))
    <3>1. PICK n, c, h, t, e, l, z : Sizes(op, n, c, h, t, e, l, z)
      BY <1>1, SizesAre
    <3>2. c \in 3..7 /\ h = c + (IF op.kind \in Bare THEN 0 ELSE 1) /\ c = Len(Keyword[op.kind]) /\ h = HeadLen(op)
      BY Zenon, <3>1 DEF Sizes
    <3>3. op.kind \in Bare => ~(h < c)
      BY <3>2
    <3> QED BY Zenon, <3>2, <3>3
  <2>4. InBare(k) => op.kind \in Bare /\ state = Heads[op.kind][HeadLen(op)]
    BY <1>1 DEF InBare
  <2> QED BY <2>2, <2>3, <2>4
<1>4. InArg(k) => state \in ArgStates
  BY <1>1, ArgStatesAre DEF InArg
<1>5. InBody(k) \/ InCopy(k) => state \in MsgStates
  BY DEF InBody, InCopy, MsgStates
<1>6. /\ \A st \in LetterStates : st \notin SpaceStates \union ArgStates \union BareStates \union MsgStates \union {"OP_START"}
      /\ \A st \in SpaceStates : st \notin ArgStates \union BareStates \union MsgStates \union {"OP_START"}
      /\ \A st \in ArgStates : st \notin BareStates \union MsgStates \union {"OP_START"}
      /\ \A st \in BareStates : st \notin MsgStates \union {"OP_START"}
      /\ "OP_START" \notin MsgStates
  BY Sorts
<1> QED BY <1>2, <1>3, <1>4, <1>5, <1>6 DEF Within
-----------------------------------------------------------------------------
(* A byte leaves the parser where the invariant says.                           *)
LEMMA Found ==
  ASSUME NEW k, At(k)'
  PROVE  Somewhere'
BY Zenon DEF At, Upto, Somewhere

LEMMA InOperation ==
  ASSUME ParserInv, ~infoSplit, parsing, err = "nil", state # "OP_START"
  PROVE  \E k \in 1..Len(input.ops) : Upto(k) /\ Admitted(k) /\ Within(k)
<1>1. PICK k \in 1..(Len(input.ops) + 1) : /\ Upto(k)
                                           /\ AtStart(k) \/ (Admitted(k) /\ k \in 1..Len(input.ops) /\ Within(k))
  BY Here
<1>2. ~AtStart(k)
  BY DEF AtStart
<1> QED BY <1>1, <1>2

LEMMA NoTimer ==
  ASSUME NEW k, Upto(k), Admitted(k), parsing, input.ops[k].kind # "CONNECT"
  PROVE  ~authTimer /\ ~authSet
BY DEF Upto, Admitted

LEMMA AdmittedRefusal ==
  ASSUME NEW k, Admitted(k)
  PROVE  Refusal(k) = IF input.ops[k].kind = "PUB" /\ MaxPayload > 0 /\ Len(input.ops[k].payload) > MaxPayload
                      THEN "payload" ELSE "nil"
BY DEF Admitted, Refusal

LEMMA HeadKept ==
  ASSUME Rest, NEW k, NEW j, Into(k)' = j, j \in 1..HeadLen(input.ops[k]), Position' <= hi,
         state' = Heads[input.ops[k].kind][j], argBuf' = {}, msgBuf' = {}, drop' = 0
  PROVE  InHead(k)'
<1>1. UNCHANGED <<input, hi>>
  BY DEF Rest
<1> QED BY Zenon, <1>1 DEF InHead

FirstLetters == {<<"P", "OP_P">>, <<"S", "OP_S">>, <<"U", "OP_U">>, <<"C", "OP_C">>,
                 <<"I", "OP_I">>, <<"+", "OP_PLUS">>, <<"-", "OP_MINUS">>, <<"M", "OP_M">>}

LEMMA FirstIs ==
  ASSUME NEW kind \in DOMAIN Keyword
  PROVE  /\ <<Keyword[kind][1], Heads[kind][1]>> \in FirstLetters
         /\ Keyword[kind][1] = "C" <=> kind = "CONNECT"
         /\ Keyword[kind][1] = "M" <=> kind = "MSG"
BY DEF Keyword, Heads, FirstLetters

LEMMA FirstOnce ==
  ASSUME NEW p \in FirstLetters, NEW q \in FirstLetters, p[1] = q[1]
  PROVE  p[2] = q[2]
BY DEF FirstLetters

LEMMA OpStartKept ==
  ASSUME ParserInv, ~infoSplit, OpStart, Typed'
  PROVE  Somewhere'
<1>1. parsing /\ err = "nil" /\ i < hi - lo /\ state = "OP_START" /\ Same /\ Rest /\ Typed
  BY DEF OpStart, In, Same, ParserInv
<1>2. PICK k \in 1..Len(input.ops) : Upto(k) /\ AtStart(k)
  <2>1. PICK k \in 1..(Len(input.ops) + 1) : /\ Upto(k)
                                             /\ AtStart(k) \/ (Admitted(k) /\ k \in 1..Len(input.ops) /\ Within(k))
    BY <1>1, Here
  <2>2. AtStart(k)
    BY <1>1, <2>1, WhichWithin
  <2> QED BY <1>1, <2>1, <2>2, StartsOne
<1>3. PICK op, n, c, h, t, e, l, z : op = input.ops[k] /\ Sizes(op, n, c, h, t, e, l, z)
  BY <1>1, SizesAre
<1>4. op.kind \in DOMAIN Keyword /\ (op.kind = "MSG" => input.typ = "ROUTER")
  BY <1>1, <1>3, StreamKnown DEF OpKnown, Clean
<1>5. c \in 3..7 /\ h \in Nat /\ c = Len(Keyword[op.kind]) /\ h = HeadLen(op) /\ h >= 3
  BY Zenon, <1>3 DEF Sizes
<1>6. b = Keyword[op.kind][1]
  <2>1. Into(k) = 0 /\ 0 \in Nat
    BY <1>2 DEF AtStart
  <2>2. ByteOf(op, 0, b)
    <3>1. ByteOf(input.ops[k], Into(k), b)
      BY Zenon, <1>1, <2>1, ByteIs
    <3> QED BY Zenon, <1>3, <2>1, <3>1
  <2>3. 0 < c /\ 0 + 1 = 1
    <3>1. c \in 3..7
      BY Zenon, <1>5
    <3> QED BY <3>1
  <2> QED BY Zenon, <1>5, <2>2, <2>3 DEF ByteOf
<1>7. PICK next : /\ next = {p \in FirstLetters : p[1] = b /\ (b = "M" => input.typ # "CLIENT")}
                  /\ IF b # "C" /\ authSet THEN Fail("authorization")
                     ELSE IF next = {} THEN Fail("parse")
                     ELSE /\ state' = The(next)[2] /\ i' = i + 1
                          /\ UNCHANGED <<start, drop, argBuf, msgBuf, pa, err, calls>>
  BY Zenon DEF OpStart, FirstLetters
<1>8. CASE b # "C" /\ authSet
  <2>1. op.kind # "CONNECT"
    BY <1>4, <1>6, <1>8, FirstIs
  <2>2. k = 1 /\ input.auth
    BY <1>1, <1>2, <1>8 DEF Upto
  <2>3. Refusal(k) = "authorization"
    BY <1>3, <2>1, <2>2 DEF Refusal
  <2>4. Fail("authorization") /\ "authorization" # "nil"
    BY <1>7, <1>8
  <2>5. At(k)'
    BY Zenon, <1>1, <1>2, <2>3, <2>4, Refused
  <2> QED BY <2>5, Found
<1>9. CASE ~(b # "C" /\ authSet)
  <2>1. Admitted(k)
    <3>1. k <= Len(input.ops)
      <4>1. PICK m \in Nat : m = Len(input.ops)
        BY <1>1, StreamKnown
      <4>2. k \in 1..m
        BY Zenon, <4>1
      <4>3. k <= m
        BY <4>2
      <4> QED BY Zenon, <4>1, <4>3
    <3>2. k = 1 /\ input.auth => op.kind = "CONNECT"
      BY <1>1, <1>2, <1>4, <1>6, <1>9, FirstIs DEF Upto
    <3> QED BY Zenon, <1>3, <3>1, <3>2 DEF Admitted
  <2>2. PICK p \in FirstLetters : p = <<b, Heads[op.kind][1]>> /\ p[1] = b /\ p[2] = Heads[op.kind][1]
    BY <1>4, <1>6, FirstIs
  <2>3. p \in next
    <3>1. b = "M" => input.typ # "CLIENT"
      BY <1>4, <1>6, FirstIs
    <3> QED BY <1>7, <2>2, <3>1
  <2>4. The(next) \in next
    BY <2>3 DEF The
  <2>5. The(next)[2] = Heads[op.kind][1]
    BY <1>7, <2>2, <2>4, FirstOnce
  <2>6. /\ state' = Heads[op.kind][1] /\ i' = i + 1
        /\ UNCHANGED <<start, drop, argBuf, msgBuf, pa, err, calls>>
    BY <1>7, <1>9, <2>3, <2>5
  <2>7. Into(k)' = 1 /\ Position' <= hi
    <3>1. PICK o \in Nat : /\ Position' = lo + i' /\ Into(k) = lo + i - o /\ Into(k)' = lo + i' - o
                           /\ lo \in Nat /\ hi \in Nat /\ i \in Nat
      BY Zenon, <1>1, Moved
    <3>2. Into(k) = 0
      BY <1>2 DEF AtStart
    <3>3. lo + i - o = 0 /\ lo + i' - o = 1 /\ lo + i' <= hi
      <4>1. lo + i - o = 0
        BY Zenon, <3>1, <3>2
      <4> QED BY <1>1, <2>6, <3>1, <4>1, SMTT(30)
    <3> QED BY Zenon, <3>1, <3>3
  <2>8. InHead(k)'
    <3>1. 1 \in 1..HeadLen(input.ops[k])
      BY <1>3, <1>5
    <3>2. argBuf' = {} /\ msgBuf' = {} /\ drop' = 0
      BY <1>2, <2>6 DEF AtStart
    <3> QED BY Zenon, <1>1, <1>3, <2>6, <2>7, <3>1, <3>2, HeadKept
  <2>9. UNCHANGED <<input, calls, authTimer, authSet, parsing, pa, err>>
    BY <1>1, <2>6 DEF Same, Rest
  <2>10. At(k)'
    <3>1. parsing' => (authSet' <=> authTimer)
      BY <1>2, <2>9 DEF Upto
    <3> QED BY <1>1, <1>2, <2>1, <2>8, <2>9, <3>1, StillWithin DEF Within
  <2> QED BY <2>10, Found
<1> QED BY <1>8, <1>9
LEMMA Numbers ==
  ASSUME NEW op, NEW n, NEW c, NEW h, NEW t, NEW e, NEW l, NEW z, Sizes(op, n, c, h, t, e, l, z)
  PROVE  /\ n \in Nat /\ c \in 3..7 /\ h \in Nat /\ t \in Nat /\ e \in 1..2 /\ l \in Nat /\ z \in Nat
         /\ l = h + t + e /\ c <= h
         /\ op.kind \in Bare => h = c /\ t = 0
         /\ op.kind \notin Bare => h = c + 1 /\ t >= 1
         /\ op.kind \in Messages => z = n + 2
         /\ op.kind \notin Messages => z = 0
<1>1. /\ n \in Nat /\ c \in 3..7 /\ h \in Nat /\ t \in Nat /\ e \in 1..2 /\ l \in Nat /\ z \in Nat
      /\ l = h + t + e /\ h = c + (IF op.kind \in Bare THEN 0 ELSE 1)
      /\ op.kind \in Bare => t = 0
      /\ op.kind \notin Bare => t >= 1
      /\ op.kind \in Messages => z = n + 2
      /\ op.kind \notin Messages => z = 0
  BY Zenon DEF Sizes
<1>2. CASE op.kind \in Bare
  BY <1>1, <1>2
<1>3. CASE op.kind \notin Bare
  BY <1>1, <1>3
<1> QED BY <1>1, <1>2, <1>3

LEMMA SizesOf ==
  ASSUME NEW op, NEW n, NEW c, NEW h, NEW t, NEW e, NEW l, NEW z, Sizes(op, n, c, h, t, e, l, z)
  PROVE  /\ c = Len(Keyword[op.kind]) /\ h = HeadLen(op) /\ t = Len(Text(op)) /\ e = Len(op.eol)
         /\ l = LineLen(op) /\ z = BodyLen(op)
         /\ op.kind \in Messages => n = Len(op.payload)
BY Zenon DEF Sizes

LEMMA LetterKept ==
  ASSUME ParserInv, ~infoSplit, Letter, Typed'
  PROVE  Somewhere'
<1>1. parsing /\ err = "nil" /\ i < hi - lo /\ state \in LetterStates /\ Same /\ Rest /\ Typed
  BY DEF Letter, In, LetterStates, Same, ParserInv
<1>2. PICK k \in 1..Len(input.ops) : Upto(k) /\ Admitted(k) /\ InHead(k)
  BY <1>1, Sorts, InOperation, WhichWithin
<1>3. PICK op, n, c, h, t, e, l, z : op = input.ops[k] /\ Sizes(op, n, c, h, t, e, l, z)
  BY <1>1, SizesAre
<1>4. /\ n \in Nat /\ c \in 3..7 /\ h \in Nat /\ c <= h
      /\ op.kind \notin Bare => h = c + 1
  BY <1>3, Numbers
<1>5. c = Len(Keyword[op.kind]) /\ h = HeadLen(op)
  BY Zenon, <1>3, SizesOf
<1>6. PICK j \in 1..h : j = Into(k)
  BY Zenon, <1>2, <1>3, <1>5 DEF InHead
<1>7. state = Heads[op.kind][j] /\ argBuf = {} /\ msgBuf = {} /\ drop = 0
  BY Zenon, <1>2, <1>3, <1>6 DEF InHead
<1>8. HeadStep(op.kind, j) /\ (j < c \/ (j = c /\ op.kind \notin Bare))
  <2>1. j \in 1..HeadLen(input.ops[k])
    BY Zenon, <1>3, <1>5
  <2> QED BY Zenon, <1>1, <1>3, <1>5, <1>7, <2>1, HeadStates
<1>9. j \in Nat /\ j + 1 \in 1..h
  BY <1>4, <1>6, <1>8
<1>10. PICK byte : byte = IF b \in Blank THEN SP ELSE b
  OBVIOUS
<1>11. ByteOf(op, j, b)
  BY Zenon, <1>1, <1>3, <1>6, <1>9, ByteIs
<1>12. <<state, byte, Heads[op.kind][j + 1]>> \in Letters
  <2>1. CASE j < c
    <3>1. b = Keyword[op.kind][j + 1]
      BY Zenon, <1>5, <1>11, <2>1 DEF ByteOf
    <3>2. /\ <<Heads[op.kind][j], Keyword[op.kind][j + 1], Heads[op.kind][j + 1]>> \in Letters
          /\ Keyword[op.kind][j + 1] \notin Blank
      BY Zenon, <1>5, <1>8, <2>1 DEF HeadStep
    <3> QED BY Zenon, <1>7, <1>10, <3>1, <3>2
  <2>2. CASE j = c /\ op.kind \notin Bare
    <3>1. b = SP
      BY Zenon, <1>5, <1>11, <2>2 DEF ByteOf
    <3>2. \/ <<Heads[op.kind][j], SP, Heads[op.kind][j + 1]>> \in Letters
          \/ Heads[op.kind][j] \in SpaceStates
      BY Zenon, <1>5, <1>8, <2>2 DEF HeadStep
    <3>3. state \notin SpaceStates
      BY <1>1, Sorts
    <3>4. byte = SP
      BY Zenon, <1>10, <3>1
    <3> QED BY Zenon, <1>7, <3>2, <3>3, <3>4
  <2> QED BY <1>8, <2>1, <2>2
<1>13. PICK m \in Letters : m = <<state, byte, Heads[op.kind][j + 1]>>
                            /\ m[1] = state /\ m[2] = byte /\ m[3] = Heads[op.kind][j + 1]
  BY <1>12
<1>14. PICK next : /\ next = {x \in Letters : x[1] = state /\ x[2] = byte}
                   /\ IF next = {} THEN Fail("parse")
                      ELSE /\ state' = The(next)[3] /\ i' = i + 1
                           /\ UNCHANGED <<start, drop, argBuf, msgBuf, pa, err, calls>>
  BY Zenon, <1>10 DEF Letter
<1>15. m \in next /\ The(next) \in next
  <2>1. m \in next
    BY <1>13, <1>14
  <2> QED BY <2>1 DEF The
<1>16. The(next)[3] = Heads[op.kind][j + 1]
  BY <1>13, <1>14, <1>15, LetterOnce
<1>17. /\ state' = Heads[op.kind][j + 1] /\ i' = i + 1
       /\ UNCHANGED <<start, drop, argBuf, msgBuf, pa, err, calls>>
  BY <1>14, <1>15, <1>16
<1>18. Into(k)' = j + 1 /\ Position' <= hi
  <2>1. PICK o \in Nat : /\ Position' = lo + i' /\ Into(k) = lo + i - o /\ Into(k)' = lo + i' - o
                         /\ lo \in Nat /\ hi \in Nat /\ i \in Nat
    BY Zenon, <1>1, Moved
  <2>2. j = lo + i - o
    BY Zenon, <1>6, <2>1
  <2>3. lo + i' - o = j + 1 /\ lo + i' <= hi
    BY <1>1, <1>17, <2>1, <2>2
  <2> QED BY Zenon, <2>1, <2>3
<1>19. InHead(k)'
  <2>1. j + 1 \in 1..HeadLen(input.ops[k]) /\ argBuf' = {} /\ msgBuf' = {} /\ drop' = 0
    BY Zenon, <1>3, <1>5, <1>7, <1>9, <1>17
  <2> QED BY Zenon, <1>1, <1>3, <1>17, <1>18, <2>1, HeadKept
<1>20. At(k)'
  <2>1. UNCHANGED <<input, calls, authTimer, authSet, parsing, pa, err>>
    BY <1>1, <1>17 DEF Same, Rest
  <2>2. parsing' => (authSet' <=> authTimer)
    BY <1>2, <2>1 DEF Upto
  <2> QED BY <1>1, <1>2, <1>19, <2>1, <2>2, StillWithin DEF Within
<1> QED BY <1>20, Found

LEMMA SpaceKept ==
  ASSUME ParserInv, ~infoSplit, Space, Typed'
  PROVE  Somewhere'
<1>1. parsing /\ err = "nil" /\ i < hi - lo /\ state \in SpaceStates /\ Same /\ Rest /\ Typed
  BY DEF Space, In, SpaceStates, Same, ParserInv
<1>2. PICK k \in 1..Len(input.ops) : Upto(k) /\ Admitted(k) /\ InHead(k)
  BY <1>1, Sorts, InOperation, WhichWithin
<1>3. PICK op, n, c, h, t, e, l, z : op = input.ops[k] /\ Sizes(op, n, c, h, t, e, l, z)
  BY <1>1, SizesAre
<1>4. /\ n \in Nat /\ c \in 3..7 /\ h \in Nat /\ c <= h /\ t \in Nat /\ e \in 1..2 /\ l = h + t + e
      /\ op.kind \notin Bare => h = c + 1 /\ t >= 1
  BY <1>3, Numbers
<1>5. c = Len(Keyword[op.kind]) /\ h = HeadLen(op) /\ t = Len(Text(op)) /\ e = Len(op.eol) /\ l = LineLen(op)
  BY Zenon, <1>3, SizesOf
<1>6. PICK j \in 1..h : j = Into(k)
  BY Zenon, <1>2, <1>3, <1>5 DEF InHead
<1>7. state = Heads[op.kind][j] /\ argBuf = {} /\ msgBuf = {} /\ drop = 0
  BY Zenon, <1>2, <1>3, <1>6 DEF InHead
<1>8. HeadStep(op.kind, j) /\ op.kind \notin Bare /\ (j = c \/ j = h)
  <2>1. j \in 1..HeadLen(input.ops[k])
    BY Zenon, <1>3, <1>5
  <2> QED BY Zenon, <1>1, <1>3, <1>5, <1>7, <2>1, HeadStates
<1>9. j \in Nat /\ h = c + 1 /\ t >= 1
  BY <1>4, <1>6, <1>8
<1>10. ByteOf(op, j, b)
  BY Zenon, <1>1, <1>3, <1>6, <1>9, ByteIs
<1>11. i' = i + 1 /\ UNCHANGED <<drop, argBuf, msgBuf, pa, err, calls>>
  BY DEF Space
<1>12. PICK o \in Nat : /\ o = Offset(input.ops, k - 1) /\ Position' = lo + i'
                        /\ Into(k) = lo + i - o /\ Into(k)' = lo + i' - o
                        /\ lo \in Nat /\ hi \in Nat /\ i \in Nat
  BY Zenon, <1>1, Moved
<1>13. Into(k)' = j + 1 /\ Position' <= hi /\ lo + i = o + j
  <2>1. j = lo + i - o
    BY Zenon, <1>6, <1>12
  <2>2. lo + i' - o = j + 1 /\ lo + i' <= hi /\ lo + i = o + j
    BY <1>1, <1>9, <1>11, <1>12, <2>1, SMTT(30)
  <2> QED BY Zenon, <1>12, <2>2
<1>14. Within(k)'
  <2>1. CASE j = c
    <3>1. b = SP /\ SP \in Blank
      <4>1. b = SP
        BY Zenon, <1>5, <1>8, <1>10, <2>1 DEF ByteOf
      <4> QED BY <4>1 DEF Blank
    <3>2. state' = state
      BY <3>1 DEF Space
    <3>3. Heads[op.kind][j + 1] = Heads[op.kind][j]
      <4>1. \/ <<Heads[op.kind][j], SP, Heads[op.kind][j + 1]>> \in Letters
            \/ Heads[op.kind][j + 1] = Heads[op.kind][j]
        BY Zenon, <1>5, <1>8, <2>1 DEF HeadStep
      <4>2. <<Heads[op.kind][j], SP, Heads[op.kind][j + 1]>> \in Letters => state \in LetterStates
        BY <1>7 DEF LetterStates
      <4>3. state \notin LetterStates
        BY <1>1, Sorts
      <4> QED BY Zenon, <4>1, <4>2, <4>3
    <3>4. j + 1 \in 1..h
      BY <1>9, <2>1, <1>4
    <3>5. j + 1 \in 1..HeadLen(input.ops[k]) /\ argBuf' = {} /\ msgBuf' = {} /\ drop' = 0
      BY Zenon, <1>3, <1>5, <1>7, <1>11, <3>4
    <3>6. InHead(k)'
      BY Zenon, <1>1, <1>3, <1>7, <1>13, <3>2, <3>3, <3>5, HeadKept
    <3> QED BY Zenon, <3>6 DEF Within
  <2>2. CASE j = h
    <3>1. b \notin Blank
      <4>1. j >= h /\ j < h + t /\ j - h + 1 = 1
        BY <1>4, <1>9, <2>2
      <4>2. b = Text(op)[1]
        BY Zenon, <1>5, <1>10, <4>1 DEF ByteOf
      <4>3. Text(op)[1] \notin Blank
        BY <1>1, <1>3, <1>8, StreamKnown, ArgumentIs DEF OpKnown
      <4> QED BY <4>2, <4>3
    <3>2. PICK s \in Spaces : s = <<state, ArgState[op.kind]>> /\ s[1] = state /\ s[2] = ArgState[op.kind]
      <4>1. j > c
        BY <1>9, <2>2, <1>4
      <4>2. <<Heads[op.kind][j], ArgState[op.kind]>> \in Spaces
        BY Zenon, <1>5, <1>8, <4>1 DEF HeadStep
      <4> QED BY <1>7, <4>2
    <3>3. PICK next : next = {x \in Spaces : x[1] = state} /\ start' = i /\ state' = The(next)[2]
      BY Zenon, <3>1 DEF Space
    <3>4. s \in next /\ The(next) \in next
      <4>1. s \in next
        BY <3>2, <3>3
      <4> QED BY <4>1 DEF The
    <3>5. state' = ArgState[op.kind]
      BY <3>2, <3>3, <3>4, SpaceOnce
    <3>6. PICK x, y, got : x = Into(k)' /\ y = HeadLen(input.ops[k]) /\ got = x - y
      OBVIOUS
    <3>7. got = 1
      <4>1. x = j + 1 /\ y = h
        BY Zenon, <1>3, <1>5, <1>13, <3>6
      <4>2. got = x - y
        BY Zenon, <3>6
      <4> QED BY <1>4, <1>9, <2>2, <4>1, <4>2
    <3>8. got \in 1..(Len(Text(op)) + Len(op.eol) - 1) /\ ~(got > Len(Text(op)))
      <4>1. got \in 1..(t + e - 1) /\ ~(got > t)
        BY <1>4, <1>9, <3>7
      <4> QED BY Zenon, <1>5, <4>1
    <3>9. lo + start' = Offset(input.ops, k - 1) + HeadLen(op)
      <4>1. lo + start' = o + h
        BY <1>13, <2>2, <3>3
      <4> QED BY Zenon, <1>5, <1>12, <4>1
    <3>10. InArg(k)'
      <4>1. UNCHANGED <<input, lo, hi, parsing>>
        BY <1>1 DEF Rest
      <4>2. argBuf' = {} /\ msgBuf' = {} /\ drop' = 0
        BY <1>7, <1>11
      <4> QED BY Zenon, <1>1, <1>3, <1>8, <1>13, <3>5, <3>6, <3>8, <3>9, <4>1, <4>2 DEF InArg
    <3> QED BY Zenon, <3>10 DEF Within
  <2> QED BY <1>8, <2>1, <2>2
<1>15. At(k)'
  <2>1. UNCHANGED <<input, calls, authTimer, authSet, parsing, pa, err>>
    BY <1>1, <1>11 DEF Same, Rest
  <2>2. parsing' => (authSet' <=> authTimer)
    BY <1>2, <2>1 DEF Upto
  <2> QED BY <1>1, <1>2, <1>14, <2>1, <2>2, StillWithin
<1> QED BY <1>15, Found
-----------------------------------------------------------------------------
(* Within an argument.                                                          *)
LEMMA InArgument ==
  ASSUME ParserInv, ~infoSplit, parsing, err = "nil", state \in ArgStates
  PROVE  \E k \in 1..Len(input.ops) : Upto(k) /\ Admitted(k) /\ InArg(k)
<1>1. Typed /\ state # "OP_START"
  BY Sorts DEF ParserInv
<1>2. PICK k \in 1..Len(input.ops) : Upto(k) /\ Admitted(k) /\ Within(k)
  BY <1>1, InOperation
<1>3. InArg(k)
  BY <1>1, <1>2, WhichWithin
<1> QED BY <1>2, <1>3

(* The numbers there; g bytes of it and of its line end are behind.             *)
ArgAt(op, k, o, h, t, e, g) ==
  /\ o \in Nat /\ h \in Nat /\ t \in Nat /\ e \in 1..2 /\ g \in Nat /\ t >= 1
  /\ lo \in Nat /\ hi \in Nat /\ i \in Nat /\ start \in Nat /\ i < hi - lo
  /\ lo + i = o + h + g /\ g <= t + e - 1 /\ g >= 1
  /\ drop = IF g > t THEN 1 ELSE 0

ArgWhere(op, k, o, h, t, e, g) ==
  /\ o = Offset(input.ops, k - 1) /\ h = HeadLen(op) /\ t = Len(Text(op)) /\ e = Len(op.eol)
  /\ g < t => b = Text(op)[g + 1] /\ b \notin {CR, LF}
  /\ g = t => b = op.eol[1]
  /\ g = t + 1 => b = op.eol[2]
  /\ Text(op) \in Seq(Octet) /\ Clean(op) /\ op.kind \notin Bare
  /\ \/ argBuf = {} /\ lo + start = o + h
     \/ op.kind # "INFO" /\ argBuf = {SubSeq(Text(op), 1, g - drop)}

LEMMA ArgIs ==
  ASSUME Typed, parsing, i < hi - lo, NEW k \in 1..Len(input.ops), InArg(k), NEW op, op = input.ops[k]
  PROVE  \E o, h, t, e, g : ArgAt(op, k, o, h, t, e, g) /\ ArgWhere(op, k, o, h, t, e, g)
<1>1. PICK n, c, h, t, e, l, z : Sizes(op, n, c, h, t, e, l, z)
  BY SizesAre
<1>2. op.kind \notin Bare
  BY DEF InArg
<1>3. h \in Nat /\ t \in Nat /\ e \in 1..2 /\ l = h + t + e /\ t >= 1
  BY <1>1, <1>2, Numbers
<1>4. h = HeadLen(op) /\ t = Len(Text(op)) /\ e = Len(op.eol) /\ l = LineLen(op)
  BY Zenon, <1>1, SizesOf
<1>5. OpKnown(k)
  BY StreamKnown
<1>6. PICK o \in Nat : o = Offset(input.ops, k - 1)
  BY <1>5 DEF OpKnown
<1>7. PICK g, m, y : g = m - h /\ m = Into(k) /\ y = t + e - 1 /\ g \in 1..y
  <2>1. PICK m, y : m = Into(k) /\ y = t + e - 1
    OBVIOUS
  <2>2. Into(k) - HeadLen(op) \in 1..(Len(Text(op)) + Len(op.eol) - 1)
    BY DEF InArg
  <2>3. m - h \in 1..y
    BY Zenon, <1>4, <2>1, <2>2
  <2> QED BY <2>1, <2>3
<1>8. /\ state = ArgState[op.kind] /\ msgBuf = {}
      /\ drop = IF g > t THEN 1 ELSE 0
      /\ \/ argBuf = {} /\ lo + start = o + h
         \/ op.kind # "INFO" /\ argBuf = {SubSeq(Text(op), 1, g - drop)}
  BY Zenon, <1>4, <1>6, <1>7 DEF InArg
<1>9. lo \in Nat /\ hi \in Nat /\ i \in Nat /\ start \in Nat
  BY DEF Typed, FixedTyped, MovingTyped
<1>10. m \in Nat /\ lo + i = o + m
  <2>1. m = (lo + i) - o
    BY Zenon, <1>6, <1>7 DEF Into, Position
  <2>2. m \in Int
    BY <1>6, <1>9, <2>1
  <2>3. m - h \in 1..y
    BY Zenon, <1>7
  <2>4. y \in Int
    BY <1>3, <1>7
  <2> QED BY <1>3, <1>6, <1>9, <2>1, <2>2, <2>3, <2>4
<1>11. g \in Nat /\ g >= 1 /\ g <= t + e - 1 /\ lo + i = o + h + g /\ m = h + g
  <2>1. g = m - h /\ y = t + e - 1 /\ g \in 1..y
    BY Zenon, <1>7
  <2> QED BY <1>3, <1>6, <1>10, <2>1
<1>12. ArgAt(op, k, o, h, t, e, g)
  BY Zenon, <1>3, <1>6, <1>8, <1>9, <1>11 DEF ArgAt
<1>13. ByteOf(op, m, b)
  BY Zenon, <1>7, <1>10, ByteIs
<1>14. Text(op) \in Seq(NoEol) /\ Text(op) \in Seq(Octet) /\ Clean(op)
  BY <1>2, <1>5, ArgumentIs DEF OpKnown
<1>15. ASSUME g < t PROVE b = Text(op)[g + 1] /\ b \notin {CR, LF}
  <2>1. m >= h /\ m < h + t /\ m - h + 1 = g + 1 /\ g + 1 \in 1..t
    BY <1>3, <1>11, <1>15
  <2>2. b = Text(op)[g + 1]
    BY Zenon, <1>4, <1>13, <2>1 DEF ByteOf
  <2>3. Text(op)[g + 1] \in NoEol
    BY <1>4, <1>14, <2>1, ElementOfSeq
  <2> QED BY <2>2, <2>3 DEF NoEol
<1>16. ASSUME g >= t PROVE b = op.eol[g - t + 1]
  <2>1. m >= h + t /\ m < l /\ m - h - t + 1 = g - t + 1
    BY <1>3, <1>11, <1>16
  <2> QED BY Zenon, <1>4, <1>13, <2>1 DEF ByteOf
<1>17. g = t => b = op.eol[1]
  <2>1. g = t => g >= t /\ g - t + 1 = 1
    BY <1>3, <1>11
  <2> QED BY Zenon, <1>16, <2>1
<1>18. g = t + 1 => b = op.eol[2]
  <2>1. g = t + 1 => g >= t /\ g - t + 1 = 2
    BY <1>3, <1>11
  <2> QED BY Zenon, <1>16, <2>1
<1>19. ArgWhere(op, k, o, h, t, e, g)
  BY Zenon, <1>2, <1>4, <1>6, <1>8, <1>14, <1>15, <1>17, <1>18 DEF ArgWhere
<1> QED BY <1>12, <1>19
LEMMA OneMore ==
  ASSUME NEW t \in Seq(Octet), NEW g \in Nat, g < Len(t)
  PROVE  Append(SubSeq(t, 1, g), t[g + 1]) = SubSeq(t, 1, g + 1)
<1>1. Len(t) \in Nat /\ g \in 0..Len(t) /\ g + 1 \in 0..Len(t) /\ g + 1 \in 1..Len(t)
  BY LenProperties
<1>2. PICK u \in Seq(Octet) : u = SubSeq(t, 1, g) /\ Len(u) = g /\ \A j \in 1..g : u[j] = t[j]
  <2>1. /\ SubSeq(t, 1, g) \in Seq(Octet) /\ Len(SubSeq(t, 1, g)) = g
        /\ \A j \in 1..g : SubSeq(t, 1, g)[j] = t[j]
    BY <1>1, UpTo
  <2> QED BY Zenon, <2>1
<1>3. PICK v \in Seq(Octet) : v = SubSeq(t, 1, g + 1) /\ Len(v) = g + 1 /\ \A j \in 1..(g + 1) : v[j] = t[j]
  <2>1. /\ SubSeq(t, 1, g + 1) \in Seq(Octet) /\ Len(SubSeq(t, 1, g + 1)) = g + 1
        /\ \A j \in 1..(g + 1) : SubSeq(t, 1, g + 1)[j] = t[j]
    BY <1>1, UpTo
  <2> QED BY Zenon, <2>1
<1>4. PICK x \in Octet : x = t[g + 1]
  BY <1>1, ElementOfSeq
<1>5. /\ Append(u, x) \in Seq(Octet) /\ Len(Append(u, x)) = Len(u) + 1
      /\ \A j \in 1..Len(u) : Append(u, x)[j] = u[j]
      /\ Append(u, x)[Len(u) + 1] = x
  BY ONLY u \in Seq(Octet), x \in Octet, AppendProperties
<1>6. Len(Append(u, x)) = g + 1
  BY <1>2, <1>5
<1>7. ASSUME NEW j \in 1..(g + 1) PROVE Append(u, x)[j] = v[j]
  <2>1. CASE j = g + 1
    BY Zenon, <1>2, <1>3, <1>4, <1>5, <1>7, <2>1
  <2>2. CASE j # g + 1
    <3>1. j \in 1..g
      BY <1>7, <2>2
    <3> QED BY Zenon, <1>2, <1>3, <1>5, <1>7, <3>1
  <2> QED BY <2>1, <2>2
<1>8. Append(u, x) = v
  BY <1>3, <1>5, <1>6, <1>7, SeqEqual
<1> QED BY Zenon, <1>2, <1>3, <1>4, <1>8

LEMMA ArgNext ==
  ASSUME Typed, Typed', Rest, parsing, i < hi - lo, NEW k \in 1..Len(input.ops), InArg(k), b # LF,
         i' = i + 1, drop' = (IF b = CR THEN 1 ELSE drop),
         argBuf' = (IF b = CR THEN argBuf ELSE {Append(a, b) : a \in argBuf}),
         UNCHANGED <<state, start, msgBuf>>
  PROVE  InArg(k)'
<1>1. PICK op : op = input.ops[k]
  OBVIOUS
<1>2. PICK o, h, t, e, g : ArgAt(op, k, o, h, t, e, g) /\ ArgWhere(op, k, o, h, t, e, g)
  BY <1>1, ArgIs
<1>3. /\ o \in Nat /\ h \in Nat /\ t \in Nat /\ e \in 1..2 /\ g \in Nat /\ t >= 1
      /\ lo \in Nat /\ hi \in Nat /\ i \in Nat /\ start \in Nat
      /\ lo + i = o + h + g /\ g <= t + e - 1 /\ g >= 1
      /\ drop = IF g > t THEN 1 ELSE 0
  BY Zenon, <1>2 DEF ArgAt
<1>4. /\ o = Offset(input.ops, k - 1) /\ h = HeadLen(op) /\ t = Len(Text(op)) /\ e = Len(op.eol)
      /\ g < t => b = Text(op)[g + 1] /\ b \notin {CR, LF}
      /\ g = t => b = op.eol[1]
      /\ g = t + 1 => b = op.eol[2]
      /\ Text(op) \in Seq(Octet) /\ Clean(op) /\ op.kind \notin Bare
      /\ \/ argBuf = {} /\ lo + start = o + h
         \/ op.kind # "INFO" /\ argBuf = {SubSeq(Text(op), 1, g - drop)}
  BY Zenon, <1>2 DEF ArgWhere
<1>5. \/ Len(op.eol) = 1 /\ op.eol[1] = LF
      \/ Len(op.eol) = 2 /\ op.eol[1] = CR /\ op.eol[2] = LF
  BY <1>4, EndsAre
<1>6. (g < t /\ b # CR) \/ (g = t /\ e = 2 /\ b = CR)
  <2>1. CASE g < t
    BY <1>4, <2>1
  <2>2. CASE g = t
    BY Zenon, <1>4, <1>5, <2>2
  <2>3. CASE g = t + 1
    <3>1. e = 2
      BY <1>3, <2>3
    <3>2. e # 1
      BY <3>1
    <3> QED BY Zenon, <1>4, <1>5, <2>3, <3>2
  <2> QED BY <1>3, <2>1, <2>2, <2>3
<1>7. drop' = (IF g + 1 > t THEN 1 ELSE 0) /\ g + 1 \in 1..(t + e - 1)
  BY <1>3, <1>6
<1>8. \/ argBuf' = {} /\ lo + start' = o + h
      \/ op.kind # "INFO" /\ argBuf' = {SubSeq(Text(op), 1, g + 1 - drop')}
  <2>1. CASE argBuf = {} /\ lo + start = o + h
    <3>1. argBuf' = {}
      BY <2>1
    <3> QED BY <2>1, <3>1
  <2>2. CASE op.kind # "INFO" /\ argBuf = {SubSeq(Text(op), 1, g - drop)}
    <3>1. CASE g < t /\ b # CR
      <4>1. drop = 0 /\ drop' = 0 /\ g - drop = g /\ g + 1 - drop' = g + 1 /\ g < Len(Text(op))
        BY <1>3, <1>4, <3>1
      <4>2. argBuf' = {Append(SubSeq(Text(op), 1, g), b)}
        <5>1. argBuf = {SubSeq(Text(op), 1, g)}
          BY Zenon, <2>2, <4>1
        <5>2. argBuf' = {Append(a, b) : a \in argBuf}
          BY <3>1
        <5> QED BY <5>1, <5>2
      <4>3. b = Text(op)[g + 1]
        BY Zenon, <1>4, <3>1
      <4>4. Append(SubSeq(Text(op), 1, g), Text(op)[g + 1]) = SubSeq(Text(op), 1, g + 1)
        BY <1>3, <1>4, <4>1, OneMore
      <4> QED BY Zenon, <2>2, <4>1, <4>2, <4>3, <4>4
    <3>2. CASE g = t /\ b = CR
      <4>1. g - drop = g + 1 - drop'
        BY <1>3, <3>2
      <4>2. argBuf' = argBuf
        BY <3>2
      <4> QED BY Zenon, <2>2, <4>1, <4>2
    <3> QED BY <1>6, <3>1, <3>2
  <2> QED BY <1>4, <2>1, <2>2
<1>9. UNCHANGED <<input, lo, hi, parsing>>
  BY DEF Rest
<1>10. Position' <= hi /\ Into(k)' - HeadLen(op) = g + 1
  <2>1. PICK x \in Nat : /\ x = Offset(input.ops, k - 1) /\ Position' = lo + i' /\ Into(k)' = lo + i' - x
    BY Zenon, Moved
  <2>2. x = o
    BY Zenon, <1>4, <2>1
  <2>3. lo + i' <= hi /\ (lo + i' - x) - h = g + 1
    BY <1>3, <2>2
  <2> QED BY Zenon, <1>4, <2>1, <2>3
<1>11. /\ op.kind \notin Bare /\ state = ArgState[op.kind] /\ msgBuf = {}
  BY Zenon, <1>1 DEF InArg
<1>12. input'.ops[k] = op
  BY Zenon, <1>1, <1>9
<1>13. PICK y : y = g + 1
  OBVIOUS
<1>14. /\ Into(k)' - HeadLen(op) = y /\ y \in 1..(Len(Text(op)) + Len(op.eol) - 1)
       /\ drop' = (IF y > Len(Text(op)) THEN 1 ELSE 0)
       /\ \/ argBuf' = {} /\ lo + start' = Offset(input.ops, k - 1) + HeadLen(op)
          \/ op.kind # "INFO" /\ argBuf' = {SubSeq(Text(op), 1, y - drop')}
  <2>1. PICK x, w : x = t + e - 1 /\ w = Into(k)' - HeadLen(op)
    OBVIOUS
  <2>2. y \in 1..x /\ w = y
    BY Zenon, <1>7, <1>10, <1>13, <2>1
  <2>3. y \in 1..(Len(Text(op)) + Len(op.eol) - 1) /\ Into(k)' - HeadLen(op) = y
    BY Zenon, <1>4, <2>1, <2>2
  <2>4. drop' = (IF y > Len(Text(op)) THEN 1 ELSE 0)
    BY Zenon, <1>4, <1>7, <1>13
  <2>5. \/ argBuf' = {} /\ lo + start' = Offset(input.ops, k - 1) + HeadLen(op)
        \/ op.kind # "INFO" /\ argBuf' = {SubSeq(Text(op), 1, y - drop')}
    <3>1. CASE argBuf' = {} /\ lo + start' = o + h
      BY Zenon, <1>4, <3>1
    <3>2. CASE op.kind # "INFO" /\ argBuf' = {SubSeq(Text(op), 1, g + 1 - drop')}
      <4>1. argBuf' = {SubSeq(Text(op), 1, y - drop')}
        <5>1. argBuf' = {SubSeq(Text(op), 1, g + 1 - drop')}
          BY <3>2
        <5>2. PICK d \in {0, 1} : d = drop'
          BY <1>7
        <5>3. g + 1 - d = y - d
          BY <1>3, <1>13
        <5> QED BY Zenon, <5>1, <5>2, <5>3
      <4> QED BY Zenon, <3>2, <4>1
    <3> QED BY <1>8, <3>1, <3>2
  <2> QED BY Zenon, <2>3, <2>4, <2>5
<1> QED BY Zenon, <1>9, <1>10, <1>11, <1>12, <1>14 DEF InArg

LEMMA ArgByteKept ==
  ASSUME Typed, Typed', parsing, err = "nil", i < hi - lo, NEW k \in 1..Len(input.ops),
         Upto(k), Admitted(k), InArg(k), ArgByte
  PROVE  Somewhere'
<1>1. Rest /\ b # LF /\ i' = i + 1 /\ UNCHANGED <<state, start, msgBuf, pa, err, calls, authTimer, authSet>>
  BY DEF ArgByte, Same
<1>2. /\ drop' = (IF b = CR THEN 1 ELSE drop)
      /\ argBuf' = (IF b = CR THEN argBuf ELSE {Append(a, b) : a \in argBuf})
  BY DEF ArgByte
<1>3. InArg(k)'
  BY <1>1, <1>2, ArgNext
<1>4. UNCHANGED <<input, calls, authTimer, authSet, parsing, pa, err>>
  BY <1>1 DEF Rest
<1>5. parsing' => (authSet' <=> authTimer)
  BY <1>4 DEF Upto
<1>6. At(k)'
  BY <1>3, <1>4, <1>5, StillWithin DEF Within
<1> QED BY <1>6, Found

(* At its line feed.                                                            *)
LEMMA ArgDone ==
  ASSUME Typed, parsing, i < hi - lo, NEW k \in 1..Len(input.ops), InArg(k), b = LF,
         NEW op, op = input.ops[k]
  PROVE  /\ Arg = Text(op) /\ op.kind \notin Bare /\ msgBuf = {} /\ state = ArgState[op.kind]
         /\ op.kind = "INFO" => argBuf = {} /\ start <= i - drop
         /\ lo + i + 1 = Offset(input.ops, k - 1) + LineLen(op)
         /\ lo + i + 1 <= hi
<1>2. PICK o, h, t, e, g : ArgAt(op, k, o, h, t, e, g) /\ ArgWhere(op, k, o, h, t, e, g)
  BY ArgIs
<1>3. /\ o \in Nat /\ h \in Nat /\ t \in Nat /\ e \in 1..2 /\ g \in Nat /\ t >= 1
      /\ lo \in Nat /\ hi \in Nat /\ i \in Nat /\ start \in Nat
      /\ lo + i = o + h + g /\ g <= t + e - 1 /\ g >= 1
      /\ drop = IF g > t THEN 1 ELSE 0
  BY Zenon, <1>2 DEF ArgAt
<1>4. /\ o = Offset(input.ops, k - 1) /\ h = HeadLen(op) /\ t = Len(Text(op)) /\ e = Len(op.eol)
      /\ g < t => b = Text(op)[g + 1] /\ b \notin {CR, LF}
      /\ g = t => b = op.eol[1]
      /\ Text(op) \in Seq(Octet) /\ Clean(op) /\ op.kind \notin Bare
      /\ \/ argBuf = {} /\ lo + start = o + h
         \/ op.kind # "INFO" /\ argBuf = {SubSeq(Text(op), 1, g - drop)}
  BY Zenon, <1>2 DEF ArgWhere
<1>5. \/ Len(op.eol) = 1 /\ op.eol[1] = LF
      \/ Len(op.eol) = 2 /\ op.eol[1] = CR /\ op.eol[2] = LF
  BY <1>4, EndsAre
<1>6. g = t + e - 1
  <2>1. ~(g < t)
    BY <1>4
  <2>2. CASE g = t
    <3>1. op.eol[1] # CR
      BY Zenon, <1>4, <2>2 DEF CR, LF
    <3>2. e = 1
      BY Zenon, <1>4, <1>5, <3>1
    <3> QED BY <1>3, <2>2, <3>2
  <2>3. CASE g # t
    BY <1>3, <2>1, <2>3
  <2> QED BY <2>2, <2>3
<1>7. g - drop = t
  BY <1>3, <1>6
<1>8. SubSeq(Text(op), 1, t) = Text(op)
  BY <1>4, SubSeqFull
<1>9. ASSUME argBuf = {}, lo + start = o + h PROVE Arg = Text(op) /\ start <= i - drop
  <2>1. start <= i - drop /\ i - drop \in Nat /\ i - drop <= hi - lo /\ (i - drop) - start = t
    <3>1. drop \in Nat
      BY <1>3
    <3>2. /\ o \in Nat /\ h \in Nat /\ t \in Nat /\ g \in Nat /\ lo \in Nat /\ hi \in Nat
          /\ i \in Nat /\ start \in Nat /\ lo + i = o + h + g
      BY Zenon, <1>3
    <3>3. i - start = g
      BY ONLY <1>9, <3>2
    <3>4. (i - drop) - start = t
      BY ONLY <1>7, <3>1, <3>2, <3>3
    <3> QED BY ONLY i < hi - lo, <3>1, <3>2, <3>4
  <2>2. \A j \in 1..t : input.stream[lo + start + j] = Text(op)[j]
    <3>1. Written(input.stream, o, op)
      BY <1>4, StreamKnown DEF OpKnown
    <3>2. \A j \in 1..t : input.stream[o + h + j] = Text(op)[j]
      BY Zenon, <1>4, <3>1 DEF Written
    <3> QED BY Zenon, <1>9, <3>2
  <2>3. PICK p, q : p = i - drop /\ q = Text(op) /\ p \in Nat /\ start <= p /\ p <= hi - lo /\ p - start = t
    BY <2>1
  <2>4. SubSeq(buf, start + 1, p) = SubSeq(q, 1, p - start)
    <3>1. p - start <= Len(q) /\ \A j \in 1..(p - start) : input.stream[lo + start + j] = q[j]
      <4>1. t <= t
        BY <1>3
      <4> QED BY Zenon, <1>4, <2>2, <2>3, <4>1
    <3>2. start \in Nat /\ p \in Nat /\ start <= p /\ p <= hi - lo /\ q \in Seq(Octet)
      BY Zenon, <1>3, <1>4, <2>3
    <3> QED BY <3>1, <3>2, SliceIs
  <2>5. Arg = Text(op)
    BY Zenon, <1>8, <1>9, <2>3, <2>4 DEF Arg
  <2> QED BY Zenon, <2>1, <2>5
<1>10. ASSUME argBuf = {SubSeq(Text(op), 1, g - drop)} PROVE Arg = Text(op)
  <2>1. argBuf = {Text(op)}
    BY Zenon, <1>7, <1>8, <1>10
  <2>2. argBuf # {} /\ The(argBuf) = Text(op)
    BY <2>1, TheOnly
  <2>3. Arg = Text(op)
    BY Zenon, <2>2 DEF Arg
  <2> QED BY <2>3
<1>11. lo + i + 1 = Offset(input.ops, k - 1) + LineLen(op) /\ lo + i + 1 <= hi
  <2>1. PICK l \in Nat : l = LineLen(op) /\ l = h + t + e
    BY <1>4, LengthsAre DEF Lengths
  <2>2. lo + i + 1 = o + l /\ lo + i + 1 <= hi
    <3>1. i < hi - lo /\ l = h + t + e
      BY Zenon, <1>2, <2>1 DEF ArgAt
    <3> QED BY <1>3, <1>6, <3>1
  <2> QED BY Zenon, <1>4, <2>1, <2>2
<1>12. msgBuf = {} /\ state = ArgState[op.kind]
  BY Zenon DEF InArg
<1> QED BY Zenon, <1>4, <1>9, <1>10, <1>11, <1>12
LEMMA KindIs ==
  ASSUME NEW kind \in DOMAIN Keyword, kind \notin Bare
  PROVE  /\ ArgState[kind] = "SUB_ARG" <=> kind = "SUB"
         /\ ArgState[kind] = "UNSUB_ARG" <=> kind = "UNSUB"
         /\ ArgState[kind] = "CONNECT_ARG" <=> kind = "CONNECT"
         /\ ArgState[kind] = "INFO_ARG" <=> kind = "INFO"
         /\ ArgState[kind] = "MINUS_ERR_ARG" <=> kind = "ERR"
         /\ ArgState[kind] = "PUB_ARG" <=> kind = "PUB"
         /\ ArgState[kind] = "MSG_ARG" <=> kind = "MSG"
BY DEF Keyword, ArgState, Bare

LEMMA AskOf ==
  ASSUME NEW op
  PROVE  /\ op.kind = "SUB" => Asks(op) = <<[kind |-> "processSub", args |-> op.args]>>
         /\ op.kind = "UNSUB" => Asks(op) = <<[kind |-> "processUnsub", args |-> op.args]>>
         /\ op.kind = "CONNECT" => Asks(op) = <<[kind |-> "processConnect", args |-> op.args[1]]>>
         /\ op.kind = "INFO" => Asks(op) = <<[kind |-> "processInfo", args |-> op.args[1]]>>
         /\ op.kind = "ERR" => Asks(op) = <<[kind |-> "processErr", args |-> op.args[1]]>>
         /\ op.kind = "PING" => Asks(op) = <<[kind |-> "processPing", args |-> <<>>]>>
         /\ op.kind = "PONG" => Asks(op) = <<[kind |-> "processPong", args |-> <<>>]>>
         /\ op.kind = "OK" => Asks(op) = <<>>
BY DEF Asks

(* The line of an operation without a message is done.                          *)
LEMMA LineEnds ==
  ASSUME Typed, parsing, i < hi - lo, NEW k \in 1..Len(input.ops), Upto(k), Admitted(k), NEW op,
         op = input.ops[k], msgBuf = {}, lo + i + 1 = Offset(input.ops, k - 1) + LineLen(op), lo + i + 1 <= hi,
         op.kind \notin Messages, Rest, Done, argBuf' = {}, UNCHANGED <<msgBuf, pa, err>>,
         err = "nil", calls' = CalledTo(input.ops, k), ~authTimer', ~authSet'
  PROVE  Somewhere'
<1>1. op = input.ops[k]
  OBVIOUS
<1>2. msgBuf = {} /\ lo + i + 1 = Offset(input.ops, k - 1) + LineLen(op) /\ lo + i + 1 <= hi
  OBVIOUS
<1>3. lo + i' = Offset(input.ops, k) /\ lo + i' <= hi
  <2>1. PICK o \in Nat, l \in Nat, p \in Nat : o = Offset(input.ops, k - 1) /\ l = LineLen(op)
                                               /\ p = Offset(input.ops, k) /\ p = o + l + 0
    <3>1. OpKnown(k) /\ LineLen(op) \in Nat
      BY <1>1, StreamKnown DEF OpKnown, Lengths
    <3>2. BodyLen(op) = 0
      BY <1>1 DEF BodyLen
    <3> QED BY Zenon, <1>1, <3>1, <3>2 DEF OpKnown
  <2>2. lo \in Nat /\ i \in Nat /\ i' = i + 1
    BY DEF Typed, FixedTyped, MovingTyped, Done
  <2>3. lo + i + 1 = o + l
    BY Zenon, <1>2, <2>1
  <2>4. lo + i' = p /\ lo + i' = lo + i + 1
    BY <2>1, <2>2, <2>3
  <2> QED BY Zenon, <1>2, <2>1, <2>4
<1>4. Refusal(k) = "nil"
  BY AdmittedRefusal DEF Messages
<1>5. state' = "OP_START" /\ drop' = 0 /\ err' = "nil" /\ msgBuf' = {} /\ pa' = pa
  BY <1>2 DEF Done
<1>6. At(k + 1)'
  BY <1>3, <1>4, <1>5, NextOperation
<1> QED BY <1>6, Found

LEMMA LineDone ==
  ASSUME Typed, parsing, i < hi - lo, NEW k \in 1..Len(input.ops), Upto(k), Admitted(k), InArg(k), b = LF,
         input.ops[k].kind \notin Messages, Rest, Done, argBuf' = {}, UNCHANGED <<msgBuf, pa, err>>,
         err = "nil", calls' = CalledTo(input.ops, k), ~authTimer', ~authSet'
  PROVE  Somewhere'
<1>1. PICK op : op = input.ops[k]
  OBVIOUS
<1>2. msgBuf = {} /\ lo + i + 1 = Offset(input.ops, k - 1) + LineLen(op) /\ lo + i + 1 <= hi
  BY <1>1, ArgDone
<1> QED BY <1>1, <1>2, LineEnds

LEMMA LineArgKept ==
  ASSUME ParserInv, ~infoSplit, SubArg \/ UnsubArg \/ ConnectArg \/ MinusErrArg, Typed'
  PROVE  Somewhere'
<1>1. /\ parsing /\ err = "nil" /\ i < hi - lo /\ Typed
      /\ state \in {"SUB_ARG", "UNSUB_ARG", "CONNECT_ARG", "MINUS_ERR_ARG"}
      /\ SubArg => state = "SUB_ARG"
      /\ UnsubArg => state = "UNSUB_ARG"
      /\ ConnectArg => state = "CONNECT_ARG"
      /\ MinusErrArg => state = "MINUS_ERR_ARG"
  BY DEF SubArg, UnsubArg, ConnectArg, MinusErrArg, In, ParserInv
<1>2. PICK k \in 1..Len(input.ops) : Upto(k) /\ Admitted(k) /\ InArg(k)
  BY <1>1, InArgument DEF ArgStates, SplitStates
<1>3. CASE ArgByte
  BY <1>1, <1>2, <1>3, ArgByteKept
<1>4. CASE ~ArgByte
  <2>1. PICK op : op = input.ops[k] /\ Clean(op) /\ op.kind \in DOMAIN Keyword
    BY <1>1, <1>2, StreamKnown DEF OpKnown, Clean
  <2>2. b = LF
    BY <1>4 DEF SubArg, UnsubArg, ConnectArg, MinusErrArg
  <2>3. Arg = Text(op) /\ op.kind \notin Bare /\ state = ArgState[op.kind]
    BY <1>1, <1>2, <2>1, <2>2, ArgDone
  <2>4. /\ op.kind \in Lines => Arg = op.args[1]
        /\ op.kind \notin Lines => splitArg(Arg) = op.args
    <3>1. /\ op.kind \in Lines => Text(op) = op.args[1]
          /\ op.kind \notin Lines => splitArg(Text(op)) = op.args
      BY <2>1, <2>3, ArgumentIs
    <3> QED BY Zenon, <2>3, <3>1
  <2>5. /\ SubArg => op.kind = "SUB"
        /\ UnsubArg => op.kind = "UNSUB"
        /\ ConnectArg => op.kind = "CONNECT"
        /\ MinusErrArg => op.kind = "ERR"
    BY <1>1, <2>1, <2>3, KindIs
  <2>6. op.kind \notin Messages
    BY <2>5 DEF Messages
  <2>7. Len(op.args) \in Words[op.kind]
    BY <2>1 DEF Clean
  <2>8. CASE SubArg
    <3>1. op.kind = "SUB" /\ splitArg(Arg) = op.args /\ Len(op.args) \in {2, 3}
      <4>1. op.kind = "SUB"
        BY <2>5, <2>8
      <4>2. op.kind \notin Lines /\ Words["SUB"] = {2, 3}
        BY <4>1 DEF Lines, Words
      <4> QED BY Zenon, <2>4, <2>7, <4>1, <4>2
    <3>2. /\ Call("processSub", op.args) /\ argBuf' = {} /\ Done /\ UNCHANGED <<msgBuf, pa, err>> /\ Same
      BY Zenon, <1>4, <2>8, <3>1 DEF SubArg
    <3>3. PICK x : x = [kind |-> "processSub", args |-> op.args]
      OBVIOUS
    <3>4. calls' = Append(calls, x) /\ Asks(input.ops[k]) = <<x>>
      BY Zenon, <2>1, <3>1, <3>2, <3>3, AskOf DEF Call
    <3>5. calls' = CalledTo(input.ops, k)
      BY <1>1, <1>2, <3>4, OneCall
    <3>6. ~authTimer' /\ ~authSet' /\ Rest
      <4>1. input.ops[k].kind # "CONNECT"
        BY <2>1, <3>1
      <4> QED BY <1>1, <1>2, <3>2, <4>1, NoTimer DEF Same
    <3> QED BY <1>1, <1>2, <2>1, <2>2, <2>6, <3>2, <3>5, <3>6, LineDone
  <2>9. CASE UnsubArg
    <3>1. op.kind = "UNSUB" /\ splitArg(Arg) = op.args /\ Len(op.args) \in {1, 2}
      <4>1. op.kind = "UNSUB"
        BY <2>5, <2>9
      <4>2. op.kind \notin Lines /\ Words["UNSUB"] = {1, 2}
        BY <4>1 DEF Lines, Words
      <4> QED BY Zenon, <2>4, <2>7, <4>1, <4>2
    <3>2. /\ Call("processUnsub", op.args) /\ argBuf' = {} /\ Done /\ UNCHANGED <<msgBuf, pa, err>> /\ Same
      BY Zenon, <1>4, <2>9, <3>1 DEF UnsubArg
    <3>3. PICK x : x = [kind |-> "processUnsub", args |-> op.args]
      OBVIOUS
    <3>4. calls' = Append(calls, x) /\ Asks(input.ops[k]) = <<x>>
      BY Zenon, <2>1, <3>1, <3>2, <3>3, AskOf DEF Call
    <3>5. calls' = CalledTo(input.ops, k)
      BY <1>1, <1>2, <3>4, OneCall
    <3>6. ~authTimer' /\ ~authSet' /\ Rest
      <4>1. input.ops[k].kind # "CONNECT"
        BY <2>1, <3>1
      <4> QED BY <1>1, <1>2, <3>2, <4>1, NoTimer DEF Same
    <3> QED BY <1>1, <1>2, <2>1, <2>2, <2>6, <3>2, <3>5, <3>6, LineDone
  <2>10. CASE ConnectArg
    <3>1. op.kind = "CONNECT" /\ Arg = op.args[1]
      BY <2>4, <2>5, <2>10 DEF Lines
    <3>2. /\ Call("processConnect", op.args[1]) /\ argBuf' = {} /\ Done /\ UNCHANGED <<msgBuf, pa, err>>
          /\ Rest /\ authTimer' = FALSE /\ authSet' = FALSE
      BY Zenon, <1>4, <2>10, <3>1 DEF ConnectArg
    <3>3. PICK x : x = [kind |-> "processConnect", args |-> op.args[1]]
      OBVIOUS
    <3>4. calls' = Append(calls, x) /\ Asks(input.ops[k]) = <<x>>
      BY Zenon, <2>1, <3>1, <3>2, <3>3, AskOf DEF Call
    <3>5. calls' = CalledTo(input.ops, k)
      BY <1>1, <1>2, <3>4, OneCall
    <3> QED BY <1>1, <1>2, <2>1, <2>2, <2>6, <3>2, <3>5, LineDone
  <2>11. CASE MinusErrArg
    <3>1. op.kind = "ERR" /\ Arg = op.args[1]
      BY <2>4, <2>5, <2>11 DEF Lines
    <3>2. /\ Call("processErr", op.args[1]) /\ argBuf' = {} /\ Done
          /\ UNCHANGED <<msgBuf, pa, err, authTimer, authSet>> /\ Rest
      BY Zenon, <1>4, <2>11, <3>1 DEF MinusErrArg
    <3>3. PICK x : x = [kind |-> "processErr", args |-> op.args[1]]
      OBVIOUS
    <3>4. calls' = Append(calls, x) /\ Asks(input.ops[k]) = <<x>>
      BY Zenon, <2>1, <3>1, <3>2, <3>3, AskOf DEF Call
    <3>5. calls' = CalledTo(input.ops, k)
      BY <1>1, <1>2, <3>4, OneCall
    <3>6. ~authTimer' /\ ~authSet'
      <4>1. input.ops[k].kind # "CONNECT"
        BY <2>1, <3>1
      <4> QED BY <1>1, <1>2, <3>2, <4>1, NoTimer
    <3> QED BY <1>1, <1>2, <2>1, <2>2, <2>6, <3>2, <3>5, <3>6, LineDone
  <2> QED BY <2>8, <2>9, <2>10, <2>11
<1> QED BY <1>3, <1>4

LEMMA InfoArgKept ==
  ASSUME ParserInv, ~infoSplit, InfoArg, Typed'
  PROVE  Somewhere'
<1>1. /\ parsing /\ err = "nil" /\ i < hi - lo /\ Typed /\ state = "INFO_ARG" /\ Same /\ Rest
      /\ i' = i + 1 /\ UNCHANGED <<start, argBuf, msgBuf, pa, authTimer, authSet>>
  BY DEF InfoArg, In, ParserInv, Same
<1>2. PICK k \in 1..Len(input.ops) : Upto(k) /\ Admitted(k) /\ InArg(k)
  BY <1>1, InArgument DEF ArgStates
<1>3. PICK op : op = input.ops[k] /\ Clean(op) /\ op.kind \in DOMAIN Keyword
  BY <1>1, <1>2, StreamKnown DEF OpKnown, Clean
<1>4. op.kind \notin Bare /\ state = ArgState[op.kind]
  BY Zenon, <1>2, <1>3 DEF InArg
<1>5. op.kind = "INFO"
  BY <1>1, <1>3, <1>4, KindIs
<1>6. argBuf = {}
  BY Zenon, <1>2, <1>3, <1>5 DEF InArg
<1>7. CASE b # LF
  <2>1. drop' = (IF b = CR THEN 1 ELSE drop) /\ UNCHANGED <<state, calls, err>>
    BY <1>7 DEF InfoArg
  <2>2. argBuf' = (IF b = CR THEN argBuf ELSE {Append(a, b) : a \in argBuf})
    BY <1>1, <1>6
  <2>3. InArg(k)'
    BY <1>1, <1>2, <1>7, <2>1, <2>2, ArgNext
  <2>4. UNCHANGED <<input, calls, authTimer, authSet, parsing, pa, err>>
    BY <1>1, <2>1 DEF Rest
  <2>5. parsing' => (authSet' <=> authTimer)
    BY <1>2, <2>4 DEF Upto
  <2>6. At(k)'
    BY <1>1, <1>2, <2>3, <2>4, <2>5, StillWithin DEF Within
  <2> QED BY <2>6, Found
<1>8. CASE b = LF
  <2>1. Arg = Text(op) /\ start <= i - drop
    BY <1>1, <1>2, <1>3, <1>5, <1>8, ArgDone
  <2>2. Text(op) = op.args[1]
    BY <1>3, <1>4, <1>5, ArgumentIs DEF Lines
  <2>3. SubSeq(buf, start + 1, i - drop) = op.args[1]
    BY Zenon, <1>6, <2>1, <2>2 DEF Arg
  <2>4. ~(start > i - drop)
    <3>1. start \in Nat /\ i \in Nat /\ drop \in {0, 1}
      BY <1>1 DEF Typed, MovingTyped
    <3> QED BY <2>1, <3>1
  <2>5. /\ Call("processInfo", op.args[1]) /\ drop' = 0 /\ state' = "OP_START" /\ UNCHANGED err
    BY Zenon, <1>8, <2>3, <2>4 DEF InfoArg
  <2>6. PICK x : x = [kind |-> "processInfo", args |-> op.args[1]]
    OBVIOUS
  <2>7. calls' = Append(calls, x) /\ Asks(input.ops[k]) = <<x>>
    BY Zenon, <1>3, <1>5, <2>5, <2>6, AskOf DEF Call
  <2>8. calls' = CalledTo(input.ops, k)
    BY <1>1, <1>2, <2>7, OneCall
  <2>9. ~authTimer' /\ ~authSet' /\ op.kind \notin Messages
    <3>1. input.ops[k].kind # "CONNECT"
      BY <1>3, <1>5
    <3> QED BY <1>1, <1>2, <1>5, <3>1, NoTimer DEF Messages
  <2>10. Done /\ argBuf' = {}
    BY <1>1, <1>6, <2>5 DEF Done
  <2> QED BY <1>1, <1>2, <1>3, <1>8, <2>5, <2>8, <2>9, <2>10, LineDone
<1> QED BY <1>7, <1>8
LEMMA BareIs ==
  ASSUME NEW kind \in Bare
  PROVE  /\ Heads[kind][Len(Keyword[kind])] = "OP_PING" <=> kind = "PING"
         /\ Heads[kind][Len(Keyword[kind])] = "OP_PONG" <=> kind = "PONG"
         /\ Heads[kind][Len(Keyword[kind])] = "OP_PLUS_OK" <=> kind = "OK"
<1>1. kind \in {"PING", "PONG", "OK"}
  BY DEF Bare
<1>2. CASE kind = "PING"
  <2>1. Heads[kind][Len(Keyword[kind])] = "OP_PING"
    BY <1>2 DEF Heads, Keyword
  <2> QED BY <1>2, <2>1
<1>3. CASE kind = "PONG"
  <2>1. Heads[kind][Len(Keyword[kind])] = "OP_PONG"
    BY <1>3 DEF Heads, Keyword
  <2> QED BY <1>3, <2>1
<1>4. CASE kind = "OK"
  <2>1. Heads[kind][Len(Keyword[kind])] = "OP_PLUS_OK"
    BY <1>4 DEF Heads, Keyword
  <2> QED BY <1>4, <2>1
<1> QED BY <1>1, <1>2, <1>3, <1>4

LEMMA BareHere ==
  ASSUME ParserInv, ~infoSplit, parsing, err = "nil", state \in BareStates
  PROVE  \E k \in 1..Len(input.ops) :
           /\ Upto(k) /\ Admitted(k) /\ input.ops[k].kind \in Bare
           /\ Into(k) \in HeadLen(input.ops[k])..(LineLen(input.ops[k]) - 1)
           /\ state = Heads[input.ops[k].kind][HeadLen(input.ops[k])]
           /\ argBuf = {} /\ msgBuf = {} /\ drop = 0
<1>1. Typed /\ state # "OP_START"
  BY Sorts DEF ParserInv
<1>2. PICK k \in 1..Len(input.ops) : Upto(k) /\ Admitted(k) /\ Within(k)
  BY <1>1, InOperation
<1>3. InHead(k) \/ InBare(k)
  BY <1>1, <1>2, WhichWithin
<1>4. PICK op, n, c, h, t, e, l, z : op = input.ops[k] /\ Sizes(op, n, c, h, t, e, l, z)
  BY <1>1, SizesAre
<1>5. h \in Nat /\ t \in Nat /\ e \in 1..2 /\ l = h + t + e
  BY <1>4, Numbers
<1>6. h = HeadLen(op) /\ l = LineLen(op)
  BY Zenon, <1>4, SizesOf
<1>7. PICK m, y : m = Into(k) /\ y = l - 1
  OBVIOUS
<1>8. op.kind \in Bare /\ m \in h..y /\ state = Heads[op.kind][h]
  <2>1. CASE InHead(k)
    <3>1. m \in 1..h /\ state = Heads[op.kind][m]
      BY Zenon, <1>4, <1>6, <1>7, <2>1 DEF InHead
    <3>2. m \in 1..HeadLen(input.ops[k])
      BY Zenon, <1>4, <1>6, <3>1
    <3>3. op.kind \in Bare /\ m = h
      BY Zenon, <1>1, <1>4, <1>6, <3>1, <3>2, HeadStates
    <3>4. m \in h..y
      BY <1>5, <1>7, <3>3
    <3> QED BY Zenon, <3>1, <3>3, <3>4
  <2>2. CASE InBare(k)
    <3>1. m \in (h + 1)..y /\ op.kind \in Bare /\ state = Heads[op.kind][h]
      BY Zenon, <1>4, <1>6, <1>7, <2>2 DEF InBare
    <3>2. m \in h..y
      BY <1>5, <1>7, <3>1
    <3> QED BY Zenon, <3>1, <3>2
  <2> QED BY <1>3, <2>1, <2>2
<1>9. argBuf = {} /\ msgBuf = {} /\ drop = 0
  BY <1>3 DEF InHead, InBare
<1> QED BY Zenon, <1>2, <1>4, <1>6, <1>7, <1>8, <1>9

Handled == {<<"OP_PING", "processPing">>, <<"OP_PONG", "processPong">>, <<"OP_PLUS_OK", "nil">>}

LEMMA LineKept ==
  ASSUME ParserInv, ~infoSplit, NEW st, NEW handler, <<st, handler>> \in Handled, Line(st, handler), Typed'
  PROVE  Somewhere'
<1>1. /\ parsing /\ err = "nil" /\ i < hi - lo /\ Typed /\ state = st /\ state \in BareStates /\ Same /\ Rest
      /\ i' = i + 1 /\ UNCHANGED <<start, argBuf, msgBuf, pa, err, authTimer, authSet>>
  BY DEF Line, In, ParserInv, Same, Handled, BareStates
<1>2. PICK k \in 1..Len(input.ops) :
           /\ Upto(k) /\ Admitted(k) /\ input.ops[k].kind \in Bare
           /\ Into(k) \in HeadLen(input.ops[k])..(LineLen(input.ops[k]) - 1)
           /\ state = Heads[input.ops[k].kind][HeadLen(input.ops[k])]
           /\ argBuf = {} /\ msgBuf = {} /\ drop = 0
  BY <1>1, BareHere
<1>3. PICK op, n, c, h, t, e, l, z : op = input.ops[k] /\ Sizes(op, n, c, h, t, e, l, z)
  BY <1>1, SizesAre
<1>4. op.kind \in Bare
  BY <1>2, <1>3
<1>5. h \in Nat /\ t = 0 /\ e \in 1..2 /\ l = h + t + e /\ h = c
  BY <1>3, <1>4, Numbers
<1>6. h = HeadLen(op) /\ l = LineLen(op) /\ c = Len(Keyword[op.kind]) /\ t = Len(Text(op)) /\ e = Len(op.eol)
  BY Zenon, <1>3, SizesOf
<1>7. PICK m, y : m = Into(k) /\ y = l - 1 /\ m \in h..y
  BY Zenon, <1>2, <1>3, <1>6
<1>8. m \in Nat /\ (m = h \/ (m = h + 1 /\ e = 2))
  BY <1>5, <1>7
<1>9. PICK o \in Nat : /\ o = Offset(input.ops, k - 1) /\ Position' = lo + i'
                       /\ Into(k) = lo + i - o /\ Into(k)' = lo + i' - o
                       /\ lo \in Nat /\ hi \in Nat /\ i \in Nat
  BY Zenon, <1>1, Moved
<1>10. lo + i = o + m
  <2>1. m = lo + i - o
    BY Zenon, <1>7, <1>9
  <2> QED BY <1>8, <1>9, <2>1
<1>11. \/ Len(op.eol) = 1 /\ op.eol[1] = LF
       \/ Len(op.eol) = 2 /\ op.eol[1] = CR /\ op.eol[2] = LF
  BY <1>1, <1>3, StreamKnown, EndsAre DEF OpKnown
<1>12. (m = h => b = op.eol[1]) /\ (m = h + 1 => b = op.eol[2])
  <2>1. ByteOf(op, m, b)
    BY Zenon, <1>1, <1>3, <1>7, <1>8, ByteIs
  <2>2. /\ m >= h + t /\ m < l
        /\ m = h => m - h - t + 1 = 1
        /\ m = h + 1 => m - h - t + 1 = 2
    BY <1>5, <1>8
  <2>3. b = op.eol[m - h - t + 1]
    BY Zenon, <1>6, <2>1, <2>2 DEF ByteOf
  <2> QED BY Zenon, <2>2, <2>3
<1>13. CASE b # LF
  <2>1. m = h /\ e = 2
    <3>1. m = h
      BY Zenon, <1>6, <1>8, <1>11, <1>12, <1>13
    <3>2. e # 1
      BY Zenon, <1>6, <1>11, <1>12, <1>13, <3>1
    <3> QED BY <1>5, <3>1, <3>2
  <2>2. UNCHANGED <<drop, state, calls>>
    BY <1>13 DEF Line
  <2>3. Into(k)' = m + 1 /\ Position' <= hi
    <3>1. lo + i' - o = m + 1 /\ lo + i' <= hi
      <4>1. lo \in Nat /\ hi \in Nat /\ i \in Nat /\ o \in Nat /\ i < hi - lo /\ i' = i + 1
        BY Zenon, <1>1, <1>9
      <4> QED BY <1>8, <1>10, <4>1
    <3> QED BY Zenon, <1>9, <3>1
  <2>4. InBare(k)'
    <3>1. PICK x, w : x = h + 1 /\ w = m + 1 /\ w \in x..y
      BY <1>5, <1>7, <2>1
    <3>2. /\ Into(k)' \in (HeadLen(op) + 1)..(LineLen(op) - 1)
          /\ state = Heads[op.kind][HeadLen(op)]
      BY Zenon, <1>2, <1>3, <1>6, <1>7, <2>3, <3>1
    <3>3. UNCHANGED <<input, hi>> /\ argBuf' = {} /\ msgBuf' = {} /\ drop' = 0 /\ state' = state
      BY <1>1, <1>2, <2>2 DEF Rest
    <3> QED BY Zenon, <1>3, <1>4, <2>3, <3>2, <3>3 DEF InBare
  <2>5. UNCHANGED <<input, calls, authTimer, authSet, parsing, pa, err>>
    BY <1>1, <2>2 DEF Rest
  <2>6. parsing' => (authSet' <=> authTimer)
    BY <1>2, <2>5 DEF Upto
  <2>7. At(k)'
    BY <1>1, <1>2, <2>4, <2>5, <2>6, StillWithin DEF Within
  <2> QED BY <2>7, Found
<1>14. CASE b = LF
  <2>1. m + 1 = l
    <3>1. op.eol[1] = CR \/ e = 1
      BY Zenon, <1>6, <1>11
    <3>2. CR # LF
      BY DEF CR, LF
    <3>3. m = h => e = 1
      BY Zenon, <1>12, <1>14, <3>1, <3>2
    <3> QED BY <1>5, <1>8, <3>3
  <2>2. lo + i + 1 = Offset(input.ops, k - 1) + LineLen(op) /\ lo + i + 1 <= hi
    <3>1. lo + i + 1 = o + l /\ lo + i + 1 <= hi
      <4>1. lo \in Nat /\ hi \in Nat /\ i \in Nat /\ o \in Nat /\ i < hi - lo
        BY Zenon, <1>1, <1>9
      <4> QED BY <1>5, <1>8, <1>10, <2>1, <4>1
    <3> QED BY Zenon, <1>6, <1>9, <3>1
  <2>3. calls' = CalledTo(input.ops, k)
    <3>1. state = Heads[op.kind][Len(Keyword[op.kind])]
      BY Zenon, <1>2, <1>3, <1>5, <1>6
    <3>2. IF handler = "nil" THEN UNCHANGED calls ELSE Call(handler, <<>>)
      BY <1>14 DEF Line
    <3>3. \/ op.kind = "PING" /\ handler = "processPing"
          \/ op.kind = "PONG" /\ handler = "processPong"
          \/ op.kind = "OK" /\ handler = "nil"
      BY <1>1, <1>4, <3>1, BareIs DEF Handled
    <3>4. CASE op.kind = "OK" /\ handler = "nil"
      <4>1. calls' = calls /\ Asks(input.ops[k]) = <<>>
        BY <1>3, <3>2, <3>4, AskOf
      <4> QED BY <1>1, <1>2, <4>1, NoCall
    <3>5. CASE op.kind \in {"PING", "PONG"} /\ handler # "nil"
      <4>1. PICK x : x = [kind |-> handler, args |-> <<>>]
        OBVIOUS
      <4>2. Asks(op) = <<x>>
        BY <3>3, <3>5, <4>1, AskOf
      <4>3. calls' = Append(calls, x) /\ Asks(input.ops[k]) = <<x>>
        BY Zenon, <1>3, <3>2, <3>5, <4>1, <4>2 DEF Call
      <4> QED BY <1>1, <1>2, <4>3, OneCall
    <3> QED BY <3>3, <3>4, <3>5
  <2>4. ~authTimer' /\ ~authSet' /\ op.kind \notin Messages
    <3>1. op.kind # "CONNECT" /\ op.kind \notin Messages
      BY <1>4 DEF Bare, Messages
    <3>2. input.ops[k].kind # "CONNECT"
      BY <1>3, <3>1
    <3> QED BY <1>1, <1>2, <3>1, <3>2, NoTimer
  <2>5. Done /\ argBuf' = {}
    BY <1>1, <1>2, <1>14 DEF Done, Line
  <2> QED BY <1>1, <1>2, <1>3, <2>2, <2>3, <2>4, <2>5, LineEnds
<1> QED BY <1>13, <1>14
-----------------------------------------------------------------------------
(* The line of a message is done, and its payload follows.                      *)
LEMMA BodyBegins ==
  ASSUME Typed, parsing, err = "nil", i < hi - lo, NEW k \in 1..Len(input.ops), NEW op, op = input.ops[k],
         Upto(k), Admitted(k), InArg(k), b = LF, op.kind \in Messages, Refusal(k) = "nil", Same,
         Parsed(op)', drop' = 0, start' = i + 1, state' = "MSG_PAYLOAD",
         NEW d \in -1..Len(op.payload), i' = i + 1 + d,
         UNCHANGED <<argBuf, msgBuf, err, calls>>, argBuf' # {} => ~pa'.inBuf,
         input.typ = "CLIENT" => pa'.sid = pa.sid
  PROVE  Somewhere'
<1>1. msgBuf = {} /\ lo + i + 1 = Offset(input.ops, k - 1) + LineLen(op) /\ lo + i + 1 <= hi
  BY ArgDone
<1>2. Rest /\ UNCHANGED <<input, lo, hi, parsing, authTimer, authSet>>
  BY DEF Same, Rest
<1>3. lo \in Nat /\ hi \in Nat /\ i \in Nat
  BY DEF Typed, FixedTyped, MovingTyped
<1>4. PICK n \in Nat : n = Len(op.payload)
  BY StreamKnown, EndsAre DEF OpKnown
<1>5. i' - start' \in -1..Len(op.payload)
  <2>1. d \in -1..n
    BY Zenon, <1>4
  <2>2. i' - start' = d
    BY <1>3, <2>1
  <2> QED BY Zenon, <1>4, <2>1, <2>2
<1>6. lo + start' = Offset(input.ops, k - 1) + LineLen(op) /\ start' <= hi - lo
  <2>1. PICK x : x = Offset(input.ops, k - 1) + LineLen(op)
    OBVIOUS
  <2>2. lo + i + 1 = x /\ lo + i + 1 <= hi
    BY Zenon, <1>1, <2>1
  <2>3. PICK s \in Nat : s = i + 1 /\ s = start'
    BY <1>3
  <2>4. lo + s = x /\ s <= hi - lo
    BY <1>3, <2>2, <2>3
  <2> QED BY Zenon, <2>1, <2>3, <2>4
<1>7. Refusal(k)' = "nil"
  BY <1>2, RefusalKept
<1>8. InBody(k)'
  <2>1. input'.ops[k] = op
    BY <1>2
  <2>2. msgBuf' = {}
    BY <1>1
  <2> QED BY Zenon, <1>2, <1>5, <1>6, <1>7, <2>1, <2>2 DEF InBody
<1>9. parsing' => (authSet' <=> authTimer)
  BY <1>2 DEF Upto
<1>10. At(k)'
  BY Zenon, <1>2, <1>8, <1>9, StillWithin DEF Within
<1> QED BY <1>10, Found

LEMMA PubArgKept ==
  ASSUME ParserInv, ~infoSplit, PubArg, Typed'
  PROVE  Somewhere'
<1>1. parsing /\ err = "nil" /\ i < hi - lo /\ Typed /\ state = "PUB_ARG"
  BY DEF PubArg, In, ParserInv
<1>2. PICK k \in 1..Len(input.ops) : Upto(k) /\ Admitted(k) /\ InArg(k)
  BY <1>1, InArgument DEF ArgStates, SplitStates
<1>3. CASE ArgByte
  BY <1>1, <1>2, <1>3, ArgByteKept
<1>4. CASE ~ArgByte
  <2>1. PICK op : op = input.ops[k] /\ Clean(op) /\ op.kind \in DOMAIN Keyword /\ OpKnown(k)
    BY <1>1, <1>2, StreamKnown DEF OpKnown, Clean
  <2>2. b = LF
    BY <1>4 DEF PubArg
  <2>3. Arg = Text(op) /\ op.kind \notin Bare /\ state = ArgState[op.kind] /\ msgBuf = {}
    BY <1>1, <1>2, <2>1, <2>2, ArgDone
  <2>4. op.kind = "PUB"
    BY <1>1, <2>1, <2>3, KindIs
  <2>5. splitArg(Arg) = op.args
    <3>1. op.kind \notin Lines
      BY <2>4 DEF Lines
    <3>2. splitArg(Text(op)) = op.args
      BY <2>1, <2>3, <3>1, ArgumentIs
    <3> QED BY Zenon, <2>3, <3>2
  <2>6. Len(op.args) \in {2, 3}
    <3>1. Words["PUB"] = {2, 3}
      BY DEF Words
    <3> QED BY Zenon, <2>1, <2>4, <3>1 DEF Clean
  <2>7. PICK n \in Nat : n = Len(op.payload) /\ parseSize(Last(op.args)) = n
    <3>1. op.kind \in Messages /\ Len(op.payload) \in Nat
      BY <2>1, <2>4, EndsAre DEF Messages
    <3> QED BY Zenon, <2>1, <3>1 DEF Clean
  <2>8. PICK args, size : args = splitArg(Arg) /\ size = parseSize(Last(args)) /\ args = op.args /\ size = n
    BY Zenon, <2>5, <2>7
  <2>9. ~(Len(args) \notin {2, 3} \/ size < 0)
    <3>1. ~(n < 0)
      OBVIOUS
    <3> QED BY Zenon, <2>6, <2>8, <3>1
  <2>10. PICK done : done = processPub(Arg)
    OBVIOUS
  <2>11. /\ Same
         /\ IF done.err # "nil" THEN Fail(done.err)
            ELSE Payload(done, IF msgBuf = {} THEN (i + 1) + done.pa.size - LenCRLF + 1 ELSE i + 1)
    BY Zenon, <1>4, <2>10 DEF PubArg, Payload
  <2>12. Refusal(k) = IF MaxPayload > 0 /\ size > MaxPayload THEN "payload" ELSE "nil"
    BY Zenon, <1>2, <2>1, <2>4, <2>7, <2>8, AdmittedRefusal
  <2>13. CASE MaxPayload > 0 /\ size > MaxPayload
    <3>1. done = [err |-> "payload"]
      BY Zenon, <2>8, <2>9, <2>10, <2>13 DEF processPub
    <3>2. done.err = "payload" /\ "payload" # "nil"
      BY <3>1
    <3>3. Refusal(k) = "payload"
      BY <2>12, <2>13
    <3>4. Fail("payload") /\ Same
      BY <2>11, <3>2
    <3>5. At(k)'
      BY Zenon, <1>1, <1>2, <3>2, <3>3, <3>4, Refused
    <3> QED BY <3>5, Found
  <2>14. CASE ~(MaxPayload > 0 /\ size > MaxPayload)
    <3>1. Refusal(k) = "nil"
      BY <2>12, <2>14
    <3>2. done = [err |-> "nil",
                  pa |-> [pa EXCEPT !.subject = args[1], !.size = size, !.szb = Last(args),
                                    !.inBuf = argBuf = {},
                                    !.reply = IF Len(args) = 3 THEN {args[2]} ELSE {}]]
      BY Zenon, <2>8, <2>9, <2>10, <2>14 DEF processPub
    <3>3. PICK from, reply :
            from \in BOOLEAN /\ from = (argBuf = {}) /\ reply = IF Len(args) = 3 THEN {args[2]} ELSE {}
      <4>1. (argBuf = {}) \in BOOLEAN
        OBVIOUS
      <4> QED BY Zenon, <4>1
    <3>4. /\ done.err = "nil"
          /\ done.pa = [pa EXCEPT !.subject = args[1], !.size = size, !.szb = Last(args),
                                  !.inBuf = from, !.reply = reply]
      <4>1. done = [err |-> "nil",
                    pa |-> [pa EXCEPT !.subject = args[1], !.size = size, !.szb = Last(args),
                                      !.inBuf = from, !.reply = reply]]
        BY Zenon, <3>2, <3>3
      <4> QED BY ONLY <4>1
    <3>5. pa \in PaType
      BY <1>1 DEF Typed, MovingTyped
    <3>6. /\ done.pa.subject = args[1] /\ done.pa.size = size /\ done.pa.inBuf = from
          /\ done.pa.reply = reply /\ done.pa.sid = pa.sid
      BY <3>4, <3>5 DEF PaType
    <3>7. Payload(done, (i + 1) + n - LenCRLF + 1)
      BY Zenon, <2>3, <2>8, <2>11, <3>4, <3>6
    <3>8. pa' = done.pa /\ drop' = 0 /\ start' = i + 1 /\ state' = "MSG_PAYLOAD"
          /\ i' = (i + 1) + n - LenCRLF + 1 /\ UNCHANGED <<argBuf, msgBuf, err, calls>>
      BY <3>7 DEF Payload
    <3>9. pa.sid = {}
      BY <1>2, <2>1, <2>4 DEF OpKnown, Upto
    <3>10. reply = (IF Len(op.args) = (IF op.kind = "MSG" THEN 4 ELSE 3)
                    THEN {op.args[Len(op.args) - 1]} ELSE {})
      <4>1. (IF op.kind = "MSG" THEN 4 ELSE 3) = 3
        BY <2>4
      <4>2. CASE Len(op.args) = 3
        <5>1. Len(op.args) - 1 = 2
          BY <4>2
        <5> QED BY Zenon, <2>8, <3>3, <4>1, <4>2, <5>1
      <4>3. CASE Len(op.args) # 3
        BY Zenon, <2>8, <3>3, <4>1, <4>3
      <4> QED BY <4>2, <4>3
    <3>11. Parsed(op)'
      <4>1. op.kind # "MSG"
        BY <2>4
      <4>2. /\ pa'.subject = op.args[1] /\ pa'.size = Len(op.payload) /\ pa'.sid = {} /\ pa'.reply = reply
        BY Zenon, <2>7, <2>8, <3>6, <3>8, <3>9
      <4> QED BY Zenon, <3>10, <4>1, <4>2 DEF Parsed
    <3>12. argBuf' # {} => ~pa'.inBuf
      BY Zenon, <3>3, <3>6, <3>8
    <3>13. PICK d \in -1..n : i' = i + 1 + d
      <4>1. n - 1 \in -1..n /\ i' = i + 1 + (n - 1)
        <5>1. i \in Nat
          BY <1>1 DEF Typed, MovingTyped
        <5> QED BY <3>8, <5>1 DEF LenCRLF
      <4> QED BY <4>1
    <3>14. d \in -1..Len(op.payload) /\ op.kind \in Messages /\ pa'.sid = pa.sid
      <4>1. op.kind \in Messages
        BY <2>4 DEF Messages
      <4> QED BY Zenon, <2>7, <3>6, <3>8, <4>1
    <3>15. Same /\ UNCHANGED <<argBuf, msgBuf, err, calls>> /\ drop' = 0 /\ start' = i + 1 /\ state' = "MSG_PAYLOAD"
      BY <2>11, <3>8
    <3> QED BY Zenon, <1>1, <1>2, <2>1, <2>2, <3>1, <3>11, <3>12, <3>13, <3>14, <3>15, BodyBegins
  <2> QED BY <2>13, <2>14
<1> QED BY <1>3, <1>4
LEMMA MsgArgKept ==
  ASSUME ParserInv, ~infoSplit, MsgArg, Typed'
  PROVE  Somewhere'
<1>1. parsing /\ err = "nil" /\ i < hi - lo /\ Typed /\ state = "MSG_ARG"
  BY DEF MsgArg, In, ParserInv
<1>2. PICK k \in 1..Len(input.ops) : Upto(k) /\ Admitted(k) /\ InArg(k)
  BY <1>1, InArgument DEF ArgStates, SplitStates
<1>3. CASE ArgByte
  BY <1>1, <1>2, <1>3, ArgByteKept
<1>4. CASE ~ArgByte
  <2>1. PICK op : op = input.ops[k] /\ Clean(op) /\ op.kind \in DOMAIN Keyword /\ OpKnown(k)
    BY <1>1, <1>2, StreamKnown DEF OpKnown, Clean
  <2>2. b = LF
    BY <1>4 DEF MsgArg
  <2>3. Arg = Text(op) /\ op.kind \notin Bare /\ state = ArgState[op.kind] /\ msgBuf = {}
    BY <1>1, <1>2, <2>1, <2>2, ArgDone
  <2>4. op.kind = "MSG"
    BY <1>1, <2>1, <2>3, KindIs
  <2>5. splitArg(Arg) = op.args
    <3>1. op.kind \notin Lines
      BY <2>4 DEF Lines
    <3>2. splitArg(Text(op)) = op.args
      BY <2>1, <2>3, <3>1, ArgumentIs
    <3> QED BY Zenon, <2>3, <3>2
  <2>6. Len(op.args) \in {3, 4}
    <3>1. Words["MSG"] = {3, 4}
      BY DEF Words
    <3> QED BY Zenon, <2>1, <2>4, <3>1 DEF Clean
  <2>7. PICK n \in Nat : n = Len(op.payload) /\ parseSize(Last(op.args)) = n
    <3>1. op.kind \in Messages /\ Len(op.payload) \in Nat
      BY <2>1, <2>4, EndsAre DEF Messages
    <3> QED BY Zenon, <2>1, <3>1 DEF Clean
  <2>8. PICK args, size : args = splitArg(Arg) /\ size = parseSize(Last(args)) /\ args = op.args /\ size = n
    BY Zenon, <2>5, <2>7
  <2>9. ~(Len(args) \notin {3, 4} \/ size < 0)
    <3>1. ~(n < 0)
      OBVIOUS
    <3> QED BY Zenon, <2>6, <2>8, <3>1
  <2>10. PICK done : done = processMsgArgs(Arg)
    OBVIOUS
  <2>11. Same /\ IF done.err # "nil" THEN Fail(done.err) ELSE Payload(done, i + 1)
    BY Zenon, <1>4, <2>10 DEF MsgArg, Payload
  <2>12. Refusal(k) = "nil"
    <3>1. input.ops[k].kind # "PUB"
      BY <2>1, <2>4
    <3> QED BY <1>2, <3>1, AdmittedRefusal
  <2>13. done = [err |-> "nil",
                 pa |-> [subject |-> args[1], sid |-> {args[2]}, size |-> size, szb |-> Last(args),
                         inBuf |-> argBuf = {},
                         reply |-> IF Len(args) = 4 THEN {args[3]} ELSE {}]]
    BY Zenon, <2>8, <2>9, <2>10 DEF processMsgArgs
  <2>14. PICK from, reply, sid :
           /\ from \in BOOLEAN /\ from = (argBuf = {}) /\ sid = {args[2]}
           /\ reply = IF Len(args) = 4 THEN {args[3]} ELSE {}
    <3>1. (argBuf = {}) \in BOOLEAN
      OBVIOUS
    <3> QED BY Zenon, <3>1
  <2>15. /\ done.err = "nil" /\ done.pa.subject = args[1] /\ done.pa.size = size /\ done.pa.inBuf = from
         /\ done.pa.reply = reply /\ done.pa.sid = sid
    <3>1. done = [err |-> "nil",
                  pa |-> [subject |-> args[1], sid |-> sid, size |-> size, szb |-> Last(args),
                          inBuf |-> from, reply |-> reply]]
      BY Zenon, <2>13, <2>14
    <3> QED BY ONLY <3>1
  <2>16. Payload(done, i + 1)
    BY <2>11, <2>15
  <2>17. pa' = done.pa /\ drop' = 0 /\ start' = i + 1 /\ state' = "MSG_PAYLOAD"
         /\ i' = i + 1 /\ UNCHANGED <<argBuf, msgBuf, err, calls>>
    BY <2>16 DEF Payload
  <2>18. reply = (IF Len(op.args) = (IF op.kind = "MSG" THEN 4 ELSE 3)
                  THEN {op.args[Len(op.args) - 1]} ELSE {})
    <3>1. (IF op.kind = "MSG" THEN 4 ELSE 3) = 4
      BY <2>4
    <3>2. CASE Len(op.args) = 4
      <4>1. Len(op.args) - 1 = 3
        BY <3>2
      <4> QED BY Zenon, <2>8, <2>14, <3>1, <3>2, <4>1
    <3>3. CASE Len(op.args) # 4
      BY Zenon, <2>8, <2>14, <3>1, <3>3
    <3> QED BY <3>2, <3>3
  <2>19. Parsed(op)'
    <3>1. /\ pa'.subject = op.args[1] /\ pa'.size = Len(op.payload) /\ pa'.sid = {op.args[2]}
          /\ pa'.reply = reply
      BY Zenon, <2>7, <2>8, <2>14, <2>15, <2>17
    <3> QED BY Zenon, <2>4, <2>18, <3>1 DEF Parsed
  <2>20. argBuf' # {} => ~pa'.inBuf
    BY Zenon, <2>14, <2>15, <2>17
  <2>21. PICK d \in -1..n : i' = i + 1 + d
    <3>1. 0 \in -1..n /\ i' = i + 1 + 0
      <4>1. i \in Nat
        BY <1>1 DEF Typed, MovingTyped
      <4> QED BY <2>17, <4>1
    <3> QED BY <3>1
  <2>22. d \in -1..Len(op.payload) /\ op.kind \in Messages /\ (input.typ = "CLIENT" => pa'.sid = pa.sid)
    <3>1. op.kind \in Messages /\ input.typ # "CLIENT"
      BY <2>1, <2>4 DEF Messages, OpKnown
    <3> QED BY Zenon, <2>7, <3>1
  <2>23. Same /\ UNCHANGED <<argBuf, msgBuf, err, calls>> /\ drop' = 0 /\ start' = i + 1 /\ state' = "MSG_PAYLOAD"
    BY <2>11, <2>17
  <2> QED BY Zenon, <1>1, <1>2, <2>1, <2>2, <2>12, <2>19, <2>20, <2>21, <2>22, <2>23, BodyBegins
<1> QED BY <1>3, <1>4

-----------------------------------------------------------------------------
(* Within a message.                                                            *)
LEMMA InMessage ==
  ASSUME ParserInv, ~infoSplit, parsing, err = "nil", state \in MsgStates
  PROVE  \E k \in 1..Len(input.ops) : Upto(k) /\ Admitted(k) /\ (InBody(k) \/ InCopy(k))
<1>1. Typed /\ state # "OP_START"
  BY Sorts DEF ParserInv
<1>2. PICK k \in 1..Len(input.ops) : Upto(k) /\ Admitted(k) /\ Within(k)
  BY <1>1, InOperation
<1> QED BY <1>1, <1>2, WhichWithin

(* The numbers there: l bytes of the line from o on, n of payload.              *)
MessageAt(op, k, o, l, n) ==
  /\ o = Offset(input.ops, k - 1) /\ l = LineLen(op) /\ n = Len(op.payload)
  /\ Offset(input.ops, k) = o + l + (n + 2)
  /\ lo \in Nat /\ hi \in Nat /\ i \in Nat /\ start \in Nat
  /\ Body(op) \in Seq(Octet) /\ Len(Body(op)) = n + 2
  /\ Body(op)[n + 1] = CR /\ Body(op)[n + 2] = LF
  /\ \A j \in 1..(n + 2) : input.stream[o + l + j] = Body(op)[j]
  /\ \A g \in 0..(n + 1) : lo + i = o + l + g => b = Body(op)[g + 1]

LEMMA MessageIs ==
  ASSUME Typed, parsing, i < hi - lo, NEW k \in 1..Len(input.ops), NEW op, op = input.ops[k],
         op.kind \in Messages
  PROVE  \E o \in Nat, l \in Nat, n \in Nat : MessageAt(op, k, o, l, n)
<1>1. OpKnown(k)
  BY StreamKnown
<1>2. Clean(op) /\ Lengths(op) /\ Written(input.stream, Offset(input.ops, k - 1), op)
  BY Zenon, <1>1 DEF OpKnown
<1>3. PICK o \in Nat, l \in Nat, n \in Nat : o = Offset(input.ops, k - 1) /\ l = LineLen(op) /\ n = Len(op.payload)
  BY <1>1, <1>2, EndsAre DEF OpKnown, Lengths
<1>4. Offset(input.ops, k) = o + l + (n + 2)
  <2>1. BodyLen(op) = n + 2
    BY Zenon, <1>3 DEF BodyLen
  <2> QED BY Zenon, <1>1, <1>3, <2>1 DEF OpKnown
<1>5. /\ Body(op) \in Seq(Octet) /\ Len(Body(op)) = n + 2
      /\ Body(op)[n + 1] = CR /\ Body(op)[n + 2] = LF
  BY Zenon, <1>2, <1>3, EndsAre
<1>6. \A j \in 1..(n + 2) : input.stream[o + l + j] = Body(op)[j]
  BY Zenon, <1>2, <1>3, <1>5 DEF Written
<1>7. lo \in Nat /\ hi \in Nat /\ i \in Nat /\ start \in Nat
  BY DEF Typed, FixedTyped, MovingTyped
<1>8. ASSUME NEW g \in 0..(n + 1), lo + i = o + l + g PROVE b = Body(op)[g + 1]
  <2>1. g + 1 \in 1..(n + 2) /\ lo + i + 1 = o + l + (g + 1)
    <3>1. o \in Nat /\ l \in Nat /\ n \in Nat /\ lo \in Nat /\ i \in Nat /\ lo + i = o + l + g
      BY <1>7, <1>8
    <3>2. g \in 0..(n + 1)
      OBVIOUS
    <3> QED BY ONLY <3>1, <3>2
  <2>2. b = input.stream[o + l + (g + 1)]
    BY Zenon, <2>1 DEF b
  <2> QED BY Zenon, <1>6, <2>1, <2>2
<1>9. MessageAt(op, k, o, l, n)
  BY Zenon, <1>3, <1>4, <1>5, <1>6, <1>7, <1>8 DEF MessageAt
<1> QED BY <1>9

(* A piece of a text behind what is there of it.                                *)
GoesOn(t, g, s) == \A j \in 1..Len(s) : s[j] = t[g + j]

LEMMA MoreOf ==
  ASSUME NEW t \in Seq(Octet), NEW g \in Nat, NEW m \in Nat, g + m <= Len(t),
         NEW s \in Seq(Octet), Len(s) = m, GoesOn(t, g, s)
  PROVE  SubSeq(t, 1, g) \o s = SubSeq(t, 1, g + m)
<1>1. Len(t) \in Nat /\ g \in 0..Len(t) /\ g + m \in 0..Len(t)
  BY LenProperties
<1>2. PICK u \in Seq(Octet) : u = SubSeq(t, 1, g) /\ Len(u) = g /\ \A j \in 1..g : u[j] = t[j]
  <2>1. g \in 0..Len(t)
    BY <1>1
  <2>2. /\ SubSeq(t, 1, g) \in Seq(Octet) /\ Len(SubSeq(t, 1, g)) = g
        /\ \A j \in 1..g : SubSeq(t, 1, g)[j] = t[j]
    BY ONLY t \in Seq(Octet), <2>1, UpTo
  <2> QED BY Zenon, <2>2
<1>3. PICK v \in Seq(Octet) : v = SubSeq(t, 1, g + m) /\ Len(v) = g + m /\ \A j \in 1..(g + m) : v[j] = t[j]
  <2>1. PICK w : w = g + m /\ w \in 0..Len(t)
    BY <1>1
  <2>2. /\ SubSeq(t, 1, w) \in Seq(Octet) /\ Len(SubSeq(t, 1, w)) = w
        /\ \A j \in 1..w : SubSeq(t, 1, w)[j] = t[j]
    BY ONLY t \in Seq(Octet), <2>1, UpTo
  <2> QED BY Zenon, <2>1, <2>2
<1>4. /\ u \o s \in Seq(Octet) /\ Len(u \o s) = Len(u) + Len(s)
      /\ \A j \in 1..(Len(u) + Len(s)) : (u \o s)[j] = IF j <= Len(u) THEN u[j] ELSE s[j - Len(u)]
  BY ONLY u \in Seq(Octet), s \in Seq(Octet), ConcatProperties
<1>5. Len(u \o s) = g + m
  BY <1>2, <1>4
<1>6. \A j \in 1..(g + m) : (u \o s)[j] = IF j <= g THEN u[j] ELSE s[j - g]
  BY Zenon, <1>2, <1>4
<1>7. ASSUME NEW j \in 1..(g + m) PROVE (u \o s)[j] = v[j]
  <2>1. CASE j <= g
    <3>1. j \in 1..g
      BY <2>1
    <3> QED BY Zenon, <1>2, <1>3, <1>6, <2>1, <3>1
  <2>2. CASE ~(j <= g)
    <3>1. j - g \in 1..m /\ g + (j - g) = j
      BY <2>2
    <3>2. s[j - g] = t[g + (j - g)]
      BY Zenon, <3>1 DEF GoesOn
    <3> QED BY Zenon, <1>3, <1>6, <2>2, <3>1, <3>2
  <2> QED BY <2>1, <2>2
<1>8. u \o s = v
  BY <1>3, <1>4, <1>5, <1>7, SeqEqual
<1> QED BY Zenon, <1>2, <1>3, <1>8

(* What there is of the message.                                                *)
CopyAt(op, o, l, n, g) ==
  /\ g \in 0..(n + 1) /\ lo + i = o + l + g
  /\ msgBuf = {SubSeq(Body(op), 1, g)} /\ Parsed(op) /\ drop = 0 /\ ~pa.inBuf
  /\ \/ state = "MSG_PAYLOAD" /\ g \in 0..n /\ n <= msgCap
     \/ state = "MSG_END" /\ g \in n..(n + 1)

LEMMA CopyIs ==
  ASSUME Typed, parsing, i < hi - lo, NEW k \in 1..Len(input.ops), NEW op, op = input.ops[k], InCopy(k),
         NEW o \in Nat, NEW l \in Nat, NEW n \in Nat, MessageAt(op, k, o, l, n)
  PROVE  \E g : CopyAt(op, o, l, n, g)
<1>1. o = Offset(input.ops, k - 1) /\ l = LineLen(op) /\ n = Len(op.payload) /\ lo \in Nat /\ i \in Nat
  BY Zenon DEF MessageAt
<1>2. PICK x, g : x = Into(k) /\ g = x - l
  OBVIOUS
<1>3. /\ msgBuf = {SubSeq(Body(op), 1, g)} /\ Parsed(op) /\ drop = 0 /\ ~pa.inBuf
      /\ \/ state = "MSG_PAYLOAD" /\ g \in 0..n /\ n <= msgCap
         \/ state = "MSG_END" /\ g \in n..(n + 1)
  BY Zenon, <1>1, <1>2 DEF InCopy
<1>4. PICK y : y = lo + i /\ x = y - o
  <2>1. Position = lo + i
    BY DEF Position
  <2>2. x = Position - o
    BY Zenon, <1>1, <1>2 DEF Into
  <2> QED BY Zenon, <2>1, <2>2
<1>5. g = x - l
  BY <1>2
<1>6. g \in 0..n \/ g \in n..(n + 1)
  BY <1>3
<1>7. g \in 0..(n + 1) /\ lo + i = o + l + g
  <2>1. l \in Nat /\ n \in Nat /\ o \in Nat /\ lo \in Nat /\ i \in Nat
    BY <1>1
  <2> QED BY ONLY <1>4, <1>5, <1>6, <2>1
<1> QED BY Zenon, <1>3, <1>7 DEF CopyAt

LEMMA CopyKept ==
  ASSUME Typed, Typed', Rest, parsing, NEW k \in 1..Len(input.ops), NEW op, op = input.ops[k],
         InCopy(k), NEW o \in Nat, NEW l \in Nat, NEW n \in Nat, MessageAt(op, k, o, l, n),
         UNCHANGED <<drop, pa>>, NEW g \in Nat,
         lo + i' = o + l + g, lo + i' <= hi, msgBuf' = {SubSeq(Body(op), 1, g)},
         \/ state' = "MSG_PAYLOAD" /\ g \in 0..n /\ n <= msgCap
         \/ state' = "MSG_END" /\ g \in n..(n + 1)
  PROVE  InCopy(k)'
<1>1. o = Offset(input.ops, k - 1) /\ l = LineLen(op) /\ n = Len(op.payload)
  BY Zenon DEF MessageAt
<1>2. UNCHANGED <<input, lo, hi, parsing, msgCap>>
  BY DEF Rest
<1>3. PICK x \in Nat : /\ x = Offset(input.ops, k - 1) /\ Position' = lo + i' /\ Into(k)' = lo + i' - x
                       /\ lo \in Nat /\ i' \in Nat
  BY Zenon, Moved
<1>4. Position' <= hi /\ Into(k)' - LineLen(op) = g
  <2>1. PICK w : w = lo + i' - x
    OBVIOUS
  <2>2. x = o /\ w - l = g
    <3>1. x = o
      BY Zenon, <1>1, <1>3
    <3>2. lo \in Nat /\ i' \in Nat /\ lo + i' = o + l + g
      BY Zenon, <1>3
    <3>3. PICK s \in Nat : s = i'
      BY Zenon, <3>2
    <3>4. w = lo + s - x /\ lo \in Nat /\ lo + s = o + l + g /\ o \in Nat /\ l \in Nat /\ g \in Nat
      BY Zenon, <2>1, <3>2, <3>3
    <3> QED BY ONLY <3>1, <3>4, s \in Nat
  <2>3. Into(k)' = w
    BY Zenon, <1>3, <2>1
  <2>4. Into(k)' - LineLen(op) = g
    BY Zenon, <1>1, <2>2, <2>3
  <2>5. Position' <= hi
    BY Zenon, <1>3
  <2> QED BY <2>4, <2>5
<1>5. op.kind \in Messages /\ Parsed(op) /\ drop = 0 /\ Refusal(k) = "nil" /\ ~pa.inBuf
  BY Zenon DEF InCopy
<1>6. Parsed(op)' /\ Refusal(k)' = "nil" /\ drop' = 0 /\ ~pa'.inBuf /\ input'.ops[k] = op
  <2>1. Refusal(k)' = "nil"
    BY <1>2, <1>5, RefusalKept
  <2>2. pa' = pa
    OBVIOUS
  <2>3. Parsed(op)'
    BY Zenon, <1>5, <2>2 DEF Parsed
  <2>4. drop' = 0 /\ ~pa'.inBuf /\ input'.ops[k] = op
    BY <1>2, <1>5
  <2> QED BY Zenon, <2>1, <2>3, <2>4
<1>7. \/ state' = "MSG_PAYLOAD" /\ g \in 0..Len(op.payload) /\ Len(op.payload) <= msgCap'
      \/ state' = "MSG_END" /\ g \in Len(op.payload)..(Len(op.payload) + 1)
  BY Zenon, <1>1, <1>2
<1>8. hi' = hi
  BY <1>2
<1> QED BY Zenon, <1>4, <1>5, <1>6, <1>7, <1>8 DEF InCopy

LEMMA MsgPayloadKept ==
  ASSUME ParserInv, ~infoSplit, MsgPayload, Typed'
  PROVE  Somewhere'
<1>1. parsing /\ err = "nil" /\ i < hi - lo /\ Typed /\ state = "MSG_PAYLOAD" /\ Same /\ Rest
  BY DEF MsgPayload, In, ParserInv, Same
<1>2. PICK k \in 1..Len(input.ops) : Upto(k) /\ Admitted(k) /\ (InBody(k) \/ InCopy(k))
  BY <1>1, InMessage DEF MsgStates
<1>3. PICK op : op = input.ops[k] /\ op.kind \in Messages /\ Parsed(op)
  BY Zenon, <1>2 DEF InBody, InCopy
<1>4. PICK o \in Nat, l \in Nat, n \in Nat : MessageAt(op, k, o, l, n)
  BY <1>1, <1>3, MessageIs
<1>5. o = Offset(input.ops, k - 1) /\ l = LineLen(op) /\ n = Len(op.payload)
      /\ lo \in Nat /\ hi \in Nat /\ i \in Nat /\ start \in Nat
  BY Zenon, <1>4 DEF MessageAt
<1>6. pa.size = n
  BY Zenon, <1>3, <1>5 DEF Parsed
<1>7. UNCHANGED <<input, lo, hi, parsing, msgCap, authTimer, authSet>>
  BY <1>1 DEF Same, Rest
<1>8. SUFFICES ASSUME TRUE
               PROVE  Within(k)' /\ UNCHANGED <<calls, pa, err>>
  <2>1. ASSUME Within(k)', UNCHANGED <<calls, pa, err>> PROVE At(k)'
    <3>1. parsing' => (authSet' <=> authTimer)
      BY <1>2, <1>7 DEF Upto
    <3>2. UNCHANGED <<input, calls, authTimer>> /\ err' = "nil" /\ (input.typ = "CLIENT" => pa'.sid = pa.sid)
      BY <1>1, <1>7, <2>1
    <3> QED BY Zenon, <1>2, <2>1, <3>1, <3>2, StillWithin
  <2> QED BY <2>1, Found
<1>9. CASE InBody(k)
  <2>1. /\ Refusal(k) = "nil" /\ drop = 0 /\ msgBuf = {} /\ (argBuf # {} => ~pa.inBuf)
        /\ lo + start = Offset(input.ops, k - 1) + LineLen(op) /\ start <= hi - lo
        /\ \/ i - start \in -1..n
           \/ state = "MSG_END"
    BY Zenon, <1>3, <1>5, <1>9 DEF InBody
  <2>2. /\ i' = i + 1 /\ state' = (IF i - start >= n THEN "MSG_END" ELSE state)
        /\ UNCHANGED <<start, drop, argBuf, msgBuf, pa, err, calls>>
    BY Zenon, <1>6, <2>1 DEF MsgPayload
  <2>3. i - start \in -1..n
    BY <1>1, <2>1
  <2>4. \/ state' = "MSG_PAYLOAD" /\ i' - start \in -1..n
        \/ state' = "MSG_END" /\ i' - start = n + 1 /\ i' <= hi - lo
    BY <1>1, <1>5, <2>2, <2>3
  <2>5. InBody(k)'
    <3>1. Refusal(k)' = "nil" /\ input'.ops[k] = op
      BY <1>3, <1>7, <2>1, RefusalKept
    <3>2. Parsed(op)'
      BY Zenon, <1>3, <2>2 DEF Parsed
    <3>3. \/ state' = "MSG_PAYLOAD" /\ i' - start' \in -1..Len(op.payload)
          \/ state' = "MSG_END" /\ i' - start' = Len(op.payload) + 1 /\ i' <= hi' - lo'
      BY Zenon, <1>5, <1>7, <2>2, <2>4
    <3>4. /\ drop' = 0 /\ msgBuf' = {} /\ (argBuf' # {} => ~pa'.inBuf) /\ parsing'
          /\ lo' + start' = Offset(input'.ops, k - 1) + LineLen(op) /\ start' <= hi' - lo'
      BY Zenon, <1>1, <1>7, <2>1, <2>2
    <3> QED BY Zenon, <1>3, <3>1, <3>2, <3>3, <3>4 DEF InBody
  <2> QED BY Zenon, <2>2, <2>5 DEF Within
<1>10. CASE InCopy(k)
  <2>1. PICK g : CopyAt(op, o, l, n, g)
    BY <1>1, <1>3, <1>4, <1>10, CopyIs
  <2>2. /\ msgBuf = {SubSeq(Body(op), 1, g)} /\ lo + i = o + l + g /\ g \in 0..n /\ n <= msgCap
    <3>1. state # "MSG_END"
      BY <1>1
    <3> QED BY Zenon, <2>1, <3>1 DEF CopyAt
  <2>3. PICK t \in Seq(Octet) : t = Body(op) /\ Len(t) = n + 2
    BY Zenon, <1>4 DEF MessageAt
  <2>4. PICK have \in Seq(Octet) : have = SubSeq(t, 1, g) /\ Len(have) = g /\ msgBuf = {have} /\ have = The(msgBuf)
    <3>1. g \in 0..Len(t)
      BY <2>2, <2>3
    <3>2. SubSeq(t, 1, g) \in Seq(Octet) /\ Len(SubSeq(t, 1, g)) = g
      BY <3>1, UpTo
    <3>3. msgBuf = {SubSeq(t, 1, g)}
      BY Zenon, <2>2, <2>3
    <3> QED BY <3>2, <3>3, TheOnly
  <2>5. PICK left \in Int, toCopy \in Int :
          left = hi - lo - i /\ left >= 1 /\ toCopy = Min({n - g, left}) /\ toCopy = (IF n - g <= left THEN n - g ELSE left)
    <3>1. hi - lo - i \in Int /\ hi - lo - i >= 1 /\ n - g \in Int
      BY <1>1, <1>5, <2>2
    <3> QED BY <3>1, MinMax
  <2>6. PICK got : got = IF toCopy > 0 THEN have \o SubSeq(buf, i + 1, i + toCopy) ELSE Append(have, b)
    OBVIOUS
  <2>7. IF toCopy > 0 /\ Len(got) > msgCap THEN Fail("panic")
        ELSE /\ msgBuf' = {got} /\ i' = i + Max({toCopy, 1})
             /\ state' = IF Len(got) >= n THEN "MSG_END" ELSE state
             /\ UNCHANGED <<start, drop, argBuf, pa, err, calls>>
    <3>1. toCopy = Min({pa.size - Len(The(msgBuf)), hi - lo - i}) /\ msgBuf # {}
      BY <1>6, <2>4, <2>5
    <3> QED BY Zenon, <1>6, <2>4, <2>6, <3>1 DEF MsgPayload
  <2>8. PICK m \in Nat : /\ m = Max({toCopy, 1}) /\ m >= 1 /\ m <= left /\ g + m <= n + 1
                         /\ toCopy > 0 => m = toCopy /\ g + m <= n /\ (g + m < n => m = left)
                         /\ ~(toCopy > 0) => m = 1 /\ g = n
    <3>0. 1 \in Int
      OBVIOUS
    <3>1. Max({toCopy, 1}) = (IF toCopy <= 1 THEN 1 ELSE toCopy)
      BY Zenon, <3>0, MinMax
    <3> QED BY <2>2, <2>5, <3>1
  <2>9. got = SubSeq(t, 1, g + m) /\ Len(got) = g + m
    <3>1. g + m \in 0..Len(t) /\ g \in Nat /\ g + m <= Len(t)
      BY <2>2, <2>3, <2>8
    <3>2. Len(SubSeq(t, 1, g + m)) = g + m
      BY <3>1, UpTo
    <3>3. CASE toCopy > 0
      <4>1. PICK q \in Int : q = i + toCopy /\ q <= hi - lo /\ q - i = m /\ i <= q
        BY <1>5, <2>5, <2>8, <3>3
      <4>2. PICK s \in Seq(Octet) : /\ s = SubSeq(buf, i + 1, q) /\ Len(s) = m
                                    /\ \A j \in 1..m : s[j] = input.stream[lo + i + j]
        <5>1. /\ SubSeq(buf, i + 1, q) \in Seq(Octet)
              /\ Len(SubSeq(buf, i + 1, q)) = (IF i <= q THEN q - i ELSE 0)
              /\ \A j \in 1..(q - i) : SubSeq(buf, i + 1, q)[j] = input.stream[lo + i + j]
          <6>1. i \in Nat /\ q \in Int /\ q <= hi - lo
            BY <1>5, <4>1
          <6> QED BY <1>1, <6>1, SliceType
        <5> QED BY Zenon, <4>1, <5>1
      <4>3. \A j \in 1..m : s[j] = t[g + j]
        <5>1. ASSUME NEW j \in 1..m PROVE s[j] = t[g + j]
          <6>0. /\ j \in 1..m /\ lo + i = o + l + g /\ g \in 0..n /\ g + m <= n + 1
                /\ lo \in Nat /\ i \in Nat
            BY Zenon, <1>5, <2>2, <2>8, <5>1
          <6>1. g + j \in 1..(n + 2) /\ lo + i + j = o + l + (g + j)
            BY ONLY <6>0, m \in Nat, n \in Nat, o \in Nat, l \in Nat
          <6>2. input.stream[o + l + (g + j)] = Body(op)[g + j]
            BY Zenon, <1>4, <6>1 DEF MessageAt
          <6>3. s[j] = input.stream[lo + i + j]
            BY Zenon, <4>2, <5>1
          <6> QED BY Zenon, <2>3, <6>1, <6>2, <6>3
        <5> QED BY <5>1
      <4>4. SubSeq(t, 1, g) \o s = SubSeq(t, 1, g + m)
        <5>1. g \in Nat /\ g + m <= Len(t) /\ Len(s) = m /\ GoesOn(t, g, s)
          BY Zenon, <3>1, <4>2, <4>3 DEF GoesOn
        <5> QED BY ONLY <5>1, MoreOf, t \in Seq(Octet), s \in Seq(Octet), m \in Nat
      <4> QED BY Zenon, <2>4, <2>6, <3>2, <3>3, <4>1, <4>2, <4>4
    <3>4. CASE ~(toCopy > 0)
      <4>1. m = 1 /\ g < Len(t) /\ g \in 0..(n + 1)
        BY <2>2, <2>3, <2>8, <3>4
      <4>2. b = t[g + 1]
        BY Zenon, <1>4, <2>2, <2>3, <4>1 DEF MessageAt
      <4>3. Append(SubSeq(t, 1, g), t[g + 1]) = SubSeq(t, 1, g + 1)
        BY <3>1, <4>1, OneMore
      <4> QED BY Zenon, <2>4, <2>6, <3>2, <3>4, <4>1, <4>2, <4>3
    <3> QED BY <3>3, <3>4
  <2>10. ~(toCopy > 0 /\ Len(got) > msgCap)
    <3>1. msgCap \in Int
      BY <1>1 DEF Typed, FixedTyped
    <3>2. Len(got) = g + m
      BY <2>9
    <3> QED BY <2>2, <2>8, <3>1, <3>2
  <2>11. /\ msgBuf' = {got} /\ i' = i + m
         /\ state' = (IF g + m >= n THEN "MSG_END" ELSE state)
         /\ UNCHANGED <<start, drop, argBuf, pa, err, calls>>
    BY Zenon, <2>7, <2>8, <2>9, <2>10
  <2>12. PICK w \in Nat : w = g + m
    BY <2>2, <2>8
  <2>13. \/ state' = "MSG_PAYLOAD" /\ w \in 0..n /\ n <= msgCap
         \/ state' = "MSG_END" /\ w \in n..(n + 1)
    BY <1>1, <2>2, <2>8, <2>11, <2>12
  <2>14. lo + i' = o + l + w /\ lo + i' <= hi
    <3>1. PICK s : s = i' /\ s = i + m
      BY Zenon, <2>11
    <3>2. /\ lo + i = o + l + g /\ g \in 0..n /\ m <= left /\ left = hi - lo - i /\ w = g + m
          /\ lo \in Nat /\ hi \in Nat /\ i \in Nat
      BY Zenon, <1>5, <2>2, <2>5, <2>8, <2>12
    <3>3. lo + s = o + l + w /\ lo + s <= hi
      BY ONLY <3>1, <3>2, m \in Nat, n \in Nat, o \in Nat, l \in Nat
    <3> QED BY Zenon, <3>1, <3>3
  <2>15. msgBuf' = {SubSeq(Body(op), 1, w)}
    BY Zenon, <2>3, <2>9, <2>11, <2>12
  <2>16. UNCHANGED <<drop, pa, calls, err>>
    BY <2>11
  <2>17. InCopy(k)'
    BY <1>1, <1>3, <1>4, <1>10, <2>13, <2>14, <2>15, <2>16, CopyKept
  <2> QED BY Zenon, <2>16, <2>17 DEF Within
<1> QED BY <1>2, <1>9, <1>10
LEMMA AllOf ==
  ASSUME NEW t \in Seq(Octet), NEW n, n = Len(t)
  PROVE  SubSeq(t, 1, n) = t
<1>1. n \in Nat /\ n \in 0..n
  BY LenProperties
<1>2. SubSeq(t, 1, n) \in Seq(Octet) /\ Len(SubSeq(t, 1, n)) = n /\ \A j \in 1..n : SubSeq(t, 1, n)[j] = t[j]
  BY <1>1, UpTo
<1> QED BY <1>2, SeqEqual

LEMMA MsgAsk ==
  ASSUME NEW op, op.kind \in Messages, Parsed(op)
  PROVE  Asks(op) = <<[kind |-> "processMsg",
                       args |-> [subject |-> pa.subject, reply |-> pa.reply, sid |-> pa.sid,
                                 msg |-> Body(op)]]>>
<1>1. Asks(op) = <<[kind |-> "processMsg",
            args |-> [subject |-> op.args[1], msg |-> op.payload \o <<CR, LF>>,
                      sid |-> IF op.kind = "MSG" THEN {op.args[2]} ELSE {},
                      reply |-> IF Len(op.args) = (IF op.kind = "MSG" THEN 4 ELSE 3)
                                THEN {op.args[Len(op.args) - 1]} ELSE {}]]>>
  BY Zenon DEF Asks, Messages
<1>2. /\ pa.subject = op.args[1]
      /\ pa.sid = (IF op.kind = "MSG" THEN {op.args[2]} ELSE {})
      /\ pa.reply = (IF Len(op.args) = (IF op.kind = "MSG" THEN 4 ELSE 3)
                     THEN {op.args[Len(op.args) - 1]} ELSE {})
      /\ Body(op) = op.payload \o <<CR, LF>>
  BY Zenon DEF Parsed, Body
<1>3. PICK s, x, r, m : /\ s = pa.subject /\ x = pa.sid /\ r = pa.reply /\ m = Body(op)
                        /\ s = op.args[1]
                        /\ x = (IF op.kind = "MSG" THEN {op.args[2]} ELSE {})
                        /\ r = (IF Len(op.args) = (IF op.kind = "MSG" THEN 4 ELSE 3)
                                THEN {op.args[Len(op.args) - 1]} ELSE {})
                        /\ m = op.payload \o <<CR, LF>>
  BY Zenon, <1>2
<1>4. Asks(op) = <<[kind |-> "processMsg", args |-> [subject |-> s, msg |-> m, sid |-> x, reply |-> r]]>>
  BY Zenon, <1>1, <1>3
<1>5. [subject |-> s, msg |-> m, sid |-> x, reply |-> r] = [subject |-> s, reply |-> r, sid |-> x, msg |-> m]
  OBVIOUS
<1> QED BY Zenon, <1>3, <1>4, <1>5

(* The message is complete.                                                     *)
LEMMA MessageDone ==
  ASSUME Typed, parsing, i < hi - lo, NEW k \in 1..Len(input.ops), Upto(k), Admitted(k), NEW op,
         op = input.ops[k], op.kind \in Messages, Parsed(op), Refusal(k) = "nil",
         NEW o \in Nat, NEW l \in Nat, NEW n \in Nat, MessageAt(op, k, o, l, n),
         lo + i = o + l + (n + 1), Same, Done, argBuf' = {}, msgBuf' = {}, UNCHANGED <<pa, err>>,
         err = "nil", Call("processMsg", [subject |-> pa.subject, reply |-> pa.reply,
                                         sid |-> pa.sid, msg |-> Body(op)])
  PROVE  Somewhere'
<1>1. PICK x : x = [kind |-> "processMsg",
                    args |-> [subject |-> pa.subject, reply |-> pa.reply, sid |-> pa.sid, msg |-> Body(op)]]
  OBVIOUS
<1>2. calls' = Append(calls, x) /\ Asks(input.ops[k]) = <<x>>
  BY Zenon, <1>1, MsgAsk DEF Call
<1>3. calls' = CalledTo(input.ops, k)
  BY <1>2, OneCall
<1>4. Rest /\ UNCHANGED <<authTimer, authSet>>
  BY DEF Same
<1>5. ~authTimer' /\ ~authSet'
  <2>1. input.ops[k].kind # "CONNECT"
    BY DEF Messages
  <2>2. ~authTimer /\ ~authSet
    BY <2>1, NoTimer
  <2> QED BY Zenon, <1>4, <2>2
<1>6. lo + i' = Offset(input.ops, k) /\ lo + i' <= hi
  <2>1. PICK s, y : s = i' /\ s = i + 1 /\ y = Offset(input.ops, k) /\ y = o + l + (n + 2)
    BY Zenon DEF Done, MessageAt
  <2>2. lo \in Nat /\ hi \in Nat /\ i \in Nat
    BY DEF MessageAt
  <2>3. lo + s = y /\ lo + s <= hi
    <3>1. i < hi - lo /\ lo + i = o + l + (n + 1)
      OBVIOUS
    <3> QED BY ONLY <2>1, <2>2, <3>1, o \in Nat, l \in Nat, n \in Nat
  <2> QED BY Zenon, <2>1, <2>3
<1>7. state' = "OP_START" /\ drop' = 0 /\ err' = "nil" /\ pa' = pa
  BY DEF Done
<1>8. At(k + 1)'
  BY <1>3, <1>4, <1>5, <1>6, <1>7, NextOperation
<1> QED BY <1>8, Found

LEMMA MsgEndKept ==
  ASSUME ParserInv, ~infoSplit, MsgEnd, Typed'
  PROVE  Somewhere'
<1>1. parsing /\ err = "nil" /\ i < hi - lo /\ Typed /\ state = "MSG_END" /\ Same /\ Rest
  BY DEF MsgEnd, In, ParserInv, Same
<1>2. PICK k \in 1..Len(input.ops) : Upto(k) /\ Admitted(k) /\ (InBody(k) \/ InCopy(k))
  BY <1>1, InMessage DEF MsgStates
<1>3. PICK op : op = input.ops[k] /\ op.kind \in Messages /\ Parsed(op) /\ Refusal(k) = "nil"
  BY Zenon, <1>2 DEF InBody, InCopy
<1>4. PICK o \in Nat, l \in Nat, n \in Nat : MessageAt(op, k, o, l, n)
  BY <1>1, <1>3, MessageIs
<1>5. o = Offset(input.ops, k - 1) /\ l = LineLen(op) /\ n = Len(op.payload)
      /\ lo \in Nat /\ hi \in Nat /\ i \in Nat /\ start \in Nat
  BY Zenon, <1>4 DEF MessageAt
<1>6. pa.size = n
  BY Zenon, <1>3, <1>5 DEF Parsed
<1>7. UNCHANGED <<input, lo, hi, parsing, msgCap, authTimer, authSet>>
  BY <1>1 DEF Same, Rest
<1>8. PICK t \in Seq(Octet) : t = Body(op) /\ Len(t) = n + 2 /\ t[n + 1] = CR /\ t[n + 2] = LF
  BY Zenon, <1>4 DEF MessageAt
<1>9. \A g \in 0..(n + 1) : lo + i = o + l + g => b = t[g + 1]
  BY Zenon, <1>4, <1>8 DEF MessageAt
<1>10. PICK msg : msg = IF msgBuf # {} THEN Append(The(msgBuf), b) ELSE SubSeq(buf, start + 1, i + 1)
  OBVIOUS
<1>11. SubSeq(t, 1, n + 2) = t
  BY <1>8, AllOf
<1>12. ASSUME lo + i = o + l + (n + 1), msg = t PROVE Somewhere'
  <2>1. n + 1 \in 0..(n + 1) /\ (n + 1) + 1 = n + 2
    OBVIOUS
  <2>2. b = LF
    BY Zenon, <1>8, <1>9, <1>12, <2>1
  <2>3. Len(msg) = pa.size + LenCRLF
    BY <1>6, <1>8, <1>12 DEF LenCRLF
  <2>4. /\ Call("processMsg", [subject |-> pa.subject, reply |-> pa.reply, sid |-> pa.sid, msg |-> Body(op)])
        /\ argBuf' = {} /\ msgBuf' = {} /\ Done /\ UNCHANGED <<pa, err>>
    BY Zenon, <1>8, <1>10, <1>12, <2>2, <2>3 DEF MsgEnd
  <2> QED BY <1>1, <1>2, <1>3, <1>4, <1>12, <2>4, MessageDone
<1>13. CASE InBody(k)
  <2>1. msgBuf = {} /\ lo + start = o + l /\ i - start = n + 1
    <3>1. state # "MSG_PAYLOAD"
      BY <1>1
    <3> QED BY Zenon, <1>3, <1>5, <1>13, <3>1 DEF InBody
  <2>2. lo + i = o + l + (n + 1) /\ start <= i + 1 /\ i + 1 <= hi - lo /\ (i + 1) - start = n + 2 /\ i + 1 \in Nat
    <3>1. /\ i < hi - lo /\ lo \in Nat /\ hi \in Nat /\ i \in Nat /\ start \in Nat
          /\ lo + start = o + l /\ i - start = n + 1
      BY Zenon, <1>1, <1>5, <2>1
    <3> QED BY ONLY <3>1, n \in Nat, o \in Nat, l \in Nat
  <2>3. \A j \in 1..(n + 2) : input.stream[lo + start + j] = t[j]
    BY Zenon, <1>4, <1>8, <2>1 DEF MessageAt
  <2>4. SubSeq(buf, start + 1, i + 1) = SubSeq(t, 1, n + 2)
    <3>1. PICK q \in Nat, r \in Nat : q = i + 1 /\ r = n + 2 /\ q - start = r /\ start <= q /\ q <= hi - lo /\ r <= Len(t)
      BY <1>8, <2>2
    <3>2. \A j \in 1..(q - start) : input.stream[lo + start + j] = t[j]
      BY Zenon, <2>3, <3>1
    <3>3. q - start <= Len(t) /\ start \in Nat
      BY <1>5, <3>1
    <3>4. SubSeq(buf, start + 1, q) = SubSeq(t, 1, q - start)
      BY <1>1, <3>1, <3>2, <3>3, SliceIs
    <3> QED BY Zenon, <3>1, <3>4
  <2> QED BY Zenon, <1>10, <1>11, <1>12, <2>1, <2>2, <2>4
<1>14. CASE InCopy(k)
  <2>1. PICK g : CopyAt(op, o, l, n, g)
    BY <1>1, <1>3, <1>4, <1>14, CopyIs
  <2>2. /\ msgBuf = {SubSeq(t, 1, g)} /\ lo + i = o + l + g /\ g \in n..(n + 1)
    <3>1. state # "MSG_PAYLOAD"
      BY <1>1
    <3> QED BY Zenon, <1>8, <2>1, <3>1 DEF CopyAt
  <2>3. g \in Nat /\ g < Len(t) /\ g \in 0..(n + 1)
    BY <1>8, <2>2
  <2>4. b = t[g + 1] /\ Append(SubSeq(t, 1, g), b) = SubSeq(t, 1, g + 1)
    <3>1. b = t[g + 1]
      BY Zenon, <1>9, <2>2, <2>3
    <3>2. Append(SubSeq(t, 1, g), t[g + 1]) = SubSeq(t, 1, g + 1)
      BY <2>3, OneMore
    <3> QED BY Zenon, <3>1, <3>2
  <2>5. CASE g = n + 1
    <3>1. msg = SubSeq(t, 1, g + 1)
      <4>1. msgBuf # {} /\ The(msgBuf) = SubSeq(t, 1, g)
        BY <2>2, TheOnly
      <4> QED BY Zenon, <1>10, <2>4, <4>1
    <3>2. g + 1 = n + 2
      BY <2>5
    <3> QED BY Zenon, <1>11, <1>12, <2>2, <2>5, <3>1, <3>2
  <2>6. CASE g = n
    <3>1. b # LF
      <4>1. b = CR
        BY Zenon, <1>8, <2>4, <2>6
      <4> QED BY <4>1 DEF CR, LF
    <3>2. /\ msgBuf' = {Append(s, b) : s \in msgBuf} /\ i' = i + 1
          /\ UNCHANGED <<state, start, drop, argBuf, pa, err, calls>>
      BY Zenon, <3>1 DEF MsgEnd
    <3>3. PICK w \in Nat : w = n + 1
      OBVIOUS
    <3>4. msgBuf' = {SubSeq(Body(op), 1, w)}
      <4>1. PICK s, r : s = SubSeq(t, 1, g) /\ r = Append(s, b) /\ r = SubSeq(t, 1, w)
        BY Zenon, <2>4, <2>6, <3>3
      <4>2. msgBuf' = {Append(y, b) : y \in {s}}
        BY Zenon, <2>2, <3>2, <4>1
      <4>3. msgBuf' = {r}
        BY <4>1, <4>2
      <4> QED BY Zenon, <1>8, <4>1, <4>3
    <3>5. lo + i' = o + l + w /\ lo + i' <= hi
      <4>1. PICK s : s = i' /\ s = i + 1
        BY Zenon, <3>2
      <4>2. lo + i = o + l + n /\ i < hi - lo /\ lo \in Nat /\ hi \in Nat /\ i \in Nat
        BY Zenon, <1>1, <1>5, <2>2, <2>6
      <4>3. lo + s = o + l + w /\ lo + s <= hi
        BY ONLY <3>3, <4>1, <4>2, n \in Nat, o \in Nat, l \in Nat
      <4> QED BY Zenon, <4>1, <4>3
    <3>6. state' = "MSG_END" /\ w \in n..(n + 1)
      BY <1>1, <3>2, <3>3
    <3>7. UNCHANGED <<drop, pa, calls, err>>
      BY <3>2
    <3>8. InCopy(k)'
      BY <1>1, <1>3, <1>4, <1>14, <3>4, <3>5, <3>6, <3>7, CopyKept
    <3>9. Within(k)'
      BY Zenon, <3>8 DEF Within
    <3>10. parsing' => (authSet' <=> authTimer)
      BY <1>2, <1>7 DEF Upto
    <3>11. UNCHANGED <<input, calls, authTimer>> /\ err' = "nil" /\ (input.typ = "CLIENT" => pa'.sid = pa.sid)
      BY <1>1, <1>7, <3>7
    <3>12. At(k)'
      BY Zenon, <1>2, <3>9, <3>10, <3>11, StillWithin
    <3> QED BY <3>12, Found
  <2> QED BY <2>2, <2>5, <2>6
<1> QED BY <1>2, <1>13, <1>14
-----------------------------------------------------------------------------
(* Between bytes: a read begins, or ends.                                       *)
LEMMA SamePlace ==
  ASSUME NEW k, UNCHANGED <<input, state, drop, argBuf, msgBuf>>, Position' = Position,
         Position <= hi => Position' <= hi'
  PROVE  /\ AtStart(k) => AtStart(k)'
         /\ InHead(k) => InHead(k)'
         /\ InBare(k) => InBare(k)'
         /\ InArg(k) /\ (argBuf = {} => ~parsing) => InArg(k)'
         /\ InCopy(k) /\ UNCHANGED <<pa, msgCap>> => InCopy(k)'
<1>1. Into(k)' = Into(k)
  BY Zenon DEF Into
<1>2. AtStart(k) => AtStart(k)'
  BY Zenon, <1>1 DEF AtStart
<1>3. InHead(k) => InHead(k)'
  BY Zenon, <1>1 DEF InHead
<1>4. InBare(k) => InBare(k)'
  BY Zenon, <1>1 DEF InBare
<1>5. InArg(k) /\ (argBuf = {} => ~parsing) => InArg(k)'
  BY Zenon, <1>1 DEF InArg
<1>6. ASSUME InCopy(k), UNCHANGED <<pa, msgCap>> PROVE InCopy(k)'
  <2>1. PICK op : op = input.ops[k] /\ op.kind \in Messages /\ Parsed(op) /\ Refusal(k) = "nil"
    BY Zenon, <1>6 DEF InCopy
  <2>2. pa' = pa /\ msgCap' = msgCap /\ input' = input
    BY <1>6
  <2>3. Parsed(op)' /\ Refusal(k)' = "nil" /\ input'.ops[k] = op
    <3>1. Parsed(op)'
      BY Zenon, <2>1, <2>2 DEF Parsed
    <3> QED BY Zenon, <2>1, <2>2, <3>1, RefusalKept
  <2>4. /\ drop' = 0 /\ ~pa'.inBuf /\ Position' <= hi'
        /\ msgBuf' = {SubSeq(Body(op), 1, Into(k)' - LineLen(op))}
        /\ \/ state' = "MSG_PAYLOAD" /\ Into(k)' - LineLen(op) \in 0..Len(op.payload) /\ Len(op.payload) <= msgCap'
           \/ state' = "MSG_END" /\ Into(k)' - LineLen(op) \in Len(op.payload)..(Len(op.payload) + 1)
    BY Zenon, <1>1, <1>6, <2>1, <2>2 DEF InCopy
  <2> QED BY Zenon, <2>1, <2>3, <2>4 DEF InCopy
<1> QED BY <1>2, <1>3, <1>4, <1>5, <1>6

LEMMA ReadKept ==
  ASSUME ParserInv, ~infoSplit, NEW n \in 1..(Len(input.stream) - hi), Read(n), Typed'
  PROVE  Somewhere'
<1>1. /\ ~parsing /\ err = "nil" /\ lo' = hi /\ hi' = hi + n /\ i' = 0 /\ parsing' /\ authSet' = authTimer
      /\ UNCHANGED <<input, state, start, drop, argBuf, msgBuf, msgCap, authTimer, closed, err, infoSplit, calls>>
      /\ Typed
  BY DEF Read, ParserInv
<1>2. pa' = IF pa.inBuf
            THEN [pa EXCEPT !.subject = Spoilt, !.reply = {Spoilt : r \in @},
                            !.sid = {Spoilt : s \in @}, !.szb = Spoilt]
            ELSE pa
  BY DEF Read
<1>3. PICK k \in 1..(Len(input.ops) + 1) : Upto(k) /\ (AtStart(k) \/ (Admitted(k) /\ Within(k)))
  BY Zenon, <1>1 DEF ParserInv, Somewhere, At
<1>4. Position = hi /\ Position' = hi
  <2>1. Position = hi
    BY <1>1 DEF Position
  <2>2. Position' = hi + 0
    BY Zenon, <1>1 DEF Position
  <2>3. hi + 0 = hi
    BY <1>1 DEF Typed, FixedTyped
  <2> QED BY Zenon, <2>1, <2>2, <2>3
<1>5. Position <= hi => Position' <= hi'
  <2>1. PICK m \in Nat : m = Len(input.stream)
    BY <1>1, StreamKnown
  <2>2. hi \in Nat /\ n \in 1..(m - hi) /\ hi' = hi + n
    BY Zenon, <1>1, <2>1 DEF Typed, FixedTyped
  <2>3. hi <= hi'
    BY <2>1, <2>2
  <2> QED BY Zenon, <1>4, <2>3
<1>6. /\ AtStart(k) => AtStart(k)'
      /\ InHead(k) => InHead(k)'
      /\ InBare(k) => InBare(k)'
      /\ InArg(k) => InArg(k)'
      /\ InCopy(k) /\ UNCHANGED <<pa, msgCap>> => InCopy(k)'
  <2>1. UNCHANGED <<input, state, drop, argBuf, msgBuf>> /\ Position' = Position
    BY Zenon, <1>1, <1>4
  <2>2. /\ AtStart(k) => AtStart(k)'
        /\ InHead(k) => InHead(k)'
        /\ InBare(k) => InBare(k)'
        /\ InArg(k) /\ (argBuf = {} => ~parsing) => InArg(k)'
        /\ InCopy(k) /\ UNCHANGED <<pa, msgCap>> => InCopy(k)'
    BY Zenon, <1>5, <2>1, SamePlace
  <2> QED BY Zenon, <1>1, <2>2
<1>7. Within(k) => Within(k)'
  <2>1. ~InBody(k)
    BY <1>1 DEF InBody
  <2>2. InCopy(k) => UNCHANGED <<pa, msgCap>>
    <3>1. InCopy(k) => ~pa.inBuf
      BY Zenon DEF InCopy
    <3> QED BY <1>1, <1>2, <3>1
  <2> QED BY Zenon, <1>6, <2>1, <2>2 DEF Within
<1>8. input.typ = "CLIENT" => pa'.sid = pa.sid
  <2>1. input.typ = "CLIENT" => pa.sid = {}
    BY <1>3 DEF Upto
  <2>2. pa \in PaType
    BY <1>1 DEF Typed, MovingTyped
  <2>3. CASE pa.inBuf
    <3>1. PICK x, y : x = {Spoilt : r \in pa.reply} /\ y = {Spoilt : s \in pa.sid}
      OBVIOUS
    <3>2. pa' = [pa EXCEPT !.subject = Spoilt, !.reply = x, !.sid = y, !.szb = Spoilt]
      BY <1>2, <2>3, <3>1
    <3>3. pa'.sid = y
      BY <2>2, <3>2 DEF PaType
    <3>4. pa.sid = {} => y = {}
      BY <3>1
    <3> QED BY Zenon, <2>1, <3>3, <3>4
  <2>4. CASE ~pa.inBuf
    BY <1>2, <2>4
  <2> QED BY <2>3, <2>4
<1>9. At(k)'
  <2>1. parsing' => (authSet' <=> authTimer)
    BY <1>1
  <2>2. UNCHANGED <<input, calls, authTimer>> /\ err' = "nil"
    BY <1>1
  <2>3. Upto(k)'
    BY Zenon, <1>3, <1>8, <2>1, <2>2, UptoKept
  <2>4. AtStart(k) => At(k)'
    BY Zenon, <1>6, <2>2, <2>3 DEF At
  <2>5. Admitted(k) /\ Within(k) => At(k)'
    BY Zenon, <1>3, <1>7, <1>8, <2>1, <2>2, StillWithin
  <2> QED BY <1>3, <2>4, <2>5
<1> QED BY <1>9, Found
(* A read that ends within an argument keeps it.                                *)
LEMMA ArgSplit ==
  ASSUME Typed, parsing, i >= hi - lo, NEW k \in 1..Len(input.ops), InArg(k), state # "INFO_ARG",
         argBuf = {}, SplitArgument, UNCHANGED <<input, state, drop, msgBuf>>,
         Position' = Position, hi' = hi
  PROVE  InArg(k)'
<1>1. PICK op : op = input.ops[k]
  OBVIOUS
<1>2. PICK n, c, h, t, e, l, z : Sizes(op, n, c, h, t, e, l, z)
  BY <1>1, SizesAre
<1>3. op.kind \notin Bare /\ op.kind \in DOMAIN Keyword
  BY <1>1, StreamKnown DEF InArg, OpKnown, Clean
<1>4. h \in Nat /\ t \in Nat /\ e \in 1..2
  BY <1>2, Numbers
<1>5. h = HeadLen(op) /\ t = Len(Text(op)) /\ e = Len(op.eol)
  BY Zenon, <1>2, SizesOf
<1>6. PICK o \in Nat : o = Offset(input.ops, k - 1)
  BY <1>1, StreamKnown DEF OpKnown
<1>7. PICK g, m, y : g = m - h /\ m = Into(k) /\ y = t + e - 1 /\ g \in 1..y
  <2>1. PICK m, y : m = Into(k) /\ y = t + e - 1
    OBVIOUS
  <2>2. Into(k) - HeadLen(op) \in 1..(Len(Text(op)) + Len(op.eol) - 1)
    BY <1>1 DEF InArg
  <2>3. m - h \in 1..y
    BY Zenon, <1>5, <2>1, <2>2
  <2> QED BY <2>1, <2>3
<1>8. /\ state = ArgState[op.kind] /\ msgBuf = {} /\ Position <= hi
      /\ drop = (IF g > t THEN 1 ELSE 0) /\ lo + start = o + h
  <2>1. argBuf # {SubSeq(Text(op), 1, g - drop)}
    OBVIOUS
  <2> QED BY Zenon, <1>1, <1>5, <1>6, <1>7, <2>1 DEF InArg
<1>9. lo \in Nat /\ hi \in Nat /\ i \in Nat /\ start \in Nat /\ drop \in {0, 1} /\ lo <= hi
  BY DEF Typed, FixedTyped, MovingTyped
<1>10. PICK p : p = lo + i /\ p = Position /\ m = p - o
  <2>1. PICK p : p = lo + i
    OBVIOUS
  <2>2. p = Position
    BY <2>1 DEF Position
  <2>3. m = p - o
    BY Zenon, <1>6, <1>7, <2>2 DEF Into
  <2> QED BY <2>1, <2>2, <2>3
<1>11. PICK q \in Nat : q = hi - lo - drop /\ start <= q /\ q <= hi - lo /\ q - start = g - drop /\ g - drop <= t
  <2>1. p <= hi
    BY Zenon, <1>8, <1>10
  <2>2. p = lo + i /\ m = p - o /\ g = m - h /\ y = t + e - 1 /\ g \in 1..y /\ lo + start = o + h
        /\ drop = (IF g > t THEN 1 ELSE 0)
    BY Zenon, <1>7, <1>8, <1>10
  <2>3. i >= hi - lo
    OBVIOUS
  <2>4. m = hi - o
    BY ONLY <1>6, <1>9, <2>1, <2>2, <2>3
  <2>5. hi - lo - start = g
    BY ONLY <1>4, <1>9, o \in Nat, <2>2, <2>4
  <2>6. g \in Nat /\ g >= 1 /\ g <= t + 1
    BY ONLY <1>4, <2>2
  <2>7. drop = (IF g > t THEN 1 ELSE 0)
    BY Zenon, <2>2
  <2>8. drop <= g /\ g - drop <= t
    BY ONLY <1>4, <2>6, <2>7
  <2>9. PICK q : q = hi - lo - drop
    OBVIOUS
  <2>10. q \in Nat /\ start <= q /\ q <= hi - lo /\ q - start = g - drop
    BY ONLY <1>9, <2>5, <2>6, <2>8, <2>9
  <2> QED BY Zenon, <2>8, <2>9, <2>10
<1>12. PICK x \in Seq(Octet) : x = Text(op) /\ Len(x) = t
  BY <1>1, <1>5, StreamKnown DEF OpKnown
<1>13. \A j \in 1..(q - start) : input.stream[lo + start + j] = x[j]
  <2>1. Written(input.stream, o, op)
    BY <1>1, <1>6, StreamKnown DEF OpKnown
  <2>2. \A j \in 1..t : input.stream[o + h + j] = x[j]
    BY Zenon, <1>5, <1>12, <2>1 DEF Written
  <2>3. \A j \in 1..(q - start) : j \in 1..t
    BY ONLY <1>4, <1>9, <1>11, q \in Nat
  <2> QED BY Zenon, <1>8, <2>2, <2>3
<1>14. SubSeq(buf, start + 1, q) = SubSeq(x, 1, q - start)
  <2>1. start \in Nat /\ start <= q /\ q <= hi - lo /\ q - start <= Len(x)
    BY Zenon, <1>9, <1>11, <1>12
  <2> QED BY <1>13, <2>1, SliceIs
<1>15. argBuf' = {SubSeq(Text(op), 1, g - drop)}
  BY Zenon, <1>11, <1>12, <1>14 DEF SplitArgument
<1>16. op.kind # "INFO"
  <2>1. state # "INFO_ARG"
    OBVIOUS
  <2> QED BY <1>3, <1>8, <2>1, KindIs
<1>17. Into(k)' = Into(k)
  BY Zenon DEF Into
<1>18. Into(k)' - HeadLen(op) = g /\ g \in 1..(Len(Text(op)) + Len(op.eol) - 1)
  BY Zenon, <1>5, <1>7, <1>17
<1>19. /\ op.kind \notin Bare /\ Position' <= hi' /\ state' = ArgState[op.kind] /\ msgBuf' = {}
       /\ drop' = (IF g > Len(Text(op)) THEN 1 ELSE 0) /\ argBuf' = {SubSeq(Text(op), 1, g - drop')}
       /\ input'.ops[k] = op
  BY Zenon, <1>1, <1>3, <1>5, <1>8, <1>15
<1> QED BY Zenon, <1>16, <1>18, <1>19 DEF InArg
(* A read that ends within a message keeps it.                                  *)
LEMMA BodySplit ==
  ASSUME Typed, parsing, i >= hi - lo, NEW k \in 1..Len(input.ops), InBody(k), SplitMessage,
         UNCHANGED <<input, hi, state, drop>>, Position' = hi
  PROVE  InCopy(k)' /\ pa'.sid = pa.sid
<1>1. PICK op : op = input.ops[k]
  OBVIOUS
<1>2. /\ op.kind \in Messages /\ Parsed(op) /\ drop = 0 /\ Refusal(k) = "nil"
      /\ (argBuf # {} => ~pa.inBuf)
      /\ lo + start = Offset(input.ops, k - 1) + LineLen(op) /\ start <= hi - lo
      /\ \/ state = "MSG_PAYLOAD" /\ i - start \in -1..Len(op.payload)
         \/ state = "MSG_END" /\ i - start = Len(op.payload) + 1 /\ i <= hi - lo
  BY Zenon, <1>1 DEF InBody
<1>3. OpKnown(k) /\ Clean(op) /\ Lengths(op)
  BY Zenon, <1>1, StreamKnown DEF OpKnown
<1>4. PICK o \in Nat, l \in Nat, n \in Nat : o = Offset(input.ops, k - 1) /\ l = LineLen(op) /\ n = Len(op.payload)
  BY <1>3, EndsAre DEF OpKnown, Lengths
<1>5. lo \in Nat /\ hi \in Nat /\ i \in Nat /\ start \in Nat /\ pa \in PaType
  BY DEF Typed, FixedTyped, MovingTyped
<1>6. lo + start = o + l /\ start <= hi - lo
  BY Zenon, <1>2, <1>4
<1>7. \/ state = "MSG_PAYLOAD" /\ i - start \in -1..n
      \/ state = "MSG_END" /\ i - start = n + 1 /\ i <= hi - lo
  BY Zenon, <1>2, <1>4
<1>8. PICK q \in Nat, g \in Nat : q = hi - lo /\ g = q - start /\ start <= q /\ o + l + g = hi
  BY <1>5, <1>6
<1>9. \/ state = "MSG_PAYLOAD" /\ g \in 0..n
      \/ state = "MSG_END" /\ g \in n..(n + 1)
  <2>1. i >= q
    BY Zenon, <1>8
  <2>2. i - start \in -1..n => g \in 0..n
    BY <1>5, <1>8, <2>1
  <2>3. i - start = n + 1 /\ i <= hi - lo => g \in n..(n + 1)
    BY <1>5, <1>8, <2>1
  <2> QED BY Zenon, <1>7, <2>2, <2>3
<1>10. PICK t \in Seq(Octet) : /\ t = Body(op) /\ Len(t) = n + 2
                               /\ \A j \in 1..(n + 2) : input.stream[o + l + j] = t[j]
  <2>1. Body(op) \in Seq(Octet) /\ Len(Body(op)) = n + 2
    BY Zenon, <1>3, <1>4, EndsAre
  <2>2. Written(input.stream, o, op)
    BY Zenon, <1>1, <1>3, <1>4 DEF OpKnown
  <2>3. \A j \in 1..(n + 2) : input.stream[o + l + j] = Body(op)[j]
    BY Zenon, <1>2, <1>4, <2>1, <2>2 DEF Written
  <2> QED BY Zenon, <2>1, <2>3
<1>11. SubSeq(buf, start + 1, q) = SubSeq(t, 1, g)
  <2>1. g <= n + 2 /\ \A j \in 1..g : j \in 1..(n + 2)
    BY <1>9
  <2>2. \A j \in 1..(q - start) : input.stream[lo + start + j] = t[j]
    BY Zenon, <1>6, <1>8, <1>10, <2>1
  <2>3. start \in Nat /\ start <= q /\ q <= hi - lo /\ q - start <= Len(t)
    <3>1. q <= q
      OBVIOUS
    <3> QED BY Zenon, <1>5, <1>8, <1>10, <2>1, <3>1
  <2>4. SubSeq(buf, start + 1, q) = SubSeq(t, 1, q - start)
    BY <2>2, <2>3, SliceIs
  <2> QED BY Zenon, <1>8, <2>4
<1>12. /\ msgBuf' = {SubSeq(buf, start + 1, hi - lo)}
       /\ pa' = pa \/ pa' = [pa EXCEPT !.inBuf = FALSE]
       /\ argBuf = {} => ~pa'.inBuf
       /\ msgCap' >= pa.size /\ msgCap' \in Int
  BY SplitMessageIs
<1>13. /\ pa'.subject = pa.subject /\ pa'.size = pa.size /\ pa'.sid = pa.sid /\ pa'.reply = pa.reply
       /\ ~pa'.inBuf
  <2>1. CASE pa' = pa
    BY <1>2, <1>12, <2>1
  <2>2. CASE pa' = [pa EXCEPT !.inBuf = FALSE]
    BY <1>5, <2>2 DEF PaType
  <2> QED BY <1>12, <2>1, <2>2
<1>14. msgBuf' = {SubSeq(Body(op), 1, g)}
  BY Zenon, <1>8, <1>10, <1>11, <1>12
<1>15. Into(k)' - LineLen(op) = g
  <2>1. PICK x, y : x = Position' /\ x = hi /\ y = x - o /\ y = Into(k)'
    <3>1. Into(k)' = Position' - Offset(input.ops, k - 1)
      BY Zenon DEF Into
    <3>2. Position' = hi
      OBVIOUS
    <3> QED BY Zenon, <1>4, <3>1, <3>2
  <2>2. y - l = g
    <3>1. x = hi /\ y = x - o
      BY Zenon, <2>1
    <3> QED BY ONLY <1>5, <1>8, <3>1, o \in Nat, l \in Nat
  <2> QED BY Zenon, <1>4, <2>1, <2>2
<1>16. n <= msgCap'
  <2>1. pa.size = n
    BY Zenon, <1>2, <1>4 DEF Parsed
  <2> QED BY <1>12, <2>1
<1>17. Parsed(op)' /\ Refusal(k)' = "nil" /\ input'.ops[k] = op
  <2>1. Parsed(op)'
    BY Zenon, <1>2, <1>13 DEF Parsed
  <2>2. Refusal(k)' = "nil" /\ input'.ops[k] = op
    BY <1>1, <1>2, RefusalKept
  <2> QED BY Zenon, <2>1, <2>2
<1>18. Position' <= hi' /\ drop' = 0
  <2>1. hi' = hi /\ Position' = hi /\ drop' = drop
    OBVIOUS
  <2>2. hi <= hi
    BY <1>5
  <2> QED BY Zenon, <1>2, <2>1, <2>2
<1>19. \/ state' = "MSG_PAYLOAD" /\ g \in 0..Len(op.payload) /\ Len(op.payload) <= msgCap'
       \/ state' = "MSG_END" /\ g \in Len(op.payload)..(Len(op.payload) + 1)
  BY Zenon, <1>4, <1>9, <1>16
<1>20. InCopy(k)'
  BY Zenon, <1>2, <1>13, <1>14, <1>15, <1>17, <1>18, <1>19 DEF InCopy
<1> QED BY <1>13, <1>20

LEMMA EndOfReadKept ==
  ASSUME ParserInv, ~infoSplit, EndOfRead, Typed'
  PROVE  Somewhere'
<1>1. /\ parsing /\ err = "nil" /\ i >= hi - lo /\ parsing' = FALSE
      /\ infoSplit' = (infoSplit \/ state = "INFO_ARG")
      /\ UNCHANGED <<input, reads, lo, hi, i, state, start, drop, authTimer, authSet, closed, err, calls>>
      /\ Typed
  BY DEF EndOfRead, ParserInv
<1>2. \/ SplitArgument
      \/ SplitMessage
      \/ /\ state \in SplitStates => argBuf # {}
         /\ state \in {"MSG_PAYLOAD", "MSG_END"} => msgBuf # {}
         /\ UNCHANGED <<argBuf, pa, msgBuf, msgCap>>
  BY Zenon DEF EndOfRead
<1>3. SUFFICES ASSUME state # "INFO_ARG"
               PROVE  Somewhere'
  BY Zenon, <1>1 DEF Somewhere
<1>4. PICK k \in 1..(Len(input.ops) + 1) : /\ Upto(k)
                                           /\ AtStart(k) \/ (Admitted(k) /\ k \in 1..Len(input.ops) /\ Within(k))
  BY <1>1, Here
<1>5. Position' = hi /\ hi' = hi
  BY Zenon, <1>1 DEF Position
<1>6. ASSUME Position <= hi PROVE Position' = Position
  <2>1. PICK p : p = lo + i /\ p = Position
    BY <1>1 DEF Position
  <2>2. p <= hi
    BY Zenon, <1>6, <2>1
  <2>3. lo \in Nat /\ hi \in Nat /\ i \in Nat
    BY <1>1 DEF Typed, FixedTyped, MovingTyped
  <2>4. p = hi
    BY ONLY <1>1, <2>1, <2>2, <2>3
  <2> QED BY Zenon, <1>5, <2>1, <2>4
<1>7. Position <= hi => Position' <= hi'
  BY Zenon, <1>5, <1>6
<1>8. UNCHANGED <<input, calls, authTimer, state, drop>> /\ err' = "nil" /\ ~parsing'
  BY <1>1
<1>9. ASSUME UNCHANGED <<argBuf, pa, msgBuf, msgCap>>, ~InBody(k), InArg(k) => argBuf # {} PROVE At(k)'
  <2>1. UNCHANGED <<input, state, drop, argBuf, msgBuf>>
    BY <1>8, <1>9
  <2>2. AtStart(k) \/ Within(k) => Position <= hi
    BY Zenon, <1>9 DEF AtStart, Within, InHead, InBare, InArg, InCopy
  <2>3. AtStart(k) \/ Within(k) => Position' = Position
    BY Zenon, <1>6, <2>2
  <2>4. AtStart(k) => AtStart(k)'
    BY Zenon, <1>7, <2>1, <2>3, SamePlace
  <2>5. Within(k) => Within(k)'
    <3>1. ASSUME Within(k)
          PROVE  /\ InHead(k) => InHead(k)'
                 /\ InBare(k) => InBare(k)'
                 /\ InArg(k) /\ (argBuf = {} => ~parsing) => InArg(k)'
                 /\ InCopy(k) /\ UNCHANGED <<pa, msgCap>> => InCopy(k)'
      BY Zenon, <1>7, <2>1, <2>3, <3>1, SamePlace
    <3>2. UNCHANGED <<pa, msgCap>>
      BY <1>9
    <3> QED BY Zenon, <1>9, <3>1, <3>2 DEF Within
  <2>6. input.typ = "CLIENT" => pa'.sid = pa.sid
    BY <1>9
  <2>7. AtStart(k) => At(k)'
    <3>1. Upto(k)'
      BY Zenon, <1>4, <1>8, <2>6, UptoKept
    <3> QED BY Zenon, <1>8, <2>4, <3>1 DEF At
  <2>8. Admitted(k) /\ Within(k) => At(k)'
    BY Zenon, <1>4, <1>8, <2>5, <2>6, StillWithin
  <2> QED BY Zenon, <1>4, <2>7, <2>8
<1>10. CASE AtStart(k)
  <2>1. state = "OP_START" /\ Position <= hi
    BY Zenon, <1>10 DEF AtStart
  <2>2. state \notin SplitStates /\ state \notin {"MSG_PAYLOAD", "MSG_END"}
    BY <2>1 DEF SplitStates
  <2>3. UNCHANGED <<argBuf, pa, msgBuf, msgCap>>
    BY Zenon, <1>2, <2>2 DEF SplitArgument, SplitMessage
  <2>4. At(k)'
    <3>2. AtStart(k)'
      <4>1. UNCHANGED <<input, state, drop, argBuf, msgBuf>> /\ Position' = Position
        BY Zenon, <1>6, <1>8, <2>1, <2>3
      <4> QED BY Zenon, <1>7, <1>10, <4>1, SamePlace
    <3>3. Upto(k)'
      <4>1. input.typ = "CLIENT" => pa'.sid = pa.sid
        BY <2>3
      <4> QED BY Zenon, <1>4, <1>8, <4>1, UptoKept
    <3> QED BY Zenon, <1>8, <3>2, <3>3 DEF At
  <2> QED BY <2>4, Found
<1>11. CASE Admitted(k) /\ k \in 1..Len(input.ops) /\ Within(k)
  <2>1. /\ state \in ArgStates => InArg(k)
        /\ state \in MsgStates => InBody(k) \/ InCopy(k)
        /\ InHead(k) \/ InBare(k) => state \notin ArgStates \union MsgStates
    BY <1>1, <1>11, WhichWithin
  <2>2. SplitStates \subseteq ArgStates /\ MsgStates = {"MSG_PAYLOAD", "MSG_END"}
        /\ \A st \in ArgStates : st \notin MsgStates
    BY Sorts DEF ArgStates, MsgStates
  <2>3. CASE InBody(k)
    <3>1. state \in MsgStates /\ msgBuf = {}
      BY Zenon, <2>2, <2>3 DEF InBody
    <3>2. SplitMessage
      BY Zenon, <1>2, <2>2, <3>1 DEF SplitArgument
    <3>3. UNCHANGED <<input, hi, state, drop>> /\ Position' = hi
      BY Zenon, <1>5, <1>8
    <3>4. InCopy(k)' /\ pa'.sid = pa.sid
      BY <1>1, <1>11, <2>3, <3>2, <3>3, BodySplit
    <3>5. Within(k)'
      BY Zenon, <3>4 DEF Within
    <3>6. At(k)'
      BY Zenon, <1>4, <1>8, <1>11, <3>4, <3>5, StillWithin
    <3> QED BY <3>6, Found
  <2>4. CASE InArg(k) /\ argBuf = {} /\ ~InBody(k)
    <3>1. state \in ArgStates
      <4>1. PICK op : op = input.ops[k] /\ op.kind \in DOMAIN Keyword
        BY <1>1, <1>11, StreamKnown DEF OpKnown, Clean
      <4>2. op.kind \notin Bare /\ state = ArgState[op.kind]
        BY Zenon, <2>4, <4>1 DEF InArg
      <4> QED BY <4>1, <4>2, ArgStatesAre
    <3>2. state \in SplitStates /\ state \notin {"MSG_PAYLOAD", "MSG_END"}
      BY <1>3, <2>2, <3>1 DEF ArgStates
    <3>3. SplitArgument
      BY Zenon, <1>2, <2>4, <3>2 DEF SplitMessage
    <3>4. UNCHANGED <<input, state, drop, msgBuf>> /\ pa' = pa
      BY <1>8, <3>3 DEF SplitArgument
    <3>5. Position' = Position /\ hi' = hi
      <4>1. Position <= hi
        BY Zenon, <2>4 DEF InArg
      <4> QED BY Zenon, <1>5, <1>6, <4>1
    <3>6. InArg(k)'
      BY <1>1, <1>3, <1>11, <2>4, <3>3, <3>4, <3>5, ArgSplit
    <3>7. Within(k)' /\ pa'.sid = pa.sid
      BY Zenon, <3>4, <3>6 DEF Within
    <3>8. At(k)'
      BY Zenon, <1>4, <1>8, <1>11, <3>7, StillWithin
    <3> QED BY <3>8, Found
  <2>5. CASE ~InBody(k) /\ (InArg(k) => argBuf # {})
    <3>1. ~SplitArgument
      <4>1. SplitArgument => state \in ArgStates /\ argBuf = {}
        BY Zenon, <2>2 DEF SplitArgument
      <4> QED BY Zenon, <2>1, <2>5, <4>1
    <3>2. ~SplitMessage
      <4>1. SplitMessage => state \in MsgStates /\ msgBuf = {}
        BY Zenon, <2>2 DEF SplitMessage
      <4>2. InCopy(k) => msgBuf # {}
        <5>1. \A y : {y} # {}
          OBVIOUS
        <5> QED BY Zenon, <5>1 DEF InCopy
      <4> QED BY Zenon, <2>1, <2>5, <4>1, <4>2
    <3>3. UNCHANGED <<argBuf, pa, msgBuf, msgCap>>
      BY Zenon, <1>2, <3>1, <3>2
    <3> QED BY Zenon, <1>9, <2>5, <3>3, Found
  <2> QED BY Zenon, <2>3, <2>4, <2>5
<1> QED BY <1>4, <1>10, <1>11
-----------------------------------------------------------------------------
(* The parser is always where the stream says (parse, parser.go:96-641): what  *)
(* has been called for is what the operations before it ask, and what is kept  *)
(* of the one under way is what has been read of it.                           *)
LEMMA InitHere ==
  ASSUME Init
  PROVE  Somewhere
<1>1. Typed
  BY InitTyped
<1>2. PICK ops, n : ops = input.ops /\ n = Len(ops) /\ n \in Nat
  BY <1>1, StreamKnown
<1>3. /\ hi = 0 /\ parsing = FALSE /\ state = "OP_START" /\ drop = 0 /\ argBuf = {} /\ msgBuf = {}
      /\ err = "nil" /\ calls = <<>> /\ pa.sid = {} /\ (authTimer <=> input.auth)
  BY DEF Init
<1>4. 1 - 1 = 0 /\ 1 \in 1..(n + 1) /\ 1..0 = {}
  BY <1>2
<1>5. Upto(1)
  <2>1. CalledTo(ops, 0) = <<>>
    BY <1>2, CalledSteps
  <2> QED BY Zenon, <1>2, <1>3, <1>4, <2>1 DEF Upto
<1>6. AtStart(1)
  <2>1. Position = 0 /\ Position <= hi
    BY <1>3 DEF Position
  <2>2. Offset(input.ops, 0) = 0 /\ 0 - 0 = 0
    BY <1>1, StreamKnown
  <2>3. Into(1) = 0
    BY Zenon, <1>4, <2>1, <2>2 DEF Into
  <2> QED BY Zenon, <1>3, <2>1, <2>3 DEF AtStart
<1>7. At(1)
  BY Zenon, <1>3, <1>5, <1>6 DEF At
<1> QED BY Zenon, <1>2, <1>4, <1>7 DEF Somewhere

LEMMA ByteKept ==
  ASSUME ParserInv, ~infoSplit, Byte, Typed'
  PROVE  Somewhere'
<1>1. CASE OpStart
  BY <1>1, OpStartKept
<1>2. CASE Letter
  BY <1>2, LetterKept
<1>3. CASE Space
  BY <1>3, SpaceKept
<1>4. CASE PubArg
  BY <1>4, PubArgKept
<1>5. CASE MsgArg
  BY <1>5, MsgArgKept
<1>6. CASE MsgPayload
  BY <1>6, MsgPayloadKept
<1>7. CASE MsgEnd
  BY <1>7, MsgEndKept
<1>8. CASE SubArg \/ UnsubArg \/ ConnectArg \/ MinusErrArg
  BY <1>8, LineArgKept
<1>9. CASE InfoArg
  BY <1>9, InfoArgKept
<1>10. CASE Ping \/ Pong \/ PlusOk
  <2>1. /\ <<"OP_PING", "processPing">> \in Handled /\ <<"OP_PONG", "processPong">> \in Handled
        /\ <<"OP_PLUS_OK", "nil">> \in Handled
    BY DEF Handled
  <2> QED BY <1>10, <2>1, LineKept DEF Ping, Pong, PlusOk
<1> QED BY Zenon, <1>1, <1>2, <1>3, <1>4, <1>5, <1>6, <1>7, <1>8, <1>9, <1>10 DEF Byte

LEMMA ByteRest ==
  ASSUME Byte
  PROVE  Rest /\ parsing /\ err = "nil"
BY Zenon DEF Byte, OpStart, Letter, Space, PubArg, MsgArg, MsgPayload, MsgEnd, SubArg, UnsubArg,
         ConnectArg, InfoArg, MinusErrArg, Ping, Pong, PlusOk, Line, ArgByte, Same, In

THEOREM ParserInvariance == Spec => []ParserInv
<1>1. Init => ParserInv
  BY InitTyped, InitHere DEF ParserInv
<1>2. ParserInv /\ [Next]_vars => ParserInv'
  <2> SUFFICES ASSUME ParserInv, [Next]_vars
               PROVE  ParserInv'
    OBVIOUS
  <2>1. Typed
    BY DEF ParserInv
  <2>2. ASSUME NEW n \in 1..(Len(input.stream) - hi), Read(n) PROVE ParserInv'
    <3>1. Typed' /\ infoSplit' = infoSplit
      BY <2>1, <2>2, ReadTyped DEF Read
    <3>2. ~infoSplit => Somewhere'
      BY <2>2, <3>1, ReadKept
    <3> QED BY Zenon, <3>1, <3>2 DEF ParserInv, Somewhere
  <2>3. CASE Byte
    <3>1. Typed' /\ infoSplit' = infoSplit
      BY <2>1, <2>3, ByteTyped, ByteRest DEF Rest
    <3>2. ~infoSplit => Somewhere'
      BY <2>3, <3>1, ByteKept
    <3> QED BY Zenon, <3>1, <3>2 DEF ParserInv, Somewhere
  <2>4. CASE EndOfRead
    <3>1. Typed' /\ (infoSplit => infoSplit')
      BY <2>1, <2>4, EndOfReadTyped DEF EndOfRead
    <3>2. ~infoSplit => Somewhere'
      BY <2>4, <3>1, EndOfReadKept
    <3> QED BY Zenon, <3>1, <3>2 DEF ParserInv, Somewhere
  <2>5. CASE UNCHANGED vars
    <3>1. UNCHANGED <<input, reads, lo, hi, parsing, i, state, start, drop, argBuf, msgBuf, pa,
                      msgCap, authTimer, authSet, closed, err, infoSplit, calls>>
      BY <2>5 DEF vars
    <3>2. Typed'
      BY Zenon, <2>1, <3>1 DEF Typed, FixedTyped, MovingTyped
    <3>3. Somewhere'
      <4>1. ASSUME NEW k \in 1..(Len(input.ops) + 1), At(k) PROVE At(k)'
        <5>1. Refusal(k)' = Refusal(k) /\ Position' = Position /\ Into(k)' = Into(k)
          BY Zenon, <3>1, RefusalKept DEF Position, Into
        <5>2. Upto(k)'
          <6>1. Upto(k) /\ (parsing' => (authSet' <=> authTimer))
            BY Zenon, <3>1, <4>1 DEF At, Upto
          <6> QED BY <3>1, <6>1, UptoKept
        <5>3. AtStart(k) => AtStart(k)'
          BY Zenon, <3>1, <5>1 DEF AtStart
        <5>4. Admitted(k) /\ Within(k) => Admitted(k)' /\ Within(k)'
          <6>1. Parsed(input.ops[k])' <=> Parsed(input.ops[k])
            BY Zenon, <3>1 DEF Parsed
          <6> QED BY Zenon, <3>1, <5>1, <6>1 DEF Admitted, Within, InHead, InBare, InArg, InBody, InCopy
        <5> QED BY Zenon, <3>1, <4>1, <5>1, <5>2, <5>3, <5>4 DEF At
      <4> QED BY Zenon, <3>1, <4>1 DEF ParserInv, Somewhere
    <3> QED BY <3>2, <3>3 DEF ParserInv
  <2> QED BY <2>2, <2>3, <2>4, <2>5 DEF Next
<1> QED BY <1>1, <1>2, PTL DEF Spec
-----------------------------------------------------------------------------
(* What follows of what the stream asks.                                        *)
Allowed(k) == \A j \in 1..k : Refusal(j) = "nil"

LEMMA HeardTo ==
  ASSUME NEW N \in Nat
  PROVE  \E m \in 0..N : {k \in 1..N : Allowed(k)} = 1..m
<1> DEFINE H(n) == {k \in 1..n : Allowed(k)}
           S == {n \in 0..N : \E m \in 0..n : H(n) = 1..m}
<1>1. 0 \in S
  <2>1. H(0) = 1..0 /\ 0 \in 0..0
    OBVIOUS
  <2> QED BY <2>1
<1>2. ASSUME NEW n \in 1..N, n - 1 \in S PROVE n \in S
  <2>1. PICK m \in 0..(n - 1) : H(n - 1) = 1..m
    BY <1>2
  <2>2. CASE Allowed(n)
    <3>1. H(n) = 1..n
      <4>1. \A k \in 1..n : Allowed(k)
        BY <2>2 DEF Allowed
      <4> QED BY <4>1
    <3> QED BY <3>1
  <2>3. CASE ~Allowed(n)
    <3>1. H(n) = H(n - 1)
      BY <2>3
    <3> QED BY <2>1, <3>1
  <2> QED BY <2>2, <2>3
<1>3. 0..N \subseteq S
  <2> HIDE DEF S
  <2> QED BY <1>1, <1>2, Induct
<1> QED BY <1>3

Hears(m, N) ==
  /\ N \in Nat /\ N = Len(input.ops) /\ DOMAIN input.ops = 1..N /\ m \in 0..N
  /\ Heard = 1..m /\ Cardinality(Heard) = m /\ Asked = CalledTo(input.ops, m)
  /\ Allowed(m) /\ (m < N => Refusal(m + 1) # "nil")

LEMMA HeardIs ==
  ASSUME Typed
  PROVE  \E m, N : Hears(m, N)
<1>1. PICK N \in Nat : N = Len(input.ops) /\ DOMAIN input.ops = 1..N
  BY StreamKnown
<1>2. PICK m \in 0..N : {k \in 1..N : Allowed(k)} = 1..m
  BY HeardTo
<1>3. Heard = 1..m
  BY Zenon, <1>1, <1>2 DEF Heard, Allowed
<1>4. Cardinality(1..m) = m
  BY FS_Interval
<1>5. Asked = CalledTo(input.ops, m)
  BY Zenon, <1>3, <1>4 DEF Asked, CalledTo
<1>6. Allowed(m)
  <2>1. CASE m = 0
    BY <2>1 DEF Allowed
  <2>2. CASE m # 0
    <3>1. m \in 1..m
      BY <2>2
    <3> QED BY <1>2, <3>1
  <2> QED BY <2>1, <2>2
<1>7. ASSUME m < N, Refusal(m + 1) = "nil" PROVE FALSE
  <2>1. m + 1 \in 1..N /\ m + 1 \notin 1..m /\ \A j \in 1..(m + 1) : j = m + 1 \/ j \in 1..m
    BY <1>7
  <2>2. Allowed(m + 1)
    BY Zenon, <1>6, <1>7, <2>1 DEF Allowed
  <2> QED BY <1>2, <2>1, <2>2
<1> QED BY Zenon, <1>1, <1>3, <1>4, <1>5, <1>6, <1>7 DEF Hears

(* Where the parser is, no more has been called for than is allowed.            *)
LEMMA CalledFor ==
  ASSUME NEW m, NEW N, Hears(m, N), NEW k, Upto(k)
  PROVE  /\ k \in 1..(N + 1) /\ k - 1 \in 0..m /\ calls = CalledTo(input.ops, k - 1)
         /\ k <= N /\ Refusal(k) # "nil" => k - 1 = m
<1>1. /\ k \in 1..(N + 1) /\ calls = CalledTo(input.ops, k - 1)
      /\ \A j \in 1..(k - 1) : Refusal(j) = "nil"
  BY Zenon DEF Hears, Upto
<1>2. N \in Nat /\ m \in 0..N /\ (m < N => Refusal(m + 1) # "nil") /\ \A j \in 1..m : Refusal(j) = "nil"
  BY Zenon DEF Hears, Allowed
<1>3. k - 1 \in 0..m
  <2> SUFFICES ASSUME k - 1 > m PROVE FALSE
    BY <1>1, <1>2
  <2>1. m + 1 \in 1..(k - 1) /\ m < N
    BY <1>1, <1>2
  <2> QED BY Zenon, <1>1, <1>2, <2>1
<1>4. ASSUME k <= N, Refusal(k) # "nil" PROVE k - 1 = m
  <2>1. k \notin 1..m
    BY <1>2, <1>4
  <2> QED BY <1>1, <1>2, <1>3, <2>1
<1> QED BY <1>1, <1>3, <1>4

(* The types hold, and outside an INFO that was cut nothing panics (the slices  *)
(* of parse stay within their buffers, parser.go:96-641).                       *)
THEOREM ParserTypes == Spec => []TypeOK
<1>1. ParserInv => TypeOK
  <2> SUFFICES ASSUME ParserInv PROVE TypeOK
    OBVIOUS
  <2>1. /\ lo <= hi /\ hi <= Len(input.stream)
        /\ reads \in Nat /\ (reads < MaxReads \/ reads = MaxReads)
        /\ state \in States /\ i \in Nat /\ start \in Nat /\ drop \in {0, 1}
        /\ argBuf \in Slices /\ msgBuf \in Slices /\ err \in Errors /\ infoSplit \in BOOLEAN
    BY Zenon DEF ParserInv, Typed, FixedTyped, MovingTyped
  <2>2. reads <= MaxReads
    BY <2>1, BoundAssumption
  <2>3. \A x \in Slices : Cardinality(x) <= 1
    <3>1. ASSUME NEW x \in Slices PROVE Cardinality(x) = 0 \/ Cardinality(x) = 1
      BY FS_EmptySet, FS_Singleton DEF Slices
    <3> QED BY <3>1
  <2>4. ASSUME ~infoSplit PROVE err \in {"nil", "parse", "payload", "authorization"}
    <3>1. PICK k : At(k)
      BY Zenon, <2>4 DEF ParserInv, Somewhere
    <3>2. err = "nil" \/ err = Refusal(k)
      BY Zenon, <3>1 DEF At
    <3>3. Refusal(k) \in {"nil", "payload", "authorization"}
      BY DEF Refusal
    <3> QED BY <3>2, <3>3
  <2>5. err \in {"nil", "parse", "payload", "authorization"} \union (IF infoSplit THEN {"panic"} ELSE {})
    BY <2>1, <2>4 DEF Errors
  <2>6. i >= 0 /\ start >= 0
    BY <2>1
  <2> QED BY Zenon, <2>1, <2>2, <2>3, <2>5, <2>6 DEF TypeOK, States
<1> QED BY <1>1, ParserInvariance, PTL

(* However the stream is cut, the handlers are called with what was sent, in    *)
(* its order (the split buffers, parser.go:614-639).                            *)
THEOREM CallsAlwaysAsSent == Spec => []CallsAsSent
<1>1. ParserInv => CallsAsSent
  <2> SUFFICES ASSUME ParserInv, ~infoSplit PROVE IsPrefix(calls, Asked)
    BY DEF CallsAsSent
  <2>1. Typed
    BY DEF ParserInv
  <2>2. PICK m, N : Hears(m, N)
    BY <2>1, HeardIs
  <2>3. PICK k : Upto(k)
    BY Zenon DEF ParserInv, Somewhere, At
  <2>4. k - 1 \in 0..m /\ calls = CalledTo(input.ops, k - 1)
    BY <2>2, <2>3, CalledFor
  <2>5. PICK ops : ops = input.ops /\ Len(ops) \in Nat /\ m \in 0..Len(ops) /\ Asked = CalledTo(ops, m)
    BY Zenon, <2>2 DEF Hears
  <2>6. PICK n, A : n = Len(ops) /\ A = CallsOf(ops)
    OBVIOUS
  <2>7. /\ \A j \in 1..n : CalledTo(ops, j) = CalledTo(ops, j - 1) \o Asks(ops[j])
        /\ \A j \in 0..n : CalledTo(ops, j) \in Seq(A)
        /\ \A j \in 1..n : Asks(ops[j]) \in Seq(A)
    BY Zenon, <2>5, <2>6, CalledSteps
  <2>8. PICK F, ss : F = [j \in 0..n |-> CalledTo(ops, j)] /\ ss = [j \in 1..n |-> Asks(ops[j])]
    OBVIOUS
  <2>9. n \in Nat /\ \A j \in 1..n : j \in 0..n /\ j - 1 \in 0..n
    BY <2>5, <2>6
  <2>10. /\ \A j \in 0..n : F[j] = CalledTo(ops, j)
         /\ \A j \in 1..n : ss[j] = Asks(ops[j])
    BY Zenon, <2>8
  <2>11. Grows(A, n, F, ss)
    BY Zenon, <2>7, <2>9, <2>10 DEF Grows
  <2>12. PICK q \in 0..n : q = k - 1 /\ m \in q..n
    BY <2>4, <2>5, <2>6
  <2>13. BeginsAs(F[q], F[m])
    BY <2>9, <2>11, <2>12, Begins
  <2>14. m \in 0..n
    BY <2>5, <2>6
  <2>15. PICK u \in Seq(A), v \in Seq(A) : u = calls /\ v = Asked /\ BeginsAs(u, v)
    BY Zenon, <2>4, <2>5, <2>7, <2>10, <2>12, <2>13, <2>14
  <2>16. Len(u) <= Len(v) /\ \A j \in 1..Len(u) : u[j] = v[j]
    BY Zenon, <2>15 DEF BeginsAs
  <2>17. IsPrefix(u, v)
    BY <2>16, PrefixIs
  <2> QED BY Zenon, <2>15, <2>17
<1> QED BY <1>1, ParserInvariance, PTL

(* Between reads the parser is before the end of the stream as long as it is    *)
(* within an operation.                                                         *)
LEMMA NotDone ==
  ASSUME Typed, ~parsing, NEW k \in 1..Len(input.ops), AtStart(k) \/ Within(k)
  PROVE  hi # Len(input.stream)
<1>1. PICK op : op = input.ops[k] /\ OpKnown(k)
  BY StreamKnown
<1>2. PICK n, c, h, t, e, l, z : Sizes(op, n, c, h, t, e, l, z)
  BY <1>1, SizesAre
<1>3. /\ h \in Nat /\ t \in Nat /\ e \in 1..2 /\ l \in Nat /\ z \in Nat /\ l = h + t + e
      /\ op.kind \in Messages => z = n + 2 /\ n \in Nat
  BY <1>2, Numbers
<1>4. /\ h = HeadLen(op) /\ t = Len(Text(op)) /\ e = Len(op.eol) /\ l = LineLen(op) /\ z = BodyLen(op)
      /\ op.kind \in Messages => n = Len(op.payload)
  BY Zenon, <1>2, SizesOf
<1>5. PICK o \in Nat, s \in Nat : o = Offset(input.ops, k - 1) /\ s = Len(input.stream) /\ o + l + z <= s
  <2>1. Len(input.stream) \in Nat
    BY StreamKnown
  <2>2. /\ Offset(input.ops, k - 1) \in Nat /\ Offset(input.ops, k) = Offset(input.ops, k - 1) + l + z
        /\ Offset(input.ops, k) <= Len(input.stream)
    BY Zenon, <1>1, <1>4 DEF OpKnown
  <2> QED BY Zenon, <2>1, <2>2
<1>6. PICK p : p = Into(k) /\ p = hi - o
  BY Zenon, <1>5 DEF Into, Position
<1>7. hi \in Nat
  BY DEF Typed, FixedTyped
<1>8. p \in Int
  BY <1>5, <1>6, <1>7
<1>9. p < l + z
  <2>1. CASE AtStart(k)
    <3>1. p = 0
      BY Zenon, <1>6, <2>1 DEF AtStart
    <3> QED BY <1>3, <3>1
  <2>2. CASE InHead(k)
    <3>1. p \in 1..h
      BY Zenon, <1>1, <1>4, <1>6, <2>2 DEF InHead
    <3> QED BY <1>3, <3>1
  <2>3. CASE InBare(k)
    <3>1. p \in (h + 1)..(l - 1)
      BY Zenon, <1>1, <1>4, <1>6, <2>3 DEF InBare
    <3> QED BY <1>3, <3>1
  <2>4. CASE InArg(k)
    <3>1. p - h \in 1..(t + e - 1)
      BY Zenon, <1>1, <1>4, <1>6, <2>4 DEF InArg
    <3> QED BY <1>3, <1>8, <3>1
  <2>5. CASE InCopy(k)
    <3>1. op.kind \in Messages /\ (p - l \in 0..n \/ p - l \in n..(n + 1))
      BY Zenon, <1>1, <1>4, <1>6, <2>5 DEF InCopy
    <3> QED BY <1>3, <1>8, <3>1
  <2>6. ~InBody(k)
    BY DEF InBody
  <2> QED BY Zenon, <2>1, <2>2, <2>3, <2>4, <2>5, <2>6 DEF Within
<1>10. hi # s
  <2>1. p = hi - o
    BY <1>6
  <2> QED BY ONLY <1>3, <1>5, <1>7, <1>9, <2>1, o \in Nat, s \in Nat
<1> QED BY <1>5, <1>10

(* A stream read to its end has had all its handlers called; what ends a        *)
(* connection is what the stream deserves, where it deserves it (parse,         *)
(* parser.go:96-641; processPub, client.go; authViolation).                     *)
THEOREM WholeStreamHeard == Spec => []WholeStream
<1>1. ParserInv => WholeStream
  <2> SUFFICES ASSUME ParserInv, ~infoSplit
               PROVE  /\ ~parsing /\ hi = Len(input.stream) =>
                           calls = Asked /\ Heard = DOMAIN input.ops /\ state = "OP_START"
                      /\ err # "nil" => /\ calls = Asked /\ Heard # DOMAIN input.ops
                                        /\ err = Refusal(Cardinality(Heard) + 1)
    BY Zenon DEF WholeStream
  <2>1. Typed
    BY DEF ParserInv
  <2>2. PICK m, N : Hears(m, N)
    BY <2>1, HeardIs
  <2>3. PICK k : At(k)
    BY Zenon DEF ParserInv, Somewhere
  <2>4. /\ k \in 1..(N + 1) /\ k - 1 \in 0..m /\ calls = CalledTo(input.ops, k - 1)
        /\ k <= N /\ Refusal(k) # "nil" => k - 1 = m
    BY <2>2, <2>3, CalledFor DEF At
  <2>5. /\ N \in Nat /\ N = Len(input.ops) /\ DOMAIN input.ops = 1..N /\ m \in 0..N
        /\ Heard = 1..m /\ Cardinality(Heard) = m /\ Asked = CalledTo(input.ops, m)
    BY Zenon, <2>2 DEF Hears
  <2>6. ASSUME ~parsing, hi = Len(input.stream)
        PROVE  calls = Asked /\ Heard = DOMAIN input.ops /\ state = "OP_START"
    <3>1. AtStart(k) \/ (Within(k) /\ k <= Len(input.ops))
      BY Zenon, <2>3, <2>6 DEF At, Admitted
    <3>2. k \notin 1..Len(input.ops)
      BY <2>1, <2>6, <3>1, NotDone
    <3>3. ~(k <= N)
      BY <2>4, <2>5, <3>2
    <3>4. k - 1 = N /\ m = N
      BY <2>4, <2>5, <3>3
    <3>5. state = "OP_START"
      BY Zenon, <2>5, <3>1, <3>3 DEF AtStart
    <3> QED BY Zenon, <2>4, <2>5, <3>4, <3>5
  <2>7. ASSUME err # "nil"
        PROVE  calls = Asked /\ Heard # DOMAIN input.ops /\ err = Refusal(Cardinality(Heard) + 1)
    <3>1. k <= N /\ err = Refusal(k)
      BY Zenon, <2>3, <2>5, <2>7 DEF At
    <3>2. k - 1 = m
      BY Zenon, <2>4, <2>7, <3>1
    <3>3. m + 1 = k /\ k \in 1..N /\ k \notin 1..m
      BY <2>4, <2>5, <3>1, <3>2
    <3>4. Heard # DOMAIN input.ops
      BY Zenon, <2>5, <3>3
    <3> QED BY Zenon, <2>4, <2>5, <3>1, <3>2, <3>3, <3>4
  <2> QED BY <2>6, <2>7
<1> QED BY <1>1, ParserInvariance, PTL
================================================================================
