---------------------------- MODULE InterestProofs ----------------------------
(* Theorems about Interest, for two servers and any subscriptions, maxima and   *)
(* messages.                                                                    *)
EXTENDS Interest, FiniteSetTheorems, SequenceTheorems, TLAPS

(* What is on a wire w. *)
In(w, p) == \E i \in 1..Len(w) : w[i] = p
Precedes(w, p, q) == \E i, j \in 1..Len(w) : i < j /\ w[i] = p /\ w[j] = q
Positions(w, x) == {i \in 1..Len(w) : w[i].kind = "MSG" /\ w[i].sub = x}
Count(w, x) == Cardinality(Positions(w, x))

Limit == Maxes \union {0}
MsgFor(x, m) == [kind |-> "MSG", sub |-> x, msg |-> m]
Proto == {SUB(x) : x \in Subs} \union {UNSUB(x, k) : x \in Subs, k \in Limit}
           \union {MsgFor(x, m) : x \in Subs, m \in Msgs}
-----------------------------------------------------------------------------
(* The inductive invariant. *)

Types ==
  /\ route \in [Servers -> {"none", "created", "registered"}]
  /\ info \in [Servers -> {"unread", "copied", "sent"}]
  /\ snapshot \in [Servers -> SUBSET Subs] /\ local \in [Servers -> SUBSET Subs]
  /\ wire \in [Servers -> Seq(Proto)] /\ remote \in [Servers -> SUBSET Entry]
  /\ byRsid \in [Subs -> {0, 1, 2}]
  /\ nm \in [Subs \union Entry -> Nat] /\ max \in [Subs \union Entry -> Limit]
  /\ op \in [Subs -> {"new", "sub", "idle", "unsub", "last"}]
  /\ closed \in [Subs -> {"open", "closing", "closed"}]
  /\ stage \in [Msgs -> {"new", "matched", "sent"}]
  /\ matched \in [Msgs -> SUBSET (Subs \union Entry)]
  /\ got \in [Msgs \X Subs -> Nat] /\ due \in [Msgs -> SUBSET Plain]

(* Each server's own, and the other's. *)
Homes(s) ==
  /\ \A x \in local[s] \union snapshot[s] : Home[x] = s
  /\ \A e \in remote[s] : Home[e[1]] # s
  /\ \A x \in Subs : Home[x] # s => ~In(wire[s], SUB(x)) /\ \A k \in Limit : ~In(wire[s], UNSUB(x, k))
  /\ \A x \in Subs, m \in Msgs : In(wire[s], MsgFor(x, m)) => Home[x] # s /\ Origin[m] = s
  /\ \A m \in Msgs : Origin[m] = s =>
       \A y \in matched[m] : IF y \in Subs THEN Home[y] = s ELSE Home[y[1]] # s /\ info[s] = "sent"

(* Nothing is known, or sent, before the route is up. *)
Up(s) ==
  /\ remote[s] # {} => info[s] = "sent"
  /\ wire[s] # <<>> => route[s] = "registered" \/ info[s] = "sent"
  /\ info[s] # "copied" => snapshot[s] = {}

Named(x) == byRsid[x] # 0 => <<x, byRsid[x]>> \in remote[Other(Home[x])]

Once(m) ==
  LET w == wire[Origin[m]] IN
  /\ stage[m] # "sent" => \A x \in Subs : got[<<m, x>>] = 0 /\ ~In(w, MsgFor(x, m))
  /\ \A x \in Subs : got[<<m, x>>] <= 1
  /\ \A x, y \in Queue : got[<<m, x>>] > 0 /\ got[<<m, y>>] > 0 => x = y
  /\ \A x, y \in Subs : (x \in Queue <=> y \in Queue) => ~Precedes(w, MsgFor(x, m), MsgFor(y, m))
  /\ \A x \in Plain : In(w, MsgFor(x, m)) => \A y \in Plain : Home[y] # Origin[m] => got[<<m, y>>] = 0
  /\ \A x \in Queue : In(w, MsgFor(x, m)) => \A y \in Queue : got[<<m, y>>] = 0

Pending(m) == \E y \in Plain : In(wire[Origin[m]], MsgFor(y, m))

Reached(m) ==
  /\ \A x \in due[m] : op[x] # "new"
  /\ stage[m] = "matched" =>
       \A x \in due[m] : x \in matched[m] \/ \E n \in {1, 2} : <<x, n>> \in matched[m]
  /\ stage[m] = "sent" /\ m \notin dropped =>
       \A x \in due[m] : \/ got[<<m, x>>] = 1 \/ x \notin local[Home[x]] \/ max[x] > 0
                         \/ Home[x] # Origin[m] /\ Pending(m)

(* A subscription at its server and, so far as it was told, at the other.       *)
Counted(x) ==
  LET s == Home[x]  t == Other(s) IN
  /\ op[x] = "new" => /\ x \notin local[s] \union snapshot[s] /\ ~In(wire[s], SUB(x))
                      /\ \A n \in {1, 2} : <<x, n>> \notin remote[t]
                      /\ closed[x] = "open"
  /\ op[x] \in {"new", "sub", "idle"} =>
       /\ max[x] = 0 /\ \A n \in {1, 2} : max[<<x, n>>] = 0
       /\ closed[x] # "closed" => \A k \in Limit : ~In(wire[s], UNSUB(x, k))
  /\ op[x] \in {"sub", "idle"} /\ closed[x] = "open" => x \in local[s]
  /\ x \in local[s] => closed[x] = "open"
  /\ op[x] \in {"unsub", "last"} =>
       IF x \in local[s] THEN nm[x] < max[x]
       ELSE max[x] = 0 \/ nm[x] >= max[x] \/ closed[x] # "open"
  /\ \A k \in Limit : In(wire[s], UNSUB(x, k)) => k \in {0, max[x]} /\ (x \in local[s] => k # 0)
  /\ \A n \in {1, 2} : max[<<x, n>>] \in {0, max[x]}
  /\ \A n \in {1, 2} : <<x, n>> \in remote[t] =>
       /\ max[<<x, n>>] > 0 => nm[<<x, n>>] < max[<<x, n>>]
       /\ x \in local[s] => nm[<<x, n>>] <= nm[x] + Count(wire[t], x)

Known(x) ==
  LET s == Home[x]  t == Other(s) IN
  x \in local[s] /\ x \notin missed =>
    \/ info[s] = "unread" \/ x \in snapshot[s] \/ op[x] = "sub"
    \/ In(wire[s], SUB(x)) \/ \E n \in {1, 2} : <<x, n>> \in remote[t]
    \/ max[x] > 0 /\ nm[x] + Count(wire[t], x) >= max[x]

Clean(x) ==
  /\ x \notin raced \union missed
  /\ Announcing(x) => route[Home[x]] = "registered" \/ info[Home[x]] = "unread"

Absent(x) == x \notin snapshot[Home[x]] /\ ~In(wire[Home[x]], SUB(x)) /\ <<x, 1>> \notin remote[Other(Home[x])]

(* It is gone, and the last broadcast that says so has been made.               *)
Told(x) == /\ x \notin local[Home[x]]
           /\ closed[x] = "closed" \/ (closed[x] = "open" /\ op[x] = "last")

Withdrawn(x) ==
  LET s == Home[x]  t == Other(s) IN
  Clean(x) =>
    /\ Announcing(x) /\ route[s] = "registered" => info[s] = "sent"
    /\ op[x] \in {"new", "sub"} => Absent(x) /\ closed[x] = "open"
    /\ info[s] = "unread" => Absent(x) /\ \A k \in Limit : ~In(wire[s], UNSUB(x, k))
    /\ x \in snapshot[s] => /\ ~In(wire[s], SUB(x)) /\ <<x, 1>> \notin remote[t]
                            /\ \A k \in Limit : ~In(wire[s], UNSUB(x, k))
    /\ In(wire[s], SUB(x)) => <<x, 1>> \notin remote[t]
    /\ ~Precedes(wire[s], SUB(x), SUB(x))
    /\ \A k \in Limit : ~Precedes(wire[s], UNSUB(x, k), SUB(x))
    /\ <<x, 2>> \notin remote[t] /\ \A m \in Msgs : <<x, 2>> \notin matched[m]
    /\ <<x, 1>> \in remote[t] => byRsid[x] = 1
    /\ Told(x) => \/ Absent(x)
                  \/ nm[x] < max[x]
                  \/ In(wire[s], UNSUB(x, 0)) /\ x \notin snapshot[s]

InterestInv ==
  /\ Types
  /\ \A s \in Servers : Homes(s) /\ Up(s)
  /\ \A m \in Msgs : Once(m) /\ Reached(m)
  /\ \A x \in Subs : Named(x) /\ Counted(x) /\ Known(x) /\ Withdrawn(x)
-----------------------------------------------------------------------------
(* Sequences. *)

LEMMA InEmpty == \A p : ~In(<<>>, p)
BY DEF In

LEMMA InOne == \A p, q : In(<<q>>, p) <=> p = q
BY DEF In

LEMMA InConcat ==
  ASSUME NEW S, NEW w \in Seq(S), NEW f \in Seq(S), NEW p
  PROVE  In(w \o f, p) <=> In(w, p) \/ In(f, p)
<1>1. /\ Len(w \o f) = Len(w) + Len(f) /\ Len(w) \in Nat /\ Len(f) \in Nat
      /\ \A i \in 1..Len(w) + Len(f) :
            (w \o f)[i] = IF i <= Len(w) THEN w[i] ELSE f[i - Len(w)]
  BY ConcatProperties, LenProperties
<1>2. ASSUME In(w \o f, p) PROVE In(w, p) \/ In(f, p)
  <2>1. PICK i \in 1..Len(w) + Len(f) : (w \o f)[i] = p
    BY <1>1, <1>2 DEF In
  <2>2. CASE i <= Len(w)
    BY <1>1, <2>1, <2>2 DEF In
  <2>3. CASE i > Len(w)
    <3>1. i - Len(w) \in 1..Len(f) /\ f[i - Len(w)] = p
      BY <1>1, <2>1, <2>3
    <3> QED BY <3>1 DEF In
  <2> QED BY <1>1, <2>2, <2>3
<1>3. ASSUME In(w, p) PROVE In(w \o f, p)
  <2>1. PICK i \in 1..Len(w) : w[i] = p
    BY <1>3 DEF In
  <2>2. i \in 1..Len(w \o f) /\ (w \o f)[i] = p
    BY <1>1, <2>1
  <2> QED BY <2>2 DEF In
<1>4. ASSUME In(f, p) PROVE In(w \o f, p)
  <2>1. PICK i \in 1..Len(f) : f[i] = p
    BY <1>4 DEF In
  <2>2. i + Len(w) \in 1..Len(w \o f) /\ (w \o f)[i + Len(w)] = f[i + Len(w) - Len(w)]
    BY <1>1, <2>1
  <2>3. i + Len(w) - Len(w) = i
    BY <1>1
  <2> QED BY <2>1, <2>2, <2>3 DEF In
<1> QED BY <1>2, <1>3, <1>4

LEMMA InTail ==
  ASSUME NEW S, NEW w \in Seq(S), w # <<>>, NEW p
  PROVE  In(w, p) <=> Head(w) = p \/ In(Tail(w), p)
<1>1. /\ Len(w) \in Nat \ {0} /\ Len(Tail(w)) = Len(w) - 1 /\ Head(w) = w[1]
      /\ \A i \in 1..Len(Tail(w)) : Tail(w)[i] = w[i + 1]
  BY HeadTailProperties, EmptySeq, LenProperties
<1>2. ASSUME In(w, p), Head(w) # p PROVE In(Tail(w), p)
  <2>1. PICK i \in 1..Len(w) : w[i] = p
    BY <1>2 DEF In
  <2>2. i - 1 \in 1..Len(Tail(w)) /\ Tail(w)[i - 1] = w[i - 1 + 1] /\ i - 1 + 1 = i
    BY <1>1, <1>2, <2>1
  <2> QED BY <2>1, <2>2 DEF In
<1>3. ASSUME In(Tail(w), p) PROVE In(w, p)
  <2>1. PICK i \in 1..Len(Tail(w)) : Tail(w)[i] = p
    BY <1>3 DEF In
  <2>2. i + 1 \in 1..Len(w) /\ w[i + 1] = p
    BY <1>1, <2>1
  <2> QED BY <2>2 DEF In
<1>4. Head(w) = p => In(w, p)
  BY <1>1 DEF In
<1> QED BY <1>2, <1>3, <1>4

LEMMA PrecedesIn ==
  ASSUME NEW w, NEW p, NEW q, Precedes(w, p, q) PROVE In(w, p) /\ In(w, q)
BY DEF Precedes, In

LEMMA PrecedesConcat ==
  ASSUME NEW S, NEW w \in Seq(S), NEW f \in Seq(S), NEW p, NEW q, Precedes(w \o f, p, q)
  PROVE  Precedes(w, p, q) \/ (In(w, p) /\ In(f, q)) \/ Precedes(f, p, q)
<1>1. /\ Len(w \o f) = Len(w) + Len(f) /\ Len(w) \in Nat /\ Len(f) \in Nat
      /\ \A i \in 1..Len(w) + Len(f) :
            (w \o f)[i] = IF i <= Len(w) THEN w[i] ELSE f[i - Len(w)]
  BY ConcatProperties, LenProperties
<1>2. PICK i, j \in 1..Len(w) + Len(f) : i < j /\ (w \o f)[i] = p /\ (w \o f)[j] = q
  BY <1>1 DEF Precedes
<1>3. CASE j <= Len(w)
  <2>1. i \in 1..Len(w) /\ j \in 1..Len(w) /\ w[i] = p /\ w[j] = q
    BY <1>1, <1>2, <1>3
  <2> QED BY <1>2, <2>1 DEF Precedes
<1>4. CASE i <= Len(w) /\ j > Len(w)
  <2>1. i \in 1..Len(w) /\ w[i] = p /\ j - Len(w) \in 1..Len(f) /\ f[j - Len(w)] = q
    BY <1>1, <1>2, <1>4
  <2> QED BY <2>1 DEF In
<1>5. CASE i > Len(w)
  <2>1. /\ i - Len(w) \in 1..Len(f) /\ f[i - Len(w)] = p
        /\ j - Len(w) \in 1..Len(f) /\ f[j - Len(w)] = q /\ i - Len(w) < j - Len(w)
    BY <1>1, <1>2, <1>5
  <2> QED BY <2>1 DEF Precedes
<1> QED BY <1>1, <1>2, <1>3, <1>4, <1>5

LEMMA PrecedesTail ==
  ASSUME NEW S, NEW w \in Seq(S), w # <<>>, NEW p, NEW q,
         Precedes(Tail(w), p, q) \/ (Head(w) = p /\ In(Tail(w), q))
  PROVE  Precedes(w, p, q)
<1>1. /\ Len(w) \in Nat \ {0} /\ Len(Tail(w)) = Len(w) - 1 /\ Head(w) = w[1]
      /\ \A i \in 1..Len(Tail(w)) : Tail(w)[i] = w[i + 1]
  BY HeadTailProperties, EmptySeq, LenProperties
<1>2. CASE Precedes(Tail(w), p, q)
  <2>1. PICK i, j \in 1..Len(Tail(w)) : i < j /\ Tail(w)[i] = p /\ Tail(w)[j] = q
    BY <1>2 DEF Precedes
  <2>2. /\ i + 1 \in 1..Len(w) /\ j + 1 \in 1..Len(w) /\ i + 1 < j + 1
        /\ w[i + 1] = p /\ w[j + 1] = q
    BY <1>1, <2>1
  <2> QED BY <2>2 DEF Precedes
<1>3. CASE Head(w) = p /\ In(Tail(w), q)
  <2>1. PICK j \in 1..Len(Tail(w)) : Tail(w)[j] = q
    BY <1>3 DEF In
  <2>2. 1 \in 1..Len(w) /\ j + 1 \in 1..Len(w) /\ 1 < j + 1 /\ w[1] = p /\ w[j + 1] = q
    BY <1>1, <1>3, <2>1
  <2> QED BY <2>2 DEF Precedes
<1> QED BY <1>2, <1>3

LEMMA CountType ==
  ASSUME NEW S, NEW w \in Seq(S), NEW x
  PROVE  Count(w, x) \in Nat /\ IsFiniteSet(Positions(w, x))
<1>1. Len(w) \in Nat /\ IsFiniteSet(1..Len(w))
  BY LenProperties, FS_Interval
<1>2. Positions(w, x) \in SUBSET (1..Len(w))
  BY DEF Positions
<1> QED BY <1>1, <1>2, FS_Subset, FS_CardinalityType DEF Count

LEMMA CountEmpty == \A x : Count(<<>>, x) = 0
<1>1. \A x : Positions(<<>>, x) = {}
  BY DEF Positions
<1> QED BY <1>1, FS_EmptySet DEF Count

(* What is sent adds to the count, and what is read takes one from it at most.  *)
LEMMA CountConcat ==
  ASSUME NEW S, NEW w \in Seq(S), NEW f \in Seq(S), NEW x
  PROVE  /\ Count(w \o f, x) >= Count(w, x)
         /\ \A p : In(f, p) /\ p.kind = "MSG" /\ p.sub = x => Count(w \o f, x) >= Count(w, x) + 1
<1>1. /\ Len(w \o f) = Len(w) + Len(f) /\ Len(w) \in Nat /\ Len(f) \in Nat /\ w \o f \in Seq(S)
      /\ \A i \in 1..Len(w) + Len(f) :
            (w \o f)[i] = IF i <= Len(w) THEN w[i] ELSE f[i - Len(w)]
  BY ConcatProperties, LenProperties
<1> DEFINE P == Positions(w, x)
           Q == Positions(w \o f, x)
<1>2. P \subseteq Q
  BY <1>1 DEF Positions
<1>3. IsFiniteSet(P) /\ IsFiniteSet(Q) /\ Cardinality(P) \in Nat /\ Cardinality(Q) \in Nat
  BY <1>1, CountType DEF Count
<1>4. Cardinality(Q) >= Cardinality(P)
  <2> HIDE DEF P, Q
  <2> QED BY <1>2, <1>3, FS_Subset
<1>5. ASSUME NEW p, In(f, p), p.kind = "MSG", p.sub = x PROVE Cardinality(Q) >= Cardinality(P) + 1
  <2>1. PICK i \in 1..Len(f) : f[i] = p
    BY <1>5 DEF In
  <2> DEFINE k == i + Len(w)
  <2>2. k \in 1..Len(w) + Len(f) /\ k > Len(w) /\ k - Len(w) = i /\ ~(k <= Len(w))
    BY <1>1, <2>1
  <2>3. (w \o f)[k] = p
    BY <1>1, <2>1, <2>2
  <2>4. k \in Q /\ k \notin P
    BY <1>1, <1>5, <2>2, <2>3 DEF Positions
  <2>5. P \union {k} \in SUBSET Q
    BY <1>2, <2>4
  <2>6. Cardinality(P \union {k}) = Cardinality(P) + 1
    <3> HIDE DEF P, Q, k
    <3> QED BY <1>3, <2>4, FS_AddElement
  <2>7. Cardinality(P \union {k}) <= Cardinality(Q)
    <3> HIDE DEF P, Q, k
    <3> QED BY <1>3, <2>5, FS_Subset
  <2> HIDE DEF P, Q, k
  <2> QED BY <1>3, <2>6, <2>7
<1> QED BY <1>4, <1>5 DEF Count

LEMMA CountTail ==
  ASSUME NEW S, NEW w \in Seq(S), w # <<>>, NEW x
  PROVE  /\ Count(w, x) <= Count(Tail(w), x) + 1
         /\ ~(Head(w).kind = "MSG" /\ Head(w).sub = x) => Count(w, x) <= Count(Tail(w), x)
<1>1. /\ Len(w) \in Nat \ {0} /\ Len(Tail(w)) = Len(w) - 1 /\ Head(w) = w[1]
      /\ Tail(w) \in Seq(S)
      /\ \A i \in 1..Len(Tail(w)) : Tail(w)[i] = w[i + 1]
  BY HeadTailProperties, EmptySeq, LenProperties
<1> DEFINE P == Positions(w, x)
           Q == Positions(Tail(w), x)
           shift == [i \in P \ {1} |-> i - 1]
<1>2. IsFiniteSet(P) /\ IsFiniteSet(Q) /\ Cardinality(P) \in Nat /\ Cardinality(Q) \in Nat
  BY <1>1, CountType DEF Count
<1>3. ASSUME NEW i \in P \ {1} PROVE i \in Nat /\ i - 1 \in Q
  <2>1. i \in 2..Len(w) /\ w[i].kind = "MSG" /\ w[i].sub = x
    BY <1>1 DEF Positions
  <2>2. i - 1 \in 1..Len(Tail(w)) /\ i - 1 + 1 = i
    BY <1>1, <2>1
  <2>3. Tail(w)[i - 1] = w[i]
    BY <1>1, <2>2
  <2> QED BY <2>1, <2>2, <2>3 DEF Positions
<1>4. shift \in [P \ {1} -> Q] /\ \A i, j \in P \ {1} : shift[i] = shift[j] => i = j
  BY <1>3
<1>5. shift \in Injection(P \ {1}, Q)
  BY <1>4 DEF Injection, IsInjective
<1>6. Cardinality(P \ {1}) <= Cardinality(Q)
  <2> HIDE DEF P, Q, shift
  <2> QED BY <1>2, <1>5, FS_Injection
<1>7. Cardinality(P \ {1}) = IF 1 \in P THEN Cardinality(P) - 1 ELSE Cardinality(P)
  <2> HIDE DEF P
  <2> QED BY <1>2, FS_RemoveElement
<1>8. 1 \in P => Head(w).kind = "MSG" /\ Head(w).sub = x
  BY <1>1 DEF Positions
<1> HIDE DEF P, Q
<1>9. Cardinality(P) <= Cardinality(Q) + 1 /\ (1 \notin P => Cardinality(P) <= Cardinality(Q))
  BY <1>2, <1>6, <1>7
<1> QED BY <1>8, <1>9 DEF Count, P, Q

(* A permutation of a finite set is a sequence of all its members, each once.   *)
LEMMA Permutation ==
  ASSUME NEW S, NEW T, IsFiniteSet(T), T \subseteq S, NEW f \in SetToSeqs(T)
  PROVE  /\ f \in Seq(S)
         /\ \A p : In(f, p) <=> p \in T
         /\ \A p : ~Precedes(f, p, p)
<1> DEFINE n == Cardinality(T)
<1>1. n \in Nat /\ IsFiniteSet(1..n) /\ Cardinality(1..n) = n
  <2>1. n \in Nat
    BY FS_CardinalityType
  <2> QED BY <2>1, FS_Interval
<1>2. f \in [1..n -> T] /\ \A i, j \in 1..n : i # j => f[i] # f[j]
  BY DEF SetToSeqs
<1>3. f \in Injection(1..n, T)
  BY <1>2 DEF Injection, IsInjective
<1>4. f \in Surjection(1..n, T)
  <2> HIDE DEF n
  <2>1. Cardinality(1..n) = Cardinality(T)
    BY <1>1 DEF n
  <2> QED BY <1>3, <2>1, FS_Injection
<1>5. f \in Seq(T) /\ Len(f) = n
  BY <1>1, <1>2
<1>6. f \in Seq(S)
  BY <1>5, SeqMonotonic
<1>7. \A p : In(f, p) <=> p \in T
  BY <1>2, <1>4, <1>5 DEF In, Surjection
<1>8. \A p : ~Precedes(f, p, p)
  BY <1>1, <1>2, <1>5 DEF Precedes
<1> QED BY <1>6, <1>7, <1>8
-----------------------------------------------------------------------------
(* Servers, subscriptions, and what is sent. *)

LEMMA Others ==
  ASSUME NEW s \in Servers
  PROVE  /\ Other(s) \in Servers /\ Other(s) # s /\ Other(Other(s)) = s
         /\ \A t \in Servers : t = s \/ t = Other(s)
<1>1. PICK a, b \in Servers : a # b /\ Servers = {a, b}
  BY ServersAssumption
<1>2. \A u \in Servers : Other(u) \in Servers /\ Other(u) # u
  BY <1>1 DEF Other
<1> QED BY <1>1, <1>2

LEMMA HomeIs == \A x \in Subs : Home[x] \in Servers /\ Other(Home[x]) \in Servers
BY SubsAssumption, Others

LEMMA EntryIs ==
  /\ \A e \in Entry : e[1] \in Subs /\ e[2] \in {1, 2} /\ e = <<e[1], e[2]>> /\ e \notin Subs
  /\ \A x \in Subs : x \notin Entry /\ \A n \in {1, 2} : <<x, n>> \in Entry
BY SubsAssumption DEF Entry

LEMMA LimitIs == Limit \subseteq Nat /\ 0 \in Limit
BY MaxesAssumption DEF Limit

LEMMA Kinds ==
  /\ \A x : SUB(x).kind = "SUB" /\ SUB(x).sub = x
  /\ \A x, k : UNSUB(x, k).kind = "UNSUB" /\ UNSUB(x, k).sub = x /\ UNSUB(x, k).max = k
  /\ \A x, m : MsgFor(x, m).kind = "MSG" /\ MsgFor(x, m).sub = x /\ MsgFor(x, m).msg = m
BY DEF SUB, UNSUB, MsgFor

LEMMA ProtoIs ==
  ASSUME NEW p \in Proto
  PROVE  /\ p.sub \in Subs
         /\ p.kind = "SUB" => p = SUB(p.sub)
         /\ p.kind = "UNSUB" => p.max \in Limit /\ p = UNSUB(p.sub, p.max)
         /\ p.kind = "MSG" => p.msg \in Msgs /\ p = MsgFor(p.sub, p.msg)
<1>1. CASE \E x \in Subs : p = SUB(x)
  BY <1>1, Kinds
<1>2. CASE \E x \in Subs, k \in Limit : p = UNSUB(x, k)
  BY <1>2, Kinds
<1>3. CASE \E x \in Subs, m \in Msgs : p = MsgFor(x, m)
  BY <1>3, Kinds
<1> QED BY <1>1, <1>2, <1>3 DEF Proto

LEMMA ProtoHas ==
  ASSUME NEW x \in Subs
  PROVE  /\ SUB(x) \in Proto /\ \A k \in Limit : UNSUB(x, k) \in Proto
         /\ \A m \in Msgs : MsgFor(x, m) \in Proto
BY DEF Proto

LEMMA InitInv == Init => InterestInv
<1> SUFFICES ASSUME Init PROVE InterestInv
  OBVIOUS
<1>1. /\ \A s \in Servers : wire[s] = <<>>
      /\ \A s \in Servers : \A p : ~In(wire[s], p)
      /\ \A s \in Servers : \A p, q : ~Precedes(wire[s], p, q)
  BY InEmpty, PrecedesIn DEF Init
<1>2. Types
  <2>1. wire \in [Servers -> Seq(Proto)]
    BY EmptySeq DEF Init
  <2>2. /\ nm \in [Subs \union Entry -> Nat] /\ max \in [Subs \union Entry -> Limit]
        /\ got \in [Msgs \X Subs -> Nat]
    BY LimitIs DEF Init
  <2> QED BY <2>1, <2>2 DEF Init, Types
<1>3. ASSUME NEW s \in Servers PROVE Homes(s) /\ Up(s)
  BY <1>1, <1>3 DEF Init, Homes, Up
<1>4. ASSUME NEW m \in Msgs PROVE Once(m) /\ Reached(m)
  <2>1. Origin[m] \in Servers
    BY MsgsAssumption
  <2>2. /\ \A p : ~In(wire[Origin[m]], p) /\ \A q : ~Precedes(wire[Origin[m]], p, q)
        /\ stage[m] = "new" /\ \A x \in Subs : got[<<m, x>>] = 0
    BY <1>1, <2>1 DEF Init
  <2>3. Once(m)
    BY <2>2, SubsAssumption DEF Once, Plain
  <2>4. Reached(m)
    BY DEF Init, Reached
  <2> QED BY <2>3, <2>4
<1>5. ASSUME NEW x \in Subs PROVE Named(x) /\ Counted(x) /\ Known(x) /\ Withdrawn(x)
  BY <1>1, HomeIs, EntryIs DEF Init, Named, Counted, Known, Withdrawn, Clean, Absent, Told, Announcing
<1> QED BY <1>2, <1>3, <1>4, <1>5 DEF InterestInv
-----------------------------------------------------------------------------
(* The parts of the invariant that a step leaves alone. *)

LEMMA HomesStay ==
  ASSUME NEW s \in Servers, Homes(s),
         local'[s] \union snapshot'[s] \subseteq local[s] \union snapshot[s],
         remote'[s] \subseteq remote[s],
         \A p : In(wire'[s], p) => In(wire[s], p),
         UNCHANGED matched, info[s] = "sent" => info'[s] = "sent"
  PROVE  Homes(s)'
BY DEF Homes

LEMMA OnceStays ==
  ASSUME NEW m \in Msgs, Once(m), stage'[m] = stage[m], \A x \in Subs : got'[<<m, x>>] = got[<<m, x>>],
         \A x \in Subs : In(wire'[Origin[m]], MsgFor(x, m)) => In(wire[Origin[m]], MsgFor(x, m)),
         \A x, y \in Subs : Precedes(wire'[Origin[m]], MsgFor(x, m), MsgFor(y, m)) =>
                                Precedes(wire[Origin[m]], MsgFor(x, m), MsgFor(y, m))
  PROVE  Once(m)'
BY SubsAssumption DEF Once, Plain

LEMMA ReachedStays ==
  ASSUME NEW m \in Msgs, Reached(m), UNCHANGED <<due[m], stage[m], matched[m]>>,
         m \in dropped' <=> m \in dropped, \A x \in Subs : got'[<<m, x>>] = got[<<m, x>>],
         due[m] \subseteq Plain,
         \A x \in Subs : In(wire[Origin[m]], MsgFor(x, m)) => In(wire'[Origin[m]], MsgFor(x, m)),
         \A x \in Subs : op'[x] = "new" => op[x] = "new",
         \A x \in Subs : op[x] # "new" =>
            /\ x \in local'[Home[x]] => x \in local[Home[x]]
            /\ x \in local'[Home[x]] /\ max[x] > 0 => max'[x] > 0
  PROVE  Reached(m)'
<1>1. Pending(m) => Pending(m)'
  BY DEF Pending, Plain
<1> QED BY <1>1 DEF Reached, Plain

LEMMA CountedStays ==
  ASSUME NEW x \in Subs, Counted(x), op'[x] = op[x], closed'[x] = closed[x],
         x \in local'[Home[x]] <=> x \in local[Home[x]],
         x \in snapshot'[Home[x]] => x \in snapshot[Home[x]] \/ op[x] # "new",
         In(wire'[Home[x]], SUB(x)) => In(wire[Home[x]], SUB(x)) \/ op[x] # "new",
         \A k \in Limit : In(wire'[Home[x]], UNSUB(x, k)) => In(wire[Home[x]], UNSUB(x, k)),
         \A n \in {1, 2} : /\ <<x, n>> \in remote'[Other(Home[x])] => <<x, n>> \in remote[Other(Home[x])]
                           /\ UNCHANGED <<max[<<x, n>>], nm[<<x, n>>]>>,
         UNCHANGED <<max[x], nm[x]>>,
         nm[x] \in Nat, \A n \in {1, 2} : nm[<<x, n>>] \in Nat,
         /\ Count(wire'[Other(Home[x])], x) \in Nat /\ Count(wire[Other(Home[x])], x) \in Nat
         /\ Count(wire'[Other(Home[x])], x) >= Count(wire[Other(Home[x])], x)
  PROVE  Counted(x)'
BY DEF Counted

LEMMA WithdrawnStays ==
  ASSUME NEW x \in Subs, Withdrawn(x),
         Clean(x)' =>
           /\ Clean(x) /\ op'[x] = op[x] /\ closed'[x] = closed[x]
           /\ info'[Home[x]] = info[Home[x]] /\ (nm[x] < max[x] => nm'[x] < max'[x])
           /\ x \in local[Home[x]] => x \in local'[Home[x]]
           /\ x \in snapshot'[Home[x]] => x \in snapshot[Home[x]]
           /\ route'[Home[x]] = "registered" =>
                 route[Home[x]] = "registered" \/ ~Announcing(x)
           /\ byRsid'[x] = byRsid[x] \/ <<x, 1>> \notin remote'[Other(Home[x])],
         In(wire'[Home[x]], SUB(x)) => In(wire[Home[x]], SUB(x)),
         \A k \in Limit : In(wire'[Home[x]], UNSUB(x, k)) <=> In(wire[Home[x]], UNSUB(x, k)),
         Precedes(wire'[Home[x]], SUB(x), SUB(x)) => Precedes(wire[Home[x]], SUB(x), SUB(x)),
         \A k \in Limit : Precedes(wire'[Home[x]], UNSUB(x, k), SUB(x)) =>
                             Precedes(wire[Home[x]], UNSUB(x, k), SUB(x)),
         \A n \in {1, 2} : <<x, n>> \in remote'[Other(Home[x])] => <<x, n>> \in remote[Other(Home[x])],
         \A m \in Msgs : <<x, 2>> \in matched'[m] => <<x, 2>> \in matched[m]
  PROVE  Withdrawn(x)'
<1> SUFFICES ASSUME Clean(x)' PROVE Withdrawn(x)'
  BY DEF Withdrawn
<1>1. 0 \in Limit
  BY LimitIs
<1>2. Absent(x) => Absent(x)'
  BY DEF Absent
<1>3. /\ Announcing(x)' <=> Announcing(x)
      /\ Told(x)' => Told(x)
  BY DEF Announcing, Told
<1> QED BY <1>1, <1>2, <1>3 DEF Withdrawn

-----------------------------------------------------------------------------
(* The route comes up. *)

LEMMA Counts ==
  ASSUME Types
  PROVE  /\ \A s \in Servers, x \in Subs : Count(wire[s], x) \in Nat
         /\ \A x \in Subs : nm[x] \in Nat /\ max[x] \in Nat
         /\ \A x \in Subs, n \in {1, 2} : nm[<<x, n>>] \in Nat /\ max[<<x, n>>] \in Nat
<1>1. \A s \in Servers : wire[s] \in Seq(Proto)
  BY DEF Types
<1>2. \A s \in Servers, x \in Subs : Count(wire[s], x) \in Nat
  BY <1>1, CountType
<1> QED BY <1>2, EntryIs, LimitIs DEF Types

(* A step of a route that changes no list and sends nothing.                    *)
LEMMA LinkInv ==
  ASSUME InterestInv, Types', UNCHANGED <<present, info, snapshot, wire, local, remote, byRsid,
                                          counts, op, closed, msgs, missed>>,
         raced \subseteq raced',
         \A s \in Servers : route[s] = "registered" => route'[s] = "registered",
         \A x \in Subs : Announcing(x) =>
            \/ route'[Home[x]] = "registered" => route[Home[x]] = "registered"
            \/ x \in raced'
  PROVE  InterestInv'
<1>2. ASSUME NEW t \in Servers PROVE (Homes(t) /\ Up(t))'
  BY DEF InterestInv, Homes, Up, msgs
<1>3. ASSUME NEW m \in Msgs PROVE (Once(m) /\ Reached(m))'
  BY DEF InterestInv, msgs, counts, Once, Reached, Pending
<1>4. ASSUME NEW x \in Subs PROVE (Named(x) /\ Counted(x) /\ Known(x) /\ Withdrawn(x))'
  <2>1. (Named(x) /\ Counted(x) /\ Known(x))'
    BY DEF InterestInv, counts, Named, Counted, Known
  <2>2. Clean(x)' => Clean(x) /\ (route'[Home[x]] = "registered" =>
                                    route[Home[x]] = "registered" \/ ~Announcing(x))
    BY DEF Clean, Announcing
  <2>3. Withdrawn(x)'
    BY <2>2, WithdrawnStays DEF InterestInv, msgs, counts
  <2> QED BY <2>1, <2>3
<1> QED BY <1>2, <1>3, <1>4 DEF InterestInv

LEMMA CreateRouteInv ==
  ASSUME InterestInv, NEW s \in Servers, createRoute(s) PROVE InterestInv'
<1>1. Types'
  BY DEF InterestInv, Types, createRoute, counts, msgs, told
<1>2. \A t \in Servers : route'[t] = "registered" <=> route[t] = "registered"
  BY DEF InterestInv, Types, createRoute
<1> QED BY <1>1, <1>2, HomeIs, LinkInv DEF createRoute, told

LEMMA RegisterInv ==
  ASSUME InterestInv, NEW s \in Servers, Register(s) PROVE InterestInv'
<1>1. Types'
  BY DEF InterestInv, Types, Register, counts, msgs
<1>2. \A t \in Servers : IF t = s THEN route'[t] = "registered" ELSE route'[t] = route[t]
  BY DEF InterestInv, Types, Register
<1>3. \A x \in Subs : Home[x] = s /\ Announcing(x) => x \in raced'
  BY DEF Register
<1> QED BY <1>1, <1>2, <1>3, HomeIs, LinkInv DEF Register

LEMMA CopyInv ==
  ASSUME InterestInv, NEW s \in Servers, CopyLocalSubs(s) PROVE InterestInv'
<1>1. Types'
  BY DEF InterestInv, Types, CopyLocalSubs, counts, msgs, told
<1>2. ASSUME NEW t \in Servers PROVE (Homes(t) /\ Up(t))'
  BY DEF InterestInv, Types, CopyLocalSubs, counts, msgs, told, Homes, Up
<1>3. ASSUME NEW m \in Msgs PROVE (Once(m) /\ Reached(m))'
  BY DEF InterestInv, Types, CopyLocalSubs, counts, msgs, told, Once, Reached, Pending
<1>4. ASSUME NEW x \in Subs PROVE (Named(x) /\ Counted(x) /\ Known(x) /\ Withdrawn(x))'
  <2>1. Named(x)' /\ Counted(x)'
    BY HomeIs DEF InterestInv, Types, CopyLocalSubs, counts, msgs, told, Named, Counted
  <2>2. Known(x)'
    BY HomeIs DEF InterestInv, Types, CopyLocalSubs, counts, msgs, told, Known
  <2>3. Withdrawn(x)'
    <3>1. CASE Home[x] # s
      <4>1. info'[Home[x]] = info[Home[x]] /\ snapshot'[Home[x]] = snapshot[Home[x]]
        BY <3>1, HomeIs DEF InterestInv, Types, CopyLocalSubs
      <4>2. /\ Withdrawn(x)
            /\ UNCHANGED <<wire, op, closed, local, remote, route, byRsid, nm, max, matched, raced, missed>>
        BY DEF InterestInv, CopyLocalSubs, counts, msgs, told
      <4>3. Clean(x)' => Clean(x)
        BY <4>1, <4>2 DEF Clean, Announcing
      <4> QED BY <4>1, <4>2, <4>3, WithdrawnStays
    <3>2. CASE Home[x] = s
      <4>1. /\ info[s] = "unread" /\ info'[s] = "copied" /\ snapshot'[s] = local[s]
            /\ UNCHANGED <<wire, op, closed, local, remote, route, byRsid, nm, max, matched, raced, missed>>
        BY DEF InterestInv, Types, CopyLocalSubs, counts, msgs, told
      <4>2. Withdrawn(x) /\ (op[x] = "new" => x \notin local[s] /\ closed[x] = "open")
        BY <3>2 DEF InterestInv, Counted
      <4>3. Clean(x)' => Clean(x) /\ ~Announcing(x) /\ ~Announcing(x)'
        BY <3>2, <4>1, <4>2 DEF Clean, Withdrawn, Announcing
      <4>4. Clean(x)' => /\ ~In(wire[s], SUB(x)) /\ <<x, 1>> \notin remote[Other(s)]
                         /\ \A k \in Limit : ~In(wire[s], UNSUB(x, k))
        BY <3>2, <4>1, <4>2, <4>3 DEF Withdrawn, Absent
      <4>5. Clean(x)' => op[x] # "sub" /\ (Told(x)' => Told(x))
        BY <4>1, <4>3 DEF Told, Announcing
      <4> QED BY <3>2, <4>1, <4>2, <4>3, <4>4, <4>5 DEF Withdrawn, Absent, Told
    <3> QED BY <3>1, <3>2
  <2> QED BY <2>1, <2>2, <2>3
<1> QED BY <1>1, <1>2, <1>3, <1>4 DEF InterestInv
-----------------------------------------------------------------------------
(* What a server announces. *)

LEMMA Appended ==
  ASSUME Types, NEW s \in Servers, NEW f \in Seq(Proto),
         wire' = [wire EXCEPT ![s] = @ \o f]
  PROVE  /\ wire' \in [Servers -> Seq(Proto)]
         /\ \A t \in Servers : t # s => wire'[t] = wire[t]
         /\ \A p : In(wire'[s], p) <=> In(wire[s], p) \/ In(f, p)
         /\ \A p, q : Precedes(wire'[s], p, q) =>
                        Precedes(wire[s], p, q) \/ (In(wire[s], p) /\ In(f, q)) \/ Precedes(f, p, q)
         /\ \A x : /\ Count(wire'[s], x) \in Nat /\ Count(wire'[s], x) >= Count(wire[s], x)
                   /\ \A p : In(f, p) /\ p.kind = "MSG" /\ p.sub = x =>
                               Count(wire'[s], x) >= Count(wire[s], x) + 1
<1>1. wire[s] \in Seq(Proto) /\ wire[s] \o f \in Seq(Proto) /\ wire'[s] = wire[s] \o f
  BY ConcatProperties DEF Types
<1>2. wire' \in [Servers -> Seq(Proto)] /\ \A t \in Servers : t # s => wire'[t] = wire[t]
  BY <1>1 DEF Types
<1> DEFINE w == wire[s]
<1> HIDE DEF w
<1>3. w \in Seq(Proto) /\ w \o f \in Seq(Proto) /\ wire'[s] = w \o f
  BY <1>1 DEF w
<1>4. \A p : In(w \o f, p) <=> In(w, p) \/ In(f, p)
  BY <1>3, InConcat
<1>5. \A p, q : Precedes(w \o f, p, q) =>
                  Precedes(w, p, q) \/ (In(w, p) /\ In(f, q)) \/ Precedes(f, p, q)
  BY <1>3, PrecedesConcat
<1>6. \A x : /\ Count(w \o f, x) \in Nat /\ Count(w \o f, x) >= Count(w, x)
             /\ \A p : In(f, p) /\ p.kind = "MSG" /\ p.sub = x => Count(w \o f, x) >= Count(w, x) + 1
  BY <1>3, CountType, CountConcat
<1> QED BY <1>2, <1>3, <1>4, <1>5, <1>6 DEF w

(* An announcement concerns no message, and no subscription of the other.       *)
LEMMA Announced ==
  ASSUME InterestInv, NEW s \in Servers, NEW f \in Seq(Proto),
         wire' = [wire EXCEPT ![s] = @ \o f],
         \A x \in Subs, m \in Msgs : ~In(f, MsgFor(x, m)),
         \A x \in Subs : Home[x] # s => ~In(f, SUB(x)) /\ \A k \in Limit : ~In(f, UNSUB(x, k)),
         UNCHANGED <<local, remote, byRsid, counts, msgs, raced>>,
         \A x \in Subs : op'[x] = "new" => op[x] = "new",
         \A t \in Servers : snapshot'[t] \subseteq snapshot[t],
         \A t \in Servers : info[t] = "sent" => info'[t] = "sent",
         \A t \in Servers : t # s => /\ route'[t] = route[t] /\ info'[t] = info[t]
                                     /\ snapshot'[t] = snapshot[t],
         \A x \in Subs : Home[x] # s => op'[x] = op[x] /\ closed'[x] = closed[x],
         \A x \in Subs : Home[x] # s => (x \in missed' <=> x \in missed)
  PROVE  /\ \A t \in Servers : Homes(t)'
         /\ \A m \in Msgs : (Once(m) /\ Reached(m))'
         /\ \A x \in Subs : Named(x)'
         /\ \A x \in Subs : Home[x] # s => (Counted(x) /\ Known(x) /\ Withdrawn(x))'
<1> USE DEF counts, msgs
<1>0. Types
  BY DEF InterestInv
<1>1. /\ wire' \in [Servers -> Seq(Proto)]
      /\ \A t \in Servers : t # s => wire'[t] = wire[t]
      /\ \A p : In(wire'[s], p) <=> In(wire[s], p) \/ In(f, p)
      /\ \A p, q : Precedes(wire'[s], p, q) =>
                     Precedes(wire[s], p, q) \/ (In(wire[s], p) /\ In(f, q)) \/ Precedes(f, p, q)
      /\ \A x : Count(wire'[s], x) \in Nat /\ Count(wire'[s], x) >= Count(wire[s], x)
  BY <1>0, Appended
<1>2. ASSUME NEW t \in Servers PROVE Homes(t)'
  <2>1. Homes(t)
    BY DEF InterestInv
  <2>2. CASE t # s
    BY <1>1, <2>1, <2>2 DEF Homes
  <2>3. CASE t = s
    BY <1>1, <2>1, <2>3 DEF Homes
  <2> QED BY <2>2, <2>3
<1>3. ASSUME NEW m \in Msgs PROVE (Once(m) /\ Reached(m))'
  <2> DEFINE o == Origin[m]
  <2>1. o \in Servers /\ due[m] \subseteq Plain /\ Once(m) /\ Reached(m)
    BY MsgsAssumption DEF InterestInv, Types
  <2>2. /\ \A x \in Subs : In(wire'[o], MsgFor(x, m)) <=> In(wire[o], MsgFor(x, m))
        /\ \A x, y \in Subs : Precedes(wire'[o], MsgFor(x, m), MsgFor(y, m)) =>
                                Precedes(wire[o], MsgFor(x, m), MsgFor(y, m))
    <3>1. CASE o # s
      BY <1>1, <2>1, <3>1
    <3>2. CASE o = s
      BY <1>1, <3>2, PrecedesIn
    <3> QED BY <3>1, <3>2
  <2>3. Once(m)'
    BY <2>1, <2>2, OnceStays
  <2>4. Reached(m)'
    BY <2>1, <2>2, ReachedStays
  <2> QED BY <2>3, <2>4
<1>4. ASSUME NEW x \in Subs PROVE Named(x)'
  BY DEF InterestInv, Named
<1>5. ASSUME NEW x \in Subs, Home[x] # s PROVE (Counted(x) /\ Known(x) /\ Withdrawn(x))'
  <2> DEFINE h == Home[x]
  <2>1. h \in Servers /\ h # s /\ Other(h) = s /\ Counted(x) /\ Known(x) /\ Withdrawn(x)
    BY <1>5, HomeIs, Others DEF InterestInv
  <2>2. /\ wire'[h] = wire[h] /\ op'[x] = op[x] /\ route'[h] = route[h] /\ info'[h] = info[h]
        /\ closed'[x] = closed[x] /\ snapshot'[h] = snapshot[h] /\ (x \in missed' <=> x \in missed)
    BY <1>1, <1>5, <2>1
  <2>3. /\ nm[x] \in Nat /\ \A n \in {1, 2} : nm[<<x, n>>] \in Nat
        /\ Count(wire[s], x) \in Nat /\ Count(wire'[s], x) \in Nat
        /\ Count(wire'[s], x) >= Count(wire[s], x)
    BY <1>0, <1>1, Counts
  <2>4. Counted(x)'
    BY <2>1, <2>2, <2>3, CountedStays
  <2>5. Known(x)'
    <3> HIDE DEF h
    <3>1. max[x] > 0 /\ nm[x] + Count(wire[s], x) >= max[x] =>
             max[x] > 0 /\ nm[x] + Count(wire'[s], x) >= max[x]
      BY <1>0, <2>3, Counts
    <3> QED BY <2>1, <2>2, <3>1 DEF Known, h
  <2>6. Clean(x)' => Clean(x)
    BY <2>2 DEF Clean, Announcing
  <2>7. Withdrawn(x)'
    BY <2>1, <2>2, <2>6, WithdrawnStays
  <2> QED BY <2>4, <2>5, <2>7
<1> QED BY <1>2, <1>3, <1>4, <1>5

LEMMA ImageFinite ==
  ASSUME NEW S, IsFiniteSet(S), NEW f, DOMAIN f = S
  PROVE  IsFiniteSet({f[x] : x \in S})
<1> DEFINE T == {f[x] : x \in S}
           g == [x \in S |-> f[x]]
<1>1. g \in [S -> T] /\ \A y \in T : \E x \in S : g[x] = y
  OBVIOUS
<1>2. g \in Surjection(S, T)
  BY <1>1 DEF Surjection
<1> HIDE DEF T, g
<1>3. IsFiniteSet(T)
  BY <1>2, FS_Surjection
<1> QED BY <1>3 DEF T
LEMMA SendLocalSubsInv ==
  ASSUME InterestInv, NEW s \in Servers, sendLocalSubsToRoute(s) PROVE InterestInv'
<1> USE DEF counts, msgs, told
<1>1. PICK f \in SetToSeqs(LocalSubs(s)) : wire' = [wire EXCEPT ![s] = @ \o f]
  BY DEF sendLocalSubsToRoute
<1>2. /\ f \in Seq(Proto)
      /\ \A p : In(f, p) <=> p \in LocalSubs(s)
      /\ \A p : ~Precedes(f, p, p)
  <2>1. snapshot[s] \subseteq Subs
    BY DEF InterestInv, Types
  <2> DEFINE g == [x \in snapshot[s] |-> SUB(x)]
  <2>2. LocalSubs(s) = {g[x] : x \in snapshot[s]}
    BY DEF LocalSubs
  <2>3. IsFiniteSet(snapshot[s])
    BY <2>1, SubsAssumption, FS_Subset
  <2>4. IsFiniteSet(LocalSubs(s))
    <3>1. DOMAIN g = snapshot[s]
      OBVIOUS
    <3> HIDE DEF g
    <3> QED BY <2>2, <2>3, <3>1, ImageFinite
  <2>5. LocalSubs(s) \subseteq Proto
    BY <2>1, ProtoHas DEF LocalSubs
  <2> QED BY <2>4, <2>5, Permutation
<1>3. /\ \A x \in Subs : In(f, SUB(x)) <=> x \in snapshot[s]
      /\ \A x \in Subs, m \in Msgs : ~In(f, MsgFor(x, m))
      /\ \A x, k : ~In(f, UNSUB(x, k))
  BY <1>2, Kinds DEF LocalSubs
<1>4. /\ info[s] = "copied" /\ info'[s] = "sent" /\ snapshot'[s] = {}
      /\ \A t \in Servers : t # s => info'[t] = info[t] /\ snapshot'[t] = snapshot[t]
      /\ UNCHANGED <<present, route, local, remote, byRsid, counts, op, closed, msgs, told>>
  BY DEF sendLocalSubsToRoute, InterestInv, Types
<1>5. /\ \A t \in Servers : Homes(t)'
      /\ \A m \in Msgs : (Once(m) /\ Reached(m))'
      /\ \A x \in Subs : Named(x)'
      /\ \A x \in Subs : Home[x] # s => (Counted(x) /\ Known(x) /\ Withdrawn(x))'
  <2>1. \A x \in Subs : Home[x] # s => x \notin snapshot[s]
    BY DEF InterestInv, Homes
  <2> QED BY <1>1, <1>2, <1>3, <1>4, <2>1, Announced
<1>6. Types
  BY DEF InterestInv
<1>7. /\ wire' \in [Servers -> Seq(Proto)]
      /\ \A t \in Servers : t # s => wire'[t] = wire[t]
      /\ \A p : In(wire'[s], p) <=> In(wire[s], p) \/ In(f, p)
      /\ \A p, q : Precedes(wire'[s], p, q) =>
                     Precedes(wire[s], p, q) \/ (In(wire[s], p) /\ In(f, q)) \/ Precedes(f, p, q)
  BY <1>1, <1>2, <1>6, Appended
<1>8. Types'
  BY <1>7 DEF sendLocalSubsToRoute, InterestInv, Types
<1>9. ASSUME NEW t \in Servers PROVE Up(t)'
  BY <1>4, <1>7 DEF InterestInv, Up
<1>10. ASSUME NEW x \in Subs, Home[x] = s PROVE (Counted(x) /\ Known(x) /\ Withdrawn(x))'
  <2>1. /\ s # Other(s) /\ Other(s) \in Servers /\ Counted(x) /\ Known(x) /\ Withdrawn(x) /\ Up(s)
        /\ nm[x] \in Nat /\ \A n \in {1, 2} : nm[<<x, n>>] \in Nat
        /\ Count(wire[Other(s)], x) \in Nat
    BY <1>6, <1>10, Others, Counts DEF InterestInv
  <2>2. /\ x \in snapshot[s] => op[x] # "new"
        /\ In(wire'[s], SUB(x)) => In(wire[s], SUB(x)) \/ op[x] # "new"
    BY <1>3, <1>7, <1>10, <2>1 DEF Counted
  <2>3. Counted(x)'
    <3>1. /\ \A k : In(wire'[s], UNSUB(x, k)) <=> In(wire[s], UNSUB(x, k))
          /\ wire'[Other(s)] = wire[Other(s)] /\ x \notin snapshot'[s]
      BY <1>3, <1>4, <1>7, <2>1
    <3> QED BY <1>4, <1>10, <2>1, <2>2, <3>1, CountedStays
  <2>4. Known(x)'
    BY <1>3, <1>4, <1>7, <1>10, <2>1 DEF Known
  <2>5. Withdrawn(x)'
    <3> SUFFICES ASSUME Clean(x)' PROVE Withdrawn(x)'
      BY DEF Withdrawn
    <3>1. Clean(x)
      BY <1>4, <1>10 DEF Clean, Announcing
    <3>2. 0 \in Limit /\ \A k \in Limit : In(wire'[s], UNSUB(x, k)) <=> In(wire[s], UNSUB(x, k))
      BY <1>3, <1>7, LimitIs
    <3>3. CASE x \notin snapshot[s]
      <4>1. /\ In(wire'[s], SUB(x)) => In(wire[s], SUB(x))
            /\ \A p : Precedes(wire'[s], p, SUB(x)) => Precedes(wire[s], p, SUB(x))
        BY <1>3, <1>7, <3>3, PrecedesIn
      <4>2. Absent(x) => Absent(x)'
        BY <1>4, <1>10, <4>1 DEF Absent
      <4> QED BY <1>4, <1>10, <2>1, <3>1, <3>2, <4>1, <4>2 DEF Withdrawn, Announcing, Told
    <3>4. CASE x \in snapshot[s]
      <4>1. /\ ~In(wire[s], SUB(x)) /\ <<x, 1>> \notin remote[Other(s)]
            /\ \A k \in Limit : ~In(wire[s], UNSUB(x, k))
            /\ op[x] \notin {"new", "sub"} /\ (Told(x) => nm[x] < max[x])
        BY <1>10, <2>1, <3>1, <3>2, <3>4 DEF Withdrawn, Absent
      <4>2. ~Precedes(wire'[s], SUB(x), SUB(x))
        BY <1>2, <1>3, <1>7, <4>1, PrecedesIn
      <4>3. \A k \in Limit : ~Precedes(wire'[s], UNSUB(x, k), SUB(x))
        BY <1>3, <1>7, <4>1, PrecedesIn
      <4>4. (Announcing(x)' <=> Announcing(x)) /\ (Told(x)' => Told(x))
        BY <1>4 DEF Announcing, Told
      <4> QED BY <1>4, <1>10, <2>1, <3>1, <3>2, <4>1, <4>2, <4>3, <4>4 DEF Withdrawn
    <3> QED BY <3>3, <3>4
  <2> QED BY <2>3, <2>4, <2>5
<1> QED BY <1>5, <1>8, <1>9, <1>10 DEF InterestInv

(* A step of a client that announces nothing.                                   *)
LEMMA ProcessSubInv ==
  ASSUME InterestInv, NEW y \in Subs, processSub(y) PROVE InterestInv'
<1> USE DEF linking, counts, msgs, told
<1> DEFINE s == Home[y]
<1>1. /\ op[y] = "new" /\ op'[y] = "sub"
      /\ \A x \in Subs : x # y => op'[x] = op[x] /\ (x \in local'[Home[x]] <=> x \in local[Home[x]])
      /\ y \in local'[s] /\ \A t \in Servers : local'[t] \subseteq local[t] \union {y}
      /\ \A t \in Servers : t # s => local'[t] = local[t]
      /\ raced' = raced \/ raced' = raced \union {y}
      /\ route[s] = "registered" /\ info[s] # "sent" => y \in raced'
      /\ UNCHANGED <<linking, wire, remote, byRsid, counts, closed, msgs, missed>>
  BY HomeIs DEF InterestInv, Types, processSub, Races, Racing
<1>2. Types'
  BY HomeIs DEF InterestInv, Types, processSub
<1>3. ASSUME NEW t \in Servers PROVE (Homes(t) /\ Up(t))'
  BY <1>1 DEF InterestInv, Homes, Up
<1>4. ASSUME NEW m \in Msgs PROVE (Once(m) /\ Reached(m))'
  <2>1. Once(m) /\ Reached(m) /\ due[m] \subseteq Plain
    BY DEF InterestInv, Types
  <2>2. Once(m)'
    BY <1>1, <2>1, OnceStays
  <2>3. \A x \in Subs : op[x] # "new" => x # y
    BY <1>1
  <2>4. Reached(m)'
    BY <1>1, <2>1, <2>3, ReachedStays
  <2> QED BY <2>2, <2>4
<1>5. ASSUME NEW x \in Subs, x # y PROVE (Named(x) /\ Counted(x) /\ Known(x) /\ Withdrawn(x))'
  <2>1. Named(x) /\ Counted(x) /\ Known(x) /\ Withdrawn(x)
    BY DEF InterestInv
  <2>2. Clean(x)' => Clean(x)
    BY <1>1, <1>5 DEF Clean, Announcing
  <2>3. (Named(x) /\ Counted(x) /\ Known(x))'
    BY <1>1, <1>5, <2>1 DEF Named, Counted, Known
  <2>4. Withdrawn(x)'
    BY <1>1, <1>5, <2>1, <2>2, WithdrawnStays
  <2> QED BY <2>3, <2>4
<1>6. (Named(y) /\ Counted(y) /\ Known(y) /\ Withdrawn(y))'
  <2>1. Named(y) /\ Counted(y) /\ Known(y) /\ Withdrawn(y)
        /\ <<y, 1>> \notin remote[Other(s)] /\ <<y, 2>> \notin remote[Other(s)]
        /\ closed[y] = "open"
    BY <1>1 DEF InterestInv, Counted
  <2>2. (Named(y) /\ Counted(y) /\ Known(y))'
    BY <1>1, <2>1 DEF Named, Counted, Known
  <2>3. Clean(y)' => Clean(y) /\ (route[s] = "registered" => info[s] = "sent")
    BY <1>1, <2>1 DEF Clean, Announcing
  <2>4. Absent(y) => Absent(y)'
    BY <1>1 DEF Absent
  <2>5. Withdrawn(y)'
    BY <1>1, <2>1, <2>3, <2>4 DEF Withdrawn, Announcing, Told
  <2> QED BY <2>2, <2>5
<1> QED BY <1>2, <1>3, <1>4, <1>5, <1>6 DEF InterestInv

LEMMA ProcessUnsubInv ==
  ASSUME InterestInv, NEW y \in Subs, NEW limit \in Maxes, processUnsub(y, limit)
  PROVE  InterestInv'
<1> USE DEF linking, counts, msgs, told
<1> DEFINE s == Home[y]
<1>0. limit \in Nat /\ limit \in Limit /\ nm[y] \in Nat
  BY MaxesAssumption DEF Limit, InterestInv, Types
<1>1. /\ op[y] = "idle" /\ op'[y] = "unsub"
      /\ max'[y] = limit /\ \A z \in Subs \union Entry : z # y => max'[z] = max[z]
      /\ y \in local'[s] <=> y \in local[s] /\ limit > 0 /\ nm[y] < limit
      /\ \A x \in Subs : x # y => op'[x] = op[x] /\ (x \in local'[Home[x]] <=> x \in local[Home[x]])
      /\ \A t \in Servers : local'[t] \subseteq local[t]
      /\ \A t \in Servers : t # s => local'[t] = local[t]
      /\ raced' = raced \/ raced' = raced \union {y}
      /\ route[s] = "registered" /\ info[s] # "sent" => y \in raced'
      /\ UNCHANGED <<linking, wire, remote, byRsid, nm, closed, msgs, missed>>
  BY HomeIs DEF InterestInv, Types, processUnsub, Races, Racing
<1>2. Types'
  BY <1>0, HomeIs DEF InterestInv, Types, processUnsub
<1>3. ASSUME NEW t \in Servers PROVE (Homes(t) /\ Up(t))'
  BY <1>1 DEF InterestInv, Homes, Up
<1>4. ASSUME NEW m \in Msgs PROVE (Once(m) /\ Reached(m))'
  <2>1. Once(m) /\ Reached(m) /\ due[m] \subseteq Plain
    BY DEF InterestInv, Types
  <2>2. Once(m)'
    BY <1>1, <2>1, OnceStays
  <2>3. \A x \in Subs : /\ x \in local'[Home[x]] => x \in local[Home[x]]
                        /\ x \in local'[Home[x]] /\ max[x] > 0 => max'[x] > 0
    BY <1>0, <1>1
  <2>4. Reached(m)'
    BY <1>1, <2>1, <2>3, ReachedStays
  <2> QED BY <2>2, <2>4
<1>5. ASSUME NEW x \in Subs, x # y PROVE (Named(x) /\ Counted(x) /\ Known(x) /\ Withdrawn(x))'
  <2>1. Named(x) /\ Counted(x) /\ Known(x) /\ Withdrawn(x)
        /\ max'[x] = max[x] /\ \A n \in {1, 2} : max'[<<x, n>>] = max[<<x, n>>]
    BY <1>1, <1>5, EntryIs DEF InterestInv
  <2>2. Clean(x)' => Clean(x)
    BY <1>1, <1>5 DEF Clean, Announcing
  <2>3. (Named(x) /\ Counted(x) /\ Known(x))'
    BY <1>1, <1>5, <2>1 DEF Named, Counted, Known
  <2>4. Withdrawn(x)'
    BY <1>1, <1>5, <2>1, <2>2, WithdrawnStays
  <2> QED BY <2>3, <2>4
<1>6. (Named(y) /\ Counted(y) /\ Known(y) /\ Withdrawn(y))'
  <2>1. Named(y) /\ Counted(y) /\ Known(y) /\ Withdrawn(y)
        /\ \A n \in {1, 2} : max'[<<y, n>>] = max[<<y, n>>]
    BY <1>1, EntryIs DEF InterestInv
  <2>2. Named(y)' /\ Counted(y)'
    BY <1>0, <1>1, <2>1 DEF Named, Counted
  <2>3. Known(y)'
    BY <1>1, <2>1 DEF Known, Counted
  <2>4. Clean(y)' => Clean(y) /\ (route[s] = "registered" => info[s] = "sent")
    BY <1>1 DEF Clean, Announcing
  <2>5. Absent(y) => Absent(y)'
    BY <1>1 DEF Absent
  <2>6. Told(y)' => Told(y) /\ ~(nm[y] < max[y])
    <3>1. Told(y)' => closed[y] = "closed"
      BY <1>1 DEF Told
    <3>2. closed[y] = "closed" => y \notin local[s]
      BY <2>1 DEF Counted
    <3> QED BY <1>0, <1>1, <2>1, <3>1, <3>2 DEF Told, Counted
  <2>7. Withdrawn(y)'
    BY <1>1, <2>1, <2>4, <2>5, <2>6 DEF Withdrawn, Announcing
  <2> QED BY <2>2, <2>3, <2>7
<1> QED BY <1>2, <1>3, <1>4, <1>5, <1>6 DEF InterestInv

LEMMA CloseInv ==
  ASSUME InterestInv, NEW y \in Subs, closeConnection(y) PROVE InterestInv'
<1> USE DEF linking, counts, msgs, told
<1> DEFINE s == Home[y]
<1>1. /\ closed[y] = "open" /\ closed'[y] = "closing" /\ y \in local[s] /\ y \notin local'[s]
      /\ \A x \in Subs : x # y =>
            closed'[x] = closed[x] /\ (x \in local'[Home[x]] <=> x \in local[Home[x]])
      /\ \A t \in Servers : local'[t] \subseteq local[t]
      /\ \A t \in Servers : t # s => local'[t] = local[t]
      /\ raced' = raced \/ raced' = raced \union {y}
      /\ op[y] = "sub" \/ (route[s] = "registered" /\ info[s] # "sent") => y \in raced'
      /\ UNCHANGED <<linking, wire, remote, byRsid, counts, op, msgs, missed>>
  BY HomeIs DEF InterestInv, Types, closeConnection, Racing
<1>2. Types'
  BY HomeIs DEF InterestInv, Types, closeConnection
<1>3. ASSUME NEW t \in Servers PROVE (Homes(t) /\ Up(t))'
  BY <1>1 DEF InterestInv, Homes, Up
<1>4. ASSUME NEW m \in Msgs PROVE (Once(m) /\ Reached(m))'
  <2>1. Once(m) /\ Reached(m) /\ due[m] \subseteq Plain
    BY DEF InterestInv, Types
  <2>2. Once(m)'
    BY <1>1, <2>1, OnceStays
  <2>3. \A x \in Subs : x \in local'[Home[x]] => x \in local[Home[x]]
    BY <1>1
  <2>4. Reached(m)'
    BY <1>1, <2>1, <2>3, ReachedStays
  <2> QED BY <2>2, <2>4
<1>5. ASSUME NEW x \in Subs, x # y PROVE (Named(x) /\ Counted(x) /\ Known(x) /\ Withdrawn(x))'
  <2>1. Named(x) /\ Counted(x) /\ Known(x) /\ Withdrawn(x)
    BY DEF InterestInv
  <2>2. Clean(x)' => Clean(x)
    BY <1>1, <1>5 DEF Clean, Announcing
  <2>3. (Named(x) /\ Counted(x) /\ Known(x))'
    BY <1>1, <1>5, <2>1 DEF Named, Counted, Known
  <2>4. Withdrawn(x)'
    BY <1>1, <1>5, <2>1, <2>2, WithdrawnStays
  <2> QED BY <2>3, <2>4
<1>6. (Named(y) /\ Counted(y) /\ Known(y) /\ Withdrawn(y))'
  <2>1. Named(y) /\ Counted(y) /\ Known(y) /\ Withdrawn(y) /\ op[y] # "new"
    BY <1>1 DEF InterestInv, Counted
  <2>2. (Named(y) /\ Counted(y) /\ Known(y))'
    BY <1>1, <2>1 DEF Named, Counted, Known
  <2>3. Clean(y)' => Clean(y) /\ op[y] # "sub" /\ (route[s] = "registered" => info[s] = "sent")
    BY <1>1 DEF Clean, Announcing
  <2>4. (Absent(y) => Absent(y)') /\ ~Told(y)'
    BY <1>1 DEF Absent, Told
  <2>5. Withdrawn(y)'
    BY <1>1, <2>1, <2>3, <2>4 DEF Withdrawn, Announcing
  <2> QED BY <2>2, <2>5
<1> QED BY <1>2, <1>3, <1>4, <1>5, <1>6 DEF InterestInv

LEMMA BroadcastSubscribeInv ==
  ASSUME InterestInv, NEW y \in Subs, broadcastSubscribe(y) PROVE InterestInv'
<1> USE DEF linking, counts, msgs
<1> DEFINE s == Home[y]
           f == IF route[s] = "registered" THEN <<SUB(y)>> ELSE <<>>
<1>1. /\ s \in Servers /\ Types /\ wire' = [wire EXCEPT ![s] = @ \o f]
      /\ op[y] = "sub" /\ op'[y] = "idle" /\ \A x \in Subs : x # y => op'[x] = op[x]
      /\ UNCHANGED <<linking, local, remote, byRsid, counts, closed, msgs, raced>>
      /\ missed \subseteq missed' /\ \A x \in Subs : x # y => (x \in missed' <=> x \in missed)
      /\ route[s] # "registered" /\ info[s] # "unread" => y \in missed'
  BY HomeIs DEF InterestInv, Types, broadcastSubscribe, broadcastToRoutes, Misses
<1>2. /\ f \in Seq(Proto) /\ \A p : In(f, p) <=> route[s] = "registered" /\ p = SUB(y)
      /\ \A p : ~Precedes(f, p, p)
  <2>1. <<SUB(y)>> \in Seq(Proto) /\ <<>> \in Seq(Proto)
    BY ProtoHas
  <2>2. \A p : ~Precedes(<<SUB(y)>>, p, p) /\ ~Precedes(<<>>, p, p)
    BY DEF Precedes
  <2> QED BY <2>1, <2>2, InOne, InEmpty
<1> HIDE DEF f, s
<1>3. /\ \A x \in Subs : In(f, SUB(x)) => x = y /\ Home[x] = s
      /\ \A x, m : ~In(f, MsgFor(x, m))
      /\ \A x, k : ~In(f, UNSUB(x, k))
  BY <1>2, Kinds DEF s
<1>4. /\ \A t \in Servers : Homes(t)'
      /\ \A m \in Msgs : (Once(m) /\ Reached(m))'
      /\ \A x \in Subs : Named(x)'
      /\ \A x \in Subs : Home[x] # s => (Counted(x) /\ Known(x) /\ Withdrawn(x))'
  <2>1. \A x \in Subs : Home[x] # s => x # y
    BY DEF s
  <2> QED BY <1>1, <1>2, <1>3, <2>1, Announced
<1>5. /\ wire' \in [Servers -> Seq(Proto)]
      /\ \A t \in Servers : t # s => wire'[t] = wire[t]
      /\ \A p : In(wire'[s], p) <=> In(wire[s], p) \/ In(f, p)
      /\ \A p, q : Precedes(wire'[s], p, q) =>
                     Precedes(wire[s], p, q) \/ (In(wire[s], p) /\ In(f, q)) \/ Precedes(f, p, q)
  BY <1>1, <1>2, Appended
<1>6. Types'
  BY <1>1, <1>5 DEF broadcastSubscribe, Types
<1>7. ASSUME NEW t \in Servers PROVE Up(t)'
  <2>1. Up(t) /\ (t = s /\ route[s] # "registered" => wire'[s] = wire[s])
    <3>1. route[s] # "registered" => f = <<>>
      BY DEF f
    <3>2. wire[s] \o <<>> = wire[s]
      BY <1>1, ConcatEmptySeq DEF Types
    <3> QED BY <1>1, <3>1, <3>2 DEF InterestInv, Types
  <2> QED BY <1>1, <1>5, <2>1 DEF Up
<1>8. ASSUME NEW x \in Subs, Home[x] = s PROVE (Counted(x) /\ Known(x) /\ Withdrawn(x))'
  <2>1. /\ Counted(x) /\ Known(x) /\ Withdrawn(x) /\ Other(s) # s /\ Other(s) \in Servers
        /\ wire'[Other(s)] = wire[Other(s)]
        /\ \A k : In(wire'[s], UNSUB(x, k)) <=> In(wire[s], UNSUB(x, k))
    BY <1>1, <1>3, <1>5, Others DEF InterestInv
  <2>2. CASE x # y
    <3>1. /\ op'[x] = op[x] /\ (x \in missed' <=> x \in missed)
          /\ In(wire'[s], SUB(x)) <=> In(wire[s], SUB(x))
          /\ \A p : Precedes(wire'[s], p, SUB(x)) => Precedes(wire[s], p, SUB(x))
      BY <1>1, <1>3, <1>5, <2>2, PrecedesIn
    <3>2. Counted(x)'
      BY <1>1, <1>8, <2>1, <3>1 DEF Counted
    <3>3. Known(x)'
      BY <1>1, <1>8, <2>1, <3>1 DEF Known
    <3>4. Clean(x)' => Clean(x)
      BY <1>1, <3>1 DEF Clean, Announcing
    <3>5. Withdrawn(x)'
      BY <1>1, <1>8, <2>1, <3>1, <3>4, WithdrawnStays
    <3> QED BY <3>2, <3>3, <3>5
  <2>3. CASE x = y
    <3>1. Counted(x)'
      BY <1>1, <1>8, <2>1, <2>3 DEF Counted
    <3>2. Known(x)'
      BY <1>1, <1>2, <1>5, <1>8, <2>1, <2>3 DEF Known
    <3>3. Withdrawn(x)'
      <4> SUFFICES ASSUME Clean(x)' PROVE Withdrawn(x)'
        BY DEF Withdrawn
      <4>1. Clean(x)
        BY <1>1, <1>8, <2>3 DEF Clean
      <4>2. /\ Absent(x) /\ (route[s] = "registered" => info[s] = "sent")
            /\ \A k \in Limit : ~In(wire[s], UNSUB(x, k))
            /\ closed[x] = "open" /\ ~Announcing(x)' /\ ~Told(x)'
        BY <1>1, <1>8, <2>1, <2>3, <4>1 DEF Withdrawn, Counted, Announcing, Told
      <4>3. /\ ~Precedes(wire'[s], SUB(x), SUB(x))
            /\ \A k \in Limit : ~Precedes(wire'[s], UNSUB(x, k), SUB(x))
        BY <1>2, <1>3, <1>5, <1>8, <4>2, PrecedesIn DEF Absent
      <4>4. info[s] = "unread" => ~In(wire'[s], SUB(x))
        BY <1>2, <1>5, <1>8, <4>2 DEF Absent
      <4> QED BY <1>1, <1>8, <2>1, <2>3, <4>1, <4>2, <4>3, <4>4 DEF Withdrawn, Absent
    <3> QED BY <3>1, <3>2, <3>3
  <2> QED BY <2>2, <2>3
<1> QED BY <1>4, <1>6, <1>7, <1>8 DEF InterestInv

(* Of a client's UNSUB, or of the end of its connection.                        *)
LEMMA BroadcastUnsubInv ==
  ASSUME InterestInv, NEW y \in Subs, BroadcastUnsub(y) \/ BroadcastClose(y) PROVE InterestInv'
<1> USE DEF linking, counts, msgs
<1> DEFINE s == Home[y]
           k == IF max[y] > 0 /\ nm[y] < max[y] THEN max[y] ELSE 0
           f == IF route[s] = "registered" THEN <<UNSUB(y, k)>> ELSE <<>>
<1>0. k \in Limit /\ broadcastUnSubscribe(y) = UNSUB(y, k) /\ (y \in local[s] => k # 0)
  <2>1. y \in local[s] => nm[y] < max[y]
    BY DEF InterestInv, Counted, BroadcastUnsub, BroadcastClose
  <2>2. nm[y] \in Nat /\ max[y] \in Limit /\ max[y] \in Nat /\ 0 \in Limit
    BY Counts, LimitIs DEF InterestInv, Types
  <2> QED BY <2>1, <2>2 DEF broadcastUnSubscribe
<1>1. /\ s \in Servers /\ Types /\ wire' = [wire EXCEPT ![s] = @ \o f]
      /\ Announcing(y)
      /\ \/ op[y] = "unsub" /\ op'[y] = "last" /\ closed'[y] = closed[y]
         \/ closed[y] = "closing" /\ closed'[y] = "closed" /\ op'[y] = op[y]
      /\ \A x \in Subs : x # y => op'[x] = op[x] /\ closed'[x] = closed[x]
      /\ UNCHANGED <<linking, local, remote, byRsid, counts, msgs, raced>>
      /\ missed \subseteq missed' /\ \A x \in Subs : x # y => (x \in missed' <=> x \in missed)
      /\ route[s] # "registered" /\ info[s] # "unread" => y \in missed'
  <2>1. Types
    BY DEF InterestInv
  <2>2. \/ op[y] = "unsub" /\ op' = [op EXCEPT ![y] = "last"] /\ closed' = closed
        \/ closed[y] = "closing" /\ closed' = [closed EXCEPT ![y] = "closed"] /\ op' = op
    BY DEF BroadcastUnsub, BroadcastClose
  <2>3. /\ wire' = [wire EXCEPT ![s] = @ \o broadcastToRoutes(s, <<broadcastUnSubscribe(y)>>)]
        /\ Misses(s, {y}) /\ UNCHANGED <<linking, local, remote, byRsid, counts, msgs, raced>>
    BY DEF BroadcastUnsub, BroadcastClose
  <2>4. /\ Announcing(y)
        /\ \/ op[y] = "unsub" /\ op'[y] = "last" /\ closed'[y] = closed[y]
           \/ closed[y] = "closing" /\ closed'[y] = "closed" /\ op'[y] = op[y]
        /\ \A x \in Subs : x # y => op'[x] = op[x] /\ closed'[x] = closed[x]
    BY <2>1, <2>2 DEF Types, Announcing
  <2>5. broadcastToRoutes(s, <<broadcastUnSubscribe(y)>>) = f
    BY <1>0 DEF broadcastToRoutes
  <2> HIDE DEF f
  <2> QED BY <2>1, <2>3, <2>4, <2>5, HomeIs DEF Misses
<1> HIDE DEF k
<1>2. f \in Seq(Proto) /\ \A p : In(f, p) <=> route[s] = "registered" /\ p = UNSUB(y, k)
  <2>1. <<UNSUB(y, k)>> \in Seq(Proto) /\ <<>> \in Seq(Proto)
    BY <1>0, ProtoHas
  <2> QED BY <2>1, InOne, InEmpty
<1> HIDE DEF f, s
<1>3. /\ \A x, m : ~In(f, MsgFor(x, m)) /\ ~In(f, SUB(x))
      /\ \A x, n : In(f, UNSUB(x, n)) => x = y /\ n = k
  BY <1>2, Kinds
<1>4. /\ \A t \in Servers : Homes(t)'
      /\ \A m \in Msgs : (Once(m) /\ Reached(m))'
      /\ \A x \in Subs : Named(x)'
      /\ \A x \in Subs : Home[x] # s => (Counted(x) /\ Known(x) /\ Withdrawn(x))'
  <2>1. /\ \A x \in Subs : Home[x] # s => op'[x] = op[x] /\ closed'[x] = closed[x]
        /\ \A x \in Subs : Home[x] # s => (x \in missed' <=> x \in missed)
        /\ \A x \in Subs : Home[x] # s => ~In(f, SUB(x)) /\ \A n \in Limit : ~In(f, UNSUB(x, n))
        /\ \A x \in Subs, m \in Msgs : ~In(f, MsgFor(x, m))
        /\ \A x \in Subs : op'[x] = "new" => op[x] = "new"
    BY <1>1, <1>3 DEF s
  <2>2. s \in Servers /\ f \in Seq(Proto) /\ wire' = [wire EXCEPT ![s] = @ \o f]
    BY <1>1, <1>2
  <2>3. /\ UNCHANGED <<local, remote, byRsid, counts, msgs, raced>>
        /\ \A t \in Servers : snapshot'[t] \subseteq snapshot[t]
        /\ \A t \in Servers : info[t] = "sent" => info'[t] = "sent"
        /\ \A t \in Servers : t # s => /\ route'[t] = route[t] /\ info'[t] = info[t]
                                       /\ snapshot'[t] = snapshot[t]
    BY <1>1
  <2> QED BY <2>1, <2>2, <2>3, Announced
<1>5. /\ wire' \in [Servers -> Seq(Proto)]
      /\ \A t \in Servers : t # s => wire'[t] = wire[t]
      /\ \A p : In(wire'[s], p) <=> In(wire[s], p) \/ In(f, p)
      /\ \A p, q : Precedes(wire'[s], p, q) =>
                     Precedes(wire[s], p, q) \/ (In(wire[s], p) /\ In(f, q)) \/ Precedes(f, p, q)
  BY <1>1, <1>2, Appended
<1>6. Types'
  <2>1. \/ op' = [op EXCEPT ![y] = "last"] /\ closed' = closed
        \/ closed' = [closed EXCEPT ![y] = "closed"] /\ op' = op
    BY DEF BroadcastUnsub, BroadcastClose
  <2>2. /\ op' \in [Subs -> {"new", "sub", "idle", "unsub", "last"}]
        /\ closed' \in [Subs -> {"open", "closing", "closed"}]
    <3>1. /\ op \in [Subs -> {"new", "sub", "idle", "unsub", "last"}]
          /\ closed \in [Subs -> {"open", "closing", "closed"}]
      BY <1>1 DEF Types
    <3> QED BY <2>1, <3>1
  <2> QED BY <1>1, <1>5, <2>2 DEF Types
<1>7. ASSUME NEW t \in Servers PROVE Up(t)'
  <2>1. Up(t) /\ (t = s /\ route[s] # "registered" => wire'[s] = wire[s])
    <3>1. route[s] # "registered" => f = <<>>
      BY DEF f
    <3>2. wire[s] \o <<>> = wire[s]
      BY <1>1, ConcatEmptySeq DEF Types
    <3> QED BY <1>1, <3>1, <3>2 DEF InterestInv, Types
  <2> QED BY <1>1, <1>5, <2>1 DEF Up
<1>8. ASSUME NEW x \in Subs, Home[x] = s PROVE (Counted(x) /\ Known(x) /\ Withdrawn(x))'
  <2>1. /\ Counted(x) /\ Known(x) /\ Withdrawn(x) /\ Other(s) # s /\ Other(s) \in Servers
        /\ wire'[Other(s)] = wire[Other(s)]
        /\ In(wire'[s], SUB(x)) <=> In(wire[s], SUB(x))
        /\ \A p : Precedes(wire'[s], p, SUB(x)) => Precedes(wire[s], p, SUB(x))
    BY <1>1, <1>3, <1>5, Others, PrecedesIn DEF InterestInv
  <2>2. Known(x)'
    BY <1>1, <1>8, <2>1 DEF Known
  <2>3. CASE x # y
    <3>1. /\ op'[x] = op[x] /\ closed'[x] = closed[x] /\ (x \in missed' <=> x \in missed)
          /\ \A n : In(wire'[s], UNSUB(x, n)) <=> In(wire[s], UNSUB(x, n))
      BY <1>1, <1>3, <1>5, <2>3
    <3>2. Counted(x)'
      BY <1>1, <1>8, <2>1, <3>1 DEF Counted
    <3>3. Clean(x)' => Clean(x)
      BY <1>1, <3>1 DEF Clean, Announcing
    <3>4. Withdrawn(x)'
      BY <1>1, <1>8, <2>1, <3>1, <3>3, WithdrawnStays
    <3> QED BY <2>2, <3>2, <3>4
  <2>4. CASE x = y
    <3>1. \A n : In(wire'[s], UNSUB(x, n)) => In(wire[s], UNSUB(x, n)) \/ n = k
      BY <1>3, <1>5
    <3>2. k \in {0, max[x]} /\ (x \in local[s] => k # 0)
      BY <1>0, <2>4 DEF k, s
    <3>0. nm[x] \in Nat /\ max[x] \in Nat
      BY <1>1, Counts
    <3>3. Counted(x)'
      BY <1>1, <1>8, <2>1, <2>4, <3>1, <3>2 DEF Counted
    <3>4. Withdrawn(x)'
      <4> SUFFICES ASSUME Clean(x)' PROVE Withdrawn(x)'
        BY DEF Withdrawn
      <4>1. Clean(x)
        BY <1>1, <1>8, <2>4 DEF Clean
      <4>2. \/ route[s] = "registered" /\ info[s] = "sent"
            \/ route[s] # "registered" /\ info[s] = "unread"
        BY <1>1, <1>8, <2>1, <2>4, <4>1 DEF Withdrawn, Clean
      <4>3. x \notin snapshot[s]
        BY <1>1, <4>2 DEF InterestInv, Up
      <4>4. /\ route[s] # "registered" => \A n : In(wire'[s], UNSUB(x, n)) => In(wire[s], UNSUB(x, n))
            /\ route[s] = "registered" => nm[x] < max[x] \/ In(wire'[s], UNSUB(x, 0))
        BY <1>1, <1>2, <1>5, <2>4 DEF k
      <4>5. Absent(x) => Absent(x)'
        BY <1>1, <1>8, <2>1 DEF Absent
      <4>6. op'[x] \in {"new", "sub"} => closed'[x] = "open"
        BY <1>1, <1>8, <2>1, <2>4, <4>1 DEF Withdrawn, Counted
      <4> QED BY <1>1, <1>8, <2>1, <4>1, <4>2, <4>3, <4>4, <4>5, <4>6 DEF Withdrawn
    <3> QED BY <2>2, <3>3, <3>4
  <2> QED BY <2>3, <2>4
<1> QED BY <1>4, <1>6, <1>7, <1>8 DEF InterestInv
-----------------------------------------------------------------------------
(* What is read from the route. *)

LEMMA Popped ==
  ASSUME Types, NEW t \in Servers, wire[t] # <<>>, NEW u, u = [wire EXCEPT ![t] = Tail(@)]
  PROVE  /\ u \in [Servers -> Seq(Proto)] /\ Head(wire[t]) \in Proto
         /\ \A v \in Servers : v # t => u[v] = wire[v]
         /\ \A p : In(wire[t], p) <=> Head(wire[t]) = p \/ In(u[t], p)
         /\ \A p, q : Precedes(u[t], p, q) => Precedes(wire[t], p, q)
         /\ \A q : In(u[t], q) => Precedes(wire[t], Head(wire[t]), q)
         /\ \A x : /\ Count(u[t], x) \in Nat /\ Count(wire[t], x) <= Count(u[t], x) + 1
                   /\ ~(Head(wire[t]).kind = "MSG" /\ Head(wire[t]).sub = x) =>
                        Count(wire[t], x) <= Count(u[t], x)
<1> DEFINE w == wire[t]
<1>1. w \in Seq(Proto) /\ w # <<>> /\ Head(w) \in Proto /\ Tail(w) \in Seq(Proto)
  BY HeadTailProperties, EmptySeq DEF Types
<1>2. u \in [Servers -> Seq(Proto)] /\ u[t] = Tail(w) /\ \A v \in Servers : v # t => u[v] = wire[v]
  BY <1>1 DEF Types
<1> HIDE DEF w
<1>3. \A p : In(w, p) <=> Head(w) = p \/ In(Tail(w), p)
  BY <1>1, InTail
<1>4. /\ \A p, q : Precedes(Tail(w), p, q) => Precedes(w, p, q)
      /\ \A q : In(Tail(w), q) => Precedes(w, Head(w), q)
  BY <1>1, PrecedesTail
<1>5. \A x : /\ Count(Tail(w), x) \in Nat /\ Count(w, x) <= Count(Tail(w), x) + 1
             /\ ~(Head(w).kind = "MSG" /\ Head(w).sub = x) => Count(w, x) <= Count(Tail(w), x)
  BY <1>1, CountType, CountTail
<1> QED BY <1>1, <1>2, <1>3, <1>4, <1>5 DEF w

(* What is read of a subscription concerns no message, and no other one.        *)
LEMMA ReadOne ==
  ASSUME InterestInv, NEW s \in Servers, NEW x \in Subs,
         info[s] = "sent", wire[Other(s)] # <<>>, Home[x] = Other(s),
         Head(wire[Other(s)]).kind # "MSG", Head(wire[Other(s)]).sub = x,
         wire' = [wire EXCEPT ![Other(s)] = Tail(@)],
         remote' \in [Servers -> SUBSET Entry],
         \A t \in Servers : t # s => remote'[t] = remote[t],
         \A z \in Subs, n \in {1, 2} : z # x =>
            /\ <<z, n>> \in remote'[s] <=> <<z, n>> \in remote[s]
            /\ nm'[<<z, n>>] = nm[<<z, n>>] /\ max'[<<z, n>>] = max[<<z, n>>],
         \A z \in Subs : nm'[z] = nm[z] /\ max'[z] = max[z] /\ (z # x => byRsid'[z] = byRsid[z]),
         UNCHANGED <<linking, local, op, closed, msgs, told>>
  PROVE  /\ \A t \in Servers : (Homes(t) /\ Up(t))'
         /\ \A m \in Msgs : (Once(m) /\ Reached(m))'
         /\ \A z \in Subs : z # x => (Named(z) /\ Counted(z) /\ Known(z) /\ Withdrawn(z))'
<1> USE DEF linking, msgs, told
<1> DEFINE t == Other(s)
           p == Head(wire[t])
<1>0. Types /\ t \in Servers /\ t # s /\ Other(t) = s /\ \A v \in Servers : v = s \/ v = t
  BY Others DEF InterestInv
<1>1. /\ wire' \in [Servers -> Seq(Proto)] /\ p \in Proto
      /\ \A v \in Servers : v # t => wire'[v] = wire[v]
      /\ \A q : In(wire[t], q) <=> p = q \/ In(wire'[t], q)
      /\ \A q, r : Precedes(wire'[t], q, r) => Precedes(wire[t], q, r)
      /\ \A z : Count(wire'[t], z) \in Nat /\ Count(wire[t], z) <= Count(wire'[t], z)
  <2>1. wire[t] # <<>> /\ wire' = [wire EXCEPT ![t] = Tail(@)] /\ p.kind # "MSG"
    OBVIOUS
  <2> QED BY <1>0, <2>1, Popped
<1>2. /\ \A m \in Msgs, z \in Subs : p # MsgFor(z, m)
      /\ \A z \in Subs, k \in Limit : z # x => p # SUB(z) /\ p # UNSUB(z, k)
  BY Kinds
<1>6. ASSUME NEW z \in Subs, z # x
      PROVE  /\ In(wire'[t], SUB(z)) <=> In(wire[t], SUB(z))
             /\ \A k \in Limit : In(wire'[t], UNSUB(z, k)) <=> In(wire[t], UNSUB(z, k))
  <2>1. p # SUB(z) /\ \A k \in Limit : p # UNSUB(z, k)
    BY <1>6, Kinds
  <2> HIDE DEF p, t
  <2> QED BY <1>1, <2>1
<1>3. ASSUME NEW v \in Servers PROVE (Homes(v) /\ Up(v))'
  <2>1. Homes(v) /\ Up(v) /\ \A q : In(wire'[v], q) => In(wire[v], q)
    BY <1>0, <1>1 DEF InterestInv
  <2>2. \A e \in remote'[v] : Home[e[1]] # v
    <3> SUFFICES ASSUME NEW e \in remote'[v], v = s, e[1] # x PROVE Home[e[1]] # v
      BY <1>0, <2>1 DEF Homes
    <3>1. e[1] \in Subs /\ e[2] \in {1, 2} /\ e = <<e[1], e[2]>>
      BY EntryIs
    <3>2. e \in remote[s]
      BY <3>1
    <3> QED BY <2>1, <3>2 DEF Homes
  <2>3. Homes(v)'
    BY <2>1, <2>2 DEF Homes
  <2>4. Up(v)'
    <3>1. wire'[v] # <<>> => wire[v] # <<>>
      BY <1>0, <1>1
    <3> QED BY <1>0, <2>1, <3>1 DEF Up
  <2> QED BY <2>3, <2>4
<1>4. ASSUME NEW m \in Msgs PROVE (Once(m) /\ Reached(m))'
  <2> DEFINE o == Origin[m]
  <2>1. o \in Servers /\ due[m] \subseteq Plain /\ Once(m) /\ Reached(m)
    BY MsgsAssumption DEF InterestInv, Types
  <2>2. /\ \A z \in Subs : In(wire'[o], MsgFor(z, m)) <=> In(wire[o], MsgFor(z, m))
        /\ \A y, z \in Subs : Precedes(wire'[o], MsgFor(y, m), MsgFor(z, m)) =>
                                Precedes(wire[o], MsgFor(y, m), MsgFor(z, m))
    BY <1>0, <1>1, <1>2, <2>1
  <2>3. Once(m)'
    BY <2>1, <2>2, OnceStays
  <2>4. Reached(m)'
    <3>1. \A z \in Subs : max'[z] = max[z]
      OBVIOUS
    <3> QED BY <2>1, <2>2, <3>1, ReachedStays
  <2> QED BY <2>3, <2>4
<1>5. ASSUME NEW z \in Subs, z # x PROVE (Named(z) /\ Counted(z) /\ Known(z) /\ Withdrawn(z))'
  <2> DEFINE h == Home[z]
             g == Other(h)
  <2>1. Named(z) /\ Counted(z) /\ Known(z) /\ Withdrawn(z) /\ h \in Servers /\ g \in Servers
    BY HomeIs DEF InterestInv
  <2>2. /\ \A n \in {1, 2} : /\ <<z, n>> \in remote'[g] <=> <<z, n>> \in remote[g]
                             /\ nm'[<<z, n>>] = nm[<<z, n>>] /\ max'[<<z, n>>] = max[<<z, n>>]
        /\ nm'[z] = nm[z] /\ max'[z] = max[z] /\ byRsid'[z] = byRsid[z]
    BY <1>0, <1>5, <2>1
  <2>3. /\ In(wire'[h], SUB(z)) <=> In(wire[h], SUB(z))
        /\ \A k \in Limit : In(wire'[h], UNSUB(z, k)) <=> In(wire[h], UNSUB(z, k))
        /\ \A q, r : Precedes(wire'[h], q, r) => Precedes(wire[h], q, r)
    <3>1. CASE h # t
      BY <1>1, <2>1, <3>1
    <3>2. CASE h = t
      BY <1>1, <1>5, <1>6, <3>2
    <3> QED BY <3>1, <3>2
  <2>4. /\ Count(wire'[g], z) \in Nat /\ Count(wire[g], z) \in Nat
        /\ Count(wire'[g], z) >= Count(wire[g], z)
        /\ nm[z] \in Nat /\ max[z] \in Nat /\ \A n \in {1, 2} : nm[<<z, n>>] \in Nat
    <3>1. Count(wire[g], z) \in Nat /\ nm[z] \in Nat /\ max[z] \in Nat
          /\ \A n \in {1, 2} : nm[<<z, n>>] \in Nat
      BY <1>0, <2>1, Counts
    <3>2. CASE g = t
      BY <1>1, <3>1, <3>2
    <3>3. CASE g # t
      BY <1>1, <2>1, <3>1, <3>3
    <3> QED BY <3>1, <3>2, <3>3
  <2>5. Named(z)'
    <3>1. byRsid[z] \in {0, 1, 2}
      BY <1>0 DEF Types
    <3> QED BY <2>1, <2>2, <3>1 DEF Named
  <2>6. Counted(z)'
    BY <2>1, <2>2, <2>3, <2>4, CountedStays
  <2>7. Known(z)'
    <3>1. max[z] > 0 /\ nm[z] + Count(wire[g], z) >= max[z] =>
             max[z] > 0 /\ nm[z] + Count(wire'[g], z) >= max[z]
      <4> HIDE DEF g
      <4> QED BY <2>4
    <3> QED BY <2>1, <2>2, <2>3, <3>1 DEF Known
  <2>8. Clean(z)' => Clean(z)
    BY DEF Clean, Announcing
  <2>9. Withdrawn(z)'
    BY <2>1, <2>2, <2>3, <2>8, WithdrawnStays
  <2> QED BY <2>5, <2>6, <2>7, <2>9
<1> QED BY <1>3, <1>4, <1>5

LEMMA RouteSubInv ==
  ASSUME InterestInv, NEW s \in Servers, RouteSub(s) PROVE InterestInv'
<1> USE DEF linking, msgs, told
<1> DEFINE t == Other(s)
           w == wire[t]
<1> PICK x : x = Head(w).sub
  OBVIOUS
<1> PICK n : n = IF <<x, 1>> \in remote[s] THEN 2 ELSE 1
  OBVIOUS
<1>0. Types /\ t \in Servers /\ t # s /\ Other(t) = s /\ w # <<>> /\ info[s] = "sent"
      /\ wire' = [wire EXCEPT ![t] = Tail(@)] /\ Head(w).kind = "SUB"
  BY Others DEF InterestInv, RouteSub, Reads
<1>1. /\ wire' \in [Servers -> Seq(Proto)] /\ Head(w) \in Proto
      /\ \A v \in Servers : v # t => wire'[v] = wire[v]
      /\ \A q : In(w, q) <=> Head(w) = q \/ In(wire'[t], q)
      /\ \A q, r : Precedes(wire'[t], q, r) => Precedes(w, q, r)
      /\ \A q : In(wire'[t], q) => Precedes(w, Head(w), q)
  BY <1>0, Popped
<1>2. /\ x \in Subs /\ Head(w) = SUB(x) /\ In(w, SUB(x)) /\ Home[x] = t
      /\ \A k : UNSUB(x, k) # SUB(x)
  <2>1. x \in Subs /\ Head(w) = SUB(x) /\ Homes(t)
    BY <1>0, <1>1, ProtoIs DEF InterestInv
  <2> QED BY <1>1, <2>1, Kinds DEF Homes
<1> HIDE DEF w
<1>3. /\ <<x, n>> \in Entry /\ n \in {1, 2}
      /\ remote' = [remote EXCEPT ![s] = @ \union {<<x, n>>}]
      /\ byRsid' = [byRsid EXCEPT ![x] = n]
      /\ nm' = [nm EXCEPT ![<<x, n>>] = 0] /\ max' = [max EXCEPT ![<<x, n>>] = 0]
      /\ UNCHANGED <<linking, local, op, closed, msgs, told>>
  BY <1>2, EntryIs DEF RouteSub, w
<1>4. Types'
  BY ZenonT(60), <1>0, <1>1, <1>2, <1>3, LimitIs DEF Types
<1>5. /\ remote' \in [Servers -> SUBSET Entry] /\ remote'[s] = remote[s] \union {<<x, n>>}
      /\ \A v \in Servers : v # s => remote'[v] = remote[v]
      /\ \A y \in Subs \union Entry : y # <<x, n>> => nm'[y] = nm[y] /\ max'[y] = max[y]
      /\ nm'[<<x, n>>] = 0 /\ max'[<<x, n>>] = 0 /\ byRsid'[x] = n
      /\ \A z \in Subs : z # x => byRsid'[z] = byRsid[z]
  BY ZenonT(30), <1>0, <1>2, <1>3 DEF Types
<1>8. /\ \A z \in Subs, k \in {1, 2} : <<z, k>> # <<x, n>> =>
            nm'[<<z, k>>] = nm[<<z, k>>] /\ max'[<<z, k>>] = max[<<z, k>>]
      /\ \A z \in Subs : nm'[z] = nm[z] /\ max'[z] = max[z]
  BY <1>3, <1>5, EntryIs
<1>6. /\ \A v \in Servers : (Homes(v) /\ Up(v))'
      /\ \A m \in Msgs : (Once(m) /\ Reached(m))'
      /\ \A z \in Subs : z # x => (Named(z) /\ Counted(z) /\ Known(z) /\ Withdrawn(z))'
  <2>1. \A z \in Subs, k \in {1, 2} : z # x =>
           /\ <<z, k>> \in remote'[s] <=> <<z, k>> \in remote[s]
           /\ nm'[<<z, k>>] = nm[<<z, k>>] /\ max'[<<z, k>>] = max[<<z, k>>]
    BY <1>5, <1>8
  <2>2. Head(wire[t]).kind # "MSG" /\ Head(wire[t]).sub = x
    BY <1>0 DEF w
  <2>3. /\ info[s] = "sent" /\ wire[Other(s)] # <<>> /\ Home[x] = Other(s) /\ x \in Subs
        /\ wire' = [wire EXCEPT ![Other(s)] = Tail(@)]
        /\ UNCHANGED <<linking, local, op, closed, msgs, told>>
    BY <1>0, <1>2, <1>3 DEF w
  <2>4. \A z \in Subs : nm'[z] = nm[z] /\ max'[z] = max[z] /\ (z # x => byRsid'[z] = byRsid[z])
    BY <1>5, <1>8
  <2> HIDE DEF w
  <2> QED BY <1>5, <2>1, <2>2, <2>3, <2>4, ReadOne
<1>7. (Named(x) /\ Counted(x) /\ Known(x) /\ Withdrawn(x))'
  <2>1. /\ Counted(x) /\ Known(x) /\ Withdrawn(x) /\ wire'[s] = wire[s] /\ op'[x] = op[x]
        /\ Count(wire[s], x) \in Nat /\ nm[x] \in Nat
    BY <1>0, <1>1, <1>2, <1>3, Counts DEF InterestInv
  <2>2. \A k \in Limit : In(wire'[t], UNSUB(x, k)) <=> In(w, UNSUB(x, k))
    BY <1>1, <1>2
  <2>3. op[x] # "new" /\ (op'[x] = "new" <=> op[x] = "new")
    BY <1>0, <1>2, <2>1 DEF Counted, w
  <2>4. Named(x)' /\ Known(x)'
    BY <1>0, <1>2, <1>3, <1>5 DEF Named, Known
  <2>5. Counted(x)'
    <3>1. \A k \in {1, 2} : max'[<<x, k>>] \in {0, max[<<x, k>>]}
      BY <1>2, <1>5, <1>8
    <3>2. ASSUME NEW k \in {1, 2}, <<x, k>> \in remote'[s]
          PROVE  /\ max'[<<x, k>>] > 0 => nm'[<<x, k>>] < max'[<<x, k>>]
                 /\ x \in local[t] => nm'[<<x, k>>] <= nm[x] + Count(wire[s], x)
      <4>1. CASE k = n
        BY <1>5, <2>1, <4>1
      <4>2. CASE k # n
        <5>1. <<x, k>> # <<x, n>>
          BY <4>2
        <5> QED BY <1>0, <1>2, <1>5, <1>8, <2>1, <3>2, <5>1 DEF Counted
      <4> QED BY <4>1, <4>2
    <3>3. /\ UNCHANGED <<op, closed, local, max[x], nm[x]>>
          /\ \A q : In(wire'[t], q) => In(w, q)
      BY <1>1, <1>2, <1>3, <1>8
    <3> HIDE DEF t
    <3>4. t = Home[x] /\ Other(t) = s
      BY <1>0, <1>2
    <3> QED BY <2>1, <2>2, <2>3, <3>1, <3>2, <3>3, <3>4 DEF Counted, w
  <2>6. Withdrawn(x)'
    <3> SUFFICES ASSUME Clean(x)' PROVE Withdrawn(x)'
      BY DEF Withdrawn
    <3>1. Clean(x)
      BY <1>3 DEF Clean, Announcing
    <3>2. /\ ~Absent(x) /\ <<x, 1>> \notin remote[s] /\ x \notin snapshot[t]
          /\ <<x, 2>> \notin remote[s] /\ ~Precedes(w, SUB(x), SUB(x))
      BY <1>0, <1>2, <2>1, <3>1 DEF Withdrawn, Absent, w
    <3>3. ~In(wire'[t], SUB(x))
      BY <1>1, <1>2, <3>2
    <3>4. n = 1 /\ <<x, 1>> # <<x, 2>>
      BY <3>2
    <3> HIDE DEF t
    <3>5. t = Home[x] /\ Other(t) = s
      BY <1>0, <1>2
    <3>6. /\ Announcing(x)' <=> Announcing(x)
          /\ Told(x)' <=> Told(x)
      BY <1>3 DEF Announcing, Told
    <3>7. /\ UNCHANGED <<local, closed, op, info, snapshot, route, matched, nm[x], max[x]>>
          /\ remote'[s] = remote[s] \union {<<x, 1>>} /\ byRsid'[x] = 1
      BY <1>2, <1>3, <1>5, <1>8, <3>4
    <3>8. \A k \in Limit : ~Precedes(wire'[t], UNSUB(x, k), SUB(x))
      BY <3>3, PrecedesIn
    <3>9. Told(x)' => nm[x] < max[x] \/ In(wire'[t], UNSUB(x, 0))
      BY <2>1, <2>2, <3>1, <3>2, <3>5, <3>6, LimitIs DEF Withdrawn, w
    <3>10. op[x] \notin {"new", "sub"} /\ info[t] # "unread"
      BY <2>1, <3>1, <3>2, <3>5 DEF Withdrawn
    <3> HIDE DEF w
    <3> QED BY <2>1, <2>2, <3>1, <3>2, <3>3, <3>4, <3>5, <3>6, <3>7, <3>8, <3>9, <3>10, PrecedesIn
            DEF Withdrawn
  <2> QED BY <2>4, <2>5, <2>6
<1> QED BY <1>4, <1>6, <1>7 DEF InterestInv

LEMMA RouteUnsubInv ==
  ASSUME InterestInv, NEW s \in Servers, RouteUnsub(s) PROVE InterestInv'
<1> USE DEF linking, msgs, told
<1> DEFINE t == Other(s)
           w == wire[t]
<1> PICK x, k : x = Head(w).sub /\ k = Head(w).max
  OBVIOUS
<1> PICK n : n = byRsid[x]
  OBVIOUS
<1>0. Types /\ t \in Servers /\ t # s /\ Other(t) = s /\ w # <<>> /\ info[s] = "sent"
      /\ wire' = [wire EXCEPT ![t] = Tail(@)] /\ Head(w).kind = "UNSUB"
  BY Others DEF InterestInv, RouteUnsub, Reads
<1>1. /\ wire' \in [Servers -> Seq(Proto)] /\ Head(w) \in Proto
      /\ \A v \in Servers : v # t => wire'[v] = wire[v]
      /\ \A q : In(w, q) <=> Head(w) = q \/ In(wire'[t], q)
      /\ \A q, r : Precedes(wire'[t], q, r) => Precedes(w, q, r)
      /\ \A q : In(wire'[t], q) => Precedes(w, Head(w), q)
  BY <1>0, Popped
<1>2. /\ x \in Subs /\ k \in Limit /\ k \in Nat /\ Head(w) = UNSUB(x, k) /\ In(w, UNSUB(x, k))
      /\ Home[x] = t /\ n \in {0, 1, 2}
      /\ UNSUB(x, k) # SUB(x) /\ \A j : UNSUB(x, j) = UNSUB(x, k) => j = k
  <2>1. x \in Subs /\ k \in Limit /\ Head(w) = UNSUB(x, k) /\ Homes(t)
    BY <1>0, <1>1, ProtoIs DEF InterestInv
  <2>2. n \in {0, 1, 2} /\ k \in Nat
    BY <1>0, <2>1, LimitIs DEF Types
  <2>3. UNSUB(x, k) # SUB(x) /\ \A j : UNSUB(x, j) = UNSUB(x, k) => j = k
    BY Kinds
  <2> QED BY <1>1, <2>1, <2>2, <2>3 DEF Homes
<1> HIDE DEF w
<1>3. n # 0 => <<x, n>> \in Entry /\ <<x, n>> \in remote[s] /\ n \in {1, 2}
  BY <1>0, <1>2, EntryIs DEF InterestInv, Named
(* Either no entry is named, or it waits for its maximum, or it is removed.     *)
<1>4. /\ UNCHANGED <<linking, local, nm, op, closed, msgs, told>>
      /\ \/ n = 0 /\ UNCHANGED <<byRsid, remote, max>>
         \/ /\ n # 0 /\ max' = [max EXCEPT ![<<x, n>>] = k]
            /\ \/ k > 0 /\ nm[<<x, n>>] < k /\ UNCHANGED <<byRsid, remote>>
               \/ /\ ~(k > 0 /\ nm[<<x, n>>] < k)
                  /\ byRsid' = [byRsid EXCEPT ![x] = 0]
                  /\ remote' = [remote EXCEPT ![s] = @ \ {<<x, n>>}]
  <2>1. <<x, n>>[2] = n
    OBVIOUS
  <2> QED BY <2>1 DEF RouteUnsub, w
<1>5. Types'
  <2>1. /\ byRsid' \in [Subs -> {0, 1, 2}] /\ remote' \in [Servers -> SUBSET Entry]
        /\ max' \in [Subs \union Entry -> Limit]
    <3>1. CASE n = 0
      BY <1>0, <1>4, <3>1 DEF Types
    <3>2. CASE n # 0
      <4>1. max' = [max EXCEPT ![<<x, n>>] = k]
        BY <1>4, <3>2
      <4>2. max' \in [Subs \union Entry -> Limit]
        BY <1>0, <1>2, <4>1 DEF Types
      <4>3. byRsid' = byRsid \/ byRsid' = [byRsid EXCEPT ![x] = 0]
        BY <1>4, <3>2
      <4>4. byRsid' \in [Subs -> {0, 1, 2}]
        BY <1>0, <4>3 DEF Types
      <4>5. remote' = remote \/ remote' = [remote EXCEPT ![s] = @ \ {<<x, n>>}]
        BY <1>4, <3>2
      <4>6. remote' \in [Servers -> SUBSET Entry]
        BY ZenonT(30), <1>0, <4>5 DEF Types
      <4> QED BY <4>2, <4>4, <4>6
    <3> QED BY <3>1, <3>2
  <2> QED BY <1>0, <1>1, <1>4, <2>1 DEF Types
<1>6. /\ remote' \in [Servers -> SUBSET Entry] /\ remote'[s] \in {remote[s], remote[s] \ {<<x, n>>}}
      /\ \A v \in Servers : v # s => remote'[v] = remote[v]
      /\ \A y \in Subs \union Entry : y # <<x, n>> => max'[y] = max[y]
      /\ \A z \in Subs : z # x => byRsid'[z] = byRsid[z]
      /\ n = 0 => remote'[s] = remote[s] /\ byRsid'[x] = 0 /\ \A y \in Subs \union Entry : max'[y] = max[y]
      /\ n # 0 => /\ max'[<<x, n>>] = k
                  /\ \/ k > 0 /\ nm[<<x, n>>] < k /\ remote'[s] = remote[s] /\ byRsid'[x] = n
                     \/ /\ ~(k > 0 /\ nm[<<x, n>>] < k)
                        /\ remote'[s] = remote[s] \ {<<x, n>>} /\ byRsid'[x] = 0
  <2>1. CASE n = 0
    BY <1>0, <1>2, <1>4, <2>1 DEF Types
  <2>2. CASE n # 0 /\ k > 0 /\ nm[<<x, n>>] < k
    BY <1>0, <1>2, <1>3, <1>4, <2>2 DEF Types
  <2>3. CASE n # 0 /\ ~(k > 0 /\ nm[<<x, n>>] < k)
    <3>1. /\ max' = [max EXCEPT ![<<x, n>>] = k] /\ byRsid' = [byRsid EXCEPT ![x] = 0]
          /\ remote' = [remote EXCEPT ![s] = @ \ {<<x, n>>}]
      BY <1>4, <2>3
    <3>2. /\ max'[<<x, n>>] = k
          /\ \A y \in Subs \union Entry : y # <<x, n>> => max'[y] = max[y]
      BY <1>0, <1>3, <2>3, <3>1 DEF Types
    <3>3. byRsid'[x] = 0 /\ \A z \in Subs : z # x => byRsid'[z] = byRsid[z]
      BY <1>0, <1>2, <3>1 DEF Types
    <3>4. /\ remote'[s] = remote[s] \ {<<x, n>>}
          /\ \A v \in Servers : v # s => remote'[v] = remote[v]
      BY <1>0, <3>1 DEF Types
    <3>5. remote' \in [Servers -> SUBSET Entry]
      BY <1>5 DEF Types
    <3> QED BY <2>3, <3>2, <3>3, <3>4, <3>5
  <2> QED BY <2>1, <2>2, <2>3
<1>7. /\ \A z \in Subs, j \in {1, 2} : <<z, j>> # <<x, n>> => max'[<<z, j>>] = max[<<z, j>>]
      /\ \A z \in Subs : nm'[z] = nm[z] /\ max'[z] = max[z]
      /\ \A z \in Subs, j \in {1, 2} : nm'[<<z, j>>] = nm[<<z, j>>]
  <2>1. n # 0 => \A z \in Subs : z # <<x, n>>
    BY <1>3, EntryIs
  <2>2. \A z \in Subs : z \in Subs \union Entry /\ \A j \in {1, 2} : <<z, j>> \in Subs \union Entry
    BY EntryIs
  <2> QED BY <1>4, <1>6, <2>1, <2>2
<1>8. /\ \A v \in Servers : (Homes(v) /\ Up(v))'
      /\ \A m \in Msgs : (Once(m) /\ Reached(m))'
      /\ \A z \in Subs : z # x => (Named(z) /\ Counted(z) /\ Known(z) /\ Withdrawn(z))'
  <2>1. \A z \in Subs, j \in {1, 2} : z # x =>
           /\ <<z, j>> \in remote'[s] <=> <<z, j>> \in remote[s]
           /\ nm'[<<z, j>>] = nm[<<z, j>>] /\ max'[<<z, j>>] = max[<<z, j>>]
    BY <1>6, <1>7
  <2>2. Head(wire[t]).kind # "MSG" /\ Head(wire[t]).sub = x
    BY <1>0 DEF w
  <2>3. /\ info[s] = "sent" /\ wire[Other(s)] # <<>> /\ Home[x] = Other(s) /\ x \in Subs
        /\ wire' = [wire EXCEPT ![Other(s)] = Tail(@)]
        /\ UNCHANGED <<linking, local, op, closed, msgs, told>>
    BY <1>0, <1>2, <1>4 DEF w
  <2>4. \A z \in Subs : nm'[z] = nm[z] /\ max'[z] = max[z] /\ (z # x => byRsid'[z] = byRsid[z])
    BY <1>6, <1>7
  <2> QED BY <1>6, <2>1, <2>2, <2>3, <2>4, ReadOne
<1>9. (Named(x) /\ Counted(x) /\ Known(x) /\ Withdrawn(x))'
  <2>1. /\ Named(x) /\ Counted(x) /\ Known(x) /\ Withdrawn(x) /\ wire'[s] = wire[s] /\ op'[x] = op[x]
        /\ Count(wire[s], x) \in Nat /\ nm[x] \in Nat /\ max[x] \in Nat
        /\ \A j \in {1, 2} : nm[<<x, j>>] \in Nat
    BY <1>0, <1>1, <1>2, <1>4, Counts DEF InterestInv
  <2>2. /\ In(wire'[t], SUB(x)) <=> In(w, SUB(x))
        /\ \A j \in Limit : In(wire'[t], UNSUB(x, j)) => In(w, UNSUB(x, j))
        /\ \A j \in Limit : j # k => (In(wire'[t], UNSUB(x, j)) <=> In(w, UNSUB(x, j)))
    BY <1>1, <1>2
  <2>3. /\ k \in {0, max[x]} /\ (x \in local[t] => k # 0)
        /\ op[x] \in {"new", "sub", "idle"} => max[x] = 0 /\ k = 0 /\ closed[x] = "closed"
    BY <1>2, <2>1 DEF Counted, w
  <2>4. \A j \in {1, 2} : <<x, j>> \in remote[s] =>
          /\ max[<<x, j>>] > 0 => nm[<<x, j>>] < max[<<x, j>>]
          /\ x \in local[t] => nm[<<x, j>>] <= nm[x] + Count(wire[s], x)
    BY <1>0, <1>2, <2>1 DEF Counted
  <2>5. /\ t = Home[x] /\ Other(t) = s /\ n = byRsid[x]
        /\ UNCHANGED <<op, closed, local, info, snapshot, route, matched, raced, missed, max[x], nm[x]>>
        /\ \A j \in {1, 2} : nm'[<<x, j>>] = nm[<<x, j>>]
    BY <1>0, <1>2, <1>4, <1>7
  <2> HIDE DEF t
  <2>6. Named(x)'
    BY <1>2, <1>3, <1>6, <2>1, <2>5 DEF Named
  <2>7. Counted(x)'
    <3>1. \A j \in {1, 2} : max'[<<x, j>>] \in {0, max[x]}
      BY <1>2, <1>6, <1>7, <2>1, <2>3 DEF Counted
    <3>2. ASSUME NEW j \in {1, 2}, <<x, j>> \in remote'[s]
          PROVE  /\ max'[<<x, j>>] > 0 => nm[<<x, j>>] < max'[<<x, j>>]
                 /\ x \in local[t] => nm[<<x, j>>] <= nm[x] + Count(wire[s], x)
      <4>1. CASE j = n
        BY <1>2, <1>6, <2>4, <3>2, <4>1
      <4>2. CASE j # n
        <5>1. <<x, j>> # <<x, n>>
          BY <4>2
        <5> QED BY <1>2, <1>6, <1>7, <2>4, <3>2, <5>1
      <4> QED BY <4>1, <4>2
    <3> QED BY <2>1, <2>2, <2>3, <2>5, <3>1, <3>2 DEF Counted, w
  <2>8. Known(x)'
    <3>1. CASE remote'[s] = remote[s]
      BY <2>1, <2>2, <2>5, <3>1 DEF Known, w
    <3>2. CASE remote'[s] # remote[s]
      <4>1. x \in local[t] => max[x] > 0 /\ nm[x] + Count(wire[s], x) >= max[x]
        BY <1>2, <1>3, <1>6, <2>1, <2>3, <2>4, <3>2
      <4> QED BY <2>1, <2>5, <4>1 DEF Known
    <3> QED BY <3>1, <3>2
  <2>9. Withdrawn(x)'
    <3> SUFFICES ASSUME Clean(x)' PROVE Withdrawn(x)'
      BY DEF Withdrawn
    <3>1. Clean(x)
      BY <2>5 DEF Clean, Announcing
    <3>2. /\ ~In(wire'[t], SUB(x))
          /\ x \notin snapshot[t] /\ info[t] # "unread" /\ <<x, 2>> \notin remote[s]
          /\ <<x, 1>> \in remote[s] => byRsid[x] = 1
      <4>1. ~Precedes(w, UNSUB(x, k), SUB(x))
        BY <1>2, <2>1, <2>5, <3>1 DEF Withdrawn, w
      <4>2. ~In(wire'[t], SUB(x))
        BY <1>1, <1>2, <4>1
      <4> QED BY <1>2, <2>1, <2>2, <2>5, <3>1, <4>2 DEF Withdrawn, w
    <3>3. k = 0 => <<x, 1>> \notin remote'[s]
      BY <1>2, <1>6, <2>5, <3>2
    <3>4. <<x, 2>> \notin remote'[s] /\ (<<x, 1>> \in remote'[s] => <<x, 1>> \in remote[s] /\ byRsid'[x] = 1)
      BY <1>2, <1>6, <2>5, <3>2
    <3>5. /\ Absent(x) => Absent(x)'
          /\ k = 0 => Absent(x)'
      BY <2>5, <3>2, <3>3, <3>4 DEF Absent
    <3>6. k # 0 => (In(wire'[t], UNSUB(x, 0)) <=> In(w, UNSUB(x, 0)))
      BY <2>2, LimitIs
    <3>7. ~Precedes(wire'[t], SUB(x), SUB(x)) /\ \A j \in Limit : ~Precedes(wire'[t], UNSUB(x, j), SUB(x))
      BY <3>2, PrecedesIn
    <3>8. /\ Announcing(x)' <=> Announcing(x)
          /\ Told(x)' <=> Told(x)
      BY <2>5 DEF Announcing, Told
    <3> QED BY <2>1, <2>2, <2>3, <2>5, <3>1, <3>2, <3>4, <3>5, <3>6, <3>7, <3>8 DEF Withdrawn, w
  <2> QED BY <2>6, <2>7, <2>8, <2>9
<1> QED BY <1>5, <1>8, <1>9 DEF InterestInv
-----------------------------------------------------------------------------
(* Messages. *)

LEMMA MatchInv ==
  ASSUME InterestInv, NEW m \in Msgs, Match(m) PROVE InterestInv'
<1> USE DEF linking, counts, told
<1> DEFINE s == Origin[m]
<1>0. /\ Types /\ s \in Servers /\ Homes(s) /\ Up(s) /\ \A v \in Servers : v = s \/ v = Other(s)
      /\ stage[m] = "new" /\ stage'[m] = "matched" /\ matched'[m] = local[s] \union remote[s]
      /\ due'[m] = {x \in Plain : x \in local[s] \/ \E e \in remote[s] : e[1] = x}
      /\ \A i \in Msgs : i # m =>
           stage'[i] = stage[i] /\ matched'[i] = matched[i] /\ due'[i] = due[i]
      /\ UNCHANGED <<linking, wire, local, remote, byRsid, counts, op, closed, got, dropped, told>>
  <2>1. Types /\ s \in Servers /\ Homes(s) /\ Up(s) /\ \A v \in Servers : v = s \/ v = Other(s)
    BY MsgsAssumption, Others DEF InterestInv
  <2>2. /\ stage[m] = "new" /\ stage' = [stage EXCEPT ![m] = "matched"]
        /\ matched' = [matched EXCEPT ![m] = local[s] \union remote[s]]
        /\ due' = [due EXCEPT ![m] = {x \in Plain : x \in local[s] \/ \E e \in remote[s] : e[1] = x}]
        /\ UNCHANGED <<linking, wire, local, remote, byRsid, counts, op, closed, got, dropped, told>>
    BY DEF Match
  <2>3. stage \in [Msgs -> {"new", "matched", "sent"}] /\ DOMAIN matched = Msgs /\ DOMAIN due = Msgs
    BY <2>1 DEF Types
  <2> QED BY <2>1, <2>2, <2>3
<1>1. Types'
  BY <1>0 DEF Match, Types
<1>2. local[s] \subseteq Subs /\ remote[s] \subseteq Entry
  BY <1>0 DEF Types
<1>3. ASSUME NEW v \in Servers PROVE (Homes(v) /\ Up(v))'
  <2>1. Homes(v) /\ Up(v)
    BY DEF InterestInv
  <2>2. v = s => \A y \in matched'[m] : IF y \in Subs THEN Home[y] = s
                                        ELSE Home[y[1]] # s /\ info[s] = "sent"
    BY <1>0, <1>2, EntryIs DEF Homes, Up
  <2>3. Homes(v)'
    <3>1. /\ \A x \in local'[v] \union snapshot'[v] : Home[x] = v
          /\ \A e \in remote'[v] : Home[e[1]] # v
          /\ \A x \in Subs : Home[x] # v => /\ ~In(wire'[v], SUB(x))
                                            /\ \A k \in Limit : ~In(wire'[v], UNSUB(x, k))
          /\ \A x \in Subs, i \in Msgs : In(wire'[v], MsgFor(x, i)) => Home[x] # v /\ Origin[i] = v
      BY <1>0, <2>1 DEF Homes
    <3>2. ASSUME NEW i \in Msgs, Origin[i] = v
          PROVE  \A y \in matched'[i] : IF y \in Subs THEN Home[y] = v ELSE Home[y[1]] # v /\ info'[v] = "sent"
      <4>1. CASE i = m
        BY <1>0, <2>2, <3>2, <4>1
      <4>2. CASE i # m
        BY <1>0, <2>1, <3>2, <4>2 DEF Homes
      <4> QED BY <4>1, <4>2
    <3> QED BY <3>1, <3>2 DEF Homes
  <2>4. Up(v)'
    BY <1>0, <2>1 DEF Up
  <2> QED BY <2>3, <2>4
<1>4. ASSUME NEW i \in Msgs PROVE (Once(i) /\ Reached(i))'
  <2>1. Once(i) /\ Reached(i) /\ due[i] \subseteq Plain
    BY DEF InterestInv, Types
  <2>2. CASE i # m
    <3>1. Once(i)'
      BY <1>0, <2>1, <2>2 DEF Once
    <3>2. Reached(i)'
      BY <1>0, <2>1, <2>2 DEF Reached, Pending
    <3> QED BY <3>1, <3>2
  <2>3. CASE i = m
    <3>1. Once(i)'
      BY <1>0, <2>1, <2>3 DEF Once
    <3>2. ASSUME NEW x \in due'[m]
          PROVE  /\ op[x] # "new"
                 /\ x \in matched'[m] \/ \E n \in {1, 2} : <<x, n>> \in matched'[m]
      <4>1. x \in Subs
        BY <1>0, <3>2 DEF Plain
      <4>2. CASE x \in local[s]
        <5>1. Home[x] = s /\ Counted(x)
          BY <1>0, <4>1, <4>2 DEF Homes, InterestInv
        <5> QED BY <1>0, <4>2, <5>1 DEF Counted
      <4>3. CASE \E e \in remote[s] : e[1] = x
        <5>1. PICK e \in remote[s] : e[1] = x
          BY <4>3
        <5>2. e[2] \in {1, 2} /\ e = <<x, e[2]>>
          BY <1>2, <5>1, EntryIs
        <5>3. Home[x] # s /\ Counted(x)
          BY <1>0, <4>1, <5>1 DEF Homes, InterestInv
        <5>4. s = Other(Home[x])
          BY <1>0, <4>1, <5>3, HomeIs, Others
        <5> QED BY <1>0, <5>1, <5>2, <5>3, <5>4 DEF Counted
      <4> QED BY <1>0, <3>2, <4>2, <4>3
    <3>3. Reached(i)'
      BY <1>0, <2>3, <3>2 DEF Reached
    <3> QED BY <3>1, <3>3
  <2> QED BY <2>2, <2>3
<1>5. ASSUME NEW x \in Subs PROVE (Named(x) /\ Counted(x) /\ Known(x) /\ Withdrawn(x))'
  <2>1. Named(x) /\ Counted(x) /\ Known(x) /\ Withdrawn(x)
    BY DEF InterestInv
  <2>2. (Named(x) /\ Counted(x) /\ Known(x))'
    BY <1>0, <2>1 DEF Named, Counted, Known
  <2>3. Clean(x)' => Clean(x)
    BY <1>0 DEF Clean, Announcing
  <2>4. <<x, 2>> \in matched'[m] => <<x, 2>> \in remote[Other(Home[x])]
    <3> SUFFICES ASSUME <<x, 2>> \in matched'[m] PROVE <<x, 2>> \in remote[Other(Home[x])]
      OBVIOUS
    <3>1. <<x, 2>> \in remote[s]
      BY <1>0, <1>2, EntryIs
    <3>2. <<x, 2>>[1] = x
      OBVIOUS
    <3>3. Home[x] # s
      BY <1>0, <3>1, <3>2 DEF Homes
    <3> QED BY <1>0, <3>1, <3>3, HomeIs, Others
  <2>5. Absent(x)' <=> Absent(x)
    BY <1>0 DEF Absent
  <2>6. Clean(x) => \A i \in Msgs : <<x, 2>> \notin matched'[i]
    BY <1>0, <2>1, <2>4 DEF Withdrawn
  <2>7. Withdrawn(x)'
    BY <1>0, <2>1, <2>3, <2>5, <2>6 DEF Withdrawn, Announcing, Told
  <2> QED BY <2>2, <2>7
<1> QED BY <1>1, <1>3, <1>4, <1>5 DEF InterestInv

(* What a delivery sends: the message to each entry that is not over its        *)
(* maximum, and a withdrawal of each subscription that is full.                 *)
Sends(f, s, m, D, R) ==
  /\ \A p : In(f, p) <=> \/ \E e \in R : ~Over(e) /\ p = MsgFor(e[1], m)
                         \/ route[s] = "registered" /\ \E x \in D : Full(x) /\ p = UNSUB(x, 0)
  /\ \A x, i : ~Precedes(f, MsgFor(x, i), MsgFor(x, i))

LEMMA Sent ==
  ASSUME NEW s \in Servers, NEW m \in Msgs, NEW D, NEW R, NEW u, D \subseteq Subs, R \subseteq Entry,
         u \in [Servers -> Seq(Proto)],
         Deliver(s, m, D, R, u)
  PROVE  \E f \in Seq(Proto) :
           /\ wire' \in [Servers -> Seq(Proto)] /\ wire'[s] = u[s] \o f
           /\ \A v \in Servers : v # s => wire'[v] = u[v]
           /\ Sends(f, s, m, D, R)
<1> DEFINE full == {x \in D : Full(x)}
           heard == {r \in R : ~Over(r)}
           S == {MSG(e, m) : e \in heard}
           U == {UNSUB(x, 0) : x \in full}
<1>1. PICK sent \in SetToSeqs(S), unsubs \in SetToSeqs(U) :
         wire' = [u EXCEPT ![s] = @ \o sent \o broadcastToRoutes(s, unsubs)]
  BY DEF Deliver
<1>2. IsFiniteSet(S) /\ IsFiniteSet(U)
  <2>1. IsFiniteSet(full) /\ IsFiniteSet(heard)
    <3>1. IsFiniteSet({1, 2})
      <4>1. 1..2 = {1, 2}
        OBVIOUS
      <4>2. IsFiniteSet(1..2)
        BY 1 \in Int /\ 2 \in Int, FS_Interval
      <4> QED BY <4>1, <4>2
    <3>2. IsFiniteSet(Entry)
      BY <3>1, SubsAssumption, FS_Product DEF Entry
    <3> QED BY <3>2, SubsAssumption, FS_Subset
  <2> DEFINE g == [e \in heard |-> MSG(e, m)]
             h == [x \in full |-> UNSUB(x, 0)]
  <2>2. S = {g[e] : e \in heard} /\ U = {h[x] : x \in full}
    OBVIOUS
  <2>3. DOMAIN g = heard /\ DOMAIN h = full
    OBVIOUS
  <2> HIDE DEF g, h, full, heard, S, U
  <2> QED BY <2>1, <2>2, <2>3, ImageFinite
<1>3. S \subseteq Proto /\ U \subseteq Proto
  <2>1. \A e \in Entry : MSG(e, m) = MsgFor(e[1], m) /\ e[1] \in Subs
    BY EntryIs DEF MSG, MsgFor
  <2> QED BY <2>1, LimitIs, ProtoHas
<1>4. /\ sent \in Seq(Proto) /\ unsubs \in Seq(Proto)
      /\ \A p : In(sent, p) <=> p \in S
      /\ \A p : In(unsubs, p) <=> p \in U
      /\ \A p : ~Precedes(sent, p, p) /\ ~Precedes(unsubs, p, p)
  <2> HIDE DEF S, U
  <2> QED BY <1>2, <1>3, Permutation
<1> DEFINE b == broadcastToRoutes(s, unsubs)
<1>5. /\ b \in Seq(Proto) /\ \A p : In(b, p) <=> route[s] = "registered" /\ p \in U
      /\ \A p : ~Precedes(b, p, p)
  <2>1. <<>> \in Seq(Proto) /\ \A p, q : ~Precedes(<<>>, p, q)
    BY EmptySeq DEF Precedes
  <2> QED BY <1>4, <2>1, InEmpty DEF broadcastToRoutes
<1> HIDE DEF b
<1>6. sent \o b \in Seq(Proto) /\ \A p : In(sent \o b, p) <=> In(sent, p) \/ In(b, p)
  BY <1>4, <1>5, ConcatProperties, InConcat
<1>7. ASSUME NEW x, NEW i PROVE ~Precedes(sent \o b, MsgFor(x, i), MsgFor(x, i))
  <2>1. MsgFor(x, i) \notin U
    BY Kinds
  <2> HIDE DEF S, U
  <2> QED BY <1>4, <1>5, <2>1, PrecedesConcat
<1>8. /\ wire' \in [Servers -> Seq(Proto)] /\ wire'[s] = u[s] \o (sent \o b)
      /\ \A v \in Servers : v # s => wire'[v] = u[v]
  <2>1. wire' = [u EXCEPT ![s] = @ \o sent \o b]
    BY <1>1 DEF b
  <2>2. u[s] \in Seq(Proto)
    OBVIOUS
  <2>3. u[s] \o sent \o b = u[s] \o (sent \o b) /\ u[s] \o (sent \o b) \in Seq(Proto)
    BY <1>4, <1>5, <1>6, <2>2, ConcatAssociative, ConcatProperties
  <2> QED BY <2>1, <2>3
<1>9. \A p : /\ p \in S <=> \E e \in R : ~Over(e) /\ p = MsgFor(e[1], m)
             /\ p \in U <=> \E x \in D : Full(x) /\ p = UNSUB(x, 0)
  BY DEF MSG, MsgFor
<1> HIDE DEF S, U
<1>10. Sends(sent \o b, s, m, D, R)
  BY <1>4, <1>5, <1>6, <1>7, <1>9 DEF Sends
<1> QED BY <1>6, <1>8, <1>10

(* What a delivery does to the lists and the counts.                            *)
Delivery(s, m, D, R) ==
  /\ nm' \in [Subs \union Entry -> Nat] /\ got' \in [Msgs \X Subs -> Nat]
  /\ local' \in [Servers -> SUBSET Subs] /\ remote' \in [Servers -> SUBSET Entry]
  /\ byRsid' \in [Subs -> {0, 1, 2}]
  /\ \A z \in Subs \union Entry : nm'[z] = IF z \in D \union R THEN nm[z] + 1 ELSE nm[z]
  /\ \A i \in Msgs, x \in Subs :
       got'[<<i, x>>] = IF i = m /\ x \in D /\ ~Over(x) /\ closed[x] = "open" THEN got[<<i, x>>] + 1
                        ELSE got[<<i, x>>]
  /\ local'[s] = local[s] \ {x \in D : Full(x)} /\ remote'[s] = remote[s] \ {e \in R : Full(e)}
  /\ \A v \in Servers : v # s => local'[v] = local[v] /\ remote'[v] = remote[v]
  /\ \A x \in Subs : byRsid'[x] = IF \E e \in R : Full(e) /\ e[1] = x THEN 0 ELSE byRsid[x]
  /\ raced \subseteq raced' /\ missed \subseteq missed'
  /\ \A x : ~(x \in D /\ Full(x)) => (x \in raced' <=> x \in raced) /\ (x \in missed' <=> x \in missed)
  /\ \A x \in D : Full(x) =>
       /\ route[s] = "registered" /\ info[s] # "sent" => x \in raced'
       /\ route[s] # "registered" /\ info[s] # "unread" => x \in missed'

LEMMA Delivered ==
  ASSUME Types, NEW s \in Servers, NEW m \in Msgs, NEW D, NEW R, NEW u, D \subseteq Subs, R \subseteq Entry,
         Deliver(s, m, D, R, u)
  PROVE  Delivery(s, m, D, R)
<1> DEFINE full == {x \in D : Full(x)}
<1>1. /\ nm' = [x \in DOMAIN nm |-> IF x \in D \union R THEN nm[x] + 1 ELSE nm[x]]
      /\ got' = [p \in DOMAIN got |->
                  IF p[1] = m /\ p[2] \in D /\ ~Over(p[2]) /\ closed[p[2]] = "open"
                  THEN got[p] + 1 ELSE got[p]]
      /\ local' = [local EXCEPT ![s] = @ \ full]
      /\ remote' = [remote EXCEPT ![s] = @ \ {e \in R : Full(e)}]
      /\ byRsid' = [x \in Subs |-> IF x \in unsubscribe(R) THEN 0 ELSE byRsid[x]]
      /\ Races(s, full) /\ Misses(s, full)
  BY DEF Deliver
<1>2. /\ nm' \in [Subs \union Entry -> Nat]
      /\ \A z \in Subs \union Entry : nm'[z] = IF z \in D \union R THEN nm[z] + 1 ELSE nm[z]
  BY <1>1 DEF Types
<1>3. /\ got' \in [Msgs \X Subs -> Nat]
      /\ \A i \in Msgs, x \in Subs :
           got'[<<i, x>>] = IF i = m /\ x \in D /\ ~Over(x) /\ closed[x] = "open" THEN got[<<i, x>>] + 1
                            ELSE got[<<i, x>>]
  <2>1. got \in [Msgs \X Subs -> Nat]
    BY DEF Types
  <2>2. \A i \in Msgs, x \in Subs :
           got'[<<i, x>>] = IF i = m /\ x \in D /\ ~Over(x) /\ closed[x] = "open" THEN got[<<i, x>>] + 1
                            ELSE got[<<i, x>>]
    BY <1>1, <2>1
  <2> QED BY <1>1, <2>1, <2>2
<1>4. /\ local' \in [Servers -> SUBSET Subs] /\ local'[s] = local[s] \ full
      /\ \A v \in Servers : v # s => local'[v] = local[v]
  BY <1>1 DEF Types
<1>5. /\ remote' \in [Servers -> SUBSET Entry] /\ remote'[s] = remote[s] \ {e \in R : Full(e)}
      /\ \A v \in Servers : v # s => remote'[v] = remote[v]
  BY <1>1 DEF Types
<1>6. /\ byRsid' \in [Subs -> {0, 1, 2}]
      /\ \A x \in Subs : byRsid'[x] = IF \E e \in R : Full(e) /\ e[1] = x THEN 0 ELSE byRsid[x]
  <2>1. \A x : x \in unsubscribe(R) <=> \E e \in R : Full(e) /\ e[1] = x
    BY DEF unsubscribe
  <2> QED BY <1>1, <2>1 DEF Types
<1>7. /\ raced \subseteq raced' /\ missed \subseteq missed'
      /\ \A x : x \notin full => (x \in raced' <=> x \in raced) /\ (x \in missed' <=> x \in missed)
      /\ \A x \in full : /\ route[s] = "registered" /\ info[s] # "sent" => x \in raced'
                         /\ route[s] # "registered" /\ info[s] # "unread" => x \in missed'
  <2> HIDE DEF full
  <2> QED BY <1>1 DEF Races, Racing, Misses
<1> QED BY <1>2, <1>3, <1>4, <1>5, <1>6, <1>7 DEF Delivery

(* What a delivery is given, and what else its step does: D are of its server,  *)
(* R what the message matched, and u what is still to be read from the route.   *)
Handed(s, m, D, R, u) ==
  /\ UNCHANGED <<linking, max, op, closed, matched, due>>
  /\ stage' \in [Msgs -> {"new", "matched", "sent"}]
  /\ \A i \in Msgs : i # m => stage'[i] = stage[i] /\ (i \in dropped' <=> i \in dropped)
  /\ \A x \in D : Home[x] = s
  /\ \A e \in R : e \in matched[m] /\ Origin[m] = s
  /\ u[s] = wire[s] /\ (u[Other(s)] # <<>> => wire[Other(s)] # <<>>)
  /\ \A p : In(u[Other(s)], p) => In(wire[Other(s)], p)
  /\ \A p \in Proto : In(wire[Other(s)], p) /\ ~In(u[Other(s)], p) => p.kind = "MSG" /\ p.msg = m
  /\ \A p, q : Precedes(u[Other(s)], p, q) => Precedes(wire[Other(s)], p, q)
  /\ \A x \in Subs : Count(u[Other(s)], x) \in Nat
  /\ \A x \in local[s] : Count(wire[Other(s)], x) <= Count(u[Other(s)], x) + (IF x \in D THEN 1 ELSE 0)

(* A delivery, in answer to a client or to the route, as to all but the message *)
(* itself.                                                                       *)
LEMMA DeliverInv ==
  ASSUME InterestInv, NEW s \in Servers, NEW m \in Msgs, NEW D, NEW R, NEW u,
         D \subseteq Subs, R \subseteq Entry, u \in [Servers -> Seq(Proto)],
         Deliver(s, m, D, R, u), Handed(s, m, D, R, u)
  PROVE  /\ Types' /\ \A v \in Servers : (Homes(v) /\ Up(v))'
         /\ \A i \in Msgs : i # m => (Once(i) /\ Reached(i))'
         /\ \A x \in Subs : (Named(x) /\ Counted(x) /\ Known(x) /\ Withdrawn(x))'
<1> USE DEF linking
<1>0. PICK t : t = Other(s)
  OBVIOUS
<1>1. /\ Types /\ t \in Servers /\ t # s /\ Other(t) = s /\ \A v \in Servers : v = s \/ v = t
      /\ Homes(s) /\ Up(s) /\ Homes(t) /\ Up(t)
  BY <1>0, Others DEF InterestInv
<1>2. PICK f \in Seq(Proto) : /\ wire' \in [Servers -> Seq(Proto)] /\ wire'[s] = u[s] \o f
                              /\ \A v \in Servers : v # s => wire'[v] = u[v]
                              /\ Sends(f, s, m, D, R)
  BY Sent
<1>3. Delivery(s, m, D, R)
  BY <1>1, Delivered
<1>4. /\ wire' \in [Servers -> Seq(Proto)] /\ wire'[t] = u[t]
      /\ \A p : In(wire'[s], p) <=> In(wire[s], p) \/ In(f, p)
      /\ \A p, q : Precedes(wire'[s], p, q) =>
                     Precedes(wire[s], p, q) \/ (In(wire[s], p) /\ In(f, q)) \/ Precedes(f, p, q)
      /\ \A x : /\ Count(wire'[s], x) \in Nat /\ Count(wire'[s], x) >= Count(wire[s], x)
                /\ \A p : In(f, p) /\ p.kind = "MSG" /\ p.sub = x =>
                            Count(wire'[s], x) >= Count(wire[s], x) + 1
      /\ f = <<>> => wire'[s] = wire[s]
  <2> DEFINE w == wire[s]
  <2>1. w \in Seq(Proto) /\ wire'[s] = w \o f /\ w \o f \in Seq(Proto) /\ wire'[t] = u[t]
        /\ wire' \in [Servers -> Seq(Proto)]
    BY <1>1, <1>2, ConcatProperties DEF Types, Handed
  <2> HIDE DEF w
  <2>2. \A p : In(w \o f, p) <=> In(w, p) \/ In(f, p)
    BY <2>1, InConcat
  <2>3. \A p, q : Precedes(w \o f, p, q) =>
                    Precedes(w, p, q) \/ (In(w, p) /\ In(f, q)) \/ Precedes(f, p, q)
    BY <2>1, PrecedesConcat
  <2>4. \A x : /\ Count(w \o f, x) \in Nat /\ Count(w \o f, x) >= Count(w, x)
               /\ \A p : In(f, p) /\ p.kind = "MSG" /\ p.sub = x => Count(w \o f, x) >= Count(w, x) + 1
    BY <2>1, CountType, CountConcat
  <2>5. w \o <<>> = w
    BY <2>1, ConcatEmptySeq
  <2> QED BY <2>1, <2>2, <2>3, <2>4, <2>5 DEF w
<1>5. /\ \A p : In(wire'[t], p) => In(wire[t], p)
      /\ \A x \in Subs : In(wire'[t], SUB(x)) <=> In(wire[t], SUB(x))
      /\ \A x \in Subs, k \in Limit : In(wire'[t], UNSUB(x, k)) <=> In(wire[t], UNSUB(x, k))
      /\ \A x \in Subs, i \in Msgs : i # m => (In(wire'[t], MsgFor(x, i)) <=> In(wire[t], MsgFor(x, i)))
      /\ \A p, q : Precedes(wire'[t], p, q) => Precedes(wire[t], p, q)
  <2>1. \A p \in Proto : In(wire[t], p) /\ ~In(wire'[t], p) => p.kind = "MSG" /\ p.msg = m
    BY <1>0, <1>4 DEF Handed
  <2>2. \A p : In(wire'[t], p) => In(wire[t], p)
    BY <1>0, <1>4 DEF Handed
  <2>3. \A p, q : Precedes(wire'[t], p, q) => Precedes(wire[t], p, q)
    BY <1>0, <1>4 DEF Handed
  <2>4. \A x \in Subs : SUB(x) \in Proto /\ SUB(x).kind # "MSG"
    BY ProtoHas, Kinds
  <2>5. \A x \in Subs, k \in Limit : UNSUB(x, k) \in Proto /\ UNSUB(x, k).kind # "MSG"
    BY ProtoHas, Kinds
  <2>6. \A x \in Subs, i \in Msgs : MsgFor(x, i) \in Proto /\ MsgFor(x, i).msg = i
    BY ProtoHas, Kinds
  <2> QED BY <2>1, <2>2, <2>3, <2>4, <2>5, <2>6
<1>6. /\ \A x : ~In(f, SUB(x))
      /\ \A x, k : In(f, UNSUB(x, k)) <=> route[s] = "registered" /\ k = 0 /\ x \in D /\ Full(x)
      /\ \A x, i : In(f, MsgFor(x, i)) <=> i = m /\ \E e \in R : e[1] = x /\ ~Over(e)
  <2>1. ASSUME NEW x, NEW i PROVE In(f, MsgFor(x, i)) <=> i = m /\ \E e \in R : e[1] = x /\ ~Over(e)
    <3>1. /\ \A y : MsgFor(x, i) # UNSUB(y, 0)
          /\ \A y : MsgFor(x, i) = MsgFor(y, m) <=> y = x /\ i = m
      BY Kinds
    <3> QED BY <1>2, <3>1 DEF Sends
  <2>2. ASSUME NEW x PROVE ~In(f, SUB(x))
    <3>1. \A y : SUB(x) # UNSUB(y, 0) /\ SUB(x) # MsgFor(y, m)
      BY Kinds
    <3> QED BY <1>2, <3>1 DEF Sends
  <2>3. ASSUME NEW x, NEW k
        PROVE  In(f, UNSUB(x, k)) <=> route[s] = "registered" /\ k = 0 /\ x \in D /\ Full(x)
    <3>1. /\ \A y : UNSUB(x, k) # MsgFor(y, m)
          /\ \A y : UNSUB(x, k) = UNSUB(y, 0) <=> y = x /\ k = 0
      BY Kinds
    <3> QED BY <1>2, <3>1 DEF Sends
  <2> QED BY <2>1, <2>2, <2>3
<1>7. \A e \in R : /\ e[1] \in Subs /\ e[2] \in {1, 2} /\ e = <<e[1], e[2]>> /\ e \notin Subs
                   /\ Home[e[1]] = t /\ info[s] = "sent" /\ e \in matched[m] /\ Origin[m] = s
  <2> SUFFICES ASSUME NEW e \in R
               PROVE  /\ e[1] \in Subs /\ e[2] \in {1, 2} /\ e = <<e[1], e[2]>> /\ e \notin Subs
                      /\ Home[e[1]] = t /\ info[s] = "sent" /\ e \in matched[m] /\ Origin[m] = s
    OBVIOUS
  <2>1. e[1] \in Subs /\ e[2] \in {1, 2} /\ e = <<e[1], e[2]>> /\ e \notin Subs
    BY EntryIs
  <2>2. Home[e[1]] # s /\ info[s] = "sent"
    BY <1>1, <2>1 DEF Homes, Handed
  <2> QED BY <1>1, <2>1, <2>2, HomeIs DEF Handed
<1>8. Types'
  <2>1. UNCHANGED <<route, info, snapshot, max, op, closed, matched, due>>
        /\ stage' \in [Msgs -> {"new", "matched", "sent"}]
    BY DEF Handed
  <2> QED BY <1>1, <1>2, <1>3, <2>1 DEF Types, Delivery
<1>9. Homes(s)'
  <2>1. /\ local'[s] \subseteq local[s] /\ remote'[s] \subseteq remote[s]
        /\ UNCHANGED <<snapshot, info, matched>> /\ \A x \in D : Home[x] = s
    BY <1>3 DEF Handed, Delivery
  <2>2. ASSUME NEW x \in Subs, Home[x] # s
        PROVE  ~In(wire'[s], SUB(x)) /\ \A k \in Limit : ~In(wire'[s], UNSUB(x, k))
    BY <1>1, <1>4, <1>6, <2>1, <2>2 DEF Homes
  <2>3. ASSUME NEW x \in Subs, NEW i \in Msgs, In(wire'[s], MsgFor(x, i))
        PROVE  Home[x] # s /\ Origin[i] = s
    <3>1. CASE In(wire[s], MsgFor(x, i))
      BY <1>1, <3>1 DEF Homes
    <3>2. CASE In(f, MsgFor(x, i))
      BY <1>1, <1>6, <1>7, <3>2
    <3> QED BY <1>4, <2>3, <3>1, <3>2
  <2>4. /\ \A x \in local'[s] \union snapshot'[s] : Home[x] = s
        /\ \A e \in remote'[s] : Home[e[1]] # s
        /\ \A i \in Msgs : Origin[i] = s =>
             \A y \in matched'[i] : IF y \in Subs THEN Home[y] = s ELSE Home[y[1]] # s /\ info'[s] = "sent"
    BY <1>1, <2>1 DEF Homes
  <2> QED BY <2>2, <2>3, <2>4 DEF Homes
<1>10. Homes(t)'
  <2>1. /\ local'[t] = local[t] /\ remote'[t] = remote[t]
        /\ UNCHANGED <<snapshot, info, matched>>
    BY <1>1, <1>3 DEF Handed, Delivery
  <2> QED BY <1>1, <1>5, <2>1 DEF Homes
<1>11. Up(s)' /\ Up(t)'
  <2>1. /\ remote'[s] \subseteq remote[s] /\ remote'[t] = remote[t]
        /\ UNCHANGED <<snapshot, info, route>>
        /\ wire'[t] # <<>> => wire[t] # <<>>
    BY <1>0, <1>1, <1>3, <1>4 DEF Handed, Delivery
  <2>2. f # <<>> => route[s] = "registered" \/ info[s] = "sent"
    <3> SUFFICES ASSUME f # <<>> PROVE route[s] = "registered" \/ info[s] = "sent"
      OBVIOUS
    <3>1. In(f, f[1])
      <4>1. 1 \in 1..Len(f)
        BY EmptySeq, LenProperties
      <4> QED BY <4>1 DEF In
    <3> QED BY <1>2, <1>7, <3>1 DEF Sends
  <2>3. wire'[s] # <<>> => wire[s] # <<>> \/ f # <<>>
    BY <1>4
  <2> QED BY <1>1, <2>1, <2>2, <2>3 DEF Up
<1>12. ASSUME NEW i \in Msgs, i # m PROVE (Once(i) /\ Reached(i))'
  <2> DEFINE o == Origin[i]
  <2>1. o \in Servers /\ due[i] \subseteq Plain /\ Once(i) /\ Reached(i)
    BY <1>1, MsgsAssumption DEF InterestInv, Types
  <2>2. /\ \A x \in Subs : got'[<<i, x>>] = got[<<i, x>>]
        /\ \A x \in Subs : x \in local'[Home[x]] => x \in local[Home[x]]
    <3>1. \A x \in Subs : got'[<<i, x>>] = got[<<i, x>>]
      BY <1>3, <1>12 DEF Delivery
    <3>2. \A v \in Servers : local'[v] \subseteq local[v]
      BY <1>1, <1>3 DEF Delivery
    <3> QED BY <3>1, <3>2, HomeIs
  <2>3. /\ stage'[i] = stage[i] /\ (i \in dropped' <=> i \in dropped)
        /\ UNCHANGED <<due, matched, op, max>>
    BY <1>12 DEF Handed
  <2>4. /\ \A x \in Subs : In(wire'[o], MsgFor(x, i)) <=> In(wire[o], MsgFor(x, i))
        /\ \A x, y \in Subs : Precedes(wire'[o], MsgFor(x, i), MsgFor(y, i)) =>
                                Precedes(wire[o], MsgFor(x, i), MsgFor(y, i))
    <3>1. CASE o = s
      <4>1. \A x \in Subs : ~In(f, MsgFor(x, i))
        BY <1>6, <1>12
      <4> QED BY <1>4, <3>1, <4>1, PrecedesIn
    <3>2. CASE o = t
      BY <1>5, <1>12, <3>2
    <3> QED BY <1>1, <2>1, <3>1, <3>2
  <2>5. Once(i)'
    BY <2>1, <2>2, <2>3, <2>4, OnceStays
  <2>6. Reached(i)'
    BY <2>1, <2>2, <2>3, <2>4, ReachedStays
  <2> QED BY <2>5, <2>6
<1>13. ASSUME NEW x \in Subs PROVE Named(x)'
  <2>1. Named(x) /\ byRsid[x] \in {0, 1, 2} /\ Home[x] \in Servers
    BY <1>1, HomeIs DEF InterestInv, Types
  <2>2. CASE Home[x] = s
    <3>1. /\ remote'[t] = remote[t] /\ Other(Home[x]) = t
          /\ byRsid'[x] = IF \E e \in R : Full(e) /\ e[1] = x THEN 0 ELSE byRsid[x]
      BY <1>0, <1>1, <1>3, <2>2 DEF Delivery
    <3> QED BY <2>1, <3>1 DEF Named
  <2>3. CASE Home[x] = t
    <3>1. /\ remote'[s] = remote[s] \ {e \in R : Full(e)} /\ Other(Home[x]) = s
          /\ byRsid'[x] = IF \E e \in R : Full(e) /\ e[1] = x THEN 0 ELSE byRsid[x]
      BY <1>1, <1>3, <2>3 DEF Delivery
    <3>2. <<x, byRsid[x]>>[1] = x
      OBVIOUS
    <3> QED BY <2>1, <3>1, <3>2 DEF Named
  <2> QED BY <1>1, <2>1, <2>2, <2>3
<1>14. ASSUME NEW x \in Subs, Home[x] = s PROVE (Counted(x) /\ Known(x) /\ Withdrawn(x))'
  <2>1. /\ Counted(x) /\ Known(x) /\ Withdrawn(x) /\ Other(Home[x]) = t /\ x \notin Entry /\ x \notin R
        /\ nm[x] \in Nat /\ max[x] \in Nat /\ Count(wire[t], x) \in Nat /\ Count(wire'[t], x) \in Nat
    BY <1>0, <1>1, <1>4, <1>14, Counts, EntryIs DEF InterestInv, Handed
  <2>2. /\ UNCHANGED <<route, info, snapshot, op, closed, max, matched>>
        /\ nm'[x] = IF x \in D THEN nm[x] + 1 ELSE nm[x]
        /\ x \in local'[s] <=> x \in local[s] /\ ~(x \in D /\ Full(x))
        /\ remote'[t] = remote[t] /\ byRsid'[x] = byRsid[x]
    <3>1. /\ local'[s] = local[s] \ {y \in D : Full(y)} /\ remote'[t] = remote[t]
          /\ nm'[x] = IF x \in D \union R THEN nm[x] + 1 ELSE nm[x]
          /\ byRsid'[x] = IF \E e \in R : Full(e) /\ e[1] = x THEN 0 ELSE byRsid[x]
      BY <1>1, <1>3 DEF Delivery
    <3>2. UNCHANGED <<route, info, snapshot, op, closed, max, matched>>
      BY DEF Handed
    <3>3. \A e \in R : e[1] # x
      BY <1>1, <1>7, <1>14
    <3> QED BY <2>1, <3>1, <3>2, <3>3
  <2>3. \A n \in {1, 2} : nm'[<<x, n>>] = nm[<<x, n>>]
    <3> SUFFICES ASSUME NEW n \in {1, 2} PROVE nm'[<<x, n>>] = nm[<<x, n>>]
      OBVIOUS
    <3>1. <<x, n>> \in Entry /\ <<x, n>>[1] = x /\ <<x, n>> \notin Subs
      BY EntryIs
    <3>2. <<x, n>> \notin D \union R
      BY <1>1, <1>7, <1>14, <3>1
    <3> QED BY <1>3, <3>1, <3>2 DEF Delivery
  <2>4. /\ In(wire'[s], SUB(x)) <=> In(wire[s], SUB(x))
        /\ \A p : Precedes(wire'[s], p, SUB(x)) => Precedes(wire[s], p, SUB(x))
        /\ \A k \in Limit : In(wire'[s], UNSUB(x, k)) <=>
              In(wire[s], UNSUB(x, k)) \/ (route[s] = "registered" /\ k = 0 /\ x \in D /\ Full(x))
    BY <1>4, <1>6, PrecedesIn
  <2>5. Full(x) <=> max[x] > 0 /\ nm[x] + 1 >= max[x]
    BY DEF Full
  <2>6. x \in local[s] => nm'[x] + Count(wire'[t], x) >= nm[x] + Count(wire[t], x)
    <3>1. x \in local[s] => Count(wire[t], x) <= Count(wire'[t], x) + (IF x \in D THEN 1 ELSE 0)
      BY <1>0, <1>4 DEF Handed
    <3> QED BY <2>1, <2>2, <3>1
  <2>7. op[x] \in {"new", "sub", "idle"} => ~Full(x)
    BY <2>5, <2>1 DEF Counted
  <2>8. Counted(x)'
    <3>1. op[x] \in {"unsub", "last"} =>
            IF x \in local'[s] THEN nm'[x] < max[x]
            ELSE max[x] = 0 \/ nm'[x] >= max[x] \/ closed[x] # "open"
      BY <1>14, <2>1, <2>2, <2>5 DEF Counted
    <3>2. \A k \in Limit : In(wire'[s], UNSUB(x, k)) => k \in {0, max[x]} /\ (x \in local'[s] => k # 0)
      BY <1>14, <2>1, <2>2, <2>4 DEF Counted
    <3>3. /\ op[x] \in {"sub", "idle"} /\ closed[x] = "open" => x \in local'[s]
          /\ x \in local'[s] => closed[x] = "open"
      BY <1>14, <2>1, <2>2, <2>7 DEF Counted
    <3>4. op[x] \in {"new", "sub", "idle"} /\ closed[x] # "closed" =>
             \A k \in Limit : ~In(wire'[s], UNSUB(x, k))
      BY <1>14, <2>1, <2>4, <2>7 DEF Counted
    <3>5. ASSUME NEW n \in {1, 2}, <<x, n>> \in remote[t]
          PROVE  /\ max[<<x, n>>] > 0 => nm[<<x, n>>] < max[<<x, n>>]
                 /\ x \in local'[s] => nm[<<x, n>>] <= nm'[x] + Count(wire'[t], x)
      <4>1. /\ max[<<x, n>>] > 0 => nm[<<x, n>>] < max[<<x, n>>]
            /\ x \in local[s] => nm[<<x, n>>] <= nm[x] + Count(wire[t], x)
        BY <1>14, <2>1, <3>5 DEF Counted
      <4>2. nm[<<x, n>>] \in Nat /\ nm'[x] \in Nat
        <5>1. nm[<<x, n>>] \in Nat
          BY <1>1, Counts
        <5>2. nm'[x] \in Nat
          BY <2>1, <2>2
        <5> QED BY <5>1, <5>2
      <4> QED BY <2>1, <2>2, <2>6, <4>1, <4>2
    <3> QED BY <1>14, <2>1, <2>2, <2>3, <2>4, <3>1, <3>2, <3>3, <3>4, <3>5 DEF Counted
  <2>9. Known(x)'
    <3>1. x \in local[s] /\ nm[x] + Count(wire[t], x) >= max[x] => nm'[x] + Count(wire'[t], x) >= max[x]
      BY <2>1, <2>2, <2>6
    <3>2. x \in missed => x \in missed'
      BY <1>3 DEF Delivery
    <3> QED BY <1>14, <2>1, <2>2, <2>4, <3>1, <3>2 DEF Known
  <2>10. Withdrawn(x)'
    <3> SUFFICES ASSUME Clean(x)' PROVE Withdrawn(x)'
      BY DEF Withdrawn
    <3>1. /\ raced \subseteq raced' /\ missed \subseteq missed'
          /\ x \in D /\ Full(x) => /\ route[s] = "registered" /\ info[s] # "sent" => x \in raced'
                                   /\ route[s] # "registered" /\ info[s] # "unread" => x \in missed'
      BY <1>3 DEF Delivery
    <3>2. Clean(x)
      BY <2>2, <3>1 DEF Clean, Announcing
    <3>3. x \in D /\ Full(x) => \/ route[s] = "registered" /\ info[s] = "sent"
                                \/ route[s] # "registered" /\ info[s] = "unread"
      BY <3>1 DEF Clean
    <3>4. Absent(x)' <=> Absent(x)
      BY <1>14, <2>1, <2>2, <2>4 DEF Absent
    <3>5. info[s] = "sent" \/ info[s] = "unread" => x \notin snapshot[s]
      BY <1>1 DEF Up
    <3>6. /\ 0 \in Limit /\ \A n \in {1, 2} : <<x, n>> \in remote'[t] <=> <<x, n>> \in remote[t]
          /\ \A i : <<x, 2>> \in matched'[i] <=> <<x, 2>> \in matched[i]
      BY <2>2, LimitIs
    <3>7. Told(x)' => \/ Absent(x)
                      \/ nm'[x] < max[x]
                      \/ In(wire'[s], UNSUB(x, 0)) /\ x \notin snapshot[s]
      <4>1. CASE x \in D /\ Full(x)
        BY <1>14, <2>1, <2>4, <3>2, <3>3, <3>5, <3>6, <4>1 DEF Withdrawn
      <4>2. CASE ~(x \in D /\ Full(x))
        <5>1. Told(x)' => Told(x)
          BY <1>14, <2>2, <4>2 DEF Told
        <5>2. nm[x] < max[x] => nm'[x] < max[x]
          BY <2>1, <2>2, <2>5, <4>2
        <5> QED BY <1>14, <2>1, <2>4, <3>2, <3>6, <5>1, <5>2 DEF Withdrawn
      <4> QED BY <4>1, <4>2
    <3>8. \A k \in Limit : In(wire'[s], UNSUB(x, k)) /\ ~In(wire[s], UNSUB(x, k)) =>
             info[s] = "sent" /\ x \notin snapshot[s]
      BY <2>4, <3>3, <3>5
    <3>9. Announcing(x)' <=> Announcing(x)
      BY <2>2 DEF Announcing
    <3> QED BY <1>14, <2>1, <2>2, <2>4, <3>2, <3>4, <3>6, <3>7, <3>8, <3>9 DEF Withdrawn
  <2> QED BY <2>8, <2>9, <2>10
<1>15. ASSUME NEW x \in Subs, Home[x] = t PROVE (Counted(x) /\ Known(x) /\ Withdrawn(x))'
  <2>1. /\ Counted(x) /\ Known(x) /\ Withdrawn(x) /\ Other(Home[x]) = s /\ x \notin Entry
        /\ nm[x] \in Nat /\ max[x] \in Nat /\ Count(wire[s], x) \in Nat /\ Count(wire'[s], x) \in Nat
        /\ Count(wire'[s], x) >= Count(wire[s], x)
        /\ \A n \in {1, 2} : nm[<<x, n>>] \in Nat /\ max[<<x, n>>] \in Nat
    <3>1. \A n \in {1, 2} : nm[<<x, n>>] \in Nat /\ max[<<x, n>>] \in Nat
      BY <1>1, Counts
    <3>2. Count(wire'[s], x) \in Nat /\ Count(wire'[s], x) >= Count(wire[s], x)
      BY <1>4
    <3> QED BY <1>1, <1>15, <3>1, <3>2, Counts, EntryIs DEF InterestInv
  <2>2. /\ UNCHANGED <<route, info, snapshot, op, closed, max, matched>>
        /\ nm'[x] = nm[x] /\ local'[t] = local[t]
        /\ byRsid'[x] = IF \E e \in R : Full(e) /\ e[1] = x THEN 0 ELSE byRsid[x]
        /\ x \notin D /\ (x \in raced' <=> x \in raced) /\ (x \in missed' <=> x \in missed)
    <3>1. x \notin D /\ x \notin R /\ UNCHANGED <<route, info, snapshot, op, closed, max, matched>>
      BY <1>1, <1>15, <2>1 DEF Handed
    <3> QED BY <1>1, <1>3, <3>1 DEF Delivery
  <2>3. ASSUME NEW n \in {1, 2}
        PROVE  /\ nm'[<<x, n>>] = IF <<x, n>> \in R THEN nm[<<x, n>>] + 1 ELSE nm[<<x, n>>]
               /\ <<x, n>> \in remote'[s] <=>
                     <<x, n>> \in remote[s] /\ ~(<<x, n>> \in R /\ Full(<<x, n>>))
               /\ Full(<<x, n>>) <=> max[<<x, n>>] > 0 /\ nm[<<x, n>>] + 1 >= max[<<x, n>>]
               /\ <<x, n>> \in R /\ ~Over(<<x, n>>) => Count(wire'[s], x) >= Count(wire[s], x) + 1
    <3>1. <<x, n>> \in Entry /\ <<x, n>>[1] = x /\ <<x, n>> \notin D
      BY EntryIs
    <3>2. nm'[<<x, n>>] = IF <<x, n>> \in R THEN nm[<<x, n>>] + 1 ELSE nm[<<x, n>>]
      BY <1>3, <3>1 DEF Delivery
    <3>3. <<x, n>> \in remote'[s] <=> <<x, n>> \in remote[s] /\ ~(<<x, n>> \in R /\ Full(<<x, n>>))
      BY <1>3 DEF Delivery
    <3>4. <<x, n>> \in R /\ ~Over(<<x, n>>) => Count(wire'[s], x) >= Count(wire[s], x) + 1
      <4> SUFFICES ASSUME <<x, n>> \in R, ~Over(<<x, n>>)
                   PROVE  Count(wire'[s], x) >= Count(wire[s], x) + 1
        OBVIOUS
      <4>1. In(f, MsgFor(x, m))
        BY <1>6, <3>1
      <4>2. MsgFor(x, m).kind = "MSG" /\ MsgFor(x, m).sub = x
        BY Kinds
      <4> QED BY <1>4, <4>1, <4>2
    <3> QED BY <3>2, <3>3, <3>4 DEF Full
  <2>5. ASSUME NEW n \in {1, 2}, <<x, n>> \in remote[s]
        PROVE  /\ max[<<x, n>>] > 0 => nm[<<x, n>>] < max[<<x, n>>]
               /\ ~Over(<<x, n>>)
               /\ x \in local[t] => nm[<<x, n>>] <= nm[x] + Count(wire[s], x)
    <3>1. /\ max[<<x, n>>] > 0 => nm[<<x, n>>] < max[<<x, n>>]
          /\ x \in local[t] => nm[<<x, n>>] <= nm[x] + Count(wire[s], x)
      BY <1>15, <2>1, <2>5 DEF Counted
    <3>2. nm[<<x, n>>] \in Nat /\ max[<<x, n>>] \in Nat
      BY <2>1
    <3>3. ~(max[<<x, n>>] > 0 /\ nm[<<x, n>>] + 1 > max[<<x, n>>])
      BY <3>1, <3>2
    <3>4. ~Over(<<x, n>>)
      BY <3>3 DEF Over
    <3> QED BY <3>1, <3>4
  <2>6. Counted(x)'
    <3>1. ASSUME NEW n \in {1, 2}, <<x, n>> \in remote'[s]
          PROVE  /\ max[<<x, n>>] > 0 => nm'[<<x, n>>] < max[<<x, n>>]
                 /\ x \in local[t] => nm'[<<x, n>>] <= nm[x] + Count(wire'[s], x)
      <4>1. <<x, n>> \in remote[s] /\ ~(<<x, n>> \in R /\ Full(<<x, n>>))
        BY <2>3, <3>1
      <4>2. /\ max[<<x, n>>] > 0 => nm[<<x, n>>] < max[<<x, n>>]
            /\ ~Over(<<x, n>>)
            /\ x \in local[t] => nm[<<x, n>>] <= nm[x] + Count(wire[s], x)
        BY <2>5, <4>1
      <4>3. /\ nm[<<x, n>>] \in Nat /\ max[<<x, n>>] \in Nat /\ nm[x] \in Nat
            /\ Count(wire[s], x) \in Nat /\ Count(wire'[s], x) \in Nat
            /\ Count(wire'[s], x) >= Count(wire[s], x)
        BY <2>1
      <4>4. CASE <<x, n>> \in R
        <5>1. /\ nm'[<<x, n>>] = nm[<<x, n>>] + 1 /\ Count(wire'[s], x) >= Count(wire[s], x) + 1
              /\ ~(max[<<x, n>>] > 0 /\ nm[<<x, n>>] + 1 >= max[<<x, n>>])
          BY <2>3, <4>1, <4>2, <4>4
        <5> QED BY SMTT(30), <4>2, <4>3, <5>1
      <4>5. CASE <<x, n>> \notin R
        <5>1. nm'[<<x, n>>] = nm[<<x, n>>]
          BY <2>3, <4>5
        <5> QED BY <4>2, <4>3, <5>1
      <4> QED BY <4>4, <4>5
    <3>2. \A n \in {1, 2} : <<x, n>> \in remote'[s] => <<x, n>> \in remote[s]
      BY <2>3
    <3> QED BY <1>5, <1>15, <2>1, <2>2, <3>1, <3>2 DEF Counted
  <2>7. Known(x)'
    <3>1. max[x] > 0 /\ nm[x] + Count(wire[s], x) >= max[x] => nm[x] + Count(wire'[s], x) >= max[x]
      BY <2>1
    <3>2. ASSUME NEW n \in {1, 2}, <<x, n>> \in remote[s], <<x, n>> \notin remote'[s], x \in local[t]
          PROVE  max[x] > 0 /\ nm[x] + Count(wire'[s], x) >= max[x]
      <4>1. max[<<x, n>>] \in {0, max[x]}
        BY <2>1 DEF Counted
      <4>2. /\ <<x, n>> \in R /\ ~Over(<<x, n>>)
            /\ max[<<x, n>>] > 0 /\ nm[<<x, n>>] + 1 >= max[<<x, n>>]
            /\ Count(wire'[s], x) >= Count(wire[s], x) + 1
        BY <2>3, <2>5, <3>2
      <4>3. nm[<<x, n>>] <= nm[x] + Count(wire[s], x)
        BY <2>5, <3>2
      <4>4. /\ nm[<<x, n>>] \in Nat /\ max[<<x, n>>] \in Nat /\ nm[x] \in Nat /\ max[x] \in Nat
            /\ Count(wire[s], x) \in Nat /\ Count(wire'[s], x) \in Nat
        BY <2>1
      <4> QED BY SMTT(30), <4>1, <4>2, <4>3, <4>4
    <3> QED BY <1>5, <1>15, <2>1, <2>2, <3>1, <3>2 DEF Known
  <2>8. Withdrawn(x)'
    <3>1. Clean(x)' => Clean(x)
      BY <2>2 DEF Clean, Announcing
    <3>2. Clean(x) => byRsid'[x] = byRsid[x] \/ <<x, 1>> \notin remote'[s]
      <4> SUFFICES ASSUME Clean(x), NEW e \in R, Full(e), e[1] = x PROVE <<x, 1>> \notin remote'[s]
        BY <2>2
      <4>1. \A i \in Msgs : <<x, 2>> \notin matched[i]
        BY <2>1 DEF Withdrawn
      <4>2. e[2] \in {1, 2} /\ e = <<x, e[2]>> /\ e \in matched[m]
        BY <1>7
      <4>3. e = <<x, 1>>
        BY <4>1, <4>2
      <4> QED BY <2>3, <4>3
    <3>3. \A n \in {1, 2} : <<x, n>> \in remote'[s] => <<x, n>> \in remote[s]
      BY <2>3
    <3> QED BY <1>5, <1>15, <2>1, <2>2, <3>1, <3>2, <3>3, WithdrawnStays
  <2> QED BY <2>6, <2>7, <2>8
<1> QED
  <2>1. \A v \in Servers : (Homes(v) /\ Up(v))'
    BY <1>1, <1>9, <1>10, <1>11
  <2>2. ASSUME NEW x \in Subs PROVE (Named(x) /\ Counted(x) /\ Known(x) /\ Withdrawn(x))'
    BY <1>1, <1>13, <1>14, <1>15, HomeIs
  <2> QED BY <1>8, <1>12, <2>1, <2>2

LEMMA ProcessMsgInv ==
  ASSUME InterestInv, NEW m \in Msgs, processMsg(m) PROVE InterestInv'
<1> DEFINE s == Origin[m]
           clients == matched[m] \intersect Subs
           entries == matched[m] \ Subs
           plain == {e \in entries : IsPlain(e)}
           group == {x \in clients : x \in Queue} \union {e \in entries : ~IsPlain(e)}
<1>1. /\ stage[m] = "matched" /\ stage' = [stage EXCEPT ![m] = "sent"]
      /\ UNCHANGED <<linking, max, op, closed, matched, due>>
  BY DEF processMsg
<1>2. PICK R \in OncePerRoute(plain) :
      \E G \in IF group = {} THEN {{}} ELSE {{x} : x \in group} :
          /\ Deliver(s, m, (clients \intersect Plain) \union (G \intersect Subs), R \union (G \ Subs), wire)
          /\ dropped' = IF \E e \in R : Over(e) THEN dropped \union {m} ELSE dropped
  BY DEF processMsg
<1>3. PICK G \in IF group = {} THEN {{}} ELSE {{x} : x \in group} :
          /\ Deliver(s, m, (clients \intersect Plain) \union (G \intersect Subs), R \union (G \ Subs), wire)
          /\ dropped' = IF \E e \in R : Over(e) THEN dropped \union {m} ELSE dropped
  BY <1>2
<1> PICK D, E : /\ D = (clients \intersect Plain) \union (G \intersect Subs)
                /\ E = R \union (G \ Subs)
  OBVIOUS
<1>4. /\ Types /\ s \in Servers /\ Homes(s) /\ Once(m) /\ Reached(m)
      /\ matched[m] \subseteq Subs \union Entry
  BY MsgsAssumption DEF InterestInv, Types
(* Of the entries, one that is plain at most, or none if there is none; of the  *)
(* group, here or there, one at most.                                           *)
<1>5. /\ R \subseteq plain /\ \A d, e \in R : d = e
      /\ plain # {} => R # {}
      /\ G \subseteq group /\ \A x, y \in G : x = y
  BY <1>2, <1>3 DEF OncePerRoute
<1>6. /\ D \subseteq Subs /\ E \subseteq Entry /\ \A x \in D : x \in matched[m] /\ Home[x] = s
      /\ \A e \in E : e \in matched[m]
  <2>1. \A y \in matched[m] : y \in Subs => Home[y] = s
    BY <1>4 DEF Homes
  <2> QED BY <1>4, <1>5, <2>1
<1>7. Deliver(s, m, D, E, wire)
  BY <1>3
<1>8. Handed(s, m, D, E, wire)
  <2>1. \A x \in Subs : Count(wire[Other(s)], x) \in Nat
    BY <1>4, Others, Counts
  <2>2. local[s] \subseteq Subs
    BY <1>4 DEF Types
  <2>3. \A i \in Msgs : i # m => stage'[i] = stage[i] /\ (i \in dropped' <=> i \in dropped)
    BY <1>1, <1>3, <1>4 DEF Types
  <2>4. stage' \in [Msgs -> {"new", "matched", "sent"}]
    BY <1>1, <1>4 DEF Types
  <2>5. \A x \in local[s] : Count(wire[Other(s)], x) <= Count(wire[Other(s)], x) + (IF x \in D THEN 1 ELSE 0)
    BY <2>1, <2>2
  <2>6. /\ \A x \in D : Home[x] = s
        /\ \A e \in E : e \in matched[m] /\ Origin[m] = s
    BY <1>6
  <2> QED BY <1>1, <2>1, <2>3, <2>4, <2>5, <2>6 DEF Handed
<1>9. /\ Types' /\ \A v \in Servers : (Homes(v) /\ Up(v))'
      /\ \A i \in Msgs : i # m => (Once(i) /\ Reached(i))'
      /\ \A x \in Subs : (Named(x) /\ Counted(x) /\ Known(x) /\ Withdrawn(x))'
  <2>1. wire \in [Servers -> Seq(Proto)]
    BY <1>4 DEF Types
  <2> QED BY <1>4, <1>6, <1>7, <1>8, <2>1, DeliverInv
<1>10. PICK f \in Seq(Proto) : /\ wire' \in [Servers -> Seq(Proto)] /\ wire'[s] = wire[s] \o f
                               /\ \A v \in Servers : v # s => wire'[v] = wire[v]
                               /\ Sends(f, s, m, D, E)
  <2>1. wire \in [Servers -> Seq(Proto)]
    BY <1>4 DEF Types
  <2> PICK u : u = wire
    OBVIOUS
  <2>2. Deliver(s, m, D, E, u) /\ u \in [Servers -> Seq(Proto)]
    BY <1>7, <2>1
  <2>3. \E f \in Seq(Proto) :
           /\ wire' \in [Servers -> Seq(Proto)] /\ wire'[s] = u[s] \o f
           /\ \A v \in Servers : v # s => wire'[v] = u[v]
           /\ Sends(f, s, m, D, E)
    <3> HIDE DEF s
    <3>1. s \in Servers /\ D \subseteq Subs /\ E \subseteq Entry
      BY <1>4, <1>6
    <3> QED BY <2>2, <3>1, Sent
  <2> QED BY <2>3
<1>11. Delivery(s, m, D, E)
  <2> QED BY <1>4, <1>6, <1>7, Delivered
(* Nothing was delivered or sent before.                                        *)
<1>12. /\ \A x \in Subs : got[<<m, x>>] = 0 /\ ~In(wire[s], MsgFor(x, m))
       /\ \A x \in Subs : got'[<<m, x>>] = IF x \in D /\ ~Over(x) /\ closed[x] = "open" THEN 1 ELSE 0
  <2>1. \A x \in Subs : got[<<m, x>>] = 0 /\ ~In(wire[s], MsgFor(x, m))
    BY <1>1, <1>4 DEF Once
  <2>2. \A i \in Msgs, x \in Subs :
          got'[<<i, x>>] = IF i = m /\ x \in D /\ ~Over(x) /\ closed[x] = "open" THEN got[<<i, x>>] + 1
                           ELSE got[<<i, x>>]
    BY <1>11, Zenon DEF Delivery
  <2>3. \A x \in Subs : x \in D /\ ~Over(x) /\ closed[x] = "open" => got'[<<m, x>>] = got[<<m, x>>] + 1
    BY <2>2, Zenon
  <2>4. \A x \in Subs : ~(x \in D /\ ~Over(x) /\ closed[x] = "open") => got'[<<m, x>>] = got[<<m, x>>]
    BY <2>2, Zenon
  <2> SUFFICES ASSUME NEW x \in Subs
               PROVE  got'[<<m, x>>] = IF x \in D /\ ~Over(x) /\ closed[x] = "open" THEN 1 ELSE 0
    BY <2>1
  <2>5. CASE x \in D /\ ~Over(x) /\ closed[x] = "open"
    BY <2>1, <2>3, <2>5
  <2>6. CASE ~(x \in D /\ ~Over(x) /\ closed[x] = "open")
    BY <2>1, <2>4, <2>6
  <2> QED BY <2>5, <2>6
<1>13. /\ \A x \in Subs : In(wire'[s], MsgFor(x, m)) <=> In(f, MsgFor(x, m))
       /\ \A x, y \in Subs : Precedes(wire'[s], MsgFor(x, m), MsgFor(y, m)) =>
                               Precedes(f, MsgFor(x, m), MsgFor(y, m))
  <2>1. wire[s] \in Seq(Proto)
    BY <1>4 DEF Types
  <2>2. \A p : In(wire[s] \o f, p) <=> In(wire[s], p) \/ In(f, p)
    BY <2>1, InConcat
  <2>3. \A p, q : Precedes(wire[s] \o f, p, q) =>
                    Precedes(wire[s], p, q) \/ (In(wire[s], p) /\ In(f, q)) \/ Precedes(f, p, q)
    BY <2>1, PrecedesConcat
  <2>4. wire'[s] = wire[s] \o f
    BY <1>10
  <2>5. \A x \in Subs : In(wire'[s], MsgFor(x, m)) <=> In(f, MsgFor(x, m))
    BY <1>12, <2>2, <2>4
  <2>6. ASSUME NEW x \in Subs, NEW y \in Subs, Precedes(wire'[s], MsgFor(x, m), MsgFor(y, m))
        PROVE  Precedes(f, MsgFor(x, m), MsgFor(y, m))
    <3>1. ~In(wire[s], MsgFor(x, m))
      BY <1>12
    <3>2. ~Precedes(wire[s], MsgFor(x, m), MsgFor(y, m))
      BY <3>1, PrecedesIn
    <3> QED BY <2>3, <2>4, <2>6, <3>1, <3>2
  <2> QED BY <2>5, <2>6
<1>14. /\ \A x \in Subs : In(f, MsgFor(x, m)) <=> \E e \in E : e[1] = x /\ ~Over(e)
       /\ \A x \in Subs : ~Precedes(f, MsgFor(x, m), MsgFor(x, m))
  <2> SUFFICES ASSUME NEW x \in Subs
               PROVE  /\ In(f, MsgFor(x, m)) <=> \E e \in E : e[1] = x /\ ~Over(e)
                      /\ ~Precedes(f, MsgFor(x, m), MsgFor(x, m))
    OBVIOUS
  <2>1. /\ \A y : MsgFor(x, m) # UNSUB(y, 0)
        /\ \A y : MsgFor(x, m) = MsgFor(y, m) <=> y = x
    BY Kinds
  <2> QED BY <1>10, <2>1 DEF Sends
<1>15. /\ \A x \in Plain : In(f, MsgFor(x, m)) => \E e \in R : e[1] = x
       /\ \A x \in Queue : In(f, MsgFor(x, m)) => \E e \in G \ Subs : e[1] = x
  <2>1. \A e \in R : e[1] \in Plain
    BY <1>5 DEF IsPlain
  <2>2. \A e \in G \ Subs : e[1] \in Queue
    <3> SUFFICES ASSUME NEW e \in G \ Subs PROVE e[1] \in Queue
      OBVIOUS
    <3>1. e \in Entry /\ ~IsPlain(e)
      BY <1>4, <1>5
    <3> QED BY <3>1, EntryIs DEF IsPlain, Plain
  <2>3. \A x \in Plain : x \in Subs /\ x \notin Queue
    BY DEF Plain
  <2> QED BY <1>14, <2>1, <2>2, <2>3, SubsAssumption
<1>16. \A x, y \in Subs : (x \in Queue <=> y \in Queue) /\ In(f, MsgFor(x, m)) /\ In(f, MsgFor(y, m)) => x = y
  BY <1>5, <1>15 DEF Plain
<1>17. /\ \A x \in Queue : x \in D => x \in G
       /\ \A x \in Plain : x \in matched[m] => x \in D
  BY <1>5 DEF Plain
<1>18. stage'[m] = "sent" /\ Queue \subseteq Subs
  BY <1>1, <1>4, SubsAssumption DEF Types
<1>19. Once(m)'
  <2>1. \A x, y \in Subs : (x \in Queue <=> y \in Queue) => ~Precedes(wire'[s], MsgFor(x, m), MsgFor(y, m))
    <3> SUFFICES ASSUME NEW x \in Subs, NEW y \in Subs, x \in Queue <=> y \in Queue,
                        Precedes(wire'[s], MsgFor(x, m), MsgFor(y, m))
                 PROVE  FALSE
      OBVIOUS
    <3>1. Precedes(f, MsgFor(x, m), MsgFor(y, m))
      BY <1>13
    <3>2. x = y
      BY <1>16, <3>1, PrecedesIn
    <3> QED BY <1>14, <3>1, <3>2
  <2>2. \A x, y \in Queue : got'[<<m, x>>] > 0 /\ got'[<<m, y>>] > 0 => x = y
    BY <1>5, <1>12, <1>17, <1>18
  <2>3. \A y \in Plain : Home[y] # s => got'[<<m, y>>] = 0
    BY <1>6, <1>12 DEF Plain
  <2>4. \A x \in Queue : In(wire'[s], MsgFor(x, m)) => \A y \in Queue : got'[<<m, y>>] = 0
    <3> SUFFICES ASSUME NEW x \in Queue, In(wire'[s], MsgFor(x, m)), NEW y \in Queue
                 PROVE  y \notin D
      BY <1>12, <1>18
    <3>1. \E e \in G : e \notin Subs
      BY <1>13, <1>15, <1>18
    <3> QED BY <1>5, <1>17, <1>18, <3>1
  <2>5. \A x \in Subs : got'[<<m, x>>] <= 1
    BY <1>12
  <2> QED BY <1>18, <2>1, <2>2, <2>3, <2>4, <2>5 DEF Once
<1>20. Reached(m)'
  <2>1. UNCHANGED <<op, closed, max, due, matched>>
    BY <1>1
  <2>2. ASSUME m \notin dropped', NEW x \in due[m]
        PROVE  \/ got'[<<m, x>>] = 1 \/ x \notin local'[Home[x]] \/ max[x] > 0
               \/ Home[x] # s /\ Pending(m)'
    <3>1. x \in Plain /\ x \in Subs
      BY <1>4 DEF Types, Plain
    <3>2. x \in matched[m] \/ \E n \in {1, 2} : <<x, n>> \in matched[m]
      BY <1>1, <1>4 DEF Reached
    <3>3. CASE x \in matched[m]
      <4>1. x \in local'[Home[x]] => closed[x] = "open"
        BY <1>9, <2>1, <3>1 DEF Counted
      <4> QED BY <1>12, <1>17, <3>1, <3>3, <4>1 DEF Over
    <3>4. ASSUME NEW n \in {1, 2}, <<x, n>> \in matched[m] PROVE Home[x] # s /\ Pending(m)'
      <4>1. <<x, n>> \in Entry /\ <<x, n>> \notin Subs /\ <<x, n>>[1] = x
        BY <3>1, EntryIs
      <4>2. Home[x] # s
        BY <1>4, <3>4, <4>1 DEF Homes
      <4>3. <<x, n>> \in plain
        BY <3>1, <3>4, <4>1 DEF IsPlain
      <4>4. PICK e \in R : TRUE
        BY <1>5, <4>3
      <4>5. ~Over(e) /\ e[1] \in Plain /\ e \in E
        BY <1>3, <1>5, <2>2 DEF IsPlain
      <4>6. In(wire'[s], MsgFor(e[1], m))
        BY <1>13, <1>14, <4>5 DEF Plain
      <4> QED BY <4>2, <4>5, <4>6 DEF Pending
    <3> QED BY <3>2, <3>3, <3>4
  <2> QED BY <1>4, <1>18, <2>1, <2>2 DEF Reached
<1> QED BY <1>9, <1>19, <1>20 DEF InterestInv

LEMMA RouteMsgInv ==
  ASSUME InterestInv, NEW s \in Servers, RouteMsg(s) PROVE InterestInv'
<1>b. PICK t : t = Other(s)
  OBVIOUS
<1>c. PICK w : w = wire[t]
  OBVIOUS
<1>d. PICK y, m : y = Head(w).sub /\ m = Head(w).msg
  OBVIOUS
<1>a. PICK D, R, u : D = Routed(s, y) /\ R = {} /\ u = [wire EXCEPT ![t] = Tail(@)]
  OBVIOUS
<1>0. /\ Types /\ t \in Servers /\ t # s /\ Other(t) = s /\ \A v \in Servers : v = s \/ v = t
      /\ w # <<>> /\ Head(w).kind = "MSG" /\ Deliver(s, m, D, R, u)
      /\ UNCHANGED <<linking, max, op, closed, stage, matched, due, dropped>>
      /\ t = Other(s) /\ w = wire[t] /\ y = Head(w).sub /\ m = Head(w).msg
  BY <1>a, <1>b, <1>c, <1>d, Others DEF InterestInv, RouteMsg, Reads
<1>1. /\ u \in [Servers -> Seq(Proto)] /\ Head(w) \in Proto /\ u[s] = wire[s]
      /\ \A q : In(w, q) <=> Head(w) = q \/ In(u[t], q)
      /\ \A q, r : Precedes(u[t], q, r) => Precedes(w, q, r)
      /\ \A q : In(u[t], q) => Precedes(w, Head(w), q)
      /\ \A x : /\ Count(u[t], x) \in Nat /\ Count(w, x) <= Count(u[t], x) + 1
                /\ x # y => Count(w, x) <= Count(u[t], x)
  <2>1. wire[t] # <<>> /\ Head(wire[t]).kind = "MSG" /\ Head(wire[t]).sub = y
    BY <1>0
  <2>2. /\ u \in [Servers -> Seq(Proto)] /\ Head(wire[t]) \in Proto
        /\ \A v \in Servers : v # t => u[v] = wire[v]
        /\ \A p : In(wire[t], p) <=> Head(wire[t]) = p \/ In(u[t], p)
        /\ \A p, q : Precedes(u[t], p, q) => Precedes(wire[t], p, q)
        /\ \A q : In(u[t], q) => Precedes(wire[t], Head(wire[t]), q)
        /\ \A x : /\ Count(u[t], x) \in Nat /\ Count(wire[t], x) <= Count(u[t], x) + 1
                  /\ ~(Head(wire[t]).kind = "MSG" /\ Head(wire[t]).sub = x) =>
                       Count(wire[t], x) <= Count(u[t], x)
    BY ZenonT(30), <1>0, <1>a, <2>1, Popped
  <2> QED BY <1>0, <2>1, <2>2
<1>2. y \in Subs /\ m \in Msgs /\ Head(w) = MsgFor(y, m) /\ In(w, MsgFor(y, m))
  BY <1>0, <1>1, ProtoIs
<1>3. /\ Home[y] = s /\ Origin[m] = t /\ Once(m) /\ Reached(m) /\ stage[m] = "sent"
  <2>1. Homes(t) /\ Once(m) /\ Reached(m)
    BY <1>0, <1>2 DEF InterestInv
  <2>2. Home[y] # t /\ Origin[m] = t
    BY <1>0, <1>2, <2>1 DEF Homes
  <2> QED BY <1>0, <1>2, <2>1, <2>2, HomeIs DEF Once
(* It is for y, if that is in the group, and for all others here otherwise.     *)
<1>4. /\ D \subseteq Subs /\ \A x \in D : x \in local[s] /\ Home[x] = s
      /\ y \in Queue => \A x \in D : x = y
      /\ y \notin Queue => D = local[s] \intersect Plain
      /\ y \in local[s] => y \in D
  <2>1. local[s] \subseteq Subs /\ Homes(s)
    BY <1>0 DEF Types, InterestInv
  <2> QED BY <1>2, <1>a, <2>1 DEF Routed, Homes, Plain
<1>5. Handed(s, m, D, R, u)
  <2>1. \A x \in local[s] : Count(w, x) <= Count(u[t], x) + (IF x \in D THEN 1 ELSE 0)
    <3> SUFFICES ASSUME NEW x \in local[s]
                 PROVE  Count(w, x) <= Count(u[t], x) + (IF x \in D THEN 1 ELSE 0)
      OBVIOUS
    <3>1. x \in Subs /\ Count(w, x) \in Nat /\ Count(u[t], x) \in Nat
      BY <1>0, <1>1, Counts DEF Types
    <3>2. CASE x = y
      BY <1>1, <1>4, <3>1, <3>2
    <3>3. CASE x # y
      BY <1>1, <3>1, <3>3
    <3> QED BY <3>2, <3>3
  <2>2. \A p \in Proto : In(w, p) /\ ~In(u[t], p) => p.kind = "MSG" /\ p.msg = m
    BY <1>0, <1>1
  <2>3. /\ stage' \in [Msgs -> {"new", "matched", "sent"}]
        /\ \A i \in Msgs : i # m => stage'[i] = stage[i] /\ (i \in dropped' <=> i \in dropped)
    BY <1>0 DEF Types
  <2>4. \A x \in D : Home[x] = s
    BY <1>4
  <2> QED BY <1>0, <1>1, <1>a, <2>1, <2>2, <2>3, <2>4 DEF Handed
<1>6. /\ Types' /\ \A v \in Servers : (Homes(v) /\ Up(v))'
      /\ \A i \in Msgs : i # m => (Once(i) /\ Reached(i))'
      /\ \A x \in Subs : (Named(x) /\ Counted(x) /\ Known(x) /\ Withdrawn(x))'
  <2>1. R \subseteq Entry
    BY <1>a
  <2> QED BY <1>0, <1>1, <1>2, <1>4, <1>5, <2>1, DeliverInv
<1>7. wire'[t] = u[t]
  <2>1. m \in Msgs /\ R \subseteq Entry /\ Deliver(s, m, D, R, u) /\ u \in [Servers -> Seq(Proto)] /\ D \subseteq Subs
    BY <1>0, <1>1, <1>2, <1>4, <1>a
  <2>2. \E f \in Seq(Proto) :
           /\ wire' \in [Servers -> Seq(Proto)] /\ wire'[s] = u[s] \o f
           /\ \A v \in Servers : v # s => wire'[v] = u[v]
           /\ Sends(f, s, m, D, R)
    BY <2>1, Sent
  <2> QED BY <1>0, <2>2
<1>8. Delivery(s, m, D, R)
  BY <1>0, <1>a, <1>2, <1>4, Delivered
<1>9. /\ \A x \in Subs : got'[<<m, x>>] = IF x \in D /\ ~Over(x) THEN got[<<m, x>>] + 1 ELSE got[<<m, x>>]
      /\ \A x \in Subs : got[<<m, x>>] \in Nat
      /\ \A x \in Subs : x \in local'[Home[x]] => x \in local[Home[x]]
  <2>1. \A x \in Subs : got'[<<m, x>>] = IF x \in D /\ ~Over(x) THEN got[<<m, x>>] + 1 ELSE got[<<m, x>>]
    <3>1. \A x \in D : closed[x] = "open"
      BY <1>4 DEF InterestInv, Counted
    <3> QED BY <1>2, <1>8, <3>1 DEF Delivery
  <2>2. \A x \in Subs : got[<<m, x>>] \in Nat
    BY <1>0, <1>2 DEF Types
  <2>3. \A v \in Servers : local'[v] \subseteq local[v]
    BY <1>0, <1>8 DEF Delivery
  <2> QED BY <2>1, <2>2, <2>3, HomeIs
<1>10. /\ \A x \in Subs : In(wire'[t], MsgFor(x, m)) => In(w, MsgFor(x, m))
       /\ \A x \in Subs : In(wire'[t], MsgFor(x, m)) => Precedes(w, MsgFor(y, m), MsgFor(x, m))
       /\ \A x \in Subs : x # y /\ In(w, MsgFor(x, m)) => In(wire'[t], MsgFor(x, m))
       /\ \A x, z \in Subs : Precedes(wire'[t], MsgFor(x, m), MsgFor(z, m)) =>
                               Precedes(w, MsgFor(x, m), MsgFor(z, m))
  <2>1. \A x \in Subs : x # y => Head(w) # MsgFor(x, m)
    BY <1>2, Kinds
  <2> QED BY <1>1, <1>2, <1>7, <2>1
(* Before, those that are of its kind had not got it.                           *)
<1>11. /\ \A x \in Subs : got[<<m, x>>] <= 1
       /\ y \in Queue => \A x \in Queue : got[<<m, x>>] = 0
       /\ y \notin Queue => \A x \in Plain : Home[x] # t => got[<<m, x>>] = 0
       /\ \A x \in Subs : (x \in Queue <=> y \in Queue) => ~In(wire'[t], MsgFor(x, m))
  <2>1. y \in Plain <=> y \notin Queue
    BY <1>2 DEF Plain
  <2>2. \A x \in Subs : (x \in Queue <=> y \in Queue) => ~Precedes(w, MsgFor(y, m), MsgFor(x, m))
    BY <1>0, <1>2, <1>3 DEF Once
  <2> QED BY <1>0, <1>2, <1>3, <1>10, <2>1, <2>2 DEF Once
<1>12. Once(m)'
  <2>1. \A x \in Subs : got'[<<m, x>>] <= 1
    <3> SUFFICES ASSUME NEW x \in Subs PROVE got'[<<m, x>>] <= 1
      OBVIOUS
    <3>1. CASE x \in D
      <4>1. got[<<m, x>>] = 0
        BY <1>0, <1>4, <1>11, <3>1 DEF Plain
      <4> QED BY <1>9, <4>1
    <3>2. CASE x \notin D
      BY <1>9, <1>11, <3>2
    <3> QED BY <3>1, <3>2
  <2>2. \A x, z \in Queue : got'[<<m, x>>] > 0 /\ got'[<<m, z>>] > 0 => x = z
    <3>1. CASE y \in Queue
      BY <1>4, <1>9, <1>11, <3>1, SubsAssumption
    <3>2. CASE y \notin Queue
      <4>1. \A x \in Queue : got'[<<m, x>>] = got[<<m, x>>]
        BY <1>4, <1>9, <3>2, SubsAssumption DEF Plain
      <4> QED BY <1>3, <4>1 DEF Once
    <3> QED BY <3>1, <3>2
  <2>3. \A x, z \in Subs : (x \in Queue <=> z \in Queue) => ~Precedes(wire'[t], MsgFor(x, m), MsgFor(z, m))
    BY <1>0, <1>3, <1>10 DEF Once
  <2>4. \A x \in Plain : In(wire'[t], MsgFor(x, m)) =>
           \A z \in Plain : Home[z] # t => got'[<<m, z>>] = 0
    <3> SUFFICES ASSUME NEW x \in Plain, In(wire'[t], MsgFor(x, m)), NEW z \in Plain, Home[z] # t
                 PROVE  got'[<<m, z>>] = 0
      OBVIOUS
    <3>1. y \in Queue
      BY <1>11 DEF Plain
    <3>2. z \notin D
      BY <1>4, <3>1 DEF Plain
    <3> QED BY <1>0, <1>3, <1>9, <1>10, <3>2 DEF Once, Plain
  <2>5. \A x \in Queue : In(wire'[t], MsgFor(x, m)) => \A z \in Queue : got'[<<m, z>>] = 0
    <3> SUFFICES ASSUME NEW x \in Queue, In(wire'[t], MsgFor(x, m)), NEW z \in Queue
                 PROVE  got'[<<m, z>>] = 0
      OBVIOUS
    <3>1. y \notin Queue /\ x \in Subs /\ z \in Subs
      BY <1>11, SubsAssumption
    <3>2. z \notin D
      BY <1>4, <3>1 DEF Plain
    <3> QED BY <1>0, <1>3, <1>9, <1>10, <3>1, <3>2 DEF Once
  <2>6. stage'[m] = "sent" /\ t = Origin[m]
    BY <1>0, <1>3
  <2> QED BY <2>1, <2>2, <2>3, <2>4, <2>5, <2>6 DEF Once
<1>13. Reached(m)'
  <2>1. UNCHANGED <<op, max, due, matched, stage, dropped>>
    BY <1>0
  <2>2. ASSUME m \notin dropped, NEW x \in due[m]
        PROVE  \/ got'[<<m, x>>] = 1 \/ x \notin local'[Home[x]] \/ max[x] > 0
               \/ Home[x] # t /\ Pending(m)'
    <3>1. x \in Plain /\ x \in Subs
      BY <1>0, <1>2 DEF Types, Plain
    <3>2. \/ got[<<m, x>>] = 1 \/ x \notin local[Home[x]] \/ max[x] > 0
          \/ Home[x] # t /\ Pending(m)
      BY <1>3, <2>2 DEF Reached
    <3>3. got[<<m, x>>] = 1 => got'[<<m, x>>] = 1
      <4>1. got'[<<m, x>>] <= 1 /\ got'[<<m, x>>] \in Nat
        BY <1>3, <1>12, <3>1, <1>9 DEF Once
      <4> QED BY <1>9, <3>1, <4>1
    <3>4. x \in local'[Home[x]] => x \in local[Home[x]]
      BY <1>9, <3>1
    <3>5. CASE Home[x] # t /\ Pending(m)
      <4>1. Home[x] = s
        BY <1>0, <3>1, <3>5, HomeIs
      <4>2. CASE y \in Queue
        <5>1. PICK z \in Plain : In(w, MsgFor(z, m))
          BY <1>0, <1>3, <3>5 DEF Pending
        <5>2. z \in Subs /\ z # y
          BY <4>2 DEF Plain
        <5>3. In(wire'[t], MsgFor(z, m))
          BY <1>10, <5>1, <5>2
        <5>4. Pending(m)'
          BY <1>3, <5>3 DEF Pending
        <5> QED BY <3>5, <5>4
      <4>3. CASE y \notin Queue /\ x \in local[s]
        <5>1. x \in D /\ got[<<m, x>>] = 0
          BY <1>4, <1>11, <3>1, <3>5, <4>3
        <5> QED BY <1>9, <3>1, <5>1 DEF Over
      <4> QED BY <3>4, <4>1, <4>2, <4>3
    <3> QED BY <3>2, <3>3, <3>4, <3>5
  <2> QED BY <1>3, <2>1, <2>2 DEF Reached
<1> QED BY <1>6, <1>12, <1>13 DEF InterestInv
-----------------------------------------------------------------------------
(* Every step, and every state. *)

LEMMA StutterInv == InterestInv /\ UNCHANGED vars => InterestInv'
<1> SUFFICES ASSUME InterestInv, UNCHANGED vars PROVE InterestInv'
  OBVIOUS
<1> USE DEF vars, linking, counts, msgs, told
<1>1. Types'
  BY DEF InterestInv, Types
<1>2. ASSUME NEW t \in Servers PROVE (Homes(t) /\ Up(t))'
  BY DEF InterestInv, Homes, Up
<1>3. ASSUME NEW m \in Msgs PROVE (Once(m) /\ Reached(m))'
  BY DEF InterestInv, Once, Reached, Pending
<1>4. ASSUME NEW x \in Subs PROVE (Named(x) /\ Counted(x) /\ Known(x) /\ Withdrawn(x))'
  BY DEF InterestInv, Named, Counted, Known, Withdrawn, Clean, Absent, Announcing, Told
<1> QED BY <1>1, <1>2, <1>3, <1>4 DEF InterestInv

(* Every step keeps the invariant: what each server knows of the other's        *)
(* subscriptions, is about to tell it, and has on the wire (route.go:83-111,    *)
(* 211-308), after a client has withdrawn, closed, or done both in either order *)
(* (client.go:512-543, 886-921), and how far each message has come              *)
(* (client.go:584-788).                                                         *)
THEOREM InterestNext == InterestInv /\ [Next]_vars => InterestInv'
<1> SUFFICES ASSUME InterestInv, [Next]_vars PROVE InterestInv'
  OBVIOUS
<1>1. ASSUME NEW s \in Servers, createRoute(s) PROVE InterestInv'
  BY <1>1, CreateRouteInv
<1>2. ASSUME NEW s \in Servers, Register(s) PROVE InterestInv'
  BY <1>2, RegisterInv
<1>3. ASSUME NEW s \in Servers, CopyLocalSubs(s) PROVE InterestInv'
  BY <1>3, CopyInv
<1>4. ASSUME NEW s \in Servers, sendLocalSubsToRoute(s) PROVE InterestInv'
  BY <1>4, SendLocalSubsInv
<1>5. ASSUME NEW s \in Servers, RouteSub(s) PROVE InterestInv'
  BY <1>5, RouteSubInv
<1>6. ASSUME NEW s \in Servers, RouteUnsub(s) PROVE InterestInv'
  BY <1>6, RouteUnsubInv
<1>7. ASSUME NEW s \in Servers, RouteMsg(s) PROVE InterestInv'
  BY <1>7, RouteMsgInv
<1>8. ASSUME NEW x \in Subs, processSub(x) PROVE InterestInv'
  BY <1>8, ProcessSubInv
<1>9. ASSUME NEW x \in Subs, broadcastSubscribe(x) PROVE InterestInv'
  BY <1>9, BroadcastSubscribeInv
<1>10. ASSUME NEW x \in Subs, BroadcastUnsub(x) \/ BroadcastClose(x) PROVE InterestInv'
  BY <1>10, BroadcastUnsubInv
<1>11. ASSUME NEW x \in Subs, NEW limit \in Maxes, processUnsub(x, limit) PROVE InterestInv'
  BY <1>11, ProcessUnsubInv
<1>12. ASSUME NEW m \in Msgs, Match(m) PROVE InterestInv'
  BY <1>12, MatchInv
<1>13. ASSUME NEW m \in Msgs, processMsg(m) PROVE InterestInv'
  BY <1>13, ProcessMsgInv
<1>14. ASSUME NEW x \in Subs, closeConnection(x) PROVE InterestInv'
  BY <1>14, CloseInv
<1>15. CASE UNCHANGED vars
  BY <1>15, StutterInv
<1> QED BY <1>1, <1>2, <1>3, <1>4, <1>5, <1>6, <1>7, <1>8, <1>9, <1>10, <1>11, <1>12, <1>13, <1>14, <1>15
        DEF Next

(* The invariant holds always, from either start: the route up already, or      *)
(* coming up while clients subscribe, unsubscribe, close and publish.           *)
THEOREM InterestInvariance == Spec => []InterestInv
<1>1. Init => InterestInv
  BY InitInv
<1>2. InterestInv /\ [Next]_vars => InterestInv'
  BY InterestNext
<1> QED BY <1>1, <1>2, PTL DEF Spec

LEMMA InvTypeOK == InterestInv => TypeOK
<1> SUFFICES ASSUME InterestInv PROVE TypeOK
  OBVIOUS
<1>1. ASSUME NEW s \in Servers
      PROVE  /\ route[s] \in {"none", "created", "registered"}
             /\ info[s] \in {"unread", "copied", "sent"}
             /\ \A x \in local[s] : Home[x] = s
             /\ remote[s] \subseteq {e \in Entry : Home[e[1]] # s}
             /\ wire[s] # <<>> => route[s] = "registered" \/ info[s] = "sent"
  BY <1>1 DEF InterestInv, Types, Homes, Up
<1>2. ASSUME NEW x \in Subs, byRsid[x] # 0 PROVE <<x, byRsid[x]>> \in remote[Other(Home[x])]
  BY <1>2 DEF InterestInv, Named
<1>3. ASSUME NEW x \in Subs \union Entry PROVE max[x] \in Maxes \union {0} /\ nm[x] \in Nat
  BY <1>3 DEF InterestInv, Types, Limit
<1> QED BY <1>1, <1>2, <1>3 DEF TypeOK

(* The state fits its types: a server's own subscriptions are its clients', and *)
(* an rsid names an entry that is in the list (route.go:211-308).               *)
THEOREM InterestTypes == Spec => []TypeOK
BY InterestInvariance, InvTypeOK, PTL

LEMMA InvAtMostOnce == InterestInv => AtMostOnce
BY DEF InterestInv, Once, AtMostOnce

(* A message is delivered once at most to a plain subscription, and to one      *)
(* member of the queue group at most, over both servers (client.go:708-788).    *)
THEOREM AtMostOnceAlways == Spec => []AtMostOnce
BY InterestInvariance, InvAtMostOnce, PTL

LEMMA InvInterestAgrees == InterestInv => InterestAgrees
<1> SUFFICES ASSUME InterestInv, Quiet, NEW x \in Subs \ missed
             PROVE  /\ x \in local[Home[x]] => \E n \in {1, 2} : <<x, n>> \in remote[Other(Home[x])]
                    /\ (\E n \in {1, 2} : <<x, n>> \in remote[Other(Home[x])]) =>
                          \/ x \in local[Home[x]] \union raced
                          \/ closed[x] = "closed" /\ nm[x] < max[x]
  BY DEF InterestAgrees
<1>1. PICK s \in Servers : s = Home[x]
  BY HomeIs
<1>2. PICK t \in Servers : t = Other(s)
  BY Others
<1>3. /\ route[s] = "registered" /\ info[s] = "sent" /\ snapshot[s] = {}
      /\ wire[s] = <<>> /\ wire[t] = <<>> /\ \A p : ~In(wire[s], p)
  BY InEmpty DEF Quiet, InterestInv, Up
<1>4. ~Announcing(x) /\ op[x] \in {"new", "idle", "last"} /\ closed[x] \in {"open", "closed"}
  BY DEF Quiet, InterestInv, Types, Announcing
<1>5. Counted(x) /\ Known(x) /\ Withdrawn(x)
  BY DEF InterestInv
<1>6. nm[x] \in Nat /\ max[x] \in Nat /\ Count(wire[t], x) = 0
  BY <1>3, Counts, CountEmpty DEF InterestInv
<1>7. ASSUME x \in local[s] PROVE \E n \in {1, 2} : <<x, n>> \in remote[t]
  <2>1. ~(max[x] > 0 /\ nm[x] + Count(wire[t], x) >= max[x])
    BY <1>1, <1>4, <1>5, <1>6, <1>7 DEF Counted
  <2> QED BY <1>1, <1>2, <1>3, <1>4, <1>5, <1>7, <2>1 DEF Known
<1>8. ASSUME NEW n \in {1, 2}, <<x, n>> \in remote[t], x \notin raced, x \notin local[s]
      PROVE  closed[x] = "closed" /\ nm[x] < max[x]
  <2>1. Clean(x)
    BY <1>4, <1>8 DEF Clean
  <2>2. n = 1
    BY <1>1, <1>2, <1>5, <1>8, <2>1 DEF Withdrawn
  <2>3. ~Absent(x)
    BY <1>1, <1>2, <1>8, <2>2 DEF Absent
  <2>4. op[x] # "new" /\ (closed[x] = "open" => op[x] = "last")
    BY <1>1, <1>4, <1>5, <1>8, <2>1, <2>3 DEF Withdrawn, Counted
  <2>5. nm[x] < max[x]
    BY <1>1, <1>3, <1>4, <1>5, <1>8, <2>1, <2>3, <2>4 DEF Withdrawn, Told
  <2>6. closed[x] # "open"
    BY <1>1, <1>5, <1>6, <1>8, <2>4, <2>5 DEF Counted
  <2> QED BY <1>4, <2>5, <2>6
<1> QED BY <1>1, <1>2, <1>7, <1>8

(* When the route is up and all has been read, each server knows of every       *)
(* subscription at the other and of no other, but for those that the code       *)
(* announces or withdraws while the route comes up, and those that are closed   *)
(* before they are announced or have reached their maximum (route.go:83-111,    *)
(* 266-308, client.go:886-921).                                                 *)
THEOREM InterestAgreesAlways == Spec => []InterestAgrees
BY InterestInvariance, InvInterestAgrees, PTL

LEMMA InvEachIsReached == InterestInv => EachIsReached
<1> SUFFICES ASSUME InterestInv, NEW m \in Msgs, stage[m] = "sent", m \notin dropped,
                    \A s \in Servers : \A i \in 1..Len(wire[s]) :
                       wire[s][i].kind = "MSG" => wire[s][i].msg # m,
                    NEW x \in due[m]
             PROVE  got[<<m, x>>] = 1 \/ x \notin local[Home[x]] \/ max[x] > 0
  BY DEF EachIsReached
<1>1. Origin[m] \in Servers
  BY MsgsAssumption
<1>2. ~Pending(m)
  BY <1>1, Kinds DEF Pending, In
<1> QED BY <1>2 DEF InterestInv, Reached

(* A message reaches every plain subscription that its server knew of, unless   *)
(* it unsubscribes or closes meanwhile, or a full entry swallowed the message   *)
(* (client.go:584-592, 708-788).                                                *)
THEOREM EachIsReachedAlways == Spec => []EachIsReached
BY InterestInvariance, InvEachIsReached, PTL
===============================================================================
