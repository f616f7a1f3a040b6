----------------------------- MODULE ClientsProofs -----------------------------
(* Theorems about Clients, for any number of connections, operations, failures  *)
(* and pings.                                                                   *)
EXTENDS Clients, FiniteSetTheorems, TLAPS

Made == {s \in Sub : s \in made[s.client]}

(* What c.pout may be: it goes below zero with PONGs that were not asked for.   *)
Counts == {k \in Int : k <= MaxPingsOut + 1}

(* The types. *)
Shape ==
  /\ acc \subseteq Conns /\ toClose \subseteq Conns /\ clients \subseteq Conns
  /\ firing \subseteq Conns /\ buffered \subseteq Conns
  /\ nc \in [Conns -> {"new", "up", "cut", "nil"}]
  /\ closing \in [Conns -> {"no", "unregister", "subs", "done"}]
  /\ pc \in [Conns -> {"none", "read", "parse", "deliver", "unsub", "flush", "end"}]
  /\ ptmr \in [Conns -> BOOLEAN] /\ atmr \in [Conns -> BOOLEAN]
  /\ pout \in [Conns -> Counts]
  /\ pcd \in [Conns -> SUBSET Conns]
  /\ leaving \in [Conns -> SUBSET Sub]
  /\ todo \in [Conns -> SUBSET Made] /\ cur \in [Conns -> SUBSET Made]
  /\ sl \subseteq Made
  /\ nm \in [Sub -> Nat] /\ max \in [Sub -> Nat]
  /\ delivered \in [Sub -> Nat] /\ allowed \in [Sub -> Nat]

(* What a client has subscribed, and what c.subs holds of it. *)
Numbered(c) ==
  /\ made[c] \subseteq Sub /\ IsFiniteSet(made[c]) /\ Cardinality(made[c]) <= MaxSubs[c]
  /\ \A s \in made[c] : s.client = c /\ s.n <= Cardinality(made[c])
  /\ DOMAIN subs[c] \subseteq Sids
  /\ \A x \in DOMAIN subs[c] : subs[c][x] \in made[c] /\ subs[c][x].sid = x

(* A connection, its timers and its closing. *)
Ended(c) ==
  /\ closing[c] # "no" <=> nc[c] = "nil"
  /\ nc[c] = "new" => ~ptmr[c] /\ pout[c] = 0
  /\ nc[c] = "up" => ptmr[c]
  /\ ptmr[c] => pout[c] <= MaxPingsOut
  /\ closing[c] = "done" => leaving[c] = {}
  /\ c \in clients => closing[c] \in {"no", "unregister"} \/ c \in late
  /\ c \in buffered => nc[c] \notin {"new", "nil"}

(* Its read loop. *)
Loop(c) ==
  /\ pc[c] = "unsub" <=> cur[c] # {}
  /\ \A s, t \in cur[c] : s = t
  /\ pc[c] = "deliver" => todo[c] # {}
  /\ nc[c] = "new" => pc[c] = "none"

(* As long as it is open, what the list holds of a client is in c.subs; from    *)
(* then on it is what closeConnection has yet to remove.                        *)
Listed(c) ==
  /\ nc[c] = "new" => made[c] = {}
  /\ c \notin reused =>
       /\ nc[c] # "nil" => \A s, t \in made[c] : s.sid = t.sid => s = t
       /\ \A s \in sl : s.client = c =>
            IF nc[c] = "nil" THEN s \in leaving[c]
            ELSE s.sid \in DOMAIN subs[c] /\ subs[c][s.sid] = s

(* A subscription's count and maximum. *)
Limited(s) ==
  /\ s \notin Made => nm[s] = 0 /\ max[s] = 0
  /\ delivered[s] <= nm[s]
  /\ max[s] > 0 <=> allowed[s] > 0
  /\ max[s] > 0 => max[s] <= allowed[s] /\ delivered[s] <= allowed[s]
  /\ s \in sl /\ max[s] > 0 /\ nm[s] >= max[s] => \E c \in Conns : s \in cur[c]

Functional == /\ made = [c \in Conns |-> made[c]] /\ subs = [c \in Conns |-> subs[c]]

ClientInv ==
  /\ Shape /\ Functional
  /\ \A c \in Conns : Numbered(c)
  /\ \A c \in Conns : Ended(c)
  /\ \A c \in Conns : Loop(c)
  /\ \A c \in Conns : Listed(c)
  /\ \A s \in Sub : Limited(s)

-----------------------------------------------------------------------------
LEMMA SubIs ==
  ASSUME NEW s \in Sub
  PROVE  s.client \in Conns /\ s.sid \in Sids /\ s.n \in Nat
BY BoundsAssumption DEF Sub

LEMMA SubFrom ==
  ASSUME NEW c \in Conns, NEW x \in Sids, NEW n \in Nat, 1 <= n, n <= MaxSubs[c]
  PROVE  [client |-> c, sid |-> x, n |-> n] \in Sub
<1>1. [client |-> c, sid |-> x, n |-> n] \in [client : {c}, sid : Sids, n : 1..MaxSubs[c]]
  BY BoundsAssumption
<1> QED BY <1>1 DEF Sub

LEMMA MaxOfTwo ==
  ASSUME NEW a \in Nat, NEW b \in Nat
  PROVE  Max({a, b}) \in Nat /\ Max({a, b}) >= a /\ Max({a, b}) >= b
<1>1. \E x \in {a, b} : \A y \in {a, b} : x >= y
  OBVIOUS
<1>2. Max({a, b}) \in {a, b} /\ \A y \in {a, b} : Max({a, b}) >= y
  BY <1>1 DEF Max
<1> QED BY <1>2

(* What has been made is still made, so what refers to it has its type. *)
LEMMA MadeStays == UNCHANGED made => Made' = Made
BY DEF Made

LEMMA MadeGrows ==
  ASSUME \A c \in Conns : made[c] \subseteq made'[c] PROVE Made \subseteq Made'
BY SubIs DEF Made

LEMMA MadeIs ==
  ASSUME NEW s \in Made PROVE s \in Sub /\ s.client \in Conns /\ s \in made[s.client]
BY SubIs DEF Made

(* The parts of the invariant that a step leaves alone. *)
LEMMA EndedStays ==
  ASSUME \A c \in Conns : Ended(c),
         UNCHANGED <<nc, closing, ptmr, pout, leaving, clients, late>>,
         buffered' \subseteq buffered
  PROVE  \A c \in Conns : Ended(c)'
BY DEF Ended

LEMMA NumberedStays ==
  ASSUME \A c \in Conns : Numbered(c), UNCHANGED <<made, subs>>
  PROVE  \A c \in Conns : Numbered(c)'
BY DEF Numbered

LEMMA LoopStays ==
  ASSUME \A c \in Conns : Loop(c), UNCHANGED <<pc, cur, todo>>,
         \A c \in Conns : nc'[c] = "new" => nc[c] = "new"
  PROVE  \A c \in Conns : Loop(c)'
BY DEF Loop

LEMMA ListedStays ==
  ASSUME \A c \in Conns : Listed(c), \A c \in Conns : Numbered(c),
         UNCHANGED <<made, subs, reused>>, sl' \subseteq sl, Functional, sl \subseteq Made,
         \A c \in Conns : nc'[c] = "new" => nc[c] = "new",
         \A c \in Conns :
            \/ (nc'[c] = "nil" <=> nc[c] = "nil") /\ leaving'[c] = leaving[c]
            \/ nc[c] # "nil" /\ nc'[c] = "nil" /\ leaving'[c] = Range(subs[c])
  PROVE  \A c \in Conns : Listed(c)'
<1> SUFFICES ASSUME NEW c \in Conns PROVE Listed(c)'
  OBVIOUS
<1>1. Listed(c)
  OBVIOUS
<1>2. nc'[c] = "new" => made'[c] = {}
  BY <1>1 DEF Listed
<1>3. ASSUME c \notin reused', nc'[c] # "nil"
      PROVE \A s, t \in made'[c] : s.sid = t.sid => s = t
  BY <1>1, <1>3 DEF Listed
<1>4. ASSUME c \notin reused', NEW s \in sl', s.client = c
      PROVE IF nc'[c] = "nil" THEN s \in leaving'[c]
            ELSE s.sid \in DOMAIN subs'[c] /\ subs'[c][s.sid] = s
  <2>1. CASE (nc'[c] = "nil" <=> nc[c] = "nil") /\ leaving'[c] = leaving[c]
    BY <1>1, <1>4, <2>1 DEF Listed
  <2>2. CASE nc[c] # "nil" /\ nc'[c] = "nil" /\ leaving'[c] = Range(subs[c])
    BY <1>1, <1>4, <2>2 DEF Listed, Range
  <2> QED BY <2>1, <2>2
<1> QED BY <1>2, <1>3, <1>4 DEF Listed

LEMMA LimitedStays ==
  ASSUME \A s \in Sub : Limited(s), UNCHANGED <<nm, max, delivered, allowed, made>>,
         sl' \subseteq sl, \A c \in Conns : cur[c] \subseteq cur'[c]
  PROVE  \A s \in Sub : Limited(s)'
<1>1. Made' = Made
  BY MadeStays
<1> QED BY <1>1 DEF Limited

(* closeConnection. *)
LEMMA CloseEnds ==
  ASSUME Shape, \A c \in Conns : Ended(c), \A c \in Conns : Numbered(c),
         NEW c \in Conns, NEW by \in SUBSET Conns, closeConnection(c, by),
         UNCHANGED <<pout, clients, late, subs>>
  PROVE  /\ \A x \in Conns : Ended(x)'
         /\ \A x \in Conns : nc'[x] = "new" => nc[x] = "new"
         /\ \A x \in Conns :
              \/ (nc'[x] = "nil" <=> nc[x] = "nil") /\ leaving'[x] = leaving[x]
              \/ nc[x] # "nil" /\ nc'[x] = "nil" /\ leaving'[x] = Range(subs[x])
         /\ nc' \in [Conns -> {"new", "up", "cut", "nil"}]
         /\ closing' \in [Conns -> {"no", "unregister", "subs", "done"}]
         /\ ptmr' \in [Conns -> BOOLEAN] /\ atmr' \in [Conns -> BOOLEAN]
         /\ leaving' \in [Conns -> SUBSET Sub] /\ buffered' \subseteq buffered
<1>1. CASE nc[c] = "nil"
  <2>1. UNCHANGED <<nc, closing, leaving, ptmr, atmr, buffered>>
    BY <1>1 DEF closeConnection, ends
  <2>2. \A x \in Conns : Ended(x)'
    BY <2>1, EndedStays
  <2> QED BY <2>1, <2>2 DEF Shape
<1>2. CASE nc[c] # "nil"
  <2>1. /\ nc' = [nc EXCEPT ![c] = "nil"]
        /\ atmr' = [atmr EXCEPT ![c] = FALSE]
        /\ ptmr' = [ptmr EXCEPT ![c] = FALSE]
        /\ buffered' = buffered \ {c}
        /\ leaving' = [leaving EXCEPT ![c] = Range(subs[c])]
        /\ closing' = [closing EXCEPT ![c] = "unregister"]
    BY <1>2 DEF closeConnection
  <2>2. Range(subs[c]) \subseteq Sub
    BY DEF Numbered, Range
  <2>3. /\ nc' \in [Conns -> {"new", "up", "cut", "nil"}]
        /\ closing' \in [Conns -> {"no", "unregister", "subs", "done"}]
        /\ ptmr' \in [Conns -> BOOLEAN] /\ atmr' \in [Conns -> BOOLEAN]
        /\ leaving' \in [Conns -> SUBSET Sub] /\ buffered' \subseteq buffered
    BY <2>1, <2>2 DEF Shape
  <2>4. /\ nc'[c] = "nil" /\ closing'[c] = "unregister" /\ ~ptmr'[c]
        /\ leaving'[c] = Range(subs[c]) /\ c \notin buffered'
    BY <2>1 DEF Shape
  <2>5. \A x \in Conns \ {c} : /\ nc'[x] = nc[x] /\ closing'[x] = closing[x]
                               /\ ptmr'[x] <=> ptmr[x]
                               /\ leaving'[x] = leaving[x]
    BY <2>1 DEF Shape
  <2>6. Ended(c)'
    BY <2>4 DEF Ended
  <2>7. ASSUME NEW x \in Conns, x # c PROVE Ended(x)'
    <3>1. /\ nc'[x] = nc[x] /\ closing'[x] = closing[x] /\ (ptmr'[x] <=> ptmr[x])
          /\ leaving'[x] = leaving[x]
          /\ pout'[x] = pout[x] /\ (x \in clients' <=> x \in clients) /\ (x \in late' <=> x \in late)
      BY <2>5, <2>7
    <3>2. Ended(x)
      OBVIOUS
    <3> QED BY <2>3, <3>1, <3>2 DEF Ended
  <2>8. \A x \in Conns : Ended(x)'
    BY <2>6, <2>7
  <2>9. \A x \in Conns : nc'[x] = "new" => nc[x] = "new"
    BY <2>4, <2>5
  <2>10. \A x \in Conns :
              \/ (nc'[x] = "nil" <=> nc[x] = "nil") /\ leaving'[x] = leaving[x]
              \/ nc[x] # "nil" /\ nc'[x] = "nil" /\ leaving'[x] = Range(subs[x])
    BY <1>2, <2>4, <2>5
  <2> QED BY <2>3, <2>8, <2>9, <2>10
<1> QED BY <1>1, <1>2

-----------------------------------------------------------------------------
(* A step that leaves the subscriptions and the list alone. *)
OthersFit ==
  /\ acc \subseteq Conns /\ toClose \subseteq Conns /\ clients \subseteq Conns
  /\ firing \subseteq Conns /\ buffered \subseteq Conns
  /\ nc \in [Conns -> {"new", "up", "cut", "nil"}]
  /\ closing \in [Conns -> {"no", "unregister", "subs", "done"}]
  /\ pc \in [Conns -> {"none", "read", "parse", "deliver", "unsub", "flush", "end"}]
  /\ ptmr \in [Conns -> BOOLEAN] /\ atmr \in [Conns -> BOOLEAN]
  /\ pout \in [Conns -> Counts]
  /\ pcd \in [Conns -> SUBSET Conns]
  /\ leaving \in [Conns -> SUBSET Sub]

LEMMA ListsStay ==
  ASSUME ClientInv, UNCHANGED <<lists, cur, todo>>, OthersFit',
         \A c \in Conns : Ended(c)', \A c \in Conns : Loop(c)',
         \A c \in Conns : nc'[c] = "new" => nc[c] = "new",
         \A c \in Conns :
            \/ (nc'[c] = "nil" <=> nc[c] = "nil") /\ leaving'[c] = leaving[c]
            \/ nc[c] # "nil" /\ nc'[c] = "nil" /\ leaving'[c] = Range(subs[c])
  PROVE  ClientInv'
<1>1. UNCHANGED <<subs, sl, nm, max, made, delivered, allowed, reused, cur, todo>>
  BY DEF lists
<1>2. Shape /\ Functional
  BY DEF ClientInv
<1>3. Made' = Made
  BY <1>1, MadeStays
<1>4. Shape'
  BY <1>1, <1>2, <1>3 DEF Shape, OthersFit
<1>5. Functional'
  BY <1>1, <1>2 DEF Functional
<1>6. \A c \in Conns : Numbered(c)'
  BY <1>1, NumberedStays DEF ClientInv
<1>7. sl \subseteq Made /\ sl' \subseteq sl
  BY <1>1, <1>2 DEF Shape
<1>8. \A c \in Conns : Listed(c)'
  BY <1>1, <1>2, <1>7, ListedStays DEF ClientInv
<1>9. \A s \in Sub : Limited(s)'
  BY <1>1, <1>7, LimitedStays DEF ClientInv
<1> QED BY <1>4, <1>5, <1>6, <1>8, <1>9 DEF ClientInv

LEMMA AcceptStep == ASSUME ClientInv, NEW c \in Conns, Accept(c) PROVE ClientInv'
<1>1. UNCHANGED <<lists, cur, todo, pc, nc, closing, ptmr, pout, leaving, clients, late, buffered>>
  BY DEF Accept, ends, timers, loops
<1>2. OthersFit'
  BY DEF Accept, ends, timers, loops, ClientInv, Shape, OthersFit
<1>3. \A x \in Conns : Ended(x)'
  BY <1>1, EndedStays DEF ClientInv
<1>4. \A x \in Conns : Loop(x)'
  BY <1>1, LoopStays DEF ClientInv
<1> QED BY <1>1, <1>2, <1>3, <1>4, ListsStay

LEMMA ShutdownStep == ASSUME ClientInv, Shutdown PROVE ClientInv'
<1>1. UNCHANGED <<lists, cur, todo, pc, nc, closing, ptmr, pout, leaving, clients, late, buffered>>
  BY DEF Shutdown, ends, timers, loops
<1>2. OthersFit'
  BY DEF Shutdown, ends, timers, loops, ClientInv, Shape, OthersFit
<1>3. \A x \in Conns : Ended(x)'
  BY <1>1, EndedStays DEF ClientInv
<1>4. \A x \in Conns : Loop(x)'
  BY <1>1, LoopStays DEF ClientInv
<1> QED BY <1>1, <1>2, <1>3, <1>4, ListsStay

LEMMA AuthTimerFiresStep == ASSUME ClientInv, NEW c \in Conns, AuthTimerFires(c) PROVE ClientInv'
<1>1. UNCHANGED <<lists, cur, todo, pc, nc, closing, ptmr, pout, leaving, clients, late, buffered>>
  BY DEF AuthTimerFires, ends, loops, registry
<1>2. OthersFit'
  BY DEF AuthTimerFires, ends, loops, registry, ClientInv, Shape, OthersFit
<1>3. \A x \in Conns : Ended(x)'
  BY <1>1, EndedStays DEF ClientInv
<1>4. \A x \in Conns : Loop(x)'
  BY <1>1, LoopStays DEF ClientInv
<1> QED BY <1>1, <1>2, <1>3, <1>4, ListsStay

LEMMA createClientStep == ASSUME ClientInv, NEW c \in Conns, createClient(c) PROVE ClientInv'
<1> USE DEF createClient, server, registry
<1>1. UNCHANGED <<lists, cur, todo, closing, pout, leaving, clients, late, buffered>>
  OBVIOUS
<1>2. Shape
  BY DEF ClientInv
<1>3. OthersFit'
  BY <1>1, <1>2 DEF Shape, OthersFit
<1>4. /\ nc[c] = "new" /\ nc'[c] = "up" /\ ptmr'[c] /\ pc'[c] = "read"
      /\ \A x \in Conns \ {c} : nc'[x] = nc[x] /\ (ptmr'[x] <=> ptmr[x]) /\ pc'[x] = pc[x]
  BY <1>2 DEF Shape
<1>5. \A x \in Conns : Ended(x)'
  BY <1>1, <1>4, OptionsAssumption DEF ClientInv, Ended
<1>6. \A x \in Conns : Loop(x)'
  BY <1>1, <1>4 DEF ClientInv, Loop
<1> QED BY <1>1, <1>3, <1>4, <1>5, <1>6, ListsStay

LEMMA registerStep == ASSUME ClientInv, NEW c \in Conns, register(c) PROVE ClientInv'
<1> USE DEF register
<1>1. UNCHANGED <<lists, cur, todo, pc, nc, closing, ptmr, pout, leaving, buffered>>
  BY DEF ends, timers, loops
<1>2. Shape
  BY DEF ClientInv
<1>3. OthersFit'
  BY <1>2 DEF Shape, OthersFit, ends, timers, loops
<1>4. /\ clients' = clients \union {c}
      /\ IF closing[c] \in {"subs", "done"} THEN late' = late \union {c} ELSE late' = late
  OBVIOUS
<1>5. ASSUME NEW x \in Conns PROVE Ended(x)'
  <2>1. Ended(x)
    BY DEF ClientInv
  <2>2. x \in clients' => closing'[x] \in {"no", "unregister"} \/ x \in late'
    BY <1>1, <1>2, <1>4, <2>1 DEF Ended, Shape
  <2> QED BY <1>1, <2>1, <2>2 DEF Ended
<1>6. \A x \in Conns : Loop(x)'
  BY <1>1, LoopStays DEF ClientInv
<1> QED BY <1>1, <1>3, <1>5, <1>6, ListsStay

LEMMA LoopGoes ==
  ASSUME Shape, \A x \in Conns : Loop(x), NEW c \in Conns, pc[c] \notin {"none", "unsub"},
         NEW place \in {"read", "parse", "flush", "end"}, Goto(c, place), UNCHANGED <<cur, todo>>,
         \A x \in Conns : nc'[x] = "new" => nc[x] = "new"
  PROVE  /\ \A x \in Conns : Loop(x)'
         /\ pc' \in [Conns -> {"none", "read", "parse", "deliver", "unsub", "flush", "end"}]
<1>1. /\ pc'[c] = place /\ \A x \in Conns \ {c} : pc'[x] = pc[x]
      /\ pc' \in [Conns -> {"none", "read", "parse", "deliver", "unsub", "flush", "end"}]
  BY DEF Goto, Shape
<1>2. \A x \in Conns : Loop(x)'
  BY <1>1 DEF Loop
<1> QED BY <1>1, <1>2

(* The connection that a loop handles has been made. *)
LEMMA Running ==
  ASSUME \A x \in Conns : Loop(x), NEW c \in Conns, pc[c] # "none" PROVE nc[c] # "new"
BY DEF Loop

LEMMA removeClientStep == ASSUME ClientInv, NEW c \in Conns, removeClient(c) PROVE ClientInv'
<1>1. UNCHANGED <<lists, cur, todo, pc, nc, ptmr, pout, buffered, late>>
  BY DEF removeClient, timers, loops
<1>2. Shape
  BY DEF ClientInv
<1>3. leaving' = leaving
  BY <1>2 DEF removeClient, Left, Shape
<1>4. /\ clients' = clients \ {c} /\ closing[c] = "unregister"
      /\ closing' = [closing EXCEPT ![c] = IF leaving[c] = {} THEN "done" ELSE "subs"]
  BY DEF removeClient, Left
<1>5. OthersFit'
  BY <1>1, <1>2, <1>3, <1>4 DEF Shape, OthersFit, removeClient, timers, loops
<1>6. /\ closing'[c] = "done" => leaving[c] = {}
      /\ closing'[c] # "no" /\ \A x \in Conns \ {c} : closing'[x] = closing[x]
  BY <1>2, <1>4 DEF Shape
<1>7. \A x \in Conns : Ended(x)'
  BY <1>1, <1>3, <1>4, <1>6 DEF ClientInv, Ended
<1>8. \A x \in Conns : Loop(x)'
  BY <1>1, LoopStays DEF ClientInv
<1> QED BY <1>1, <1>3, <1>5, <1>7, <1>8, ListsStay

LEMMA ShutdownCloseStep == ASSUME ClientInv, NEW c \in Conns, ShutdownClose(c) PROVE ClientInv'
<1>1. /\ UNCHANGED <<lists, cur, todo, pc, pout, clients, late, subs, acc, firing, pcd>>
      /\ toClose' = toClose \ {c} /\ closeConnection(c, {})
  BY DEF ShutdownClose, loops, lists
<1>2. Shape /\ (\A x \in Conns : Ended(x)) /\ (\A x \in Conns : Numbered(x))
  BY DEF ClientInv
<1>3. /\ \A x \in Conns : Ended(x)'
      /\ \A x \in Conns : nc'[x] = "new" => nc[x] = "new"
      /\ \A x \in Conns :
           \/ (nc'[x] = "nil" <=> nc[x] = "nil") /\ leaving'[x] = leaving[x]
           \/ nc[x] # "nil" /\ nc'[x] = "nil" /\ leaving'[x] = Range(subs[x])
      /\ nc' \in [Conns -> {"new", "up", "cut", "nil"}]
      /\ closing' \in [Conns -> {"no", "unregister", "subs", "done"}]
      /\ ptmr' \in [Conns -> BOOLEAN] /\ atmr' \in [Conns -> BOOLEAN]
      /\ leaving' \in [Conns -> SUBSET Sub] /\ buffered' \subseteq buffered
  BY <1>1, <1>2, CloseEnds
<1>4. OthersFit'
  BY <1>1, <1>2, <1>3 DEF Shape, OthersFit
<1>5. \A x \in Conns : Loop(x)'
  BY <1>1, <1>3, LoopStays DEF ClientInv
<1> QED BY <1>1, <1>3, <1>4, <1>5, ListsStay

LEMMA authTimeoutStep == ASSUME ClientInv, NEW c \in Conns, authTimeout(c) PROVE ClientInv'
<1>1. /\ UNCHANGED <<lists, cur, todo, pc, pout, clients, late, subs, acc, toClose, firing, pcd>>
      /\ closeConnection(c, {})
  BY DEF authTimeout, loops, lists, server, registry
<1>2. Shape /\ (\A x \in Conns : Ended(x)) /\ (\A x \in Conns : Numbered(x))
  BY DEF ClientInv
<1>3. /\ \A x \in Conns : Ended(x)'
      /\ \A x \in Conns : nc'[x] = "new" => nc[x] = "new"
      /\ \A x \in Conns :
           \/ (nc'[x] = "nil" <=> nc[x] = "nil") /\ leaving'[x] = leaving[x]
           \/ nc[x] # "nil" /\ nc'[x] = "nil" /\ leaving'[x] = Range(subs[x])
      /\ nc' \in [Conns -> {"new", "up", "cut", "nil"}]
      /\ closing' \in [Conns -> {"no", "unregister", "subs", "done"}]
      /\ ptmr' \in [Conns -> BOOLEAN] /\ atmr' \in [Conns -> BOOLEAN]
      /\ leaving' \in [Conns -> SUBSET Sub] /\ buffered' \subseteq buffered
  BY <1>1, <1>2, CloseEnds
<1>4. OthersFit'
  BY <1>1, <1>2, <1>3 DEF Shape, OthersFit
<1>5. \A x \in Conns : Loop(x)'
  BY <1>1, <1>3, LoopStays DEF ClientInv
<1> QED BY <1>1, <1>3, <1>4, <1>5, ListsStay

(* The read loop closes its own connection, and ends or goes on. *)
LEMMA LoopCloses ==
  ASSUME ClientInv, NEW c \in Conns, closeConnection(c, {c}), pc[c] \in {"read", "parse"},
         Goto(c, "end") \/ UNCHANGED pc,
         UNCHANGED <<registry, lists, pout, firing, pcd, todo, cur>>
  PROVE  ClientInv'
<1>1. UNCHANGED <<pout, clients, late, subs, acc, toClose, firing, pcd, cur, todo>>
  BY DEF lists, registry
<1>2. Shape /\ (\A x \in Conns : Ended(x)) /\ (\A x \in Conns : Numbered(x))
  BY DEF ClientInv
<1>3. /\ \A x \in Conns : Ended(x)'
      /\ \A x \in Conns : nc'[x] = "new" => nc[x] = "new"
      /\ \A x \in Conns :
           \/ (nc'[x] = "nil" <=> nc[x] = "nil") /\ leaving'[x] = leaving[x]
           \/ nc[x] # "nil" /\ nc'[x] = "nil" /\ leaving'[x] = Range(subs[x])
      /\ nc' \in [Conns -> {"new", "up", "cut", "nil"}]
      /\ closing' \in [Conns -> {"no", "unregister", "subs", "done"}]
      /\ ptmr' \in [Conns -> BOOLEAN] /\ atmr' \in [Conns -> BOOLEAN]
      /\ leaving' \in [Conns -> SUBSET Sub] /\ buffered' \subseteq buffered
  BY <1>1, <1>2, CloseEnds
<1>4. /\ \A x \in Conns : Loop(x)'
      /\ pc' \in [Conns -> {"none", "read", "parse", "deliver", "unsub", "flush", "end"}]
  <2>1. CASE Goto(c, "end")
    BY <1>1, <1>2, <1>3, <2>1, LoopGoes DEF ClientInv
  <2>2. CASE UNCHANGED pc
    <3>1. pc' \in [Conns -> {"none", "read", "parse", "deliver", "unsub", "flush", "end"}]
      BY <1>2, <2>2 DEF Shape
    <3> QED BY <1>1, <1>3, <2>2, <3>1, LoopStays DEF ClientInv
  <2> QED BY <2>1, <2>2
<1>5. OthersFit'
  BY <1>1, <1>2, <1>3, <1>4 DEF Shape, OthersFit
<1> QED BY <1>1, <1>3, <1>4, <1>5, ListsStay

LEMMA ReadErrorStep == ASSUME ClientInv, NEW c \in Conns, ReadError(c) PROVE ClientInv'
BY LoopCloses DEF ReadError

LEMMA RefuseStep == ASSUME ClientInv, NEW c \in Conns, Refuse(c) PROVE ClientInv'
BY LoopCloses DEF Refuse, Parses

LEMMA processErrStep == ASSUME ClientInv, NEW c \in Conns, processErr(c) PROVE ClientInv'
BY LoopCloses DEF processErr, Operates, Parses, loops

(* A connection is cut, or not: its closing is left alone. *)
LEMMA CutStep ==
  ASSUME ClientInv, NEW c \in Conns, nc[c] \notin {"new", "nil"},
         UNCHANGED <<lists, cur, todo, pc, closing, leaving, acc, toClose, clients, late, firing>>,
         nc' = nc \/ nc' = [nc EXCEPT ![c] = "cut"],
         buffered' \subseteq buffered,
         atmr' \in [Conns -> BOOLEAN], pcd' \in [Conns -> SUBSET Conns],
         ptmr' = ptmr \/ (nc'[c] = "cut" /\ ptmr' = [ptmr EXCEPT ![c] = FALSE]),
         pout' = pout \/ \E k \in Counts :
                           pout' = [pout EXCEPT ![c] = k] /\ (ptmr'[c] => k <= MaxPingsOut)
  PROVE  ClientInv'
<1>1. Shape
  BY DEF ClientInv
<1>p. /\ pout' \in [Conns -> Counts]
      /\ \A x \in Conns \ {c} : pout'[x] = pout[x]
      /\ ptmr'[c] => pout'[c] <= MaxPingsOut \/ pout'[c] = pout[c]
  <2>1. CASE pout' = pout
    BY <1>1, <2>1 DEF Shape
  <2>2. ASSUME NEW k \in Counts, pout' = [pout EXCEPT ![c] = k],
               ptmr'[c] => k <= MaxPingsOut
        PROVE  /\ pout' \in [Conns -> Counts]
               /\ \A x \in Conns \ {c} : pout'[x] = pout[x]
               /\ ptmr'[c] => pout'[c] <= MaxPingsOut
    BY <1>1, <2>2 DEF Shape
  <2> QED BY <2>1, <2>2
<1>n. /\ nc' \in [Conns -> {"new", "up", "cut", "nil"}]
      /\ nc'[c] = nc[c] \/ nc'[c] = "cut"
      /\ \A x \in Conns \ {c} : nc'[x] = nc[x]
  BY <1>1 DEF Shape
<1>t. /\ ptmr' \in [Conns -> BOOLEAN]
      /\ ptmr'[c] => ptmr[c]
      /\ nc'[c] # "cut" => (ptmr'[c] <=> ptmr[c])
      /\ \A x \in Conns \ {c} : ptmr'[x] <=> ptmr[x]
  <2>1. CASE ptmr' = ptmr
    BY <1>1, <2>1 DEF Shape
  <2>2. CASE nc'[c] = "cut" /\ ptmr' = [ptmr EXCEPT ![c] = FALSE]
    BY <1>1, <2>2 DEF Shape
  <2> QED BY <2>1, <2>2
<1>2. OthersFit'
  BY <1>1, <1>p, <1>n, <1>t DEF Shape, OthersFit
<1>3. /\ nc'[c] = nc[c] \/ nc'[c] = "cut"
      /\ ptmr'[c] => ptmr[c]
      /\ nc'[c] = "up" => (ptmr'[c] <=> ptmr[c])
      /\ ptmr'[c] => pout'[c] <= MaxPingsOut \/ pout'[c] = pout[c]
  BY <1>p, <1>n, <1>t
<1>4. \A x \in Conns \ {c} : nc'[x] = nc[x] /\ (ptmr'[x] <=> ptmr[x]) /\ pout'[x] = pout[x]
  BY <1>p, <1>n, <1>t
<1>5. \A x \in Conns : (nc'[x] = "nil" <=> nc[x] = "nil") /\ (nc'[x] = "new" <=> nc[x] = "new")
  BY <1>3, <1>4
<1>6. ASSUME NEW x \in Conns PROVE Ended(x)'
  <2>1. Ended(x)
    BY DEF ClientInv
  <2>2. CASE x = c
    <3>1. ptmr'[c] => pout'[c] <= MaxPingsOut
      BY <1>3, <2>1, <2>2 DEF Ended
    <3> QED BY <1>3, <1>5, <2>1, <2>2, <3>1 DEF Ended
  <2>3. CASE x # c
    BY <1>4, <1>5, <2>1, <2>3 DEF Ended
  <2> QED BY <2>2, <2>3
<1>7. \A x \in Conns : Loop(x)'
  BY <1>5, LoopStays DEF ClientInv
<1> QED BY <1>2, <1>5, <1>6, <1>7, ListsStay

LEMMA processPingTimerStep ==
  ASSUME ClientInv, NEW c \in Conns, processPingTimer(c) PROVE ClientInv'
<1>1. UNCHANGED <<lists, cur, todo, pc, closing, leaving, acc, toClose, clients, late, firing,
                  atmr, pcd>>
  BY DEF processPingTimer, registry, loops
<1>2. Shape /\ Ended(c)
  BY DEF ClientInv
<1>3. nc[c] \notin {"new", "nil"} /\ pout[c] \in Int /\ pout[c] <= MaxPingsOut
  BY <1>2 DEF processPingTimer, Ended, Shape, Counts
<1>4. pout' = [pout EXCEPT ![c] = pout[c] + 1] /\ pout[c] + 1 \in Counts
  BY <1>3, OptionsAssumption DEF processPingTimer, PingsOut, Counts
<1>5. CASE PingsOut(c) <= MaxPingsOut /\ Flushes(c) /\ ptmr' = setPingTimer(c)
  <2>1. nc' = nc /\ buffered' \subseteq buffered /\ ptmr' = ptmr /\ pout[c] + 1 <= MaxPingsOut
    BY <1>5 DEF Flushes, setPingTimer, PingsOut
  <2> QED BY <1>1, <1>2, <1>3, <1>4, <2>1, CutStep DEF Shape
<1>6. CASE clearConnection(c) /\ ptmr' = [ptmr EXCEPT ![c] = FALSE]
  <2>1. /\ nc' = nc \/ nc' = [nc EXCEPT ![c] = "cut"]
        /\ buffered' \subseteq buffered /\ nc'[c] = "cut" /\ ~ptmr'[c]
    BY <1>2, <1>3, <1>6 DEF clearConnection, Shape
  <2> QED BY <1>1, <1>2, <1>3, <1>4, <1>6, <2>1, CutStep DEF Shape
<1> QED BY <1>5, <1>6 DEF processPingTimer

LEMMA processPingStep == ASSUME ClientInv, NEW c \in Conns, processPing(c) PROVE ClientInv'
<1>1. UNCHANGED <<lists, cur, todo, pc, closing, leaving, acc, toClose, clients, late, firing,
                  pout, ptmr, atmr, pcd>>
  BY DEF processPing, registry, loops, timers
<1>2. Shape /\ (\A x \in Conns : Ended(x)) /\ (\A x \in Conns : Loop(x))
  BY DEF ClientInv
<1>3. nc[c] # "new"
  BY <1>2, Running DEF processPing, Operates, Parses
<1>4. CASE nc[c] = "nil" /\ UNCHANGED <<nc, buffered, faults>>
  <2>1. OthersFit'
    BY <1>1, <1>2, <1>4 DEF Shape, OthersFit
  <2>2. \A x \in Conns : Ended(x)'
    BY <1>1, <1>2, <1>4, EndedStays
  <2>3. \A x \in Conns : Loop(x)'
    BY <1>1, <1>2, <1>4, LoopStays
  <2> QED BY <1>1, <1>4, <2>1, <2>2, <2>3, ListsStay
<1>5. CASE nc[c] # "nil" /\ buffered' = buffered \ {c}
           /\ (nc' = nc \/ nc' = [nc EXCEPT ![c] = IF @ = "up" THEN "cut" ELSE @])
  <2>1. nc' = nc \/ nc' = [nc EXCEPT ![c] = "cut"]
    BY <1>2, <1>5 DEF Shape
  <2> QED BY <1>1, <1>2, <1>3, <1>5, <2>1, CutStep DEF Shape
<1> QED BY <1>4, <1>5 DEF processPing, Flushes, clearConnection

LEMMA processPongStep == ASSUME ClientInv, NEW c \in Conns, processPong(c) PROVE ClientInv'
<1>1. UNCHANGED <<lists, cur, todo, pc, nc, closing, ptmr, leaving, clients, late, buffered>>
  BY DEF processPong, server, registry, ends, loops
<1>2. Shape /\ (\A x \in Conns : Ended(x)) /\ (\A x \in Conns : Loop(x))
  BY DEF ClientInv
<1>3. nc[c] # "new"
  BY <1>2, Running DEF processPong, Operates, Parses
<1>4. pout[c] \in Counts /\ pout' = [pout EXCEPT ![c] = pout[c] - 1]
  BY <1>2 DEF processPong, Shape
<1>5. /\ pout' \in [Conns -> Counts] /\ pout'[c] = pout[c] - 1
      /\ \A x \in Conns \ {c} : pout'[x] = pout[x]
  BY <1>2, <1>4, OptionsAssumption DEF Shape, Counts
<1>6. OthersFit'
  BY <1>2, <1>5 DEF processPong, server, registry, ends, loops, Shape, OthersFit
<1>7. ASSUME NEW x \in Conns PROVE Ended(x)'
  <2>1. Ended(x)
    BY <1>2
  <2>2. CASE x = c
    BY <1>1, <1>3, <1>4, <1>5, <2>1, <2>2, OptionsAssumption DEF Ended, Counts
  <2>3. CASE x # c
    BY <1>1, <1>5, <2>1, <2>3 DEF Ended
  <2> QED BY <2>2, <2>3
<1>8. \A x \in Conns : Loop(x)'
  BY <1>1, <1>2, LoopStays
<1> QED BY <1>1, <1>6, <1>7, <1>8, ListsStay

(* What the verbose answer changes. *)
LEMMA OKsFit ==
  ASSUME Shape, \A x \in Conns : Ended(x), NEW c \in Conns, OKs(c), nc[c] # "new",
         UNCHANGED <<nc, closing, ptmr, pout, leaving, clients, late>>
  PROVE  /\ \A x \in Conns : Ended(x)'
         /\ pcd' \in [Conns -> SUBSET Conns] /\ buffered' \subseteq Conns
<1>1. pcd' \in [Conns -> SUBSET Conns] /\ buffered' \subseteq Conns
  <2>1. CASE Verbose
    BY <2>1 DEF OKs, Shape
  <2>2. CASE ~Verbose
    BY <2>2 DEF OKs, Shape
  <2> QED BY <2>1, <2>2
<1>2. buffered' = buffered \/ (buffered' = buffered \union {c} /\ nc[c] # "nil")
  BY DEF OKs
<1>3. ASSUME NEW x \in Conns PROVE Ended(x)'
  <2>1. Ended(x)
    OBVIOUS
  <2>2. x \in buffered' => nc'[x] \notin {"new", "nil"}
    BY <1>2, <2>1 DEF Ended
  <2> QED BY <2>1, <2>2 DEF Ended
<1> QED BY <1>1, <1>3

LEMMA processConnectStep == ASSUME ClientInv, NEW c \in Conns, processConnect(c) PROVE ClientInv'
<1>1. UNCHANGED <<lists, cur, todo, pc, nc, closing, ptmr, pout, leaving, clients, late>>
  BY DEF processConnect, server, registry, ends
<1>2. Shape /\ (\A x \in Conns : Ended(x)) /\ (\A x \in Conns : Loop(x))
  BY DEF ClientInv
<1>3. nc[c] # "new" /\ OKs(c)
  BY <1>2, Running DEF processConnect, Parses
<1>4. /\ \A x \in Conns : Ended(x)'
      /\ pcd' \in [Conns -> SUBSET Conns] /\ buffered' \subseteq Conns
  BY <1>1, <1>2, <1>3, OKsFit
<1>5. OthersFit'
  BY <1>1, <1>2, <1>4 DEF processConnect, server, registry, ends, Shape, OthersFit
<1>6. \A x \in Conns : Loop(x)'
  BY <1>1, <1>2, LoopStays
<1> QED BY <1>1, <1>4, <1>5, <1>6, ListsStay

LEMMA ReadSomeStep == ASSUME ClientInv, NEW c \in Conns, ReadSome(c) PROVE ClientInv'
<1>1. /\ UNCHANGED <<lists, cur, todo, nc, closing, ptmr, pout, leaving, clients, late, buffered>>
      /\ pc[c] = "read" /\ Goto(c, "parse")
  BY DEF ReadSome, server, registry, ends, timers
<1>2. Shape /\ (\A x \in Conns : Ended(x)) /\ (\A x \in Conns : Loop(x))
  BY DEF ClientInv
<1>3. \A x \in Conns : Ended(x)'
  BY <1>1, <1>2, EndedStays
<1>4. /\ \A x \in Conns : Loop(x)'
      /\ pc' \in [Conns -> {"none", "read", "parse", "deliver", "unsub", "flush", "end"}]
  BY <1>1, <1>2, LoopGoes
<1>5. OthersFit'
  BY <1>1, <1>2, <1>4 DEF ReadSome, server, registry, ends, timers, Shape, OthersFit
<1> QED BY <1>1, <1>3, <1>4, <1>5, ListsStay

LEMMA EndOfReadStep == ASSUME ClientInv, NEW c \in Conns, EndOfRead(c) PROVE ClientInv'
<1>1. /\ UNCHANGED <<lists, cur, todo, nc, closing, ptmr, pout, leaving, clients, late, buffered>>
      /\ pc[c] = "parse" /\ \E p \in {"flush", "end", "read"} : Goto(c, p)
  BY DEF EndOfRead, Parses, Proceed, server, registry, ends, timers
<1>2. Shape /\ (\A x \in Conns : Ended(x)) /\ (\A x \in Conns : Loop(x))
  BY DEF ClientInv
<1>3. \A x \in Conns : Ended(x)'
  BY <1>1, <1>2, EndedStays
<1>4. /\ \A x \in Conns : Loop(x)'
      /\ pc' \in [Conns -> {"none", "read", "parse", "deliver", "unsub", "flush", "end"}]
  BY <1>1, <1>2, LoopGoes
<1>5. OthersFit'
  BY <1>1, <1>2, <1>4 DEF EndOfRead, server, registry, ends, timers, Shape, OthersFit
<1> QED BY <1>1, <1>3, <1>4, <1>5, ListsStay

LEMMA flushPendingStep == ASSUME ClientInv, NEW c \in Conns, flushPending(c) PROVE ClientInv'
<1>1. PICK cp \in pcd[c] :
        /\ pcd' = [pcd EXCEPT ![c] = @ \ {cp}]
        /\ \/ nc[cp] = "nil" /\ UNCHANGED <<ends, ptmr, atmr, buffered, faults>>
           \/ Flushes(cp) /\ UNCHANGED <<closing, leaving, closer, ptmr, atmr, faults>>
           \/ nc[cp] # "nil" /\ closeConnection(cp, {c}) /\ Fails(cp)
  BY DEF flushPending
<1>2. /\ UNCHANGED <<lists, subs, acc, toClose, clients, late, pout, firing, todo, cur>>
      /\ pc[c] = "flush" /\ \E p \in {"flush", "end", "read"} : Goto(c, p)
  BY DEF flushPending, Proceed, registry, lists
<1>3. /\ Shape /\ (\A x \in Conns : Ended(x)) /\ (\A x \in Conns : Loop(x))
      /\ (\A x \in Conns : Numbered(x))
  BY DEF ClientInv
<1>4. cp \in Conns /\ pcd' \in [Conns -> SUBSET Conns]
  BY <1>1, <1>3 DEF Shape
<1>5. /\ \A x \in Conns : Ended(x)'
      /\ \A x \in Conns : nc'[x] = "new" => nc[x] = "new"
      /\ \A x \in Conns :
           \/ (nc'[x] = "nil" <=> nc[x] = "nil") /\ leaving'[x] = leaving[x]
           \/ nc[x] # "nil" /\ nc'[x] = "nil" /\ leaving'[x] = Range(subs[x])
      /\ nc' \in [Conns -> {"new", "up", "cut", "nil"}]
      /\ closing' \in [Conns -> {"no", "unregister", "subs", "done"}]
      /\ ptmr' \in [Conns -> BOOLEAN] /\ atmr' \in [Conns -> BOOLEAN]
      /\ leaving' \in [Conns -> SUBSET Sub] /\ buffered' \subseteq buffered
  <2>1. CASE closeConnection(cp, {c})
    BY <1>2, <1>3, <1>4, <2>1, CloseEnds
  <2>2. CASE UNCHANGED <<nc, closing, leaving, ptmr, atmr>> /\ buffered' \subseteq buffered
    <3>1. \A x \in Conns : Ended(x)'
      BY <1>2, <1>3, <2>2, EndedStays
    <3> QED BY <1>3, <2>2, <3>1 DEF Shape
  <2>3. nc[cp] = "nil" /\ UNCHANGED <<ends, ptmr, atmr, buffered, faults>> =>
          UNCHANGED <<nc, closing, leaving, ptmr, atmr>> /\ buffered' \subseteq buffered
    BY DEF ends
  <2>4. Flushes(cp) /\ UNCHANGED <<closing, leaving, closer, ptmr, atmr, faults>> =>
          UNCHANGED <<nc, closing, leaving, ptmr, atmr>> /\ buffered' \subseteq buffered
    BY DEF Flushes
  <2> QED BY <1>1, <2>1, <2>2, <2>3, <2>4
<1>6. /\ \A x \in Conns : Loop(x)'
      /\ pc' \in [Conns -> {"none", "read", "parse", "deliver", "unsub", "flush", "end"}]
  BY <1>2, <1>3, <1>5, LoopGoes
<1>7. OthersFit'
  BY <1>2, <1>3, <1>4, <1>5, <1>6 DEF Shape, OthersFit
<1> QED BY <1>2, <1>5, <1>6, <1>7, ListsStay

-----------------------------------------------------------------------------
(* The steps that change the list, the subscriptions or what is in hand. *)
LEMMA removeSubStep == ASSUME ClientInv, NEW c \in Conns, removeSub(c) PROVE ClientInv'
<1>1. PICK s \in leaving[c] : sl' = sl \ {s} /\ Left(c, leaving[c] \ {s})
  BY DEF removeSub
<1>2. /\ closing[c] = "subs"
      /\ UNCHANGED <<subs, nm, max, made, delivered, allowed, reused, acc, toClose, clients, late,
                     nc, ptmr, atmr, pout, firing, buffered, pcd, pc, todo, cur>>
  BY DEF removeSub, server, registry, timers, loops
<1>3. /\ Shape /\ Functional /\ (\A x \in Conns : Ended(x)) /\ (\A x \in Conns : Loop(x))
      /\ (\A x \in Conns : Numbered(x)) /\ (\A x \in Conns : Listed(x)) /\ \A t \in Sub : Limited(t)
  BY DEF ClientInv
<1>4. /\ leaving' = [leaving EXCEPT ![c] = leaving[c] \ {s}]
      /\ closing' = [closing EXCEPT ![c] = IF leaving[c] \ {s} = {} THEN "done" ELSE "subs"]
  BY <1>1 DEF Left
<1>5. /\ leaving' \in [Conns -> SUBSET Sub] /\ leaving'[c] = leaving[c] \ {s}
      /\ \A x \in Conns \ {c} : leaving'[x] = leaving[x]
  BY <1>3, <1>4 DEF Shape
<1>6. /\ closing' \in [Conns -> {"no", "unregister", "subs", "done"}]
      /\ closing'[c] # "no" /\ (closing'[c] = "done" => leaving'[c] = {})
      /\ \A x \in Conns \ {c} : closing'[x] = closing[x]
  BY <1>3, <1>4, <1>5 DEF Shape
<1>7. Made' = Made
  BY <1>2, MadeStays
<1>8. Shape'
  BY <1>1, <1>2, <1>3, <1>5, <1>6, <1>7 DEF Shape
<1>9. Functional'
  BY <1>2, <1>3 DEF Functional
<1>10. \A x \in Conns : Numbered(x)'
  BY <1>2, <1>3, NumberedStays
<1>11. ASSUME NEW x \in Conns PROVE Ended(x)'
  <2>1. Ended(x)
    BY <1>3
  <2>2. CASE x = c
    BY <1>2, <1>6, <2>1, <2>2 DEF Ended
  <2>3. CASE x # c
    BY <1>2, <1>5, <1>6, <2>1, <2>3 DEF Ended
  <2> QED BY <2>2, <2>3
<1>12. \A x \in Conns : Loop(x)'
  BY <1>2, <1>3, LoopStays
<1>13. ASSUME NEW x \in Conns PROVE Listed(x)'
  <2>1. Listed(x)
    BY <1>3
  <2>2. CASE x = c
    <3>1. nc[c] = "nil"
      BY <1>2, <1>3 DEF Ended
    <3> QED BY <1>1, <1>2, <1>5, <2>1, <2>2, <3>1 DEF Listed
  <2>3. CASE x # c
    BY <1>1, <1>2, <1>5, <2>1, <2>3 DEF Listed
  <2> QED BY <2>2, <2>3
<1>14. \A t \in Sub : Limited(t)'
  BY <1>1, <1>2, <1>3, LimitedStays
<1> QED BY <1>8, <1>9, <1>10, <1>11, <1>12, <1>13, <1>14 DEF ClientInv

LEMMA processMsgStep == ASSUME ClientInv, NEW c \in Conns, processMsg(c) PROVE ClientInv'
<1>1. /\ UNCHANGED <<subs, sl, nm, max, made, delivered, allowed, reused, acc, toClose, clients,
                     late, nc, closing, leaving, ptmr, atmr, pout, firing, cur>>
      /\ todo' = [todo EXCEPT ![c] = sl] /\ pc[c] = "parse" /\ OKs(c)
      /\ pc' = [pc EXCEPT ![c] = IF sl = {} THEN "parse" ELSE "deliver"]
  BY DEF processMsg, Operates, Parses, Goto, server, registry, timers, ends
<1>2. /\ Shape /\ Functional /\ (\A x \in Conns : Ended(x)) /\ (\A x \in Conns : Loop(x))
      /\ (\A x \in Conns : Numbered(x)) /\ (\A x \in Conns : Listed(x)) /\ \A t \in Sub : Limited(t)
  BY DEF ClientInv
<1>3. nc[c] # "new"
  BY <1>1, <1>2, Running
<1>4. /\ \A x \in Conns : Ended(x)'
      /\ pcd' \in [Conns -> SUBSET Conns] /\ buffered' \subseteq Conns
  BY <1>1, <1>2, <1>3, OKsFit
<1>5. Made' = Made
  BY <1>1, MadeStays
<1>6. /\ pc' \in [Conns -> {"none", "read", "parse", "deliver", "unsub", "flush", "end"}]
      /\ pc'[c] \in {"parse", "deliver"} /\ (pc'[c] = "deliver" => sl # {})
      /\ todo' \in [Conns -> SUBSET Made] /\ todo'[c] = sl
      /\ \A x \in Conns \ {c} : pc'[x] = pc[x] /\ todo'[x] = todo[x]
  BY <1>1, <1>2 DEF Shape
<1>7. Shape'
  BY <1>1, <1>2, <1>4, <1>5, <1>6 DEF Shape
<1>8. ASSUME NEW x \in Conns PROVE Loop(x)'
  <2>1. Loop(x)
    BY <1>2
  <2>2. CASE x = c
    BY <1>1, <1>3, <1>6, <2>1, <2>2 DEF Loop
  <2>3. CASE x # c
    BY <1>1, <1>6, <2>1, <2>3 DEF Loop
  <2> QED BY <2>2, <2>3
<1>9. sl' \subseteq sl /\ sl \subseteq Made
  BY <1>1, <1>2 DEF Shape
<1>10. \A x \in Conns : Numbered(x)'
  BY <1>1, <1>2, NumberedStays
<1>11. \A x \in Conns : Listed(x)'
  BY <1>1, <1>2, <1>9, ListedStays
<1>12. \A t \in Sub : Limited(t)'
  BY <1>1, <1>2, <1>9, LimitedStays
<1>13. Functional'
  BY <1>1, <1>2 DEF Functional
<1> QED BY <1>4, <1>7, <1>8, <1>10, <1>11, <1>12, <1>13 DEF ClientInv

LEMMA processUnsubStep ==
  ASSUME ClientInv, NEW c \in Conns, NEW sid \in Sids, NEW m \in Maxes, processUnsub(c, sid, m)
  PROVE  ClientInv'
<1> DEFINE s == subs[c][sid]
           most == IF m = 0 THEN Unlimited ELSE Max({m, nm[s]})
<1>1. /\ UNCHANGED <<subs, sl, nm, made, delivered, reused, acc, toClose, clients, late, nc,
                     closing, leaving, ptmr, atmr, pout, firing, buffered, pcd, todo>>
      /\ sid \in DOMAIN subs[c] /\ pc[c] = "parse"
      /\ pc' = [pc EXCEPT ![c] = "unsub"] /\ cur' = [cur EXCEPT ![c] = {s}]
      /\ max' = [max EXCEPT ![s] = m] /\ allowed' = [allowed EXCEPT ![s] = most]
  BY DEF processUnsub, Operates, Parses, Goto, server, registry, timers, ends
<1>2. /\ Shape /\ Functional /\ (\A x \in Conns : Ended(x)) /\ (\A x \in Conns : Loop(x))
      /\ (\A x \in Conns : Numbered(x)) /\ (\A x \in Conns : Listed(x)) /\ \A t \in Sub : Limited(t)
  BY DEF ClientInv
<1>3. s \in Made /\ s \in Sub
  BY <1>1, <1>2 DEF Numbered, Made
<1>4. nc[c] # "new" /\ cur[c] = {}
  BY <1>1, <1>2 DEF Loop
<1>5. m \in Nat /\ nm[s] \in Nat
  BY <1>2, <1>3, BoundsAssumption DEF Shape
<1>6. most \in Nat /\ (m > 0 => most >= m /\ most >= nm[s]) /\ (m = 0 => most = 0)
  BY <1>5, MaxOfTwo DEF Unlimited
<1> HIDE DEF s, most
<1>7. Made' = Made
  BY <1>1, MadeStays
<1>8. /\ max' \in [Sub -> Nat] /\ allowed' \in [Sub -> Nat]
      /\ max'[s] = m /\ allowed'[s] = most
      /\ \A t \in Sub \ {s} : max'[t] = max[t] /\ allowed'[t] = allowed[t]
  BY <1>1, <1>2, <1>3, <1>5, <1>6 DEF Shape
<1>9. /\ pc' \in [Conns -> {"none", "read", "parse", "deliver", "unsub", "flush", "end"}]
      /\ cur' \in [Conns -> SUBSET Made]
      /\ pc'[c] = "unsub" /\ cur'[c] = {s}
      /\ \A x \in Conns \ {c} : pc'[x] = pc[x] /\ cur'[x] = cur[x]
  BY <1>1, <1>2, <1>3 DEF Shape
<1>10. Shape'
  BY <1>1, <1>2, <1>7, <1>8, <1>9 DEF Shape
<1>11. \A x \in Conns : Ended(x)'
  BY <1>1, <1>2, EndedStays
<1>12. ASSUME NEW x \in Conns PROVE Loop(x)'
  <2>1. Loop(x)
    BY <1>2
  <2>2. CASE x = c
    BY <1>1, <1>4, <1>9, <2>1, <2>2 DEF Loop
  <2>3. CASE x # c
    BY <1>1, <1>9, <2>1, <2>3 DEF Loop
  <2> QED BY <2>2, <2>3
<1>13. sl' \subseteq sl /\ sl \subseteq Made
  BY <1>1, <1>2 DEF Shape
<1>14. \A x \in Conns : Numbered(x)'
  BY <1>1, <1>2, NumberedStays
<1>15. \A x \in Conns : Listed(x)'
  BY <1>1, <1>2, <1>13, ListedStays
<1>16. ASSUME NEW t \in Sub PROVE Limited(t)'
  <2>1. /\ Limited(t) /\ nm[t] \in Nat /\ delivered[t] \in Nat /\ max[t] \in Nat
        /\ allowed[t] \in Nat
    BY <1>2 DEF Shape
  <2>2. CASE t = s
    <3>1. max'[t] > 0 <=> allowed'[t] > 0
      BY <1>5, <1>6, <1>8, <2>2
    <3>2. delivered'[t] <= nm'[t]
      BY <1>1, <2>1 DEF Limited
    <3>3. max'[t] > 0 => max'[t] <= allowed'[t] /\ delivered'[t] <= allowed'[t]
      BY <1>1, <1>5, <1>6, <1>8, <2>1, <2>2 DEF Limited
    <3>4. \E x \in Conns : t \in cur'[x]
      BY <1>9, <2>2
    <3> QED BY <1>3, <1>7, <2>2, <3>1, <3>2, <3>3, <3>4 DEF Limited
  <2>3. CASE t # s
    <3>1. (\E x \in Conns : t \in cur[x]) => \E x \in Conns : t \in cur'[x]
      BY <1>4, <1>9
    <3>2. max'[t] = max[t] /\ allowed'[t] = allowed[t]
      BY <1>8, <2>3
    <3> QED BY <1>1, <1>7, <2>1, <3>1, <3>2 DEF Limited
  <2> QED BY <2>2, <2>3
<1>17. Functional'
  BY <1>1, <1>2 DEF Functional
<1> QED BY <1>10, <1>11, <1>12, <1>14, <1>15, <1>16, <1>17 DEF ClientInv

LEMMA unsubscribeStep == ASSUME ClientInv, NEW c \in Conns, unsubscribe(c) PROVE ClientInv'
<1>1. PICK s \in cur[c] :
        IF max[s] > 0 /\ nm[s] < max[s] THEN UNCHANGED <<subs, sl>>
        ELSE /\ subs' = [subs EXCEPT ![s.client] = Restrict(@, DOMAIN @ \ {s.sid})]
             /\ sl' = Unsubscribed(s)
  BY DEF unsubscribe
<1>2. /\ UNCHANGED <<nm, max, made, delivered, allowed, reused, acc, toClose, clients, late, nc,
                     closing, leaving, ptmr, atmr, pout, firing, buffered, pcd, todo>>
      /\ pc[c] = "unsub" /\ cur' = [cur EXCEPT ![c] = {}]
      /\ pc' = [pc EXCEPT ![c] = IF todo[c] = {} THEN "parse" ELSE "deliver"]
  BY DEF unsubscribe, Goto, server, registry, timers, ends
<1>3. /\ Shape /\ Functional /\ (\A x \in Conns : Ended(x)) /\ (\A x \in Conns : Loop(x))
      /\ (\A x \in Conns : Numbered(x)) /\ (\A x \in Conns : Listed(x)) /\ \A t \in Sub : Limited(t)
  BY DEF ClientInv
<1>4. s \in Made
  BY <1>3 DEF Shape
<1>5. s \in Sub /\ s.client \in Conns /\ s \in made[s.client]
  BY <1>4, MadeIs
<1>6. nc[c] # "new" /\ \A t \in cur[c] : t = s
  BY <1>2, <1>3 DEF Loop
<1>7. Made' = Made
  BY <1>2, MadeStays
<1>8. sl' \subseteq sl /\ (max[s] > 0 /\ nm[s] >= max[s] => s \notin sl')
  <2>1. CASE max[s] > 0 /\ nm[s] < max[s]
    BY <1>1, <1>3, <1>5, <2>1 DEF Shape
  <2>2. CASE ~(max[s] > 0 /\ nm[s] < max[s])
    BY <1>1, <2>2 DEF Unsubscribed
  <2> QED BY <2>1, <2>2
<1>9. /\ pc' \in [Conns -> {"none", "read", "parse", "deliver", "unsub", "flush", "end"}]
      /\ cur' \in [Conns -> SUBSET Made]
      /\ pc'[c] \in {"parse", "deliver"} /\ (pc'[c] = "deliver" => todo[c] # {}) /\ cur'[c] = {}
      /\ \A x \in Conns \ {c} : pc'[x] = pc[x] /\ cur'[x] = cur[x]
  BY <1>2, <1>3 DEF Shape
<1>10. Shape'
  BY <1>2, <1>3, <1>7, <1>8, <1>9 DEF Shape
<1>11. \A x \in Conns : Ended(x)'
  BY <1>2, <1>3, EndedStays
<1>12. ASSUME NEW x \in Conns PROVE Loop(x)'
  <2>1. Loop(x)
    BY <1>3
  <2>2. CASE x = c
    BY <1>2, <1>6, <1>9, <2>1, <2>2 DEF Loop
  <2>3. CASE x # c
    BY <1>2, <1>9, <2>1, <2>3 DEF Loop
  <2> QED BY <2>2, <2>3
<1>13. ASSUME NEW t \in Sub PROVE Limited(t)'
  <2>1. Limited(t)
    BY <1>3
  <2>2. CASE t = s
    BY <1>2, <1>7, <1>8, <2>1, <2>2 DEF Limited
  <2>3. CASE t # s
    <3>1. (\E x \in Conns : t \in cur[x]) => \E x \in Conns : t \in cur'[x]
      BY <1>6, <1>9, <2>3
    <3> QED BY <1>2, <1>7, <1>8, <2>1, <3>1 DEF Limited
  <2> QED BY <2>2, <2>3
<1>14. CASE UNCHANGED subs
  <2>1. \A x \in Conns : Numbered(x)'
    BY <1>2, <1>3, <1>14, NumberedStays
  <2>2. sl \subseteq Made
    BY <1>3 DEF Shape
  <2>3. \A x \in Conns : Listed(x)'
    BY <1>2, <1>3, <1>8, <1>14, <2>2, ListedStays
  <2>4. Functional'
    BY <1>2, <1>3, <1>14 DEF Functional
  <2> QED BY <1>10, <1>11, <1>12, <1>13, <2>1, <2>3, <2>4 DEF ClientInv
<1>15. CASE /\ subs' = [subs EXCEPT ![s.client] = Restrict(@, DOMAIN @ \ {s.sid})]
            /\ sl' = sl \ {s}
  <2>1. /\ subs' = [x \in Conns |-> subs'[x]]
        /\ subs'[s.client] = [x \in DOMAIN subs[s.client] \ {s.sid} |-> subs[s.client][x]]
        /\ \A x \in Conns \ {s.client} : subs'[x] = subs[x]
    BY <1>3, <1>5, <1>15 DEF Functional, Restrict
  <2>2. ASSUME NEW x \in Conns PROVE Numbered(x)'
    <3>1. Numbered(x)
      BY <1>3
    <3>2. CASE x = s.client
      BY <1>2, <2>1, <3>1, <3>2 DEF Numbered
    <3>3. CASE x # s.client
      BY <1>2, <2>1, <3>1, <3>3 DEF Numbered
    <3> QED BY <3>2, <3>3
  <2>3. ASSUME NEW x \in Conns PROVE Listed(x)'
    <3>1. Listed(x)
      BY <1>3
    <3>2. ASSUME x \notin reused, NEW t \in sl', t.client = x, nc[x] # "nil"
          PROVE  t.sid \in DOMAIN subs'[x] /\ subs'[x][t.sid] = t
      <4>1. t \in sl /\ t # s
        BY <1>15, <3>2
      <4>2. t.sid \in DOMAIN subs[x] /\ subs[x][t.sid] = t
        BY <3>1, <3>2, <4>1 DEF Listed
      <4>3. t \in made[x]
        BY <1>3, <3>2, <4>1, MadeIs DEF Shape
      <4>4. CASE x = s.client
        <5>1. t.sid # s.sid
          BY <1>5, <3>1, <3>2, <4>1, <4>3, <4>4 DEF Listed
        <5> QED BY <2>1, <4>2, <4>4, <5>1
      <4>5. CASE x # s.client
        BY <2>1, <4>2, <4>5
      <4> QED BY <4>4, <4>5
    <3> QED BY <1>2, <1>8, <3>1, <3>2 DEF Listed
  <2>4. Functional'
    BY <1>2, <1>3, <2>1 DEF Functional
  <2> QED BY <1>10, <1>11, <1>12, <1>13, <2>2, <2>3, <2>4 DEF ClientInv
<1> QED BY <1>1, <1>14, <1>15 DEF Unsubscribed

LEMMA processSubStep ==
  ASSUME ClientInv, NEW c \in Conns, NEW sid \in Sids, processSub(c, sid) PROVE ClientInv'
<1> DEFINE k == Cardinality(made[c]) + 1
           s == [client |-> c, sid |-> sid, n |-> k]
<1>1. /\ UNCHANGED <<nm, max, delivered, allowed, acc, toClose, clients, late, nc, closing,
                     leaving, ptmr, atmr, pout, firing, pc, todo, cur>>
      /\ pc[c] = "parse" /\ Cardinality(made[c]) < MaxSubs[c] /\ OKs(c)
      /\ made' = [made EXCEPT ![c] = made[c] \union {s}]
      /\ IF Connected(c)
         THEN /\ subs' = [subs EXCEPT ![c] = [x \in DOMAIN subs[c] \union {sid} |->
                                                IF x = sid THEN s ELSE subs[c][x]]]
              /\ sl' = sl \union {s}
              /\ reused' = IF \E t \in made[c] : t.sid = sid THEN reused \union {c} ELSE reused
         ELSE UNCHANGED <<subs, sl, reused>>
  BY DEF processSub, Operates, Parses, server, registry, timers, ends
<1>2. /\ Shape /\ Functional /\ (\A x \in Conns : Ended(x)) /\ (\A x \in Conns : Loop(x))
      /\ (\A x \in Conns : Numbered(x)) /\ (\A x \in Conns : Listed(x)) /\ \A t \in Sub : Limited(t)
  BY DEF ClientInv
<1>3. nc[c] # "new"
  BY <1>1, <1>2, Running
<1>4. IsFiniteSet(made[c]) /\ Cardinality(made[c]) \in Nat /\ MaxSubs[c] \in Nat
  BY <1>2, FS_CardinalityType, BoundsAssumption DEF Numbered
<1>5. s \in Sub /\ k \in Nat
  <2>1. k \in Nat /\ 1 <= k /\ k <= MaxSubs[c]
    BY <1>1, <1>4
  <2> QED BY <2>1, SubFrom
<1>6. s \notin made[c] /\ s.client = c /\ s.sid = sid /\ s.n = k
  <2>1. \A t \in made[c] : t.n \in Nat /\ t.n <= Cardinality(made[c])
    BY <1>2, SubIs DEF Numbered
  <2>2. s.client = c /\ s.sid = sid /\ s.n = k
    OBVIOUS
  <2> QED BY <1>4, <2>1, <2>2
<1>7. IsFiniteSet(made[c] \union {s}) /\ Cardinality(made[c] \union {s}) = k
  BY <1>4, <1>6, FS_AddElement
<1>8. Cardinality(made[c]) < k /\ k <= MaxSubs[c]
  BY <1>1, <1>4
<1> HIDE DEF s, k
<1>9. /\ made' = [x \in Conns |-> made'[x]] /\ made'[c] = made[c] \union {s}
      /\ \A x \in Conns \ {c} : made'[x] = made[x]
  BY <1>1, <1>2 DEF Functional
<1>10. Made' = Made \union {s}
  BY <1>5, <1>6, <1>9, SubIs DEF Made
<1>11. /\ \A x \in Conns : Ended(x)'
       /\ pcd' \in [Conns -> SUBSET Conns] /\ buffered' \subseteq Conns
  BY <1>1, <1>2, <1>3, OKsFit
<1>12. \A x \in Conns : Loop(x)'
  BY <1>1, <1>2, LoopStays
<1>13. sl' \subseteq sl \union {s}
  BY <1>1
<1>14. Shape'
  BY <1>1, <1>2, <1>10, <1>11, <1>13 DEF Shape
<1>15. ASSUME NEW t \in Sub PROVE Limited(t)'
  <2>1. Limited(t)
    BY <1>2
  <2>2. s \notin Made
    BY <1>6 DEF Made
  <2> QED BY <1>1, <1>10, <1>13, <2>1, <2>2 DEF Limited
<1>16. ASSUME NEW x \in Conns, x # c, subs'[x] = subs[x], reused \subseteq reused'
       PROVE  Numbered(x)' /\ Listed(x)'
  <2>1. made'[x] = made[x]
    BY <1>9, <1>16
  <2>2. Numbered(x) /\ Listed(x)
    BY <1>2
  <2>3. Numbered(x)'
    BY <1>16, <2>1, <2>2 DEF Numbered
  <2>4. \A t \in sl' : t.client = x => t \in sl
    BY <1>6, <1>13, <1>16
  <2>5. x \notin reused' => x \notin reused
    BY <1>16
  <2>6. Listed(x)'
    BY <1>1, <1>16, <2>1, <2>2, <2>4, <2>5 DEF Listed
  <2> QED BY <2>3, <2>6
<1>17. CASE nc[c] = "nil"
  <2>1. UNCHANGED <<subs, sl, reused>>
    BY <1>1, <1>17 DEF Connected
  <2>2. Numbered(c)'
    <3>1. Numbered(c)
      BY <1>2
    <3>2. \A t \in made'[c] : t \in Sub /\ t.client = c /\ t.n <= k
      BY <1>4, <1>5, <1>6, <1>8, <1>9, <3>1, SubIs DEF Numbered
    <3>3. \A x \in DOMAIN subs[c] : subs[c][x] \in made'[c] /\ subs[c][x].sid = x
      BY <1>9, <3>1 DEF Numbered
    <3>4. made'[c] \subseteq Sub /\ IsFiniteSet(made'[c]) /\ Cardinality(made'[c]) = k
      BY <1>7, <1>9, <3>2
    <3> QED BY <1>8, <2>1, <3>1, <3>2, <3>3, <3>4 DEF Numbered
  <2>3. Listed(c)'
    BY <1>1, <1>2, <1>17, <2>1 DEF Listed
  <2>4. Functional'
    BY <1>2, <1>9, <2>1 DEF Functional
  <2>5. \A x \in Conns : Numbered(x)' /\ Listed(x)'
    BY <1>16, <2>1, <2>2, <2>3
  <2> QED BY <1>11, <1>12, <1>14, <1>15, <2>4, <2>5 DEF ClientInv
<1>18. CASE nc[c] # "nil"
  <2>1. /\ subs' = [subs EXCEPT ![c] = [x \in DOMAIN subs[c] \union {sid} |->
                                          IF x = sid THEN s ELSE subs[c][x]]]
        /\ sl' = sl \union {s}
        /\ reused' = IF \E t \in made[c] : t.sid = sid THEN reused \union {c} ELSE reused
    BY <1>1, <1>18 DEF Connected
  <2>2. /\ subs' = [x \in Conns |-> subs'[x]]
        /\ subs'[c] = [x \in DOMAIN subs[c] \union {sid} |-> IF x = sid THEN s ELSE subs[c][x]]
        /\ \A x \in Conns \ {c} : subs'[x] = subs[x]
    BY <1>2, <2>1 DEF Functional
  <2>3. /\ DOMAIN subs'[c] = DOMAIN subs[c] \union {sid} /\ subs'[c][sid] = s
        /\ \A x \in DOMAIN subs[c] \ {sid} : subs'[c][x] = subs[c][x]
    BY <2>2
  <2>4. Numbered(c)'
    <3>1. Numbered(c)
      BY <1>2
    <3>2. \A t \in made'[c] : t \in Sub /\ t.client = c /\ t.n <= k
      BY <1>4, <1>5, <1>6, <1>8, <1>9, <3>1, SubIs DEF Numbered
    <3>3. \A x \in DOMAIN subs'[c] : subs'[c][x] \in made'[c] /\ subs'[c][x].sid = x
      BY <1>6, <1>9, <2>3, <3>1 DEF Numbered
    <3>4. made'[c] \subseteq Sub /\ IsFiniteSet(made'[c]) /\ Cardinality(made'[c]) = k
      BY <1>7, <1>9, <3>2
    <3>5. DOMAIN subs'[c] \subseteq Sids
      BY <2>3, <3>1 DEF Numbered
    <3> QED BY <1>8, <3>2, <3>3, <3>4, <3>5 DEF Numbered
  <2>5. Listed(c)'
    <3>1. Listed(c)
      BY <1>2
    <3>2. ASSUME c \notin reused' PROVE c \notin reused /\ \A t \in made[c] : t.sid # sid
      BY <2>1, <3>2
    <3>3. ASSUME c \notin reused', NEW t \in made'[c], NEW u \in made'[c], t.sid = u.sid
          PROVE  t = u
      BY <1>6, <1>9, <1>18, <3>1, <3>2, <3>3 DEF Listed
    <3>4. ASSUME c \notin reused', NEW t \in sl', t.client = c
          PROVE  t.sid \in DOMAIN subs'[c] /\ subs'[c][t.sid] = t
      <4>1. CASE t = s
        BY <1>6, <2>3, <4>1
      <4>2. CASE t # s
        <5>1. t \in sl
          BY <1>13, <4>2
        <5>2. t \in made[c]
          BY <1>2, <3>4, <5>1, MadeIs DEF Shape
        <5>3. t.sid \in DOMAIN subs[c] /\ subs[c][t.sid] = t
          BY <1>18, <3>1, <3>2, <3>4, <5>1 DEF Listed
        <5>4. t.sid # sid
          BY <3>2, <3>4, <5>2
        <5> QED BY <2>3, <5>3, <5>4
      <4> QED BY <4>1, <4>2
    <3> QED BY <1>1, <1>3, <1>18, <3>3, <3>4 DEF Listed
  <2>6. Functional'
    BY <1>9, <2>2 DEF Functional
  <2>7. \A x \in Conns : Numbered(x)' /\ Listed(x)'
    BY <1>16, <2>1, <2>2, <2>4, <2>5
  <2> QED BY <1>11, <1>12, <1>14, <1>15, <2>6, <2>7 DEF ClientInv
<1> QED BY <1>17, <1>18

LEMMA deliverMsgStep == ASSUME ClientInv, NEW c \in Conns, deliverMsg(c) PROVE ClientInv'
<1>1. PICK s \in todo[c] :
        LET to == s.client
            unsub == max[s] > 0 /\ nm[s] + 1 >= max[s]
        IN /\ todo' = [todo EXCEPT ![c] = @ \ {s}]
           /\ nm' = [nm EXCEPT ![s] = @ + 1]
           /\ cur' = [cur EXCEPT ![c] = IF unsub THEN {s} ELSE {}]
           /\ Goto(c, IF unsub THEN "unsub" ELSE IF todo[c] = {s} THEN "parse" ELSE "deliver")
           /\ \/ UNCHANGED <<ends, ptmr, atmr, buffered, pcd, delivered, faults>>
              \/ /\ ~Exceeds(s) /\ Connected(to)
                 /\ delivered' = [delivered EXCEPT ![s] = @ + 1]
                 /\ buffered' = buffered \union {to}
                 /\ pcd' = [pcd EXCEPT ![c] = @ \union {to}]
                 /\ UNCHANGED <<ends, ptmr, atmr, faults>>
              \/ /\ ~Exceeds(s) /\ Connected(to)
                 /\ closeConnection(to, {c}) /\ Fails(to)
                 /\ UNCHANGED <<pcd, delivered>>
  BY DEF deliverMsg
<1> DEFINE to == s.client
           unsub == max[s] > 0 /\ nm[s] + 1 >= max[s]
<1>2. /\ UNCHANGED <<subs, sl, max, made, allowed, reused, acc, toClose, clients, late, pout,
                     firing>>
      /\ pc[c] = "deliver"
      /\ todo' = [todo EXCEPT ![c] = todo[c] \ {s}]
      /\ nm' = [nm EXCEPT ![s] = nm[s] + 1]
      /\ cur' = [cur EXCEPT ![c] = IF unsub THEN {s} ELSE {}]
      /\ pc' = [pc EXCEPT ![c] = IF unsub THEN "unsub"
                                 ELSE IF todo[c] = {s} THEN "parse" ELSE "deliver"]
  BY <1>1 DEF deliverMsg, Goto, registry
<1>3. /\ Shape /\ Functional /\ (\A x \in Conns : Ended(x)) /\ (\A x \in Conns : Loop(x))
      /\ (\A x \in Conns : Numbered(x)) /\ (\A x \in Conns : Listed(x)) /\ \A t \in Sub : Limited(t)
  BY DEF ClientInv
<1>4. s \in Made
  BY <1>3 DEF Shape
<1>5. s \in Sub /\ to \in Conns /\ s \in made[to]
  BY <1>4, MadeIs
<1>6. nc[to] # "new" /\ nc[c] # "new" /\ cur[c] = {}
  BY <1>2, <1>3, <1>5 DEF Listed, Loop
<1>7. Made' = Made
  BY <1>2, MadeStays
<1>8. nm[s] \in Nat /\ max[s] \in Nat /\ delivered[s] \in Nat /\ allowed[s] \in Nat
  BY <1>3, <1>5 DEF Shape
<1>9. /\ unsub \in BOOLEAN /\ (unsub <=> max[s] > 0 /\ nm[s] + 1 >= max[s])
  OBVIOUS
<1>10. \/ UNCHANGED <<ends, ptmr, atmr, buffered, pcd, delivered>>
       \/ /\ ~(max[s] > 0 /\ nm[s] + 1 > max[s]) /\ nc[to] # "nil"
          /\ delivered' = [delivered EXCEPT ![s] = delivered[s] + 1]
          /\ buffered' = buffered \union {to}
          /\ pcd' = [pcd EXCEPT ![c] = pcd[c] \union {to}]
          /\ UNCHANGED <<ends, ptmr, atmr>>
       \/ closeConnection(to, {c}) /\ UNCHANGED <<pcd, delivered>>
  BY <1>1 DEF Exceeds, Connected
<1> HIDE DEF to, unsub
<1>11. /\ \A x \in Conns : Ended(x)'
       /\ \A x \in Conns : nc'[x] = "new" => nc[x] = "new"
       /\ \A x \in Conns :
            \/ (nc'[x] = "nil" <=> nc[x] = "nil") /\ leaving'[x] = leaving[x]
            \/ nc[x] # "nil" /\ nc'[x] = "nil" /\ leaving'[x] = Range(subs[x])
       /\ nc' \in [Conns -> {"new", "up", "cut", "nil"}]
       /\ closing' \in [Conns -> {"no", "unregister", "subs", "done"}]
       /\ ptmr' \in [Conns -> BOOLEAN] /\ atmr' \in [Conns -> BOOLEAN]
       /\ leaving' \in [Conns -> SUBSET Sub] /\ buffered' \subseteq Conns
       /\ pcd' \in [Conns -> SUBSET Conns]
  <2>1. CASE closeConnection(to, {c}) /\ UNCHANGED <<pcd, delivered>>
    <3>1. /\ \A x \in Conns : Ended(x)'
          /\ \A x \in Conns : nc'[x] = "new" => nc[x] = "new"
          /\ \A x \in Conns :
               \/ (nc'[x] = "nil" <=> nc[x] = "nil") /\ leaving'[x] = leaving[x]
               \/ nc[x] # "nil" /\ nc'[x] = "nil" /\ leaving'[x] = Range(subs[x])
          /\ nc' \in [Conns -> {"new", "up", "cut", "nil"}]
          /\ closing' \in [Conns -> {"no", "unregister", "subs", "done"}]
          /\ ptmr' \in [Conns -> BOOLEAN] /\ atmr' \in [Conns -> BOOLEAN]
          /\ leaving' \in [Conns -> SUBSET Sub] /\ buffered' \subseteq buffered
      BY <1>2, <1>3, <1>5, <2>1, CloseEnds
    <3>2. pcd' \in [Conns -> SUBSET Conns] /\ buffered' \subseteq Conns
      BY <1>3, <2>1, <3>1 DEF Shape
    <3> QED BY <3>1, <3>2
  <2>2. ASSUME UNCHANGED <<ends, ptmr, atmr>>
        PROVE  /\ \A x \in Conns : nc'[x] = "new" => nc[x] = "new"
               /\ \A x \in Conns : (nc'[x] = "nil" <=> nc[x] = "nil") /\ leaving'[x] = leaving[x]
               /\ nc' \in [Conns -> {"new", "up", "cut", "nil"}]
               /\ closing' \in [Conns -> {"no", "unregister", "subs", "done"}]
               /\ ptmr' \in [Conns -> BOOLEAN] /\ atmr' \in [Conns -> BOOLEAN]
               /\ leaving' \in [Conns -> SUBSET Sub]
    BY <1>3, <2>2 DEF ends, Shape
  <2>3. CASE UNCHANGED <<ends, ptmr, atmr, buffered, pcd>>
    <3>1. \A x \in Conns : Ended(x)'
      BY <1>2, <1>3, <2>3, EndedStays DEF ends
    <3>2. pcd' \in [Conns -> SUBSET Conns] /\ buffered' \subseteq Conns
      BY <1>3, <2>3 DEF Shape
    <3> QED BY <2>2, <2>3, <3>1, <3>2
  <2>4. CASE /\ nc[to] # "nil"
             /\ buffered' = buffered \union {to}
             /\ pcd' = [pcd EXCEPT ![c] = pcd[c] \union {to}]
             /\ UNCHANGED <<ends, ptmr, atmr>>
    <3>1. ASSUME NEW x \in Conns PROVE Ended(x)'
      <4>1. Ended(x)
        BY <1>3
      <4>2. x \in buffered' => nc[x] \notin {"new", "nil"}
        BY <1>6, <2>4, <4>1 DEF Ended
      <4> QED BY <1>2, <2>4, <4>1, <4>2 DEF Ended, ends
    <3>2. pcd' \in [Conns -> SUBSET Conns] /\ buffered' \subseteq Conns
      BY <1>3, <1>5, <2>4 DEF Shape
    <3> QED BY <2>2, <2>4, <3>1, <3>2
  <2> QED BY <1>10, <2>1, <2>3, <2>4
<1>12. /\ delivered' \in [Sub -> Nat]
       /\ \A t \in Sub \ {s} : delivered'[t] = delivered[t]
       /\ \/ delivered'[s] = delivered[s]
          \/ delivered'[s] = delivered[s] + 1 /\ (max[s] > 0 => nm[s] + 1 <= max[s])
  <2>1. CASE UNCHANGED delivered
    BY <1>3, <2>1 DEF Shape
  <2>2. CASE /\ ~(max[s] > 0 /\ nm[s] + 1 > max[s])
             /\ delivered' = [delivered EXCEPT ![s] = delivered[s] + 1]
    BY <1>3, <1>5, <1>8, <2>2 DEF Shape
  <2> QED BY <1>10, <2>1, <2>2
<1>13. /\ nm' \in [Sub -> Nat] /\ nm'[s] = nm[s] + 1
       /\ \A t \in Sub \ {s} : nm'[t] = nm[t]
  BY <1>2, <1>3, <1>5, <1>8 DEF Shape
<1>14. /\ pc' \in [Conns -> {"none", "read", "parse", "deliver", "unsub", "flush", "end"}]
       /\ cur' \in [Conns -> SUBSET Made] /\ todo' \in [Conns -> SUBSET Made]
       /\ todo'[c] = todo[c] \ {s}
       /\ unsub => pc'[c] = "unsub" /\ cur'[c] = {s}
       /\ ~unsub => pc'[c] \in {"parse", "deliver"} /\ cur'[c] = {}
       /\ pc'[c] = "deliver" => todo[c] # {s}
       /\ \A x \in Conns \ {c} : pc'[x] = pc[x] /\ cur'[x] = cur[x] /\ todo'[x] = todo[x]
  BY <1>2, <1>3, <1>4, <1>9 DEF Shape
<1>15. Shape'
  BY <1>2, <1>3, <1>7, <1>11, <1>12, <1>13, <1>14 DEF Shape
<1>16. ASSUME NEW x \in Conns PROVE Loop(x)'
  <2>1. Loop(x)
    BY <1>3
  <2>2. CASE x = c
    <3>1. pc'[c] = "unsub" <=> cur'[c] # {}
      BY <1>9, <1>14
    <3>2. \A t, u \in cur'[c] : t = u
      BY <1>9, <1>14
    <3>3. pc'[c] = "deliver" => todo'[c] # {}
      BY <1>14
    <3>4. nc'[c] # "new"
      BY <1>6, <1>11
    <3> QED BY <2>2, <3>1, <3>2, <3>3, <3>4 DEF Loop
  <2>3. CASE x # c
    BY <1>11, <1>14, <2>1, <2>3 DEF Loop
  <2> QED BY <2>2, <2>3
<1>17. sl' \subseteq sl /\ sl \subseteq Made
  BY <1>2, <1>3 DEF Shape
<1>18. \A x \in Conns : Numbered(x)'
  BY <1>2, <1>3, NumberedStays
<1>19. \A x \in Conns : Listed(x)'
  BY <1>2, <1>3, <1>11, <1>17, ListedStays
<1>20. ASSUME NEW t \in Sub PROVE Limited(t)'
  <2>1. Limited(t)
    BY <1>3
  <2>2. CASE t = s
    <3>1. delivered'[s] <= nm'[s]
      BY <1>8, <1>12, <1>13, <2>1, <2>2 DEF Limited
    <3>2. max[s] > 0 => delivered'[s] <= allowed[s]
      BY <1>8, <1>12, <2>1, <2>2 DEF Limited
    <3>3. max[s] > 0 /\ nm'[s] >= max[s] => \E x \in Conns : s \in cur'[x]
      BY <1>9, <1>13, <1>14
    <3> QED BY <1>2, <1>4, <1>7, <2>1, <2>2, <3>1, <3>2, <3>3 DEF Limited
  <2>3. CASE t # s
    <3>1. (\E x \in Conns : t \in cur[x]) => \E x \in Conns : t \in cur'[x]
      BY <1>6, <1>14
    <3>2. nm'[t] = nm[t] /\ delivered'[t] = delivered[t]
      BY <1>12, <1>13, <2>3
    <3> QED BY <1>2, <1>7, <2>1, <3>1, <3>2 DEF Limited
  <2> QED BY <2>2, <2>3
<1>21. Functional'
  BY <1>2, <1>3 DEF Functional
<1> QED BY <1>11, <1>15, <1>16, <1>18, <1>19, <1>20, <1>21 DEF ClientInv

-----------------------------------------------------------------------------
LEMMA ClientInit == Init => ClientInv
<1> SUFFICES ASSUME Init PROVE ClientInv
  OBVIOUS
<1> USE DEF Init
<1>1. \A s \in Sub : s \notin Made
  BY SubIs DEF Made
<1>2. Shape
  BY OptionsAssumption DEF Shape, Unlimited, Counts
<1>3. Functional
  BY DEF Functional
<1>4. ASSUME NEW c \in Conns PROVE Numbered(c) /\ Ended(c) /\ Loop(c) /\ Listed(c)
  <2>1. IsFiniteSet({}) /\ Cardinality({}) = 0 /\ 0 <= MaxSubs[c]
    BY FS_EmptySet, BoundsAssumption
  <2>2. made[c] = {} /\ subs[c] = <<>> /\ DOMAIN subs[c] = {}
    OBVIOUS
  <2>3. Numbered(c)
    BY <2>1, <2>2 DEF Numbered
  <2>4. Ended(c)
    BY OptionsAssumption DEF Ended
  <2>5. Loop(c)
    BY DEF Loop
  <2>6. Listed(c)
    BY DEF Listed
  <2> QED BY <2>3, <2>4, <2>5, <2>6
<1>5. ASSUME NEW s \in Sub PROVE Limited(s)
  BY DEF Limited, Unlimited
<1> QED BY <1>2, <1>3, <1>4, <1>5 DEF ClientInv

LEMMA Stutters == ASSUME ClientInv, UNCHANGED vars PROVE ClientInv'
<1> USE DEF vars, server, registry, ends, lists, timers, loops
<1>1. UNCHANGED <<lists, cur, todo, pc, nc, closing, ptmr, pout, leaving, clients, late, buffered>>
  OBVIOUS
<1>2. Shape
  BY DEF ClientInv
<1>3. OthersFit'
  BY <1>2 DEF Shape, OthersFit
<1>4. \A x \in Conns : Ended(x)'
  BY <1>1, EndedStays DEF ClientInv
<1>5. \A x \in Conns : Loop(x)'
  BY <1>1, LoopStays DEF ClientInv
<1> QED BY <1>1, <1>3, <1>4, <1>5, ListsStay

LEMMA ClientStep == ClientInv /\ [Next]_vars => ClientInv'
<1> SUFFICES ASSUME ClientInv, [Next]_vars PROVE ClientInv'
  OBVIOUS
<1>1. CASE UNCHANGED vars
  BY <1>1, Stutters
<1>2. ASSUME NEW c \in Conns, Handle(c) PROVE ClientInv'
  BY <1>2, processErrStep, processConnectStep, processPingStep, processPongStep, processSubStep,
     processUnsubStep, processMsgStep DEF Handle
<1>3. ASSUME NEW c \in Conns,
             \/ Accept(c) \/ createClient(c) \/ register(c) \/ Shutdown \/ ShutdownClose(c)
             \/ removeClient(c) \/ removeSub(c)
             \/ processPingTimer(c) \/ AuthTimerFires(c) \/ authTimeout(c)
      PROVE  ClientInv'
  BY <1>3, AcceptStep, createClientStep, registerStep, ShutdownStep, ShutdownCloseStep,
     removeClientStep, removeSubStep, processPingTimerStep, AuthTimerFiresStep, authTimeoutStep
<1>4. ASSUME NEW c \in Conns,
             \/ ReadSome(c) \/ ReadError(c) \/ Refuse(c) \/ EndOfRead(c)
             \/ unsubscribe(c) \/ deliverMsg(c) \/ flushPending(c)
      PROVE  ClientInv'
  BY <1>4, ReadSomeStep, ReadErrorStep, RefuseStep, EndOfReadStep, unsubscribeStep,
     deliverMsgStep, flushPendingStep
<1> QED BY <1>1, <1>2, <1>3, <1>4 DEF Next

(* The invariant the theorems rest on. *)
THEOREM ClientInvariance == Spec => []ClientInv
BY ClientInit, ClientStep, PTL DEF Spec

-----------------------------------------------------------------------------
LEMMA InvTypes == ClientInv => TypeOK
<1> SUFFICES ASSUME ClientInv PROVE TypeOK
  OBVIOUS
<1>1. /\ Shape /\ Functional /\ (\A x \in Conns : Ended(x)) /\ (\A x \in Conns : Loop(x))
      /\ (\A x \in Conns : Numbered(x))
  BY DEF ClientInv
<1>2. acc \subseteq Conns /\ toClose \subseteq Conns /\ clients \subseteq Conns
  BY <1>1 DEF Shape
<1>3. Made \subseteq Sub
  BY DEF Made
<1>4. ASSUME NEW c \in Conns
      PROVE  /\ nc[c] \in {"new", "up", "cut", "nil"}
             /\ DOMAIN subs[c] \subseteq Sids /\ Range(subs[c]) \subseteq made[c]
             /\ pc[c] \in {"none", "read", "parse", "deliver", "unsub", "flush", "end"}
             /\ todo[c] \union cur[c] \union leaving[c] \subseteq Sub
             /\ pc[c] = "unsub" <=> cur[c] # {}
             /\ pc[c] = "deliver" => todo[c] # {}
             /\ pout[c] \in Int /\ pout[c] <= MaxPingsOut + 1
             /\ closing[c] # "no" <=> nc[c] = "nil"
  <2>1. DOMAIN subs[c] \subseteq Sids /\ Range(subs[c]) \subseteq made[c]
    BY <1>1 DEF Numbered, Range
  <2>2. /\ nc[c] \in {"new", "up", "cut", "nil"}
        /\ pc[c] \in {"none", "read", "parse", "deliver", "unsub", "flush", "end"}
        /\ todo[c] \union cur[c] \union leaving[c] \subseteq Sub
        /\ pout[c] \in Int /\ pout[c] <= MaxPingsOut + 1
    BY <1>1, <1>3 DEF Shape, Counts
  <2>3. /\ pc[c] = "unsub" <=> cur[c] # {}
        /\ pc[c] = "deliver" => todo[c] # {}
    BY <1>1 DEF Loop
  <2>4. closing[c] # "no" <=> nc[c] = "nil"
    BY <1>1 DEF Ended
  <2> QED BY <2>1, <2>2, <2>3, <2>4
<1>5. sl \subseteq UNION Range(made)
  <2> SUFFICES ASSUME NEW s \in sl PROVE \E m \in Range(made) : s \in m
    OBVIOUS
  <2>1. s.client \in Conns /\ s \in made[s.client]
    BY <1>1, MadeIs DEF Shape
  <2>2. made[s.client] \in Range(made)
    BY <1>1, <2>1 DEF Functional, Range
  <2> QED BY <2>1, <2>2
<1>6. buffered \subseteq {c \in Conns : nc[c] \notin {"new", "nil"}}
  BY <1>1 DEF Shape, Ended
<1> QED BY <1>2, <1>4, <1>5, <1>6 DEF TypeOK

(* The state fits its types. *)
THEOREM ClientTypes == Spec => []TypeOK
BY ClientInvariance, InvTypes, PTL

(* Of a client that has been closed nothing is left, neither in the list nor    *)
(* among the clients, but for the two exceptions (client.go:886-921).           *)
THEOREM NothingIsLeft == Spec => []ClosedLeavesNothing
<1>1. ClientInv => ClosedLeavesNothing
  <2> SUFFICES ASSUME ClientInv, NEW c \in Conns, closing[c] = "done"
               PROVE  /\ c \in reused \/ \A s \in sl : s.client # c
                      /\ c \in clients => c \in late
    BY DEF ClosedLeavesNothing
  <2>1. nc[c] = "nil" /\ leaving[c] = {} /\ (c \in clients => c \in late)
    BY DEF ClientInv, Ended
  <2>2. Listed(c)
    BY DEF ClientInv
  <2> QED BY <2>1, <2>2 DEF Listed
<1> QED BY <1>1, ClientInvariance, PTL

(* No more messages than the maximum, whoever delivers them (client.go:571-593). *)
THEOREM LimitsAreKept == Spec => []LimitKept
<1>1. ClientInv => LimitKept
  <2> SUFFICES ASSUME ClientInv, NEW s \in Sub, allowed[s] # Unlimited
               PROVE  delivered[s] <= allowed[s]
    BY DEF LimitKept
  <2>1. allowed[s] \in Nat /\ max[s] \in Nat
    BY DEF ClientInv, Shape
  <2>2. Limited(s)
    BY DEF ClientInv
  <2> QED BY <2>1, <2>2 DEF Limited, Unlimited
<1> QED BY <1>1, ClientInvariance, PTL

(* A subscription that has had its maximum is in somebody's hand to be removed  *)
(* as long as it is in the list (client.go:529-535, 578-591).                   *)
THEOREM LimitsEndInterest == Spec => []LimitEndsInterest
<1>1. ClientInv => LimitEndsInterest
  <2> SUFFICES ASSUME ClientInv, NEW s \in sl, max[s] > 0 /\ nm[s] >= max[s]
               PROVE  \E c \in Conns : s \in cur[c]
    BY DEF LimitEndsInterest
  <2>1. s \in Sub
    BY MadeIs DEF ClientInv, Shape
  <2>2. Limited(s)
    BY <2>1 DEF ClientInv
  <2> QED BY <2>2 DEF Limited
<1> QED BY <1>1, ClientInvariance, PTL

(* Whoever has data in its buffer is among those that a loop is to flush. *)
Held == \A c \in buffered : \E x \in Conns : c \in pcd[x]

LEMMA HeldStays == ASSUME Held, buffered' \subseteq buffered, UNCHANGED pcd PROVE Held'
BY DEF Held

LEMMA CloseEmpties ==
  ASSUME NEW c, NEW by, closeConnection(c, by)
  PROVE  buffered' \subseteq buffered /\ (nc[c] # "nil" => c \notin buffered')
BY DEF closeConnection

LEMMA OKsHeld == ASSUME Held, Shape, NEW c \in Conns, OKs(c) PROVE Held'
<1>1. CASE ~Verbose
  BY <1>1, HeldStays DEF OKs
<1>2. CASE Verbose
  <2>1. /\ \A x \in Conns : pcd[x] \subseteq pcd'[x]
        /\ c \in pcd'[c] /\ buffered' \subseteq buffered \union {c}
    BY <1>2 DEF OKs, Shape
  <2> QED BY <2>1 DEF Held
<1> QED BY <1>1, <1>2

LEMMA deliverMsgHeld ==
  ASSUME Held, Shape, NEW c \in Conns, deliverMsg(c) PROVE Held'
<1>1. PICK s \in todo[c] :
        \/ UNCHANGED <<buffered, pcd>>
        \/ /\ buffered' = buffered \union {s.client}
           /\ pcd' = [pcd EXCEPT ![c] = pcd[c] \union {s.client}]
        \/ closeConnection(s.client, {c}) /\ UNCHANGED pcd
  BY DEF deliverMsg
<1>2. CASE UNCHANGED <<buffered, pcd>>
  BY <1>2, HeldStays
<1>3. CASE /\ buffered' = buffered \union {s.client}
           /\ pcd' = [pcd EXCEPT ![c] = pcd[c] \union {s.client}]
  <2>1. (\A x \in Conns : pcd[x] \subseteq pcd'[x]) /\ s.client \in pcd'[c]
    BY <1>3 DEF Shape
  <2> QED BY <1>3, <2>1 DEF Held
<1>4. CASE closeConnection(s.client, {c}) /\ UNCHANGED pcd
  BY <1>4, CloseEmpties, HeldStays
<1> QED BY <1>1, <1>2, <1>3, <1>4

LEMMA flushPendingHeld ==
  ASSUME Held, ClientInv, NEW c \in Conns, flushPending(c) PROVE Held'
<1>1. PICK cp \in pcd[c] :
        /\ pcd' = [pcd EXCEPT ![c] = pcd[c] \ {cp}]
        /\ \/ nc[cp] = "nil" /\ UNCHANGED buffered
           \/ buffered' = buffered \ {cp}
           \/ nc[cp] # "nil" /\ closeConnection(cp, {c})
  BY DEF flushPending, Flushes
<1>2. Shape /\ \A x \in Conns : Ended(x)
  BY DEF ClientInv
<1>3. cp \in Conns /\ (nc[cp] = "nil" => cp \notin buffered)
  BY <1>1, <1>2 DEF Shape, Ended
<1>4. buffered' \subseteq buffered \ {cp}
  BY <1>1, <1>3, CloseEmpties
<1>5. \A x \in Conns : pcd[x] \ {cp} \subseteq pcd'[x]
  BY <1>1, <1>2 DEF Shape
<1> QED BY <1>4, <1>5 DEF Held

LEMMA HeldStep == ClientInv /\ Held /\ [Next]_vars => Held'
<1> SUFFICES ASSUME ClientInv, Held, [Next]_vars PROVE Held'
  OBVIOUS
<1>1. Shape
  BY DEF ClientInv
<1>2. CASE UNCHANGED vars
  <2>1. UNCHANGED <<buffered, pcd>>
    BY <1>2 DEF vars
  <2> QED BY <2>1, HeldStays
<1>3. ASSUME NEW c \in Conns,
             processConnect(c) \/ processMsg(c) \/ \E sid \in Sids : processSub(c, sid)
      PROVE  Held'
  <2>1. OKs(c)
    BY <1>3 DEF processConnect, processMsg, processSub
  <2> QED BY <1>1, <2>1, OKsHeld
<1>4. ASSUME NEW c \in Conns,
             \/ Accept(c) \/ createClient(c) \/ register(c) \/ Shutdown \/ removeClient(c)
             \/ removeSub(c) \/ AuthTimerFires(c) \/ ReadSome(c) \/ EndOfRead(c) \/ unsubscribe(c)
             \/ processPong(c) \/ \E sid \in Sids, m \in Maxes : processUnsub(c, sid, m)
      PROVE  Held'
  <2>1. UNCHANGED <<buffered, pcd>>
    BY <1>4 DEF Accept, createClient, register, Shutdown, removeClient, removeSub, AuthTimerFires,
       ReadSome, EndOfRead, unsubscribe, processPong, processUnsub, timers, loops
  <2> QED BY <2>1, HeldStays
<1>5. ASSUME NEW c \in Conns,
             \/ ShutdownClose(c) \/ authTimeout(c) \/ ReadError(c) \/ Refuse(c) \/ processErr(c)
      PROVE  Held'
  <2>1. (closeConnection(c, {}) \/ closeConnection(c, {c})) /\ UNCHANGED pcd
    BY <1>5 DEF ShutdownClose, authTimeout, ReadError, Refuse, processErr, loops
  <2> QED BY <2>1, CloseEmpties, HeldStays
<1>6. ASSUME NEW c \in Conns, processPingTimer(c) \/ processPing(c) PROVE Held'
  <2>1. buffered' \subseteq buffered /\ UNCHANGED pcd
    BY <1>6 DEF processPingTimer, processPing, Flushes, clearConnection, loops
  <2> QED BY <2>1, HeldStays
<1>7. ASSUME NEW c \in Conns, deliverMsg(c) \/ flushPending(c) PROVE Held'
  BY <1>1, <1>7, deliverMsgHeld, flushPendingHeld
<1> QED BY <1>2, <1>3, <1>4, <1>5, <1>6, <1>7 DEF Next, Handle

(* What is in a connection's buffer will be flushed: a loop has it in hand, and *)
(* the ping timer of an open connection is set, whatever became of that loop    *)
(* (client.go:164-181, 642, 825).                                               *)
THEOREM WritesAreFlushed == Spec => []WrittenIsFlushed
<1>1. Init => Held
  BY DEF Init, Held
<1>2. Spec => []Held
  BY <1>1, HeldStep, ClientInvariance, PTL DEF Spec
<1>3. ClientInv /\ Held => WrittenIsFlushed
  <2> SUFFICES ASSUME ClientInv, Held, NEW c \in buffered
               PROVE  \E x \in Conns : c \in pcd[x] /\ (pc[x] = "end" /\ nc[c] = "up" => ptmr[c])
    BY DEF WrittenIsFlushed
  <2>1. c \in Conns /\ Ended(c)
    BY DEF ClientInv, Shape
  <2> QED BY <2>1 DEF Held, Ended
<1> QED BY <1>2, <1>3, ClientInvariance, PTL
================================================================================
