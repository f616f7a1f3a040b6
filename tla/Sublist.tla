-------------------------------- MODULE Sublist --------------------------------
(* gnatsd's subject list (gnatsd/sublist/sublist.go): a tree of subject tokens  *)
(* whose nodes hold subscriptions, and in front of it a cache from published    *)
(* subjects to the subscriptions they match. Every client's goroutine calls it. *)
(* Insert and Remove hold the write lock throughout and are one step each; a    *)
(* Match looks into the cache under the read lock, lets it go, and on a miss    *)
(* fills the cache under the write lock: two steps.                             *)
(*                                                                              *)
(* Subjects are sequences of bytes, since the tree reads a token by its first   *)
(* byte and the cache reads a subject byte by byte, and they must agree. The    *)
(* tree is a function from the tokens that lead to a node to its subs; the hash *)
(* map of a level is abstracted to that, the cache's is module HashMap.         *)
EXTENDS HashMap

CONSTANTS Subjects,     \* what clients subscribe to, valid or not
          Literals,     \* what clients publish to
          Ids,          \* tell subscriptions to one subject apart
          Threads,      \* goroutines that match
          MaxSubs,      \* bound: subscriptions in the tree at a time
          CMax          \* the entries the cache may hold (s.cmax, 1024)

ASSUME SubjectAssumption == Subjects \union Literals \subseteq Seq(STRING)

ASSUME CacheAssumption == CMax \in Nat \ {0} /\ Literals \subseteq DOMAIN Hash

VARIABLES nodes,        \* path of tokens -> subs of the node there
          count,        \* s.count
          cache,        \* subject -> results, a HashMap
          pc,           \* each thread: {} or {the subject its Match missed}
          answer        \* history: {} or {what the last step's Match returned}

vars == <<nodes, count, cache, pc, answer>>

PWC == "*"
FWC == ">"
SEP == "."

Sub == [subject : Subjects, id : Ids]

(* The tokens between separators; neighbouring separators leave an empty one. *)
split(subject) ==
  LET upto[n \in 0..Len(subject)] ==
        IF n = 0 THEN <<<<>>>>
        ELSE LET toks == upto[n - 1]
             IN IF subject[n] = SEP THEN Append(toks, <<>>)
                ELSE [toks EXCEPT ![Len(toks)] = Append(@, subject[n])]
  IN upto[Len(subject)]

Tokens == [s \in Subjects \union Literals |-> split(s)]

(* The server's test of a subject to publish to, which pedantic clients get. *)
IsValidLiteralSubject(subject) ==
  \A t \in ToSet(Tokens[subject]) : t \notin {<<>>, <<PWC>>, <<FWC>>}

(* The node a token selects: its first byte decides (the switches on t[0]). *)
NodeKey(t) == IF t[1] \in {PWC, FWC} THEN <<t[1]>> ELSE t

(* Where the loop over the tokens refuses: an empty token, or any after '>'. *)
Refused(toks) ==
  {i \in DOMAIN toks : toks[i] = <<>> \/ \E j \in 1..(i - 1) : IsPrefix(<<FWC>>, toks[j])}

(* The path walked before the first refusal, or the whole. *)
Walk(toks) ==
  LET n == IF Refused(toks) = {} THEN Len(toks) ELSE Min(Refused(toks)) - 1
  IN [i \in 1..n |-> NodeKey(toks[i])]

Along(path) == {SubSeq(path, 1, k) : k \in 1..Len(path)}

(* The cache's own matching, byte by byte: is literal one that subject, which   *)
(* may hold wildcards, matches?                                                 *)
matchLiteral(literal, subject) ==
  LET \* what follows the token of literal that li is in
      skip(li) == Min({j \in li..(Len(literal) + 1) : j > Len(literal) \/ literal[j] = SEP})
      \* the next byte of literal to match after the first n of subject
      after[n \in 0..Len(subject)] ==
        IF n = 0 THEN 1
        ELSE LET li == after[n - 1]
                 b == subject[n]
             IN IF li = -1 THEN -1                        \* returned true
                ELSE IF li = 0 \/ li > Len(literal) THEN 0     \* returned false
                ELSE IF b = PWC THEN skip(li)
                ELSE IF b = FWC THEN -1
                ELSE IF b = literal[li] THEN li + 1 ELSE 0
  IN after[Len(subject)] \in {-1, Len(literal) + 1}

(* Variant: an Insert leaves the cache alone. *)
addToCache_never(c, subject, sub) == c

(* Append the sub to what is cached for each subject it matches. *)
addToCache(c, subject, sub) ==
  LET keys == AllKeys(c)
      after[n \in 0..Len(keys)] ==
        IF n = 0 THEN c
        ELSE LET h == after[n - 1]
             IN IF matchLiteral(keys[n], subject)
                THEN Set(h, keys[n], Append(Get(h, keys[n])[1], sub)) ELSE h
  IN after[Len(keys)]

(* Drop what is cached for each subject the removed one matches. *)
removeFromCache(c, subject) ==
  LET keys == AllKeys(c)
      after[n \in 0..Len(keys)] ==
        IF n = 0 THEN c
        ELSE LET h == after[n - 1]
             IN IF matchLiteral(keys[n], subject) THEN Unset(h, keys[n]) ELSE h
  IN after[Len(keys)]
-----------------------------------------------------------------------------
Init ==
  /\ nodes = <<>>
  /\ count = 0
  /\ cache = New
  /\ pc = [t \in Threads |-> {}]
  /\ answer = {}

SubsAt(ns, path) == IF path \in DOMAIN ns THEN ns[path] ELSE <<>>

(* A refused subject returns with the nodes of its first tokens made. *)
Insert(sub) ==
  LET toks == Tokens[sub.subject]
      path == Walk(toks)
      grown == [p \in DOMAIN nodes \union Along(path) |-> SubsAt(nodes, p)]
  IN /\ count < MaxSubs
     /\ \A p \in DOMAIN nodes : sub \notin ToSet(nodes[p])   \* a new pointer
     /\ IF Refused(toks) # {}
        THEN nodes' = grown /\ UNCHANGED <<count, cache>>
        ELSE /\ nodes' = [grown EXCEPT ![path] = Append(@, sub)]
             /\ count' = count + 1
             /\ cache' = addToCache(cache, sub.subject, sub)
     /\ answer' = {}
     /\ UNCHANGED pc

removeFromNode(subs, sub) == RemoveFirst(subs, sub)

(* Variant: a node without subs is pruned, whatever hangs below it. *)
isEmpty_subsOnly(ns, path) == ns[path] = <<>>

(* No subs, and no nodes at the next level (numNodes). *)
isEmpty(ns, path) ==
  /\ ns[path] = <<>>
  /\ ~\E p \in DOMAIN ns : Len(p) = Len(path) + 1 /\ IsPrefix(path, p)

(* The node goes, and what would hang below it. *)
pruneNode(ns, path) == Restrict(ns, {p \in DOMAIN ns : ~IsPrefix(path, p)})

(* Variant: only the last node is pruned. *)
PruneUp_leafOnly(ns, path) == IF isEmpty(ns, path) THEN pruneNode(ns, path) ELSE ns

(* Going back up, every node on the way that is empty by now is pruned. *)
PruneUp(ns, path) ==
  LET after[n \in 0..Len(path)] ==
        IF n = 0 THEN ns
        ELSE LET tree == after[n - 1]
                 p == SubSeq(path, 1, Len(path) - n + 1)
             IN IF isEmpty(tree, p) THEN pruneNode(tree, p) ELSE tree
  IN after[Len(path)]

(* Returns an error and changes nothing when the subject is refused or the sub  *)
(* is not at its node.                                                          *)
Withdraw(sub) ==
  LET toks == Tokens[sub.subject]
      path == Walk(toks)
  IN /\ Refused(toks) = {}
     /\ path \in DOMAIN nodes
     /\ sub \in ToSet(nodes[path])
     /\ nodes' = PruneUp([nodes EXCEPT ![path] = removeFromNode(@, sub)], path)
     /\ count' = count - 1
     /\ cache' = removeFromCache(cache, sub.subject)
     /\ answer' = {}
     /\ UNCHANGED pc

(* The descent from a level, given by its path: full wildcards at each level,   *)
(* the wildcard's subtree, the token's own; at the last token their subs.       *)
matchLevel(ns, toks) ==
  LET found[path \in DOMAIN ns \union {<<>>}] ==
        LET t == toks[Len(path) + 1]
            pwc == Append(path, <<PWC>>)
            \* the level's hash map never holds the wildcards, nor an empty token
            own == IF t \in {<<>>, <<PWC>>, <<FWC>>} THEN <<>> ELSE Append(path, t)
        IN IF Len(path) >= Len(toks) THEN <<>>
           ELSE SubsAt(ns, Append(path, <<FWC>>))
                \o (IF pwc \in DOMAIN ns THEN found[pwc] ELSE <<>>)
                \o (IF Len(path) + 1 = Len(toks) THEN SubsAt(ns, own) \o SubsAt(ns, pwc)
                    ELSE IF own \in DOMAIN ns THEN found[own] ELSE <<>>)
  IN found[<<>>]

(* Match, the fast path: what is cached is returned; else go on unlocked. *)
MatchCached(t, literal) ==
  LET r == Get(cache, literal)
  IN /\ pc[t] = {}
     /\ IF r # <<>>
        THEN answer' = {[literal |-> literal, results |-> r[1]]} /\ UNCHANGED pc
        ELSE answer' = {} /\ pc' = [pc EXCEPT ![t] = {literal}]
     /\ UNCHANGED <<nodes, count, cache>>

(* Match, the miss: search the tree, make room, cache the results. *)
MatchTree(t) ==
  /\ pc[t] # {}
  /\ \E literal \in pc[t] :
       LET results == matchLevel(nodes, Tokens[literal])
       IN /\ \E room \in IF Count(cache) >= CMax
                         THEN RemoveRandom(cache) ELSE {cache} :
               cache' = Set(room, literal, results)
          /\ answer' = {[literal |-> literal, results |-> results]}
  /\ pc' = [pc EXCEPT ![t] = {}]
  /\ UNCHANGED <<nodes, count>>

Next == \/ \E sub \in Sub : Insert(sub) \/ Withdraw(sub)
        \/ \E t \in Threads : MatchTree(t) \/ \E l \in Literals : MatchCached(t, l)

Spec == Init /\ [][Next]_vars
-----------------------------------------------------------------------------
Inserted == UNION {ToSet(nodes[p]) : p \in DOMAIN nodes}

(* Subjects whose wildcards are whole tokens, and '>' the last: the others the  *)
(* tree and the cache read differently ("a*" is the plain token "a*" to the     *)
(* tree and a wildcard to the cache).                                           *)
WellFormed(subject) ==
  LET toks == Tokens[subject]
  IN /\ Refused(toks) = {}
     /\ \A t \in ToSet(toks) : Len(t) > 1 => ToSet(t) \intersect {PWC, FWC} = {}

Proper(subs) == {s \in ToSet(subs) : WellFormed(s.subject)}

(* The state fits its types: the tree has every node's parent, each             *)
(* subscription is at its subject's node and there once, the count is right and *)
(* the hash map behind the cache keeps its shape and its bound.                 *)
TypeOK ==
  /\ \A p \in DOMAIN nodes : Along(p) \subseteq DOMAIN nodes
  /\ \A p \in DOMAIN nodes : /\ IsInjective(nodes[p])
                             /\ \A s \in ToSet(nodes[p]) :
                                  s \in Sub /\ Walk(Tokens[s.subject]) = p
  /\ count = Cardinality(Inserted)
  /\ Sound(cache) /\ cache.used <= CMax
  /\ pc \in [Threads -> {{}} \union {{l} : l \in Literals}]

(* What is cached for a valid subject is what a search of the tree would find,  *)
(* each subscription once (sublist.go:151, 174): neither an Insert nor a Remove *)
(* between two Matches, nor one between a Match's look and its fill, leaves a   *)
(* subscriber out, or one in.                                                   *)
CacheAgrees ==
  \A literal \in ToSet(AllKeys(cache)) :
    IsValidLiteralSubject(literal) =>
      LET cached == Get(cache, literal)[1]
      IN /\ Proper(cached) = Proper(matchLevel(nodes, Tokens[literal]))
         /\ \A i, j \in DOMAIN cached :
               WellFormed(cached[i].subject) /\ cached[j] = cached[i] => j = i

(* No branch of the tree is left over: a leaf holds a subscription or is where  *)
(* a refused subject broke off (sublist.go:110-113 makes no attempt to prune).  *)
TreeTidy ==
  \A p \in DOMAIN nodes :
    isEmpty(nodes, p) =>
      \E subject \in Subjects : Refused(Tokens[subject]) # {} /\ p \in Along(Walk(Tokens[subject]))

Interest == INSTANCE SubjectInterest WITH
  Subs <- {[subject |-> Tokens[s.subject], id |-> s.id] : s \in Sub},
  Literals <- {Tokens[l] : l \in Literals},
  Pwc <- <<PWC>>, Fwc <- <<FWC>>,
  interest <- {[subject |-> Tokens[s.subject], id |-> s.id] :
                 s \in {x \in Inserted : WellFormed(x.subject)}},
  answer <- {[literal |-> Tokens[a.literal],
              subs |-> {[subject |-> Tokens[s.subject], id |-> s.id] : s \in Proper(a.results)}] :
                a \in {x \in answer : IsValidLiteralSubject(x.literal)}}

(* The tree and its cache are a plain set of interests: each operation changes  *)
(* one, pruning takes no other with it, and every Match answers with exactly    *)
(* those that match at some instant while it runs.                              *)
InterestSpec == Interest!Spec
================================================================================
