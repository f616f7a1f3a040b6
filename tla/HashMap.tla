-------------------------------- MODULE HashMap --------------------------------
(* The server's own hash map (gnatsd/hashmap/hashmap.go, rand_evict.go) as      *)
(* operators on a value [bkts, used]: buckets of chains, newest entry first,    *)
(* doubled and halved as entries come and go, and evicted from at random.       *)
EXTENDS Integers, SequencesExt, FiniteSetsExt, Functions

CONSTANTS Hash,         \* the hash of each key that is used (HashMap.Hash)
          BSZ,          \* the buckets of a new map, a power of two (_BSZ, 8)
          MaxBktSize    \* the bound on buckets (maxBktSize, 2^31 - 1)

ASSUME HashAssumption == \A key \in DOMAIN Hash : Hash[key] \in Nat

ASSUME SizeAssumption == BSZ \in Nat \ {0} /\ MaxBktSize \in Nat

New == [bkts |-> [i \in 1..BSZ |-> <<>>], used |-> 0]

(* Chain h.bkts[hk & h.msk]; chains are numbered from 1. *)
Slot(key, size) == 1 + (Hash[key] % size)
Chain(h, key) == h.bkts[Slot(key, Len(h.bkts))]
At(h, key) == {i \in DOMAIN Chain(h, key) : Chain(h, key)[i].key = key}

(* The data found first, in a sequence: empty is Go's nil. *)
Get(h, key) ==
  IF At(h, key) = {} THEN <<>> ELSE <<Chain(h, key)[Min(At(h, key))].data>>

(* All entries, chain after chain. *)
Entries(bkts) ==
  LET upto[b \in 0..Len(bkts)] == IF b = 0 THEN <<>> ELSE upto[b - 1] \o bkts[b]
  IN upto[Len(bkts)]

(* Variant: the chains are taken over as they are. *)
Resize_noRehash(h, size) ==
  [h EXCEPT !.bkts = [b \in 1..size |-> IF b <= Len(h.bkts) THEN h.bkts[b] ELSE <<>>]]

(* Every entry goes to the front of its new chain, in the order of the walk. *)
Resize(h, size) ==
  LET walk == Entries(h.bkts)
      moved[n \in 0..Len(walk)] ==
        IF n = 0 THEN [b \in 1..size |-> <<>>]
        ELSE [moved[n - 1] EXCEPT ![Slot(walk[n].key, size)] = <<walk[n]>> \o @]
  IN [h EXCEPT !.bkts = moved[Len(walk)]]

Grow(h) == IF Len(h.bkts) >= MaxBktSize THEN h ELSE Resize(h, 2 * Len(h.bkts))
Shrink(h) == IF Len(h.bkts) <= BSZ THEN h ELSE Resize(h, Len(h.bkts) \div 2)

Set(h, key, data) ==
  LET b == Slot(key, Len(h.bkts))
      put == [bkts |-> [h.bkts EXCEPT ![b] = <<[key |-> key, data |-> data]>> \o @],
              used |-> h.used + 1]
  IN IF At(h, key) # {} THEN [h EXCEPT !.bkts[b][Min(At(h, key))].data = data]
     ELSE IF put.used > Len(put.bkts) THEN Grow(put) ELSE put

Unset(h, key) ==
  LET b == Slot(key, Len(h.bkts))
      cut == [bkts |-> [h.bkts EXCEPT ![b] = RemoveAt(@, Min(At(h, key)))],
              used |-> h.used - 1]
  IN IF At(h, key) = {} THEN h
     ELSE IF Len(h.bkts) > BSZ /\ cut.used < Len(h.bkts) \div 4 THEN Shrink(cut) ELSE cut

(* The first entry of the first chain in use from a random one on, or of the    *)
(* last before it: what each index would leave.                                 *)
RemoveRandom(h) ==
  LET inUse == {b \in DOMAIN h.bkts : h.bkts[b] # <<>>}
      victim(i) == IF \E b \in inUse : b >= i
                   THEN Min({b \in inUse : b >= i}) ELSE Max(inUse)
  IN IF h.used = 0 THEN {h}
     ELSE {[bkts |-> [h.bkts EXCEPT ![victim(i)] = Tail(@)], used |-> h.used - 1] :
             i \in DOMAIN h.bkts}

AllKeys(h) == LET walk == Entries(h.bkts) IN [i \in DOMAIN walk |-> walk[i].key]
All(h) == LET walk == Entries(h.bkts) IN [i \in DOMAIN walk |-> walk[i].data]
Count(h) == h.used

(* The shape every operation relies on: no key twice, each in the chain that    *)
(* its hash names, and used counts them (resize allocates by it).               *)
Sound(h) ==
  /\ \A b \in DOMAIN h.bkts : \A i \in DOMAIN h.bkts[b] :
        /\ Slot(h.bkts[b][i].key, Len(h.bkts)) = b
        /\ \A j \in DOMAIN h.bkts[b] : h.bkts[b][j].key = h.bkts[b][i].key => j = i
  /\ h.used = Len(Entries(h.bkts))
================================================================================
