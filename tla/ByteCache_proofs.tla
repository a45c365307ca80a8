-------------------------- MODULE ByteCache_proofs --------------------------
(***************************************************************************)
(* What Set and the passing of time preserve of a store, and what an entry *)
(* found afterwards may be.  The modules that use the cache cite these     *)
(* lemmas instead of its definitions.                                      *)
(***************************************************************************)
EXTENDS ByteCache, TLAPS

\* The empty store is a store, and nothing is found in it.
LEMMA EmptyStoreIsStore ==
    ASSUME NEW Key, NEW Value
    PROVE  IsStore(EmptyStore, Key, Value) /\ DOMAIN EmptyStore = {}
BY DEF IsStore, EmptyStore

\* Set keeps a store a store; afterwards the key holds the new entry and
\* every other key what it held.
LEMMA PutIsStore ==
    ASSUME NEW Key, NEW Value, NEW store, IsStore(store, Key, Value),
           NEW k \in Key, NEW v \in Value, NEW a \in Nat,
           NEW ttl \in Nat \ {0},
           NEW after, after = Put(store, k, Entry(v, a, ttl))
    PROVE  /\ IsStore(after, Key, Value)
           /\ DOMAIN after = DOMAIN store \cup {k}
           /\ after[k] = Entry(v, a, ttl)
           /\ \A l \in DOMAIN store \ {k} : after[l] = store[l]
<1> DEFINE new == Entry(v, a, ttl)
<1>1. new \in [value : Value, age : Nat, left : Nat \ {0}]
  BY DEF Entry
<1>2. /\ DOMAIN after = DOMAIN store \cup {k}
      /\ after[k] = new
      /\ \A l \in DOMAIN store \ {k} : after[l] = store[l]
  BY DEF Put
<1>3. IsStore(after, Key, Value)
  <2> HIDE DEF new
  <2>1. DOMAIN after \subseteq Key
    BY <1>2 DEF IsStore
  <2>2. after \in [DOMAIN after -> [value : Value, age : Nat, left : Nat \ {0}]]
    <3>1. after = [l \in DOMAIN after |-> after[l]]
      BY DEF Put
    <3>2. \A l \in DOMAIN after :
              after[l] \in [value : Value, age : Nat, left : Nat \ {0}]
      BY <1>1, <1>2 DEF IsStore, new
    <3> QED BY <3>1, <3>2
  <2> QED BY <2>1, <2>2 DEF IsStore
<1> QED BY <1>2, <1>3

\* Time keeps a store a store: what is found afterwards was there before,
\* with the same value, and is one unit older and one unit closer to expiry.
LEMMA AgedIsStore ==
    ASSUME NEW Key, NEW Value, NEW store, IsStore(store, Key, Value),
           NEW after, after = Aged(store)
    PROVE  /\ IsStore(after, Key, Value)
           /\ \A k \in DOMAIN after :
                 /\ k \in DOMAIN store
                 /\ after[k].value = store[k].value
                 /\ after[k].age = store[k].age + 1
                 /\ after[k].left = store[k].left - 1
<1>1. /\ DOMAIN after \subseteq DOMAIN store
      /\ after = [k \in DOMAIN after |-> after[k]]
  BY DEF Aged
<1>2. ASSUME NEW k \in DOMAIN after
      PROVE  /\ after[k] \in [value : Value, age : Nat, left : Nat \ {0}]
             /\ after[k].value = store[k].value
             /\ after[k].age = store[k].age + 1
             /\ after[k].left = store[k].left - 1
  <2>1. store[k] \in [value : Value, age : Nat, left : Nat \ {0}]
    BY <1>1, <1>2 DEF IsStore
  <2>2. store[k].left > 1 /\ store[k].left - 1 \in Nat \ {0}
    BY <1>2, <2>1 DEF Aged
  <2>3. after[k] = Entry(store[k].value, store[k].age + 1, store[k].left - 1)
    BY <1>2 DEF Aged
  <2> QED BY <2>1, <2>2, <2>3 DEF Entry
<1>3. after \in [DOMAIN after -> [value : Value, age : Nat, left : Nat \ {0}]]
  BY <1>1, <1>2
<1>4. IsStore(after, Key, Value)
  BY <1>1, <1>3 DEF IsStore
<1> QED BY <1>1, <1>2, <1>4
=============================================================================
