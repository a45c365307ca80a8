----------------------------- MODULE ByteCache -----------------------------
(***************************************************************************)
(* The key/value cache of go-autumn-synchronisation (cache.Cache[[]byte]), *)
(* as internal/service/cache uses it: Get finds an entry or nothing, Set   *)
(* stores an entry with a lifetime, an entry whose lifetime is over is no  *)
(* longer found, and a Set of a key starts its lifetime again.             *)
(*                                                                         *)
(* A store is a function whose domain is the set of keys that are alive.   *)
(* An entry holds the value, the time left before it expires, and a ghost: *)
(* the time that has passed since the remote served the value.             *)
(***************************************************************************)
EXTENDS Integers

\* A cache as it is created, and as it is after the process or the Redis
\* server that kept it in memory has been restarted.
EmptyStore == [k \in {} |-> 0]

Entry(value, age, ttl) == [value |-> value, age |-> age, left |-> ttl]

\* Set(ctx, key, value, ttl).
Put(store, key, entry) ==
    [k \in DOMAIN store \cup {key} |-> IF k = key THEN entry ELSE store[k]]

\* One unit of time passes: entries grow older, those that are due vanish.
Aged(store) ==
    [k \in {l \in DOMAIN store : store[l].left > 1} |->
        Entry(store[k].value, store[k].age + 1, store[k].left - 1)]

\* The stores over a set of keys and a set of values, for type invariants.
IsStore(store, Key, Value) ==
    /\ DOMAIN store \subseteq Key
    /\ store \in [DOMAIN store ->
                     [value : Value, age : Nat, left : Nat \ {0}]]
=============================================================================
