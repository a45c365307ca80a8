--------------------- MODULE GitRepositoryCache_proofs ---------------------
(***************************************************************************)
(* Proofs that GitRepositoryCache keeps its invariants and implements      *)
(* RepositoryReads, for any number of replicas, requests, repositories,    *)
(* references and commits, any lifetime and any delay.                     *)
(***************************************************************************)
EXTENDS GitRepositoryCache, ByteCache_proofs

\* What a request knows between two of its calls.  After ToHash, the hash of
\* an ordinary reference is one the reference stood for since the call began.
HashIsKnown(r) ==
    pc[r] \in {"lookup", "fetch", "store"} =>
        /\ hash[r] \in Reference
        /\ ref[r] \in HexName => hash[r] = ref[r]
        /\ ref[r] \notin HexName => hash[r] \in Commit /\ hash[r] \in seen[r]

\* Only ordinary names are resolved, and what they point to now is in seen.
NameIsWatched(r) ==
    pc[r] = "resolve" =>
        /\ ref[r] \in Name \ HexName
        /\ tip[url[r]][ref[r]] \in seen[r] \cup {None}

\* The tree in the hands of a request is the one it asked for.
HeldIsWanted(r) ==
    /\ pc[r] \in Active => url[r] \in Repository /\ ref[r] \in Reference
    /\ pc[r] \in {"store", "done"} => held[r] \in Commit
    /\ pc[r] = "store" => (hash[r] \in Commit => held[r] = hash[r])
    /\ pc[r] = "done" /\ ref[r] \notin HexName => held[r] \in seen[r]

CallsOK == \A r \in Request : HashIsKnown(r) /\ NameIsWatched(r) /\ HeldIsWanted(r)

\* The older an entry, the less is left of its lifetime.
EntriesExpire ==
    /\ \A r \in Request : age[r] <= Lag
    /\ \A c \in Cache : \A k \in DOMAIN store[c] :
           store[c][k].age + store[c][k].left <= TTL + Lag

Inv == TypeOK /\ CallsOK /\ EntriesMatchTheirKey /\ EntriesExpire

-----------------------------------------------------------------------------
USE ConstantsAssumption

\* The key of a call that looks up, fetches or stores is a key, and its cache
\* is one of the caches.
LEMMA KeyIsKey ==
    ASSUME TypeOK, CallsOK, NEW r \in Request,
           pc[r] \in {"lookup", "fetch", "store"}
    PROVE  CacheKey(r) \in Key /\ CacheOf(r) \in Cache
<1>1. url[r] \in Repository /\ hash[r] \in Reference
  BY DEF CallsOK, HashIsKnown, HeldIsWanted, Active
<1> QED BY <1>1 DEF CacheKey, CacheOf, Key, Cache

\* What a reference stands for is a commit, or it stands for nothing.
LEMMA TargetIsCommit ==
    ASSUME TypeOK, NEW u \in Repository, NEW f \in Reference
    PROVE  Target(u, f) \in Commit \cup {None}
BY DEF TypeOK, Target, Reference

\* How the caches change: not at all, by a Set, by a loss, or by time.
Written(r) ==
    /\ pc[r] = "store"
    /\ store' = [store EXCEPT ![CacheOf(r)] =
                    Put(@, CacheKey(r), Entry(held[r], age[r], TTL))]

Wiped(c) == store' = [store EXCEPT ![c] = EmptyStore]

TimePassed == store' = [c \in Cache |-> Aged(store[c])]

LEMMA StoreChanges ==
    ASSUME [Next]_vars
    PROVE  \/ UNCHANGED store
           \/ \E r \in Request : Written(r)
           \/ \E c \in Cache : Wiped(c)
           \/ TimePassed
BY DEF Next, vars, Call, Step, Resolve, Hit, Miss, Fetch, StoreAndReturn, Fail,
       Push, Restart, LoseShared, Tick, Written, Wiped, TimePassed, Cache

\* Whatever happens to a cache, what is found in it afterwards was found in
\* it before, with the same value and no more of its lifetime left for its
\* age, or was written by a request that holds a fetched tarball.
LEMMA EntriesComeFrom ==
    ASSUME TypeOK, CallsOK, [Next]_vars,
           NEW c \in Cache
    PROVE  /\ IsStore(store'[c], Key, Commit)
           /\ \A k \in DOMAIN store'[c] :
                 \/ /\ k \in DOMAIN store[c]
                    /\ store'[c][k].value = store[c][k].value
                    /\ store'[c][k].age + store'[c][k].left
                           = store[c][k].age + store[c][k].left
                 \/ \E r \in Request :
                       /\ pc[r] = "store"
                       /\ k = CacheKey(r)
                       /\ store'[c][k] = Entry(held[r], age[r], TTL)
<1>0. IsStore(store[c], Key, Commit) /\ store = [d \in Cache |-> store[d]]
  BY DEF TypeOK
<1>1. CASE UNCHANGED store
  BY <1>0, <1>1
<1>2. ASSUME NEW r \in Request, Written(r)
      PROVE  /\ IsStore(store'[c], Key, Commit)
             /\ \A k \in DOMAIN store'[c] :
                   \/ k \in DOMAIN store[c] /\ store'[c][k] = store[c][k]
                   \/ /\ pc[r] = "store"
                      /\ k = CacheKey(r)
                      /\ store'[c][k] = Entry(held[r], age[r], TTL)
  <2>1. pc[r] = "store" /\ CacheKey(r) \in Key /\ CacheOf(r) \in Cache
    BY <1>2, KeyIsKey DEF Written
  <2>2. held[r] \in Commit /\ age[r] \in Nat
    BY <2>1 DEF CallsOK, HeldIsWanted, TypeOK
  <2>3. CASE c # CacheOf(r)
    BY <1>0, <1>2, <2>1, <2>3 DEF Written
  <2>4. CASE c = CacheOf(r)
    <3>1. store'[c] = Put(store[c], CacheKey(r), Entry(held[r], age[r], TTL))
      BY <1>0, <1>2, <2>1, <2>4 DEF Written
    <3>2. /\ IsStore(store'[c], Key, Commit)
          /\ DOMAIN store'[c] = DOMAIN store[c] \cup {CacheKey(r)}
          /\ store'[c][CacheKey(r)] = Entry(held[r], age[r], TTL)
          /\ \A l \in DOMAIN store[c] \ {CacheKey(r)} :
                 store'[c][l] = store[c][l]
      BY <1>0, <2>1, <2>2, <3>1, PutIsStore
    <3> QED BY <2>1, <3>2
  <2> QED BY <2>3, <2>4
<1>3. ASSUME NEW d \in Cache, Wiped(d)
      PROVE  /\ IsStore(store'[c], Key, Commit)
             /\ \A k \in DOMAIN store'[c] :
                   k \in DOMAIN store[c] /\ store'[c][k] = store[c][k]
  <2>1. CASE c # d
    BY <1>0, <1>3, <2>1 DEF Wiped
  <2>2. CASE c = d
    BY <1>0, <1>3, <2>2, EmptyStoreIsStore DEF Wiped
  <2> QED BY <2>1, <2>2
<1>4. CASE TimePassed
  <2>1. store'[c] = Aged(store[c])
    BY <1>4 DEF TimePassed
  <2>2. ASSUME NEW k \in DOMAIN store[c]
        PROVE  store[c][k].age \in Nat /\ store[c][k].left \in Nat
    BY <1>0, <2>2 DEF IsStore
  <2>3. /\ IsStore(store'[c], Key, Commit)
        /\ \A k \in DOMAIN store'[c] :
              /\ k \in DOMAIN store[c]
              /\ store'[c][k].value = store[c][k].value
              /\ store'[c][k].age = store[c][k].age + 1
              /\ store'[c][k].left = store[c][k].left - 1
    <3> DEFINE before == store[c]
               after == store'[c]
    <3>1. IsStore(before, Key, Commit) /\ after = Aged(before)
      BY <1>0, <2>1
    <3> HIDE DEF before, after
    <3>2. /\ IsStore(after, Key, Commit)
          /\ \A k \in DOMAIN after :
                /\ k \in DOMAIN before
                /\ after[k].value = before[k].value
                /\ after[k].age = before[k].age + 1
                /\ after[k].left = before[k].left - 1
      BY <3>1, AgedIsStore
    <3> QED BY <3>2 DEF before, after
  <2> QED BY <2>2, <2>3
<1> QED BY <1>1, <1>2, <1>3, <1>4, StoreChanges

-----------------------------------------------------------------------------
LEMMA InvInit == Init => Inv
<1> SUFFICES ASSUME Init PROVE Inv
  OBVIOUS
<1>1. \A c \in Cache : IsStore(store[c], Key, Commit) /\ DOMAIN store[c] = {}
  BY EmptyStoreIsStore DEF Init
<1>2. TypeOK
  BY <1>1 DEF Init, TypeOK
<1>3. CallsOK
  BY DEF Init, CallsOK, HashIsKnown, NameIsWatched, HeldIsWanted, Active
<1> QED BY <1>1, <1>2, <1>3 DEF Init, Inv, EntriesMatchTheirKey, EntriesExpire

LEMMA TypeStep == Inv /\ [Next]_vars => TypeOK'
<1> SUFFICES ASSUME Inv, [Next]_vars PROVE TypeOK'
  OBVIOUS
<1> DEFINE LocalsOK ==
      /\ pc \in [Request -> Active \cup {"idle", "done", "failed"}]
      /\ url \in [Request -> Repository \cup {None}]
      /\ ref \in [Request -> Reference \cup {None}]
      /\ hash \in [Request -> Reference \cup {None}]
      /\ held \in [Request -> Commit \cup {None}]
      /\ age \in [Request -> Nat]
      /\ seen \in [Request -> SUBSET Commit]
<1>0. LocalsOK /\ TypeOK /\ CallsOK
  BY DEF Inv, TypeOK
<1>1. \A c \in Cache : IsStore(store'[c], Key, Commit)
  BY <1>0, EntriesComeFrom
<1>2. store' = [c \in Cache |-> store'[c]]
  <2>1. CASE UNCHANGED store
    BY <1>0, <2>1 DEF TypeOK
  <2>2. ASSUME NEW r \in Request, Written(r)
        PROVE  store' = [c \in Cache |-> store'[c]]
    BY <1>0, <2>2 DEF TypeOK, Written
  <2>3. ASSUME NEW c \in Cache, Wiped(c)
        PROVE  store' = [d \in Cache |-> store'[d]]
    BY <1>0, <2>3 DEF TypeOK, Wiped
  <2>4. CASE TimePassed
    BY <2>4 DEF TimePassed
  <2> QED BY <2>1, <2>2, <2>3, <2>4, StoreChanges
<1>3. LocalsOK' /\ tip' \in [Repository -> [Name -> Commit \cup {None}]]
  <2>1. ASSUME NEW r \in Request, Call(r)
        PROVE  LocalsOK' /\ UNCHANGED tip
    <3>1. PICK u \in Repository, f \in Reference :
             /\ url' = [url EXCEPT ![r] = u]
             /\ ref' = [ref EXCEPT ![r] = f]
             /\ seen' = [seen EXCEPT ![r] = {Target(u, f)} \ {None}]
             /\ hash' = [hash EXCEPT ![r] = IF IsCommitHash(f) THEN f ELSE None]
             /\ pc' = [pc EXCEPT ![r] =
                          IF IsCommitHash(f) THEN "lookup" ELSE "resolve"]
      BY <2>1 DEF Call
    <3>2. Target(u, f) \in Commit \cup {None}
      BY <1>0, TargetIsCommit
    <3> QED BY <1>0, <2>1, <3>1, <3>2 DEF Call, Active
  <2>2. ASSUME NEW r \in Request, Resolve(r)
        PROVE  LocalsOK' /\ UNCHANGED tip
    <3>1. url[r] \in Repository /\ ref[r] \in Name
      BY <1>0, <2>2 DEF CallsOK, HeldIsWanted, NameIsWatched, Resolve, Active
    <3>2. tip[url[r]][ref[r]] \in Reference
      BY <1>0, <2>2, <3>1 DEF TypeOK, Resolve, Reference
    <3> QED BY <1>0, <2>2, <3>2 DEF Resolve, Active
  <2>3. ASSUME NEW r \in Request, Hit(r)
        PROVE  LocalsOK' /\ UNCHANGED tip
    <3>1. CacheOf(r) \in Cache
      BY <1>0, <2>3, KeyIsKey DEF Hit
    <3>2. store[CacheOf(r)][CacheKey(r)].value \in Commit
      BY <1>0, <2>3, <3>1 DEF TypeOK, IsStore, Hit
    <3> QED BY <1>0, <2>3, <3>2 DEF Hit
  <2>4. ASSUME NEW r \in Request, Miss(r)
        PROVE  LocalsOK' /\ UNCHANGED tip
    BY <1>0, <2>4 DEF Miss, Active
  <2>5. ASSUME NEW r \in Request, Fetch(r)
        PROVE  LocalsOK' /\ UNCHANGED tip
    <3>1. url[r] \in Repository /\ hash[r] \in Reference
      BY <1>0, <2>5 DEF CallsOK, HashIsKnown, HeldIsWanted, Fetch, Active
    <3>2. Target(url[r], hash[r]) \in Commit
      BY <1>0, <2>5, <3>1, TargetIsCommit DEF Fetch
    <3> QED BY <1>0, <2>5, <3>2 DEF Fetch, Active
  <2>6. ASSUME NEW r \in Request, StoreAndReturn(r)
        PROVE  LocalsOK' /\ UNCHANGED tip
    BY <1>0, <2>6 DEF StoreAndReturn
  <2>7. ASSUME NEW r \in Request, Fail(r)
        PROVE  LocalsOK' /\ UNCHANGED tip
    BY <1>0, <2>7 DEF Fail, Forget
  <2>8. ASSUME NEW u \in Repository, NEW n \in Name, Push(u, n)
        PROVE  LocalsOK' /\ tip' \in [Repository -> [Name -> Commit \cup {None}]]
    <3>1. PICK c \in Commit \cup {None} :
             /\ tip' = [tip EXCEPT ![u] = [@ EXCEPT ![n] = c]]
             /\ seen' = [r \in Request |->
                            IF pc[r] \in Active /\ url[r] = u /\ ref[r] = n
                            THEN seen[r] \cup ({c} \ {None})
                            ELSE seen[r]]
      BY <2>8 DEF Push
    <3>2. tip' \in [Repository -> [Name -> Commit \cup {None}]]
      BY <1>0, <3>1 DEF TypeOK
    <3>3. seen' \in [Request -> SUBSET Commit]
      BY <1>0, <3>1
    <3> QED BY <1>0, <2>8, <3>2, <3>3 DEF Push
  <2>9. ASSUME NEW p \in Replica, Restart(p)
        PROVE  LocalsOK' /\ UNCHANGED tip
    BY <1>0, <2>9 DEF Restart, Forget
  <2>10. CASE LoseShared
    BY <1>0, <2>10 DEF LoseShared, call, TypeOK
  <2>11. CASE Tick
    BY <1>0, <2>11 DEF Tick, TypeOK
  <2>12. CASE UNCHANGED vars
    BY <1>0, <2>12 DEF vars, TypeOK
  <2>13. tip \in [Repository -> [Name -> Commit \cup {None}]]
    BY <1>0 DEF TypeOK
  <2> HIDE DEF LocalsOK
  <2> QED BY <2>1, <2>2, <2>3, <2>4, <2>5, <2>6, <2>7, <2>8, <2>9, <2>10,
             <2>11, <2>12, <2>13 DEF Next, Step
<1> QED BY <1>1, <1>2, <1>3 DEF TypeOK

\* Under a commit hash only the tree of that commit is ever stored.
LEMMA EntriesStep == Inv /\ [Next]_vars => EntriesMatchTheirKey'
<1> SUFFICES ASSUME Inv, [Next]_vars,
                    NEW c \in Cache, NEW k \in DOMAIN store'[c],
                    k[2] \in Commit
             PROVE  store'[c][k].value = k[2]
  BY DEF EntriesMatchTheirKey
<1>1. CASE /\ k \in DOMAIN store[c]
           /\ store'[c][k].value = store[c][k].value
  BY <1>1 DEF Inv, EntriesMatchTheirKey
<1>2. ASSUME NEW r \in Request,
             pc[r] = "store", k = CacheKey(r),
             store'[c][k] = Entry(held[r], age[r], TTL)
      PROVE  store'[c][k].value = k[2]
  <2>1. hash[r] = k[2]
    BY <1>2 DEF CacheKey
  <2>2. held[r] = hash[r]
    BY <1>2, <2>1 DEF Inv, CallsOK, HeldIsWanted
  <2> QED BY <1>2, <2>1, <2>2 DEF Entry
<1> QED BY <1>1, <1>2, EntriesComeFrom DEF Inv

\* Age and remaining lifetime keep their sum while an entry ages; a new entry
\* starts with the time its tarball waited.
LEMMA ExpiryStep == Inv /\ [Next]_vars => EntriesExpire'
<1> SUFFICES ASSUME Inv, [Next]_vars PROVE EntriesExpire'
  OBVIOUS
<1>1. ASSUME NEW r \in Request PROVE age'[r] <= Lag
  <2>1. age[r] \in Nat /\ age[r] <= Lag /\ age \in [Request -> Nat]
    BY DEF Inv, TypeOK, EntriesExpire
  <2>2. CASE UNCHANGED age
    BY <2>1, <2>2
  <2>3. ASSUME NEW q \in Request, StoreAndReturn(q) PROVE age'[r] <= Lag
    BY <2>1, <2>3 DEF StoreAndReturn
  <2>4. ASSUME NEW R, NEW o, Forget(R, o) PROVE age'[r] <= Lag
    BY <2>1, <2>4 DEF Forget
  <2>5. CASE Tick
    BY <2>1, <2>5 DEF Tick
  <2> QED BY <2>2, <2>3, <2>4, <2>5
          DEF Next, vars, call, Call, Step, Resolve, Hit, Miss, Fetch, Fail,
              Push, Restart, LoseShared
<1>2. ASSUME NEW c \in Cache, NEW k \in DOMAIN store'[c]
      PROVE  store'[c][k].age + store'[c][k].left <= TTL + Lag
  <2>1. CASE /\ k \in DOMAIN store[c]
             /\ store'[c][k].age + store'[c][k].left
                    = store[c][k].age + store[c][k].left
    BY <2>1 DEF Inv, EntriesExpire
  <2>2. ASSUME NEW r \in Request,
               store'[c][k] = Entry(held[r], age[r], TTL)
        PROVE  store'[c][k].age + store'[c][k].left <= TTL + Lag
    <3>1. age[r] \in Nat /\ age[r] <= Lag
      BY DEF Inv, TypeOK, EntriesExpire
    <3> QED BY <2>2, <3>1 DEF Entry
  <2> QED BY <2>1, <2>2, EntriesComeFrom DEF Inv
<1> QED BY <1>1, <1>2 DEF EntriesExpire

\* The locals of a request stay consistent with its reference and with what
\* the remote has been seen to hold, whoever takes the step.
LEMMA CallsStep == Inv /\ [Next]_vars => CallsOK'
<1> SUFFICES ASSUME Inv, [Next]_vars, NEW q \in Request
             PROVE  (HashIsKnown(q) /\ NameIsWatched(q) /\ HeldIsWanted(q))'
  BY DEF CallsOK
<1> DEFINE Locals == <<pc[q], url[q], ref[q], hash[q], held[q], seen[q]>>
           Good == HashIsKnown(q) /\ NameIsWatched(q) /\ HeldIsWanted(q)
<1>0. /\ Good /\ TypeOK /\ CallsOK
      /\ pc \in [Request -> Active \cup {"idle", "done", "failed"}]
      /\ url \in [Request -> Repository \cup {None}]
      /\ ref \in [Request -> Reference \cup {None}]
      /\ hash \in [Request -> Reference \cup {None}]
      /\ held \in [Request -> Commit \cup {None}]
      /\ seen \in [Request -> SUBSET Commit]
  BY DEF Inv, CallsOK, TypeOK
<1>same. CASE UNCHANGED <<tip, Locals>>
  BY <1>0, <1>same DEF HashIsKnown, NameIsWatched, HeldIsWanted
<1>1. ASSUME NEW r \in Request, Call(r) PROVE Good'
  <2>1. CASE q # r
    BY <1>0, <1>1, <2>1, <1>same DEF Call
  <2>2. CASE q = r
    <3>1. PICK u \in Repository, f \in Reference :
             /\ url'[q] = u
             /\ ref'[q] = f
             /\ seen'[q] = {Target(u, f)} \ {None}
             /\ hash'[q] = IF IsCommitHash(f) THEN f ELSE None
             /\ pc'[q] = IF IsCommitHash(f) THEN "lookup" ELSE "resolve"
             /\ tip' = tip
      BY <1>0, <1>1, <2>2 DEF Call
    <3>2. CASE IsCommitHash(f)
      BY <3>1, <3>2 DEF IsCommitHash, Target, HashIsKnown, NameIsWatched,
                        HeldIsWanted, Active
    <3>3. CASE ~IsCommitHash(f)
      <4>1. f \in Name \ HexName /\ Target(u, f) = tip[u][f]
        BY <3>3 DEF IsCommitHash, Reference, Target
      <4> QED BY <3>1, <3>3, <4>1 DEF HashIsKnown, NameIsWatched, HeldIsWanted,
                                      Active
    <3> QED BY <3>2, <3>3
  <2> QED BY <2>1, <2>2
<1>2. ASSUME NEW r \in Request, Resolve(r) PROVE Good'
  <2>1. CASE q # r
    BY <1>0, <1>2, <2>1, <1>same DEF Resolve
  <2>2. CASE q = r
    <3>1. /\ url[q] \in Repository /\ ref[q] \in Name \ HexName
          /\ tip[url[q]][ref[q]] \in seen[q]
      BY <1>0, <1>2, <2>2 DEF Resolve, NameIsWatched, HeldIsWanted, Active
    <3>2. tip[url[q]][ref[q]] \in Commit
      BY <1>0, <3>1
    <3>3. /\ pc'[q] = "lookup" /\ hash'[q] = tip[url[q]][ref[q]]
          /\ UNCHANGED <<tip, url, ref, held, seen>>
      BY <1>0, <1>2, <2>2 DEF Resolve
    <3> QED BY <3>1, <3>2, <3>3 DEF HashIsKnown, NameIsWatched, HeldIsWanted,
                                    Active, Reference
  <2> QED BY <2>1, <2>2
<1>3. ASSUME NEW r \in Request, Hit(r) PROVE Good'
  <2>1. CASE q # r
    BY <1>0, <1>3, <2>1, <1>same DEF Hit
  <2>2. CASE q = r
    <3> DEFINE found == store[CacheOf(q)][CacheKey(q)].value
    <3>1. CacheOf(q) \in Cache /\ CacheKey(q) \in DOMAIN store[CacheOf(q)]
      BY <1>0, <1>3, <2>2, KeyIsKey DEF Hit
    <3>2. found \in Commit
      BY <1>0, <3>1 DEF TypeOK, IsStore
    <3>3. hash[q] \in Commit => found = hash[q]
      BY <3>1 DEF Inv, EntriesMatchTheirKey, CacheKey
    <3>4. /\ pc'[q] = "done" /\ held'[q] = found
          /\ UNCHANGED <<tip, url, ref, seen>>
      BY <1>0, <1>3, <2>2 DEF Hit
    <3>5. ref[q] \notin HexName => hash[q] \in Commit /\ hash[q] \in seen[q]
      BY <1>0, <1>3, <2>2 DEF Hit, HashIsKnown
    <3> HIDE DEF found
    <3> QED BY <3>2, <3>3, <3>4, <3>5 DEF HashIsKnown, NameIsWatched,
                                          HeldIsWanted, Active
  <2> QED BY <2>1, <2>2
<1>4. ASSUME NEW r \in Request, Miss(r) PROVE Good'
  <2>1. CASE q # r
    BY <1>0, <1>4, <2>1, <1>same DEF Miss
  <2>2. CASE q = r
    BY <1>0, <1>4, <2>2 DEF Miss, HashIsKnown, NameIsWatched, HeldIsWanted, Active
  <2> QED BY <2>1, <2>2
<1>5. ASSUME NEW r \in Request, Fetch(r) PROVE Good'
  <2>1. CASE q # r
    BY <1>0, <1>5, <2>1, <1>same DEF Fetch
  <2>2. CASE q = r
    <3>1. url[q] \in Repository /\ hash[q] \in Reference
      BY <1>0, <1>5, <2>2 DEF Fetch, HashIsKnown, HeldIsWanted, Active
    <3>2. /\ Target(url[q], hash[q]) \in Commit
          /\ hash[q] \in Commit => Target(url[q], hash[q]) = hash[q]
      BY <1>0, <1>5, <2>2, <3>1, TargetIsCommit DEF Fetch, Target
    <3>3. /\ pc'[q] = "store" /\ held'[q] = Target(url[q], hash[q])
          /\ UNCHANGED <<tip, url, ref, hash, seen>>
      BY <1>0, <1>5, <2>2 DEF Fetch
    <3> QED BY <1>0, <1>5, <2>2, <3>1, <3>2, <3>3
            DEF Fetch, HashIsKnown, NameIsWatched, HeldIsWanted, Active
  <2> QED BY <2>1, <2>2
<1>6. ASSUME NEW r \in Request, StoreAndReturn(r) PROVE Good'
  <2>1. CASE q # r
    BY <1>0, <1>6, <2>1, <1>same DEF StoreAndReturn
  <2>2. CASE q = r
    <3>1. /\ pc[q] = "store" /\ pc'[q] = "done"
          /\ UNCHANGED <<tip, url, ref, held, seen>>
      BY <1>0, <1>6, <2>2 DEF StoreAndReturn
    <3> QED BY <1>0, <3>1 DEF HashIsKnown, NameIsWatched, HeldIsWanted, Active
  <2> QED BY <2>1, <2>2
<1>7. ASSUME NEW R, NEW o \in {"idle", "failed"}, Forget(R, o), UNCHANGED tip
      PROVE  Good'
  <2>1. CASE q \notin R
    BY <1>0, <1>7, <2>1, <1>same DEF Forget
  <2>2. CASE q \in R
    <3>1. pc'[q] \in {"idle", "failed"}
      BY <1>7, <2>2 DEF Forget
    <3> QED BY <3>1 DEF HashIsKnown, NameIsWatched, HeldIsWanted, Active
  <2> QED BY <2>1, <2>2
<1>8. ASSUME NEW u \in Repository, NEW n \in Name, Push(u, n) PROVE Good'
  <2>1. PICK c \in Commit \cup {None} :
           /\ tip' = [tip EXCEPT ![u] = [@ EXCEPT ![n] = c]]
           /\ seen'[q] = IF pc[q] \in Active /\ url[q] = u /\ ref[q] = n
                         THEN seen[q] \cup ({c} \ {None})
                         ELSE seen[q]
           /\ UNCHANGED <<pc, url, ref, hash, held>>
    BY <1>8 DEF Push
  <2>2. seen[q] \subseteq seen'[q]
    BY <2>1
  <2>3. HashIsKnown(q)' /\ HeldIsWanted(q)'
    BY <1>0, <2>1, <2>2 DEF HashIsKnown, HeldIsWanted
  <2>4. NameIsWatched(q)'
    <3>1. SUFFICES ASSUME pc[q] = "resolve"
                   PROVE  /\ ref[q] \in Name \ HexName
                          /\ tip'[url[q]][ref[q]] \in seen'[q] \cup {None}
      BY <2>1 DEF NameIsWatched
    <3>2. /\ url[q] \in Repository /\ ref[q] \in Name \ HexName
          /\ tip[url[q]][ref[q]] \in seen[q] \cup {None}
      BY <1>0, <3>1 DEF NameIsWatched, HeldIsWanted, Active
    <3>3. CASE url[q] = u /\ ref[q] = n
      <4>1. tip'[url[q]][ref[q]] = c
        BY <1>0, <2>1, <3>3 DEF TypeOK
      <4> QED BY <2>1, <3>1, <3>2, <3>3, <4>1 DEF Active
    <3>4. CASE ~(url[q] = u /\ ref[q] = n)
      <4>1. tip'[url[q]][ref[q]] = tip[url[q]][ref[q]]
        BY <1>0, <2>1, <3>2, <3>4 DEF TypeOK
      <4> QED BY <2>2, <3>2, <4>1
    <3> QED BY <3>3, <3>4
  <2> QED BY <2>3, <2>4
<1>9. ASSUME NEW r \in Request, Fail(r) PROVE Good'
  BY <1>7, <1>9 DEF Fail
<1>10. ASSUME NEW p \in Replica, Restart(p) PROVE Good'
  BY <1>7, <1>10 DEF Restart
<1>11. CASE LoseShared \/ Tick \/ UNCHANGED vars
  BY <1>same, <1>11 DEF LoseShared, Tick, vars, call
<1> QED BY <1>1, <1>2, <1>3, <1>4, <1>5, <1>6, <1>8, <1>9, <1>10, <1>11
        DEF Next, Step

-----------------------------------------------------------------------------
\* The inductive invariant holds in every reachable state.
THEOREM Invariance == Spec => []Inv
<1>1. Inv /\ [Next]_vars => Inv'
  BY TypeStep, CallsStep, EntriesStep, ExpiryStep DEF Inv
<1> QED BY InvInit, <1>1, PTL DEF Spec

\* Every reachable state has the shape the code's types give it.
THEOREM TypeCorrectness == Spec => []TypeOK
<1>1. Inv => TypeOK
  BY DEF Inv
<1> QED BY <1>1, Invariance, PTL

\* A call that names an ordinary reference returns what it pointed to at some
\* moment of the call; a call with a hash returns that commit.
THEOREM FreshReads == Spec => []FreshRead
<1>1. Inv => FreshRead
  BY DEF Inv, CallsOK, HeldIsWanted, FreshRead
<1> QED BY <1>1, Invariance, PTL

\* No cache ever holds a tree under the hash of another commit.
THEOREM EntriesAreImmutable == Spec => []EntriesMatchTheirKey
<1>1. Inv => EntriesMatchTheirKey
  BY DEF Inv
<1> QED BY <1>1, Invariance, PTL

\* What a cache answers is younger than the lifetime plus the delay of a Set.
THEOREM StalenessIsBounded == Spec => []BoundedStaleness
<1>1. Inv => BoundedStaleness
  <2> SUFFICES ASSUME Inv, NEW c \in Cache, NEW k \in DOMAIN store[c]
               PROVE  store[c][k].age < TTL + Lag
    BY DEF BoundedStaleness
  <2>1. store[c][k].age \in Nat /\ store[c][k].left \in Nat \ {0}
    BY DEF Inv, TypeOK, IsStore
  <2>2. store[c][k].age + store[c][k].left <= TTL + Lag
    BY DEF Inv, EntriesExpire
  <2> QED BY <2>1, <2>2
<1> QED BY <1>1, Invariance, PTL

-----------------------------------------------------------------------------
\* The cache is invisible: every step of the code is a step, or no step, of
\* a service that reads the remote at some moment of each call.
LEMMA ReadsInit == Init => Reads!Init
BY DEF Init, Reads!Init, Active

LEMMA ReadsStep == Inv /\ [Next]_vars => [Reads!Next]_(Reads!vars)
<1> SUFFICES ASSUME Inv, [Next]_vars PROVE [Reads!Next]_(Reads!vars)
  OBVIOUS
<1> DEFINE phase == [r \in Request |-> IF pc[r] \in Active THEN "active" ELSE pc[r]]
           result == [r \in Request |-> IF pc[r] = "done" THEN held[r] ELSE None]
<1>0. /\ pc \in [Request -> Active \cup {"idle", "done", "failed"}]
      /\ held \in [Request -> Commit \cup {None}]
  BY DEF Inv, TypeOK
<1>stutter. CASE UNCHANGED <<tip, url, ref, seen, phase, result>>
  BY <1>stutter DEF Reads!vars
<1>1. ASSUME NEW r \in Request, Call(r) PROVE Reads!Next
  <2>1. Reads!Begin(r)
    <3>1. /\ phase[r] # "active"
          /\ phase' = [phase EXCEPT ![r] = "active"]
          /\ result' = [result EXCEPT ![r] = None]
      <4>1. /\ pc[r] \notin Active
            /\ \E p \in Active : pc' = [pc EXCEPT ![r] = p]
            /\ held' = [held EXCEPT ![r] = None]
        BY <1>1 DEF Call, Active
      <4>2. phase[r] # "active"
        BY <1>0, <4>1 DEF Active
      <4>3. phase' = [phase EXCEPT ![r] = "active"]
        BY <1>0, <4>1
      <4>4. result' = [result EXCEPT ![r] = None]
        BY <1>0, <4>1 DEF Active
      <4> QED BY <4>2, <4>3, <4>4
    <3> QED BY <1>1, <3>1 DEF Call, Reads!Begin, Reads!Target, Target, Reference
  <2> QED BY <2>1 DEF Reads!Next
<1>2. ASSUME NEW r \in Request, Resolve(r) \/ Miss(r) \/ Fetch(r)
      PROVE  UNCHANGED <<tip, url, ref, seen, phase, result>>
  <2>1. /\ pc[r] \in Active
        /\ \E p \in Active : pc' = [pc EXCEPT ![r] = p]
        /\ UNCHANGED <<tip, url, ref, seen>>
        /\ \A q \in Request \ {r} : held'[q] = held[q]
    BY <1>0, <1>2 DEF Resolve, Miss, Fetch, Active
  <2>2. UNCHANGED phase
    BY <1>0, <2>1
  <2>3. UNCHANGED result
    BY <1>0, <2>1 DEF Active
  <2> QED BY <2>1, <2>2, <2>3
<1>3. ASSUME NEW r \in Request, Hit(r) \/ StoreAndReturn(r) PROVE Reads!Next
  <2>1. HeldIsWanted(r)'
    BY CallsStep DEF CallsOK
  <2>2. /\ pc[r] \in Active /\ pc' = [pc EXCEPT ![r] = "done"]
        /\ UNCHANGED <<tip, url, ref, seen>>
        /\ \A q \in Request \ {r} : held'[q] = held[q]
    BY <1>0, <1>3 DEF Hit, StoreAndReturn, Active
  <2>3. /\ held'[r] \in Commit
        /\ ref[r] \notin HexName => held'[r] \in seen[r]
    BY <1>0, <2>1, <2>2 DEF HeldIsWanted
  <2>4. /\ phase[r] = "active"
        /\ phase' = [phase EXCEPT ![r] = "done"]
        /\ result' = [result EXCEPT ![r] = held'[r]]
    BY <1>0, <2>2 DEF Active
  <2>5. Reads!Return(r)
    BY <2>2, <2>3, <2>4 DEF Reads!Return
  <2> QED BY <2>5 DEF Reads!Next
<1>4. ASSUME NEW R \in SUBSET Request, NEW o \in {"idle", "failed"},
             Forget(R, o), UNCHANGED tip
      PROVE  Reads!Abandon(R, o)
  <2>1. /\ phase' = [r \in Request |-> IF r \in R THEN o ELSE phase[r]]
        /\ result' = [r \in Request |-> IF r \in R THEN None ELSE result[r]]
    BY <1>0, <1>4 DEF Forget, Active
  <2> QED BY <1>4, <2>1 DEF Reads!Abandon, Forget
<1>5. ASSUME NEW r \in Request, Fail(r) PROVE Reads!Next
  <2>1. phase[r] = "active"
    BY <1>5 DEF Fail, Active
  <2>2. Reads!Abandon({r}, "failed")
    BY <1>4, <1>5 DEF Fail
  <2>3. Reads!Fail(r)
    BY <2>1, <2>2 DEF Reads!Fail
  <2> QED BY <2>3 DEF Reads!Next
<1>6. ASSUME NEW p \in Replica, Restart(p) PROVE Reads!Next
  <2>1. Reads!Abandon({r \in Request : Home[r] = p}, "idle")
    BY <1>4, <1>6 DEF Restart
  <2> QED BY <2>1 DEF Reads!Next
<1>7. ASSUME NEW u \in Repository, NEW n \in Name, Push(u, n) PROVE Reads!Next
  <2>1. UNCHANGED <<phase, result>>
    BY <1>7 DEF Push
  <2>2. \A r \in Request : pc[r] \in Active <=> phase[r] = "active"
    BY <1>0 DEF Active
  <2>3. PICK c \in Commit \cup {None} :
           /\ tip' = [tip EXCEPT ![u] = [@ EXCEPT ![n] = c]]
           /\ seen' = [r \in Request |->
                          IF pc[r] \in Active /\ url[r] = u /\ ref[r] = n
                          THEN seen[r] \cup ({c} \ {None})
                          ELSE seen[r]]
           /\ UNCHANGED <<url, ref>>
    BY <1>7 DEF Push
  <2>4. seen' = [r \in Request |->
                    IF phase[r] = "active" /\ url[r] = u /\ ref[r] = n
                    THEN seen[r] \cup ({c} \ {None})
                    ELSE seen[r]]
    BY <2>2, <2>3
  <2> HIDE DEF phase
  <2>5. Reads!Push(u, n)
    BY <2>1, <2>3, <2>4 DEF Reads!Push, phase
  <2> QED BY <2>5 DEF Reads!Next
<1>8. CASE LoseShared \/ Tick \/ UNCHANGED vars
  BY <1>8, <1>stutter DEF LoseShared, Tick, vars, call
<1> QED BY <1>stutter, <1>1, <1>2, <1>3, <1>5, <1>6, <1>7, <1>8
        DEF Next, Step

THEOREM ReadsAreImplemented == Spec => ImplementsReads
<1>1. Init => Reads!Init
  BY ReadsInit
<1>2. Inv /\ [Next]_vars => [Reads!Next]_(Reads!vars)
  BY ReadsStep
<1> QED BY <1>1, <1>2, Invariance, PTL DEF Spec, Reads!Spec, ImplementsReads
=============================================================================
