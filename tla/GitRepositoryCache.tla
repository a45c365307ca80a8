------------------------ MODULE GitRepositoryCache ------------------------
(***************************************************************************)
(* Retrieval of git repositories through the cache.                        *)
(*   internal/service/cache/gitrepositorycache.go                          *)
(*   internal/repository/git/git.go (ToHash, CloneCommit)                  *)
(*   internal/wiring/application.go (createByteSliceCache)                 *)
(*                                                                         *)
(* Every request runs RetrieveRepository in a goroutine of its replica and *)
(* passes through                                                          *)
(*   resolve -> lookup -> fetch -> store -> done                           *)
(* where each arrow is one call whose effect takes place at one moment:    *)
(* the remote lists its references, the cache is read, the remote serves a *)
(* tree, the cache is written.  Nothing holds a lock between them, so      *)
(* requests, pushes to the remote, expiry and restarts interleave.         *)
(*                                                                         *)
(* A tarball is abstracted to the commit whose tree it contains.           *)
(***************************************************************************)
EXTENDS ByteCache

CONSTANTS
    Method,      \* SYNCHRONIZATION_METHOD: "redis" or "memory"
    Replica,     \* processes of the service
    Request,     \* goroutines that serve requests
    Home,        \* the replica a request runs in
    Shared,      \* name of the cache all replicas share (Redis)
    Repository,  \* repository URLs
    Commit,      \* commit hashes
    Name,        \* full names of references, such as refs/heads/main
    HexName,     \* the names that contain 40 hexadecimal digits in a row
    None,        \* no commit, no argument; where a deleted reference points
    TTL,         \* lifetime of an entry (15 minutes, in units of the clock)
    Lag          \* bound: longest time from the remote serving a tree to Set

ASSUME ConstantsAssumption ==
    /\ Method \in {"redis", "memory"}
    /\ Home \in [Request -> Replica]
    /\ Shared \notin Replica
    /\ HexName \subseteq Name
    /\ Commit \cap Name = {}
    /\ None \notin Commit \cup Name \cup Repository
    /\ TTL \in Nat \ {0}
    /\ Lag \in Nat

VARIABLES
    tip,    \* the remotes: what each reference of each repository points to
    store,  \* the caches: one per replica, and the shared one
    pc,     \* how far the call of each request has come
    url,    \* its argument repositoryURL
    ref,    \* its argument gitReference
    hash,   \* its local commitHash: what ToHash returned
    held,   \* the tarball it has obtained
    age,    \* ghost: how long a fetched tarball has been waiting for its Set
    seen    \* ghost: what ref stood for since the call began

vars == <<tip, store, pc, url, ref, hash, held, age, seen>>
call == <<pc, url, ref, hash, held, age, seen>>

Reference == Name \cup Commit
Key == Repository \X Reference
Cache == Replica \cup {Shared}
Active == {"resolve", "lookup", "fetch", "store"}

\* Mutant: every reference passes for a hash.
IsReference(reference) == reference \in Reference

\* The regular expression is not anchored: it accepts every reference that
\* has 40 hexadecimal digits in it, and so some names next to the hashes.
IsCommitHash(reference) == reference \in Commit \cup HexName

CacheOf(r) == IF Method = "redis" THEN Shared ELSE Home[r]

CacheKey(r) == <<url[r], hash[r]>>

\* What a reference stands for at this moment; a hash stands for itself.
Target(repository, reference) ==
    IF reference \in Commit THEN reference ELSE tip[repository][reference]

TypeOK ==
    /\ tip \in [Repository -> [Name -> Commit \cup {None}]]
    /\ store = [c \in Cache |-> store[c]]
    /\ \A c \in Cache : IsStore(store[c], Key, Commit)
    /\ pc \in [Request -> Active \cup {"idle", "done", "failed"}]
    /\ url \in [Request -> Repository \cup {None}]
    /\ ref \in [Request -> Reference \cup {None}]
    /\ hash \in [Request -> Reference \cup {None}]
    /\ held \in [Request -> Commit \cup {None}]
    /\ age \in [Request -> Nat]
    /\ seen \in [Request -> SUBSET Commit]

Init ==
    /\ tip \in [Repository -> [Name -> Commit]]
    /\ store = [c \in Cache |-> EmptyStore]
    /\ pc = [r \in Request |-> "idle"]
    /\ url = [r \in Request |-> None]
    /\ ref = [r \in Request |-> None]
    /\ hash = [r \in Request |-> None]
    /\ held = [r \in Request |-> None]
    /\ age = [r \in Request |-> 0]
    /\ seen = [r \in Request |-> {}]

-----------------------------------------------------------------------------
\* RetrieveRepository is called.  ToHash asks the remote only for references
\* that do not look like a hash.
Call(r) ==
    /\ pc[r] \notin Active
    /\ \E u \in Repository, f \in Reference :
        /\ url' = [url EXCEPT ![r] = u]
        /\ ref' = [ref EXCEPT ![r] = f]
        /\ seen' = [seen EXCEPT ![r] = {Target(u, f)} \ {None}]
        /\ hash' = [hash EXCEPT ![r] = IF IsCommitHash(f) THEN f ELSE None]
        /\ pc' = [pc EXCEPT ![r] =
                     IF IsCommitHash(f) THEN "lookup" ELSE "resolve"]
    /\ held' = [held EXCEPT ![r] = None]
    /\ UNCHANGED <<tip, store, age>>

\* ToHash finds the name among the references the remote lists.
Resolve(r) ==
    /\ pc[r] = "resolve"
    /\ tip[url[r]][ref[r]] # None
    /\ hash' = [hash EXCEPT ![r] = tip[url[r]][ref[r]]]
    /\ pc' = [pc EXCEPT ![r] = "lookup"]
    /\ UNCHANGED <<tip, store, url, ref, held, age, seen>>

\* Mutant: a hit prolongs the life of the entry.
HitAndRenew(r) ==
    /\ pc[r] = "lookup"
    /\ CacheKey(r) \in DOMAIN store[CacheOf(r)]
    /\ LET found == store[CacheOf(r)][CacheKey(r)] IN
        /\ held' = [held EXCEPT ![r] = found.value]
        /\ store' = [store EXCEPT ![CacheOf(r)] =
                        Put(@, CacheKey(r), Entry(found.value, found.age, TTL))]
    /\ hash' = [hash EXCEPT ![r] = None]
    /\ pc' = [pc EXCEPT ![r] = "done"]
    /\ UNCHANGED <<tip, url, ref, age, seen>>

\* Mutant: what was found is written again, as if it had been fetched.
HitAndStore(r) ==
    /\ pc[r] = "lookup"
    /\ CacheKey(r) \in DOMAIN store[CacheOf(r)]
    /\ held' = [held EXCEPT ![r] = store[CacheOf(r)][CacheKey(r)].value]
    /\ pc' = [pc EXCEPT ![r] = "store"]
    /\ UNCHANGED <<tip, store, url, ref, hash, age, seen>>

Hit(r) ==
    /\ pc[r] = "lookup"
    /\ CacheKey(r) \in DOMAIN store[CacheOf(r)]
    /\ held' = [held EXCEPT ![r] = store[CacheOf(r)][CacheKey(r)].value]
    /\ hash' = [hash EXCEPT ![r] = None]
    /\ pc' = [pc EXCEPT ![r] = "done"]
    /\ UNCHANGED <<tip, store, url, ref, age, seen>>

Miss(r) ==
    /\ pc[r] = "lookup"
    /\ CacheKey(r) \notin DOMAIN store[CacheOf(r)]
    /\ pc' = [pc EXCEPT ![r] = "fetch"]
    /\ UNCHANGED <<tip, store, url, ref, hash, held, age, seen>>

\* Mutant: what is cloned is the reference and not the commit it stood for.
FetchReference(r) ==
    /\ pc[r] = "fetch"
    /\ Target(url[r], ref[r]) # None
    /\ held' = [held EXCEPT ![r] = Target(url[r], ref[r])]
    /\ pc' = [pc EXCEPT ![r] = "store"]
    /\ UNCHANGED <<tip, store, url, ref, hash, age, seen>>

\* Mutant: a reference that does not exist is not an error.
FetchUnchecked(r) ==
    /\ pc[r] = "fetch"
    /\ held' = [held EXCEPT ![r] = Target(url[r], hash[r])]
    /\ pc' = [pc EXCEPT ![r] = "store"]
    /\ UNCHANGED <<tip, store, url, ref, hash, age, seen>>

\* CloneCommit: the remote serves the tree the refspec names at this moment.
Fetch(r) ==
    /\ pc[r] = "fetch"
    /\ Target(url[r], hash[r]) # None
    /\ held' = [held EXCEPT ![r] = Target(url[r], hash[r])]
    /\ pc' = [pc EXCEPT ![r] = "store"]
    /\ UNCHANGED <<tip, store, url, ref, hash, age, seen>>

\* refreshRepository writes the cache; a failing Set is only logged.
StoreAndReturn(r) ==
    /\ pc[r] = "store"
    /\ \/ store' = [store EXCEPT ![CacheOf(r)] =
                       Put(@, CacheKey(r), Entry(held[r], age[r], TTL))]
       \/ UNCHANGED store
    /\ hash' = [hash EXCEPT ![r] = None]
    /\ age' = [age EXCEPT ![r] = 0]
    /\ pc' = [pc EXCEPT ![r] = "done"]
    /\ UNCHANGED <<tip, url, ref, held, seen>>

\* The locals of some requests are gone.
Forget(requests, outcome) ==
    /\ pc' = [r \in Request |-> IF r \in requests THEN outcome ELSE pc[r]]
    /\ url' = [r \in Request |-> IF r \in requests THEN None ELSE url[r]]
    /\ ref' = [r \in Request |-> IF r \in requests THEN None ELSE ref[r]]
    /\ hash' = [r \in Request |-> IF r \in requests THEN None ELSE hash[r]]
    /\ held' = [r \in Request |-> IF r \in requests THEN None ELSE held[r]]
    /\ age' = [r \in Request |-> IF r \in requests THEN 0 ELSE age[r]]
    /\ seen' = [r \in Request |-> IF r \in requests THEN {} ELSE seen[r]]

\* The remote or its credentials fail, the reference does not exist, the
\* cache cannot be read, or the tree cannot be packed: the call returns the
\* error, without a second attempt and without touching the cache.
Fail(r) ==
    /\ pc[r] \in {"resolve", "lookup", "fetch"}
    /\ Forget({r}, "failed")
    /\ UNCHANGED <<tip, store>>

-----------------------------------------------------------------------------
\* Somebody pushes to, or deletes, a reference of a remote repository.
Push(u, n) ==
    /\ \E c \in (Commit \cup {None}) \ {tip[u][n]} :
        /\ tip' = [tip EXCEPT ![u] = [@ EXCEPT ![n] = c]]
        /\ seen' = [r \in Request |->
                       IF pc[r] \in Active /\ url[r] = u /\ ref[r] = n
                       THEN seen[r] \cup ({c} \ {None})
                       ELSE seen[r]]
    /\ UNCHANGED <<store, pc, url, ref, hash, held, age>>

\* A replica is restarted: its requests are gone, and so is its own cache.
Restart(p) ==
    /\ store' = [store EXCEPT ![p] = EmptyStore]
    /\ Forget({r \in Request : Home[r] = p}, "idle")
    /\ UNCHANGED tip

\* The Redis server loses what it holds.
LoseShared ==
    /\ store' = [store EXCEPT ![Shared] = EmptyStore]
    /\ UNCHANGED <<tip, call>>

\* Time passes, but never so much that a fetched tree waits longer than Lag
\* for its Set.
Tick ==
    /\ \A r \in Request : pc[r] = "store" => age[r] < Lag
    /\ store' = [c \in Cache |-> Aged(store[c])]
    /\ age' = [r \in Request |->
                  IF pc[r] = "store" THEN age[r] + 1 ELSE age[r]]
    /\ UNCHANGED <<tip, pc, url, ref, hash, held, seen>>

Step(r) ==
    \/ Resolve(r)
    \/ Hit(r)
    \/ Miss(r)
    \/ Fetch(r)
    \/ StoreAndReturn(r)
    \/ Fail(r)

Next ==
    \/ \E r \in Request : Call(r)
    \/ \E r \in Request : Step(r)
    \/ \E u \in Repository, n \in Name : Push(u, n)
    \/ \E p \in Replica : Restart(p)
    \/ LoseShared
    \/ Tick

Spec == Init /\ [][Next]_vars

\* A goroutine that can take a step takes it (the remote answers or fails,
\* see the README for what that assumes), and the clock does not stop.
Fairness ==
    /\ \A r \in Request : WF_vars(Step(r))
    /\ WF_vars(Tick)

FairSpec == Spec /\ Fairness

-----------------------------------------------------------------------------
\* A call that names a reference returns a tree the reference pointed to at
\* some moment between the call and its return, whatever is cached, expires,
\* is pushed or restarted meanwhile; a call with a hash returns that commit.
\* Excepted are names that are taken for a hash (git.go:133).
FreshRead ==
    \A r \in Request :
        pc[r] = "done" /\ ref[r] \notin HexName => held[r] \in seen[r]

\* The same for every name.  README.md:250 says that commit resolution makes
\* what is cached immutable; a name taken for a hash is never resolved.
EveryReadIsFresh ==
    \A r \in Request : pc[r] = "done" => held[r] \in seen[r]

\* In every cache, and so in the one the replicas share, an entry under a
\* commit hash holds the tree of that commit: it can be served at any age.
EntriesMatchTheirKey ==
    \A c \in Cache : \A k \in DOMAIN store[c] :
        k[2] \in Commit => store[c][k].value = k[2]

\* What the cache answers was served by the remote within the lifetime of an
\* entry plus the time a fetch takes to reach the cache: entries are not kept
\* alive by being read, nor written again with what was read from them.
BoundedStaleness ==
    \A c \in Cache : \A k \in DOMAIN store[c] : store[c][k].age < TTL + Lag

\* Once a repository rests, every cache comes to agree with it, even for the
\* names that are taken for a hash.
Converges ==
    <>[][tip' = tip]_tip =>
        <>[](\A c \in Cache : \A k \in DOMAIN store[c] :
                 store[c][k].value = Target(k[1], k[2]))

\* What callers are promised, as a specification of its own: a call returns
\* what its reference stood for at some moment since it began, or fails.
\* Lookups, writes, expiry and loss of cache entries are invisible to them.
Reads == INSTANCE RepositoryReads
    WITH Unresolved <- HexName,
         phase <- [r \in Request |->
             IF pc[r] \in Active THEN "active" ELSE pc[r]],
         result <- [r \in Request |->
             IF pc[r] = "done" THEN held[r] ELSE None]

ImplementsReads == Reads!Spec
=============================================================================
