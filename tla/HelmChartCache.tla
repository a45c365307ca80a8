--------------------------- MODULE HelmChartCache ---------------------------
(***************************************************************************)
(* Retrieval of Helm charts through two caches.                            *)
(*   internal/service/cache/helmchartcache.go                              *)
(*   internal/repository/helmremote/helmremote.go (GetChart)               *)
(*                                                                         *)
(* A chart of an http(s) repository is found in two stages, each with a    *)
(* cache of its own: the index names the URL and the digest of the         *)
(* archive, and the archive is cached under both.  The URL is in general   *)
(* not immutable: a chart can be uploaded again under the same version.    *)
(* A chart of an OCI registry is cached under its reference.  Repositories *)
(* upload an archive before they publish an index that mentions it.        *)
(***************************************************************************)
EXTENDS HelmIndexCache

CONSTANTS
    OCIReference,  \* oci:// URLs, with or without a tag
    HTTPChartTTL,  \* lifetime of an archive from an http(s) repository
    OCIChartTTL    \* lifetime of an archive from a registry

ASSUME ChartAssumption ==
    /\ HTTPChartTTL \in Nat \ {0}
    /\ OCIChartTTL \in Nat \ {0}
    /\ OCIReference \cap URL = {}
    /\ None \notin OCIReference

VARIABLES
    chartStore,  \* the cache of chart archives
    key,         \* local cacheKey of each request
    held         \* the archive it has obtained

vars == <<archive, index, indexStore, pc, repo, query, file, age,
          chartStore, key, held>>
remoteVars == <<archive, index>>
indexVars == <<archive, index, indexStore, repo, query, file>>

Source == URL \cup OCIReference
Key == Source \X (Upload \cup {None})

Active == {"indexLookup", "indexFetch", "indexStore", "parse", "select",
           "lookup", "fetch", "store"}

\* The lifetime of an archive depends on the kind of repository.
TTLOf(k) == IF k[1] \in OCIReference THEN OCIChartTTL ELSE HTTPChartTTL

TypeOK ==
    /\ archive \in [Source -> Upload]
    /\ index \in [Repository -> IndexFile]
    /\ IsStore(indexStore, Repository, IndexFile)
    /\ IsStore(chartStore, Key, Upload)
    /\ pc \in [Request -> Active \cup {"idle", "done", "failed"}]
    /\ repo \in [Request -> Repository \cup {None}]
    /\ query \in [Request -> Query \cup {None}]
    /\ file \in [Request -> IndexFile \cup {None}]
    /\ key \in [Request -> Key \cup {None}]
    /\ held \in [Request -> Upload \cup {None}]
    /\ age \in [Request -> Nat]

Init ==
    /\ archive = [s \in Source |-> 1]
    /\ index = [u \in Repository |-> [q \in Query |-> None]]
    /\ indexStore = EmptyStore
    /\ chartStore = EmptyStore
    /\ pc = [r \in Request |-> "idle"]
    /\ repo = [r \in Request |-> None]
    /\ query = [r \in Request |-> None]
    /\ file = [r \in Request |-> None]
    /\ key = [r \in Request |-> None]
    /\ held = [r \in Request |-> None]
    /\ age = [r \in Request |-> 0]

-----------------------------------------------------------------------------
\* RetrieveChart for an http(s) repository begins with its index.
CallHTTP(r) ==
    /\ pc[r] \notin Active
    /\ \E u \in Repository, q \in Query : RetrieveIndex(r, u, q)
    /\ key' = [key EXCEPT ![r] = None]
    /\ held' = [held EXCEPT ![r] = None]
    /\ UNCHANGED chartStore

\* RetrieveChart for a registry: the reference is the key.
CallOCI(r) ==
    /\ pc[r] \notin Active
    /\ \E o \in OCIReference : key' = [key EXCEPT ![r] = <<o, None>>]
    /\ pc' = [pc EXCEPT ![r] = "lookup"]
    /\ held' = [held EXCEPT ![r] = None]
    /\ UNCHANGED <<indexVars, age, chartStore>>

Index(r) ==
    /\ \/ IndexHit(r)
       \/ IndexMiss(r)
       \/ IndexFetch(r)
       \/ IndexStore(r)
       \/ ParseIndex(r)
    /\ UNCHANGED <<chartStore, key, held>>

\* Mutant: the digest is no part of the key.
SelectURL(r) ==
    /\ pc[r] = "select"
    /\ LET entry == file[r][query[r]] IN
        /\ entry # None
        /\ key' = [key EXCEPT ![r] = <<entry.url, None>>]
    /\ repo' = [repo EXCEPT ![r] = None]
    /\ query' = [query EXCEPT ![r] = None]
    /\ file' = [file EXCEPT ![r] = None]
    /\ pc' = [pc EXCEPT ![r] = "lookup"]
    /\ UNCHANGED <<archive, index, indexStore, age, chartStore, held>>

\* The first URL and the digest of the entry become the key.
Select(r) ==
    /\ pc[r] = "select"
    /\ LET entry == file[r][query[r]] IN
        /\ entry # None
        /\ key' = [key EXCEPT ![r] = <<entry.url, entry.digest>>]
    /\ repo' = [repo EXCEPT ![r] = None]
    /\ query' = [query EXCEPT ![r] = None]
    /\ file' = [file EXCEPT ![r] = None]
    /\ pc' = [pc EXCEPT ![r] = "lookup"]
    /\ UNCHANGED <<archive, index, indexStore, age, chartStore, held>>

\* Mutant: the digest is no part of what is looked up.
HitSameURL(r) ==
    /\ pc[r] = "lookup"
    /\ \E k \in DOMAIN chartStore :
        /\ k[1] = key[r][1]
        /\ held' = [held EXCEPT ![r] = chartStore[k].value]
    /\ pc' = [pc EXCEPT ![r] = "done"]
    /\ UNCHANGED <<indexVars, age, chartStore, key>>

Hit(r) ==
    /\ pc[r] = "lookup"
    /\ key[r] \in DOMAIN chartStore
    /\ held' = [held EXCEPT ![r] = chartStore[key[r]].value]
    /\ pc' = [pc EXCEPT ![r] = "done"]
    /\ UNCHANGED <<indexVars, age, chartStore, key>>

Miss(r) ==
    /\ pc[r] = "lookup"
    /\ key[r] \notin DOMAIN chartStore
    /\ pc' = [pc EXCEPT ![r] = "fetch"]
    /\ UNCHANGED <<indexVars, age, chartStore, key, held>>

\* Mutant: the error of GetChart is not checked.
FetchUnchecked(r) ==
    /\ pc[r] = "fetch"
    /\ \E a \in {archive[key[r][1]], None} : held' = [held EXCEPT ![r] = a]
    /\ pc' = [pc EXCEPT ![r] = "store"]
    /\ UNCHANGED <<indexVars, age, chartStore, key>>

\* GetChart: the remote serves what was uploaded last.  Nobody compares it
\* with the digest.
Fetch(r) ==
    /\ pc[r] = "fetch"
    /\ held' = [held EXCEPT ![r] = archive[key[r][1]]]
    /\ pc' = [pc EXCEPT ![r] = "store"]
    /\ UNCHANGED <<indexVars, age, chartStore, key>>

Store(r) ==
    /\ pc[r] = "store"
    /\ \/ chartStore' = Put(chartStore, key[r],
                            Entry(held[r], age[r], TTLOf(key[r])))
       \/ UNCHANGED chartStore
    /\ age' = [age EXCEPT ![r] = 0]
    /\ pc' = [pc EXCEPT ![r] = "done"]
    /\ UNCHANGED <<indexVars, key, held>>

\* The locals of some requests are gone.
Forget(requests, outcome) ==
    /\ pc' = [r \in Request |-> IF r \in requests THEN outcome ELSE pc[r]]
    /\ repo' = [r \in Request |-> IF r \in requests THEN None ELSE repo[r]]
    /\ query' = [r \in Request |-> IF r \in requests THEN None ELSE query[r]]
    /\ file' = [r \in Request |-> IF r \in requests THEN None ELSE file[r]]
    /\ key' = [r \in Request |-> IF r \in requests THEN None ELSE key[r]]
    /\ held' = [r \in Request |-> IF r \in requests THEN None ELSE held[r]]
    /\ age' = [r \in Request |-> IF r \in requests THEN 0 ELSE age[r]]

\* A cache cannot be read, a remote has no provider, cannot be reached or does
\* not have what is asked for, the index cannot be parsed or has no entry with
\* a URL: the call returns the error, and whatever is cached stays.
Fail(r) ==
    /\ \/ pc[r] \in {"indexLookup", "indexFetch", "lookup", "fetch"}
       \/ pc[r] = "parse" /\ file[r] = Malformed
       \/ pc[r] = "select" /\ file[r][query[r]] = None
    /\ Forget({r}, "failed")
    /\ UNCHANGED <<remoteVars, indexStore, chartStore>>

-----------------------------------------------------------------------------
\* Somebody uploads an archive to a URL or a registry, again.
UploadChart(s) ==
    /\ archive[s] < MaxUploads
    /\ archive' = [archive EXCEPT ![s] = @ + 1]
    /\ UNCHANGED <<index, indexStore, pc, repo, query, file, age,
                   chartStore, key, held>>

\* A repository publishes an index of archives that have been uploaded, some
\* perhaps replaced since, with or without their digests; or a broken one.
PublishIndex(u) ==
    /\ \E f \in IndexFile \ {index[u]} :
        /\ f # Malformed => \A q \in Query :
               f[q] # None => f[q].digest \in {None} \cup 1..archive[f[q].url]
        /\ index' = [index EXCEPT ![u] = f]
    /\ UNCHANGED <<archive, indexStore, pc, repo, query, file, age,
                   chartStore, key, held>>

\* The process (with caches in memory) or Redis is restarted; with the process
\* the requests it serves are gone as well.
LoseCaches ==
    /\ indexStore' = EmptyStore
    /\ chartStore' = EmptyStore
    /\ \E requests \in {{}, Request} : Forget(requests, "idle")
    /\ UNCHANGED remoteVars

Tick ==
    /\ \A r \in Request : pc[r] \in {"indexStore", "store"} => age[r] < Lag
    /\ indexStore' = Aged(indexStore)
    /\ chartStore' = Aged(chartStore)
    /\ age' = [r \in Request |->
                  IF pc[r] \in {"indexStore", "store"} THEN age[r] + 1 ELSE age[r]]
    /\ UNCHANGED <<remoteVars, pc, repo, query, file, key, held>>

Step(r) ==
    \/ Index(r)
    \/ Select(r)
    \/ Hit(r)
    \/ Miss(r)
    \/ Fetch(r)
    \/ Store(r)
    \/ Fail(r)

Next ==
    \/ \E r \in Request : CallHTTP(r)
    \/ \E r \in Request : CallOCI(r)
    \/ \E r \in Request : Step(r)
    \/ \E s \in Source : UploadChart(s)
    \/ \E u \in Repository : PublishIndex(u)
    \/ LoseCaches
    \/ Tick

Spec == Init /\ [][Next]_vars

-----------------------------------------------------------------------------
\* A chart that is returned for an index entry with a digest is never older
\* than that digest: an archive cached before the chart was uploaded again is
\* not served to those who read the new index.
NeverOlderThanDigest ==
    \A r \in Request :
        pc[r] = "done" /\ key[r][2] # None => held[r] >= key[r][2]

\* What the caches answer was served by the remote within the lifetime of the
\* entry plus the time an answer takes to reach the cache: an index, an
\* archive of an http(s) repository and one of a registry each have their own.
BoundedStaleness ==
    /\ \A u \in DOMAIN indexStore : indexStore[u].age < IndexTTL + Lag
    /\ \A k \in DOMAIN chartStore : chartStore[k].age < TTLOf(k) + Lag

-----------------------------------------------------------------------------
\* What a call has come to, for its caller, given its locals: it has found its
\* entry when it has an index that has one, and goes on with its key.
BeforeIndex == {"indexLookup", "indexFetch", "indexStore"}
AfterIndex == {"lookup", "fetch", "store"}

Progress(at, u, q, f, k, a) ==
    LET asks == [phase |-> "asking", repo |-> u, query |-> q]
        finds(url, digest) == [phase |-> "found", url |-> url, digest |-> digest]
    IN  CASE at \in BeforeIndex -> asks
          [] at \in {"parse", "select"} ->
                 IF f = Malformed \/ f[q] = None
                 THEN asks
                 ELSE finds(f[q].url, f[q].digest)
          [] at \in AfterIndex -> finds(k[1], k[2])
          [] at = "done" -> [phase |-> "done", archive |-> a]
          [] at \in {"idle", "failed"} -> [phase |-> at]

\* The two caches and the answers on their way to them are a memory of what the
\* remotes have served, of each source and each repository apart.
RememberedArchives ==
    {<<k[1], chartStore[k].value>> : k \in DOMAIN chartStore}
    \cup {<<key[r][1], held[r]>> : r \in {g \in Request : pc[g] = "store"}}

RememberedIndexes ==
    {<<u, indexStore[u].value>> : u \in DOMAIN indexStore}
    \cup {<<repo[r], file[r]>> : r \in {g \in Request : pc[g] = "indexStore"}}

\* What callers are promised, as a specification of its own: what has expired or
\* was lost does not come back, an entry is one of an index of the call's own
\* repository, and the archive is one of its URL and not older than its digest.
Reads == INSTANCE ChartReads
    WITH archives <- RememberedArchives,
         indexes <- RememberedIndexes,
         call <- [r \in Request |->
             Progress(pc[r], repo[r], query[r], file[r], key[r], held[r])]

ImplementsChartReads == Reads!Spec
=============================================================================
