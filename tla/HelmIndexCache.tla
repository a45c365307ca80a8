--------------------------- MODULE HelmIndexCache ---------------------------
(***************************************************************************)
(* Retrieval of the index of a Helm repository through its cache.          *)
(*   internal/service/cache/helmindexcache.go                              *)
(*   internal/repository/helmremote/helmremote.go (GetIndex)               *)
(*                                                                         *)
(* The module has no next-state relation of its own: RetrieveIndex is only *)
(* called by HelmChartCache, which extends this module.                    *)
(*                                                                         *)
(* The content of a chart archive is abstracted to the number of times an  *)
(* archive has been uploaded to its URL, and the digest of an archive to   *)
(* that same number.  An index file tells for every query (a chart name    *)
(* with a version or without) where the chart is and what digest it has.   *)
(***************************************************************************)
EXTENDS ByteCache

CONSTANTS
    Request,     \* goroutines that retrieve charts
    Repository,  \* URLs of http(s) repositories
    Query,       \* pairs of chart name and version, as requests ask for them
    URL,         \* URLs of chart archives
    MaxUploads,  \* bound: uploads to one URL
    IndexTTL,    \* lifetime of an index (15 minutes, in units of the clock)
    Lag,         \* bound: longest time from the remote's answer to Set
    None,        \* no entry, no digest, no argument
    Malformed    \* an index file that cannot be parsed

ASSUME IndexAssumption ==
    /\ MaxUploads \in Nat \ {0}
    /\ IndexTTL \in Nat \ {0}
    /\ Lag \in Nat
    /\ None \notin Repository \cup Query \cup URL
    /\ Malformed # None

VARIABLES
    archive,     \* the remotes: latest upload to each chart URL
    index,       \* the remotes: index file of each repository
    indexStore,  \* the cache of index files
    pc,          \* how far the retrieval of each request has come
    repo,        \* its argument RepositoryURL
    query,       \* its arguments ChartName and ChartVersion
    file,        \* the index file it has obtained
    age          \* ghost: how long a fetched answer has been waiting for Set

Upload == 1..MaxUploads

ChartEntry == [url : URL, digest : Upload \cup {None}]

IndexFile == [Query -> ChartEntry \cup {None}] \cup {Malformed}

\* RetrieveIndex is called; the key is the parsed repository URL.
RetrieveIndex(r, u, q) ==
    /\ pc' = [pc EXCEPT ![r] = "indexLookup"]
    /\ repo' = [repo EXCEPT ![r] = u]
    /\ query' = [query EXCEPT ![r] = q]
    /\ UNCHANGED <<archive, index, indexStore, file, age>>

\* Mutant: a hit prolongs the life of the entry.
IndexHitAndRenew(r) ==
    /\ pc[r] = "indexLookup"
    /\ repo[r] \in DOMAIN indexStore
    /\ LET found == indexStore[repo[r]] IN
        /\ file' = [file EXCEPT ![r] = found.value]
        /\ indexStore' = Put(indexStore, repo[r],
                             Entry(found.value, found.age, IndexTTL))
    /\ pc' = [pc EXCEPT ![r] = "parse"]
    /\ UNCHANGED <<archive, index, repo, query, age>>

IndexHit(r) ==
    /\ pc[r] = "indexLookup"
    /\ repo[r] \in DOMAIN indexStore
    /\ file' = [file EXCEPT ![r] = indexStore[repo[r]].value]
    /\ pc' = [pc EXCEPT ![r] = "parse"]
    /\ UNCHANGED <<archive, index, indexStore, repo, query, age>>

IndexMiss(r) ==
    /\ pc[r] = "indexLookup"
    /\ repo[r] \notin DOMAIN indexStore
    /\ pc' = [pc EXCEPT ![r] = "indexFetch"]
    /\ UNCHANGED <<archive, index, indexStore, repo, query, file, age>>

\* GetIndex: the remote serves the file it has at this moment.
IndexFetch(r) ==
    /\ pc[r] = "indexFetch"
    /\ file' = [file EXCEPT ![r] = index[repo[r]]]
    /\ pc' = [pc EXCEPT ![r] = "indexStore"]
    /\ UNCHANGED <<archive, index, indexStore, repo, query, age>>

\* The bytes are cached before anybody has tried to parse them; a failing Set
\* is only logged.
IndexStore(r) ==
    /\ pc[r] = "indexStore"
    /\ \/ indexStore' = Put(indexStore, repo[r],
                            Entry(file[r], age[r], IndexTTL))
       \/ UNCHANGED indexStore
    /\ age' = [age EXCEPT ![r] = 0]
    /\ pc' = [pc EXCEPT ![r] = "parse"]
    /\ UNCHANGED <<archive, index, repo, query, file>>

\* parseIndex parses cached and fetched bytes alike.  An entry without metadata
\* makes it panic: in the goroutine of a request that is recovered and answered
\* (server.go:103), and the file counts as malformed; in one of an errgroup it
\* can end the process, which is a failed request and LoseCaches.
ParseIndex(r) ==
    /\ pc[r] = "parse"
    /\ file[r] # Malformed
    /\ pc' = [pc EXCEPT ![r] = "select"]
    /\ UNCHANGED <<archive, index, indexStore, repo, query, file, age>>
=============================================================================
