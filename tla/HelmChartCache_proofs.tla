----------------------- MODULE HelmChartCache_proofs -----------------------
(***************************************************************************)
(* Proof that a chart is never older than the digest it was asked for, for *)
(* any number of requests, repositories, charts and uploads and for any    *)
(* lifetimes: whatever an index says, in whichever cache or call it is     *)
(* kept, was uploaded before, and uploads to a URL only grow newer.  From  *)
(* the same invariant, that what a cache holds is no older than its        *)
(* lifetime and the wait for its Set, and that the two caches implement    *)
(* the specification of reads (ChartReads).                                *)
(***************************************************************************)
EXTENDS HelmChartCache, ByteCache_proofs

\* An index mentions only what had been uploaded, given the uploads a.
CredibleIn(f, a) ==
    /\ f \in IndexFile
    /\ f # Malformed =>
           \A q \in Query :
               f[q] # None /\ f[q].digest # None =>
                   f[q].digest <= a[f[q].url]

\* A key with a digest stands for an upload that has been made.
SupportedIn(k, a) == k \in Key /\ (k[2] # None => k[2] <= a[k[1]])

\* An archive under a key with a digest is that upload or a later one.
Matches(k, v) == v \in Upload /\ (k[2] # None => v >= k[2])

RemotesOK == \A u \in Repository : CredibleIn(index[u], archive)

IndexesOK == \A u \in DOMAIN indexStore : CredibleIn(indexStore[u].value, archive)

ChartsOK == \A k \in DOMAIN chartStore : Matches(k, chartStore[k].value)

CallOK(r) ==
    /\ pc[r] \in {"indexLookup", "indexFetch", "indexStore", "parse", "select"}
           => repo[r] \in Repository /\ query[r] \in Query
    /\ pc[r] \in {"indexStore", "parse", "select"} => CredibleIn(file[r], archive)
    /\ pc[r] = "select" => file[r] # Malformed
    /\ pc[r] \in {"lookup", "fetch", "store", "done"} => SupportedIn(key[r], archive)
    /\ pc[r] \in {"store", "done"} => Matches(key[r], held[r])

CallsOK == \A r \in Request : CallOK(r)

Inv == TypeOK /\ RemotesOK /\ IndexesOK /\ ChartsOK /\ CallsOK

-----------------------------------------------------------------------------
USE IndexAssumption, ChartAssumption

\* Uploads only grow newer, so what was credible or supported stays so.
LEMMA StaysCredible ==
    ASSUME NEW a \in [Source -> Upload], NEW b \in [Source -> Upload],
           \A s \in Source : a[s] <= b[s],
           NEW f, CredibleIn(f, a)
    PROVE  CredibleIn(f, b)
<1> SUFFICES ASSUME f # Malformed, NEW q \in Query, f[q] # None,
                    f[q].digest # None
             PROVE  f[q].digest <= b[f[q].url]
  BY DEF CredibleIn
<1>1. f[q] \in ChartEntry
  BY DEF CredibleIn, IndexFile
<1>2. f[q].url \in Source /\ f[q].digest \in Upload
  BY <1>1 DEF ChartEntry, Source
<1>3. f[q].digest <= a[f[q].url]
  BY DEF CredibleIn
<1> QED BY <1>2, <1>3 DEF Upload

LEMMA StaysSupported ==
    ASSUME NEW a \in [Source -> Upload], NEW b \in [Source -> Upload],
           \A s \in Source : a[s] <= b[s],
           NEW k, SupportedIn(k, a)
    PROVE  SupportedIn(k, b)
<1>1. k[1] \in Source /\ k[2] \in Upload \cup {None}
  BY DEF SupportedIn, Key
<1> QED BY <1>1 DEF SupportedIn, Upload

LEMMA UploadsGrow ==
    ASSUME TypeOK, [Next]_vars
    PROVE  archive' = archive \/ \E s \in Source : UploadChart(s)
BY DEF Next, vars, CallHTTP, RetrieveIndex, CallOCI, Step, Index, IndexHit,
       IndexMiss, IndexFetch, IndexStore, ParseIndex, Select, Hit, Miss, Fetch,
       Store, Fail, PublishIndex, LoseCaches, Tick, indexVars, remoteVars

LEMMA ArchivesGrow ==
    ASSUME TypeOK, [Next]_vars
    PROVE  /\ archive' \in [Source -> Upload]
           /\ \A s \in Source : archive[s] <= archive'[s]
<1>1. archive \in [Source -> Upload]
  BY DEF TypeOK
<1>2. CASE archive' = archive
  BY <1>1, <1>2 DEF Upload
<1>3. CASE \E s \in Source : UploadChart(s)
  BY <1>1, <1>3 DEF UploadChart, Upload
<1> QED BY <1>2, <1>3, UploadsGrow

\* How the two caches change.
IndexWritten(r) ==
    /\ pc[r] = "indexStore"
    /\ indexStore' = Put(indexStore, repo[r], Entry(file[r], age[r], IndexTTL))

ChartWritten(r) ==
    /\ pc[r] = "store"
    /\ chartStore' = Put(chartStore, key[r],
                         Entry(held[r], age[r], TTLOf(key[r])))

LEMMA IndexStoreChanges ==
    ASSUME [Next]_vars
    PROVE  \/ UNCHANGED indexStore
           \/ \E r \in Request : IndexWritten(r)
           \/ indexStore' = EmptyStore
           \/ indexStore' = Aged(indexStore)
BY DEF Next, vars, CallHTTP, RetrieveIndex, CallOCI, Step, Index, IndexHit,
       IndexMiss, IndexFetch, IndexStore, ParseIndex, Select, Hit, Miss, Fetch,
       Store, Fail, UploadChart, PublishIndex, LoseCaches, Tick, indexVars,
       IndexWritten

LEMMA ChartStoreChanges ==
    ASSUME [Next]_vars
    PROVE  \/ UNCHANGED chartStore
           \/ \E r \in Request : ChartWritten(r)
           \/ chartStore' = EmptyStore
           \/ chartStore' = Aged(chartStore)
BY DEF Next, vars, CallHTTP, RetrieveIndex, CallOCI, Step, Index, IndexHit,
       IndexMiss, IndexFetch, IndexStore, ParseIndex, Select, Hit, Miss, Fetch,
       Store, Fail, UploadChart, PublishIndex, LoseCaches, Tick, indexVars,
       ChartWritten

\* The cache of indexes stays one, and holds nothing but credible indexes.
LEMMA IndexStoreInv ==
    ASSUME Inv, [Next]_vars
    PROVE  /\ IsStore(indexStore', Repository, IndexFile)
           /\ \A u \in DOMAIN indexStore' :
                  CredibleIn(indexStore'[u].value, archive)
<1>0. IsStore(indexStore, Repository, IndexFile) /\ IndexesOK
  BY DEF Inv, TypeOK
<1>1. CASE UNCHANGED indexStore
  BY <1>0, <1>1 DEF IndexesOK
<1>2. ASSUME NEW r \in Request, IndexWritten(r)
      PROVE  /\ IsStore(indexStore', Repository, IndexFile)
             /\ \A u \in DOMAIN indexStore' :
                    CredibleIn(indexStore'[u].value, archive)
  <2>1. repo[r] \in Repository /\ CredibleIn(file[r], archive) /\ age[r] \in Nat
    BY <1>2 DEF IndexWritten, Inv, CallsOK, CallOK, TypeOK
  <2>2. file[r] \in IndexFile
    BY <2>1 DEF CredibleIn
  <2>3. indexStore' = Put(indexStore, repo[r], Entry(file[r], age[r], IndexTTL))
    BY <1>2 DEF IndexWritten
  <2>4. /\ IsStore(indexStore', Repository, IndexFile)
        /\ DOMAIN indexStore' = DOMAIN indexStore \cup {repo[r]}
        /\ indexStore'[repo[r]] = Entry(file[r], age[r], IndexTTL)
        /\ \A l \in DOMAIN indexStore \ {repo[r]} : indexStore'[l] = indexStore[l]
    BY <1>0, <2>1, <2>2, <2>3, PutIsStore
  <2> QED BY <1>0, <2>1, <2>4 DEF IndexesOK, Entry
<1>3. CASE indexStore' = EmptyStore
  BY <1>3, EmptyStoreIsStore
<1>4. CASE indexStore' = Aged(indexStore)
  <2>1. /\ IsStore(indexStore', Repository, IndexFile)
        /\ \A u \in DOMAIN indexStore' :
              u \in DOMAIN indexStore /\ indexStore'[u].value = indexStore[u].value
    BY <1>0, <1>4, AgedIsStore
  <2> QED BY <1>0, <2>1 DEF IndexesOK
<1> QED BY <1>1, <1>2, <1>3, <1>4, IndexStoreChanges

\* The cache of charts stays one, and every archive matches its key.
LEMMA ChartStoreInv ==
    ASSUME Inv, [Next]_vars
    PROVE  IsStore(chartStore', Key, Upload) /\ ChartsOK'
<1>0. IsStore(chartStore, Key, Upload) /\ ChartsOK
  BY DEF Inv, TypeOK
<1>1. CASE UNCHANGED chartStore
  BY <1>0, <1>1 DEF ChartsOK
<1>2. ASSUME NEW r \in Request, ChartWritten(r)
      PROVE  IsStore(chartStore', Key, Upload) /\ ChartsOK'
  <2>1. /\ SupportedIn(key[r], archive)
        /\ Matches(key[r], held[r])
        /\ age[r] \in Nat
    BY <1>2 DEF ChartWritten, Inv, CallsOK, CallOK, TypeOK
  <2>2. key[r] \in Key /\ held[r] \in Upload
    BY <2>1 DEF SupportedIn, Matches
  <2> PICK ttl \in Nat \ {0} : ttl = TTLOf(key[r])
    BY DEF TTLOf
  <2>3. chartStore' = Put(chartStore, key[r], Entry(held[r], age[r], ttl))
    BY <1>2 DEF ChartWritten
  <2>4. /\ IsStore(chartStore', Key, Upload)
        /\ DOMAIN chartStore' = DOMAIN chartStore \cup {key[r]}
        /\ chartStore'[key[r]] = Entry(held[r], age[r], ttl)
        /\ \A l \in DOMAIN chartStore \ {key[r]} : chartStore'[l] = chartStore[l]
    <3>1. ASSUME NEW k \in Key, NEW v \in Upload, NEW a \in Nat,
                 chartStore' = Put(chartStore, k, Entry(v, a, ttl))
          PROVE  /\ IsStore(chartStore', Key, Upload)
                 /\ DOMAIN chartStore' = DOMAIN chartStore \cup {k}
                 /\ chartStore'[k] = Entry(v, a, ttl)
                 /\ \A l \in DOMAIN chartStore \ {k} :
                        chartStore'[l] = chartStore[l]
      BY <1>0, <3>1, PutIsStore
    <3> QED BY <2>1, <2>2, <2>3, <3>1
  <2> QED BY <1>0, <2>1, <2>4 DEF ChartsOK, Entry
<1>3. CASE chartStore' = EmptyStore
  BY <1>3, EmptyStoreIsStore DEF ChartsOK
<1>4. CASE chartStore' = Aged(chartStore)
  <2>1. /\ IsStore(chartStore', Key, Upload)
        /\ \A k \in DOMAIN chartStore' :
              k \in DOMAIN chartStore /\ chartStore'[k].value = chartStore[k].value
    BY <1>0, <1>4, AgedIsStore
  <2> QED BY <1>0, <2>1 DEF ChartsOK
<1> QED BY <1>1, <1>2, <1>3, <1>4, ChartStoreChanges

-----------------------------------------------------------------------------
\* The variables that are not caches keep their types.
LocalTypes ==
    /\ pc \in [Request -> Active \cup {"idle", "done", "failed"}]
    /\ repo \in [Request -> Repository \cup {None}]
    /\ query \in [Request -> Query \cup {None}]
    /\ file \in [Request -> IndexFile \cup {None}]
    /\ key \in [Request -> Key \cup {None}]
    /\ held \in [Request -> Upload \cup {None}]
    /\ age \in [Request -> Nat]

\* What an action that serves one call does to the calls: the others keep
\* their locals, and this one is in order afterwards.
Serves(r) ==
    /\ \A g \in Request \ {r} :
           /\ pc'[g] = pc[g]
           /\ repo'[g] = repo[g]
           /\ query'[g] = query[g]
           /\ file'[g] = file[g]
           /\ key'[g] = key[g]
           /\ held'[g] = held[g]
    /\ archive' = archive
    /\ CallOK(r)'

\* What the actions of the environment do to the calls: nothing, or the locals
\* of some calls are gone.
Idles ==
    \A g \in Request :
        \/ pc'[g] = "idle"
        \/ /\ pc'[g] = pc[g]
           /\ repo'[g] = repo[g]
           /\ query'[g] = query[g]
           /\ file'[g] = file[g]
           /\ key'[g] = key[g]
           /\ held'[g] = held[g]

\* An entry of a credible index makes a supported key.
LEMMA EntryIsSupported ==
    ASSUME NEW a \in [Source -> Upload], NEW f, CredibleIn(f, a),
           f # Malformed, NEW q \in Query, f[q] # None,
           NEW k, k = <<f[q].url, f[q].digest>>
    PROVE  SupportedIn(k, a)
<1>1. f[q] \in ChartEntry
  BY DEF CredibleIn, IndexFile
<1> QED BY <1>1 DEF SupportedIn, CredibleIn, ChartEntry, Key, Source

\* Every step of a call keeps the types and leaves the call in order.
LEMMA CallStep ==
    ASSUME Inv, NEW r \in Request, CallHTTP(r) \/ CallOCI(r) \/ Step(r)
    PROVE  LocalTypes' /\ Serves(r)
<1> USE DEF LocalTypes, Serves, CallOK, Active
<1>0. TypeOK /\ CallOK(r) /\ LocalTypes
  BY DEF Inv, CallsOK, TypeOK
<1>1. CASE CallHTTP(r)
  BY <1>0, <1>1 DEF CallHTTP, RetrieveIndex
<1>2. CASE CallOCI(r)
  <2>1. PICK o \in OCIReference : key' = [key EXCEPT ![r] = <<o, None>>]
    BY <1>2 DEF CallOCI
  <2>2. <<o, None>> \in Key /\ SupportedIn(<<o, None>>, archive)
    BY DEF Key, Source, SupportedIn
  <2> QED BY <1>0, <1>2, <2>1, <2>2 DEF CallOCI, indexVars
<1>3. CASE IndexHit(r) /\ UNCHANGED <<chartStore, key, held>>
  <2>1. CredibleIn(indexStore[repo[r]].value, archive)
    BY <1>3 DEF Inv, IndexesOK, IndexHit
  <2>2. indexStore[repo[r]].value \in IndexFile
    BY <2>1 DEF CredibleIn
  <2> QED BY <1>0, <1>3, <2>1, <2>2 DEF IndexHit
<1>4. CASE IndexMiss(r) /\ UNCHANGED <<chartStore, key, held>>
  BY <1>0, <1>4 DEF IndexMiss
<1>5. CASE IndexFetch(r) /\ UNCHANGED <<chartStore, key, held>>
  <2>1. CredibleIn(index[repo[r]], archive)
    BY <1>0, <1>5 DEF Inv, RemotesOK, IndexFetch
  <2>2. index[repo[r]] \in IndexFile
    BY <2>1 DEF CredibleIn
  <2> QED BY <1>0, <1>5, <2>1, <2>2 DEF IndexFetch
<1>6. CASE IndexStore(r) /\ UNCHANGED <<chartStore, key, held>>
  BY <1>0, <1>6 DEF IndexStore
<1>7. CASE ParseIndex(r) /\ UNCHANGED <<chartStore, key, held>>
  BY <1>0, <1>7 DEF ParseIndex
<1>8. CASE Select(r)
  <2> PICK k : k = <<file[r][query[r]].url, file[r][query[r]].digest>>
    OBVIOUS
  <2>1. archive \in [Source -> Upload]
    BY <1>0 DEF TypeOK
  <2>2. SupportedIn(k, archive)
    BY <1>0, <1>8, <2>1, EntryIsSupported DEF Select
  <2>3. k \in Key
    BY <2>2 DEF SupportedIn
  <2>4. key' = [key EXCEPT ![r] = k]
    BY <1>8 DEF Select
  <2> QED BY <1>0, <1>8, <2>2, <2>3, <2>4 DEF Select
<1>9. CASE Hit(r)
  <2>1. Matches(key[r], chartStore[key[r]].value)
    BY <1>9 DEF Inv, ChartsOK, Hit
  <2>2. chartStore[key[r]].value \in Upload
    BY <2>1 DEF Matches
  <2> QED BY <1>0, <1>9, <2>1, <2>2 DEF Hit, indexVars
<1>10. CASE Miss(r)
  BY <1>0, <1>10 DEF Miss, indexVars
<1>11. CASE Fetch(r)
  <2>1. SupportedIn(key[r], archive) /\ archive \in [Source -> Upload]
    BY <1>0, <1>11 DEF Fetch, TypeOK
  <2>2. archive[key[r][1]] \in Upload /\ Matches(key[r], archive[key[r][1]])
    BY <2>1 DEF SupportedIn, Matches, Key
  <2> QED BY <1>0, <1>11, <2>1, <2>2 DEF Fetch, indexVars
<1>12. CASE Store(r)
  BY <1>0, <1>12 DEF Store, indexVars
<1>13. CASE Fail(r)
  BY <1>0, <1>13 DEF Fail, Forget, remoteVars
<1> QED
  BY <1>1, <1>2, <1>3, <1>4, <1>5, <1>6, <1>7, <1>8, <1>9, <1>10, <1>11,
     <1>12, <1>13
  DEF Step, Index

\* Every step of the environment keeps the types and the calls.
LEMMA EnvironmentStep ==
    ASSUME Inv,
           \/ \E s \in Source : UploadChart(s)
           \/ \E u \in Repository : PublishIndex(u)
           \/ LoseCaches
           \/ Tick
           \/ UNCHANGED vars
    PROVE  LocalTypes' /\ Idles
<1> USE DEF LocalTypes, Idles, Active
<1>0. LocalTypes
  BY DEF Inv, TypeOK
<1>1. CASE \E s \in Source : UploadChart(s)
  BY <1>0, <1>1 DEF UploadChart
<1>2. CASE \E u \in Repository : PublishIndex(u)
  BY <1>0, <1>2 DEF PublishIndex
<1>3. CASE LoseCaches
  BY <1>0, <1>3 DEF LoseCaches, Forget
<1>4. CASE Tick
  BY <1>0, <1>4 DEF Tick
<1>5. CASE UNCHANGED vars
  BY <1>0, <1>5 DEF vars
<1> QED BY <1>1, <1>2, <1>3, <1>4, <1>5

\* Calls that are left alone stay in order while uploads grow newer.
LEMMA OthersStayOK ==
    ASSUME Inv, [Next]_vars, NEW g \in Request,
           pc'[g] = pc[g], repo'[g] = repo[g], query'[g] = query[g],
           file'[g] = file[g], key'[g] = key[g], held'[g] = held[g]
    PROVE  CallOK(g)'
<1>1. archive \in [Source -> Upload] /\ CallOK(g)
  BY DEF Inv, TypeOK, CallsOK
<1>2. /\ archive' \in [Source -> Upload]
      /\ \A s \in Source : archive[s] <= archive'[s]
  BY ArchivesGrow DEF Inv
<1>3. CredibleIn(file[g], archive) => CredibleIn(file[g], archive')
  BY <1>1, <1>2, StaysCredible
<1>4. SupportedIn(key[g], archive) => SupportedIn(key[g], archive')
  BY <1>1, <1>2, StaysSupported
<1> QED BY <1>1, <1>3, <1>4 DEF CallOK

\* What the remotes serve stays credible.
LEMMA RemotesStayOK ==
    ASSUME Inv, [Next]_vars
    PROVE  index' \in [Repository -> IndexFile] /\ RemotesOK'
<1>1. archive \in [Source -> Upload] /\ index \in [Repository -> IndexFile]
  BY DEF Inv, TypeOK
<1>2. /\ archive' \in [Source -> Upload]
      /\ \A s \in Source : archive[s] <= archive'[s]
  BY ArchivesGrow DEF Inv
<1>3. CASE index' = index
  <2>1. ASSUME NEW u \in Repository PROVE CredibleIn(index'[u], archive')
    BY <1>1, <1>2, <1>3, StaysCredible DEF Inv, RemotesOK
  <2> QED BY <1>1, <1>3, <2>1 DEF RemotesOK
<1>4. ASSUME NEW u \in Repository, PublishIndex(u)
      PROVE  index' \in [Repository -> IndexFile] /\ RemotesOK'
  <2>1. PICK f \in IndexFile :
            /\ f # Malformed => \A q \in Query :
                   f[q] # None => f[q].digest \in {None} \cup 1..archive[f[q].url]
            /\ index' = [index EXCEPT ![u] = f]
            /\ archive' = archive
    BY <1>4 DEF PublishIndex
  <2>2. CredibleIn(f, archive)
    <3> SUFFICES ASSUME f # Malformed, NEW q \in Query, f[q] # None,
                        f[q].digest # None
                 PROVE  f[q].digest <= archive[f[q].url]
      BY DEF CredibleIn
    <3>1. f[q] \in ChartEntry
      BY DEF IndexFile
    <3>2. archive[f[q].url] \in Upload
      BY <1>1, <3>1 DEF ChartEntry, Source
    <3>3. f[q].digest \in 1..archive[f[q].url]
      BY <2>1
    <3> QED BY <3>2, <3>3 DEF Upload
  <2> QED BY <1>1, <2>1, <2>2 DEF Inv, RemotesOK
<1>5. index' = index \/ \E u \in Repository : PublishIndex(u)
  BY DEF Next, vars, CallHTTP, RetrieveIndex, CallOCI, Step, Index, IndexHit,
         IndexMiss, IndexFetch, IndexStore, ParseIndex, Select, Hit, Miss,
         Fetch, Store, Fail, UploadChart, LoseCaches, Tick, indexVars, remoteVars
<1> QED BY <1>3, <1>4, <1>5

LEMMA InitInv == Init => Inv
<1> SUFFICES ASSUME Init PROVE Inv
  OBVIOUS
<1>1. TypeOK
  <2>1. archive \in [Source -> Upload]
    BY DEF Init, Upload
  <2>2. index \in [Repository -> IndexFile]
    BY DEF Init, IndexFile
  <2>3. IsStore(indexStore, Repository, IndexFile) /\ IsStore(chartStore, Key, Upload)
    BY EmptyStoreIsStore DEF Init
  <2> QED BY <2>1, <2>2, <2>3 DEF Init, TypeOK
<1>2. RemotesOK
  <2>1. ASSUME NEW u \in Repository PROVE CredibleIn(index[u], archive)
    BY DEF Init, CredibleIn, IndexFile
  <2> QED BY <2>1 DEF RemotesOK
<1>3. IndexesOK /\ ChartsOK
  BY EmptyStoreIsStore DEF Init, IndexesOK, ChartsOK
<1>4. CallsOK
  BY DEF Init, CallsOK, CallOK
<1> QED BY <1>1, <1>2, <1>3, <1>4 DEF Inv

\* The invariant is inductive: the caches and the remotes by their lemmas, the
\* calls by what a step does to its own call and to the others.
LEMMA NextInv == Inv /\ [Next]_vars => Inv'
<1> SUFFICES ASSUME Inv, [Next]_vars PROVE Inv'
  OBVIOUS
<1>1. archive \in [Source -> Upload] /\ archive' \in [Source -> Upload]
      /\ \A s \in Source : archive[s] <= archive'[s]
  BY ArchivesGrow DEF Inv, TypeOK
<1>2. index' \in [Repository -> IndexFile] /\ RemotesOK'
  BY RemotesStayOK
<1>3. IsStore(chartStore', Key, Upload) /\ ChartsOK'
  BY ChartStoreInv
<1>4. IsStore(indexStore', Repository, IndexFile) /\ IndexesOK'
  <2>1. ASSUME NEW u \in DOMAIN indexStore'
        PROVE  CredibleIn(indexStore'[u].value, archive')
    BY <1>1, IndexStoreInv, StaysCredible
  <2> QED BY <2>1, IndexStoreInv DEF IndexesOK
<1>5. LocalTypes' /\ CallsOK'
  <2>1. ASSUME NEW r \in Request, CallHTTP(r) \/ CallOCI(r) \/ Step(r)
        PROVE  LocalTypes' /\ CallsOK'
    BY <2>1, CallStep, OthersStayOK DEF Serves, CallsOK
  <2>2. ASSUME \/ \E s \in Source : UploadChart(s)
               \/ \E u \in Repository : PublishIndex(u)
               \/ LoseCaches
               \/ Tick
               \/ UNCHANGED vars
        PROVE  LocalTypes' /\ CallsOK'
    <3>1. LocalTypes' /\ Idles
      BY <2>2, EnvironmentStep
    <3>2. ASSUME NEW g \in Request PROVE CallOK(g)'
      <4>1. CASE pc'[g] = "idle"
        BY <4>1 DEF CallOK
      <4> QED BY <3>1, <4>1, OthersStayOK DEF Idles
    <3> QED BY <3>1, <3>2 DEF CallsOK
  <2> QED BY <2>1, <2>2 DEF Next
<1> QED BY <1>1, <1>2, <1>3, <1>4, <1>5 DEF Inv, TypeOK, LocalTypes

\* The inductive invariant holds in every state of every behaviour.
THEOREM Invariance == Spec => []Inv
BY InitInv, NextInv, PTL DEF Spec

\* Every variable and both caches keep their types.
THEOREM TypeCorrectness == Spec => []TypeOK
<1>1. Inv => TypeOK
  BY DEF Inv
<1> QED BY <1>1, Invariance, PTL

\* A chart returned for an index entry with a digest is that upload or a later
\* one: no cache brings back what was replaced before the index was written.
THEOREM ChartsAreNotOld == Spec => []NeverOlderThanDigest
<1>1. Inv => NeverOlderThanDigest
  BY DEF Inv, CallsOK, CallOK, Matches, NeverOlderThanDigest
<1> QED BY <1>1, Invariance, PTL

-----------------------------------------------------------------------------
\* A fetched answer waits for its Set no longer than Lag, and an answer that
\* does not wait has not aged.
WaitsAreShort ==
    \A r \in Request :
        IF pc[r] \in {"indexStore", "store"} THEN age[r] <= Lag ELSE age[r] = 0

\* The age of an entry and the time it has left make up its lifetime and the
\* time it waited for Set, at most.
IndexesExpire ==
    \A u \in DOMAIN indexStore :
        indexStore[u].age + indexStore[u].left <= IndexTTL + Lag

ChartsExpire ==
    \A k \in DOMAIN chartStore :
        chartStore[k].age + chartStore[k].left <= TTLOf(k) + Lag

AgeInv == WaitsAreShort /\ IndexesExpire /\ ChartsExpire

LEMMA WaitsStayShort ==
    ASSUME TypeOK, WaitsAreShort, [Next]_vars
    PROVE  WaitsAreShort'
<1> USE DEF WaitsAreShort, Active
<1>0. age \in [Request -> Nat]
      /\ pc \in [Request -> Active \cup {"idle", "done", "failed"}]
  BY DEF TypeOK
<1>1. ASSUME NEW r \in Request, CallHTTP(r) \/ CallOCI(r)
      PROVE  WaitsAreShort'
  BY <1>0, <1>1 DEF CallHTTP, RetrieveIndex, CallOCI
<1>2. ASSUME NEW r \in Request, Index(r)
      PROVE  WaitsAreShort'
  BY <1>0, <1>2 DEF Index, IndexHit, IndexMiss, IndexFetch, IndexStore, ParseIndex
<1>3. ASSUME NEW r \in Request,
             Select(r) \/ Hit(r) \/ Miss(r) \/ Fetch(r) \/ Store(r)
      PROVE  WaitsAreShort'
  BY <1>0, <1>3 DEF Select, Hit, Miss, Fetch, Store
<1>4. ASSUME NEW r \in Request, Fail(r)
      PROVE  WaitsAreShort'
  BY <1>0, <1>4 DEF Fail, Forget
<1>5. CASE LoseCaches
  BY <1>0, <1>5 DEF LoseCaches, Forget
<1>6. CASE Tick
  BY <1>0, <1>6 DEF Tick
<1>7. CASE UNCHANGED <<pc, age>>
  BY <1>7
<1> QED
  BY <1>1, <1>2, <1>3, <1>4, <1>5, <1>6, <1>7
  DEF Next, Step, UploadChart, PublishIndex, vars

LEMMA IndexesStillExpire ==
    ASSUME Inv, WaitsAreShort, IndexesExpire, [Next]_vars
    PROVE  IndexesExpire'
<1> USE DEF IndexesExpire
<1>0. IsStore(indexStore, Repository, IndexFile)
  BY DEF Inv, TypeOK
<1>1. CASE UNCHANGED indexStore
  BY <1>1
<1>2. ASSUME NEW r \in Request, IndexWritten(r)
      PROVE  IndexesExpire'
  <2>1. /\ repo[r] \in Repository /\ file[r] \in IndexFile
        /\ age[r] \in Nat /\ age[r] <= Lag
    BY <1>2 DEF IndexWritten, Inv, CallsOK, CallOK, TypeOK, CredibleIn,
                WaitsAreShort
  <2>2. indexStore' = Put(indexStore, repo[r], Entry(file[r], age[r], IndexTTL))
    BY <1>2 DEF IndexWritten
  <2>3. /\ DOMAIN indexStore' = DOMAIN indexStore \cup {repo[r]}
        /\ indexStore'[repo[r]] = Entry(file[r], age[r], IndexTTL)
        /\ \A l \in DOMAIN indexStore \ {repo[r]} : indexStore'[l] = indexStore[l]
    BY <1>0, <2>1, <2>2, PutIsStore
  <2>4. age[r] + IndexTTL <= IndexTTL + Lag
    BY <2>1
  <2> QED BY <2>3, <2>4 DEF Entry
<1>3. CASE indexStore' = EmptyStore
  BY <1>3, EmptyStoreIsStore
<1>4. CASE indexStore' = Aged(indexStore)
  <2> SUFFICES ASSUME NEW u \in DOMAIN indexStore'
               PROVE  indexStore'[u].age + indexStore'[u].left <= IndexTTL + Lag
    OBVIOUS
  <2>1. /\ IsStore(indexStore', Repository, IndexFile)
        /\ \A l \in DOMAIN indexStore' :
            /\ l \in DOMAIN indexStore
            /\ indexStore'[l].age = indexStore[l].age + 1
            /\ indexStore'[l].left = indexStore[l].left - 1
    BY <1>0, <1>4, AgedIsStore
  <2>2. indexStore[u].age \in Nat /\ indexStore[u].left \in Nat
    BY <1>0, <2>1 DEF IsStore
  <2> QED BY <2>1, <2>2
<1> QED BY <1>1, <1>2, <1>3, <1>4, IndexStoreChanges

LEMMA ChartsStillExpire ==
    ASSUME Inv, WaitsAreShort, ChartsExpire, [Next]_vars
    PROVE  ChartsExpire'
<1> USE DEF ChartsExpire
<1>0. IsStore(chartStore, Key, Upload)
  BY DEF Inv, TypeOK
<1>1. CASE UNCHANGED chartStore
  BY <1>1
<1>2. ASSUME NEW r \in Request, ChartWritten(r)
      PROVE  ChartsExpire'
  <2> PICK k \in Key, v \in Upload : k = key[r] /\ v = held[r]
    BY <1>2 DEF ChartWritten, Inv, CallsOK, CallOK, SupportedIn, Matches
  <2> PICK ttl \in Nat \ {0} : ttl = TTLOf(k)
    BY DEF TTLOf
  <2>1. age[r] \in Nat /\ age[r] <= Lag
    BY <1>2 DEF ChartWritten, Inv, TypeOK, WaitsAreShort
  <2>2. chartStore' = Put(chartStore, k, Entry(v, age[r], ttl))
    BY <1>2 DEF ChartWritten
  <2>3. /\ DOMAIN chartStore' = DOMAIN chartStore \cup {k}
        /\ chartStore'[k] = Entry(v, age[r], ttl)
        /\ \A l \in DOMAIN chartStore \ {k} : chartStore'[l] = chartStore[l]
    <3>1. ASSUME NEW a \in Nat, chartStore' = Put(chartStore, k, Entry(v, a, ttl))
          PROVE  /\ IsStore(chartStore', Key, Upload)
                 /\ DOMAIN chartStore' = DOMAIN chartStore \cup {k}
                 /\ chartStore'[k] = Entry(v, a, ttl)
                 /\ \A l \in DOMAIN chartStore \ {k} :
                        chartStore'[l] = chartStore[l]
      BY <1>0, <3>1, PutIsStore
    <3> QED BY <2>1, <2>2, <3>1
  <2>4. age[r] + ttl <= TTLOf(k) + Lag
    BY <2>1
  <2> QED BY <2>3, <2>4 DEF Entry
<1>3. CASE chartStore' = EmptyStore
  BY <1>3, EmptyStoreIsStore
<1>4. CASE chartStore' = Aged(chartStore)
  <2> SUFFICES ASSUME NEW k \in DOMAIN chartStore'
               PROVE  chartStore'[k].age + chartStore'[k].left <= TTLOf(k) + Lag
    OBVIOUS
  <2>1. /\ IsStore(chartStore', Key, Upload)
        /\ \A l \in DOMAIN chartStore' :
            /\ l \in DOMAIN chartStore
            /\ chartStore'[l].age = chartStore[l].age + 1
            /\ chartStore'[l].left = chartStore[l].left - 1
    BY <1>0, <1>4, AgedIsStore
  <2>2. chartStore[k].age \in Nat /\ chartStore[k].left \in Nat
    BY <1>0, <2>1 DEF IsStore
  <2> QED BY <2>1, <2>2
<1> QED BY <1>1, <1>2, <1>3, <1>4, ChartStoreChanges

\* No cache answers with what the remote served longer ago than the lifetime
\* of the entry and the time an answer takes to reach the cache.
THEOREM StalenessIsBounded == Spec => []BoundedStaleness
<1>1. Init => AgeInv
  BY EmptyStoreIsStore DEF Init, AgeInv, WaitsAreShort, IndexesExpire, ChartsExpire
<1>2. Inv /\ AgeInv /\ [Next]_vars => AgeInv'
  BY WaitsStayShort, IndexesStillExpire, ChartsStillExpire DEF AgeInv, Inv
<1>3. Inv /\ AgeInv => BoundedStaleness
  <2> SUFFICES ASSUME Inv, AgeInv PROVE BoundedStaleness
    OBVIOUS
  <2>1. ASSUME NEW u \in DOMAIN indexStore
        PROVE  indexStore[u].age < IndexTTL + Lag
    <3>1. indexStore[u].age \in Nat /\ indexStore[u].left \in Nat \ {0}
      BY DEF Inv, TypeOK, IsStore
    <3> QED BY <3>1 DEF AgeInv, IndexesExpire
  <2>2. ASSUME NEW k \in DOMAIN chartStore
        PROVE  chartStore[k].age < TTLOf(k) + Lag
    <3>1. chartStore[k].age \in Nat /\ chartStore[k].left \in Nat \ {0}
      BY DEF Inv, TypeOK, IsStore
    <3>2. TTLOf(k) \in Nat
      BY DEF TTLOf
    <3> QED BY <3>1, <3>2 DEF AgeInv, ChartsExpire
  <2> QED BY <2>1, <2>2 DEF BoundedStaleness
<1> QED BY <1>1, <1>2, <1>3, Invariance, PTL DEF Spec

-----------------------------------------------------------------------------
(* The specification of reads.                                             *)

\* What a caller sees of a call, by how far it has come.
LEMMA ProgressIs ==
    ASSUME NEW at, NEW u, NEW q, NEW f, NEW k, NEW a
    PROVE  LET p == Progress(at, u, q, f, k, a) IN
           /\ at \in BeforeIndex => p = Reads!Asks(u, q)
           /\ at \in {"parse", "select"} /\ (f = Malformed \/ f[q] = None) =>
                  p = Reads!Asks(u, q)
           /\ at \in {"parse", "select"} /\ f # Malformed /\ f[q] # None =>
                  p = Reads!Finds(f[q].url, f[q].digest)
           /\ at \in AfterIndex => p = Reads!Finds(k[1], k[2])
           /\ at = "done" => p = Reads!Returns(a)
           /\ at \in {"idle", "failed"} => p = Reads!Ended(at)
<1>1. CASE at \in BeforeIndex
  BY <1>1 DEF BeforeIndex, AfterIndex, Progress, Reads!Asks
<1>2. CASE at \in {"parse", "select"}
  BY <1>2 DEF BeforeIndex, AfterIndex, Progress, Reads!Asks, Reads!Finds
<1>3. CASE at \in AfterIndex
  BY <1>3 DEF BeforeIndex, AfterIndex, Progress, Reads!Finds
<1>4. CASE at \in {"done", "idle", "failed"}
  BY <1>4 DEF BeforeIndex, AfterIndex, Progress, Reads!Returns, Reads!Ended
<1> QED
  BY <1>1, <1>2, <1>3, <1>4

\* What is remembered of the sources.
LEMMA ArchivesAre ==
    \A m : m \in RememberedArchives <=>
        \/ \E k \in DOMAIN chartStore : m = <<k[1], chartStore[k].value>>
        \/ \E r \in Request : pc[r] = "store" /\ m = <<key[r][1], held[r]>>
BY DEF RememberedArchives

\* What is remembered of the repositories.
LEMMA IndexesAre ==
    \A m : m \in RememberedIndexes <=>
        \/ \E u \in DOMAIN indexStore : m = <<u, indexStore[u].value>>
        \/ \E r \in Request : pc[r] = "indexStore" /\ m = <<repo[r], file[r]>>
BY DEF RememberedIndexes

\* What waits for its Set has been waiting before, or was served just now.
LEMMA AnswersWait ==
    ASSUME Inv, [Next]_vars, NEW r \in Request
    PROVE  /\ pc'[r] = "store" =>
                  /\ key'[r] = key[r]
                  /\ \/ pc[r] = "store" /\ held'[r] = held[r]
                     \/ pc[r] = "fetch" /\ held'[r] = archive[key[r][1]]
           /\ pc'[r] = "indexStore" =>
                  /\ repo'[r] = repo[r]
                  /\ \/ pc[r] = "indexStore" /\ file'[r] = file[r]
                     \/ pc[r] = "indexFetch" /\ file'[r] = index[repo[r]]
<1>0. LocalTypes
  BY DEF Inv, TypeOK, LocalTypes
<1>1. ASSUME NEW g \in Request, CallHTTP(g) \/ CallOCI(g) \/ Step(g), g # r
      PROVE  /\ pc'[r] = pc[r] /\ key'[r] = key[r] /\ held'[r] = held[r]
             /\ repo'[r] = repo[r] /\ file'[r] = file[r]
  BY <1>1, CallStep DEF Serves
<1>2. CASE CallHTTP(r) \/ CallOCI(r)
  BY <1>0, <1>2 DEF CallHTTP, RetrieveIndex, CallOCI, LocalTypes
<1>3. CASE Step(r)
  BY <1>0, <1>3 DEF Step, Index, IndexHit, IndexMiss, IndexFetch, IndexStore, ParseIndex,
     Select, Hit, Miss, Fetch, Store, Fail, Forget, LocalTypes, indexVars
<1>4. CASE \/ \E s \in Source : UploadChart(s)
           \/ \E u \in Repository : PublishIndex(u)
           \/ LoseCaches
           \/ Tick
           \/ UNCHANGED vars
  BY <1>4, EnvironmentStep DEF Idles
<1> QED
  BY <1>1, <1>2, <1>3, <1>4 DEF Next

\* No step adds to the memory of archives what is not served at that moment.
LEMMA ArchivesMemory ==
    ASSUME Inv, [Next]_vars
    PROVE  RememberedArchives' \subseteq
               RememberedArchives \cup {<<s, archive[s]>> : s \in Source}
<1>0. IsStore(chartStore, Key, Upload)
  BY DEF Inv, TypeOK
<1>1. ASSUME NEW k \in DOMAIN chartStore'
      PROVE  <<k[1], chartStore'[k].value>> \in RememberedArchives
  <2>1. CASE UNCHANGED chartStore
    BY <1>1, <2>1, ArchivesAre
  <2>2. ASSUME NEW r \in Request, ChartWritten(r)
        PROVE  <<k[1], chartStore'[k].value>> \in RememberedArchives
    <3> PICK c, v : c = key[r] /\ v = held[r]
      OBVIOUS
    <3>1. pc[r] = "store" /\ <<c[1], v>> \in RememberedArchives
      BY <2>2, ArchivesAre DEF ChartWritten
    <3>2. chartStore' = Put(chartStore, c, Entry(v, age[r], TTLOf(c)))
      BY <2>2 DEF ChartWritten
    <3>3. k \in DOMAIN chartStore \cup {c}
      BY <1>1, <3>2 DEF Put
    <3>4. CASE k = c
      <4>1. chartStore'[k].value = v
        BY <3>2, <3>4 DEF Put, Entry
      <4> QED BY <3>1, <3>4, <4>1
    <3>5. CASE k # c
      <4>1. k \in DOMAIN chartStore /\ chartStore'[k] = chartStore[k]
        BY <3>2, <3>3, <3>5 DEF Put
      <4> QED BY <4>1, ArchivesAre
    <3> QED BY <3>4, <3>5
  <2>3. CASE chartStore' = EmptyStore
    BY <1>1, <2>3 DEF EmptyStore
  <2>4. CASE chartStore' = Aged(chartStore)
    <3>1. /\ IsStore(chartStore', Key, Upload)
          /\ \A l \in DOMAIN chartStore' :
                l \in DOMAIN chartStore /\ chartStore'[l].value = chartStore[l].value
      BY <1>0, <2>4, AgedIsStore
    <3> QED BY <1>1, <3>1, ArchivesAre
  <2> QED BY <2>1, <2>2, <2>3, <2>4, ChartStoreChanges
<1>2. ASSUME NEW r \in Request, pc'[r] = "store"
      PROVE  <<key'[r][1], held'[r]>> \in
                 RememberedArchives \cup {<<s, archive[s]>> : s \in Source}
  <2>1. CASE pc[r] = "store" /\ held'[r] = held[r] /\ key'[r] = key[r]
    BY <2>1, ArchivesAre
  <2>2. CASE pc[r] = "fetch" /\ held'[r] = archive[key[r][1]] /\ key'[r] = key[r]
    <3>1. key[r][1] \in Source
      BY <2>2 DEF Inv, CallsOK, CallOK, SupportedIn, Key
    <3> QED BY <2>2, <3>1
  <2> QED BY <1>2, <2>1, <2>2, AnswersWait
<1>3. ASSUME NEW m \in RememberedArchives'
      PROVE  \/ \E k \in DOMAIN chartStore' : m = <<k[1], chartStore'[k].value>>
             \/ \E r \in Request : pc'[r] = "store" /\ m = <<key'[r][1], held'[r]>>
  BY <1>3 DEF RememberedArchives
<1> QED
  BY <1>1, <1>2, <1>3

\* The same of the memory of indexes.
LEMMA IndexesMemory ==
    ASSUME Inv, [Next]_vars
    PROVE  RememberedIndexes' \subseteq
               RememberedIndexes \cup {<<u, index[u]>> : u \in Repository}
<1>0. IsStore(indexStore, Repository, IndexFile)
  BY DEF Inv, TypeOK
<1>1. ASSUME NEW u \in DOMAIN indexStore'
      PROVE  <<u, indexStore'[u].value>> \in RememberedIndexes
  <2>1. CASE UNCHANGED indexStore
    BY <1>1, <2>1, IndexesAre
  <2>2. ASSUME NEW r \in Request, IndexWritten(r)
        PROVE  <<u, indexStore'[u].value>> \in RememberedIndexes
    <3> PICK w, f : w = repo[r] /\ f = file[r]
      OBVIOUS
    <3>1. pc[r] = "indexStore" /\ <<w, f>> \in RememberedIndexes
      BY <2>2, IndexesAre DEF IndexWritten
    <3>2. indexStore' = Put(indexStore, w, Entry(f, age[r], IndexTTL))
      BY <2>2 DEF IndexWritten
    <3>3. u \in DOMAIN indexStore \cup {w}
      BY <1>1, <3>2 DEF Put
    <3>4. CASE u = w
      <4>1. indexStore'[u].value = f
        BY <3>2, <3>4 DEF Put, Entry
      <4> QED BY <3>1, <3>4, <4>1
    <3>5. CASE u # w
      <4>1. u \in DOMAIN indexStore /\ indexStore'[u] = indexStore[u]
        BY <3>2, <3>3, <3>5 DEF Put
      <4> QED BY <4>1, IndexesAre
    <3> QED BY <3>4, <3>5
  <2>3. CASE indexStore' = EmptyStore
    BY <1>1, <2>3 DEF EmptyStore
  <2>4. CASE indexStore' = Aged(indexStore)
    <3>1. /\ IsStore(indexStore', Repository, IndexFile)
          /\ \A l \in DOMAIN indexStore' :
                l \in DOMAIN indexStore /\ indexStore'[l].value = indexStore[l].value
      BY <1>0, <2>4, AgedIsStore
    <3> QED BY <1>1, <3>1, IndexesAre
  <2> QED BY <2>1, <2>2, <2>3, <2>4, IndexStoreChanges
<1>2. ASSUME NEW r \in Request, pc'[r] = "indexStore"
      PROVE  <<repo'[r], file'[r]>> \in
                 RememberedIndexes \cup {<<u, index[u]>> : u \in Repository}
  <2>1. CASE pc[r] = "indexStore" /\ file'[r] = file[r] /\ repo'[r] = repo[r]
    BY <2>1, IndexesAre
  <2>2. CASE pc[r] = "indexFetch" /\ file'[r] = index[repo[r]] /\ repo'[r] = repo[r]
    <3>1. repo[r] \in Repository
      BY <2>2 DEF Inv, CallsOK, CallOK
    <3> QED BY <2>2, <3>1
  <2> QED BY <1>2, <2>1, <2>2, AnswersWait
<1>3. ASSUME NEW m \in RememberedIndexes'
      PROVE  \/ \E u \in DOMAIN indexStore' : m = <<u, indexStore'[u].value>>
             \/ \E r \in Request : pc'[r] = "indexStore" /\ m = <<repo'[r], file'[r]>>
  BY <1>3 DEF RememberedIndexes
<1> QED
  BY <1>1, <1>2, <1>3

\* The calls as their callers see them.
Seen(r) == Progress(pc[r], repo[r], query[r], file[r], key[r], held[r])

Calls == [r \in Request |->
             Progress(pc[r], repo[r], query[r], file[r], key[r], held[r])]

\* A step of one call changes what is seen of this call alone.
LEMMA OneCallChanges ==
    ASSUME NEW r \in Request, Serves(r), NEW p, Seen(r)' = p
    PROVE  Calls' = [Calls EXCEPT ![r] = p]
<1>1. ASSUME NEW g \in Request, g # r
      PROVE  /\ pc'[g] = pc[g] /\ repo'[g] = repo[g] /\ query'[g] = query[g]
             /\ file'[g] = file[g] /\ key'[g] = key[g] /\ held'[g] = held[g]
  BY <1>1 DEF Serves
<1>2. ASSUME NEW g \in Request, g # r
      PROVE  Progress(pc'[g], repo'[g], query'[g], file'[g], key'[g], held'[g])
             = Progress(pc[g], repo[g], query[g], file[g], key[g], held[g])
  BY <1>1, <1>2, Zenon
<1>3. Progress(pc'[r], repo'[r], query'[r], file'[r], key'[r], held'[r]) = p
  BY DEF Seen
<1> QED BY <1>2, <1>3, Zenon DEF Calls

\* If what is seen of it stays the same, nothing changes.
LEMMA NoCallChanges ==
    ASSUME NEW r \in Request, Serves(r), Seen(r)' = Seen(r)
    PROVE  Reads!Unnoticed
<1> PICK p : p = Seen(r)
  OBVIOUS
<1>1. Calls' = [Calls EXCEPT ![r] = p]
  BY OneCallChanges
<1>2. Calls[r] = p
  BY DEF Calls, Seen
<1>3. Calls = [g \in Request |-> Calls[g]]
  BY DEF Calls
<1>4. Calls' = Calls
  BY <1>1, <1>2, <1>3
<1> QED BY <1>4 DEF Calls, Reads!Unnoticed

\* A call that is made asks for a chart, or has found its reference.
LEMMA CallReads ==
    ASSUME Inv, NEW r \in Request, CallHTTP(r) \/ CallOCI(r)
    PROVE  Reads!Ask(r)
<1>0. LocalTypes /\ Serves(r) /\ UNCHANGED <<archive, index>>
  BY CallStep DEF Inv, TypeOK, LocalTypes, CallHTTP, RetrieveIndex, CallOCI, indexVars
<1>1. Calls[r].phase \in {"idle", "done", "failed"}
  <2>1. pc[r] \in {"idle", "done", "failed"}
    BY <1>0 DEF CallHTTP, CallOCI, LocalTypes
  <2>2. Calls[r] = Seen(r)
    BY DEF Calls, Seen
  <2>3. \/ Seen(r) = Reads!Returns(held[r])
        \/ Seen(r) = Reads!Ended("idle")
        \/ Seen(r) = Reads!Ended("failed")
    BY <2>1, ProgressIs DEF Seen
  <2> QED BY <2>2, <2>3 DEF Reads!Returns, Reads!Ended
<1>2. CASE CallHTTP(r)
  <2>1. PICK u \in Repository, q \in Query : RetrieveIndex(r, u, q)
    BY <1>2 DEF CallHTTP
  <2>2. pc'[r] = "indexLookup" /\ repo'[r] = u /\ query'[r] = q
    BY <1>0, <2>1 DEF RetrieveIndex, LocalTypes
  <2>3. Seen(r)' = Reads!Asks(u, q)
    BY <2>2, ProgressIs DEF Seen, BeforeIndex
  <2>4. Calls' = [Calls EXCEPT ![r] = Reads!Asks(u, q)]
    BY <1>0, <2>3, OneCallChanges
  <2> QED BY <1>0, <1>1, <2>4, Zenon DEF Calls, Reads!Ask, Reads!remotes
<1>3. CASE CallOCI(r)
  <2>1. PICK o \in OCIReference : key' = [key EXCEPT ![r] = <<o, None>>]
    BY <1>3 DEF CallOCI
  <2>2. pc'[r] = "lookup" /\ key'[r] = <<o, None>>
    BY <1>0, <1>3, <2>1 DEF CallOCI, LocalTypes
  <2>3. Seen(r)' = Reads!Finds(o, None)
    BY <2>2, ProgressIs DEF Seen, AfterIndex
  <2>4. Calls' = [Calls EXCEPT ![r] = Reads!Finds(o, None)]
    BY <1>0, <2>3, OneCallChanges
  <2> QED BY <1>0, <1>1, <2>4, Zenon DEF Calls, Reads!Ask, Reads!remotes
<1> QED BY <1>2, <1>3

\* A call that comes to an index that is remembered of its repository finds
\* its entry there, or nothing is seen of it yet.
LEMMA IndexReads ==
    ASSUME Inv, NEW r \in Request, NEW f, <<repo[r], f>> \in RememberedIndexes,
           Serves(r), UNCHANGED <<archive, index>>, pc[r] \in BeforeIndex,
           pc'[r] = "parse", repo'[r] = repo[r], query'[r] = query[r],
           file'[r] = f
    PROVE  Reads!Find(r) \/ Reads!Unnoticed
<1>1. Seen(r) = Reads!Asks(repo[r], query[r])
  BY ProgressIs DEF Seen
<1>2. CASE f = Malformed \/ f[query[r]] = None
  <2>1. Seen(r)' = Reads!Asks(repo[r], query[r])
    BY <1>2, ProgressIs DEF Seen
  <2> QED BY <1>1, <2>1, NoCallChanges
<1>3. CASE f # Malformed /\ f[query[r]] # None
  <2> PICK entry : entry = f[query[r]]
    OBVIOUS
  <2>1. Seen(r)' = Reads!Finds(entry.url, entry.digest)
    BY <1>3, ProgressIs DEF Seen
  <2>2. Calls' = [Calls EXCEPT ![r] = Reads!Finds(entry.url, entry.digest)]
    BY <2>1, OneCallChanges
  <2>3. /\ Calls[r].phase = "asking"
        /\ Calls[r].repo = repo[r]
        /\ Calls[r].query = query[r]
    BY <1>1 DEF Calls, Seen, Reads!Asks
  <2> PICK m : m = <<repo[r], f>>
    OBVIOUS
  <2>4. /\ m \in RememberedIndexes
        /\ m[1] = Calls[r].repo
        /\ m[2] # Malformed
        /\ m[2][Calls[r].query] = entry
        /\ entry # None
    BY <1>3, <2>3
  <2>5. Reads!Find(r)
    BY <2>2, <2>3, <2>4, Zenon DEF Calls, Reads!Find, Reads!remotes
  <2> QED BY <2>5
<1> QED BY <1>2, <1>3

\* A call that comes to an archive that is remembered of its URL and matches
\* its key returns it.
LEMMA ArchiveReads ==
    ASSUME Inv, NEW r \in Request, NEW a, NEW k, k = key[r], Matches(k, a),
           <<k[1], a>> \in RememberedArchives,
           Serves(r), UNCHANGED <<archive, index>>, pc[r] \in AfterIndex,
           pc'[r] = "done", held'[r] = a
    PROVE  Reads!Return(r)
<1>1. Seen(r) = Reads!Finds(k[1], k[2])
  BY ProgressIs DEF Seen
<1>2. Seen(r)' = Reads!Returns(a)
  BY ProgressIs DEF Seen
<1>3. Calls' = [Calls EXCEPT ![r] = Reads!Returns(a)]
  BY <1>2, OneCallChanges
<1>4. /\ Calls[r].phase = "found"
      /\ Calls[r].url = k[1]
      /\ Calls[r].digest = k[2]
  BY <1>1 DEF Calls, Seen, Reads!Finds
<1> PICK m : m = <<k[1], a>>
  OBVIOUS
<1>5. /\ m \in RememberedArchives
      /\ m[1] = Calls[r].url
      /\ Calls[r].digest # None => m[2] >= Calls[r].digest
      /\ m[2] = a
  BY <1>4 DEF Matches
<1> QED BY <1>3, <1>4, <1>5, Zenon DEF Calls, Reads!Return, Reads!remotes

\* Every other step of a call goes unnoticed or is one that its caller may see.
LEMMA StepReads ==
    ASSUME Inv, NEW r \in Request, Step(r)
    PROVE  \/ Reads!Unnoticed
           \/ Reads!Find(r)
           \/ Reads!Return(r)
           \/ Reads!Fail(r)
<1> USE DEF BeforeIndex, AfterIndex
<1>0. LocalTypes /\ Serves(r) /\ CallOK(r)
  BY CallStep DEF Inv, TypeOK, LocalTypes, CallsOK
<1>1. CASE IndexHit(r) /\ UNCHANGED <<chartStore, key, held>>
  <2> PICK f : f = indexStore[repo[r]].value
    OBVIOUS
  <2>1. <<repo[r], f>> \in RememberedIndexes
    BY <1>1, IndexesAre DEF IndexHit
  <2>2. /\ pc[r] = "indexLookup" /\ pc'[r] = "parse" /\ file'[r] = f
        /\ UNCHANGED <<archive, index, repo, query>>
    BY <1>0, <1>1 DEF IndexHit, LocalTypes
  <2> QED BY <1>0, <2>1, <2>2, IndexReads
<1>2. CASE IndexStore(r) /\ UNCHANGED <<chartStore, key, held>>
  <2> PICK f : f = file[r]
    OBVIOUS
  <2>1. <<repo[r], f>> \in RememberedIndexes
    BY <1>2, IndexesAre DEF IndexStore
  <2>2. /\ pc[r] = "indexStore" /\ pc'[r] = "parse" /\ file'[r] = f
        /\ UNCHANGED <<archive, index, repo, query>>
    BY <1>0, <1>2 DEF IndexStore, LocalTypes
  <2> QED BY <1>0, <2>1, <2>2, IndexReads
<1>3. CASE (IndexMiss(r) \/ IndexFetch(r)) /\ UNCHANGED <<chartStore, key, held>>
  <2>1. /\ pc[r] \in BeforeIndex /\ pc'[r] \in BeforeIndex
        /\ repo'[r] = repo[r] /\ query'[r] = query[r]
    BY <1>0, <1>3 DEF IndexMiss, IndexFetch, LocalTypes
  <2>2. Seen(r) = Reads!Asks(repo[r], query[r])
    BY <2>1, ProgressIs DEF Seen
  <2>3. Seen(r)' = Reads!Asks(repo[r], query[r])
    BY <2>1, ProgressIs DEF Seen
  <2> QED BY <1>0, <2>2, <2>3, NoCallChanges
<1>4. CASE ParseIndex(r) /\ UNCHANGED <<chartStore, key, held>>
  <2>1. /\ pc[r] = "parse" /\ pc'[r] = "select"
        /\ repo'[r] = repo[r] /\ query'[r] = query[r] /\ file'[r] = file[r]
    BY <1>0, <1>4 DEF ParseIndex, LocalTypes
  <2> PICK u, q, f : u = repo[r] /\ q = query[r] /\ f = file[r]
    OBVIOUS
  <2>2. CASE f = Malformed \/ f[q] = None
    <3>1. Seen(r) = Reads!Asks(u, q)
      BY <2>1, <2>2, ProgressIs DEF Seen
    <3>2. Seen(r)' = Reads!Asks(u, q)
      BY <2>1, <2>2, ProgressIs DEF Seen
    <3> QED BY <1>0, <3>1, <3>2, NoCallChanges
  <2>3. CASE f # Malformed /\ f[q] # None
    <3>1. Seen(r) = Reads!Finds(f[q].url, f[q].digest)
      BY <2>1, <2>3, ProgressIs DEF Seen
    <3>2. Seen(r)' = Reads!Finds(f[q].url, f[q].digest)
      BY <2>1, <2>3, ProgressIs DEF Seen
    <3> QED BY <1>0, <3>1, <3>2, NoCallChanges
  <2> QED BY <2>2, <2>3
<1>5. CASE Select(r)
  <2> PICK u, q, f : u = repo[r] /\ q = query[r] /\ f = file[r]
    OBVIOUS
  <2>1. pc[r] = "select" /\ f # Malformed /\ f[q] # None
    BY <1>0, <1>5 DEF Select, CallOK
  <2>2. pc'[r] = "lookup" /\ key'[r] = <<f[q].url, f[q].digest>>
    BY <1>0, <1>5 DEF Select, LocalTypes
  <2>3. Seen(r) = Reads!Finds(f[q].url, f[q].digest)
    BY <2>1, ProgressIs DEF Seen
  <2>4. Seen(r)' = Reads!Finds(f[q].url, f[q].digest)
    BY <2>2, ProgressIs DEF Seen
  <2> QED BY <1>0, <2>3, <2>4, NoCallChanges
<1>6. CASE Miss(r) \/ Fetch(r)
  <2> PICK k : k = key[r]
    OBVIOUS
  <2>1. pc[r] \in AfterIndex /\ pc'[r] \in AfterIndex /\ key'[r] = k
    BY <1>0, <1>6 DEF Miss, Fetch, LocalTypes
  <2>2. Seen(r) = Reads!Finds(k[1], k[2])
    BY <2>1, ProgressIs DEF Seen
  <2>3. Seen(r)' = Reads!Finds(k[1], k[2])
    BY <2>1, ProgressIs DEF Seen
  <2> QED BY <1>0, <2>2, <2>3, NoCallChanges
<1>7. CASE Hit(r)
  <2> PICK k, a : k = key[r] /\ a = chartStore[k].value
    OBVIOUS
  <2>1. k \in DOMAIN chartStore /\ <<k[1], a>> \in RememberedArchives
    BY <1>7, ArchivesAre DEF Hit
  <2>2. Matches(k, a)
    BY <2>1 DEF Inv, ChartsOK
  <2>3. /\ pc[r] = "lookup" /\ pc'[r] = "done" /\ held'[r] = a
        /\ UNCHANGED <<archive, index>>
    BY <1>0, <1>7 DEF Hit, LocalTypes, indexVars
  <2> QED BY <1>0, <2>1, <2>2, <2>3, ArchiveReads
<1>8. CASE Store(r)
  <2> PICK k, a : k = key[r] /\ a = held[r]
    OBVIOUS
  <2>1. pc[r] = "store" /\ <<k[1], a>> \in RememberedArchives
    BY <1>8, ArchivesAre DEF Store
  <2>2. Matches(k, a)
    BY <1>0, <2>1 DEF CallOK
  <2>3. /\ pc'[r] = "done" /\ held'[r] = a
        /\ UNCHANGED <<archive, index>>
    BY <1>0, <1>8 DEF Store, LocalTypes, indexVars
  <2> QED BY <1>0, <2>1, <2>2, <2>3, ArchiveReads
<1>9. CASE Fail(r)
  <2>1. /\ pc[r] \in BeforeIndex \cup AfterIndex \cup {"parse", "select"}
        /\ pc'[r] = "failed"
        /\ UNCHANGED <<archive, index>>
    BY <1>0, <1>9 DEF Fail, Forget, remoteVars
  <2>2. Seen(r)' = Reads!Ended("failed")
    BY <2>1, ProgressIs DEF Seen
  <2>3. Calls' = [Calls EXCEPT ![r] = Reads!Ended("failed")]
    BY <1>0, <2>2, OneCallChanges
  <2>4. Calls[r].phase \in {"asking", "found"}
    <3> PICK u, q, f, k, p : u = repo[r] /\ q = query[r] /\ f = file[r]
                             /\ k = key[r] /\ p = Seen(r)
      OBVIOUS
    <3>1. \/ p = Reads!Asks(u, q)
          \/ p = Reads!Finds(f[q].url, f[q].digest)
          \/ p = Reads!Finds(k[1], k[2])
      BY <2>1, ProgressIs DEF Seen
    <3>2. Calls[r] = p
      BY DEF Calls, Seen
    <3> QED BY <3>1, <3>2 DEF Reads!Asks, Reads!Finds
  <2>5. Reads!Fail(r)
    BY <2>1, <2>3, <2>4, Zenon DEF Calls, Reads!Fail, Reads!remotes
  <2> QED BY <2>5
<1> QED
  BY <1>1, <1>2, <1>3, <1>4, <1>5, <1>6, <1>7, <1>8, <1>9 DEF Step, Index

\* What the environment does goes unnoticed, or every call is gone.
LEMMA EnvironmentReads ==
    ASSUME Inv,
           \/ \E s \in Source : UploadChart(s)
           \/ \E u \in Repository : PublishIndex(u)
           \/ LoseCaches
           \/ Tick
           \/ UNCHANGED vars
    PROVE  Reads!Unnoticed \/ Reads!Restart
<1>0. LocalTypes
  BY DEF Inv, TypeOK, LocalTypes
<1>1. CASE UNCHANGED <<pc, repo, query, file, key, held>>
  <2>1. ASSUME NEW r \in Request
        PROVE  Progress(pc'[r], repo'[r], query'[r], file'[r], key'[r], held'[r])
               = Progress(pc[r], repo[r], query[r], file[r], key[r], held[r])
    BY <1>1, Zenon
  <2> QED BY <2>1, Zenon DEF Reads!Unnoticed
<1>2. CASE LoseCaches
  <2>1. PICK requests \in {{}, Request} : Forget(requests, "idle")
    BY <1>2 DEF LoseCaches
  <2>2. CASE requests = {}
    <3>1. UNCHANGED <<pc, repo, query, file, key, held>>
      BY <1>0, <2>1, <2>2 DEF Forget, LocalTypes
    <3> QED BY <1>1, <3>1
  <2>3. CASE requests = Request
    <3>1. ASSUME NEW r \in Request
          PROVE  Progress(pc'[r], repo'[r], query'[r], file'[r], key'[r], held'[r])
                 = Reads!Ended("idle")
      <4>1. pc'[r] = "idle"
        BY <2>1, <2>3 DEF Forget
      <4> QED BY <4>1, ProgressIs
    <3>2. UNCHANGED <<archive, index>>
      BY <1>2 DEF LoseCaches, remoteVars
    <3>3. Reads!Restart
      BY <3>1, <3>2, Zenon DEF Reads!Restart, Reads!remotes
    <3> QED BY <3>3
  <2> QED BY <2>1, <2>2, <2>3
<1> QED BY <1>1, <1>2 DEF UploadChart, PublishIndex, Tick, vars

\* Initially nothing is remembered and no call has been made.
LEMMA ReadsInit == Init => Reads!Init
<1> SUFFICES ASSUME Init PROVE Reads!Init
  OBVIOUS
<1>1. archive \in [Source -> Upload] /\ index \in [Repository -> IndexFile]
  BY InitInv DEF Inv, TypeOK
<1>2. RememberedArchives = {} /\ RememberedIndexes = {}
  BY EmptyStoreIsStore DEF Init, RememberedArchives, RememberedIndexes
<1>3. ASSUME NEW r \in Request
      PROVE  Progress(pc[r], repo[r], query[r], file[r], key[r], held[r])
             = Reads!Ended("idle")
  <2>1. pc[r] = "idle"
    BY DEF Init
  <2> QED BY <2>1, ProgressIs
<1>4. [r \in Request |->
          Progress(pc[r], repo[r], query[r], file[r], key[r], held[r])]
      = [r \in Request |-> Reads!Ended("idle")]
  BY <1>3, Zenon
<1> QED BY <1>1, <1>2, <1>4, Zenon DEF Reads!Init, Reads!Source, Source

\* Every step is one of the specification of reads.
LEMMA ReadsStep == Inv /\ [Next]_vars => [Reads!Next]_(Reads!vars)
<1> SUFFICES ASSUME Inv, [Next]_vars PROVE Reads!Next
  OBVIOUS
<1>1. Reads!Memory
  BY ArchivesMemory, IndexesMemory DEF Reads!Memory, Reads!Source, Source
<1>2. \/ Reads!Unnoticed
      \/ Reads!Restart
      \/ \E r \in Request :
            Reads!Ask(r) \/ Reads!Find(r) \/ Reads!Return(r) \/ Reads!Fail(r)
  BY CallReads, StepReads, EnvironmentReads DEF Next
<1> QED BY <1>1, <1>2 DEF Reads!Next

\* The two caches implement the specification of reads: a caller is given an
\* archive of the URL that an index of its own repository names, and not one
\* older than the digest there.
THEOREM ReadsAreImplemented == Spec => ImplementsChartReads
<1>1. Init => Reads!Init
  BY ReadsInit
<1>2. Inv /\ [Next]_vars => [Reads!Next]_(Reads!vars)
  BY ReadsStep
<1> QED BY <1>1, <1>2, Invariance, PTL DEF Spec, Reads!Spec, ImplementsChartReads
=============================================================================
