# manifest-maestro in TLA+

manifest-maestro is a web service that renders Kubernetes manifests. A request
names a Helm chart or a kustomization in a git repository, in a Helm repository
or in a registry; the service retrieves it through caches, resolves the
dependencies of a chart, merges values, renders, and answers with the manifests.

This directory holds a model of the service, its model-checking runs, and
machine-checked proofs. `PROJECT.json` is the index: components, runs, mutants,
the map from definitions to source lines, findings, hazards and theorems. Paths
below are relative to `src/`.

    tlc -workers 2 -config GitRepositoryCacheRedis.cfg MCGitRepositoryCache
    tlapm GitRepositoryCache_proofs.tla

## The system

| Component | Source | State it keeps | Operations | What makes it correct |
|---|---|---|---|---|
| Git repository cache | `internal/service/cache/gitrepositorycache.go`, `internal/repository/git/git.go` | tarballs under `URL\|hash`, 15 minutes, per process or in Redis | `RetrieveRepository`: resolve, lookup, clone, store | a call returns a tree its reference pointed to while it ran; an entry under a hash is that commit; entries end |
| Helm index cache | `internal/service/cache/helmindexcache.go` | index files under the repository URL, 15 minutes | `RetrieveIndex` | an index is no older than its lifetime |
| Helm chart cache | `internal/service/cache/helmchartcache.go` | archives under `URL\|digest` (15 minutes) or the registry reference (5 minutes) | `RetrieveChart` | an archive is never older than the digest it was selected by |
| Helm remote | `internal/repository/helmremote/helmremote.go` | none | `GetIndex`, `GetChart` | the provider, and with it the credentials, is that of the host at hand |
| GitHub App authentication | `internal/repository/git/authprovider.go` | one installation token, shared by all requests without a lock | `GetAuth` | the returned token is alive and not empty |
| Life cycle | `main.go`, `internal/wiring/application.go`, `internal/web/server.go`, `internal/web/primary.go` | the parts, the socket, the signal channel, the cancellable context, telemetry | `Create`, `Run`, `Teardown`, `Shutdown` | no part is given a nil, the exit code is honest, a signal ends the process, shutdown is graceful, no span is lost |
| Chart provider | `internal/service/helm/chartprovider.go` | locals of one call, shared with its goroutines | `GetHelmChart` | the chart has each dependency at its place, or the call reports the cause |
| Chart values | `internal/service/helm/chart.go`, `internal/utils/map.go` | locals of one call | `MergeValues` | the source of highest precedence wins |
| Chart renderer | `internal/service/helm/chartrenderer.go` | configured API versions | `Render` | requests do not influence each other, and every document is answered once and in order |
| Kustomization provider, renderer | `internal/service/kustomize` | a file system per request | `GetKustomization`, `Render` | kustomize runs on the tree of the commit and the injections of this request, nothing else |
| V1 controller, error mapping | `internal/web/controller` | none | one handler per action | every request is answered once, and its status blames the right side |
| GitHub client | `internal/client` | circuit breaker, rate limits | a stack of transports | retries stay within the timeout |
| Configuration | `internal/config` | environment | parsing, `HELM_HOST_PROVIDERS` | a URL is served as its host is configured |
| Archives, file system | `pkg/targz`, `pkg/filesystem` | none | pack, unpack | unpacking restores the tree, or there is no archive |

A request runs in a goroutine of `net/http`. The controller calls the chart
provider (or the kustomization provider), which calls the git cache or the chart
cache; the chart cache calls the index cache; a miss calls a remote, and the git
repository asks the authentication provider for a token before each of its two
calls of a remote. Everything else is local to the request. What requests share is
therefore the three caches, the token, the life of the process, and the outside
world, which changes while they run.

Hard to test are the steps between two accesses of shared state: pushes and uploads
between resolution, lookup and retrieval; the unlocked token; goroutines that fail
while others run; slices of requests that may share an array; the signal that comes
before the server listens; a process that exits while requests run and their spans
end; and a tree that can be packed only in part. `PROJECT.json` lists each hazard with its line and
the properties that would catch it.

## Modules

| Module | Models | Extends |
|---|---|---|
| `ByteCache` | the cache library (external): `Get`, `Set` with a lifetime, expiry | - |
| `RepositoryReads` | abstract specification: reads of repositories without a cache | - |
| `GitRepositoryCache` | `RetrieveRepository` | `ByteCache`, instantiates `RepositoryReads` |
| `ChartReads` | abstract specification: reads of charts without caches | - |
| `HelmIndexCache` | `RetrieveIndex`, as a part of the next module | `ByteCache` |
| `HelmChartCache` | `RetrieveChart`, composed with the index cache | `HelmIndexCache`, instantiates `ChartReads` |
| `GitHubAppAuth` | `GetAuth` | - |
| `ServerLifecycle` | `main`, `Run`, `Shutdown`, requests in flight | - |
| `HostProviders` | what `HELM_HOST_PROVIDERS` is made into, and who serves a URL | - |
| `Application` | the process: `Create` part by part, telemetry, `Teardown` | `ServerLifecycle`, instantiates `HostProviders` |
| `ChartProvider` | `GetHelmChart` with its errgroup | - |
| `Kustomization` | `GetKustomization`, packing, unpacking, injections | - |
| `V1Controller` | a request to the API, its errors and its answer | `ChartProvider`, instantiates `Kustomization` |
| `ChartValues` | `MergeValues`, `DeepMerge` | - |
| `ChartRenderer` | `Render`, of requests at the same time | - |
| `MC...` | values for constants | the module they are named after |
| `..._proofs` | theorems | the module they are named after |

**GitRepositoryCache.** `pc[r]` is the next call a request makes: `resolve`
(`ToHash` lists the references), `lookup` (`cache.Get`), `fetch` (`CloneCommit`),
`store` (`cache.Set`). The remote repositories (`tip`) change by `Push` at any
moment. `IsCommitHash` is what `commitHashRegex` matches: it is not anchored, so
the names in `HexName`, which contain 40 hexadecimal digits, pass too; they are
never resolved, but can be cloned, because a refspec may start with a name. The
ghosts `seen` (what the reference stood for since the call began) and `age` (time
since the remote served a tree) are read by properties; `age` also bounds the clock
by `Lag`. Whether `Set` succeeds is a free choice, because its error is only logged.
A request that fails may do so at every step, with every cause.

**HelmIndexCache, HelmChartCache.** The content of an archive is the number of
uploads to its URL, and the digest of an archive is that number too. A repository
publishes an index only of archives that have been uploaded, possibly replaced
since, with or without digest, or publishes a malformed file. `TTLOf` is the
lifetime of an entry by the kind of its key. No action compares an archive with a
digest, as nothing in the code does.

**ChartReads.** What a caller is promised, without caches: there is a memory of what the
remotes have served, which may lose anything at any moment; a call finds its entry in an
index remembered of its own repository, and returns an archive remembered of the URL in
that entry and no older than its digest. The refinement mapping takes the two stores and
the answers on their way to them for the memory, and the locals of a call for what its
caller has come to know (`Progress`). `NeverOlderThanDigest` alone would not do: it
speaks of the digest in the call's own key, so a key without the digest, or with the URL of
another entry, would satisfy it.

**GitHubAppAuth.** `token` is `p.token`; each of its reads and its write is a
step. The reads race with writes of other goroutines: by the Go memory model a
racing read of a pointer returns some value written, and within one call a compiler
may use again what the call has read or written before. `Readable` therefore offers
the present value and that one. A token is the time of its expiry.

**ServerLifecycle.** `main`, `stopper` and `request` are the program counters of
the main goroutine, of the goroutine that `Server.Run` starts, and of the requests.
What `net/http` contributes is modelled from its documented behaviour:
`ListenAndServe` fails at once if `Shutdown` has been called, and returns as soon as
`Shutdown` begins; `Shutdown` closes the socket and polls until no request is running
or its context ends; keep-alive connections play no role, so a request stands for its
connection.

**HostProviders, Application.** `Order` is the order in which `Create` makes the parts,
`Needs` what the constructor of each is given; `given` records which of those were there
when it was made. `Create` can fail before any part in `Fallible`. The exporter, the
tracer provider and the meter provider run or are down; the span of a request ends with
it, waits for a batch, and is exported, lost (the collector cannot be reached) or late
(the tracer provider is gone). Every action of the life cycle happens in an action of
this module, together with what it does to parts, telemetry and spans. An entry of
`HELM_HOST_PROVIDERS` is a record of texts of which some may be empty. Its type is a text
as it is written: a word, possibly with capitals and with spaces around it, which `ToLower`
and `TrimSpace` remove before it is compared. The configuration is computed from the entries
as the code does; which provider is used is a function of the host and the scheme of the URL
at hand. What the setting means is stated by `ProvidersAreAsConfigured` from
`README.md:74-84`, without these functions. For hosts that it does not name that property
only says that nobody is told credentials; that somebody serves them at all, as
`README.md:85` has it, is `DefaultProvidersServe`, and false.

**ChartProvider.** `resolved` is `resolvedDeps`, `remote` the list of deferred
positions, `worker` the goroutines, `err` and `cancelled` the state of the errgroup.
A declaration says what the two passes find for a dependency: a `file://` repository,
an archive or a directory below `charts/`, in the declared version or in another, and
whether its retrieval would succeed. An archive below `charts/` counts as broken,
because `loadChart` walks it as a directory and finds no `Chart.yaml` in it.

**Kustomization, V1Controller.** `root`, `failed` and `written` are what a reference names,
the error that was returned first (its cause, and what it is wrapped in), and what was
answered. A step of the chart provider that fails is taken together with the error it
makes, so that `Title`, the search of `handleErrorWrapped`, is applied to a chain that
really arises. The requests for a kustomization follow each other and share the cached
archive; each packs or unpacks it file by file, writes its injections over it, and runs
kustomize, of which only the presence of a `kustomization.yaml` is modelled. A path is a
sequence of names; `Join` treats the names "." and ".." as `filepath` does.

**ChartRenderer.** `room` is the part of the array of Helm's default API versions that no
slice covers yet; requests copy the slice but not its array, so `AppendVersions` writes in
place while there is room, as `append` does. `heap` holds the maps of a request: Go's maps
are references, so the values are an outer map and one below it, which stands for all
further levels. `Coalesce` allocates those that the engine is given, `CopyValues` those that
the metadata refers to, and `ChangeValues` is a template that writes into a map it reaches,
any number of times until the engine is done. A value is who has set it last: the
parameters, the defaults of the chart, or a template. A chart is a set of documents; what
the template engine makes of templates is such a set. `SortManifests` drops documents for
hooks that Helm does not know. Documents are parsed one by one.

**ChartValues.** Values are trees of maps with the setting source at the leaves. A flat
value is the list of paths that strvals assigns for it: a comma begins another
assignment, and text after a comma that assigns nothing makes the call fail (`NoPath`).
A tree is a function from paths to what is there, a map or a leaf, so that `DeepMerge` and
the setting of a path are written node by node instead of recursively. That `DeepMerge` is
the code's recursion is shown twice: TLC compares it with that recursion over nested maps on
all trees of the run (`MergesNestedMaps`), and `MergeIsRecursive` proves the equations of the
recursion for any trees. Flat values are taken one assignment at a time. The property compares the
result with a definition that only ranks sources. Maps are iterated in any order.

## Runs

| Run | Configuration | States | Checks |
|---|---|---|---|
| `gitRedis` | `GitRepositoryCacheRedis` | 319,029 | `TypeOK`, `FreshRead`, `EntriesMatchTheirKey`, `ImplementsReads` |
| `gitMemory` | `GitRepositoryCacheMemory` | 40,464 | `BoundedStaleness`, `Converges` |
| `gitHexBranch` | `GitRepositoryCacheHexBranch` | violation | `EveryReadIsFresh` |
| `helmChart` | `HelmChartCache` | 576,351 | `TypeOK`, `NeverOlderThanDigest`, `BoundedStaleness`, `ImplementsChartReads` |
| `gitHubAppAuth` | `GitHubAppAuth` | 1,295,179 | `TypeOK`, `EmptyOnlyIfNulledMeanwhile`, `ReturnedTokenIsAlive` |
| `emptyPassword` | `GitHubAppAuthEmptyPassword` | violation | `PasswordIsNotEmpty` |
| `application` | `Application` | 57,592 | `TypeOK`, `HonestExitCode`, `ShutdownLeavesNothing`, `SignalStops`, `ApplicationTypeOK`, `NoPartIsNil`, `TelemetryIsShutDown`, `EndedSpansAreExported`, `ProvidersAreAsConfigured` |
| `defaultProviders` | `ApplicationDefaultProviders` | violation | `DefaultProvidersServe` |
| `serverGraceful` | `ServerLifecycleGraceful` | violation | `GracefulExit` |
| `v1Controller` | `V1Controller` | 176,413 | `TypeOK`, `BuiltIsComplete`, `ErrorIsTheCause`, `NothingOutlivesTheCall`, `ControllerTypeOK`, `AnsweredOnce`, `AnswerFitsWhatHappened`, `KustomizeSeesTheTree`, `ArchivesAreWhole`, `EveryRequestIsAnswered` |
| `chartRenderer` | `ChartRenderer` | 133,058 | `TypeOK`, `VersionsAreOwn`, `MetadataTellsWhatWasMerged`, `AnswerIsComplete` |
| `chartValues` | `ChartValues` | 2,084,986 | `TypeOK`, `HighestSourceWins`, `FailsForAReason` |

*Bounds, and why they suffice.* The git runs have one repository, since keys contain
the URL and repositories do not interact, an ordinary branch and one with a
hexadecimal name, two commits, and a lifetime of two ticks, so that entries age, are
read and expire. `gitRedis` has two requests in two replicas (a fill and a read that
overlap, and a restart of one of them); `gitMemory` has one replica with one request,
as temporal properties need no second one to fail, but trees that wait a tick (`Lag`)
for their `Set`. `helmChart` has two requests, one chart at one URL with two uploads,
so that an index can be behind its archive, and one registry; an index lives two
ticks and archives one, which lets an index outlive the archive it selected.
`MCConstraint` leaves out behaviours in which both the URL and the registry are uploaded to
again, as their keys are disjoint. That repositories and URLs are kept apart needs more of
them than this run has; for any number of them it is what `ReadsAreImplemented` proves.
`gitHubAppAuth` has three goroutines, as two have to interfere with a third (one to
replace the token, one to fail); the clock ends at `Horizon` = 5, after tokens have
been issued, expired and replaced; `Delay` < `Margin` are 1 and 2 instead of the
seconds a call takes and 30. `application` has three requests, a grace period of three
ticks, all 24 parts, and six settings: none, one that cannot be parsed, three with a type
that is missing, blank or unknown, and one in which hosts have one provider or two, with
types in capitals or with spaces around them, and with credentials that are literal, in
variables, missing, or named twice. `v1Controller` has three dependencies of nine kinds, so that a
local one can stand between two remote ones, and one of several goroutines can fail; a
tree with two kustomizations, alone and with a symbolic link to an empty file, to another
file, or to nothing; and requests for three directories, one of which does not exist, whose
injections replace a file, add one, replace each other, or have a name that is refused.
`chartRenderer` has two requests, as two are enough to share an array, three ways to
configure API versions, one key of values at each of two levels, set by the parameters or
not, and charts with documents of both sources, hooks that are known or unknown, ties in the
order of installation, empty ones and invalid ones. `chartValues` has two files, one key
that can be a leaf or a map, two keys below it, and flat values with and without commas
from both maps and both lists.

*Deadlock* is checked where the model goes on for ever (git, Helm and
authentication: requests are made again and again). It is not checked
where the system stops: the process exits, a request for a chart is answered, a chart is
rendered, a call of `MergeValues` returns.

*Fairness.* `gitMemory` assumes that each request goes on (its goroutine is scheduled
and every remote call ends with an answer or an error) and that time passes; requests
themselves and pushes are not fair. The git calls run without a context of their own,
so that a remote answers or its connection breaks is an assumption about the network.
`application` assumes that the goroutines of the process run, that time passes and that
telemetry which is shut down gives up in the end, and assumes nothing of requests and
signals: `SignalStops` holds even when no request ever ends. `v1Controller` assumes that
what is done for a request that has begun goes on (`Handle`): its goroutines run, and a
remote answers, fails or times out. It does not assume that requests are made, that
clients leave, or that the cache expires.

## What was found

Four runs end in a violation, each of something the repository says, and a passing run shows
a fifth disagreement:

- `gitHexBranch`: the expression for commit hashes is not anchored (`git.go:34`,
  `git.go:133`). A branch such as `refs/heads/fix-<40 hexadecimal digits>` is cached
  under its own name and served stale for up to 15 minutes. `Converges` shows that this
  heals once the branch rests, `FreshRead` that no other reference is affected.
- `emptyPassword`: a failing renewal stores nil in the shared token while another
  request is about to use it (`authprovider.go:34`); that one authenticates with an
  empty password. `EmptyOnlyIfNulledMeanwhile` bounds the damage to calls that overlap
  the failure.
- `serverGraceful`: the process exits with 0 while requests run (`server.go:147`),
  because nothing waits for the goroutine that is in `Shutdown`.
- `defaultProviders`: with `HELM_HOST_PROVIDERS` unset, or `{}`, `README.md:85` says that
  Helm's default providers are used; the service refuses every Helm URL
  (`helmremote.go:29`, `helmremote.go:53`), as it refuses every host without an entry.
- `chartValues`: the first of several value files wins (`chart.go:55`); `README.md:254` says
  the last one does, and that files follow `complexValues`, which in fact override all
  files. `HighestSourceWins` states the order of the code, and `Winning` proves it; the order
  of the README is the mutant `MergeFileOver`, with which the property is violated.

Met while reading, and not checked by a run: an archive below `charts/` makes every
call fail (`chartprovider.go:148`); `README.md:246-247` gives 5 minutes for git
repositories and indexes, the code 15; the configured default
release name and namespace are not passed to the renderer (`wiring/application.go:354`);
the default `[]` of `HELM_DEFAULT_KUBERNETES_API_VERSIONS` is parsed as a list with commas
and gives one API version named `[]` (`config/application.go:44`; `README.md:72` announces a
JSON array); both `list-charts` and `list-chart-versions` are registered for the path
`/list-charts` (`ctl_v1.go:60,62`); the same failure of a cache is status 500 for a chart and
400 for one of its dependencies, whose errors are wrapped; an absolute path is status 500; a
symbolic link to a file with content anywhere in a repository makes each of its paths
unusable, with status 500 (`targz.go:192`); an entry that names its credentials twice gets
the literal user name and the password of the variable (`config/application.go:179-194`); a
text with a comma in the map `values` sets two keys or fails the call (`chart.go:83`); an
index entry without metadata panics at `helmindexcache.go:98`, where Helm's own loader fills
it in: in the goroutine of a request this is recovered (`server.go:103`), in that of a
dependency the service does not recover it, and unless the errgroup hands it on the process
ends; for the caches that is a failed request and a restart, which the module has at any
moment; after exit code 10 `Teardown` does not run, and spans that end after the tracer
provider was shut down are lost.

## Proofs

Every theorem is a theorem of the specification for all values of the constants, under
the named assumptions of its module, none of which restricts sizes: the constants of
`GitRepositoryCache` need `TTL` > 0 and disjoint commits and names; those of
`GitHubAppAuth` need `Delay < Margin` and `2 * Delay < Lifetime`, that is, a call takes
less than 30 seconds apart from the call of GitHub, and half an hour at most; those of
`ChartRenderer` need that the array of Helm's default API versions has no room, as Helm
makes it, or that the configured versions do not fit into it: without this,
`VersionsAreOwn` is false; those of `V1Controller` need that a tree is one, that is, that no
file is a directory of another and none is called "." or ".."; those of `ChartValues` need that with a path every shorter one that
leads there is a path; the others only type their constants.

- **GitRepositoryCache_proofs**: `TypeCorrectness`, `FreshReads`, `EntriesAreImmutable`,
  `StalenessIsBounded`, `ReadsAreImplemented`. The invariant `Inv` adds to the properties
  what each request knows at each step: before the lookup its hash is in `seen` or is its
  own unresolved name, and what it holds is the commit its key names. It also relates the
  age of an entry to the time it has left. The last theorem is the refinement:
  `Resolve`, `Miss`, `Fetch`, `Tick` and `LoseShared` are stutters, `Hit` and
  `StoreAndReturn` return, and `Restart` abandons several calls at once.
- **HelmChartCache_proofs**: `TypeCorrectness`, `ChartsAreNotOld`, `StalenessIsBounded`,
  `ReadsAreImplemented`. No index anywhere (at
  the remote, in the cache, in a request) names a digest newer than the archive at its
  URL; uploads only grow; hence an archive that is fetched after its index is at least as
  new as the digest, and so is every entry under it. The bound on staleness has an invariant
  of its own: the age of an entry and the time it has left never exceed its lifetime plus
  `Lag`, and nothing waits longer than `Lag` for its `Set`. `ReadsAreImplemented` is the
  refinement of `ChartReads`, from the same invariant: the memory gains only what a remote
  serves at that moment (`ArchivesMemory`, `IndexesMemory`; entries that expire, restarts and
  failing writes only lose), `CallHTTP` and `CallOCI` ask, `IndexHit` and `IndexStore` find
  (or go unnoticed, when the index has no entry), `Hit` and `Store` return, and the
  other steps of a call go unnoticed (`StepReads`).
- **GitHubAppAuth_proofs**: `TypeCorrectness`, `EmptyPasswords`, `TokensAreAlive` (an action property). The
  invariant says of every step what is known of the values that may be read: what a call has
  checked outlives it by `Margin`, what another call has stored meanwhile was issued at most
  `Delay` before this call began, and nil is read only after another call has stored it.
- **Application_proofs**, about the life cycle and the process around it.
  *The life cycle* (`ServerLifecycle`): `TypeCorrectness`, `ExitCodesAreHonest`,
  `ShutdownIsComplete`. The invariant relates the three program counters and the socket:
  before `serving` no request has been accepted; the socket is open only while main
  serves and the stopper waits; the timer runs only when a request has been accepted.
  *The process*: `LifeCycleIsImplemented` says that every step of the process is a
  step or a stutter of `ServerLifecycle`, so that the theorems above are theorems about the
  process, and that its invariant can be used here. `ApplicationTypes`, `PartsAreThere`,
  `TelemetryEnds`, `SpansAreExported` and `ConfigurationIsKept` follow from `ProcessInvariance`:
  parts are created in the order of `Order`, which puts every part after those it needs
  (`NeedsComeFirst`); the exporter runs while the tracer provider does; a span that waits has
  a tracer provider. `ConfigurationIsKept` rests on `ProviderIsConfigured`, which takes one
  entry through `Username`, `Password` and `BasicAuth`, on `TypeIsRead`, which says that
  a type that is accepted is read by its word, however it is spelled, and on `FirstIsChosen`,
  which says what `ByScheme` selects.
- **V1Controller_proofs**, about the call, the kustomization and the controller around them.
  *The call* (`ChartProvider`): `TypeCorrectness`, `BuildsAreComplete`, `ErrorsAreCauses`,
  `GoroutinesEndFirst`. The invariant follows a dependency from the slot that declares it,
  through its place in `remote` and the goroutine at that place, back to the same slot, and
  says of every recorded error that it has a cause. `CallIsImplemented` and
  `KustomizationsAreImplemented`: every step of a request is a step or a stutter of the call,
  and of the kustomization, so that what is proved of either holds of `ServiceSpec`.
  *The kustomization*, for any trees that satisfy `IsTree` and any requests:
  `TreesAreServedWhole` and `KustomizeSeesOnlyTheTree`. The invariant says of every file that
  it is the tree's or the last that was injected there, or else that it lies at the path of the
  request or above it. The latter happens when the injection "." or ".." hits a path that is no
  directory (yet); as no file is a directory of another one, which the invariant has as well,
  kustomize then does not find its file below the path.
  *The controller*: `RequestTypeCorrectness`, `RequestsAreAnsweredOnce`, `AnswersAreFit`. The
  invariant relates the handler to the place of the call (an answer is written only when the
  call has not begun or has returned), and the error that is kept to the outcome: it is there
  as soon as a goroutine has failed, it was wrapped unless the source failed, and it has a
  cause of git's only when git was asked. `GetChartKeeps`, `GoroutineErrorsKeep` and their
  like have one step of the request each.
- **ChartRenderer_proofs**: `TypeCorrectness`, `VersionsAreSeparate`, `MetadataIsOfTheInput`,
  `AnswersAreComplete`. The invariant says that until a request has an array of its own it
  holds no version at all, which is where the assumption on the room is needed: under it the
  room is never written, so that `VersionsAreOwn` depends on the copy of the capabilities and
  on appends that allocate, not on how writes into a shared array interleave. For the metadata
  it says that its maps hold what was coalesced, and that no map the templates reach refers to
  one of them (`Separate`), which every step of every request keeps (`StaysSeparate`). For the
  answer it says what has been parsed: the documents before the one at which the loop is, in
  order, hooks after manifests.
- **ChartValues_proofs**, for values of any depth, any number of files and any flat values:
  `Typing`, `Winning`, `Failing`. The invariant (`Merging`) says at every point of a call what
  the values are: with the sources that have been taken so far, every node comes from the
  highest of them that has a node there. It is kept by `DeepMerge` because a map is merged
  with a map and anything else is replaced whole, and by an assignment of strvals because its
  path ends in a leaf and passes through maps. Maps are taken in any order, which is why
  `Winning` needs flat values of one map not to overlap; without that, only `Failing` holds.
  `MergeIsRecursive` says what `DeepMerge` has at a key and below it, in the three cases of
  the code; that equations of this form determine the result is an induction, which is left
  to the reader and, on small trees, to TLC.
  The definition `Winning` compares with ranks the sources and knows nothing of merging.

Only model-checked are the liveness properties `Converges`, `SignalStops` and
`EveryRequestIsAnswered`: liveness is out of the prover's reach. Every invariant and every
action property of a passing run, and both refinements of an abstract specification, have a
theorem. The violation runs are counterexamples and need none.

## Not modelled, and the plan

Modelled first was what requests share, then what a single call does concurrently, then the
algorithms that decide the result, then the request from its route to its answer and the
process from its first part to its exit. Left out, with the reason:

- the stack of transports of the GitHub client (`internal/client`): the order is the code's,
  but retries, the circuit breaker, rate limits and pagination belong to libraries whose source
  is not part of the repository, so a model would mostly consist of guesses. A call of GitHub
  that takes any time and fails at any moment is part of `GitHubAppAuth`.
- what `parseIndex` repairs and drops in an index file (`helmindexcache.go:92-107`): an index is
  abstracted to what it answers to a query, and whether it can be parsed.
- the rest of the syntax of strvals (lists, escapes, null), Helm's template engine and loader,
  and krusty: libraries without state that requests share. A vendored directory that `LoadFiles`
  has added already and that is added again (`chartprovider.go:202`) is therefore not checked.
- `Compress` and `CopyFromBillyToFileSystem`, which only tests call.
- the variables of the environment apart from `HELM_HOST_PROVIDERS`: a library parses them, and
  that one is invalid is a failure of the part `configuration`.
- the health, metrics, profiler and swagger controllers, and the metrics middleware: constant
  answers and instrumentation; logging.

What could follow: a reference definition for the loops of `parseIndex`.
