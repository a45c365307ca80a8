--------------------------- MODULE ChartRenderer ---------------------------
(***************************************************************************)
(* Rendering a chart.                                                      *)
(*   internal/service/helm/chartrenderer.go                                *)
(*                                                                         *)
(* Requests render at the same time.  Each has its own chart and values,   *)
(* but starts from a copy of Helm's DefaultCapabilities, and copying a     *)
(* slice does not copy its array: append writes into the array of the      *)
(* default API versions as long as it has room.                            *)
(*                                                                         *)
(* API versions are what comes after the default ones.  A document is what *)
(* the template engine, or a CRD file of the chart, has between two "---". *)
(*                                                                         *)
(* Values are maps of Go, which are references: a map, and one below it    *)
(* that stands for all further levels (a subchart is given such a map as   *)
(* its own values).  A value is abstracted to who has set it last.         *)
(***************************************************************************)
EXTENDS Naturals, Sequences

CONSTANTS
    Request,     \* goroutines that render
    Version,     \* API versions
    Deployment,  \* what the service can be deployed as
    Asked,       \* what requests can ask for
    Chart,       \* charts: sets of documents
    Key,         \* keys of values, the same in every map
    None         \* no version, no parameter (nil), nothing yet

Document ==
    [name : STRING, order : Nat,  \* place of its kind in InstallOrder
     from : {"template", "crd"}, yaml : BOOLEAN, hook : BOOLEAN,
     known : BOOLEAN,  \* whether Helm knows all the hooks it is for
     content : {"object", "empty", "invalid"}]

\* The maps that a request allocates: those of its values, and those of a copy.
Level == {"root", "below"}
Map == {"root", "below", "copied root", "copied below"}

\* configured: defaultKubernetesAPIVersions.  spare: the room that is left in
\* the array of the default API versions; Helm makes it of the very size.
\* With room in it, only a configured list that does not fit keeps requests
\* out of the array.
ASSUME DeploymentAssumption ==
    \A d \in Deployment :
        /\ d.configured \in Seq(Version) /\ d.spare \in Nat
        /\ d.spare = 0 \/ Len(d.configured) > d.spare

ASSUME RequestAssumption ==
    /\ \A a \in Asked : /\ a.versions \in Seq(Version)
                        /\ a.crds \in BOOLEAN \cup {None}
                        /\ a.hooks \in BOOLEAN \cup {None}
                        /\ a.values \subseteq Level \X Key
    /\ Chart \subseteq SUBSET Document
    /\ None \notin BOOLEAN \cup Version
    /\ None \notin Map

VARIABLES
    deployed,  \* the deployment
    room,      \* what is in the spare part of the array of default versions
    pc,        \* how far each request has come
    asked,     \* its parameters; values: the keys that they set
    chart,     \* the documents its templates make, and those of its CRDs
    array,     \* where its capabilities.APIVersions are: "shared" or "own"
    length,    \* how much of room they extend over, while they are shared
    own,       \* what they are, once they have an array of their own
    heap,      \* its maps
    metadata,  \* MergedValues of its metadata: which map that is
    left,      \* documents that are still to be parsed
    result     \* parsedManifests

slices == <<room, array, length, own>>
vars == <<deployed, slices, pc, asked, chart, heap, metadata, left, result>>

\* What a map holds: a value under every key, and another map.
Content ==
    [key : [Key -> {"parameters", "defaults", "template", None}],
     below : Map \cup {None}]

TypeOK ==
    /\ deployed \in Deployment
    /\ room \in [1..deployed.spare -> Version \cup {None}]
    /\ pc \in [Request -> {"idle", "values", "configured", "asked",
                           "coalesce", "copy", "engine", "manifests",
                           "hooks", "ok", "error"}]
    /\ asked \in [Request -> Asked]
    /\ chart \in [Request -> Chart]
    /\ array \in [Request -> {"shared", "own"}]
    /\ length \in [Request -> 0..deployed.spare]
    /\ own \in [Request -> Seq(Version \cup {None})]
    /\ heap \in [Request -> [Map -> Content]]
    /\ metadata \in [Request -> Map \cup {None}]
    /\ left \in [Request -> SUBSET Document]
    /\ result \in [Request -> Seq(Document)]

Init ==
    /\ deployed \in Deployment
    /\ room = [i \in 1..deployed.spare |-> None]
    /\ pc = [r \in Request |-> "idle"]
    /\ asked \in [Request -> Asked]
    /\ chart \in [Request -> Chart]
    /\ array = [r \in Request |-> "shared"]
    /\ length = [r \in Request |-> 0]
    /\ own = [r \in Request |-> <<>>]
    /\ heap = [r \in Request |-> [m \in Map |->
                  [key |-> [k \in Key |-> None], below |-> None]]]
    /\ metadata = [r \in Request |-> None]
    /\ left = [r \in Request |-> {}]
    /\ result = [r \in Request |-> <<>>]

Goto(r, next) == pc' = [pc EXCEPT ![r] = next]

\* What a request reads as its API versions.
APIVersions(r) ==
    IF array[r] = "own" THEN own[r]
    ELSE [i \in 1..length[r] |-> room[i]]

\* Mutant: the room is taken for larger than it is.
AppendBeyond(r, items) ==
    LET end == length[r] + Len(items)
    IN  /\ array[r] = "shared"
        /\ length' = [length EXCEPT ![r] = end]
        /\ UNCHANGED <<room, array, own>>

\* Mutant: DefaultCapabilities is not copied.
AppendToDefault(r, items) ==
    /\ array' = [q \in Request |-> "own"]
    /\ own' = [q \in Request |-> APIVersions(r) \o items]
    /\ UNCHANGED <<room, length>>

\* append(capabilities.APIVersions, items...): in place if there is room,
\* otherwise into a new array.
AppendVersions(r, items) ==
    LET end == length[r] + Len(items)
        inPlace == array[r] = "shared" /\ end <= deployed.spare
    IN  IF inPlace
        THEN /\ room' = [i \in 1..deployed.spare |->
                            IF i \in (length[r] + 1)..end
                            THEN items[i - length[r]] ELSE room[i]]
             /\ length' = [length EXCEPT ![r] = end]
             /\ UNCHANGED <<array, own>>
        ELSE /\ array' = [array EXCEPT ![r] = "own"]
             /\ own' = [own EXCEPT ![r] = APIVersions(r) \o items]
             /\ UNCHANGED <<room, length>>

-----------------------------------------------------------------------------
Begin(r) ==
    /\ pc[r] = "idle"
    /\ Goto(r, "values")
    /\ UNCHANGED <<deployed, slices, asked, chart, heap, metadata, left, result>>

\* MergeValues and ProcessDependencies; DefaultCapabilities.Copy.
MergeValues(r) ==
    /\ pc[r] = "values"
    /\ Goto(r, "configured")
    /\ UNCHANGED <<deployed, slices, asked, chart, heap, metadata, left, result>>

AppendConfigured(r) ==
    /\ pc[r] = "configured"
    /\ AppendVersions(r, deployed.configured)
    /\ Goto(r, "asked")
    /\ UNCHANGED <<deployed, asked, chart, heap, metadata, left, result>>

AppendAsked(r) ==
    /\ pc[r] = "asked"
    /\ AppendVersions(r, asked[r].versions)
    /\ Goto(r, "coalesce")
    /\ UNCHANGED <<deployed, asked, chart, heap, metadata, left, result>>

\* Values come from the parameters, or else from the chart.
GivenIn(r, level) ==
    [k \in Key |-> IF <<level, k>> \in asked[r].values
                   THEN "parameters" ELSE "defaults"]

\* ToRenderValues: new maps, of the values that were merged and the defaults.
Coalesce(r) ==
    /\ pc[r] = "coalesce"
    /\ heap' = [heap EXCEPT
           ![r]["root"] = [key |-> GivenIn(r, "root"), below |-> "below"],
           ![r]["below"] = [key |-> GivenIn(r, "below"), below |-> None]]
    /\ Goto(r, "copy")
    /\ UNCHANGED <<deployed, slices, asked, chart, metadata, left, result>>

\* Mutant: only the outer map is copied.
CopyRoot(r) ==
    /\ pc[r] = "copy"
    /\ heap' = [heap EXCEPT ![r]["copied root"] = heap[r]["root"]]
    /\ metadata' = [metadata EXCEPT ![r] = "copied root"]
    /\ Goto(r, "engine")
    /\ UNCHANGED <<deployed, slices, asked, chart, left, result>>

\* copystructure.Copy follows references; the metadata is given the copy.
CopyValues(r) ==
    /\ pc[r] = "copy"
    /\ heap' = [heap EXCEPT
           ![r]["copied root"] =
               [heap[r]["root"] EXCEPT !.below = "copied below"],
           ![r]["copied below"] = heap[r][heap[r]["root"].below]]
    /\ metadata' = [metadata EXCEPT ![r] = "copied root"]
    /\ Goto(r, "engine")
    /\ UNCHANGED <<deployed, slices, asked, chart, left, result>>

\* While the engine renders, a template changes a map that it reaches from
\* .Values, any number of times.
ChangeValues(r) ==
    /\ pc[r] = "engine"
    /\ \E m \in {"root", heap[r]["root"].below}, k \in Key :
           heap' = [heap EXCEPT ![r][m].key[k] = "template"]
    /\ UNCHANGED <<deployed, slices, pc, asked, chart, metadata, left, result>>

\* utils.DefaultIfNil
DefaultIfNil(parameter, default) ==
    IF parameter = None THEN default ELSE parameter

\* Mutant: CRDs are left out unless they are asked for.
RenderedOnDemand(r) ==
    {d \in chart[r] :
        /\ d.from = "crd" => DefaultIfNil(asked[r].crds, FALSE)
        /\ d.yaml}

\* The documents of files that are rendered or added, and called .yaml or
\* .yml.
Rendered(r) ==
    {d \in chart[r] :
        /\ d.from = "crd" => DefaultIfNil(asked[r].crds, TRUE)
        /\ d.yaml}

\* SortManifests drops what is for a hook that Helm does not know.
Sorted(r) == {d \in Rendered(r) : d.hook => d.known}

\* The engine is done, and SortManifests refuses documents that are no objects.
RenderTemplates(r) ==
    /\ pc[r] = "engine"
    /\ \A d \in Rendered(r) : d.content # "invalid"
    /\ left' = [left EXCEPT ![r] = Sorted(r)]
    /\ Goto(r, "manifests")
    /\ UNCHANGED <<deployed, slices, asked, chart, heap, metadata, result>>

\* The next document of one kind, in the order of installation.
ParseNext(r, hook) ==
    \E d \in {d \in left[r] : d.hook = hook} :
        /\ \A e \in left[r] : e.hook = hook => d.order <= e.order
        /\ left' = [left EXCEPT ![r] = @ \ {d}]
        /\ result' = IF d.content = "empty" THEN result
                     ELSE [result EXCEPT ![r] = Append(@, d)]

ParseManifest(r) ==
    /\ pc[r] = "manifests"
    /\ ParseNext(r, FALSE)
    /\ UNCHANGED <<deployed, slices, pc, asked, chart, heap, metadata>>

EndManifests(r) ==
    /\ pc[r] = "manifests"
    /\ \A d \in left[r] : d.hook
    /\ Goto(r, IF DefaultIfNil(asked[r].hooks, TRUE) THEN "hooks" ELSE "ok")
    /\ UNCHANGED <<deployed, slices, asked, chart, heap, metadata, left, result>>

ParseHook(r) ==
    /\ pc[r] = "hooks"
    /\ ParseNext(r, TRUE)
    /\ UNCHANGED <<deployed, slices, pc, asked, chart, heap, metadata>>

EndHooks(r) ==
    /\ pc[r] = "hooks" /\ left[r] = {}
    /\ Goto(r, "ok")
    /\ UNCHANGED <<deployed, slices, asked, chart, heap, metadata, left, result>>

\* Values that cannot be merged, coalesced or copied, a dependency that cannot
\* be processed, a template that fails, a document that is no object, or that
\* cannot be parsed once more: the error is wrapped, and nothing is returned
\* with it.
Fail(r) ==
    /\ pc[r] \in {"values", "coalesce", "copy", "engine", "manifests", "hooks"}
    /\ Goto(r, "error")
    /\ UNCHANGED <<deployed, slices, asked, chart, heap, metadata, left, result>>

Next == \E r \in Request :
    \/ Begin(r)
    \/ MergeValues(r)
    \/ AppendConfigured(r)
    \/ AppendAsked(r)
    \/ Coalesce(r)
    \/ CopyValues(r)
    \/ ChangeValues(r)
    \/ RenderTemplates(r)
    \/ ParseManifest(r)
    \/ EndManifests(r)
    \/ ParseHook(r)
    \/ EndHooks(r)
    \/ Fail(r)

Spec == Init /\ [][Next]_vars

-----------------------------------------------------------------------------
\* Templates, and the client that reads the metadata, see the configured API
\* versions and those of their own request, at every moment from the copy of
\* the capabilities to the encoding of the answer and whatever other requests
\* append meanwhile (chartrenderer.go:71).
VersionsAreOwn ==
    \A r \in Request :
        pc[r] \in {"coalesce", "copy", "engine", "manifests", "hooks", "ok"} =>
            APIVersions(r) = deployed.configured \o asked[r].versions

\* The maps that an encoder of the metadata comes to.
Told(r, level) ==
    IF level = "root" THEN heap[r][metadata[r]]
    ELSE heap[r][heap[r][metadata[r]].below]

\* When the answer is encoded, its metadata tells, at every level, the values
\* that the templates were given: those of the parameters, and the defaults
\* where they have none.  Whatever templates have written into the maps they
\* were given since then is not told (chartrenderer.go:81).
MetadataTellsWhatWasMerged ==
    \A r \in Request : pc[r] = "ok" =>
        \A level \in Level, k \in Key :
            Told(r, level).key[k] =
                IF <<level, k>> \in asked[r].values
                THEN "parameters" ELSE "defaults"

\* An answer holds the documents of the chart: each of them once, hooks last, in
\* the order of installation; CRDs and hooks unless they were declined
\* (README.md:257: both are included by default), nothing empty, and nothing
\* for a hook that Helm does not know.
Wanted(r, d) ==
    /\ d.yaml /\ d.content # "empty"
    /\ d.from = "crd" => asked[r].crds # FALSE
    /\ d.hook => d.known /\ asked[r].hooks # FALSE

AnswerIsComplete ==
    \A r \in Request : pc[r] = "ok" =>
        /\ {result[r][i] : i \in 1..Len(result[r])}
               = {d \in chart[r] : Wanted(r, d)}
        /\ \A i, j \in 1..Len(result[r]) : i < j =>
               LET d == result[r][i] e == result[r][j]
               IN  /\ d # e
                   /\ d.hook => e.hook
                   /\ d.hook = e.hook => d.order <= e.order
=============================================================================
