---------------------------- MODULE V1Controller ----------------------------
(***************************************************************************)
(* One request to the API, from its route to its answer.                   *)
(*   internal/web/controller/ctl_v1.go, error.go                           *)
(*   internal/repository/helmremote, internal/repository/git (errors)      *)
(*                                                                         *)
(* The handlers call the chart provider (ChartProvider, which this module  *)
(* extends) or the kustomization provider and renderer (Kustomization).    *)
(* What they return as an error is a chain: a cause, which has a type of   *)
(* its own or none, inside the errors it was wrapped in on its way.        *)
(*                                                                         *)
(* Requests for a kustomization follow each other, as they share a cached  *)
(* archive; a request for a chart shares nothing that this module has.     *)
(***************************************************************************)
EXTENDS ChartProvider

CONSTANTS Trees, Requests  \* see Kustomization

VARIABLES
    action,   \* what the request asks for
    root,     \* what its reference names, until it has been retrieved
    handler,  \* what the handler is at: "provider", "renderer", "returned"
    failed,   \* the error that was returned first: [cause, wrap]
    written,  \* what has been written as its answer
    tree, archive, stage, request, left, tarball, files, injected, failure

controller == <<action, root, handler, failed, written>>
kustomization == <<tree, archive, stage, request, left, tarball, files,
                   injected, failure>>
everything == <<vars, controller, kustomization>>

Kustomizations == INSTANCE Kustomization

\* What a worktree holds and a request can say.
ASSUME KustomizationAssumption ==
    /\ \A t \in Trees : Kustomizations!IsTree(t)
    /\ Requests \subseteq Kustomizations!Request

ChartActions == {"get-chart-metadata", "render-chart"}
Actions == ChartActions \cup {"list-charts", "render-kustomization"}

\* What a reference can name: a chart in a repository that is served over HTTP
\* or OCI, or that has another scheme; a path of a git repository; nothing.
Roots == {"http", "oci", "scheme", "git", "nothing"}

\* Errors that have a type the controller knows, by what they say.
RemoteErrors ==
    {"helm repository not found", "helm chart not found", "provider missing"}
Causes == RemoteErrors \cup
    {"repository URL invalid", "git repository not found",
     "git reference not found", "chart reference invalid"}
Wraps == {"build", "render", "kustomization"}

\* Whatever has no such type: the cache, the network, an archive that cannot be
\* packed, unpacked or parsed, an absolute path, a context that was cancelled.
Untyped == "untyped"

Errors == [cause : Causes \cup {Untyped}, wrap : Wraps \cup {None}]

Error(cause, wrap) == [cause |-> cause, wrap |-> wrap]

\* None stands for what is not there.
ASSUME NoneIsNothing == None \notin Roots \cup Causes \cup Wraps \cup Errors

\* The causes a failing retrieval can have.
Retrieval ==
    [http |-> RemoteErrors \cup {Untyped},
     oci |-> (RemoteErrors \ {"helm repository not found"}) \cup {Untyped},
     scheme |-> {"repository URL invalid"},
     git |-> {"git repository not found", "git reference not found", Untyped},
     nothing |-> {"chart reference invalid"}]

ControllerTypeOK ==
    /\ action \in Actions
    /\ root \in Roots \cup {None}
    /\ handler \in {"provider", "renderer", "returned"}
    /\ failed \in Errors \cup {None}
    /\ written \in Seq([status : {200, 400, 500},
                        title : Causes \cup Wraps
                                \cup {"malformed body", "internal", None}])
    /\ Kustomizations!TypeOK

\* No chart is declared where none is asked for, and no tree packed where no
\* kustomization is: one value stands for all.
Start ==
    /\ Init /\ Kustomizations!Init
    /\ action \in Actions
    /\ root \in Roots
    /\ action \notin ChartActions =>
           declared = CHOOSE d \in [Slot -> Declared] : TRUE
    /\ action = "render-kustomization" => root = "git"
    /\ action = "list-charts" => root = "nothing"
    /\ action # "render-kustomization" => tree = CHOOSE t \in Trees : TRUE
    /\ handler = "provider"
    /\ failed = None
    /\ written = <<>>

Write(status, title) ==
    written' = Append(written, [status |-> status, title |-> title])

Answer(status, title) ==
    /\ Write(status, title)
    /\ handler' = "returned"

\* Mutant: what an error is wrapped in is looked for first.
TitleOfWrap(error) ==
    IF error.wrap # None THEN error.wrap
    ELSE IF error.cause = Untyped THEN "internal" ELSE error.cause

\* handleErrorWrapped: errors.As looks for each type anywhere in the chain, for
\* causes before what they are wrapped in.
Title(error) ==
    IF error.cause # Untyped THEN error.cause
    ELSE IF error.wrap # None THEN error.wrap
    ELSE "internal"

Status(error) == IF Title(error) = "internal" THEN 500 ELSE 400

-----------------------------------------------------------------------------
\* A body that does not fit the action is refused before its handler runs.
RefuseBody ==
    /\ handler = "provider" /\ pc = "source" /\ stage = "idle"
    /\ Answer(400, "malformed body")
    /\ UNCHANGED <<vars, kustomization, action, root, failed>>

\* Both handlers that are registered for /list-charts answer so.
ListCharts ==
    /\ handler = "provider" /\ action = "list-charts"
    /\ Answer(500, "internal")
    /\ UNCHANGED <<vars, kustomization, action, root, failed>>

-----------------------------------------------------------------------------
\* GetHelmChart: the chart is retrieved, which an absolute path prevents, and
\* loaded, where errors are wrapped.
GetChart ==
    /\ handler = "provider" /\ action \in ChartActions
    /\ Source
    /\ IF outcome' = None
       THEN /\ root \notin {"scheme", "nothing"}
            /\ root' = None
            /\ UNCHANGED failed
       ELSE /\ UNCHANGED root
            /\ \/ \E cause \in Retrieval[root] : failed' = Error(cause, None)
               \/ /\ root \notin {"scheme", "nothing"}
                  /\ failed' = Error(Untyped, "build")
    /\ UNCHANGED <<kustomization, action, handler, written>>

\* The rest of the call: whatever goes wrong is wrapped.
RejectDependency ==
    /\ Reject
    /\ failed' = Error(Untyped, "build")
    /\ UNCHANGED <<kustomization, action, root, handler, written>>

\* What can go wrong with the URL that a dependency declares; that of a chart
\* next to this one has no scheme that is known.
DependencyCauses(d) ==
    UNION {Retrieval[r] : r \in IF d.file = "none"
                                THEN {"http", "oci", "scheme"} ELSE {"scheme"}}

FailDependency(k) ==
    /\ FailToRetrieve(k)
    /\ \E cause \in DependencyCauses(declared[remote[k]]) :
           failed' = IF err = None THEN Error(cause, "build") ELSE failed
    /\ UNCHANGED <<kustomization, action, root, handler, written>>

CancelDependency(k) ==
    /\ NoticeCancel(k)
    /\ failed' = IF err = None THEN Error(Untyped, "build") ELSE failed
    /\ UNCHANGED <<kustomization, action, root, handler, written>>

BuildChart ==
    /\ \/ ResolveLocally \/ DeferToRemote \/ EndFirstPass \/ Spawn \/ EndSpawn
       \/ Wait \/ Add \/ Build
       \/ \E k \in Slot : Retrieve(k)
    /\ UNCHANGED <<kustomization, controller>>

LeaveClient ==
    /\ handler = "provider" /\ action \in ChartActions
    /\ ClientLeaves
    /\ UNCHANGED <<kustomization, controller>>

\* Mutant: the handler goes on after handleError.
AnswerErrorAndGoOn ==
    /\ handler = "provider" /\ action \in ChartActions
    /\ pc = "returned" /\ outcome # "built"
    /\ Write(Status(failed), Title(failed))
    /\ handler' = "renderer"
    /\ UNCHANGED <<vars, kustomization, action, root, failed>>

\* The chart cannot be had: handleError, and return.
AnswerError ==
    /\ handler = "provider" /\ action \in ChartActions
    /\ pc = "returned" /\ outcome # "built"
    /\ Answer(Status(failed), Title(failed))
    /\ UNCHANGED <<vars, kustomization, action, root, failed>>

\* Its default values are what is asked for.
AnswerMetadata ==
    /\ handler = "provider" /\ action = "get-chart-metadata"
    /\ pc = "returned" /\ outcome = "built"
    /\ Answer(200, None)
    /\ UNCHANGED <<vars, kustomization, action, root, failed>>

\* It is rendered, see ChartRenderer.
RenderChart ==
    /\ handler = "provider" /\ action = "render-chart"
    /\ pc = "returned" /\ outcome = "built"
    /\ handler' = "renderer"
    /\ UNCHANGED <<vars, kustomization, action, root, failed, written>>

AnswerRendered ==
    /\ handler = "renderer"
    /\ Answer(200, None)
    /\ UNCHANGED <<vars, kustomization, action, root, failed>>

AnswerUnrendered ==
    /\ handler = "renderer"
    /\ failed' = Error(Untyped, "render")
    /\ Answer(Status(failed'), Title(failed'))
    /\ UNCHANGED <<vars, kustomization, action, root>>

-----------------------------------------------------------------------------
\* A request for a kustomization begins; there may have been one before.
BeginKustomization ==
    /\ action = "render-kustomization"
    /\ stage = "idle" \/ handler = "returned"
    /\ Kustomizations!Begin
    /\ handler' = "provider"
    /\ failed' = None
    /\ written' = <<>>
    /\ UNCHANGED <<vars, action, root>>

Kustomize ==
    /\ Kustomizations!Step
    /\ UNCHANGED <<vars, controller>>

LoseArchive ==
    /\ Kustomizations!Expire
    /\ UNCHANGED <<vars, controller>>

\* Retrieving the tree fails, and is not wrapped; or rendering does, and is.
AnswerKustomizationError ==
    /\ handler = "provider" /\ stage = "failed"
    /\ \E cause \in IF failure = "source" THEN Retrieval["git"] ELSE {Untyped} :
           failed' = Error(cause, IF failure = "render"
                                  THEN "kustomization" ELSE None)
    /\ Answer(Status(failed'), Title(failed'))
    /\ UNCHANGED <<vars, kustomization, action, root>>

AnswerKustomization ==
    /\ handler = "provider" /\ stage = "rendered"
    /\ Answer(200, None)
    /\ UNCHANGED <<vars, kustomization, action, root, failed>>

-----------------------------------------------------------------------------
Handle ==
    \/ ListCharts
    \/ GetChart
    \/ RejectDependency
    \/ \E k \in Slot : FailDependency(k) \/ CancelDependency(k)
    \/ BuildChart
    \/ AnswerError
    \/ AnswerMetadata
    \/ RenderChart
    \/ AnswerRendered
    \/ AnswerUnrendered
    \/ Kustomize
    \/ AnswerKustomizationError
    \/ AnswerKustomization

ServiceNext ==
    \/ Handle
    \/ RefuseBody
    \/ LeaveClient
    \/ BeginKustomization
    \/ LoseArchive

\* A request that has begun goes on: its goroutines run, and a remote answers,
\* fails, or times out.
ServiceSpec == Start /\ [][ServiceNext]_everything /\ WF_everything(Handle)

-----------------------------------------------------------------------------
\* An answer is written once, and by then nothing is at work for it: the
\* handlers return after handleError (ctl_v1.go:107, 123, 129, 146, 152), and the chart
\* provider after its goroutines.
AnsweredOnce ==
    /\ Len(written) = IF handler = "returned" THEN 1 ELSE 0
    /\ written # <<>> => \A k \in Slot : worker[k] # "running"

\* The answer fits what has happened.  200: the chart has all its dependencies,
\* or kustomize has run.  500: nothing was asked that is implemented, or the
\* chart or tree that is named could not be retrieved for a reason without a
\* type; never for a dependency, nor for what is rendered.  400: otherwise, and
\* a cause with a type is named whatever it is wrapped in (error.go:35), git's
\* only when git was asked.
AnswerFitsWhatHappened ==
    written # <<>> =>
        LET answer == written[1] IN
        /\ answer.status = 200 =>
               \/ outcome = "built" /\ Len(added) = Dependencies
               \/ stage = "rendered"
        /\ answer.status = 500 =>
               \/ action = "list-charts"
               \/ action \in ChartActions /\ outcome = "source"
               \/ failure \in {"absolute", "source", "tree"}
        /\ outcome = "dependency" /\ failed.cause \in Causes =>
               answer.title = failed.cause
        /\ answer.title \in {"git repository not found",
                             "git reference not found"} =>
               root = "git"

\* A request that has begun is answered: no goroutine is waited for that was not
\* started, and no failure is left without an answer.
EveryRequestIsAnswered ==
    handler # "returned"
        /\ (action = "render-kustomization" => stage # "idle")
    ~> handler = "returned"

\* Kustomizations!KustomizeSeesTheTree, of the requests that are answered.
KustomizeSeesTheTree == Kustomizations!KustomizeSeesTheTree

\* Kustomizations!ArchivesAreWhole.
ArchivesAreWhole == Kustomizations!ArchivesAreWhole
=============================================================================
