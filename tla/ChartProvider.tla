--------------------------- MODULE ChartProvider ---------------------------
(***************************************************************************)
(* Building a Helm chart together with the charts it depends on.           *)
(*   internal/service/helm/chartprovider.go                                *)
(*                                                                         *)
(* One call of GetHelmChart.  The first pass goes through the declared     *)
(* dependencies and loads those it finds next to the chart.  The second    *)
(* one starts a goroutine of an errgroup for each of the others, which     *)
(* retrieves it through the chart cache.  When all goroutines have ended,  *)
(* the charts are added in the order in which they are declared.           *)
(*                                                                         *)
(* A dependency is its position in Chart.yaml, and a loaded chart the      *)
(* position it was loaded for with the place it was loaded from.           *)
(***************************************************************************)
EXTENDS Naturals, Sequences

CONSTANTS
    Dependencies,  \* number of dependencies the chart declares
    Declared,      \* what can be true of a declared dependency
    None           \* no chart (nil), no error, no outcome

\* Charts that are found locally are of the declared version, of another one,
\* or cannot be loaded; "none" in file stands for a repository that is not a
\* file:// URL.
Declaration ==
    [valid : BOOLEAN,
     file : {"none", "same", "other", "broken"},
     tgz : BOOLEAN,
     dir : {"none", "same", "other", "broken"},
     remote : {"available", "unavailable"}]

ASSUME ProviderAssumption ==
    /\ Dependencies \in Nat
    /\ Declared \subseteq Declaration
    /\ None \notin {"built", "source", "dependency", "cancelled"}

Slot == 1..Dependencies

Chart == Slot \X {"local", "remote"}

ASSUME NoneIsNoChart == None \notin Chart

VARIABLES
    declared,    \* Metadata.Dependencies
    pc,          \* how far the call has come
    next,        \* the loop variable
    resolved,    \* resolvedDeps
    remote,      \* remoteDeps: which dependencies to retrieve
    worker,      \* the goroutines of the errgroup, by position in remote
    err,         \* the first error a goroutine has returned
    cancelled,   \* whether the context of the group has been cancelled
    clientGone,  \* whether the context of the call has been cancelled
    added,       \* the dependencies that were added to the chart
    outcome      \* "built", or why the call has returned an error

vars == <<declared, pc, next, resolved, remote, worker, err, cancelled,
          clientGone, added, outcome>>
group == <<worker, err, cancelled>>

\* Where the first pass finds the chart of a dependency.  An archive under
\* charts/ is never loaded: loadChart walks a single file, whose path relative
\* to itself is empty, and finds no Chart.yaml.
Local(d) ==
    IF d.file # "none" THEN d.file ELSE IF d.tgz THEN "broken" ELSE d.dir

\* No provider serves the file:// URLs of charts that have another version.
Retrievable(d) == d.file = "none" /\ d.remote = "available"

TypeOK ==
    /\ declared \in [Slot -> Declared]
    /\ pc \in {"source", "first", "spawn", "wait", "add", "returned"}
    /\ next \in 1..(Dependencies + 1)
    /\ resolved \in [Slot -> Chart \cup {None}]
    /\ remote \in Seq(Slot)
    /\ worker \in [Slot -> {"none", "running", "ended"}]
    /\ err \in {None, "dependency", "cancelled"}
    /\ cancelled \in BOOLEAN
    /\ clientGone \in BOOLEAN
    /\ added \in Seq(Chart)
    /\ outcome \in {None, "built", "source", "dependency", "cancelled"}

Init ==
    /\ declared \in [Slot -> Declared]
    /\ pc = "source"
    /\ next = 1
    /\ resolved = [i \in Slot |-> None]
    /\ remote = <<>>
    /\ worker = [k \in Slot |-> "none"]
    /\ err = None
    /\ cancelled = FALSE
    /\ clientGone = FALSE
    /\ added = <<>>
    /\ outcome = None

Return(result) ==
    /\ pc' = "returned"
    /\ outcome' = result

-----------------------------------------------------------------------------
\* The reference is invalid, its path is absolute, the repository or the chart
\* cannot be retrieved or loaded; or there is a chart to resolve.
Source ==
    /\ pc = "source"
    /\ \/ Return("source")
       \/ pc' = "first" /\ UNCHANGED outcome
    /\ UNCHANGED <<declared, next, resolved, remote, group, clientGone, added>>

\* First pass: the dependency is there.
ResolveLocally ==
    /\ pc = "first" /\ next \in Slot
    /\ declared[next].valid
    /\ Local(declared[next]) = "same"
    /\ resolved' = [resolved EXCEPT ![next] = <<next, "local">>]
    /\ next' = next + 1
    /\ UNCHANGED <<declared, pc, remote, group, clientGone, added, outcome>>

\* Mutant: the index is off by one.
DeferBefore ==
    /\ pc = "first" /\ next \in Slot
    /\ declared[next].valid
    /\ Local(declared[next]) \in {"none", "other"}
    /\ remote' = Append(remote, next - 1)
    /\ next' = next + 1
    /\ UNCHANGED <<declared, pc, resolved, group, clientGone, added, outcome>>

\* First pass: it is not, or in another version.
DeferToRemote ==
    /\ pc = "first" /\ next \in Slot
    /\ declared[next].valid
    /\ Local(declared[next]) \in {"none", "other"}
    /\ remote' = Append(remote, next)
    /\ next' = next + 1
    /\ UNCHANGED <<declared, pc, resolved, group, clientGone, added, outcome>>

\* First pass: the declaration, or what is found for it, is broken.
Reject ==
    /\ pc = "first" /\ next \in Slot
    /\ ~declared[next].valid \/ Local(declared[next]) = "broken"
    /\ Return("dependency")
    /\ UNCHANGED <<declared, next, resolved, remote, group, clientGone, added>>

EndFirstPass ==
    /\ pc = "first" /\ next \notin Slot
    /\ pc' = IF remote = <<>> THEN "add" ELSE "spawn"
    /\ next' = 1
    /\ UNCHANGED <<declared, resolved, remote, group, clientGone, added, outcome>>

-----------------------------------------------------------------------------
\* Second pass: the goroutines are started one after the other, whatever those
\* that were started first have done meanwhile.
Spawn ==
    /\ pc = "spawn" /\ next <= Len(remote)
    /\ worker' = [worker EXCEPT ![next] = "running"]
    /\ next' = next + 1
    /\ UNCHANGED <<declared, pc, resolved, remote, err, cancelled, clientGone,
                   added, outcome>>

EndSpawn ==
    /\ pc = "spawn" /\ next > Len(remote)
    /\ pc' = "wait"
    /\ UNCHANGED <<declared, next, resolved, remote, group, clientGone, added,
                   outcome>>

\* Mutant: the slot is the position among the remote dependencies.
RetrieveInOrder(k) ==
    /\ worker[k] = "running"
    /\ Retrievable(declared[remote[k]])
    /\ resolved' = [resolved EXCEPT ![k] = <<remote[k], "remote">>]
    /\ worker' = [worker EXCEPT ![k] = "ended"]
    /\ UNCHANGED <<declared, pc, next, remote, err, cancelled, clientGone,
                   added, outcome>>

\* A goroutine retrieves its chart and writes it to the slot it was given.
Retrieve(k) ==
    /\ worker[k] = "running"
    /\ Retrievable(declared[remote[k]])
    /\ resolved' = [resolved EXCEPT ![remote[k]] = <<remote[k], "remote">>]
    /\ worker' = [worker EXCEPT ![k] = "ended"]
    /\ UNCHANGED <<declared, pc, next, remote, err, cancelled, clientGone,
                   added, outcome>>

\* A goroutine returns an error: the group keeps the first one and cancels the
\* context of the others.
EndWithError(k, error) ==
    /\ worker' = [worker EXCEPT ![k] = "ended"]
    /\ err' = IF err = None THEN error ELSE err
    /\ cancelled' = TRUE
    /\ UNCHANGED <<declared, pc, next, resolved, remote, clientGone, added,
                   outcome>>

FailToRetrieve(k) ==
    /\ worker[k] = "running"
    /\ ~Retrievable(declared[remote[k]])
    /\ EndWithError(k, "dependency")

NoticeCancel(k) ==
    /\ worker[k] = "running"
    /\ cancelled \/ clientGone
    /\ EndWithError(k, "cancelled")

\* Mutant: an error is returned at once.
WaitForError ==
    /\ pc = "wait"
    /\ err = None => \A k \in 1..Len(remote) : worker[k] = "ended"
    /\ IF err = None
       THEN pc' = "add" /\ UNCHANGED outcome
       ELSE Return(err)
    /\ cancelled' = TRUE
    /\ next' = 1
    /\ UNCHANGED <<declared, resolved, remote, worker, err, clientGone, added>>

\* Mutant: the error is that of the context of the group.
WaitForContext ==
    /\ pc = "wait"
    /\ \A k \in 1..Len(remote) : worker[k] = "ended"
    /\ IF ~cancelled
       THEN pc' = "add" /\ UNCHANGED outcome
       ELSE Return("cancelled")
    /\ cancelled' = TRUE
    /\ next' = 1
    /\ UNCHANGED <<declared, resolved, remote, worker, err, clientGone, added>>

\* Mutant: goroutines that were never started are waited for.
WaitForAll ==
    /\ pc = "wait"
    /\ \A k \in Slot : worker[k] = "ended"
    /\ IF err = None
       THEN pc' = "add" /\ UNCHANGED outcome
       ELSE Return(err)
    /\ cancelled' = TRUE
    /\ next' = 1
    /\ UNCHANGED <<declared, resolved, remote, worker, err, clientGone, added>>

\* g.Wait returns when all goroutines have, with the first of their errors.
Wait ==
    /\ pc = "wait"
    /\ \A k \in 1..Len(remote) : worker[k] = "ended"
    /\ IF err = None
       THEN pc' = "add" /\ UNCHANGED outcome
       ELSE Return(err)
    /\ cancelled' = TRUE
    /\ next' = 1
    /\ UNCHANGED <<declared, resolved, remote, worker, err, clientGone, added>>

\* The charts are added in declared order; missing ones are passed over.
Add ==
    /\ pc = "add" /\ next \in Slot
    /\ added' = IF resolved[next] = None
                THEN added ELSE Append(added, resolved[next])
    /\ next' = next + 1
    /\ UNCHANGED <<declared, pc, resolved, remote, group, clientGone, outcome>>

Build ==
    /\ pc = "add" /\ next \notin Slot
    /\ Return("built")
    /\ UNCHANGED <<declared, next, resolved, remote, group, clientGone, added>>

-----------------------------------------------------------------------------
\* The client closes its connection.
ClientLeaves ==
    /\ pc # "returned" /\ ~clientGone
    /\ clientGone' = TRUE
    /\ UNCHANGED <<declared, pc, next, resolved, remote, group, added, outcome>>

CallStep ==
    \/ Source
    \/ ResolveLocally
    \/ DeferToRemote
    \/ Reject
    \/ EndFirstPass
    \/ Spawn
    \/ EndSpawn
    \/ Wait
    \/ Add
    \/ Build

WorkerStep(k) == Retrieve(k) \/ FailToRetrieve(k) \/ NoticeCancel(k)

Next ==
    \/ CallStep
    \/ \E k \in Slot : WorkerStep(k)
    \/ ClientLeaves

Spec == Init /\ [][Next]_vars

-----------------------------------------------------------------------------
\* What the dependency at position i has to become.
Expected(i) ==
    <<i, IF Local(declared[i]) = "same" THEN "local" ELSE "remote">>

\* A chart that is built has all its dependencies, each at its place and from
\* where it was declared to come, in whatever order the goroutines ended.
BuiltIsComplete ==
    outcome = "built" => added = [i \in Slot |-> Expected(i)]

\* The error that is returned is a cause and not a consequence: a goroutine
\* that is cancelled because another one failed does not mask that failure.
ErrorIsTheCause ==
    /\ outcome = "cancelled" => clientGone
    /\ outcome = "dependency" =>
           \E i \in Slot :
               \/ ~declared[i].valid
               \/ Local(declared[i]) = "broken"
               \/ Local(declared[i]) # "same" /\ ~Retrievable(declared[i])

\* While the slots are read, and after the call, no goroutine writes them.
NothingOutlivesTheCall ==
    pc \in {"add", "returned"} => \A k \in Slot : worker[k] # "running"
=============================================================================
