------------------------- MODULE Application_proofs -------------------------
(***************************************************************************)
(* Proofs about ServerLifecycle and Application, for any settings, hosts   *)
(* and requests.  The process does what ServerLifecycle says, so that the  *)
(* theorems about the life cycle are theorems about the process.  Its own  *)
(* invariant ties what has been created to the order of Create, and spans  *)
(* to the part that exports them.                                          *)
(***************************************************************************)
EXTENDS Application, TLAPS, WellFoundedInduction

-----------------------------------------------------------------------------
(* The life cycle.  The inductive invariant ties the main goroutine to the *)
(* stopper: the socket is open only while main serves and no signal has    *)
(* been received, so that nothing is accepted behind the back of Shutdown, *)
(* and Run returns success only after Shutdown began.                      *)

\* How the threads are coupled by the order of the statements in Run.
Coupling ==
    /\ main \in {"creating", "created"} => stopper = "none"
    /\ main \in {"starting", "serving"} => stopper # "none"
    /\ main \in {"creating", "created", "starting", "serving"} =>
           exit = Undecided
    /\ main \in {"teardown", "cancelled", "exited"} => exit # Undecided
    /\ main \in {"teardown", "cancelled"} => exit \notin {Fatal, Killed, DirtyShutdown}
    /\ listener = "open" => main = "serving" /\ stopper = "waiting"
    /\ main = "serving" /\ listener = "closed" =>
           stopper \in {"draining", "done"}

\* What each exit code gives away.
Evidence ==
    /\ exit = Success => stopper \in {"draining", "done"}
    /\ exit \in {Fatal, CreateFailed, Killed} => stopper = "none"
    /\ exit = DirtyShutdown => timer = 0
    /\ stopper = "none" \/ main = "starting" =>
           listener # "open" /\ \A q \in Request : request[q] = "unsent"
    /\ timer < Grace => \E q \in Request : request[q] # "unsent"

\* Where requests can be lost or cut short.
Accounting ==
    \A q \in Request :
        /\ request[q] = "dropped" => main = "exited"
        /\ request[q] = "aborted" => main \in {"cancelled", "exited"}
        /\ main = "exited" => request[q] # "running"
        /\ stopper = "done" => request[q] \notin {"running", "dropped"}

Inv == TypeOK /\ Coupling /\ Evidence /\ Accounting

LEMMA InitInv == Init => Inv
<1> SUFFICES ASSUME Init PROVE Inv
  OBVIOUS
<1> USE GraceAssumption DEF Init, Undecided, Success, Fatal, Killed, DirtyShutdown,
        CreateFailed, RunFailed
<1>1. TypeOK
  <2>1. timer \in 0..Grace
    OBVIOUS
  <2>2. request \in [Request -> {"unsent", "running", "answered",
                                "aborted", "dropped"}]
    OBVIOUS
  <2> QED BY <2>1, <2>2 DEF TypeOK
<1>2. Coupling
  BY DEF Coupling
<1>3. Evidence
  BY DEF Evidence
<1>4. Accounting
  BY DEF Accounting
<1> QED BY <1>1, <1>2, <1>3, <1>4 DEF Inv

\* The invariant is inductive: one case for every action of the model.
LEMMA NextInv == Inv /\ [Next]_vars => Inv'
<1> SUFFICES ASSUME Inv, [Next]_vars PROVE Inv'
  OBVIOUS
<1> USE GraceAssumption DEF Inv, TypeOK, Coupling, Evidence, Accounting,
        Undecided, Success, Fatal, Killed, DirtyShutdown, CreateFailed,
        RunFailed
<1>1. CASE Create
  BY <1>1 DEF Create, Return
<1>2. CASE Notify
  BY <1>2 DEF Notify
<1>3. CASE Listen
  BY <1>3 DEF Listen, Return
<1>4. CASE ServerClosed
  BY <1>4 DEF ServerClosed, Return
<1>5. CASE Teardown
  BY <1>5 DEF Teardown
<1>6. CASE ExitMain
  BY <1>6 DEF ExitMain, Exit, Running
<1>7. CASE Signal
  <2>1. CASE stopper = "none"
    BY <1>7, <2>1 DEF Signal, Exit, Running
  <2>2. CASE stopper # "none"
    BY <1>7, <2>2 DEF Signal
  <2> QED BY <2>1, <2>2
<1>8. CASE Stop
  BY <1>8 DEF Stop
<1>9. CASE Drained
  BY <1>9 DEF Drained, Running
<1>10. CASE Expire
  BY <1>10 DEF Expire, Exit, Running
<1>11. CASE Tick
  BY <1>11 DEF Tick, Running
<1>12. CASE \E q \in Request : Accept(q)
  BY <1>12 DEF Accept
<1>13. CASE \E q \in Request : Answer(q)
  BY <1>13 DEF Answer
<1>14. CASE \E q \in Request : Abort(q)
  BY <1>14 DEF Abort
<1>15. CASE AcceptFails
  BY <1>15 DEF AcceptFails, Return
<1>16. CASE RejectEnvironment
  BY <1>16 DEF RejectEnvironment, Exit, Running
<1>17. CASE UNCHANGED vars
  BY <1>17 DEF vars
<1> QED
  BY <1>1, <1>2, <1>3, <1>4, <1>5, <1>6, <1>7, <1>8, <1>9, <1>10, <1>11,
     <1>12, <1>13, <1>14, <1>15, <1>16, <1>17
  DEF Next, MainStep, StopperStep

\* The inductive invariant holds in every state of every behaviour.
THEOREM Invariance == Spec => []Inv
BY InitInv, NextInv, PTL DEF Spec

\* Every variable keeps its type, for any requests and any grace period.
THEOREM TypeCorrectness == Spec => []TypeOK
<1>1. Inv => TypeOK
  BY DEF Inv
<1> QED BY <1>1, Invariance, PTL

\* The exit code tells the truth about how the process has ended.
THEOREM ExitCodesAreHonest == Spec => []HonestExitCode
<1>1. Inv => HonestExitCode
  BY GraceAssumption
  DEF Inv, TypeOK, Coupling, Evidence, HonestExitCode, Undecided, Success, Fatal,
      Killed, DirtyShutdown, CreateFailed, RunFailed
<1> QED BY <1>1, Invariance, PTL

\* When Shutdown has returned, no accepted request is running or lost.
THEOREM ShutdownIsComplete == Spec => []ShutdownLeavesNothing
<1>1. Inv => ShutdownLeavesNothing
  BY DEF Inv, Accounting, ShutdownLeavesNothing
<1> QED BY <1>1, Invariance, PTL

-----------------------------------------------------------------------------
(* The process.                                                            *)

\* Nothing is created before what it needs, and with the configuration comes
\* the list of providers.
CreationOK ==
    /\ \A part \in created : {part} \X Needs(part) \subseteq given
    /\ main \in {"created", "starting", "serving"} => created = Parts
    /\ "configuration" \in created =>
           hostProviders = HelmHostProviders(setting) /\ ~IsRejected(setting)

\* The exporter is there before, and as long as, the tracer provider is.
TelemetryOK ==
    /\ main = "creating" /\ "tracesExporter" \in created => exporter = "running"
    /\ TelemetryIsShutDown
    /\ main = "exited" /\ exit \in {Success, RunFailed} => tracer # "running"

\* A span waits only for a tracer provider that will export it, and is lost
\* only if it cannot.
SpansOK ==
    \A q \in Request :
        /\ span[q] = "queued" => tracer = "running"
        /\ span[q] = "lost" => ~collector

ProcessInv == ApplicationTypeOK /\ CreationOK /\ TelemetryOK /\ SpansOK

-----------------------------------------------------------------------------
\* The order of Create, part by part.
LEMMA OrderIs ==
    /\ Len(Order) = 24
    /\ Order[1] = "clock" /\ Order[2] = "clientFactory"
    /\ Order[3] = "logging" /\ Order[4] = "configuration"
    /\ Order[5] = "metricsExporter" /\ Order[6] = "meterProvider"
    /\ Order[7] = "tracesExporter" /\ Order[8] = "tracerProvider"
    /\ Order[9] = "gitHubClient" /\ Order[10] = "git"
    /\ Order[11] = "helmRemote" /\ Order[12] = "gitRepositoryCache"
    /\ Order[13] = "helmIndexCache" /\ Order[14] = "helmChartCache"
    /\ Order[15] = "helmChartProvider" /\ Order[16] = "helmChartRenderer"
    /\ Order[17] = "kustomizationProvider"
    /\ Order[18] = "kustomizationRenderer"
    /\ Order[19] = "healthController" /\ Order[20] = "swaggerController"
    /\ Order[21] = "metricsController" /\ Order[22] = "profilerController"
    /\ Order[23] = "v1Controller" /\ Order[24] = "server"
<1>1. /\ Len(Bootstrap) = 4 /\ Len(Telemetry) = 4 /\ Len(Repositories) = 3
      /\ Len(Services) = 7 /\ Len(Web) = 6
  BY DEF Bootstrap, Telemetry, Repositories, Services, Web
<1> QED
  BY <1>1 DEF Order, Bootstrap, Telemetry, Repositories, Services, Web

\* Create comes to a part after all those that it needs.
LEMMA NeedsComeFirst ==
    ASSUME NEW i \in 1..Len(Order), NEW need \in Needs(Order[i])
    PROVE  \E j \in 1..(i - 1) : Order[j] = need
<1>1. PICK k \in 1..24 : i = k
  BY OrderIs
<1> QED
  BY <1>1, OrderIs, SMTT(60) DEF Needs, TelemetryNeeds, RepositoryNeeds, ServiceNeeds, WebNeeds

LEMMA PartsAre == /\ \A i \in 1..Len(Order) : Order[i] \in Parts
                  /\ "configuration" \in Parts
<1>1. 4 \in 1..Len(Order) /\ Order[4] = "configuration"
  BY OrderIs
<1> QED BY <1>1 DEF Parts

\* When Create comes to a part, what it needs has been created.
LEMMA NextHasItsNeeds ==
    ASSUME NEW part \in Parts, IsNext(part)
    PROVE  Needs(part) \subseteq created
<1> SUFFICES ASSUME NEW need \in Needs(part) PROVE need \in created
  OBVIOUS
<1>1. PICK i \in 1..Len(Order) :
          part = Order[i] /\ \A j \in 1..(i - 1) : Order[j] \in created
  BY DEF IsNext
<1>2. PICK j \in 1..(i - 1) : Order[j] = need
  BY <1>1, NeedsComeFirst
<1> QED BY <1>1, <1>2

LEMMA TracerNeedsExporter == "tracesExporter" \in Needs("tracerProvider")
<1> DEFINE pair == <<"tracerProvider", "tracesExporter">>
<1>1. pair \in TelemetryNeeds /\ pair[1] = "tracerProvider"
  BY DEF TelemetryNeeds
<1> QED BY <1>1 DEF Needs

-----------------------------------------------------------------------------
\* The process does what the life cycle says, and no more.
THEOREM LifeCycleIsImplemented == ProcessSpec => Spec
<1>1. Start => Init
  BY DEF Start
<1>2. [ProcessNext]_process => [Next]_vars
  BY DEF ProcessNext, Run, RejectDotEnv, CreatePart, FailToCreate, EndCreate,
         Serve, ShutDownMeter, ShutDownTracer, ShutDownExporter,
         CancelRequests, StopServer, PassTime, Surroundings, Export, EndSpan,
         Next, MainStep, process
<1> QED BY <1>1, <1>2, PTL DEF ProcessSpec, Spec

-----------------------------------------------------------------------------
LEMMA StartInv == Start => ProcessInv
BY DEF Start, Init, ProcessInv, ApplicationTypeOK, CreationOK, TelemetryOK,
       TelemetryIsShutDown, SpansOK

\* Create makes one part.
LEMMA CreatePartInv ==
    ASSUME Inv, ProcessInv, CreatePart PROVE ProcessInv'
<1> PICK part \in Parts :
        /\ IsNext(part)
        /\ part = "configuration" => ~IsRejected(setting)
        /\ created' = created \cup {part}
        /\ given' = given \cup {part} \X (Needs(part) \cap created)
        /\ hostProviders' = IF part = "configuration"
                            THEN HelmHostProviders(setting) ELSE hostProviders
        /\ meter' = IF part = "meterProvider" THEN "running" ELSE meter
        /\ exporter' = IF part = "tracesExporter" THEN "running" ELSE exporter
        /\ tracer' = IF part = "tracerProvider" THEN "running" ELSE tracer
  BY DEF CreatePart
<1>0. main = "creating" /\ UNCHANGED <<vars, setting, collector, span>>
  BY DEF CreatePart
<1>1. Needs(part) \subseteq created
  BY NextHasItsNeeds
<1>2. ApplicationTypeOK'
  <2>1. given' \subseteq Parts \X Parts
    BY DEF ProcessInv, ApplicationTypeOK
  <2> QED BY <1>0, <2>1 DEF ProcessInv, ApplicationTypeOK, vars
<1>3. CreationOK'
  <2>1. \A p \in created' : {p} \X Needs(p) \subseteq given'
    BY <1>1 DEF ProcessInv, CreationOK
  <2> QED BY <1>0, <2>1 DEF ProcessInv, CreationOK, vars
<1>4. TelemetryOK'
  <2>1. part = "tracerProvider" => "tracesExporter" \in created
    BY <1>1, TracerNeedsExporter
  <2> QED BY <1>0, <2>1 DEF ProcessInv, TelemetryOK, TelemetryIsShutDown, vars
<1>5. SpansOK'
  BY <1>0 DEF ProcessInv, SpansOK
<1> QED BY <1>2, <1>3, <1>4, <1>5 DEF ProcessInv

\* What is exported, or lost, when a batch is: all that has been waiting.
LEMMA FlushOK ==
    ASSUME ApplicationTypeOK, tracer = "running", TelemetryOK, SpansOK, Flush,
           UNCHANGED <<request, collector>>
    PROVE  /\ span' \in [Request -> {"none", "queued", "exported", "lost", "late"}]
           /\ \A q \in Request :
                 /\ span'[q] = "none" <=> span[q] = "none"
                 /\ span'[q] # "queued"
                 /\ span'[q] = "lost" => ~collector
BY DEF ApplicationTypeOK, TelemetryOK, TelemetryIsShutDown, SpansOK, Flush

LEMMA ProcessStep == ASSUME Inv, Inv', ProcessInv, [ProcessNext]_process
                     PROVE  ProcessInv'
<1> USE DEF ProcessInv, CreationOK, TelemetryOK, TelemetryIsShutDown,
            ApplicationTypeOK, SpansOK, parts, telemetry, Undecided, Success,
            Fatal, Killed, DirtyShutdown, CreateFailed, RunFailed
<1>0. TypeOK /\ TypeOK'
  BY DEF Inv
<1>1. CASE RejectDotEnv
  BY <1>0, <1>1 DEF RejectDotEnv, RejectEnvironment, Exit, Running, TypeOK
<1>2. CASE CreatePart
  BY <1>2, CreatePartInv
<1>3. CASE FailToCreate
  BY <1>3 DEF FailToCreate, Create, Return
<1>4. CASE EndCreate
  BY <1>4 DEF EndCreate, Create, Return
<1>5. CASE Serve
  <2>1. CASE Notify
    BY <1>5, <2>1 DEF Serve, Notify
  <2>2. CASE Listen
    BY <1>5, <2>2 DEF Serve, Listen, Return
  <2>3. CASE ServerClosed
    BY <1>5, <2>3 DEF Serve, ServerClosed, Return
  <2>4. CASE ExitMain
    BY <1>0, <1>5, <2>4 DEF Serve, ExitMain, Exit, Running, TypeOK
  <2> QED BY <1>5, <2>1, <2>2, <2>3, <2>4 DEF Serve
<1>6. CASE ShutDownMeter
  BY <1>6 DEF ShutDownMeter, vars
<1>7. CASE ShutDownTracer
  <2>1. tracer = "running" /\ Flush /\ UNCHANGED <<request, collector>>
    BY <1>7 DEF ShutDownTracer, vars
  <2> QED BY <1>7, <2>1, FlushOK DEF ShutDownTracer, vars
<1>8. CASE ShutDownExporter
  BY <1>8 DEF ShutDownExporter, vars
<1>9. CASE CancelRequests
  BY <1>9 DEF CancelRequests, Teardown
<1>10. CASE StopServer
  <2>1. CASE Stop
    BY <1>10, <2>1 DEF StopServer, Stop
  <2>2. CASE Drained
    BY <1>10, <2>2 DEF StopServer, Drained
  <2>3. CASE Expire
    BY <1>0, <1>10, <2>3 DEF StopServer, Expire, Exit, Running, TypeOK
  <2> QED BY <1>10, <2>1, <2>2, <2>3 DEF StopServer, StopperStep
<1>11. CASE PassTime
  BY <1>11 DEF PassTime, Tick
<1>12. CASE Surroundings
  <2>1. CASE AcceptFails
    BY <1>12, <2>1 DEF Surroundings, AcceptFails, Return
  <2>2. CASE Signal
    BY <1>0, <1>12, <2>2 DEF Surroundings, Signal, Exit, Running, TypeOK
  <2>3. CASE \E q \in Request : Accept(q)
    BY <1>0, <1>12, <2>3 DEF Surroundings, Accept, TypeOK
  <2> QED BY <1>12, <2>1, <2>2, <2>3 DEF Surroundings
<1>13. CASE Export
  <2>1. tracer = "running" /\ Flush /\ UNCHANGED <<request, collector>>
    BY <1>13 DEF Export, vars
  <2> QED BY <1>13, <2>1, FlushOK DEF Export, vars
<1>14. CASE \E q \in Request : EndSpan(q)
  <2> PICK q \in Request : EndSpan(q)
    BY <1>14
  <2>1. /\ UNCHANGED <<main, exit, parts, telemetry>>
        /\ \/ request' = [request EXCEPT ![q] = "answered"]
           \/ request' = [request EXCEPT ![q] = "aborted"]
    BY DEF EndSpan, Answer, Abort
  <2>2. \/ span' = [span EXCEPT ![q] = "queued"] /\ tracer = "running"
        \/ span' = [span EXCEPT ![q] = "late"]
    BY DEF EndSpan
  <2>3. /\ request'[q] \in {"answered", "aborted"}
        /\ span'[q] = "late" \/ (span'[q] = "queued" /\ tracer = "running")
        /\ \A p \in Request \ {q} : request'[p] = request[p] /\ span'[p] = span[p]
    BY <1>0, <2>1, <2>2 DEF TypeOK
  <2>4. ApplicationTypeOK'
    BY <2>1, <2>2, <2>3
  <2>5. SpansOK'
    BY <2>1, <2>2, <2>3
  <2> QED BY <2>1, <2>4, <2>5
<1>15. CASE UNCHANGED process
  BY <1>15 DEF process, vars
<1> QED
  BY <1>1, <1>2, <1>3, <1>4, <1>5, <1>6, <1>7, <1>8, <1>9, <1>10, <1>11,
     <1>12, <1>13, <1>14, <1>15
  DEF ProcessNext, Run

\* The invariant of the process holds in every state of every behaviour.
THEOREM ProcessInvariance == ProcessSpec => [](Inv /\ ProcessInv)
<1>1. Start => ProcessInv
  BY StartInv
<1>2. Inv /\ Inv' /\ ProcessInv /\ [ProcessNext]_process => ProcessInv'
  BY ProcessStep
<1> QED BY <1>1, <1>2, LifeCycleIsImplemented, Invariance, PTL DEF ProcessSpec

\* Every variable of the process keeps its type, and a request has a span
\* exactly when it has ended.
THEOREM ApplicationTypes == ProcessSpec => []ApplicationTypeOK
<1>1. ProcessInv => ApplicationTypeOK
  BY DEF ProcessInv
<1> QED BY <1>1, ProcessInvariance, PTL

\* No part of a service that listens was given a nil.
THEOREM PartsAreThere == ProcessSpec => []NoPartIsNil
<1>1. ProcessInv => NoPartIsNil
  BY DEF ProcessInv, CreationOK, NoPartIsNil
<1> QED BY <1>1, ProcessInvariance, PTL

\* Telemetry is shut down when Run returns, and its exporter is never missing.
THEOREM TelemetryEnds == ProcessSpec => []TelemetryIsShutDown
<1>1. ProcessInv => TelemetryIsShutDown
  BY DEF ProcessInv, TelemetryOK
<1> QED BY <1>1, ProcessInvariance, PTL

\* When Run returns, no span waits that could have been exported.
THEOREM SpansAreExported == ProcessSpec => []EndedSpansAreExported
<1>1. ProcessInv => EndedSpansAreExported
  BY DEF ProcessInv, TelemetryOK, TelemetryIsShutDown, SpansOK,
         EndedSpansAreExported
<1> QED BY <1>1, ProcessInvariance, PTL

-----------------------------------------------------------------------------
\* A set of natural numbers has a least one, which Min chooses.
LEMMA LeastIsChosen ==
    ASSUME NEW I \in SUBSET Nat, I # {}
    PROVE  Min(I) \in I /\ \A i \in I : Min(I) <= i
<1> DEFINE less == {pair \in Nat \X Nat : pair[1] < pair[2]}
<1>1. PICK x \in I : \A y \in I : <<y, x>> \notin less
  <2>1. IsWellFoundedOn(less, Nat)
    BY NatLessThanWellFounded, Zenon DEF OpToRel
  <2> HIDE DEF less
  <2> QED BY <2>1, WFMin
<1>2. ASSUME NEW y \in I
      PROVE  x <= y
  <2>1. x \in Nat /\ y \in Nat /\ <<y, x>> \notin less
    BY <1>1
  <2>2. ~(y < x)
    BY <2>1
  <2> HIDE DEF less
  <2> QED BY <2>1, <2>2
<1> QED BY <1>2 DEF Min

\* ByScheme is the first provider that has the scheme.
LEMMA FirstIsChosen ==
    ASSUME NEW p, Len(p) \in Nat, NEW scheme,
           NEW I, I = {i \in 1..Len(p) : scheme \in p[i].schemes}
    PROVE  /\ I = {} => ByScheme(p, scheme) = NoProvider
           /\ I # {} => /\ ByScheme(p, scheme) = p[Min(I)]
                        /\ Min(I) \in I
                        /\ \A i \in I : Min(I) <= i
<1>1. I \in SUBSET Nat
  OBVIOUS
<1>2. I # {} => Min(I) \in I /\ \A i \in I : Min(I) <= i
  BY <1>1, LeastIsChosen
<1>3. SelectInSeq(p, LAMBDA q : scheme \in q.schemes) = IF I # {} THEN Min(I) ELSE 0
  BY DEF SelectInSeq
<1> QED BY <1>2, <1>3 DEF ByScheme

\* A type is read by its word, however that is spelled.
LEMMA TypeIsRead ==
    ASSUME NEW entry \in Entry,
           Type(entry) \in HTTPTypes \cup {Plain("oci")}
    PROVE  /\ IsSupported(entry)
           /\ Getter(entry) = "oci" <=> entry.type.word = "oci"
<1>1. entry.type \in Text
  BY DEF Entry
<1>2. Type(entry).word = entry.type.word
  BY <1>1 DEF Type, ToLower, TrimSpace, Text
<1>3. \A word : Plain(word).word = word
  BY DEF Plain
<1>4. CASE Type(entry) \in HTTPTypes
  <2>1. PICK word \in HTTP : Type(entry) = Plain(word)
    BY <1>4 DEF HTTPTypes
  <2>2. entry.type.word = word
    BY <1>2, <1>3, <2>1, Zenon
  <2> QED BY <1>4, <2>2 DEF IsSupported, Getter, HTTP
<1>5. CASE Type(entry) \notin HTTPTypes
  <2>1. entry.type.word = "oci"
    BY <1>2, <1>3, <1>5, Zenon
  <2> QED BY <1>5, <2>1 DEF IsSupported, Getter
<1> QED BY <1>4, <1>5

\* The provider that is made of an entry does what the entry says.
LEMMA ProviderIsConfigured ==
    ASSUME setting \in Settings, NEW host \in DOMAIN setting.providers,
           NEW i \in DOMAIN setting.providers[host],
           NEW entry, entry = setting.providers[host][i],
           Type(entry) \in HTTPTypes \cup {Plain("oci")}
    PROVE  /\ IsConfigured(Provider(setting, entry), entry)
           /\ Provider(setting, entry) # NoProvider
           /\ \A scheme \in Schemes :
                  scheme \in Provider(setting, entry).schemes <=>
                      Serves(entry, scheme)
<1> DEFINE u == Username(setting, entry)
           p == Password(setting, entry)
           auth == BasicAuth(setting, entry)
<1>1. entry \in Entry
  <2>1. setting.providers[host] \in Seq(Entry)
    BY SettingsAssumption DEF IsSetting
  <2> QED BY <2>1
<1>2. /\ "" \notin {u, p} => auth = <<u, p>>
      /\ "" \in {u, p} => auth = Anonymous
  BY DEF BasicAuth
<1>3. u # "" => u \in Usernames(entry)
  BY DEF Username, Usernames
<1>4. p # "" => p \in Passwords(entry)
  BY DEF Password, Passwords
<1>5. NamedOnce(entry) =>
          /\ u = "" => Usernames(entry) = {}
          /\ p = "" => Passwords(entry) = {}
  <2> SUFFICES ASSUME NamedOnce(entry)
               PROVE  /\ u = "" => Usernames(entry) = {}
                      /\ p = "" => Passwords(entry) = {}
    OBVIOUS
  <2>1. u = "" => entry.username = "" /\ Getenv(setting, entry.usernameEnvVar) = ""
    BY DEF Username
  <2>2. p = "" => entry.password = "" /\ Getenv(setting, entry.passwordEnvVar) = ""
    BY DEF NamedOnce, Password, Getenv
  <2> QED BY <2>1, <2>2 DEF Usernames, Passwords
<1>6. /\ auth \in (Usernames(entry) \X Passwords(entry)) \cup {Anonymous}
      /\ NamedOnce(entry) /\ auth = Anonymous =>
             {} \in {Usernames(entry), Passwords(entry)}
  <2> HIDE DEF u, p, auth
  <2>1. CASE "" \in {u, p}
    <3>1. auth = Anonymous
      BY <1>2, <2>1
    <3>2. u = "" \/ p = ""
      BY <2>1
    <3>3. NamedOnce(entry) => Usernames(entry) = {} \/ Passwords(entry) = {}
      BY <1>5, <3>2, Zenon
    <3> QED BY <3>1, <3>3
  <2>2. CASE "" \notin {u, p}
    <3>1. auth = <<u, p>> /\ u \in Usernames(entry) /\ p \in Passwords(entry)
      BY <1>2, <1>3, <1>4, <2>2
    <3>2. auth # Anonymous
      BY <2>2, <3>1 DEF Anonymous
    <3> QED BY <3>1, <3>2
  <2> QED BY <2>1, <2>2
<1>7. /\ IsSupported(entry)
      /\ Getter(entry) = "oci" <=> entry.type.word = "oci"
  BY <1>1, TypeIsRead
<1>8. \A scheme \in Schemes : scheme \in SchemesOf(entry) <=> Serves(entry, scheme)
  <2>1. Getter(entry) \in {"http", "oci"}
    BY DEF Getter
  <2> QED BY <1>1, <1>7, <2>1 DEF SchemesOf, Serves, Entry, Schemes, HTTP
<1> HIDE DEF u, p, auth
<1>9. /\ Provider(setting, entry).auth = auth
      /\ Provider(setting, entry).getter = Getter(entry)
      /\ Provider(setting, entry).schemes = SchemesOf(entry)
  BY DEF Provider, auth
<1>10. Provider(setting, entry) # NoProvider
  BY NoProviderAssumption DEF HelmHostProviders
<1> QED BY <1>6, <1>7, <1>8, <1>9, <1>10 DEF IsConfigured

\* Whatever the setting holds, of any hosts and in any spelling, what serves a
\* URL is what it says, and no credentials go to a host it does not name.
THEOREM ConfigurationIsKept == ProcessSpec => []ProvidersAreAsConfigured
<1>1. ProcessInv => ProvidersAreAsConfigured
  <2> SUFFICES ASSUME ProcessInv, main \in {"starting", "serving"}
               PROVE  ProvidersAreAsConfigured
    BY DEF ProvidersAreAsConfigured
  <2>1. /\ setting \in Settings /\ ~IsRejected(setting)
        /\ hostProviders = HelmHostProviders(setting)
    BY PartsAre DEF ProcessInv, ApplicationTypeOK, CreationOK
  <2>2. /\ setting.json
        /\ \A host \in DOMAIN setting.providers :
               \A i \in DOMAIN setting.providers[host] :
                   Type(setting.providers[host][i]) \in HTTPTypes \cup {Plain("oci")}
    BY <2>1 DEF IsRejected
  <2>3. \A host \in DOMAIN setting.providers :
            \A i \in DOMAIN setting.providers[host] :
                IsSupported(setting.providers[host][i])
    BY <2>1, <2>2, ProviderIsConfigured DEF IsConfigured
  <2>4. ASSUME NEW host \in Hosts, NEW scheme \in Schemes,
               host \notin DOMAIN setting.providers
        PROVE  ProviderFor(hostProviders, host, scheme) = NoProvider
    BY <2>1, <2>4 DEF ProviderFor, HelmHostProviders
  <2>5. ASSUME NEW host \in Hosts, NEW scheme \in Schemes,
               host \in DOMAIN setting.providers
        PROVE  IsServedBy(ProviderFor(hostProviders, host, scheme),
                          setting.providers[host], scheme)
    <3> DEFINE provider == ProviderFor(hostProviders, host, scheme)
               entries == setting.providers[host]
               serving == {i \in 1..Len(entries) : Serves(entries[i], scheme)}
               made == hostProviders[host]
    <3>1. entries \in Seq(Entry)
      BY <2>1, <2>5, SettingsAssumption DEF IsSetting
    <3>2. made = [i \in DOMAIN entries |-> Provider(setting, entries[i])]
      BY <2>1, <2>5 DEF HelmHostProviders
    <3>3. Len(made) = Len(entries) /\ Len(entries) \in Nat
          /\ DOMAIN entries = 1..Len(entries)
      BY <3>1, <3>2
    <3>4. \A i \in 1..Len(entries) :
              /\ IsConfigured(made[i], entries[i])
              /\ made[i] # NoProvider
              /\ scheme \in made[i].schemes <=> Serves(entries[i], scheme)
      <4> SUFFICES ASSUME NEW i \in 1..Len(entries)
                   PROVE  /\ IsConfigured(made[i], entries[i])
                          /\ made[i] # NoProvider
                          /\ scheme \in made[i].schemes <=> Serves(entries[i], scheme)
        OBVIOUS
      <4>1. Type(entries[i]) \in HTTPTypes \cup {Plain("oci")}
        BY <2>2, <2>5, <3>3
      <4>2. made[i] = Provider(setting, entries[i])
        BY <3>2, <3>3
      <4> QED BY <2>1, <2>5, <3>3, <4>1, <4>2, ProviderIsConfigured
    <3>5. provider = ByScheme(made, scheme)
      BY <2>1, <2>5 DEF ProviderFor, HelmHostProviders
    <3> HIDE DEF made
    <3>6. serving = {i \in 1..Len(made) : scheme \in made[i].schemes}
      BY <3>3, <3>4
    <3>7. /\ serving = {} => provider = NoProvider
          /\ serving # {} => /\ provider = made[Min(serving)]
                             /\ Min(serving) \in serving
                             /\ \A i \in serving : Min(serving) <= i
      <4>1. Len(made) \in Nat
        BY <3>3
      <4> HIDE DEF serving, provider
      <4> QED BY <3>5, <3>6, <4>1, FirstIsChosen
    <3>8. ASSUME NEW i \in serving, \A j \in serving : i <= j
          PROVE  i = Min(serving)
      <4>1. Min(serving) \in serving /\ Min(serving) <= i
        BY <3>7
      <4>2. i <= Min(serving)
        BY <3>8, <4>1
      <4>3. i \in Nat /\ Min(serving) \in Nat
        BY <3>3, <4>1
      <4> HIDE DEF serving
      <4> QED BY <4>1, <4>2, <4>3
    <3> QED BY <3>3, <3>4, <3>7, <3>8 DEF IsServedBy
  <2> QED BY <2>2, <2>3, <2>4, <2>5 DEF ProvidersAreAsConfigured
<1> QED BY <1>1, ProcessInvariance, PTL
=============================================================================
