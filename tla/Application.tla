---------------------------- MODULE Application ----------------------------
(***************************************************************************)
(* The process with what it is made of.                                    *)
(*   internal/wiring/application.go, internal/config/application.go        *)
(*                                                                         *)
(* Create makes the parts one after the other and hands each those it      *)
(* needs; it can fail between any two of them.  Teardown ends telemetry,   *)
(* as far as it was started, while requests may still be running and       *)
(* ending.  This module extends the life cycle with both.                  *)
(***************************************************************************)
EXTENDS ServerLifecycle, Sequences

CONSTANTS
    Settings,   \* what HELM_HOST_PROVIDERS can be, see HostProviders
    Hosts,      \* hosts that URLs can name
    NoProvider

INSTANCE HostProviders

VARIABLES
    setting,        \* the environment
    created,        \* the parts that have been created
    given,          \* pairs of parts: one, and another it was given
    hostProviders,  \* HelmHostProviders of the configuration
    meter,          \* MeterProvider: "none", "running" or "down"
    tracer,         \* TracerProvider
    exporter,       \* TracesExporter
    collector,      \* whether what it exports to can be reached
    span            \* the span of each request

parts == <<setting, created, given, hostProviders>>
telemetry == <<meter, tracer, exporter, collector>>
process == <<vars, parts, telemetry, span>>

ASSUME SettingsAssumption == \A s \in Settings : IsSetting(s)

ASSUME NoProviderAssumption ==
    \A s \in Settings : \A host \in DOMAIN s.providers :
        \A i \in DOMAIN s.providers[host] :
            HelmHostProviders(s)[host][i] # NoProvider

-----------------------------------------------------------------------------
Bootstrap == <<"clock", "clientFactory", "logging", "configuration">>

Telemetry ==
    <<"metricsExporter", "meterProvider", "tracesExporter",
      "tracerProvider">>

Repositories == <<"gitHubClient", "git", "helmRemote">>

\* Mutant: caches in the order in which requests come to them.
ServicesAsCalled ==
    <<"gitRepositoryCache", "helmChartCache", "helmIndexCache",
      "helmChartProvider", "helmChartRenderer", "kustomizationProvider",
      "kustomizationRenderer">>

Services ==
    <<"gitRepositoryCache", "helmIndexCache", "helmChartCache",
      "helmChartProvider", "helmChartRenderer", "kustomizationProvider",
      "kustomizationRenderer">>

Web ==
    <<"healthController", "swaggerController", "metricsController",
      "profilerController", "v1Controller", "server">>

Order == Bootstrap \o Telemetry \o Repositories \o Services \o Web
Parts == {Order[i] : i \in 1..Len(Order)}

\* What the constructor of a part is given, and has to be there: a nil would be
\* noticed by the first request that comes to use it.
TelemetryNeeds ==
    {<<"meterProvider", "metricsExporter">>,
     <<"tracerProvider", "tracesExporter">>}

RepositoryNeeds ==
    {"gitHubClient"} \X {"clientFactory", "configuration"}
    \cup {"git"} \X {"gitHubClient", "configuration"}
    \cup {<<"helmRemote", "configuration">>}

ServiceNeeds ==
    {"gitRepositoryCache"} \X {"git", "configuration"}
    \cup {"helmIndexCache"} \X {"helmRemote", "configuration"}
    \cup {"helmChartCache"} \X {"helmRemote", "helmIndexCache", "configuration"}
    \cup {"helmChartProvider"} \X {"helmChartCache", "gitRepositoryCache"}
    \cup {<<"helmChartRenderer", "configuration">>,
          <<"kustomizationProvider", "gitRepositoryCache">>}

WebNeeds ==
    {"metricsController"} \X {"gitHubClient", "configuration"}
    \cup {"v1Controller"} \X
             {"clock", "helmChartProvider", "helmChartRenderer",
              "kustomizationProvider", "kustomizationRenderer"}
    \cup {"server"} \X
             {"configuration", "healthController", "swaggerController",
              "metricsController", "profilerController", "v1Controller"}

Needs(part) ==
    {pair[2] : pair \in {p \in TelemetryNeeds \cup RepositoryNeeds
                                \cup ServiceNeeds \cup WebNeeds : p[1] = part}}

\* Constructors that can fail: for what the environment holds.
Fallible ==
    {"logging", "configuration", "metricsExporter", "tracesExporter",
     "gitHubClient", "gitRepositoryCache", "helmIndexCache",
     "helmChartCache"}

ApplicationTypeOK ==
    /\ setting \in Settings
    /\ created \subseteq Parts
    /\ given \subseteq Parts \X Parts
    /\ hostProviders \in {<<>>, HelmHostProviders(setting)}
    /\ {meter, tracer, exporter} \subseteq {"none", "running", "down"}
    /\ collector \in BOOLEAN
    /\ span \in [Request -> {"none", "queued", "exported", "lost", "late"}]
    /\ \A q \in Request :
           span[q] = "none" <=> request[q] \in {"unsent", "running", "dropped"}

Start ==
    /\ Init
    /\ setting \in Settings
    /\ created = {} /\ given = {} /\ hostProviders = <<>>
    /\ meter = "none" /\ tracer = "none" /\ exporter = "none"
    /\ collector \in BOOLEAN
    /\ span = [q \in Request |-> "none"]

-----------------------------------------------------------------------------
\* The part that Create comes to next.
IsNext(part) ==
    \E i \in 1..Len(Order) :
        /\ part = Order[i] /\ part \notin created
        /\ \A j \in 1..(i - 1) : Order[j] \in created

\* Before Create begins.
RejectDotEnv ==
    /\ created = {}
    /\ RejectEnvironment
    /\ UNCHANGED <<parts, telemetry, span>>

CreatePart ==
    /\ main = "creating"
    /\ \E part \in Parts :
        /\ IsNext(part)
        /\ part = "configuration" => ~IsRejected(setting)
        /\ created' = created \cup {part}
        /\ given' = given \cup {part} \X (Needs(part) \cap created)
        /\ hostProviders' = IF part = "configuration"
                            THEN HelmHostProviders(setting) ELSE hostProviders
        /\ meter' = IF part = "meterProvider" THEN "running" ELSE meter
        /\ exporter' = IF part = "tracesExporter" THEN "running" ELSE exporter
        /\ tracer' = IF part = "tracerProvider" THEN "running" ELSE tracer
    /\ UNCHANGED <<vars, setting, collector, span>>

\* Create returns the error, and everything that is there stays.
FailToCreate ==
    /\ \E part \in Fallible : IsNext(part)
    /\ Create /\ main' = "teardown"
    /\ UNCHANGED <<parts, telemetry, span>>

EndCreate ==
    /\ Parts \subseteq created
    /\ Create /\ main' = "created"
    /\ UNCHANGED <<parts, telemetry, span>>

-----------------------------------------------------------------------------
\* Exporting fails when the collector cannot be reached: spans are dropped.
Flush ==
    span' = [q \in Request |->
                IF span[q] # "queued" THEN span[q]
                ELSE IF collector /\ exporter = "running" THEN "exported"
                ELSE "lost"]

\* The batch that is exported every few seconds.
Export ==
    /\ main # "exited" /\ tracer = "running"
    /\ Flush
    /\ span' # span
    /\ UNCHANGED <<vars, parts, telemetry>>

ShutDownMeter ==
    /\ main = "teardown" /\ meter = "running"
    /\ meter' = "down"
    /\ UNCHANGED <<vars, parts, tracer, exporter, collector, span>>

\* Mutant: the exporter, which was created first, is shut down first.
ShutDownExporterFirst ==
    /\ main = "teardown" /\ exporter = "running"
    /\ exporter' = "down"
    /\ UNCHANGED <<vars, parts, meter, tracer, collector, span>>

\* Mutant: the queue is not flushed.
ShutDownTracerAtOnce ==
    /\ main = "teardown" /\ meter # "running" /\ tracer = "running"
    /\ tracer' = "down"
    /\ UNCHANGED <<vars, parts, meter, exporter, collector, span>>

\* What waits is exported.
ShutDownTracer ==
    /\ main = "teardown" /\ meter # "running" /\ tracer = "running"
    /\ Flush
    /\ tracer' = "down"
    /\ UNCHANGED <<vars, parts, meter, exporter, collector>>

\* The batches have shut it down already; it does not mind.
ShutDownExporter ==
    /\ main = "teardown" /\ tracer # "running" /\ exporter = "running"
    /\ exporter' = "down"
    /\ UNCHANGED <<vars, parts, meter, tracer, collector, span>>

\* The deferred cancel of Teardown.
CancelRequests ==
    /\ "running" \notin {meter, tracer, exporter}
    /\ Teardown
    /\ UNCHANGED <<parts, telemetry, span>>

\* Mutant: a request that is aborted leaves its span open.
EndSpanOfAnswer(q) ==
    /\ Answer(q) \/ Abort(q)
    /\ span' = [span EXCEPT ![q] =
                   IF request'[q] = "aborted" THEN "none"
                   ELSE IF tracer = "running" THEN "queued" ELSE "late"]
    /\ UNCHANGED <<parts, telemetry>>

\* The span of a request ends with it, and waits for a batch; a tracer provider
\* that has been shut down takes none.
EndSpan(q) ==
    /\ Answer(q) \/ Abort(q)
    /\ span' = [span EXCEPT ![q] =
                   IF tracer = "running" THEN "queued" ELSE "late"]
    /\ UNCHANGED <<parts, telemetry>>

Serve ==
    /\ Notify \/ Listen \/ ServerClosed \/ ExitMain
    /\ UNCHANGED <<parts, telemetry, span>>

StopServer ==
    /\ StopperStep
    /\ UNCHANGED <<parts, telemetry, span>>

PassTime ==
    /\ Tick
    /\ UNCHANGED <<parts, telemetry, span>>

Surroundings ==
    /\ AcceptFails \/ Signal \/ \E q \in Request : Accept(q)
    /\ UNCHANGED <<parts, telemetry, span>>

Run ==
    \/ RejectDotEnv
    \/ CreatePart
    \/ FailToCreate
    \/ EndCreate
    \/ Serve
    \/ ShutDownMeter
    \/ ShutDownTracer
    \/ ShutDownExporter
    \/ CancelRequests

ProcessNext ==
    \/ Run
    \/ StopServer
    \/ PassTime
    \/ Surroundings
    \/ Export
    \/ \E q \in Request : EndSpan(q)

\* The goroutines of the process run, time passes, and the telemetry that is
\* shut down gives up in the end; nothing is assumed of the requests, of
\* signals, or of the socket failing.
ProcessSpec ==
    /\ Start
    /\ [][ProcessNext]_process
    /\ WF_process(Run) /\ WF_process(StopServer) /\ WF_process(PassTime)

-----------------------------------------------------------------------------
\* A service that listens has all its parts, and none of them has been given a
\* nil (wiring/application.go:104-157).
NoPartIsNil ==
    main \in {"starting", "serving"} =>
        /\ created = Parts
        /\ \A part \in Parts : {part} \X Needs(part) \subseteq given

\* Whatever telemetry was started is shut down when Run returns, after however
\* much of Create (wiring/application.go:163); and as long as there is a tracer
\* provider it has an exporter to export to.
TelemetryIsShutDown ==
    /\ main = "cancelled" => "running" \notin {meter, tracer, exporter}
    /\ tracer = "running" => exporter = "running"

\* When Run returns, every span that ended before the tracer provider was shut
\* down has been exported, if the collector can be reached: also those that end
\* while Teardown is under way.
EndedSpansAreExported ==
    main = "cancelled" \/ (main = "exited" /\ exit \in {Success, RunFailed}) =>
        \A q \in Request :
            span[q] \in {"queued", "lost"} => ~collector

\* README.md:74-84, of one entry: the types there are, the schemes it is for,
\* and the user names, or passwords, that it names.
IsSupported(entry) == entry.type.word \in {"http", "https", "oci"}

Serves(entry, scheme) ==
    \/ scheme \in entry.schemes
    \/ entry.schemes = {} /\ (entry.type.word = "oci" <=> scheme = "oci")

Usernames(entry) ==
    {entry.username, Getenv(setting, entry.usernameEnvVar)} \ {""}

Passwords(entry) ==
    {entry.password, Getenv(setting, entry.passwordEnvVar)} \ {""}

NamedOnce(entry) ==
    /\ "" \in {entry.username, entry.usernameEnvVar}
    /\ "" \in {entry.password, entry.passwordEnvVar}

IsConfigured(provider, entry) ==
    /\ IsSupported(entry)
    /\ provider.getter = "oci" <=> entry.type.word = "oci"
    /\ provider.auth \in (Usernames(entry) \X Passwords(entry)) \cup {Anonymous}
    /\ NamedOnce(entry) /\ provider.auth = Anonymous =>
           {} \in {Usernames(entry), Passwords(entry)}

IsServedBy(provider, entries, scheme) ==
    LET serving == {i \in 1..Len(entries) : Serves(entries[i], scheme)}
    IN  /\ serving = {} <=> provider = NoProvider
        /\ \A i \in serving : (\A j \in serving : i <= j) =>
               IsConfigured(provider, entries[i])

\* A service that listens has read a setting that is JSON and names supported
\* types only, in whatever spelling.  A URL of a host that the setting names is
\* served by the first entry of that host that serves its scheme, with the
\* getter of that entry's type and with the credentials that entry names, both
\* or none: never with those of another host, and not with half of what two
\* entries name.  An entry that names a part of its credentials twice is not
\* told which of the two is meant.  Whoever serves other hosts, they are told
\* no credentials (config/application.go:114-142).
ProvidersAreAsConfigured ==
    main \in {"starting", "serving"} =>
        /\ setting.json
        /\ \A host \in DOMAIN setting.providers :
               \A i \in DOMAIN setting.providers[host] :
                   IsSupported(setting.providers[host][i])
        /\ \A host \in Hosts, scheme \in Schemes :
               LET provider == ProviderFor(hostProviders, host, scheme)
               IN  IF host \in DOMAIN setting.providers
                   THEN IsServedBy(provider, setting.providers[host], scheme)
                   ELSE provider = NoProvider \/ provider.auth = Anonymous

\* When HELM_HOST_PROVIDERS is unset or {}, Helm's default providers are used
\* (README.md:85): some provider serves every URL.
DefaultProvidersServe ==
    main \in {"starting", "serving"} /\ DOMAIN setting.providers = {} =>
        \A host \in Hosts, scheme \in Schemes :
            ProviderFor(hostProviders, host, scheme) # NoProvider
=============================================================================
