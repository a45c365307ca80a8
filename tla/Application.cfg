CONSTANTS
    Request = {q1, q2, q3}
    Grace = 3
    Settings <- MCSettings
    Hosts <- MCHosts
    NoProvider = NoProvider
SPECIFICATION ProcessSpec
INVARIANTS
    TypeOK
    HonestExitCode
    ShutdownLeavesNothing
    ApplicationTypeOK
    NoPartIsNil
    TelemetryIsShutDown
    EndedSpansAreExported
    ProvidersAreAsConfigured
PROPERTY SignalStops
\* The process exits.
CHECK_DEADLOCK FALSE
