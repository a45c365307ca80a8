CONSTANTS
    Request = {q1}
    Grace = 1
    Settings <- MCSettings
    Hosts <- MCHosts
    NoProvider = NoProvider
SPECIFICATION ProcessSpec
INVARIANT DefaultProvidersServe
\* The process exits.
CHECK_DEADLOCK FALSE
