SPECIFICATION Spec
CONSTANTS
    Request = {r1, r2}
    Repository = {repo}
    Query = {q}
    URL = {u}
    OCIReference = {oci}
    MaxUploads = 2
    IndexTTL = 2
    HTTPChartTTL = 1
    OCIChartTTL = 1
    Lag = 0
    None = none
    Malformed = malformed
INVARIANTS
    TypeOK
    NeverOlderThanDigest
    BoundedStaleness
PROPERTIES
    ImplementsChartReads
CONSTRAINT
    MCConstraint
SYMMETRY MCSymmetry
