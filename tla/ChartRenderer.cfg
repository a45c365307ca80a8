CONSTANTS
    r1 = r1
    r2 = r2
    v1 = v1
    v2 = v2
    v3 = v3
    k1 = k1
    Request = {r1, r2}
    Version = {v1, v2, v3}
    Deployment <- MCDeployment
    Asked <- MCAsked
    Chart <- MCChart
    Key = {k1}
    None = None
SPECIFICATION Spec
INVARIANTS TypeOK VersionsAreOwn MetadataTellsWhatWasMerged AnswerIsComplete
SYMMETRY MCSymmetry
\* Every request is answered.
CHECK_DEADLOCK FALSE
