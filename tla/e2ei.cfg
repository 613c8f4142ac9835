SPECIFICATION EnrollmentSpec
CONSTANTS
    i1 = i1
    l1 = l1
    r1 = r1
    r2 = r2
    Platform = "generic"
    Tasks = {t1}
    Anchors = {r1, r2}
    Intermediates = {i1}
    Leaves = {l1}
    Lists = {{i1}, {l1}}
    IssuerOf <- MCIssuerOf
    Points = {p1}
    None = None
    Slots = {s1}
    MaxEnrollments = 2
    MaxLosses = 1
CHECK_DEADLOCK FALSE
INVARIANTS
    EnrollmentTypeOK
    EnvFresh
    IntermediatesTrusted
    StateIsTrue
    HeldOnce
    RotationHasToken
