SPECIFICATION FairBreakerSpec
CONSTANTS
    UpstreamCalls = {c1, c2, c3, c4}
    FailureThreshold = 2
    ResetTimeout = 2
    HalfOpenMaxCalls = 2
INVARIANTS
    StateMatchesItsCalls
PROPERTIES
    AdmissionsAfterOpening
    Recovers
