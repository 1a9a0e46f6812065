SPECIFICATION FairSpec
CONSTANTS
    c1 = c1
    c2 = c2
    Nobody = Nobody
    Consumers = {c1,c2}
    Order <- TwoOrder
    Requests = {r1}
    Detectors = {d1,d2}
    MinJobs = 3
    Share = 2
    Flaky = {c2}
    Faults = {"crash"}
    MaxJobs <- JobsOfEach
    MaxActs = 2
INVARIANTS
    TypeOK
    FailuresBehindSuspension
    LateJobsInFlight
PROPERTIES
    AbusersSuspended
