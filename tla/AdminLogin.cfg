\* Nobody has to log in: the bounded system may rest.
CHECK_DEADLOCK FALSE
SPECIFICATION FairSpec
CONSTANTS
    e1 = e1
    e2 = e2
    Nobody = Nobody
    Emails = {e1,e2}
    Requests = {t1,t2}
    Containers = {k1,k2}
    Seed <- SameSeed
    HandRoles = {"super_admin"}
    MaxRows = 3
    MaxCodes = 2
    MaxSessions = 3
    MaxAsked = 2
    MaxEvents = 1
    Faults = {"redis","pg","smtp","resend","cut"}
INVARIANTS
    TypeOK
    SpentCodesGone
    SessionsPerCode
    CodesNotWasted
    LateLoginsInFlight
    LockoutTakesTwo
PROPERTIES
    EveryStartSucceeds
