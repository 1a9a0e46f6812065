\* Nobody has to log in: the bounded system may rest.
CHECK_DEADLOCK FALSE
SPECIFICATION Spec
CONSTANTS
    e1 = e1
    e2 = e2
    Nobody = Nobody
    Emails = {e1}
    Requests = {t1,t2}
    Containers = {k1}
    Seed <- SameSeed
    HandRoles = {"super_admin"}
    MaxRows = 1
    MaxCodes = 1
    MaxSessions = 2
    MaxAsked = 0
    MaxEvents = 0
    Faults = {}
INVARIANTS
    OneTimeUse
