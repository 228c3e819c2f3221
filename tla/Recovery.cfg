SPECIFICATION FairSpec
CONSTANTS
    h1 = h1
    h2 = h2
    l1 = l1
    l2 = l2
    a1 = a1
    a2 = a2
    NoAlert = NoAlert
    NoTask = NoTask
    Alerts = {a1, a2}
    Checks = {h1, h2}
    Loops = {l1, l2}
    LocalLoop = l1
    MAX_SEND_ATTEMPTS = 2
    AlertThreshold = 2
    TokenRetryCount = 2
    MaxFaults = 1
CHECK_DEADLOCK FALSE
INVARIANTS
    TypeOK
    InFlightHasOneOwner
    SendsAccounted
    OneAlertPerIncident
PROPERTIES
    TokenRequestsBounded
    StatusKeepsToTable
    AlertSettles
    IncidentIsRaised
