SPECIFICATION FairSpec
CONSTANTS
    Replica = {k1, k2}
    Violation = {v1, v2}
    Retention = 1
    Admin = {adm}
    MaxFailures = 2
INVARIANTS
    TypeOK
    BaselineWasTold
    OneTicketADay
PROPERTY StandingViolationIsTold
CHECK_DEADLOCK FALSE
