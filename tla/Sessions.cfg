SPECIFICATION FairSpec
CONSTANTS
    t1 = t1
    t2 = t2
    Tab <- MCTab
    Call <- MCCall
    Token = {n1, n2, n3, n4}
    None = None
    MaxCalls = 2
    MaxLogins = 1
    MaxExpiries = 1
    MaxTroubles = 1
INVARIANTS
    TypeOK
    OneSessionPerLogin
PROPERTIES
    StaysSignedIn
    EveryRequestSettles
CHECK_DEADLOCK FALSE
