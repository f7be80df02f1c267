SPECIFICATION Spec
CONSTANTS
    tA = tA
    tB = tB
    rA = rA
    early = early
    late = late
    p1 = p1
    p2 = p2
    None = None
    Tenant <- MCTenant
    Ride <- MCRide
    TenantOf <- MCTenantOf
    Timetables <- MCTimetables
    Legacy <- MCLegacy
    Time = {early, late}
    Capacity = {1, 2}
    Path = {p1, p2}
    ExtraId = {x1, x2}
    ExceptionId = {e1, e2}
    OperatedRide = {rA}
    OperatedDate = {2}
    LastDay = 3
    Horizon = 1
INVARIANTS
    TypeOK
    NightReachesEveryTenant
    CopiesTellTheTime
    ScreenShowsTheBuses
SYMMETRY Symmetry
PROPERTIES
    NoNewMismatch
    StaysInStep
