SPECIFICATION FairSpec
CONSTANTS
    o1 = o1
    o2 = o2
    a = a
    b = b
    c = c
    early = early
    late = late
    None = None
    Saved = Saved
    Tab = {o1, o2}
    StaleTab = {o2}
    Reservation = {a, b, c}
    Time = {early, late}
    Capacity = {1, 3}
    Edit <- MCEdit
    InitBooking <- MCInitBooking
    MaxChanges = 1
    MaxEdits = 2
    MaxLosses = 1
INVARIANTS
    TypeOK
    NeverAskedTwice
PROPERTIES
    ConfirmedIsWritten
    RepairedIsSeated
    EditIsSettled
CHECK_DEADLOCK FALSE
