SPECIFICATION Spec
CONSTANTS
    l1 = l1
    l2 = l2
    l3 = l3
    l4 = l4
    r1 = r1
    r2 = r2
    a = a
    b = b
    c = c
    d = d
    None = None
    Unset = Unset
    LineId = {l1, l2, l3, l4}
    RideId = {r1, r2}
    Station = {a, b, c, d}
    Caller = {c1}
    MinutesPerDay = 8
    StopInterval = 1
    NewLines <- MCNewLines
    LinePatches <- MCLinePatches
    Timetables <- MCTimetables
    AskedStatus = {"ACTIVE"}
    Stored <- MCStored
    MaxEdits = 2
INVARIANTS
    TypeOK
    RouteVisitsOnce
    ReorderedIsLeast
SYMMETRY Symmetry
PROPERTIES
    StaysMirrored
    KnownTimesKept
    StaysOnTimetable
    StopsChangeTogether
    RepairOnlyAdds
