SPECIFICATION Spec
CONSTANTS
  None = None
  Keep = Keep
  w1 = w1
  w2 = w2
  m1 = m1
  Writer <- Writers2
  DepartureId <- ThreeBuses
  ReservationId <- Rows7
  Ride <- OneRide
  Passenger <- Passengers
  Station <- Stations
  SoldMarker <- Markers
  SoldGroup <- Groups
  Request <- TimetableRequests
  Edit <- MixedEdits
  InitDeparture <- Timetable
  InitReservation <- OnTimetable
  Window = 3
  MaxTx = 1
  MaxEdits = 2
  MaxFailures = 1
SYMMETRY Symmetry2
INVARIANT CopiesFollowBus NoLockCycle
PROPERTY StrandingWasConfirmed ImplementsBookings
CHECK_DEADLOCK FALSE
