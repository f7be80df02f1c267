SPECIFICATION Spec
CONSTANTS
  None = None
  Keep = Keep
  w1 = w1
  w2 = w2
  m1 = m1
  Writer <- Writers2
  DepartureId <- OneBus
  ReservationId <- Rows5
  Ride <- OneRide
  Passenger <- Passengers
  Station <- Stations
  SoldMarker <- Markers
  SoldGroup <- Groups
  Request <- SeatRequests
  Edit <- TurnAround
  InitDeparture <- OutOnly
  InitReservation <- SharedSeat
  Window = 3
  MaxTx = 2
  MaxEdits = 1
  MaxFailures = 0
SYMMETRY Symmetry2
INVARIANT TypeOK
PROPERTY NoWriterDoubleSells CancelledIsFinal ImplementsBookings
CHECK_DEADLOCK FALSE
