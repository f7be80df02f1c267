SPECIFICATION Spec
CONSTANTS
  None = None
  Keep = Keep
  w1 = w1
  w2 = w2
  m1 = m1
  Writer <- Writers2
  DepartureId <- OneBus
  ReservationId <- Rows4
  Ride <- OneRide
  Passenger <- Passengers
  Station <- Stations
  SoldMarker <- Markers
  SoldGroup <- Groups
  Request <- OneMoreBooking
  Edit <- SwapStops
  InitDeparture <- FourStations
  InitReservation <- FirstAndLastLeg
  Window = 3
  MaxTx = 1
  MaxEdits = 1
  MaxFailures = 0
SYMMETRY Symmetry2
INVARIANT SeatSoldOnce
CHECK_DEADLOCK FALSE
