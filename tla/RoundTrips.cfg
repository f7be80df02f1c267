SPECIFICATION Spec
CONSTANTS
  None = None
  Keep = Keep
  w1 = w1
  w2 = w2
  m1 = m1
  Writer <- Writers2
  DepartureId <- ThreeBuses
  ReservationId <- Rows6
  Ride <- TwoRides
  Passenger <- Passengers
  Station <- Stations
  SoldMarker <- Markers
  SoldGroup <- Groups
  Request <- RoundTripRequests
  Edit <- RetimeBack
  InitDeparture <- OutAndTwoBack
  InitReservation <- Outbound
  Window = 3
  MaxTx = 2
  MaxEdits = 1
  MaxFailures = 0
SYMMETRY Symmetry2
INVARIANT OneLiveReturnLeg
PROPERTY ReturnIsNotEarlier ImplementsBookings
CHECK_DEADLOCK FALSE
