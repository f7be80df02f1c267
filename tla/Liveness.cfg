SPECIFICATION FairSpec
CONSTANTS
  None = None
  Keep = Keep
  w1 = w1
  w2 = w2
  m1 = m1
  Writer <- Writers2
  DepartureId <- ThreeBuses
  ReservationId <- Rows6
  Ride <- TwoRides
  Passenger <- Passengers
  Station <- Stations
  SoldMarker <- Markers
  SoldGroup <- Groups
  Request <- CrossingRequests
  Edit <- RetimeOut
  InitDeparture <- OutAndTwoBack
  InitReservation <- TwoOutbounds
  Window = 3
  MaxTx = 1
  MaxEdits = 1
  MaxFailures = 0
PROPERTY EveryRequestAnswered WaitingEditRuns
CHECK_DEADLOCK FALSE
