SPECIFICATION Spec
CONSTANTS
  None = None
  Keep = Keep
  w1 = w1
  w2 = w2
  m1 = m1
  Writer <- Writers2
  DepartureId <- TwoBuses
  ReservationId <- Rows4
  Ride <- TwoRides
  Passenger <- Passengers
  Station <- Stations
  SoldMarker <- Markers
  SoldGroup <- Groups
  Request <- LinkAndCancel
  Edit <- NoEdit
  InitDeparture <- OutAndBack
  InitReservation <- Outbound
  Window = 3
  MaxTx = 1
  MaxEdits = 0
  MaxFailures = 0
SYMMETRY Symmetry2
PROPERTY AttachedToLive
CHECK_DEADLOCK FALSE
