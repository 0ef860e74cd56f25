\* One booking: a journey is closed between preview and commit.
SPECIFICATION Spec
CONSTANTS
  Null = Null
  b1 = b1
  b2 = b2
  b3 = b3
  s1 = s1
  s2 = s2
  Bookings = {b1}
  Seats = {s1, s2}
  Requests <- MCRequests
  MaximumPassengers = 2
  HoldMinutes = 1
  BookingWindow <- MCWindow
  BatchSize = 1
  MaxSkew = 0
  MaxTime = 2
  JourneyInputs = {"SCHEDULED", "DEPARTED"}
  SeatInputs = {"AVAILABLE"}
PROPERTIES
  ClosedJourneyNotBooked
