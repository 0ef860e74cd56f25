\* Two bookings, application clocks one unit off the database clock.
SPECIFICATION FairSpec
CONSTANTS
  Null = Null
  b1 = b1
  b2 = b2
  b3 = b3
  s1 = s1
  s2 = s2
  Bookings = {b1, b2}
  Seats = {s1, s2}
  Requests <- MCTwoRequests
  MaximumPassengers = 2
  HoldMinutes = 1
  BookingWindow <- MCWindow
  BatchSize = 1
  MaxSkew = 1
  MaxTime = 3
  JourneyInputs = {}
  SeatInputs = {"AVAILABLE", "BLOCKED"}
PROPERTIES
  BlockedSeatsNotSold
  HoldsSettle
  RouteConfirmationOwnsSeats
