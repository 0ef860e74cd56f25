\* Clocks one unit apart, requeued offers, and a party of two.
SPECIFICATION WaitlistFairSpec
CONSTANTS
  Null = Null
  b1 = b1
  b2 = b2
  s1 = s1
  s2 = s2
  e1 = e1
  e2 = e2
  u1 = u1
  u2 = u2
  Bookings = {b1, b2}
  Seats = {s1, s2}
  Requests <- MCPartyRequests
  MaximumPassengers = 2
  HoldMinutes = 1
  BookingWindow <- MCWindow
  BatchSize = 1
  MaxSkew = 1
  MaxTime = 2
  JourneyInputs = {"SCHEDULED"}
  SeatInputs = {}
  Entries = {e1}
  Wish <- MCPartyWishes
  OfferMinutes = 1
  RequeueExpiredOffers = TRUE
INVARIANTS
  RowsHaveOwners
PROPERTIES
  OffersSettle
