\* One clock, one seat, two users who wait: who has the seat; and what passengers
\* are shown of the seats of a journey, and told of it.
SPECIFICATION MCSpec
CONSTANTS
  Null = Null
  b1 = b1
  b2 = b2
  s1 = s1
  s2 = s2
  e1 = e1
  e2 = e2
  u1 = u1
  u2 = u2
  Bookings = {b1, b2}
  Seats = {s1}
  Requests <- MCRequests
  MaximumPassengers = 2
  HoldMinutes = 1
  BookingWindow <- MCWindow
  BatchSize = 1
  MaxSkew = 0
  MaxTime = 2
  JourneyInputs = {"SCHEDULED"}
  SeatInputs = {}
  Entries = {e1, e2}
  Wish <- MCWishes
  OfferMinutes = 1
  RequeueExpiredOffers = FALSE
  r3 = r3
  k1 = k1
  k2 = k2
  h1 = h1
  o1 = o1
  SeatRow = {a1, a2, r3}
  CoachRow = {k1, k2}
  CoachOf <- MCCoachOf
  CoachClass <- MCCoachClass
  ReservedCoach = {k1}
  LastStop = 2
  BoardingStops <- MCBoarding
  AlightingStops <- MCAlighting
  Holder = {h1, o1}
  OfferHolder = {o1}
  JourneyRows <- MCJourneyRows
  MaxParty = 2
  HoldTime = 1
  MaxClosed = 1
  MaxClock = 1
  a1 = a1
  a2 = a2
  n1 = n1
  Booked = {a1, a2}
  Entrant = {n1}
  Contacts <- MCContacts
  EntrantContact <- MCEntrantContact
  NoDestination = Null
  Malformed = {"077"}
  EnabledChannels = {"EMAIL"}
  MaxDelays = 2
  MaxOffers = 3
SYMMETRY MCSymmetry
INVARIANTS
  LiveOffersHoldSeats
  SeatViewsAgree
  ListedCanBeHeld
  EventsAreAnnounced
PROPERTIES
  ImplementsWaitLedger
\* All callbacks of a journey have run.
CHECK_DEADLOCK FALSE
