\* The timetable, accounts, guests, refunds, pages and sessions, each on its own.
SPECIFICATION MCSpec
CONSTANTS
  r1 = r1
  r2 = r2
  x = x
  y = y
  z = z
  w = w
  t1 = t1
  c1 = c1
  c2 = c2
  j1 = j1
  j2 = j2
  None = None
  NoValue = NoValue
  Route = {r1, r2}
  Station = {x, y, z, w}
  Editor = {s1, s2}
  StopInput <- MCStopInput
  RouteDrafts <- MCRouteDrafts
  RoutePatches <- MCRoutePatches
  Distances = {0, 1050}
  MaxRouteSteps = 3
  Train = {t1}
  Coach = {c1, c2}
  SeatCount = 4
  SeatEditor = {s1, s2}
  CoachInputs <- MCCoachInputs
  CoachPatches <- MCCoachPatches
  SeatPatches <- MCSeatPatches
  Layouts <- MCLayouts
  MaxTrainSteps = 3
  Journey = {j1, j2}
  Generator = {s1, s2}
  JourneyInputs <- MCJourneyInputs
  JourneyPatches <- MCJourneyPatches
  Delays = {1}
  PassengerLists <- MCPassengerLists
  MaxJourneySteps = 3
  FareRules <- MCFareRules
  ClassRules <- MCClassRules
  Discounts <- MCDiscounts
  FarePolicy <- MCFarePolicy
  MaxSteps = 3
  u1 = u1
  u2 = u2
  u3 = u3
  User = {u1, u2, u3}
  Installations <- MCInstallations
  NewRoles = {"STAFF"}
  MaxCalls = 4
  Browser = {s1, s2}
  Request = {1, 2}
  MaxCodeAttempts = 2
  CodeMinutes = 1
  TokenMinutes = 2
  DevelopmentCode = TRUE
  MaxTokens = 3
  MaxGuestTime = 2
  Refunds = {s1, s2}
  Amount = 2
  Requested = {1, 3}
  Methods = {"CARD", "BANK_SLIP"}
  s1 = s1
  s2 = s2
  Tab = {s1, s2}
  Staff = {u1}
  Temporary = {u1}
  MaxRequests = 4
  MaxInFlight = 2
  SeatChoice = {s1, s2}
  Party = 1
  MaxTrips = 2
  MaxVisits = 5
  MaxPayments = 2
  PartySize = 3
  RawNumber = {"n-"}
  NormalOf <- MCNormalOf
  NicNumber = {"n"}
SYMMETRY MCSymmetry
INVARIANTS
  ServicesTypeOK
  RoutesStayOrdered
  CapacityCountsSeats
  StationTimesFollowDeparture
  LongerRidesNeverCheaper
  TokensExchangedOnce
  BlockedSessionsEnd
  SuperAdminRemains
  CodesWorkOnce
  TokenLostOnlyWithItsAnswer
  RefundsWithinPayment
  RefundsTakeTurns
  SlipsStayWithTheirBooking
  AnswersRepeat
  GuestPartiesIdentified
  OwnTrafficIsNoTheft
  SignedOutSessionsEnd
PROPERTIES
  BookedSnapshotsStay
CHECK_DEADLOCK FALSE
