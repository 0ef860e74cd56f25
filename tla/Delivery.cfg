\* Two workers and a notification with two attempts, by the job or by hand; a
\* browser with two messages, and a change of its seat map; two officials, two
\* screens that assign trains and stations to them, and two bookings.
SPECIFICATION MCSpec
CONSTANTS
  m1 = m1
  w1 = w1
  w2 = w2
  Messages = {m1}
  Workers = {w1, w2}
  Null = Null
  MaxAttempts = 2
  AttemptCap = 2
  BatchSize = 1
  s1 = s1
  None = None
  NoValue = NoValue
  Socket = {s1}
  MaxMessages = 2
  MaxChanges = 1
  u1 = u1
  u2 = u2
  e1 = e1
  e2 = e2
  t1 = t1
  t2 = t2
  x = x
  y = y
  z = z
  j1 = j1
  j2 = j2
  b1 = b1
  b2 = b2
  Official = {u1, u2}
  Screen = {e1, e2}
  ScopeTrain = {t1, t2}
  ScopeStation = {x, y, z}
  ScopeJourney = {j1, j2}
  ScopeBooking = {b1, b2}
  FirstRole <- MCFirstRole
  FirstTrain <- MCFirstTrain
  StationsOf <- MCStationsOf
  Ride <- MCRide
  MaxScopeSteps = 2
INVARIANTS
  OneSenderUnlessReopened
  ScopesAgree
PROPERTIES
  NotificationsSettle
  EventsReachTheMap
CHECK_DEADLOCK FALSE
