--------------------------------- MODULE Scopes ---------------------------------
(***************************************************************************)
(* What administrators and staff are responsible for: assignments of trains *)
(* to administrators and of stations to staff, the lists, pages and reports *)
(* that follow from them, and the older assignments of journeys.            *)
(* Translated from modules/access-control/, modules/management/,            *)
(* modules/reports/ and the routes that use them.                           *)
(*                                                                          *)
(* The super admins who assign are not users of the model: they may always. *)
(* Assigning is a transaction that reads the rows of a pair and then writes *)
(* one; a request may assign several targets, in a transaction for each.    *)
(* Every booking has a payment: it is held and waits for the slip, or paid. *)
(***************************************************************************)
EXTENDS Rows, Naturals, Sequences, FiniteSets, FiniteSetsExt

CONSTANTS
  Official,        \* users who are administrators or staff
  Screen,          \* super admins at work
  ScopeTrain, ScopeStation, ScopeJourney, ScopeBooking,
  FirstRole,       \* the role of each official at the beginning
  FirstTrain,      \* the train of each journey at the beginning
  StationsOf,      \* the stations of each journey in order
  Ride,            \* journey, origin and destination of each booking
  MaxScopeSteps    \* bound: requests of a behaviour

ASSUME ScopesAssumption ==
  /\ FirstRole \in [Official -> {"ADMIN", "STAFF"}]
  /\ FirstTrain \in [ScopeJourney -> ScopeTrain]
  /\ StationsOf \in [ScopeJourney -> Seq(ScopeStation)]
  /\ IsFiniteSet(ScopeJourney) /\ IsFiniteSet(ScopeBooking)
  /\ \A b \in ScopeBooking :
       /\ Ride[b].journey \in ScopeJourney
       /\ Ride[b].to \in 1 .. Len(StationsOf[Ride[b].journey])
       /\ Ride[b].from \in 1 .. (Ride[b].to - 1)
  /\ MaxScopeSteps \in Nat

Target == ScopeTrain \union ScopeStation

VARIABLES
  roleOf,         \* users.role
  rows,           \* admin_train_assignments and staff_stations: is_active of the
                  \* rows of a user and a target, in the order of created_at
  adminJourneys,  \* active rows of admin_journeys
  trainOf,        \* journeys.train_id
  soldAs,         \* status of each booking
  edits,          \* what a screen has asked for
  asked           \* requests so far

scopeVars == <<roleOf, rows, adminJourneys, trainOf, soldAs, edits, asked>>

ScopesTypeOK ==
  /\ roleOf \in [Official -> {"ADMIN", "STAFF"}]
  /\ rows \in [Official \X Target -> Seq(BOOLEAN)]
  /\ adminJourneys \subseteq Official \X ScopeJourney
  /\ trainOf \in [ScopeJourney -> ScopeTrain]
  /\ soldAs \in [ScopeBooking -> {"NONE", "HELD", "CONFIRMED"}]
  /\ edits \in [Screen -> {None} \union
       [op : {"ASSIGN", "REVOKE"}, user : Official, left : SUBSET Target,
        target : Target \union {NoValue}, row : Nat]]
  /\ \A e \in Screen : edits[e] # None /\ edits[e].op = "REVOKE" => edits[e].target \in Target
  /\ asked \in 0 .. MaxScopeSteps

ScopesInit ==
  /\ roleOf = FirstRole /\ trainOf = FirstTrain
  /\ rows = [pair \in Official \X Target |-> <<>>]
  /\ adminJourneys = {}
  /\ soldAs = [b \in ScopeBooking |-> "NONE"]
  /\ edits = [e \in Screen |-> None]
  /\ asked = 0

-------------------------------------------------------------------------------
(* Assignments                                                               *)

\* validateAdminTarget, validateStaffTarget
MayHold(u, t) == roleOf[u] = IF t \in ScopeTrain THEN "ADMIN" ELSE "STAFF"

ActiveRows(u, t) == {k \in DOMAIN rows[<<u, t>>] : rows[<<u, t>>][k]}

\* findActiveAssignment
Assigned(u, t) == ActiveRows(u, t) # {}

\* A mistake: rows of one pair are not compared.
NoIndex(u, t, k) == TRUE

\* uq_active_admin_train_assignment, uq_active_staff_station_assignment
UniqueActive(u, t, k) == ActiveRows(u, t) \subseteq {k}

Ask == asked < MaxScopeSteps /\ asked' = asked + 1

\* assignMultipleTrainsToAdmin, assignMultipleStationsToStaff: the targets that
\* were ticked, each in a transaction of its own.
AskToAssign(e, u, targets) ==
  /\ Ask /\ edits[e] = None
  /\ targets # {} /\ (targets \subseteq ScopeTrain \/ targets \subseteq ScopeStation)
  /\ edits' = [edits EXCEPT ![e] =
       [op |-> "ASSIGN", user |-> u, left |-> targets, target |-> NoValue, row |-> 0]]
  /\ UNCHANGED <<roleOf, rows, adminJourneys, trainOf, soldAs>>

\* The request goes on with the targets that are left, or is answered.
Proceed(e, left) ==
  edits' = [edits EXCEPT ![e] =
    IF left = {} THEN None ELSE [edits[e] EXCEPT !.left = left, !.target = NoValue]]

\* The transaction reads: the pair is active already, or its latest row is found.
ReadPair(e) ==
  /\ edits[e] # None /\ edits[e].op = "ASSIGN" /\ edits[e].target = NoValue
  /\ \E t \in edits[e].left :
       /\ MayHold(edits[e].user, t)
       /\ IF Assigned(edits[e].user, t) THEN Proceed(e, edits[e].left \ {t})
          ELSE edits' = [edits EXCEPT ![e].target = t,
                                      ![e].row = Len(rows[<<edits[e].user, t>>])]
  /\ UNCHANGED <<roleOf, rows, adminJourneys, trainOf, soldAs, asked>>

\* restoreAssignment writes the latest row, assignTrain and assignStation a new one.
CommitAssignment(e) ==
  /\ edits[e] # None /\ edits[e].op = "ASSIGN" /\ edits[e].target # NoValue
  /\ LET u == edits[e].user
         t == edits[e].target
         k == edits[e].row
     IN  /\ UniqueActive(u, t, k)
         /\ rows' = [rows EXCEPT ![<<u, t>>] =
              IF k = 0 THEN Append(@, TRUE) ELSE [@ EXCEPT ![k] = TRUE]]
         /\ Proceed(e, edits[e].left \ {t})
  /\ UNCHANGED <<roleOf, adminJourneys, trainOf, soldAs, asked>>

\* The role is another by now, or the index refuses the row: this target is
\* rolled back, those before it stay, those after it are not tried.
RefuseAssignment(e) ==
  /\ edits[e] # None /\ edits[e].op = "ASSIGN"
  /\ IF edits[e].target = NoValue
     THEN \E t \in edits[e].left : ~MayHold(edits[e].user, t)
     ELSE ~UniqueActive(edits[e].user, edits[e].target, edits[e].row)
  /\ edits' = [edits EXCEPT ![e] = None]
  /\ UNCHANGED <<roleOf, rows, adminJourneys, trainOf, soldAs, asked>>

\* revokeTrainFromAdmin, revokeStationFromStaff find the active row; only the
\* former asks for the role.
AskToRevoke(e, u, t) ==
  /\ Ask /\ edits[e] = None
  /\ t \in ScopeTrain => MayHold(u, t)
  /\ \E k \in ActiveRows(u, t) :
       edits' = [edits EXCEPT ![e] =
         [op |-> "REVOKE", user |-> u, left |-> {}, target |-> t, row |-> k]]
  /\ UNCHANGED <<roleOf, rows, adminJourneys, trainOf, soldAs>>

\* The row that was found is written by its id.
CommitRevocation(e) ==
  /\ edits[e] # None /\ edits[e].op = "REVOKE"
  /\ rows' = [rows EXCEPT ![<<edits[e].user, edits[e].target>>][edits[e].row] = FALSE]
  /\ edits' = [edits EXCEPT ![e] = None]
  /\ UNCHANGED <<roleOf, adminJourneys, trainOf, soldAs, asked>>

\* assignAdminToJourney
AssignJourney(u, j) ==
  /\ Ask /\ roleOf[u] = "ADMIN"
  /\ adminJourneys' = adminJourneys \union {<<u, j>>}
  /\ UNCHANGED <<roleOf, rows, trainOf, soldAs, edits>>

\* removeAdminFromJourney
RemoveJourney(u, j) ==
  /\ Ask /\ <<u, j>> \in adminJourneys
  /\ adminJourneys' = adminJourneys \ {<<u, j>>}
  /\ UNCHANGED <<roleOf, rows, trainOf, soldAs, edits>>

\* assignRole leaves the assignments of the former role.
GiveRole(u, role) ==
  /\ Ask /\ roleOf[u] # role
  /\ roleOf' = [roleOf EXCEPT ![u] = role]
  /\ UNCHANGED <<rows, adminJourneys, trainOf, soldAs, edits>>

\* updateJourney gives a journey to another train, whoever is assigned to it.
MoveJourney(j, t) ==
  /\ Ask /\ trainOf[j] # t
  /\ trainOf' = [trainOf EXCEPT ![j] = t]
  /\ UNCHANGED <<roleOf, rows, adminJourneys, soldAs, edits>>

\* A booking is made, and paid.
Sell(b) ==
  /\ Ask
  /\ soldAs' = [soldAs EXCEPT ![b] =
       IF @ = "NONE" THEN "HELD" ELSE "CONFIRMED"]
  /\ soldAs[b] # "CONFIRMED"
  /\ UNCHANGED <<roleOf, rows, adminJourneys, trainOf, edits>>

ScopesNext ==
  \/ \E e \in Screen :
       \/ ReadPair(e) \/ CommitAssignment(e) \/ RefuseAssignment(e) \/ CommitRevocation(e)
       \/ \E u \in Official :
            \/ \E targets \in (SUBSET ScopeTrain) \union (SUBSET ScopeStation) : AskToAssign(e, u, targets)
            \/ \E t \in Target : AskToRevoke(e, u, t)
  \/ \E u \in Official :
       \/ \E j \in ScopeJourney : AssignJourney(u, j) \/ RemoveJourney(u, j)
       \/ \E role \in {"ADMIN", "STAFF"} : GiveRole(u, role)
  \/ \E j \in ScopeJourney, t \in ScopeTrain : MoveJourney(j, t)
  \/ \E b \in ScopeBooking : Sell(b)

ScopesSpec == ScopesInit /\ [][ScopesNext]_scopeVars

-------------------------------------------------------------------------------
(* What an official is shown                                                 *)

\* getAccessibleTrainIds
AccessibleTrains(u) == {t \in ScopeTrain : roleOf[u] = "ADMIN" /\ Assigned(u, t)}

\* getAccessibleStationIds
AccessibleStations(u) == {x \in ScopeStation : roleOf[u] = "STAFF" /\ Assigned(u, x)}

Stops(j) == {StationsOf[j][k] : k \in DOMAIN StationsOf[j]}
Ends(b) == {StationsOf[Ride[b].journey][k] : k \in {Ride[b].from, Ride[b].to}}
TrainOfBooking(b) == trainOf[Ride[b].journey]
Booked == {b \in ScopeBooking : soldAs[b] # "NONE"}

\* A mistake: an empty list of trains is taken for no filter.
RunByUnlessEmpty(ids) == {j \in ScopeJourney : ids # {} => trainOf[j] \in ids}

\* where trainId is one of accessibleTrainIds
RunBy(ids) == {j \in ScopeJourney : trainOf[j] \in ids}

\* The lists of an administrator; somebody waits for every journey.
ListedToAdmin(u) ==
  LET ids == AccessibleTrains(u)
      bookings == {b \in Booked : Ride[b].journey \in RunBy(ids)}
  IN  ({"train"} \X ids) \union ({"journey", "waitlist"} \X RunBy(ids))
        \union ({"booking", "payment"} \X bookings)

\* The lists of a member of staff
ListedToStaff(u) ==
  LET ids == AccessibleStations(u)
  IN  ({"station"} \X ids)
        \union ({"journey"} \X {j \in ScopeJourney : Stops(j) \intersect ids # {}})
        \union ({"booking"} \X {b \in Booked : Ends(b) \intersect ids # {}})

Listed(u) == IF roleOf[u] = "ADMIN" THEN ListedToAdmin(u) ELSE ListedToStaff(u)

\* getManagedStaff
ListedStaff(a) ==
  {u \in Official : roleOf[a] = "ADMIN" /\ roleOf[u] = "STAFF"
     /\ \E j \in ScopeJourney, x \in ScopeStation :
          <<a, j>> \in adminJourneys /\ x \in Stops(j) /\ Assigned(u, x)}

\* findPending asks for each slip whether the journey is in scope.
HasJourneyTrain(u, j) == roleOf[u] = "ADMIN" /\ Assigned(u, trainOf[j])
PendingSlips(u) ==
  {b \in ScopeBooking : soldAs[b] = "HELD" /\ HasJourneyTrain(u, Ride[b].journey)}

-------------------------------------------------------------------------------
(* What an official may open                                                 *)

\* assertTrainAccess, with the train the record is resolved to
CanAccessTrain(u, t) == roleOf[u] = "ADMIN" /\ Assigned(u, t)

\* assertRelated: one of the stations of the record is assigned.
CanAccessRelated(u, stations) ==
  roleOf[u] = "STAFF" /\ \E x \in stations : x \in AccessibleStations(u)

MayOpenTrain(u, t) == CanAccessTrain(u, t)
MayOpenStation(u, x) == roleOf[u] = "STAFF" /\ Assigned(u, x)
MayOpenJourney(u, j) == CanAccessTrain(u, trainOf[j]) \/ CanAccessRelated(u, Stops(j))
MayOpenWaitlist(u, j) == HasJourneyTrain(u, j)
MayOpenBooking(u, b) == CanAccessTrain(u, TrainOfBooking(b)) \/ CanAccessRelated(u, Ends(b))
\* verifyPaymentOwnership
MayOpenPayment(u, b) == HasJourneyTrain(u, Ride[b].journey)
MayReadHistory(u, b) == HasJourneyTrain(u, Ride[b].journey)

\* assertBookingAccess
MayReadBooking(u, b) == HasJourneyTrain(u, Ride[b].journey)

\* #authorize of a transition lets staff cancel; cancelBooking asks for access first.
MayCancelBooking(u, b) ==
  MayReadBooking(u, b) /\ (roleOf[u] = "STAFF" \/ HasJourneyTrain(u, Ride[b].journey))

\* #assertAdminScope of a notification about the booking
MayManageNotice(u, b) == HasJourneyTrain(u, Ride[b].journey)

\* canManageUser: the stations of the member of staff, one after the other.
ManagesStaff(a, u) ==
  /\ roleOf[a] = "ADMIN" /\ roleOf[u] = "STAFF"
  /\ \E x \in ScopeStation :
       Assigned(u, x) /\ \E j \in ScopeJourney : <<a, j>> \in adminJourneys /\ x \in Stops(j)

\* An assisted booking starts or ends at a station of the member of staff.
MayAssist(u, b) == roleOf[u] = "STAFF" /\ Ends(b) \intersect AccessibleStations(u) # {}

Openable(u) ==
  ({"train"} \X {t \in ScopeTrain : MayOpenTrain(u, t)})
    \union ({"station"} \X {x \in ScopeStation : MayOpenStation(u, x)})
    \union ({"journey"} \X {j \in ScopeJourney : MayOpenJourney(u, j)})
    \union ({"waitlist"} \X {j \in ScopeJourney : MayOpenWaitlist(u, j)})
    \union ({"booking"} \X {b \in Booked : MayOpenBooking(u, b)})
    \union ({"payment"} \X {b \in Booked : MayOpenPayment(u, b)})

-------------------------------------------------------------------------------
(* Reports                                                                   *)

\* resolveReportScope without a journey
ReportScope(u) ==
  IF roleOf[u] = "ADMIN" THEN RunBy(AccessibleTrains(u))
  ELSE {j \in ScopeJourney : Stops(j) \intersect AccessibleStations(u) # {}}

\* getBookingStatusCounts
BookingCounts(scope) ==
  [status \in {"HELD", "CONFIRMED"} |->
     Cardinality({b \in ScopeBooking : soldAs[b] = status /\ Ride[b].journey \in scope})]

\* Each stop of a journey with the one after it
LegsOf(j) == 1 .. (Len(StationsOf[j]) - 1)

\* getSegmentOccupancy
OccupiedSeats(scope) ==
  [leg \in UNION {{j} \X LegsOf(j) : j \in scope} |->
     Cardinality({b \in ScopeBooking :
       soldAs[b] = "CONFIRMED" /\ Ride[b].journey = leg[1]
         /\ Ride[b].from <= leg[2] /\ leg[2] < Ride[b].to})]

\* The seats of all legs of the report together; #occupancy averages the legs'
\* rates, which rest on the same rows.
SeatLegs(scope) ==
  LET seats == OccupiedSeats(scope)
  IN  MapThenSumSet(LAMBDA leg : seats[leg], DOMAIN seats)

-------------------------------------------------------------------------------
(* Properties                                                                *)

\* Four places decide what an official is responsible for: the filters of the
\* lists, the guards of the pages, the services behind them and the scope of the
\* reports.  They agree, however assignments, roles, trains and bookings change:
\* what a list shows can be opened and the other way round, and so for the staff
\* an administrator manages, the slips that wait and bookings made at a counter;
\* an administrator's reports count the bookings of the list, leg by leg.  One
\* revocation ends a responsibility: a pair never has two active rows, although
\* two screens read it before either writes.
ScopesAgree ==
  \A u \in Official :
    /\ \A t \in Target : Cardinality(ActiveRows(u, t)) <= 1
    /\ Listed(u) = Openable(u)
    /\ ListedStaff(u) = {s \in Official : ManagesStaff(u, s)}
    /\ PendingSlips(u) = {b \in ScopeBooking : soldAs[b] = "HELD" /\ <<"payment", b>> \in Listed(u)}
    /\ \A b \in Booked :
         MayAssist(u, b) \/ MayCancelBooking(u, b) => <<"booking", b>> \in Listed(u)
    /\ {"journey"} \X ReportScope(u) \subseteq Listed(u)
    /\ roleOf[u] = "ADMIN" =>
         LET mine == {b \in Booked : <<"booking", b>> \in Listed(u)}
             paid == {b \in mine : soldAs[b] = "CONFIRMED"}
             counts == BookingCounts(ReportScope(u))
             ridden == [b \in ScopeBooking |-> Ride[b].to - Ride[b].from]
         IN  /\ mine = {b \in Booked : MayReadHistory(u, b)}
             /\ mine = {b \in Booked : MayCancelBooking(u, b)}
             /\ mine = {b \in Booked : MayManageNotice(u, b)}
             /\ counts["HELD"] + counts["CONFIRMED"] = Cardinality(mine)
             /\ SeatLegs(ReportScope(u)) =
                  MapThenSumSet(LAMBDA b : ridden[b], paid)
===============================================================================
