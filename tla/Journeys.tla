-------------------------------- MODULE Journeys --------------------------------
(***************************************************************************)
(* Journeys and their snapshots: modules/journeys/journey.service.js on the *)
(* tables of migration 006, composed with the routes and trains they are    *)
(* made from.                                                               *)
(*                                                                          *)
(* generateSnapshots copies the stations of the journey's route and the     *)
(* active coaches and seats of its train into rows of the journey.  It      *)
(* reads the journey without a lock, so a delay can be committed between    *)
(* what it reads and what it writes: it is a step that reads and a step     *)
(* that commits.  The other operations lock the journey or are one write.   *)
(* Times are minutes; the bookings that refer to a journey's rows are the   *)
(* set `booked`.                                                            *)
(***************************************************************************)
EXTENDS Routes, Trains, Fares

CONSTANTS
  Journey,
  Generator,        \* the requests that generate snapshots
  JourneyInputs,    \* bodies of POST /journeys
  JourneyPatches,   \* bodies of PATCH /journeys/:id: any fields of a journey
  Delays,           \* delayMinutes
  PassengerLists,   \* the passenger types of the bookings whose fare is compared
  MaxJourneySteps   \* bound on the requests that change journeys

JourneyStatus ==
  {"DRAFT", "SCHEDULED", "BOARDING", "DEPARTED", "COMPLETED", "DELAYED", "CANCELLED"}
ClosedStatus == {"CANCELLED", "COMPLETED"}

Time == Int \union {NoValue}
JourneyRow ==
  [route : Route, train : Train, scheduledDepartureAt : Nat, scheduledArrivalAt : Time,
   status : JourneyStatus]

\* Bodies pass their validators: they give the columns values of their types.
ASSUME JourneyAssumption ==
  /\ None \notin Journey \union JourneyRow
  /\ JourneyInputs \subseteq JourneyRow
  /\ \A values \in JourneyPatches :
       /\ "route" \in DOMAIN values => values.route \in Route
       /\ "train" \in DOMAIN values => values.train \in Train
       /\ "scheduledDepartureAt" \in DOMAIN values => values.scheduledDepartureAt \in Nat
       /\ "scheduledArrivalAt" \in DOMAIN values => values.scheduledArrivalAt \in Time
       /\ "status" \in DOMAIN values => values.status \in JourneyStatus
  /\ Delays \subseteq Nat \ {0}
  /\ PassengerLists \subseteq Seq(STRING)
  /\ MaxJourneySteps \in Nat

VARIABLES
  journeys,         \* the rows of journeys, None where there is none
  journeyStations,  \* the rows of journey_stations by journey and station
  journeyCoaches,   \* the rows of journey_coaches: coach class by coach
  journeySeats,     \* the seats that the rows of journey_seats refer to
  generation,       \* the open transaction of each generator
  booked,           \* journeys whose rows bookings refer to
  adrift,           \* history: journeys whose departure was set by hand, or was
                    \* moved while their snapshots were being made
  unordered,        \* history: journeys made from a route that was not checked
  journeySteps

journeyVars ==
  <<journeys, journeyStations, journeyCoaches, journeySeats, generation, booked,
    adrift, unordered, journeySteps>>

\* A row and, as history, the offsets it was made from.
JourneyStationRow ==
  [number : Nat, km : Nat, scheduledArrivalAt : Time, scheduledDepartureAt : Time,
   arrives : Offset, departs : Offset]

JourneysTypeOK ==
  /\ journeys \in [Journey -> JourneyRow \union {None}]
  /\ \A j \in Journey :
       /\ DOMAIN journeyStations[j] \subseteq Station
       /\ \A s \in DOMAIN journeyStations[j] : journeyStations[j][s] \in JourneyStationRow
       /\ DOMAIN journeyCoaches[j] \subseteq Coach
       /\ journeySeats[j] \subseteq Seat
  /\ \A g \in Generator :
       generation[g] = None
         \/ (generation[g].journey \in Journey /\ generation[g].read \in JourneyRow)
  /\ booked \union adrift \union unordered \subseteq Journey
  /\ journeySteps \in 0 .. MaxJourneySteps

CountJourneyStep == journeySteps < MaxJourneySteps /\ journeySteps' = journeySteps + 1

HasSnapshots(j) == journeyStations[j] # NoRows

\* #addMinutes
AddMinutes(time, minutes) ==
  IF NoValue \in {time, minutes} THEN NoValue ELSE time + minutes

\* #validateJourney and the CHECK constraint.
TimesValid(row) ==
  row.scheduledArrivalAt # NoValue => row.scheduledArrivalAt > row.scheduledDepartureAt

\* #ensureDepartureAvailable and uq_train_departure.
DepartureAvailable(j, row) ==
  \A other \in Journey \ {j} :
    journeys[other] # None =>
      <<journeys[other].train, journeys[other].scheduledDepartureAt>>
        # <<row.train, row.scheduledDepartureAt>>

-------------------------------------------------------------------------------
CreateJourney(j, values) ==
  /\ CountJourneyStep
  /\ journeys[j] = None
  /\ routes[values.route] # None
  /\ TimesValid(values)
  /\ DepartureAvailable(j, values)
  /\ journeys' = [journeys EXCEPT ![j] = values]
  /\ UNCHANGED <<journeyStations, journeyCoaches, journeySeats, generation, booked,
                 adrift, unordered>>

\* updateJourney writes any field and leaves the snapshots as they are.
UpdateJourney(j, values) ==
  /\ CountJourneyStep
  /\ journeys[j] # None
  /\ LET row == Overwritten(journeys[j], values)
     IN  /\ routes[row.route] # None
         /\ TimesValid(row)
         /\ DepartureAvailable(j, row)
         /\ journeys' = [journeys EXCEPT ![j] = row]
         /\ adrift' =
              IF /\ row.scheduledDepartureAt # journeys[j].scheduledDepartureAt
                 /\ HasSnapshots(j)
              THEN adrift \union {j} ELSE adrift
  /\ UNCHANGED <<journeyStations, journeyCoaches, journeySeats, generation, booked,
                 unordered>>

CancelJourney(j) ==
  /\ CountJourneyStep
  /\ journeys[j] # None
  /\ journeys[j].status \notin ClosedStatus
  /\ journeys' = [journeys EXCEPT ![j].status = "CANCELLED"]
  /\ UNCHANGED <<journeyStations, journeyCoaches, journeySeats, generation, booked,
                 adrift, unordered>>

\* A mistake: a delay moves the departures only.
DepartureOnlyShift(rows, minutes) ==
  [s \in DOMAIN rows |->
     [rows[s] EXCEPT !.scheduledDepartureAt = AddMinutes(@, minutes)]]

\* delayJourney moves the journey and all its stations by the same minutes.
ShiftedStations(rows, minutes) ==
  [s \in DOMAIN rows |->
     [rows[s] EXCEPT !.scheduledArrivalAt = AddMinutes(@, minutes),
                     !.scheduledDepartureAt = AddMinutes(@, minutes)]]

DelayJourney(j, delayMinutes) ==
  /\ CountJourneyStep
  /\ journeys[j] # None
  /\ journeys[j].status \notin ClosedStatus
  /\ LET row == [journeys[j] EXCEPT !.status = "DELAYED",
                   !.scheduledDepartureAt = AddMinutes(@, delayMinutes),
                   !.scheduledArrivalAt = AddMinutes(@, delayMinutes)]
     IN  /\ DepartureAvailable(j, row)
         /\ journeys' = [journeys EXCEPT ![j] = row]
  /\ journeyStations' =
       [journeyStations EXCEPT ![j] = ShiftedStations(@, delayMinutes)]
  /\ UNCHANGED <<journeyCoaches, journeySeats, generation, booked, adrift, unordered>>

\* External: a booking or a waitlist entry on rows of the journey.
Book(j) ==
  /\ HasSnapshots(j)
  /\ j \notin booked
  /\ booked' = booked \union {j}
  /\ UNCHANGED <<journeys, journeyStations, journeyCoaches, journeySeats, generation,
                 adrift, unordered, journeySteps>>

-------------------------------------------------------------------------------
ActiveCoaches(t) ==
  {c \in Coach : coaches[c] # None /\ coaches[c].train = t /\ coaches[c].isActive}
ActiveSeats(t) ==
  {s \in Seat : seats[s] # None /\ seats[s].coach \in ActiveCoaches(t) /\ seats[s].isActive}

\* generateSnapshots, up to its writes.
ReadForSnapshots(g, j, replace) ==
  /\ CountJourneyStep
  /\ generation[g] = None
  /\ journeys[j] # None
  /\ journeys[j].status \notin ClosedStatus
  /\ HasSnapshots(j) => replace
  /\ LET r == journeys[j].route
     IN  /\ routeStations[r] # NoRows
         /\ generation' = [generation EXCEPT ![g] =
              [journey |-> j, read |-> journeys[j], existing |-> HasSnapshots(j),
               stations |-> routeStations[r], checked |-> r \notin unchecked,
               coaches |-> [c \in ActiveCoaches(journeys[j].train) |->
                              coaches[c].coachClass],
               seats |-> ActiveSeats(journeys[j].train)]]
  /\ UNCHANGED <<journeys, journeyStations, journeyCoaches, journeySeats, booked,
                 adrift, unordered>>

StationSnapshots(stations, departure) ==
  [s \in DOMAIN stations |->
     [number |-> stations[s].number, km |-> stations[s].km,
      scheduledArrivalAt |-> AddMinutes(departure, stations[s].arrives),
      scheduledDepartureAt |-> AddMinutes(departure, stations[s].departs),
      arrives |-> stations[s].arrives, departs |-> stations[s].departs]]

\* A mistake: journey_seats and bookings without the foreign keys of migrations 008
\* and 010.
AlwaysWriteSnapshots(p) == p.existing \/ ~HasSnapshots(p.journey)

\* The rows of before are deleted, unless a booking refers to them; without any,
\* the first of two generations keeps the second out (uq_journey_station).
MayWriteSnapshots(p) ==
  IF p.existing THEN p.journey \notin booked ELSE ~HasSnapshots(p.journey)

\* A seat that is gone refuses the new rows.
CommitSnapshots(g) ==
  /\ generation[g] # None
  /\ LET p == generation[g]
         j == p.journey
     IN  /\ MayWriteSnapshots(p)
         /\ \A s \in p.seats : seats[s] # None
         /\ journeyStations' = [journeyStations EXCEPT ![j] =
              StationSnapshots(p.stations, p.read.scheduledDepartureAt)]
         /\ journeyCoaches' = [journeyCoaches EXCEPT ![j] = p.coaches]
         /\ journeySeats' = [journeySeats EXCEPT ![j] = p.seats]
         /\ adrift' =
              IF p.read.scheduledDepartureAt # journeys[j].scheduledDepartureAt
              THEN adrift \union {j} ELSE adrift \ {j}
         /\ unordered' = IF p.checked THEN unordered \ {j} ELSE unordered \union {j}
  /\ generation' = [generation EXCEPT ![g] = None]
  /\ UNCHANGED <<journeys, booked, journeySteps>>

RollbackSnapshots(g) ==
  /\ generation[g] # None
  /\ generation' = [generation EXCEPT ![g] = None]
  /\ UNCHANGED <<journeys, journeyStations, journeyCoaches, journeySeats, booked,
                 adrift, unordered, journeySteps>>

-------------------------------------------------------------------------------
JourneysInit ==
  /\ journeys = [j \in Journey |-> None]
  /\ journeyStations = [j \in Journey |-> NoRows]
  /\ journeyCoaches = [j \in Journey |-> NoRows]
  /\ journeySeats = [j \in Journey |-> {}]
  /\ generation = [g \in Generator |-> None]
  /\ booked = {}
  /\ adrift = {}
  /\ unordered = {}
  /\ journeySteps = 0

JourneysNext ==
  \/ \E j \in Journey :
       \/ \E values \in JourneyInputs : CreateJourney(j, values)
       \/ \E values \in JourneyPatches : UpdateJourney(j, values)
       \/ CancelJourney(j)
       \/ \E delayMinutes \in Delays : DelayJourney(j, delayMinutes)
       \/ Book(j)
  \/ \E g \in Generator :
       \/ \E j \in Journey, replace \in BOOLEAN : ReadForSnapshots(g, j, replace)
       \/ CommitSnapshots(g)
       \/ RollbackSnapshots(g)

\* The routes and seats that rows of journeys refer to.
RoutesInUse == {journeys[j].route : j \in {i \in Journey : journeys[i] # None}}
SeatsOnJourneys == UNION {journeySeats[j] : j \in Journey}

-------------------------------------------------------------------------------
timetableVars == <<routeVars, trainVars, journeyVars>>

TimetableInit == RoutesInit /\ TrainsInit /\ JourneysInit

TimetableNext ==
  \/ RoutesNext(RoutesInUse) /\ UNCHANGED <<trainVars, journeyVars>>
  \/ TrainsNext(SeatsOnJourneys) /\ UNCHANGED <<routeVars, journeyVars>>
  \/ JourneysNext /\ UNCHANGED <<routeVars, trainVars>>

TimetableSpec == TimetableInit /\ [][TimetableNext]_timetableVars

TimetableTypeOK == RoutesTypeOK /\ TrainsTypeOK /\ JourneysTypeOK

-------------------------------------------------------------------------------
\* The times of a journey's stations are those of its route, counted from the
\* journey's departure, through every delay and every new generation, except
\* where the departure was changed by hand under the snapshots or moved while
\* they were being made.
StationTimesFollowDeparture ==
  \A j \in Journey \ adrift :
    \A s \in DOMAIN journeyStations[j] :
      LET stop == journeyStations[j][s]
          departure == journeys[j].scheduledDepartureAt
      IN  /\ stop.scheduledArrivalAt = AddMinutes(departure, stop.arrives)
          /\ stop.scheduledDepartureAt = AddMinutes(departure, stop.departs)

\* Once a booking refers to the stations and seats of a journey, no edit of its
\* route or train and no new generation takes them away or renumbers them.
BookedSnapshotsStay ==
  [][\A j \in booked :
       /\ journeySeats'[j] = journeySeats[j]
       /\ \A s \in journeySeats[j] : seats'[s] # None
       /\ [s \in DOMAIN journeyStations'[j] |-> journeyStations'[j][s].number]
            = [s \in DOMAIN journeyStations[j] |-> journeyStations[j][s].number]]_timetableVars

\* The fares of journeys made from checked routes: of two rides, one within the
\* other, the longer one never costs less, whatever the class, the passengers and
\* the places where amounts are rounded.
Rides(rows) ==
  {ride \in (DOMAIN rows) \X (DOMAIN rows) : DistanceValid(rows[ride[1]], rows[ride[2]])}

Within(rows, inner, outer) ==
  /\ rows[outer[1]].number <= rows[inner[1]].number
  /\ rows[inner[2]].number <= rows[outer[2]].number

LongerRidesNeverCheaper ==
  \A j \in Journey \ unordered :
    LET rows == journeyStations[j]
    IN  \A rule \in FareRules, c \in DOMAIN journeyCoaches[j], types \in PassengerLists :
          LET total ==
                [ride \in Rides(rows) |->
                   BookingFare(rule, journeyCoaches[j][c],
                     Distance(rows[ride[1]], rows[ride[2]]), types).finalTotal]
          IN  \A outer, inner \in Rides(rows) :
                Within(rows, inner, outer) => total[outer] >= total[inner]
===============================================================================
