------------------------------- MODULE MCJourneys -------------------------------
(***************************************************************************)
(* A small network with a timetable: one route of three stations among      *)
(* four, one train with a coach of two seats and perhaps one of a single    *)
(* seat, and a journey.                                                     *)
(***************************************************************************)
EXTENDS Journeys, TLC

CONSTANTS r1, r2, x, y, z, w, t1, c1, c2, j1, j2, MaxSteps

Stop(station, km, offset) ==
  [stationId |-> station, km |-> km, arrives |-> offset, departs |-> offset]
Row(number, km, offset) ==
  [number |-> number, km |-> km, arrives |-> offset, departs |-> offset]

MCDraft == x :> Row(0, 0, 0) @@ y :> Row(1, 1050, NoValue) @@ z :> Row(2, 2095, 9)
MCRouteDrafts == {x :> Row(0, 0, 0) @@ z :> Row(1, 2095, 9)}
MCStopInput == {Stop(w, 2095, 12), Stop(y, 0, 4)}
MCRoutePatches == {[isActive |-> FALSE], [endStationId |-> y]}

MCCoach(position) ==
  [train |-> t1, positionNumber |-> position, coachClass |-> "FIRST",
   totalSeats |-> 0, isActive |-> TRUE]
MCCoachInputs == {MCCoach(2)}
MCCoachPatches == {[totalSeats |-> 1]}
MCSeatPatches == {[coach |-> c1], [coach |-> c2], [isActive |-> FALSE]}
MCLayouts ==
  {[rows |-> 2, columns |-> 1, totalSeats |-> 1, replace |-> FALSE],
   [rows |-> 1, columns |-> 2, totalSeats |-> 2, replace |-> TRUE]}

MCJourney(departure) ==
  [route |-> r1, train |-> t1, scheduledDepartureAt |-> departure,
   scheduledArrivalAt |-> departure + 9, status |-> "SCHEDULED"]
MCJourneyInputs == {MCJourney(11)}
MCJourneyPatches == {[scheduledDepartureAt |-> 11], [status |-> "COMPLETED"]}

\* Fares whose products do not end on whole cents.
MCFareRules ==
  {[name |-> "standard", route |-> r1, baseFare |-> 995, pricePerKm |-> 12345,
    minimumFare |-> 1200, validFrom |-> 0, validUntil |-> NoValue, priority |-> 0,
    isActive |-> TRUE]}
MCClassRules ==
  {[fareRule |-> "standard", coachClass |-> "FIRST", baseFareOverride |-> NoValue,
    pricePerKmOverride |-> NoValue, minimumFareOverride |-> NoValue, multiplier |-> 1335]}
MCDiscounts == [CHILD |-> 5000]
MCFarePolicy ==
  [serviceFee |-> [type |-> "PERCENTAGE", value |-> 333],
   tax |-> [enabled |-> TRUE, percentage |-> 1250, includesServiceFee |-> TRUE]]
MCPassengerLists == {<<"ADULT", "CHILD">>}

\* How many steps each module has left: together MaxSteps, of routes and of trains
\* only with one of the journeys where they meet; or two edits of the seats of two
\* coaches.
MCStepsLeft(second) ==
  /\ routeSteps \in 0 .. MaxRouteSteps
  /\ trainSteps \in 0 .. MaxTrainSteps
  /\ journeySteps \in 0 .. MaxJourneySteps
  /\ LET left == <<MaxRouteSteps - routeSteps, MaxTrainSteps - trainSteps,
                   MaxJourneySteps - journeySteps>>
     IN  IF second = 0
         THEN /\ left[1] + left[2] + left[3] = MaxSteps
              /\ left[3] = 0 => left[1] = 0 \/ left[2] = 0
         ELSE left = <<0, 2, 0>>

\* What CreateRouteWithStations, CreateCoach, GenerateSeats and CreateJourney
\* leave when they are done.
MCTimetableInit ==
  /\ activeStations = Station
  /\ routes = r2 :> None @@ r1 :>
       [startStationId |-> x, endStationId |-> z, totalDistanceKm |-> 2095,
        isActive |-> TRUE]
  /\ routeStations = (r2 :> NoRows @@ r1 :> MCDraft)
  /\ edit = [e \in Editor |-> Idle]
  /\ rowQueue = [r \in Route |-> <<>>]
  /\ unchecked = {}
  /\ activeTrains = Train
  /\ \E second \in {0, 1} :
       /\ coaches = (c1 :> [MCCoach(1) EXCEPT !.totalSeats = 2]
                       @@ c2 :> IF second = 0 THEN None
                                ELSE [MCCoach(2) EXCEPT !.totalSeats = 1])
       /\ seats = [s \in Seat |->
            IF s <= 2 + second
            THEN [coach |-> IF s <= 2 THEN c1 ELSE c2, number |-> <<1, s>>,
                  isWindow |-> TRUE, isActive |-> TRUE]
            ELSE None]
       /\ MCStepsLeft(second)
  /\ seatEdit = [e \in SeatEditor |-> None]
  /\ miscounted = {}
  /\ journeys = (j2 :> None @@ j1 :> MCJourney(10))
  /\ journeyStations = [j \in Journey |-> NoRows]
  /\ journeyCoaches = [j \in Journey |-> NoRows]
  /\ journeySeats = [j \in Journey |-> {}]
  /\ generation = [g \in Generator |-> None]
  /\ booked = {}
  /\ adrift = {}
  /\ unordered = {}
===============================================================================
