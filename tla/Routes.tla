--------------------------------- MODULE Routes ---------------------------------
(***************************************************************************)
(* Routes and their stations: modules/routes/route.service.js on the tables *)
(* routes and route_stations (migration 004), and the activation of         *)
(* stations.                                                                *)
(*                                                                          *)
(* A route is named by its code.  A route_stations row is named by its      *)
(* station (uq_route_station) and holds its number, distance and offsets.   *)
(* A list of stations, the code's array of rows or ids, is a function that  *)
(* gives each of its stations its place, 0 for the first.                   *)
(*                                                                          *)
(* An edit of the stations of a route is a transaction of three steps.  It  *)
(* reads the route, it asks for the rows with ORDER BY sequence_number FOR  *)
(* UPDATE, and, when no earlier edit holds them any more, it goes on with   *)
(* what it got: under READ COMMITTED a SELECT that waited returns the rows  *)
(* in the order they had when it began, with the contents they have now,    *)
(* without the rows removed and without the rows added in between.  The     *)
(* rest of the transaction runs while the rows are locked and is one step.  *)
(* Names, descriptions, boarding flags and stop durations are left out.     *)
(***************************************************************************)
EXTENDS Rows, FiniteSetsExt, Functions, Sequences, Integers

CONSTANTS
  Route, Station,
  Editor,        \* the requests that edit routes, at most one edit each at a time
  StopInput,     \* bodies of POST .../stations: [stationId, km, arrives, departs]
  RouteDrafts,   \* the stations of POST /routes: rows by station
  RoutePatches,  \* bodies of PATCH .../manage/routes/:id: any fields of a route
  Distances,     \* the distances that edits of existing stations give
  MaxRouteSteps  \* bound on the requests that may change a route

\* Offsets are minutes of either sign: no validator or constraint bounds them.
Offset == Int \union {NoValue}
StopRow == [number : Nat, km : Nat, arrives : Offset, departs : Offset]
RouteRow ==
  [startStationId : Station, endStationId : Station,
   totalDistanceKm : Nat \union {NoValue}, isActive : BOOLEAN]

\* Bodies pass their validators: they give the columns values of their types.
ASSUME RouteAssumption ==
  /\ None \notin Route \union RouteRow
  /\ NoValue \notin Int
  /\ IsFiniteSet(Station)
  /\ Distances \subseteq Nat
  /\ MaxRouteSteps \in Nat
  /\ \A input \in StopInput :
       /\ input.stationId \in Station /\ input.km \in Nat
       /\ {input.arrives, input.departs} \subseteq Offset
  /\ \A draft \in RouteDrafts :
       /\ DOMAIN draft \subseteq Station
       /\ draft \in [DOMAIN draft -> StopRow]
  /\ \A values \in RoutePatches :
       /\ "startStationId" \in DOMAIN values => values.startStationId \in Station
       /\ "endStationId" \in DOMAIN values => values.endStationId \in Station
       /\ "totalDistanceKm" \in DOMAIN values => values.totalDistanceKm \in Nat \union {NoValue}
       /\ "isActive" \in DOMAIN values => values.isActive \in BOOLEAN

VARIABLES
  activeStations, \* stations.is_active
  routes,         \* the rows of routes by code, None when there is none
  routeStations,  \* the rows of route_stations by route and station
  edit,           \* the edit each editor has open
  rowQueue,       \* per route, the edits that hold or wait for its rows, oldest first
  unchecked,      \* history: routes whose fields were set by hand, or whose edit
                  \* went on with an order or a route row that was no longer true
  routeSteps

routeVars ==
  <<activeStations, routes, routeStations, edit, rowQueue, unchecked, routeSteps>>

Idle == [phase |-> "IDLE", route |-> None]

RoutesTypeOK ==
  /\ activeStations \subseteq Station
  /\ routes \in [Route -> RouteRow \union {None}]
  /\ \A r \in Route :
       /\ DOMAIN routeStations[r] \subseteq Station
       /\ routeStations[r] \in [DOMAIN routeStations[r] -> StopRow]
  /\ \A e \in Editor :
       \/ edit[e] = Idle
       \/ /\ edit[e].phase \in {"READ", "LOCKING"}
          /\ edit[e].route \in Route
          /\ edit[e].row \in RouteRow
          /\ edit[e].present \subseteq Station
          /\ DOMAIN edit[e].order \subseteq Station
          /\ edit[e].order \in [DOMAIN edit[e].order -> Nat]
  /\ \A r \in Route : rowQueue[r] \in Seq(Editor)
  /\ unchecked \subseteq Route
  /\ routeSteps \in 0 .. MaxRouteSteps

-------------------------------------------------------------------------------
Numbers(rows) == [s \in DOMAIN rows |-> rows[s].number]

\* findByRoute: the list of the stations in S in the order of their numbers.
InOrder(numbers, S) ==
  [s \in S |-> Cardinality({t \in S : numbers[t] < numbers[s]})]

Size(list) == Cardinality(DOMAIN list)
StationAt(list, place) == CHOOSE s \in DOMAIN list : list[s] = place
LastOf(list) == StationAt(list, Size(list) - 1)

\* Array.splice, filter and reverse.
Inserted(list, s, place) ==
  [t \in DOMAIN list \union {s} |->
     IF t = s THEN place ELSE IF list[t] < place THEN list[t] ELSE list[t] + 1]
Removed(list, s) ==
  [t \in DOMAIN list \ {s} |-> IF list[t] < list[s] THEN list[t] ELSE list[t] - 1]
Reversed(list) == [s \in DOMAIN list |-> Size(list) - 1 - list[s]]

\* Distances that never decrease along a list.
Ascending(rows, list) ==
  \A s, t \in DOMAIN list : list[s] <= list[t] => rows[s].km <= rows[t].km

\* A mistake: only the first distance is checked.
OnlyFirstDistance(rows, list) == rows[StationAt(list, 0)].km = 0

\* #validateDistanceOrder
DistancesValid(rows, list) == rows[StationAt(list, 0)].km = 0 /\ Ascending(rows, list)

\* The model's validate and the CHECK constraints of table routes.
RouteRowValid(row) ==
  /\ row.startStationId # row.endStationId
  /\ row.totalDistanceKm # 0

TemporarySequence(rows, S) ==
  Max({-1} \union {rows[s].number : s \in S}) + Cardinality(S) + 1

\* #resequence moves the rows of a list to temporary numbers and then to
\* 0, 1, ...: a row it did not see must hold none of them (uq_route_sequence).
CanResequence(rows, list) ==
  LET start == TemporarySequence(rows, DOMAIN list)
  IN  \A s \in DOMAIN rows \ DOMAIN list :
        rows[s].number \notin 0 .. Size(list) - 1 \union start .. start + Size(list) - 1

\* A mistake: the numbers begin one below zero.
NumberedFromMinusOne(rows, list) ==
  [s \in DOMAIN rows |->
     IF s \in DOMAIN list THEN [rows[s] EXCEPT !.number = list[s] - 1] ELSE rows[s]]

Resequenced(rows, list) ==
  [s \in DOMAIN rows |->
     IF s \in DOMAIN list THEN [rows[s] EXCEPT !.number = list[s]] ELSE rows[s]]

\* A mistake: the route keeps its endpoints.
EndpointsNotSynced(current, read, rows, list) == current

\* #syncEndpoints
SyncedEndpoints(current, read, rows, list) ==
  IF Size(list) < 2 THEN current
  ELSE Updated(current, read,
         [startStationId |-> StationAt(list, 0), endStationId |-> LastOf(list),
          totalDistanceKm |-> rows[LastOf(list)].km])

\* #validateNewStationOrder: each station once, numbered 0, 1, ...
DraftValid(draft) ==
  /\ Size(draft) >= 2
  /\ {draft[s].number : s \in DOMAIN draft} = 0 .. Size(draft) - 1
  /\ DistancesValid(draft, Numbers(draft))

CountRouteStep == routeSteps < MaxRouteSteps /\ routeSteps' = routeSteps + 1

-------------------------------------------------------------------------------
\* StationService.updateStation with isActive.
SetStationActive(s, isActive) ==
  /\ CountRouteStep
  /\ (s \in activeStations) # isActive
  /\ activeStations' =
       IF isActive THEN activeStations \union {s} ELSE activeStations \ {s}
  /\ UNCHANGED <<routes, routeStations, edit, rowQueue, unchecked>>

\* A code can be given again once the edits of the route that had it are over:
\* they name the old row's id.
CodeAvailable(r) == routes[r] = None /\ \A e \in Editor : edit[e].route # r

CreateRouteWithStations(r, draft) ==
  /\ CountRouteStep
  /\ CodeAvailable(r)
  /\ DraftValid(draft)
  /\ DOMAIN draft \subseteq activeStations
  /\ LET list == Numbers(draft)
         row == [startStationId |-> StationAt(list, 0), endStationId |-> LastOf(list),
                 totalDistanceKm |-> draft[LastOf(list)].km, isActive |-> TRUE]
     IN  /\ RouteRowValid(row)
         /\ routes' = [routes EXCEPT ![r] = row]
  /\ routeStations' = [routeStations EXCEPT ![r] = draft]
  /\ UNCHANGED <<activeStations, edit, rowQueue, unchecked>>

\* POST /manage/routes without a list of stations.
CreateRoute(r, start, end) ==
  /\ CountRouteStep
  /\ CodeAvailable(r)
  /\ start # end
  /\ routes' = [routes EXCEPT ![r] =
                  [startStationId |-> start, endStationId |-> end,
                   totalDistanceKm |-> NoValue, isActive |-> TRUE]]
  /\ UNCHANGED <<activeStations, routeStations, edit, rowQueue, unchecked>>

\* The administrators' form gives isActive only; /manage/routes passes the body on.
UpdateRoute(r, values) ==
  /\ CountRouteStep
  /\ routes[r] # None
  /\ LET row == Updated(routes[r], routes[r], values)
     IN  /\ RouteRowValid(row)
         /\ routes' = [routes EXCEPT ![r] = row]
  /\ unchecked' = IF DOMAIN values = {"isActive"} THEN unchecked ELSE unchecked \union {r}
  /\ UNCHANGED <<activeStations, routeStations, edit, rowQueue>>

\* A route with journeys is kept and made inactive, another one is destroyed
\* with its stations (ON DELETE CASCADE).
DeactivateRoute(r, hasJourneys) ==
  /\ CountRouteStep
  /\ routes[r] # None
  /\ IF hasJourneys
     THEN /\ routes' = [routes EXCEPT ![r].isActive = FALSE]
          /\ UNCHANGED <<routeStations, unchecked>>
     ELSE /\ routes' = [routes EXCEPT ![r] = None]
          /\ routeStations' = [routeStations EXCEPT ![r] = NoRows]
          /\ unchecked' = unchecked \ {r}
  /\ UNCHANGED <<activeStations, edit, rowQueue>>

-------------------------------------------------------------------------------
(* The edits of the stations of a route. *)

\* The transaction begins with getRoute (and, to add, with findByRouteAndStation);
\* the edits that read the route later use only what LockRows returns.
OpenEdit(e, r) ==
  /\ CountRouteStep
  /\ edit[e] = Idle
  /\ routes[r] # None
  /\ edit' = [edit EXCEPT ![e] =
                [phase |-> "READ", route |-> r, row |-> routes[r],
                 present |-> DOMAIN routeStations[r], order |-> NoRows]]
  /\ UNCHANGED <<activeStations, routes, routeStations, rowQueue, unchecked>>

\* #getLockedRouteStations is sent: the order of the rows is that of now.
LockRows(e) ==
  /\ edit[e].phase = "READ"
  /\ LET r == edit[e].route
     IN  /\ edit' = [edit EXCEPT ![e].phase = "LOCKING",
                                 ![e].order = Numbers(routeStations[r])]
         /\ rowQueue' = [rowQueue EXCEPT ![r] = Append(@, e)]
  /\ UNCHANGED <<activeStations, routes, routeStations, unchecked, routeSteps>>

HasRows(e) ==
  /\ edit[e].phase = "LOCKING"
  /\ rowQueue[edit[e].route] # <<>> /\ Head(rowQueue[edit[e].route]) = e

\* What the locked SELECT returns: its old order, without the rows that are gone.
Records(e) ==
  InOrder(edit[e].order, DOMAIN edit[e].order \intersect DOMAIN routeStations[edit[e].route])

OrderIsStale(e) == edit[e].order # Numbers(routeStations[edit[e].route])
RowIsStale(e) == edit[e].row # routes[edit[e].route]

EndEdit(e) ==
  /\ edit' = [edit EXCEPT ![e] = Idle]
  /\ rowQueue' = [rowQueue EXCEPT ![edit[e].route] = Tail(@)]
  /\ UNCHANGED <<activeStations, routeSteps>>

CommitEdit(e, row, rows, stale) ==
  LET r == edit[e].route
  IN  /\ RouteRowValid(row)
      /\ routes' = [routes EXCEPT ![r] = row]
      /\ routeStations' = [routeStations EXCEPT ![r] = rows]
      /\ unchecked' = IF stale THEN unchecked \union {r} ELSE unchecked
      /\ EndEdit(e)

\* The edit is refused (its body, or one of the checks) and rolled back.
RefuseEdit(e) ==
  /\ HasRows(e)
  /\ EndEdit(e)
  /\ UNCHANGED <<routes, routeStations, unchecked>>

\* The new row holds a temporary number until #resequence.
AddStation(e, input, sequenceNumber) ==
  LET r == edit[e].route
      s == input.stationId
      records == Records(e)
      temporary == TemporarySequence(routeStations[r], DOMAIN records)
      list == Inserted(records, s, sequenceNumber)
      rows == [t \in DOMAIN routeStations[r] \union {s} |->
                 IF t = s THEN [number |-> temporary, km |-> input.km,
                                arrives |-> input.arrives, departs |-> input.departs]
                 ELSE routeStations[r][t]]
  IN  /\ HasRows(e)
      /\ routes[r] # None
      /\ s \notin edit[e].present \union DOMAIN routeStations[r]
      /\ sequenceNumber \in 0 .. Size(records)
      /\ \A t \in DOMAIN routeStations[r] : routeStations[r][t].number # temporary
      /\ DistancesValid(rows, list)
      /\ CanResequence(rows, list)
      /\ CommitEdit(e, SyncedEndpoints(routes[r], edit[e].row, rows, list),
                    Resequenced(rows, list), OrderIsStale(e) \/ RowIsStale(e))

RemoveStation(e, s) ==
  LET r == edit[e].route
      list == Removed(Records(e), s)
      rows == Restrict(routeStations[r], DOMAIN routeStations[r] \ {s})
  IN  /\ HasRows(e)
      /\ s \in DOMAIN Records(e)
      /\ Size(Records(e)) > 2
      /\ CanResequence(rows, list)
      /\ CommitEdit(e, SyncedEndpoints(routes[r], edit[e].row, rows, list),
                    Resequenced(rows, list), OrderIsStale(e) \/ RowIsStale(e))

\* validator.reorder and #validateOrdering: every locked row once, in its new place.
ReorderRouteStations(e, list, distances) ==
  LET r == edit[e].route
      rows == [s \in DOMAIN routeStations[r] |->
                 IF s \in DOMAIN list
                 THEN [routeStations[r][s] EXCEPT !.km = distances[s]]
                 ELSE routeStations[r][s]]
  IN  /\ HasRows(e)
      /\ Size(list) >= 2
      /\ DistancesValid(rows, list)
      /\ CanResequence(rows, list)
      /\ CommitEdit(e, SyncedEndpoints(routes[r], routes[r], rows, list),
                    Resequenced(rows, list), OrderIsStale(e))

\* The distances are checked in the order of the numbers, after the update.
UpdateRouteStation(e, input) ==
  LET r == edit[e].route
      s == input.stationId
      rows == [routeStations[r] EXCEPT ![s].km = input.km,
                 ![s].arrives = input.arrives, ![s].departs = input.departs]
      list == InOrder(Numbers(rows), DOMAIN Records(e))
  IN  /\ HasRows(e)
      /\ s \in DOMAIN Records(e)
      /\ DistancesValid(rows, list)
      /\ CommitEdit(e, [routes[r] EXCEPT !.totalDistanceKm = rows[LastOf(list)].km],
                    rows, OrderIsStale(e))

ReverseOffset(totalOffset, offset) ==
  IF offset = NoValue THEN NoValue ELSE totalOffset - offset

ReversedRows(rows, list, totalDistance) ==
  LET known(offset) == IF offset = NoValue THEN 0 ELSE offset
      totalOffset ==
        Max(UNION {{known(rows[s].arrives), known(rows[s].departs)} : s \in DOMAIN list})
  IN  [s \in DOMAIN list |->
         [number |-> Reversed(list)[s],
          km |-> totalDistance - rows[s].km,
          arrives |-> ReverseOffset(totalOffset, rows[s].departs),
          departs |-> ReverseOffset(totalOffset, rows[s].arrives)]]

\* The clone takes the row that was read first.  A distance below zero is
\* refused by the table; a source without a total by #validateRoute.
CloneReverseRoute(e, clone, overrides) ==
  LET r == edit[e].route
      source == edit[e].row
      records == Records(e)
      row == Updated([source EXCEPT !.startStationId = source.endStationId,
                                    !.endStationId = source.startStationId],
                     [f \in DOMAIN source |-> None], overrides)
  IN  /\ HasRows(e)
      /\ CodeAvailable(clone)
      /\ Size(records) >= 2
      /\ row.totalDistanceKm # NoValue
      /\ RouteRowValid(row)
      /\ LET total == IF source.totalDistanceKm = NoValue
                      THEN routeStations[r][LastOf(records)].km
                      ELSE source.totalDistanceKm
         IN  /\ \A s \in DOMAIN records : routeStations[r][s].km <= total
             /\ routeStations' = [routeStations EXCEPT ![clone] =
                                    ReversedRows(routeStations[r], records, total)]
      /\ routes' = [routes EXCEPT ![clone] = row]
      /\ unchecked' =
           IF r \in unchecked \/ OrderIsStale(e) \/ RowIsStale(e) \/ DOMAIN overrides # {}
           THEN unchecked \union {clone} ELSE unchecked
      /\ EndEdit(e)

-------------------------------------------------------------------------------
RoutesInit ==
  /\ activeStations = Station
  /\ routes = [r \in Route |-> None]
  /\ routeStations = [r \in Route |-> NoRows]
  /\ edit = [e \in Editor |-> Idle]
  /\ rowQueue = [r \in Route |-> <<>>]
  /\ unchecked = {}
  /\ routeSteps = 0

\* A new order for the locked rows, with distances.
Reorder(e) ==
  /\ HasRows(e)
  /\ \E list \in Bijection(DOMAIN Records(e), 0 .. Size(Records(e)) - 1),
        distances \in [DOMAIN Records(e) -> Distances] :
       ReorderRouteStations(e, list, distances)

EditStep(e) ==
  \/ \E r \in Route : OpenEdit(e, r)
  \/ LockRows(e)
  \/ RefuseEdit(e)
  \/ \E input \in StopInput :
       \/ \E sequenceNumber \in 0 .. Cardinality(Station) : AddStation(e, input, sequenceNumber)
       \/ UpdateRouteStation(e, input)
  \/ \E s \in Station : RemoveStation(e, s)
  \/ Reorder(e)
  \/ \E clone \in Route, overrides \in RoutePatches \union {NoRows} :
       CloneReverseRoute(e, clone, overrides)

\* hasJourneys: the routes that journeys refer to.
RoutesNext(hasJourneys) ==
  \/ \E s \in Station, isActive \in BOOLEAN : SetStationActive(s, isActive)
  \/ \E r \in Route :
       \/ \E draft \in RouteDrafts : CreateRouteWithStations(r, draft)
       \/ \E start, end \in Station : CreateRoute(r, start, end)
       \/ \E values \in RoutePatches : UpdateRoute(r, values)
       \/ DeactivateRoute(r, r \in hasJourneys)
  \/ \E e \in Editor : EditStep(e)

-------------------------------------------------------------------------------
\* Along every route whose edits each saw the other's work, the stations are
\* numbered 0, 1, ... without a gap, the distances never decrease, and the
\* route's own row names its first and last station and at least the distance
\* of the last: what searches, fares and journeys take a route to be.
RouteOrdered(route, rows) ==
  LET list == Numbers(rows)
  IN  /\ {rows[s].number : s \in DOMAIN rows} = 0 .. Size(list) - 1
      /\ Ascending(rows, list)
      /\ Size(list) >= 2 =>
           /\ route.startStationId = StationAt(list, 0)
           /\ route.endStationId = LastOf(list)
           /\ route.totalDistanceKm >= rows[LastOf(list)].km

RoutesStayOrdered ==
  \A r \in Route \ unchecked :
    routes[r] # None => RouteOrdered(routes[r], routeStations[r])
===============================================================================
