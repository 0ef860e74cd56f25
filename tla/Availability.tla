------------------------------ MODULE Availability ------------------------------
(***************************************************************************)
(* What passengers are shown of the seats of a journey, and what a hold     *)
(* checks: the two searches, the availability queries, the seat map and the *)
(* preview of createBookingHold, over the same rows.  Translated from       *)
(* modules/availability/ (service and repository), modules/journeys/        *)
(* journey.repository.js and journey.service.js, modules/seatmap/ (service  *)
(* and repository) and modules/bookings/booking.service.js.                 *)
(*                                                                          *)
(* Each view is an operator over the rows as they are; the actions change   *)
(* the rows.  Snapshots of coaches and stations are constants, all stations *)
(* of a journey lie at different distances, and every query reads one       *)
(* instant.                                                                 *)
(***************************************************************************)
EXTENDS SeatAllocations, FiniteSetsExt

CONSTANTS
  SeatRow,        \* the rows of journey_seats
  CoachRow,       \* the rows of journey_coaches
  CoachOf,        \* row of a seat -> row of its coach
  CoachClass,     \* coach_class_snapshot
  ReservedCoach,  \* coaches whose reservation_type_snapshot is RESERVED
  LastStop,       \* stations are 0 .. LastStop
  BoardingStops, AlightingStops,
  Holder,         \* bookings and waitlist entries
  OfferHolder,    \* the waitlist entries among them
  JourneyRows,    \* states of the journey that administrators store
  MaxParty,       \* maximumPassengers
  HoldTime,       \* how long a hold lasts
  MaxClosed,      \* bound on the rows that administrators have closed at once
  MaxClock        \* bound on time

RowStatus == {"AVAILABLE", "BLOCKED", "MAINTENANCE", "UNAVAILABLE"}

ASSUME AvailabilityAssumption ==
  /\ CoachOf \in [SeatRow -> CoachRow] /\ IsFiniteSet(SeatRow)
  /\ \A c \in CoachRow : CoachClass[c] # Null
  /\ ReservedCoach \subseteq CoachRow /\ OfferHolder \subseteq Holder
  /\ LastStop \in Nat \ {0} /\ MaxParty \in Nat /\ HoldTime \in Nat \ {0}
  /\ MaxClosed \in Nat /\ MaxClock \in Nat

VARIABLES
  journey,    \* status, opens and closes of bookings, departure from station 0
  rowStatus,  \* journey_seats.status
  coachOpen,  \* coaches with is_available
  activeSeat, \* seats with is_active
  table,      \* active_seat_allocations
  clock       \* now

availabilityVars == <<journey, rowStatus, coachOpen, activeSeat, table, clock>>

Stop == 0 .. LastStop
Rides == {ride \in [originSequence : Stop, destinationSequence : Stop] :
            ride.originSequence < ride.destinationSequence}
ClassWanted == {CoachClass[c] : c \in CoachRow} \union {Null}

AvailabilityTypeOK ==
  /\ journey \in JourneyRows
  /\ rowStatus \in [SeatRow -> RowStatus]
  /\ coachOpen \subseteq CoachRow /\ activeSeat \subseteq SeatRow
  /\ table \subseteq Allocation(Holder, SeatRow)
  /\ clock \in 0 .. MaxClock

\* generateSnapshots takes the active seats of the active coaches.
AvailabilityInit ==
  /\ journey \in {j \in JourneyRows : j.status = "SCHEDULED"}
  /\ rowStatus = [r \in SeatRow |-> "AVAILABLE"]
  /\ coachOpen = CoachRow /\ activeSeat = SeatRow
  /\ table = {} /\ clock = 0

-------------------------------------------------------------------------------
(* Availability of seats, as a hold checks it                                *)

\* validateJourneySegment
SegmentOffered(ride) ==
  /\ journey.status # "CANCELLED"
  /\ ride.originSequence \in BoardingStops /\ ride.destinationSequence \in AlightingStops

\* intrinsicallyAvailable
Usable(r) ==
  /\ rowStatus[r] = "AVAILABLE"
  /\ CoachOf[r] \in coachOpen /\ CoachOf[r] \in ReservedCoach
  /\ r \in activeSeat

\* checkSeatAvailability
SeatAvailable(r, ride, t) == Usable(r) /\ NoActiveOverlap(table, r, ride, t)

\* checkMultipleSeatsAvailability, of distinct seats
SeatsAvailable(rows, ride, t) == rows # {} /\ \A r \in rows : SeatAvailable(r, ride, t)

\* #findSeats: the seats in RESERVED coaches that are available, or are not.
FoundSeats(ride, t, available) ==
  {r \in SeatRow : CoachOf[r] \in ReservedCoach /\ SeatAvailable(r, ride, t) = available}

\* getJourneySeatTotals
SeatTotals(ride, t) ==
  [availableSeats |-> Cardinality(FoundSeats(ride, t, TRUE)),
   unavailableSeats |-> Cardinality(FoundSeats(ride, t, FALSE))]

\* findCoachSeatCounts
CoachCounts(ride, t) ==
  [c \in {CoachOf[r] : r \in FoundSeats(ride, t, TRUE) \union FoundSeats(ride, t, FALSE)} |->
     [availableSeats |-> Cardinality({r \in FoundSeats(ride, t, TRUE) : CoachOf[r] = c}),
      unavailableSeats |-> Cardinality({r \in FoundSeats(ride, t, FALSE) : CoachOf[r] = c})]]

\* #groupSeats: the coaches that have one of the seats, each with those it has.
GroupedByCoach(rows) ==
  [c \in {CoachOf[r] : r \in rows} |-> {r \in rows : CoachOf[r] = c}]

\* getAvailableSeats
AvailableSeats(ride, t) == GroupedByCoach(FoundSeats(ride, t, TRUE))

\* getJourneyAvailabilitySummary, what is available in each class
ClassCounts(ride, t) ==
  LET counts == CoachCounts(ride, t)
      available == [c \in DOMAIN counts |-> counts[c].availableSeats]
  IN [class \in {CoachClass[c] : c \in DOMAIN counts} |->
        MapThenSumSet(LAMBDA c : available[c], {c \in DOMAIN counts : CoachClass[c] = class})]

\* validateBookingWindow
WindowOpen(t) ==
  /\ journey.opens # Null => journey.opens <= t
  /\ journey.closes # Null => journey.closes > t

\* createBookingHold up to its transaction
HoldAccepted(rows, ride, t) ==
  /\ Cardinality(rows) \in 1 .. MaxParty
  /\ journey.status \in {"SCHEDULED", "DELAYED"}
  /\ WindowOpen(t)
  /\ SegmentOffered(ride)
  /\ SeatsAvailable(rows, ride, t)
  /\ \A r, q \in rows : CoachClass[CoachOf[r]] = CoachClass[CoachOf[q]]

-------------------------------------------------------------------------------
(* What is shown                                                             *)

\* The subquery of the searches that counts seats, of a class or of any.
CountedSeats(ride, class) ==
  {r \in SeatRow : /\ Usable(r) /\ NoActiveOverlap(table, r, ride, clock)
                   /\ class \in {Null, CoachClass[CoachOf[r]]}}

\* A mistake: only the opening of the window is looked at.
ListedOnceOpen(ride, party, class) ==
  /\ journey.status \in {"SCHEDULED", "DELAYED", "BOARDING"}
  /\ ride.originSequence \in BoardingStops /\ ride.destinationSequence \in AlightingStops
  /\ journey.opens # Null => journey.opens <= clock
  /\ Cardinality(CountedSeats(ride, class)) >= party

\* searchUpcomingJourneys, between named stations
ListedUpcoming(ride, party, class) ==
  /\ journey.status \in {"SCHEDULED", "DELAYED", "BOARDING"}
  /\ ride.originSequence \in BoardingStops /\ ride.destinationSequence \in AlightingStops
  /\ WindowOpen(clock)
  /\ Cardinality(CountedSeats(ride, class)) >= party

\* searchPublicJourneys, which lists no train that has left.
ListedPublic(ride, party, class) ==
  ListedUpcoming(ride, party, class) /\ journey.departs + ride.originSequence > clock

\* A mistake: a hold that has lapsed still shows.
AnyConflict(r, ride) == Overlapping(table, r, ride)

\* The lateral join of getJourneySeatMap: a confirmed allocation before a hold.
Conflicts(r, ride) == {a \in Overlapping(table, r, ride) : Active(a, clock)}

\* buildSeatState
SeatState(r, ride) ==
  IF journey.status \in {"CANCELLED", "COMPLETED"} THEN "UNAVAILABLE"
  ELSE IF CoachOf[r] \notin coachOpen \intersect ReservedCoach \/ r \notin activeSeat
       THEN "UNAVAILABLE"
  ELSE IF rowStatus[r] # "AVAILABLE" THEN rowStatus[r]
  ELSE IF \E a \in Conflicts(r, ride) : a.allocationType = "CONFIRMED" THEN "CONFIRMED"
  ELSE IF \E a \in Conflicts(r, ride) : a.holder \in OfferHolder THEN "WAITLIST_OFFERED"
  ELSE IF Conflicts(r, ride) # {} THEN "HELD" ELSE "AVAILABLE"

Selectable(r, ride) == SeatState(r, ride) = "AVAILABLE"

\* The summary of buildSeatMapResponse counts the rows of every coach.
MapSummary(ride) ==
  [totalReservedSeats |-> Cardinality(SeatRow),
   availableSeats |-> Cardinality({r \in SeatRow : Selectable(r, ride)})]

-------------------------------------------------------------------------------
(* What changes the rows                                                     *)

ChangeJourneyRow ==
  /\ journey' \in JourneyRows
  /\ UNCHANGED <<rowStatus, coachOpen, activeSeat, table, clock>>

Closed(statuses, seats, coaches) ==
  Cardinality({r \in SeatRow : statuses[r] # "AVAILABLE" \/ r \notin seats})
    + Cardinality(CoachRow \ coaches)

WithinClosed == Closed(rowStatus', activeSeat', coachOpen') <= MaxClosed

ChangeSeatRow(r) ==
  /\ \/ /\ \E status \in RowStatus : rowStatus' = [rowStatus EXCEPT ![r] = status]
        /\ UNCHANGED activeSeat
     \/ /\ activeSeat' \in {activeSeat \union {r}, activeSeat \ {r}}
        /\ UNCHANGED rowStatus
  /\ UNCHANGED <<journey, coachOpen, table, clock>> /\ WithinClosed

ChangeCoachRow(c) ==
  /\ coachOpen' \in {coachOpen \union {c}, coachOpen \ {c}}
  /\ UNCHANGED <<journey, rowStatus, activeSeat, table, clock>> /\ WithinClosed

\* createBookingHold, or an offer of free seats, whose expiry is not extended.
HoldSeats(h, rows, ride) ==
  /\ \A a \in table : a.holder # h
  /\ IF h \in OfferHolder THEN SeatsAvailable(rows, ride, clock) ELSE HoldAccepted(rows, ride, clock)
  /\ table' = DeleteExpiredHoldsForSeats(table, rows, clock)
                \union HeldAllocations(h, rows, ride, clock + HoldTime)
  /\ UNCHANGED <<journey, rowStatus, coachOpen, activeSeat, clock>>

\* A payment confirms what a booking holds.
ConfirmSeats(h) ==
  /\ h \notin OfferHolder
  /\ \E a \in table : a.holder = h /\ Active(a, clock)
  /\ table' = ConfirmByHolder(table, h)
  /\ UNCHANGED <<journey, rowStatus, coachOpen, activeSeat, clock>>

\* Cancellation, expiry by a job, or the end of an offer.
ReleaseSeats(h) ==
  /\ table' = DeleteByHolder(table, h)
  /\ UNCHANGED <<journey, rowStatus, coachOpen, activeSeat, clock>>

PassTime ==
  /\ clock < MaxClock /\ clock' = clock + 1
  /\ UNCHANGED <<journey, rowStatus, coachOpen, activeSeat, table>>

AvailabilityNext ==
  \/ ChangeJourneyRow \/ PassTime
  \/ \E r \in SeatRow : ChangeSeatRow(r)
  \/ \E c \in CoachRow : ChangeCoachRow(c)
  \/ \E h \in Holder :
       \/ ConfirmSeats(h) \/ ReleaseSeats(h)
       \/ \E rows \in SUBSET SeatRow, ride \in Rides : HoldSeats(h, rows, ride)

AvailabilitySpec == AvailabilityInit /\ [][AvailabilityNext]_availabilityVars

-------------------------------------------------------------------------------
(* Properties                                                                *)

\* The seat map lets a passenger select exactly the seats that the hold's check
\* finds free, the availability queries list the same ones by coach, and their
\* totals by class are what the searches count, of an offered segment of a journey
\* that still runs, whoever has the other seats and however they were closed
\* (seatmap.service.js:74 and seat-availability.service.js:81).
SeatViewsAgree ==
  \A ride \in Rides :
    LET selectable == {r \in SeatRow : Selectable(r, ride)}
    IN SegmentOffered(ride) /\ journey.status # "COMPLETED" =>
         /\ selectable = {r \in SeatRow : SeatAvailable(r, ride, clock)}
         /\ MapSummary(ride).availableSeats = SeatTotals(ride, clock).availableSeats
         /\ selectable = UNION {AvailableSeats(ride, clock)[c] :
                                  c \in DOMAIN AvailableSeats(ride, clock)}
         /\ \A class \in DOMAIN ClassCounts(ride, clock) :
              ClassCounts(ride, clock)[class] = Cardinality(CountedSeats(ride, class))

\* A journey that either search lists for a party and a class can be booked at
\* once, unless it is boarding; a party that named no class may find its seats in
\* different ones (journey.repository.js:101 and booking.service.js:63).
ListedCanBeHeld ==
  \A ride \in Rides, party \in 1 .. MaxParty, class \in ClassWanted \ {Null} :
    /\ ListedPublic(ride, party, class) \/ ListedUpcoming(ride, party, class)
    /\ journey.status # "BOARDING"
    => \E rows \in SUBSET CountedSeats(ride, class) :
         Cardinality(rows) = party /\ HoldAccepted(rows, ride, clock)
===============================================================================
