------------------------------ MODULE SeatBooking ------------------------------
(***************************************************************************)
(* Bookings of one journey: seat holds, their confirmation by a payment,    *)
(* cancellation, expiry by the background job, completion and refund, with  *)
(* the seat allocations they own.  Translated from                          *)
(*   modules/bookings/booking.service.js, booking-status.service.js,        *)
(*   modules/availability/seat-availability.service.js,                     *)
(*   jobs/expire-booking-holds.job.js and the journey and journey-seat      *)
(*   services that change what a hold is checked against.                   *)
(*                                                                          *)
(* A database transaction is one step: seat holds and confirmations run at  *)
(* SERIALIZABLE with row and advisory locks, status changes lock the        *)
(* booking row.  What the code does outside a transaction (the preview of a *)
(* hold, the job's list of ids) is a step of its own, and what it learnt    *)
(* may be stale when it is used.                                            *)
(***************************************************************************)
EXTENDS SeatAllocations, FiniteSets

CONSTANTS
  Bookings,          \* ids of hold requests, and of the bookings they create
  Seats,             \* the physical seats of the journey
  Requests,          \* what passengers ask for: seats and a segment
  MaximumPassengers, \* booking.service.js, this.maximumPassengers
  HoldMinutes,       \* this.holdMinutes
  BookingWindow,     \* clock readings at which the journey may be booked
  BatchSize,         \* config.batchSize of the expiry job
  MaxSkew,           \* how far an application clock is from the database's
  MaxTime,           \* bound on the database clock
  JourneyInputs,     \* journey statuses administrators store
  SeatInputs         \* seat statuses administrators store

JourneyStatus == {"DRAFT", "SCHEDULED", "BOARDING", "DEPARTED", "COMPLETED",
                  "DELAYED", "CANCELLED"}
SeatStatus == {"AVAILABLE", "BLOCKED", "MAINTENANCE", "UNAVAILABLE"}

ASSUME ConstantsAssumption ==
  /\ Requests \subseteq [seats : SUBSET Seats, segment : Segment]
  /\ \A r \in Requests : IsFiniteSet(r.seats)
  /\ HoldMinutes \in Nat \ {0}
  /\ BatchSize \in Nat \ {0}
  /\ MaxSkew \in Nat
  /\ MaxTime \in Nat
  /\ MaximumPassengers \in Nat
  /\ JourneyInputs \subseteq JourneyStatus
  /\ SeatInputs \subseteq SeatStatus

VARIABLES
  now,            \* the database's NOW()
  journeyStatus,  \* journeys.status
  seatStatus,     \* journey_seats.status
  status,         \* bookings.status, or the stage of a request with no row yet
  request,        \* seats and segment of the request, then of booking_seats
  holdExpiresAt,  \* bookings.hold_expires_at
  alloc,          \* active_seat_allocations
  paid,           \* bookings with a PAID payment
  jobBatch        \* ids the running expiry job has fetched and not processed

vars == <<now, journeyStatus, seatStatus, status, request, holdExpiresAt,
          alloc, paid, jobBatch>>

BookingStatus == {"HELD", "CONFIRMED", "EXPIRED", "CANCELLED", "COMPLETED", "REFUNDED"}

\* NEW: no request yet, or the last one failed; PREVIEWED: checked, not stored.
Stage == BookingStatus \union {"NEW", "PREVIEWED"}

\* Readings an application server's clock may give; the database gives now.
AppClock == {t \in 0 .. (MaxTime + MaxSkew) : t <= now + MaxSkew /\ now <= t + MaxSkew}

TypeOK ==
  /\ now \in 0 .. MaxTime
  /\ journeyStatus \in JourneyStatus
  /\ seatStatus \in [Seats -> SeatStatus]
  /\ status \in [Bookings -> Stage]
  /\ request \in [Bookings -> Requests \union {Null}]
  /\ holdExpiresAt \in [Bookings -> Nat \union {Null}]
  /\ alloc \subseteq Allocation(Bookings, Seats)
  /\ paid \subseteq Bookings
  /\ jobBatch \subseteq Bookings

Init ==
  /\ now = 0
  /\ journeyStatus = "SCHEDULED"
  /\ seatStatus = [s \in Seats |-> "AVAILABLE"]
  /\ status = [b \in Bookings |-> "NEW"]
  /\ request = [b \in Bookings |-> Null]
  /\ holdExpiresAt = [b \in Bookings |-> Null]
  /\ alloc = {}
  /\ paid = {}
  /\ jobBatch = {}

-------------------------------------------------------------------------------
(* Placing a hold                                                            *)

\* validateJourneyForBooking
OpenForBooking(journey) == journey \in {"SCHEDULED", "DELAYED"}

\* A mistake: the status of the seat is not looked at again.
AllFree(r, table, t) == \A s \in r.seats : NoActiveOverlap(table, s, r.segment, t)

\* checkMultipleSeatsAvailability over the allocations of table, at t
AllAvailable(r, table, t) ==
  \A s \in r.seats :
    /\ seatStatus[s] = "AVAILABLE"
    /\ NoActiveOverlap(table, s, r.segment, t)

\* createBookingHold up to its transaction: the journey, the window and the
\* seats are checked, nothing is locked.
PreviewHold(b) ==
  /\ status[b] = "NEW"
  /\ OpenForBooking(journeyStatus)
  /\ \E t \in AppClock \cap BookingWindow, r \in Requests :
       /\ Cardinality(r.seats) \in 1 .. MaximumPassengers
       /\ AllAvailable(r, alloc, t)
       /\ request' = [request EXCEPT ![b] = r]
  /\ status' = [status EXCEPT ![b] = "PREVIEWED"]
  /\ UNCHANGED <<now, journeyStatus, seatStatus, holdExpiresAt, alloc, paid, jobBatch>>

\* The part of a transaction that puts seats on hold, its last clock reading being
\* t: lapsed holds of the seats of r are deleted, the seats are checked again, and
\* rows that expire in the given minutes are inserted.  Each statement reads the
\* clock for itself, so a hold may lapse between the clean-up and the check; the
\* check lets it pass, and the constraint refuses the rows if they meet.
PutSeatsOnHold(holder, r, table, t, minutes) ==
  \E deleted \in 0 .. t : \E checked \in deleted .. t :
    LET kept == DeleteExpiredHoldsForSeats(table, r.seats, deleted)
        rows == HeldAllocations(holder, r.seats, r.segment, t + minutes)
    IN  /\ AllAvailable(r, kept, checked)
        /\ ExclusionConstraint(kept \union rows)
        /\ alloc' = kept \union rows

\* What the transaction of createBookingHold does to a table: the seats are put
\* on hold and the booking is stored.
PlaceHold(b, r, table, t) ==
  /\ PutSeatsOnHold(b, r, table, t, HoldMinutes)
  /\ holdExpiresAt' = [holdExpiresAt EXCEPT ![b] = t + HoldMinutes]

CommitHold(b, t) == PlaceHold(b, request[b], alloc, t)

\* The serializable transaction.  MaxTime bounds the expiry.
CreateBookingHold(b) ==
  /\ status[b] = "PREVIEWED"
  /\ \E t \in AppClock : t + HoldMinutes <= MaxTime /\ CommitHold(b, t)
  /\ status' = [status EXCEPT ![b] = "HELD"]
  /\ UNCHANGED <<now, journeyStatus, seatStatus, request, paid, jobBatch>>

\* A request ends without a booking: a seat was taken meanwhile, a hold lapsed
\* after the clean-up and the constraint refused the rows, the fare cannot be
\* computed, the retries of the transaction ran out, or the server stopped.  The
\* transaction's own deletions are rolled back with it.
RejectHold(b) ==
  /\ status[b] = "PREVIEWED"
  /\ status' = [status EXCEPT ![b] = "NEW"]
  /\ request' = [request EXCEPT ![b] = Null]
  /\ UNCHANGED <<now, journeyStatus, seatStatus, holdExpiresAt, alloc, paid, jobBatch>>

-------------------------------------------------------------------------------
(* transitionBookingStatus                                                   *)

\* A mistake: the rows stay.
ReleaseStatusOnly(b, target) ==
  /\ status' = [status EXCEPT ![b] = target]
  /\ UNCHANGED <<alloc, holdExpiresAt>>

\* Leaving HELD or CONFIRMED for good gives the seats back.
ReleaseTo(b, target) ==
  /\ status' = [status EXCEPT ![b] = target]
  /\ alloc' = DeleteByHolder(alloc, b)
  /\ UNCHANGED holdExpiresAt

\* validateTransition and the updates of a HELD -> CONFIRMED transition;
\* the hold is compared with the database's clock.
ConfirmHeld(b) ==
  /\ status[b] = "HELD"
  /\ holdExpiresAt[b] > now
  /\ status' = [status EXCEPT ![b] = "CONFIRMED"]
  /\ holdExpiresAt' = [holdExpiresAt EXCEPT ![b] = Null]
  /\ alloc' = ConfirmByHolder(alloc, b)

\* A payment of b succeeds (webhook, bank-slip approval or reconciliation):
\* it is marked PAID and completePaidBooking confirms the booking, in one
\* transaction.
CompletePaidBooking(b) ==
  /\ b \notin paid
  /\ \E t \in AppClock : status[b] = "HELD" /\ holdExpiresAt[b] > t
  /\ ConfirmHeld(b)
  /\ paid' = paid \union {b}
  /\ UNCHANGED <<now, journeyStatus, seatStatus, request, jobBatch>>

\* The same, when the booking can no longer be confirmed: the money is kept
\* for manual resolution and the booking is left as it is.
PaidTooLate(b) ==
  /\ b \notin paid
  /\ status[b] \in BookingStatus
  /\ \E t \in AppClock : status[b] = "HELD" => holdExpiresAt[b] <= t
  /\ paid' = paid \union {b}
  /\ UNCHANGED <<now, journeyStatus, seatStatus, status, request, holdExpiresAt,
                 alloc, jobBatch>>

\* A mistake: one row is enough for the party.
SomeAllocationConfirmable(b, t) ==
  \E a \in alloc : a.holder = b /\ a.allocationType = "HELD" /\ a.expiresAt > t

\* confirmBookingAllocations: every booking seat has a HELD, unexpired row.
AllocationsConfirmable(b, t) ==
  \A s \in request[b].seats :
    \E a \in alloc : /\ a.holder = b
                     /\ a.seat = s
                     /\ a.allocationType = "HELD"
                     /\ a.expiresAt > t

\* POST confirm: confirmBooking with a payment that is already PAID.
ConfirmBooking(b) ==
  /\ b \in paid
  /\ status[b] = "HELD"
  /\ \E t \in AppClock : AllocationsConfirmable(b, t)
  /\ ConfirmHeld(b)
  /\ UNCHANGED <<now, journeyStatus, seatStatus, request, paid, jobBatch>>

CancelBooking(b) ==
  /\ status[b] \in {"HELD", "CONFIRMED"}
  /\ ReleaseTo(b, "CANCELLED")
  /\ UNCHANGED <<now, journeyStatus, seatStatus, request, paid, jobBatch>>

CompleteBooking(b) ==
  /\ status[b] = "CONFIRMED"
  /\ journeyStatus \in {"DEPARTED", "COMPLETED"}
  /\ ReleaseTo(b, "COMPLETED")
  /\ UNCHANGED <<now, journeyStatus, seatStatus, request, paid, jobBatch>>

\* markRefunded needs a successful refund, which needs a successful payment.
MarkRefunded(b) ==
  /\ status[b] = "CANCELLED"
  /\ b \in paid
  /\ status' = [status EXCEPT ![b] = "REFUNDED"]
  /\ UNCHANGED <<now, journeyStatus, seatStatus, request, holdExpiresAt, alloc,
                 paid, jobBatch>>

-------------------------------------------------------------------------------
(* The expiry job                                                            *)

ExpiredHolds == {b \in Bookings : status[b] = "HELD" /\ holdExpiresAt[b] <= now}

\* findExpiredHeldBookingIds: the earliest expiries, at most BatchSize.
FetchExpiredHolds ==
  /\ jobBatch = {}
  /\ ExpiredHolds # {}
  /\ \E B \in SUBSET ExpiredHolds :
       /\ B # {}
       /\ Cardinality(B) <= BatchSize
       /\ B = ExpiredHolds \/ Cardinality(B) = BatchSize
       /\ \A b \in B, c \in ExpiredHolds \ B : holdExpiresAt[b] <= holdExpiresAt[c]
       /\ jobBatch' = B
  /\ UNCHANGED <<now, journeyStatus, seatStatus, status, request, holdExpiresAt,
                 alloc, paid>>

\* A mistake: a record that needs nothing any more is not counted as done.
ExpireOrStall(b) ==
  /\ b \in jobBatch
  /\ b \in ExpiredHolds
  /\ jobBatch' = jobBatch \ {b}
  /\ ReleaseTo(b, "EXPIRED")
  /\ UNCHANGED <<now, journeyStatus, seatStatus, request, paid>>

\* One record of the batch, in a transaction of its own: EXPIRED if it is
\* still HELD, skipped if anything else has happened to it since the fetch.
ExpireBooking(b) ==
  /\ b \in jobBatch
  /\ jobBatch' = jobBatch \ {b}
  /\ \/ /\ b \in ExpiredHolds
        /\ ReleaseTo(b, "EXPIRED")
     \/ /\ status[b] # "HELD"
        /\ UNCHANGED <<status, holdExpiresAt, alloc>>
  /\ UNCHANGED <<now, journeyStatus, seatStatus, request, paid>>

\* A record fails (the job goes on with the next one), or the job is stopped.
DropRecords ==
  /\ \E B \in SUBSET jobBatch : B # {} /\ jobBatch' = jobBatch \ B
  /\ UNCHANGED <<now, journeyStatus, seatStatus, status, request, holdExpiresAt,
                 alloc, paid>>

-------------------------------------------------------------------------------
(* Management of the journey and of its seats; time                          *)

\* cancelJourney, completeJourney and delayJourney check the old status;
\* updateJourney stores any status it is given.  None looks at the bookings.
CancelJourney == journeyStatus \notin {"COMPLETED", "CANCELLED"} /\ journeyStatus' = "CANCELLED"
CompleteJourney ==
  journeyStatus \notin {"DRAFT", "CANCELLED", "COMPLETED"} /\ journeyStatus' = "COMPLETED"
DelayJourney == journeyStatus \notin {"CANCELLED", "COMPLETED"} /\ journeyStatus' = "DELAYED"
UpdateJourney == \E s \in JourneyInputs : journeyStatus' = s

ChangeJourney ==
  /\ CancelJourney \/ CompleteJourney \/ DelayJourney \/ UpdateJourney
  /\ UNCHANGED <<now, seatStatus, status, request, holdExpiresAt, alloc, paid, jobBatch>>

SetSeatStatus(s) ==
  /\ \E st \in SeatInputs : seatStatus' = [seatStatus EXCEPT ![s] = st]
  /\ UNCHANGED <<now, journeyStatus, status, request, holdExpiresAt, alloc, paid, jobBatch>>

Tick ==
  /\ now < MaxTime
  /\ now' = now + 1
  /\ UNCHANGED <<journeyStatus, seatStatus, status, request, holdExpiresAt, alloc,
                 paid, jobBatch>>

BookingStep(b) ==
  \/ PreviewHold(b) \/ CreateBookingHold(b) \/ RejectHold(b)
  \/ CompletePaidBooking(b) \/ PaidTooLate(b) \/ ConfirmBooking(b)
  \/ CancelBooking(b) \/ CompleteBooking(b) \/ MarkRefunded(b)
  \/ ExpireBooking(b)

Next ==
  \/ \E b \in Bookings : BookingStep(b)
  \/ FetchExpiredHolds \/ DropRecords
  \/ ChangeJourney
  \/ \E s \in Seats : SetSeatStatus(s)
  \/ Tick

Spec == Init /\ [][Next]_vars

\* Time passes and the scheduler keeps running the job; a record that is
\* fetched again and again is at some time not dropped.  Nobody else is fair.
Fairness ==
  /\ WF_vars(Tick)
  /\ WF_vars(FetchExpiredHolds)
  /\ \A b \in Bookings : SF_vars(ExpireBooking(b))

FairSpec == Spec /\ Fairness

-------------------------------------------------------------------------------
(* Properties                                                                *)

\* The seats on single legs that a booking is about.
BookingCells(b) == request[b].seats \X Legs(request[b].segment)

\* The passenger may count on the seats: paid for, or held and not lapsed.
Live(b) ==
  \/ status[b] = "CONFIRMED"
  \/ status[b] = "HELD" /\ holdExpiresAt[b] > now

\* No seat is sold twice: two bookings that both count never share a seat on
\* a leg, whatever the interleaving of previews, commits, payments, lapses
\* and the deletion of lapsed holds by later bookings.
LiveBookingsDisjoint ==
  \A b, c \in Bookings :
    b # c /\ Live(b) /\ Live(c) => BookingCells(b) \intersect BookingCells(c) = {}

\* A booking that counts owns a row for each of its seats, of its own type and
\* expiry: nobody's clean-up of lapsed holds or release takes it away.
LiveBookingsOwnSeats ==
  \A b \in Bookings :
    Live(b) =>
      \A s \in request[b].seats :
        [holder |-> b, seat |-> s, segment |-> request[b].segment,
         allocationType |-> status[b], expiresAt |-> holdExpiresAt[b]] \in alloc

\* No seat leaks: a row that occupies a seat belongs to a booking still HELD
\* or CONFIRMED and agrees with it, so releasing bookings releases seats.
NoLeakedAllocations ==
  \A a \in alloc :
    /\ status[a.holder] \in {"HELD", "CONFIRMED"}
    /\ a.allocationType = status[a.holder]
    /\ a.expiresAt = holdExpiresAt[a.holder]
    /\ a.seat \in request[a.holder].seats
    /\ a.segment = request[a.holder].segment

\* Whatever the clocks say, a booking confirmed by POST confirm owns a CONFIRMED
\* row for every seat (confirmBookingAllocations counts them first).
RouteConfirmationOwnsSeats ==
  [][\A b \in paid :
       status[b] = "HELD" /\ status'[b] = "CONFIRMED" =>
         \A s \in request[b].seats :
           \E a \in alloc' : a.holder = b /\ a.seat = s /\ a.allocationType = "CONFIRMED"]_vars

PlacesHold(b) == status[b] # "HELD" /\ status'[b] = "HELD"

\* A seat blocked between the preview of a hold and its commit is not sold.
BlockedSeatsNotSold ==
  [][\A b \in Bookings :
       PlacesHold(b) => \A s \in request[b].seats : seatStatus[s] = "AVAILABLE"]_vars

\* A journey cancelled or departed between the preview of a hold and its
\* commit takes no booking (tests/unit/services/booking.service.test.js:167,
\* "rejects cancelled journeys").
ClosedJourneyNotBooked ==
  [][\A b \in Bookings : PlacesHold(b) => OpenForBooking(journeyStatus)]_vars

\* Every hold ends: it is confirmed, cancelled or, when its time is over,
\* expired by the job, whatever records the job drops.
HoldsSettle == \A b \in Bookings : status[b] = "HELD" ~> status[b] # "HELD"

\* The bookings implement the seat ledger: a booking that counts owns its cells.
LiveCells == [b \in Bookings |-> IF Live(b) THEN BookingCells(b) ELSE {}]

Ledger == INSTANCE SeatLedger
            WITH Holders <- Bookings,
                 Lots <- {r.seats \X Legs(r.segment) : r \in Requests},
                 owned <- LiveCells

\* Holds, payments, cancellations, the job and the clock only claim a free lot
\* for one booking or release the lots of some bookings.
ImplementsLedger == Ledger!Spec
===============================================================================
