-------------------------------- MODULE Waitlist --------------------------------
(***************************************************************************)
(* The waitlist of a journey, over the same seats and allocations as its    *)
(* bookings: joining, offers that hold seats for a while, their acceptance  *)
(* as a booking hold, cancellation and expiry.  Translated from             *)
(* modules/waitlist/waitlist.service.js, waitlist-offer.service.js,         *)
(* waitlist.repository.js and jobs/expire-waitlist-offers.job.js.           *)
(*                                                                          *)
(* All steps of SeatBooking run beside those of this module.  The rows of   *)
(* an offer have the entry as their holder.  Accepting an offer runs        *)
(* createBookingHold inside the transaction of acceptOffer, so it is one    *)
(* step, which turns the rows of an entry into the rows of a new booking.   *)
(* Offers are made by an administrator: nothing in the code offers seats by *)
(* itself (processAvailableSeat has no caller that runs).                   *)
(***************************************************************************)
EXTENDS SeatBooking

CONSTANTS
  Entries,              \* waitlist entries that may be created
  Wish,                 \* entry -> who asks, for how many, on which segment
  OfferMinutes,         \* config.offerMinutes
  RequeueExpiredOffers  \* config.requeueExpiredOffers

Conversions(e) ==
  {[seats |-> S, segment |-> Wish[e].segment] :
     S \in {T \in SUBSET Seats : Cardinality(T) = Wish[e].passengerCount}}

ASSUME WaitlistAssumption ==
  /\ Entries \intersect Bookings = {}
  /\ Null \notin Bookings
  /\ \A e \in Entries :
       /\ Wish[e].passengerCount \in 1 .. MaximumPassengers
       /\ Wish[e].segment \in Segment
       /\ Conversions(e) \subseteq Requests
  /\ OfferMinutes \in Nat \ {0}
  /\ RequeueExpiredOffers \in BOOLEAN

VARIABLES
  entryStatus,     \* waitlist_entries.status, or the stage of a request to join
  offerExpiresAt,  \* waitlist_entries.offer_expires_at
  offering,        \* entries an administrator is about to make an offer to
  conversion,      \* waitlist_entries.converted_booking_id
  offerBatch       \* ids the running expiry job has fetched and not processed

bookingVars == vars
waitlistVars == <<entryStatus, offerExpiresAt, offering, conversion, offerBatch>>
allVars == <<bookingVars, waitlistVars>>

EntryStatus == {"WAITING", "OFFERED", "CONVERTED", "CANCELLED", "EXPIRED"}

\* NONE: no request, or it was refused; CHECKED: may join, not stored yet.
EntryStage == EntryStatus \union {"NONE", "CHECKED"}

WaitlistTypeOK ==
  /\ alloc \subseteq Allocation(Bookings \union Entries, Seats)
  /\ entryStatus \in [Entries -> EntryStage]
  /\ offerExpiresAt \in [Entries -> Nat \union {Null}]
  /\ offering \subseteq Entries
  /\ conversion \in [Entries -> Bookings \union {Null}]
  /\ offerBatch \subseteq Entries
  /\ \A e \in Entries :
       /\ entryStatus[e] = "OFFERED" <=> offerExpiresAt[e] # Null
       /\ entryStatus[e] = "CONVERTED" <=> conversion[e] # Null

WaitlistInit ==
  /\ Init
  /\ entryStatus = [e \in Entries |-> "NONE"]
  /\ offerExpiresAt = [e \in Entries |-> Null]
  /\ offering = {}
  /\ conversion = [e \in Entries |-> Null]
  /\ offerBatch = {}

-------------------------------------------------------------------------------
(* Joining                                                                   *)

\* findDuplicateActiveEntry, and the index uq_active_waitlist_request.
Duplicate(e) ==
  \E d \in Entries \ {e} :
    /\ entryStatus[d] \in {"WAITING", "OFFERED"}
    /\ Wish[d].user = Wish[e].user
    /\ Wish[d].segment = Wish[e].segment

AvailableSeatCount(segment, t) ==
  Cardinality({s \in Seats : AllAvailable([seats |-> {s}, segment |-> segment], alloc, t)})

\* joinWaitlist up to its transaction: the journey is open and has too few seats.
CheckJoin(e) ==
  /\ entryStatus[e] = "NONE"
  /\ OpenForBooking(journeyStatus)
  /\ \E t \in AppClock \cap BookingWindow :
       AvailableSeatCount(Wish[e].segment, t) < Wish[e].passengerCount
  /\ entryStatus' = [entryStatus EXCEPT ![e] = "CHECKED"]
  /\ UNCHANGED <<offerExpiresAt, offering, conversion, offerBatch, bookingVars>>

\* Its transaction: the entry is stored unless the user has one like it.
JoinWaitlist(e) ==
  /\ entryStatus[e] = "CHECKED"
  /\ entryStatus' = [entryStatus EXCEPT ![e] = IF Duplicate(e) THEN "NONE" ELSE "WAITING"]
  /\ UNCHANGED <<offerExpiresAt, offering, conversion, offerBatch, bookingVars>>

-------------------------------------------------------------------------------
(* Offers                                                                    *)

OfferRows(e) == {a \in alloc : a.holder = e}

\* WaitlistService.offerSeat: the journey is checked outside the transaction.  The
\* entry's status is not; an entry that is over stays so and gets no offer, which
\* leaves the others.
BeginOffer(e) ==
  /\ entryStatus[e] \in {"WAITING", "OFFERED"}
  /\ OpenForBooking(journeyStatus)
  /\ AppClock \cap BookingWindow # {}
  /\ offering' = offering \union {e}
  /\ UNCHANGED <<entryStatus, offerExpiresAt, conversion, offerBatch, bookingVars>>

\* WaitlistOfferService.offerSeat: one seat for each passenger, held until the
\* offer lapses.  The look at the seats before their locks are taken reads the
\* clock before the clean-up and refuses what the constraint would refuse.  MaxTime
\* bounds the expiry.
OfferSeat(e) ==
  /\ e \in offering
  /\ entryStatus[e] = "WAITING"
  /\ \E t \in AppClock, r \in Conversions(e) :
       /\ t + OfferMinutes <= MaxTime
       /\ PutSeatsOnHold(e, r, alloc, t, OfferMinutes)
       /\ offerExpiresAt' = [offerExpiresAt EXCEPT ![e] = t + OfferMinutes]
  /\ entryStatus' = [entryStatus EXCEPT ![e] = "OFFERED"]
  /\ offering' = offering \ {e}
  /\ UNCHANGED <<now, journeyStatus, seatStatus, status, request, holdExpiresAt,
                 paid, jobBatch, conversion, offerBatch>>

\* The request ends without an offer: the entry is not WAITING, the seats are
\* not free, or the server stopped.
RejectOffer(e) ==
  /\ e \in offering
  /\ offering' = offering \ {e}
  /\ UNCHANGED <<entryStatus, offerExpiresAt, conversion, offerBatch, bookingVars>>

\* A mistake: the rows stay.
LeaveRows(e, target) ==
  /\ entryStatus' = [entryStatus EXCEPT ![e] = target]
  /\ offerExpiresAt' = [offerExpiresAt EXCEPT ![e] = Null]
  /\ UNCHANGED alloc

\* releaseOffer and the update of the entry.
EndOffer(e, target) ==
  /\ entryStatus' = [entryStatus EXCEPT ![e] = target]
  /\ offerExpiresAt' = [offerExpiresAt EXCEPT ![e] = Null]
  /\ alloc' = DeleteByHolder(alloc, e)

\* acceptOffer: nobody took a row of the offer.
OfferComplete(e) == Cardinality(OfferRows(e)) = Wish[e].passengerCount

\* Accepting: the rows are released and a booking b is held on the same seats,
\* in one transaction that also validates the journey.  Its owner accepts; the
\* offer and the booking window are looked at first, so that the offer may lapse
\* before the last clock reading t, which the expiry of the hold is counted from.
AcceptOffer(e, b) ==
  LET r == [seats |-> {a.seat : a \in OfferRows(e)}, segment |-> Wish[e].segment]
  IN  /\ entryStatus[e] = "OFFERED"
      /\ status[b] = "NEW"
      /\ OfferComplete(e)
      /\ OpenForBooking(journeyStatus)
      /\ \E t \in AppClock : \E looked \in (0 .. t) \intersect BookingWindow :
           /\ offerExpiresAt[e] > looked
           /\ t + HoldMinutes <= MaxTime
           /\ PlaceHold(b, r, DeleteByHolder(alloc, e), t)
      /\ status' = [status EXCEPT ![b] = "HELD"]
      /\ request' = [request EXCEPT ![b] = r]
      /\ entryStatus' = [entryStatus EXCEPT ![e] = "CONVERTED"]
      /\ offerExpiresAt' = [offerExpiresAt EXCEPT ![e] = Null]
      /\ conversion' = [conversion EXCEPT ![e] = b]
      /\ UNCHANGED <<now, journeyStatus, seatStatus, paid, jobBatch, offering, offerBatch>>

CancelEntry(e) ==
  /\ entryStatus[e] \in {"WAITING", "OFFERED"}
  /\ EndOffer(e, "CANCELLED")
  /\ UNCHANGED <<now, journeyStatus, seatStatus, status, request, holdExpiresAt,
                 paid, jobBatch, offering, conversion, offerBatch>>

-------------------------------------------------------------------------------
(* Expiry, by the database's clock                                           *)

\* A mistake: offers of a journey that is closed are forgotten.
LapsedWhileOpen ==
  IF OpenForBooking(journeyStatus)
    THEN {e \in Entries : entryStatus[e] = "OFFERED" /\ offerExpiresAt[e] <= now}
    ELSE {}

LapsedOffers == {e \in Entries : entryStatus[e] = "OFFERED" /\ offerExpiresAt[e] <= now}

\* expireOffer of a lapsed offer.
SettleOffer(e) ==
  /\ e \in LapsedOffers
  /\ EndOffer(e, IF RequeueExpiredOffers THEN "WAITING" ELSE "EXPIRED")

\* POST expire; an offer that has not lapsed is refused.
ExpireOfferByHand(e) ==
  /\ SettleOffer(e)
  /\ UNCHANGED <<now, journeyStatus, seatStatus, status, request, holdExpiresAt,
                 paid, jobBatch, offering, conversion, offerBatch>>

\* findExpiredOfferIds: the earliest expiries, at most BatchSize.
FetchExpiredOffers ==
  /\ offerBatch = {}
  /\ LapsedOffers # {}
  /\ \E B \in SUBSET LapsedOffers :
       /\ Cardinality(B) \in 1 .. BatchSize
       /\ B = LapsedOffers \/ Cardinality(B) = BatchSize
       /\ \A d \in B, e \in LapsedOffers \ B : offerExpiresAt[d] <= offerExpiresAt[e]
       /\ offerBatch' = B
  /\ UNCHANGED <<entryStatus, offerExpiresAt, offering, conversion, bookingVars>>

\* One record of the batch: settled, or skipped when it was accepted, cancelled
\* or settled by hand, or requeued and offered again, since the fetch.
ExpireOffer(e) ==
  /\ e \in offerBatch
  /\ offerBatch' = offerBatch \ {e}
  /\ \/ SettleOffer(e)
     \/ e \notin LapsedOffers /\ UNCHANGED <<entryStatus, offerExpiresAt, alloc>>
  /\ UNCHANGED <<now, journeyStatus, seatStatus, status, request, holdExpiresAt,
                 paid, jobBatch, offering, conversion>>

\* Records fail, or the job is stopped.
DropOfferRecords ==
  /\ \E B \in SUBSET offerBatch : B # {} /\ offerBatch' = offerBatch \ B
  /\ UNCHANGED <<entryStatus, offerExpiresAt, offering, conversion, bookingVars>>

EntryStep(e) ==
  \/ CheckJoin(e) \/ JoinWaitlist(e)
  \/ BeginOffer(e) \/ OfferSeat(e) \/ RejectOffer(e)
  \/ \E b \in Bookings : AcceptOffer(e, b)
  \/ CancelEntry(e)
  \/ ExpireOfferByHand(e) \/ ExpireOffer(e)

WaitlistNext ==
  \/ Next /\ UNCHANGED waitlistVars
  \/ \E e \in Entries : EntryStep(e)
  \/ FetchExpiredOffers \/ DropOfferRecords

WaitlistSpec == WaitlistInit /\ [][WaitlistNext]_allVars

\* Time passes and the scheduler keeps running the job; an offer fetched again
\* and again is at some time not dropped.  Users and administrators are not fair.
WaitlistFairness ==
  /\ WF_allVars(Tick /\ UNCHANGED waitlistVars)
  /\ WF_allVars(FetchExpiredOffers)
  /\ \A e \in Entries : SF_allVars(ExpireOffer(e))

WaitlistFairSpec == WaitlistSpec /\ WaitlistFairness

-------------------------------------------------------------------------------
(* Properties                                                                *)

LiveOffer(e) == entryStatus[e] = "OFFERED" /\ offerExpiresAt[e] > now

\* An offer that has not lapsed still has a seat for every passenger, whoever
\* else was looking for seats meanwhile, so accepting it in time cannot fail
\* for want of seats (waitlist.service.js:194).
LiveOffersHoldSeats ==
  \A e \in Entries :
    LiveOffer(e) =>
      /\ OfferComplete(e)
      /\ \A a \in OfferRows(e) : a.expiresAt = offerExpiresAt[e]
      /\ \A a \in OfferRows(e), d \in alloc \ OfferRows(e) :
           a.seat = d.seat => ~SegmentsOverlap(a.segment, d.segment)

\* No row outlives what it stands for: a booking that is HELD or CONFIRMED and
\* agrees with it, or an entry that is OFFERED, through acceptance, cancellation,
\* requeueing and both expiry jobs, whatever the clocks say.
RowsHaveOwners ==
  \A a \in alloc :
    \/ /\ a.holder \in Bookings
       /\ status[a.holder] \in {"HELD", "CONFIRMED"}
       /\ a.allocationType = status[a.holder]
       /\ a.expiresAt = holdExpiresAt[a.holder]
       /\ a.seat \in request[a.holder].seats
    \/ /\ a.holder \in Entries
       /\ entryStatus[a.holder] = "OFFERED"
       /\ a.allocationType = "HELD"
       /\ a.expiresAt = offerExpiresAt[a.holder]

\* What a user or the conversion ended stays ended: a job that fetched the offer
\* before does not put the entry back in the queue, and an offer begun before
\* gives it no seats.
EntriesEndOnce ==
  [][\A e \in Entries :
       entryStatus[e] \in {"CONVERTED", "CANCELLED", "EXPIRED"} =>
         entryStatus'[e] = entryStatus[e] /\ OfferRows(e)' = {}]_allVars

\* An offer ends: it is accepted, cancelled, or released by the job.
OffersSettle == \A e \in Entries : entryStatus[e] = "OFFERED" ~> entryStatus[e] # "OFFERED"

\* Entries and bookings share one seat ledger.  The seats of a booking made from
\* an offer stay with the entry, so that acceptance moves nothing.
Converted(b) == \E e \in Entries : conversion[e] = b

HolderCells(h) ==
  IF h \in Bookings
    THEN IF Live(h) /\ ~Converted(h) THEN BookingCells(h) ELSE {}
    ELSE IF LiveOffer(h)
      THEN {a.seat : a \in OfferRows(h)} \X Legs(Wish[h].segment)
      ELSE IF conversion[h] # Null /\ Live(conversion[h])
        THEN BookingCells(conversion[h])
        ELSE {}

AllCells == [h \in Bookings \union Entries |-> HolderCells(h)]

WaitLedger == INSTANCE SeatLedger
                WITH Holders <- Bookings \union Entries,
                     Lots <- {r.seats \X Legs(r.segment) : r \in Requests},
                     owned <- AllCells

\* Bookings and offers together claim free lots or release lots; an offer accepted
\* before it lapses keeps its seats without a gap in which another passenger gets
\* them, and one that lapses while it is accepted finds them free or is refused.
ImplementsWaitLedger == WaitLedger!Spec
===============================================================================
