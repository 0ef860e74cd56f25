----------------------------- MODULE WaitlistProofs -----------------------------
(***************************************************************************)
(* Theorems about Waitlist for any bookings, entries, seats, requests,      *)
(* hold and offer times, batch sizes and bounds: the rows of the table have *)
(* owners whatever the clocks say; with one clock an offer keeps its seats, *)
(* no seat is sold twice, and bookings and offers implement SeatLedger.     *)
(***************************************************************************)
EXTENDS Waitlist, SeatBookingProofs, FiniteSetTheorems

(* Counting rows and seats                                                   *)

\* The rows an offer or a hold inserts are as many as its seats.
LEMMA RowsAsManyAsSeats ==
  ASSUME NEW h, NEW S, IsFiniteSet(S), NEW segment, NEW expiry
  PROVE  /\ IsFiniteSet(HeldAllocations(h, S, segment, expiry))
         /\ Cardinality(HeldAllocations(h, S, segment, expiry)) = Cardinality(S)
         /\ {a.seat : a \in HeldAllocations(h, S, segment, expiry)} = S
<1>. DEFINE rows == HeldAllocations(h, S, segment, expiry)
            row == [s \in S |-> [holder |-> h, seat |-> s, segment |-> segment,
                                 allocationType |-> "HELD", expiresAt |-> expiry]]
<1>1. row \in [S -> rows]
  BY DEF HeldAllocations
<1>2. \A s \in S : row[s].seat = s
  OBVIOUS
<1>3. \A a \in rows : a.seat \in S /\ \E s \in S : row[s] = a
  BY DEF HeldAllocations
<1>. HIDE DEF row, rows
<1>4. row \in Surjection(S, rows) /\ row \in Injection(S, rows)
  BY <1>1, <1>2, <1>3 DEF Surjection, Injection, IsInjective
<1>5. IsFiniteSet(rows) /\ Cardinality(rows) = Cardinality(S)
  BY <1>4, FS_Surjection
<1>6. {a.seat : a \in rows} = S
  BY <1>1, <1>2, <1>3
<1>. QED BY <1>5, <1>6 DEF rows

\* Rows on different seats name as many seats.
LEMMA SeatsAsManyAsRows ==
  ASSUME NEW rows, IsFiniteSet(rows), \A a, b \in rows : a.seat = b.seat => a = b
  PROVE  Cardinality({a.seat : a \in rows}) = Cardinality(rows)
<1>. DEFINE seats == {a.seat : a \in rows}
            seat == [a \in rows |-> a.seat]
<1>1. seat \in [rows -> seats] /\ (\A s \in seats : \E a \in rows : seat[a] = s)
  OBVIOUS
<1>2. \A a, b \in rows : seat[a] = seat[b] => a = b
  OBVIOUS
<1>. HIDE DEF seat, seats
<1>3. seat \in Surjection(rows, seats) /\ seat \in Injection(rows, seats)
  BY <1>1, <1>2 DEF Surjection, Injection, IsInjective
<1>4. Cardinality(seats) = Cardinality(rows)
  BY <1>3, FS_Surjection
<1>. QED BY <1>4 DEF seats

-------------------------------------------------------------------------------
(* Rows have owners, whatever the clocks say                                 *)

\* The variables that say who has which seat.
seatVars == <<now, status, request, holdExpiresAt, alloc, entryStatus, offerExpiresAt,
              conversion>>

Typed ==
  /\ now \in 0 .. MaxTime
  /\ status \in [Bookings -> Stage]
  /\ request \in [Bookings -> Requests \union {Null}]
  /\ holdExpiresAt \in [Bookings -> Nat \union {Null}]
  /\ alloc \in SUBSET Allocation(Bookings \union Entries, Seats)
  /\ entryStatus \in [Entries -> EntryStage]
  /\ offerExpiresAt \in [Entries -> Nat \union {Null}]
  /\ conversion \in [Entries -> Bookings \union {Null}]
  /\ RequestsKnown
  /\ \A e \in Entries :
       /\ entryStatus[e] = "OFFERED" => offerExpiresAt[e] \in Nat
       /\ entryStatus[e] # "CONVERTED" => conversion[e] = Null

OwnedByBooking(a) ==
  /\ a.holder \in Bookings
  /\ status[a.holder] \in {"HELD", "CONFIRMED"}
  /\ a.allocationType = status[a.holder]
  /\ a.expiresAt = holdExpiresAt[a.holder]
  /\ a.seat \in request[a.holder].seats
  /\ a.segment = request[a.holder].segment

OwnedByEntry(a) ==
  /\ a.holder \in Entries
  /\ entryStatus[a.holder] = "OFFERED"
  /\ a.allocationType = "HELD"
  /\ a.expiresAt = offerExpiresAt[a.holder]
  /\ a.segment = Wish[a.holder].segment

Owned == \A a \in alloc : OwnedByBooking(a) \/ OwnedByEntry(a)

\* An entry leads to one booking, which was stored by its acceptance.
ConversionsStored ==
  \A e \in Entries :
    conversion[e] # Null =>
      /\ status[conversion[e]] \in BookingStatus
      /\ \A d \in Entries : conversion[d] = conversion[e] => d = e

OffersFinite == \A e \in Entries : IsFiniteSet(OfferRows(e))

OwnerInv == Typed /\ Owned /\ ExclusionConstraint(alloc) /\ ConversionsStored /\ OffersFinite

LEMMA OwnerInit == WaitlistInit => OwnerInv
<1>. SUFFICES ASSUME WaitlistInit PROVE OwnerInv
  OBVIOUS
<1>1. Typed
  BY ConstantsAssumption DEF WaitlistInit, Init, Typed, RequestsKnown, Stage, EntryStage
<1>2. \A e \in Entries : OfferRows(e) = {}
  BY DEF WaitlistInit, Init, OfferRows
<1>. QED BY <1>1, <1>2, FS_EmptySet
        DEF WaitlistInit, Init, OwnerInv, Owned, ExclusionConstraint, ConversionsStored,
            OffersFinite

-------------------------------------------------------------------------------
(* What a step does to the seats: every action, in the forms the proofs use  *)

EntriesRest == UNCHANGED <<entryStatus, offerExpiresAt, conversion>>

\* A booking that has no rows changes its stage.
StageMoves(b) == PreviewHold(b) \/ RejectHold(b) \/ MarkRefunded(b)

HoldConfirmed(b) == ConfirmHeld(b) /\ UNCHANGED <<now, request>>

BookingReleased(b) ==
  /\ status[b] \in {"HELD", "CONFIRMED"}
  /\ \E target \in {"CANCELLED", "EXPIRED", "COMPLETED"} :
       ReleaseTo(b, target) /\ UNCHANGED <<now, request>>

EntryJoins(e) ==
  /\ entryStatus[e] \in {"NONE", "CHECKED"}
  /\ \E stage \in {"NONE", "CHECKED", "WAITING"} :
       entryStatus' = [entryStatus EXCEPT ![e] = stage]
  /\ UNCHANGED <<now, status, request, holdExpiresAt, alloc, offerExpiresAt, conversion>>

EntryEnds(e) ==
  /\ entryStatus[e] \in {"WAITING", "OFFERED"}
  /\ \E target \in {"WAITING", "CANCELLED", "EXPIRED"} : EndOffer(e, target)
  /\ UNCHANGED <<now, status, request, holdExpiresAt, conversion>>

SeatStep ==
  \/ UNCHANGED seatVars
  \/ Tick /\ EntriesRest
  \/ \E b \in Bookings :
       /\ StageMoves(b) \/ CreateBookingHold(b) \/ HoldConfirmed(b) \/ BookingReleased(b)
       /\ EntriesRest
  \/ \E e \in Entries :
       \/ EntryJoins(e) \/ OfferSeat(e) \/ EntryEnds(e)
       \/ \E b \in Bookings : AcceptOffer(e, b)

LEMMA WaitlistSteps == [WaitlistNext]_allVars => SeatStep
<1>. SUFFICES ASSUME [WaitlistNext]_allVars PROVE SeatStep
  OBVIOUS
<1>1. ASSUME NEW b \in Bookings, BookingStep(b), EntriesRest PROVE SeatStep
  <2>1. CASE PreviewHold(b) \/ RejectHold(b) \/ MarkRefunded(b) \/ CreateBookingHold(b)
    BY <1>1, <2>1 DEF SeatStep, StageMoves
  <2>2. CASE CompletePaidBooking(b) \/ ConfirmBooking(b)
    BY <1>1, <2>2 DEF CompletePaidBooking, ConfirmBooking, SeatStep, HoldConfirmed
  <2>3. CASE CancelBooking(b) \/ CompleteBooking(b) \/ ExpireBooking(b)
    BY <1>1, <2>3
       DEF CancelBooking, CompleteBooking, ExpireBooking, ExpiredHolds, SeatStep,
           BookingReleased, EntriesRest, seatVars
  <2>4. CASE PaidTooLate(b)
    BY <1>1, <2>4 DEF PaidTooLate, SeatStep, EntriesRest, seatVars
  <2>. QED BY <1>1, <2>1, <2>2, <2>3, <2>4 DEF BookingStep
<1>2. CASE Next /\ UNCHANGED waitlistVars
  <2>1. EntriesRest
    BY <1>2 DEF waitlistVars, EntriesRest
  <2>2. CASE FetchExpiredHolds \/ DropRecords \/ ChangeJourney \/ \E s \in Seats : SetSeatStatus(s)
    BY <2>1, <2>2
       DEF FetchExpiredHolds, DropRecords, ChangeJourney, SetSeatStatus, SeatStep,
           EntriesRest, seatVars
  <2>. QED BY <1>1, <1>2, <2>1, <2>2 DEF Next, SeatStep
<1>3. ASSUME NEW e \in Entries, EntryStep(e) PROVE SeatStep
  <2>1. CASE CheckJoin(e) \/ JoinWaitlist(e)
    <3>1. EntryJoins(e)
      BY <2>1 DEF CheckJoin, JoinWaitlist, EntryJoins, bookingVars, vars
    <3>. QED BY <3>1 DEF SeatStep
  <2>2. CASE BeginOffer(e) \/ RejectOffer(e)
    BY <2>2 DEF BeginOffer, RejectOffer, SeatStep, seatVars, bookingVars, vars
  <2>3. CASE OfferSeat(e) \/ \E b \in Bookings : AcceptOffer(e, b)
    BY <2>3 DEF SeatStep
  <2>4. CASE CancelEntry(e) \/ ExpireOfferByHand(e)
    <3>1. EntryEnds(e)
      BY <2>4 DEF CancelEntry, ExpireOfferByHand, SettleOffer, LapsedOffers, EntryEnds
    <3>. QED BY <3>1 DEF SeatStep
  <2>5. CASE ExpireOffer(e)
    <3>1. EntryEnds(e) \/ UNCHANGED seatVars
      BY <2>5 DEF ExpireOffer, SettleOffer, LapsedOffers, EntryEnds, seatVars
    <3>. QED BY <3>1 DEF SeatStep
  <2>. QED BY <1>3, <2>1, <2>2, <2>3, <2>4, <2>5 DEF EntryStep
<1>4. CASE FetchExpiredOffers \/ DropOfferRecords \/ UNCHANGED allVars
  BY <1>4 DEF FetchExpiredOffers, DropOfferRecords, allVars, waitlistVars, bookingVars, vars,
     SeatStep, seatVars
<1>. QED BY <1>2, <1>3, <1>4 DEF WaitlistNext

-------------------------------------------------------------------------------
(* Each step keeps the owners                                                *)

LEMMA FewerRows ==
  ASSUME OwnerInv, alloc' \in SUBSET alloc
  PROVE  ExclusionConstraint(alloc') /\ OffersFinite'
<1>1. ASSUME NEW e \in Entries PROVE IsFiniteSet(OfferRows(e)')
  <2>1. OfferRows(e)' \in SUBSET OfferRows(e) /\ IsFiniteSet(OfferRows(e))
    BY DEF OfferRows, OwnerInv, OffersFinite
  <2>. QED BY <2>1, FS_Subset
<1>. QED BY <1>1, SubtableExclusive DEF OwnerInv, OffersFinite

LEMMA OwnersKeptByStage ==
  ASSUME OwnerInv, NEW b \in Bookings, StageMoves(b), EntriesRest
  PROVE  OwnerInv'
<1>. USE DEF OwnerInv, Typed, Stage, BookingStatus, RequestsKnown, EntriesRest
<1>1. /\ status[b] \in {"NEW", "PREVIEWED", "CANCELLED"}
      /\ UNCHANGED <<now, holdExpiresAt, alloc>>
      /\ \A c \in Bookings \ {b} : status'[c] = status[c] /\ request'[c] = request[c]
  BY DEF StageMoves, PreviewHold, RejectHold, MarkRefunded
<1>2. /\ status' \in [Bookings -> Stage] /\ request' \in [Bookings -> Requests \union {Null}]
      /\ status'[b] \in {"NEW", "PREVIEWED", "REFUNDED"}
      /\ status'[b] # "NEW" => request'[b] \in Requests
      /\ status'[b] = "REFUNDED" <=> status[b] = "CANCELLED"
  BY DEF StageMoves, PreviewHold, RejectHold, MarkRefunded
<1>3. Typed'
  BY <1>1, <1>2
<1>4. Owned'
  BY <1>1 DEF Owned, OwnedByBooking, OwnedByEntry
<1>5. ConversionsStored'
  BY <1>1, <1>2 DEF ConversionsStored
<1>. QED BY <1>1, <1>3, <1>4, <1>5, FewerRows

LEMMA OwnersKeptByConfirmation ==
  ASSUME OwnerInv, NEW b \in Bookings, HoldConfirmed(b), EntriesRest
  PROVE  OwnerInv'
<1>. USE DEF OwnerInv, Typed, Stage, BookingStatus, RequestsKnown, EntriesRest, HoldConfirmed,
             ConfirmHeld
<1>1. alloc' \in SUBSET Allocation(Bookings \union Entries, Seats)
  BY ConfirmedRowsTyped
<1>2. Typed'
  BY <1>1
<1>3. ExclusionConstraint(alloc')
  BY ConfirmExclusive
<1>4. \A a \in alloc : a.holder = b => OwnedByBooking(a)
  BY WaitlistAssumption DEF Owned, OwnedByEntry
<1>5. ASSUME NEW a \in alloc, a.holder = b PROVE OwnedByBooking(Confirmed(a))'
  BY <1>4, <1>5 DEF OwnedByBooking, Confirmed
<1>6. ASSUME NEW a \in alloc, a.holder # b PROVE OwnedByBooking(a)' \/ OwnedByEntry(a)'
  BY <1>6 DEF Owned, OwnedByBooking, OwnedByEntry
<1>7. Owned'
  BY <1>5, <1>6 DEF Owned, ConfirmByHolder, DeleteByHolder
<1>8. \A e \in Entries : OfferRows(e)' = OfferRows(e)
  BY WaitlistAssumption DEF OfferRows, ConfirmByHolder, DeleteByHolder, Confirmed
<1>9. ConversionsStored'
  BY DEF ConversionsStored
<1>. QED BY <1>2, <1>3, <1>7, <1>8, <1>9 DEF OffersFinite

LEMMA OwnersKeptByRelease ==
  ASSUME OwnerInv, NEW b \in Bookings, BookingReleased(b), EntriesRest
  PROVE  OwnerInv'
<1>. USE DEF OwnerInv, Typed, Stage, BookingStatus, RequestsKnown, EntriesRest, BookingReleased,
             ReleaseTo, DeleteByHolder
<1>1. alloc' \in SUBSET alloc
  OBVIOUS
<1>2. Typed'
  BY <1>1
<1>3. Owned'
  BY DEF Owned, OwnedByBooking, OwnedByEntry
<1>4. ConversionsStored'
  BY DEF ConversionsStored
<1>. QED BY <1>1, <1>2, <1>3, <1>4, FewerRows

\* A new holder's rows join the table that is left after lapsed holds are deleted.
LEMMA OwnersKeptByPlacement ==
  ASSUME OwnerInv, NEW b \in Bookings, CreateBookingHold(b), EntriesRest
  PROVE  OwnerInv'
<1>. USE DEF OwnerInv, Typed, EntriesRest
<1>1. PICK t \in AppClock : CommitHold(b, t)
  BY DEF CreateBookingHold
<1>. DEFINE rows == HeldAllocations(b, request[b].seats, request[b].segment, t + HoldMinutes)
<1>0. PICK deleted \in 0 .. t :
        /\ alloc' = DeleteExpiredHoldsForSeats(alloc, request[b].seats, deleted) \union rows
        /\ ExclusionConstraint(alloc')
  BY <1>1, SeatsPutOnHold DEF CommitHold, PlaceHold
<1>. DEFINE kept == DeleteExpiredHoldsForSeats(alloc, request[b].seats, deleted)
<1>2. /\ alloc' = kept \union rows /\ ExclusionConstraint(alloc')
      /\ holdExpiresAt' = [holdExpiresAt EXCEPT ![b] = t + HoldMinutes]
      /\ status' = [status EXCEPT ![b] = "HELD"] /\ status[b] = "PREVIEWED"
      /\ UNCHANGED <<now, request>>
  BY <1>0, <1>1 DEF CommitHold, PlaceHold, CreateBookingHold
<1>3. /\ t + HoldMinutes \in Nat
      /\ request[b].seats \in SUBSET Seats /\ request[b].segment \in Segment
      /\ b \in Bookings \union Entries
  BY <1>2, ConstantsAssumption DEF AppClock, RequestsKnown
<1>4. rows \subseteq Allocation(Bookings \union Entries, Seats) /\ kept \in SUBSET alloc
  BY <1>3, NewRowsTyped DEF DeleteExpiredHoldsForSeats
<1>5. Typed'
  BY <1>2, <1>3, <1>4 DEF RequestsKnown, Stage, BookingStatus
<1>6. ASSUME NEW a \in kept PROVE OwnedByBooking(a)' \/ OwnedByEntry(a)'
  BY <1>2, <1>4, <1>6 DEF Owned, OwnedByBooking, OwnedByEntry
<1>7. ASSUME NEW a \in rows PROVE OwnedByBooking(a)'
  BY <1>2, <1>7 DEF HeldAllocations, OwnedByBooking
<1>8. Owned'
  BY <1>2, <1>6, <1>7 DEF Owned
<1>9. ConversionsStored'
  BY <1>2 DEF ConversionsStored, BookingStatus
<1>10. ASSUME NEW e \in Entries PROVE IsFiniteSet(OfferRows(e)')
  <2>1. OfferRows(e)' \in SUBSET OfferRows(e) /\ IsFiniteSet(OfferRows(e))
    BY <1>2, <1>4, WaitlistAssumption DEF OfferRows, OffersFinite, HeldAllocations
  <2>. QED BY <2>1, FS_Subset
<1>. QED BY <1>2, <1>5, <1>8, <1>9, <1>10 DEF OffersFinite

LEMMA OwnersKeptByOffer ==
  ASSUME OwnerInv, NEW e \in Entries, OfferSeat(e)
  PROVE  OwnerInv'
<1>. USE DEF OwnerInv, Typed
<1>0. PICK t \in AppClock, r \in Conversions(e) :
        /\ PutSeatsOnHold(e, r, alloc, t, OfferMinutes)
        /\ offerExpiresAt' = [offerExpiresAt EXCEPT ![e] = t + OfferMinutes]
  BY DEF OfferSeat
<1>1. PICK deleted \in 0 .. t :
        /\ alloc' = DeleteExpiredHoldsForSeats(alloc, r.seats, deleted)
                      \union HeldAllocations(e, r.seats, r.segment, t + OfferMinutes)
        /\ ExclusionConstraint(alloc')
  BY <1>0, SeatsPutOnHold
<1>. DEFINE kept == DeleteExpiredHoldsForSeats(alloc, r.seats, deleted)
            rows == HeldAllocations(e, r.seats, r.segment, t + OfferMinutes)
<1>2. /\ entryStatus' = [entryStatus EXCEPT ![e] = "OFFERED"] /\ entryStatus[e] = "WAITING"
      /\ UNCHANGED <<now, status, request, holdExpiresAt, conversion>>
  BY DEF OfferSeat
<1>3. /\ r \in Requests /\ r.segment = Wish[e].segment
      /\ r.seats \in SUBSET Seats /\ IsFiniteSet(r.seats) /\ r.segment \in Segment
      /\ t + OfferMinutes \in Nat
  BY ConstantsAssumption, WaitlistAssumption DEF AppClock, Conversions
<1>4. rows \subseteq Allocation(Bookings \union Entries, Seats) /\ kept \in SUBSET alloc
  BY <1>3, NewRowsTyped DEF DeleteExpiredHoldsForSeats
<1>5. Typed'
  BY <1>0, <1>1, <1>2, <1>3, <1>4 DEF RequestsKnown, EntryStage, EntryStatus
<1>6. ASSUME NEW a \in kept PROVE OwnedByBooking(a)' \/ OwnedByEntry(a)'
  BY <1>0, <1>1, <1>2, <1>4, <1>6 DEF Owned, OwnedByBooking, OwnedByEntry
<1>7. ASSUME NEW a \in rows PROVE OwnedByEntry(a)'
  BY <1>0, <1>1, <1>2, <1>3, <1>7 DEF HeldAllocations, OwnedByEntry
<1>8. Owned'
  BY <1>1, <1>6, <1>7 DEF Owned
<1>9. ConversionsStored'
  BY <1>2 DEF ConversionsStored
<1>10. IsFiniteSet(rows)
  BY <1>3, RowsAsManyAsSeats
<1>11. ASSUME NEW d \in Entries PROVE IsFiniteSet(OfferRows(d)')
  <2>1. OfferRows(d)' \in SUBSET (OfferRows(d) \union rows) /\ IsFiniteSet(OfferRows(d))
    BY <1>1, <1>4 DEF OfferRows, OffersFinite
  <2>2. IsFiniteSet(OfferRows(d) \union rows)
    BY <1>10, <2>1, FS_Union
  <2>. QED BY <2>1, <2>2, FS_Subset
<1>. QED BY <1>1, <1>5, <1>8, <1>9, <1>11 DEF OffersFinite

\* The seats of a complete offer are what a booking may ask for.
LEMMA OfferIsRequest ==
  ASSUME OwnerInv, NEW e \in Entries, OfferComplete(e)
  PROVE  [seats |-> {a.seat : a \in OfferRows(e)}, segment |-> Wish[e].segment] \in Requests
<1>1. ASSUME NEW a \in OfferRows(e), NEW d \in OfferRows(e), a.seat = d.seat PROVE a = d
  <2>1. a.segment = Wish[e].segment /\ d.segment = Wish[e].segment /\ Wish[e].segment \in Segment
    BY WaitlistAssumption DEF OwnerInv, Owned, OwnedByBooking, OwnedByEntry, OfferRows
  <2>2. SegmentsOverlap(a.segment, d.segment)
    BY <2>1 DEF SegmentsOverlap, Segment, IsValidSegment
  <2>. QED BY <1>1, <2>2 DEF OwnerInv, ExclusionConstraint, OfferRows
<1>2. Cardinality({a.seat : a \in OfferRows(e)}) = Wish[e].passengerCount
  BY <1>1, SeatsAsManyAsRows DEF OwnerInv, OffersFinite, OfferComplete
<1>3. {a.seat : a \in OfferRows(e)} \in SUBSET Seats
  BY DEF OwnerInv, Typed, Allocation, OfferRows
<1>. QED BY <1>2, <1>3, WaitlistAssumption DEF Conversions

LEMMA OwnersKeptByAcceptance ==
  ASSUME OwnerInv, NEW e \in Entries, NEW b \in Bookings, AcceptOffer(e, b)
  PROVE  OwnerInv'
<1>. USE DEF OwnerInv, Typed
<1>. DEFINE r == [seats |-> {a.seat : a \in OfferRows(e)}, segment |-> Wish[e].segment]
            table == DeleteByHolder(alloc, e)
<1>1. PICK t \in AppClock : PlaceHold(b, r, table, t)
  BY DEF AcceptOffer
<1>. DEFINE rows == HeldAllocations(b, r.seats, r.segment, t + HoldMinutes)
<1>0. PICK deleted \in 0 .. t :
        /\ alloc' = DeleteExpiredHoldsForSeats(table, r.seats, deleted) \union rows
        /\ ExclusionConstraint(alloc')
  <2>1. PutSeatsOnHold(b, r, table, t, HoldMinutes)
    BY <1>1 DEF PlaceHold
  <2>. HIDE DEF r, table
  <2>. QED BY <2>1, SeatsPutOnHold
<1>. DEFINE kept == DeleteExpiredHoldsForSeats(table, r.seats, deleted)
<1>2. /\ alloc' = kept \union rows /\ ExclusionConstraint(alloc')
      /\ holdExpiresAt' = [holdExpiresAt EXCEPT ![b] = t + HoldMinutes]
  BY <1>0, <1>1 DEF PlaceHold
<1>3. /\ entryStatus[e] = "OFFERED" /\ status[b] = "NEW" /\ OfferComplete(e)
      /\ status' = [status EXCEPT ![b] = "HELD"]
      /\ request' = [request EXCEPT ![b] = r]
      /\ entryStatus' = [entryStatus EXCEPT ![e] = "CONVERTED"]
      /\ offerExpiresAt' = [offerExpiresAt EXCEPT ![e] = Null]
      /\ conversion' = [conversion EXCEPT ![e] = b]
      /\ UNCHANGED now
  BY DEF AcceptOffer
<1>4. r \in Requests
  BY <1>3, OfferIsRequest
<1>5. /\ r.seats \in SUBSET Seats /\ r.segment \in Segment
      /\ t + HoldMinutes \in Nat /\ b \in Bookings \union Entries
  BY <1>4, ConstantsAssumption DEF AppClock
<1>. HIDE DEF r
<1>6. rows \subseteq Allocation(Bookings \union Entries, Seats) /\ kept \in SUBSET alloc
  BY <1>5, NewRowsTyped DEF DeleteExpiredHoldsForSeats, DeleteByHolder
<1>7. Typed'
  BY <1>2, <1>3, <1>4, <1>5, <1>6
     DEF RequestsKnown, Stage, BookingStatus, EntryStage, EntryStatus
<1>8. ASSUME NEW a \in kept PROVE OwnedByBooking(a)' \/ OwnedByEntry(a)'
  <2>1. a \in alloc /\ a.holder # e
    BY <1>6 DEF DeleteExpiredHoldsForSeats, DeleteByHolder
  <2>. QED BY <1>2, <1>3, <2>1 DEF Owned, OwnedByBooking, OwnedByEntry
<1>9. ASSUME NEW a \in rows PROVE OwnedByBooking(a)'
  BY <1>2, <1>3, <1>9 DEF HeldAllocations, OwnedByBooking
<1>10. Owned'
  BY <1>2, <1>8, <1>9 DEF Owned
<1>11. ConversionsStored'
  BY <1>3, WaitlistAssumption DEF ConversionsStored, BookingStatus
<1>12. ASSUME NEW d \in Entries PROVE IsFiniteSet(OfferRows(d)')
  <2>1. OfferRows(d)' \in SUBSET OfferRows(d) /\ IsFiniteSet(OfferRows(d))
    BY <1>2, <1>6, WaitlistAssumption DEF OfferRows, OffersFinite, HeldAllocations
  <2>. QED BY <2>1, FS_Subset
<1>. QED BY <1>2, <1>7, <1>10, <1>11, <1>12 DEF OffersFinite

LEMMA OwnersKeptByEntry ==
  ASSUME OwnerInv, NEW e \in Entries, EntryJoins(e) \/ EntryEnds(e)
  PROVE  OwnerInv'
<1>. USE DEF OwnerInv, Typed
<1>1. CASE EntryJoins(e)
  <2>1. Typed'
    BY <1>1 DEF EntryJoins, RequestsKnown, EntryStage, EntryStatus
  <2>2. Owned' /\ ConversionsStored'
    BY <1>1 DEF EntryJoins, Owned, OwnedByBooking, OwnedByEntry, ConversionsStored
  <2>. QED BY <1>1, <2>1, <2>2, FewerRows DEF EntryJoins
<1>2. CASE EntryEnds(e)
  <2>1. PICK target \in {"WAITING", "CANCELLED", "EXPIRED"} : EndOffer(e, target)
    BY <1>2 DEF EntryEnds
  <2>2. alloc' \in SUBSET alloc /\ \A a \in alloc' : a.holder # e
    BY <2>1 DEF EndOffer, DeleteByHolder
  <2>3. Typed'
    BY <1>2, <2>1, <2>2 DEF EntryEnds, EndOffer, RequestsKnown, EntryStage, EntryStatus
  <2>4. Owned' /\ ConversionsStored'
    BY <1>2, <2>1, <2>2
       DEF EntryEnds, EndOffer, Owned, OwnedByBooking, OwnedByEntry, ConversionsStored
  <2>. QED BY <2>2, <2>3, <2>4, FewerRows
<1>. QED BY <1>1, <1>2

LEMMA OwnerNext == OwnerInv /\ SeatStep => OwnerInv'
<1>. SUFFICES ASSUME OwnerInv, SeatStep PROVE OwnerInv'
  OBVIOUS
<1>1. CASE UNCHANGED seatVars
  BY <1>1
     DEF seatVars, OwnerInv, Typed, RequestsKnown, Owned, OwnedByBooking, OwnedByEntry,
         ConversionsStored, OffersFinite, OfferRows
<1>2. CASE Tick /\ EntriesRest
  <2>1. now' \in 0 .. MaxTime
    BY <1>2, ConstantsAssumption DEF Tick, OwnerInv, Typed
  <2>. QED BY <1>2, <2>1
     DEF Tick, EntriesRest, OwnerInv, Typed, RequestsKnown, Owned, OwnedByBooking,
         OwnedByEntry, ConversionsStored, OffersFinite, OfferRows
<1>. QED BY <1>1, <1>2, OwnersKeptByStage, OwnersKeptByConfirmation, OwnersKeptByRelease,
            OwnersKeptByPlacement, OwnersKeptByOffer, OwnersKeptByAcceptance,
            OwnersKeptByEntry
         DEF SeatStep

LEMMA OwnerInvariant == WaitlistSpec => []OwnerInv
BY OwnerInit, OwnerNext, WaitlistSteps, PTL DEF WaitlistSpec

\* No row outlives what it stands for, whatever the clocks say: acceptance,
\* cancellation, requeueing and the jobs of bookings and offers all release what
\* they end (releaseOffer, transitionBookingStatus).
THEOREM RowsAlwaysOwned == WaitlistSpec => []RowsHaveOwners
<1>1. OwnerInv => RowsHaveOwners
  BY DEF OwnerInv, Owned, OwnedByBooking, OwnedByEntry, RowsHaveOwners
<1>. QED BY <1>1, OwnerInvariant, PTL

\* What ended stays ended: a fetch or an offer that began before neither puts the
\* entry back in the queue nor leaves it a seat.
THEOREM EndedEntriesStayEnded == WaitlistSpec => EntriesEndOnce
<1>. DEFINE Kept == \A e \in Entries :
                      entryStatus[e] \in {"CONVERTED", "CANCELLED", "EXPIRED"} =>
                        entryStatus'[e] = entryStatus[e] /\ OfferRows(e)' = {}
<1>1. ASSUME OwnerInv, OwnerInv', SeatStep PROVE Kept
  <2>1. ASSUME NEW e \in Entries, entryStatus[e] \in {"CONVERTED", "CANCELLED", "EXPIRED"}
        PROVE  entryStatus'[e] = entryStatus[e]
    BY <1>1, <2>1
       DEF SeatStep, seatVars, EntriesRest, EntryJoins, OfferSeat, EntryEnds, EndOffer,
           AcceptOffer, OwnerInv, Typed
  <2>2. ASSUME NEW e \in Entries, entryStatus'[e] # "OFFERED" PROVE OfferRows(e)' = {}
    BY <1>1, <2>2, WaitlistAssumption
       DEF OwnerInv, Owned, OwnedByBooking, OwnedByEntry, OfferRows
  <2>. QED BY <2>1, <2>2
<1>2. OwnerInv /\ OwnerInv' /\ [WaitlistNext]_allVars => [Kept]_allVars
  BY <1>1, WaitlistSteps
<1>. HIDE DEF Kept
<1>3. WaitlistSpec => [][Kept]_allVars
  BY <1>2, OwnerInvariant, PTL DEF WaitlistSpec
<1>. QED BY <1>3 DEF Kept, EntriesEndOnce

-------------------------------------------------------------------------------
(* With one clock, whom a step does not concern keeps seats                  *)

BookingKept(c) ==
  /\ status'[c] = status[c]
  /\ request'[c] = request[c]
  /\ holdExpiresAt'[c] = holdExpiresAt[c]

OfferKept(e) ==
  /\ entryStatus'[e] = entryStatus[e]
  /\ offerExpiresAt'[e] = offerExpiresAt[e]
  /\ conversion'[e] = conversion[e]

\* Of the rows of a holder none is new, and none is lost that has not lapsed.
RowsKept(h) ==
  /\ \A a \in alloc :
       a.holder = h /\ (a.allocationType = "HELD" => a.expiresAt > now) => a \in alloc'
  /\ \A a \in alloc' : a.holder = h => a \in alloc

OthersKept(B, E) ==
  /\ \A c \in Bookings \ B : BookingKept(c) /\ RowsKept(c)
  /\ \A e \in Entries \ E : OfferKept(e) /\ RowsKept(e)

\* The clean-up of a hold or an offer deletes only what has lapsed.
LEMMA CleanUpKeepsUnlapsed ==
  ASSUME MaxSkew = 0, OwnerInv, NEW S, NEW t \in AppClock, NEW deleted \in 0 .. t,
         NEW a \in alloc, a.allocationType = "HELD" => a.expiresAt > now
  PROVE  a \in DeleteExpiredHoldsForSeats(alloc, S, deleted)
<1>1. t = now /\ now \in Nat
  BY ConstantsAssumption DEF AppClock, OwnerInv, Typed
<1>2. a.allocationType = "HELD" => a.expiresAt \in Nat
  BY NullAssumption DEF OwnerInv, Typed, Allocation
<1>. QED BY <1>1, <1>2 DEF DeleteExpiredHoldsForSeats

LEMMA OthersKeptByRest ==
  ASSUME OwnerInv, UNCHANGED seatVars \/ (Tick /\ EntriesRest)
  PROVE  OthersKept({}, {}) /\ now' \in {now, now + 1}
BY DEF seatVars, Tick, EntriesRest, OthersKept, BookingKept, OfferKept, RowsKept

LEMMA OthersKeptByBooking ==
  ASSUME MaxSkew = 0, OwnerInv, NEW b \in Bookings, EntriesRest,
         StageMoves(b) \/ CreateBookingHold(b) \/ HoldConfirmed(b) \/ BookingReleased(b)
  PROVE  OthersKept({b}, {}) /\ now' = now
<1>. USE DEF OthersKept, BookingKept, OfferKept, RowsKept, EntriesRest
<1>1. CASE StageMoves(b)
  BY <1>1 DEF StageMoves, PreviewHold, RejectHold, MarkRefunded, OwnerInv, Typed
<1>2. CASE CreateBookingHold(b)
  <2>0. PICK t \in AppClock : CommitHold(b, t)
    BY <1>2 DEF CreateBookingHold
  <2>1. PICK deleted \in 0 .. t :
          alloc' = DeleteExpiredHoldsForSeats(alloc, request[b].seats, deleted)
                     \union HeldAllocations(b, request[b].seats, request[b].segment,
                                            t + HoldMinutes)
    BY <2>0, SeatsPutOnHold DEF CommitHold, PlaceHold
  <2>2. \A c \in Bookings \ {b} : BookingKept(c)
    BY <1>2 DEF CreateBookingHold, CommitHold, PlaceHold, OwnerInv, Typed
  <2>3. \A a \in alloc : (a.allocationType = "HELD" => a.expiresAt > now) => a \in alloc'
    BY <2>1, CleanUpKeepsUnlapsed
  <2>4. \A a \in alloc' : a.holder # b => a \in alloc
    BY <2>1 DEF DeleteExpiredHoldsForSeats, HeldAllocations
  <2>. QED BY <1>2, <2>2, <2>3, <2>4, WaitlistAssumption DEF CreateBookingHold
<1>3. CASE HoldConfirmed(b)
  <2>1. /\ \A a \in alloc : a.holder # b => a \in alloc'
        /\ \A a \in alloc' : a.holder # b => a \in alloc
    BY <1>3 DEF HoldConfirmed, ConfirmHeld, ConfirmByHolder, DeleteByHolder, Confirmed
  <2>. QED BY <1>3, <2>1, WaitlistAssumption DEF HoldConfirmed, ConfirmHeld, OwnerInv, Typed
<1>4. CASE BookingReleased(b)
  <2>1. /\ \A a \in alloc : a.holder # b => a \in alloc'
        /\ alloc' \subseteq alloc
    BY <1>4 DEF BookingReleased, ReleaseTo, DeleteByHolder
  <2>. QED BY <1>4, <2>1, WaitlistAssumption DEF BookingReleased, ReleaseTo, OwnerInv, Typed
<1>. QED BY <1>1, <1>2, <1>3, <1>4

LEMMA OthersKeptByEntry ==
  ASSUME MaxSkew = 0, OwnerInv, NEW e \in Entries,
         EntryJoins(e) \/ OfferSeat(e) \/ EntryEnds(e)
  PROVE  OthersKept({}, {e}) /\ now' = now /\ conversion' = conversion
<1>. USE DEF OthersKept, BookingKept, OfferKept, RowsKept
<1>1. CASE EntryJoins(e)
  BY <1>1 DEF EntryJoins, OwnerInv, Typed
<1>2. CASE OfferSeat(e)
  <2>0. PICK t \in AppClock, r \in Conversions(e) :
          /\ PutSeatsOnHold(e, r, alloc, t, OfferMinutes)
          /\ offerExpiresAt' = [offerExpiresAt EXCEPT ![e] = t + OfferMinutes]
    BY <1>2 DEF OfferSeat
  <2>1. PICK deleted \in 0 .. t :
          alloc' = DeleteExpiredHoldsForSeats(alloc, r.seats, deleted)
                     \union HeldAllocations(e, r.seats, r.segment, t + OfferMinutes)
    BY <2>0, SeatsPutOnHold
  <2>2. \A a \in alloc : (a.allocationType = "HELD" => a.expiresAt > now) => a \in alloc'
    BY <2>1, CleanUpKeepsUnlapsed
  <2>3. \A a \in alloc' : a.holder # e => a \in alloc
    BY <2>1 DEF DeleteExpiredHoldsForSeats, HeldAllocations
  <2>. QED BY <1>2, <2>0, <2>2, <2>3, WaitlistAssumption DEF OfferSeat, OwnerInv, Typed
<1>3. CASE EntryEnds(e)
  <2>1. /\ \A a \in alloc : a.holder # e => a \in alloc'
        /\ alloc' \subseteq alloc
    BY <1>3 DEF EntryEnds, EndOffer, DeleteByHolder
  <2>. QED BY <1>3, <2>1, WaitlistAssumption DEF EntryEnds, EndOffer, OwnerInv, Typed
<1>. QED BY <1>1, <1>2, <1>3

LEMMA OthersKeptByAcceptance ==
  ASSUME MaxSkew = 0, OwnerInv, NEW e \in Entries, NEW b \in Bookings, AcceptOffer(e, b)
  PROVE  OthersKept({b}, {e}) /\ now' = now
<1>. DEFINE r == [seats |-> {a.seat : a \in OfferRows(e)}, segment |-> Wish[e].segment]
<1>1. PICK t \in AppClock : PlaceHold(b, r, DeleteByHolder(alloc, e), t)
  BY DEF AcceptOffer
<1>2. /\ holdExpiresAt' = [holdExpiresAt EXCEPT ![b] = t + HoldMinutes]
      /\ \E deleted \in 0 .. t :
           alloc' = DeleteExpiredHoldsForSeats(DeleteByHolder(alloc, e), r.seats, deleted)
                      \union HeldAllocations(b, r.seats, r.segment, t + HoldMinutes)
  <2>1. holdExpiresAt' = [holdExpiresAt EXCEPT ![b] = t + HoldMinutes]
        /\ PutSeatsOnHold(b, r, DeleteByHolder(alloc, e), t, HoldMinutes)
    BY <1>1 DEF PlaceHold
  <2>. HIDE DEF r
  <2>. QED BY <2>1, SeatsPutOnHold
<1>. PICK deleted \in 0 .. t :
       alloc' = DeleteExpiredHoldsForSeats(DeleteByHolder(alloc, e), r.seats, deleted)
                  \union HeldAllocations(b, r.seats, r.segment, t + HoldMinutes)
  BY <1>2
<1>3. \A a \in alloc :
        a.holder # e /\ (a.allocationType = "HELD" => a.expiresAt > now) => a \in alloc'
  <2>. SUFFICES ASSUME NEW a \in alloc, a.holder # e,
                       a.allocationType = "HELD" => a.expiresAt > now
                PROVE  a \in alloc'
    OBVIOUS
  <2>1. a \in DeleteExpiredHoldsForSeats(alloc, r.seats, deleted)
    BY CleanUpKeepsUnlapsed
  <2>. QED BY <1>2, <2>1 DEF DeleteExpiredHoldsForSeats, DeleteByHolder
<1>4. \A a \in alloc' : a.holder # b => a \in alloc
  BY <1>2 DEF DeleteExpiredHoldsForSeats, DeleteByHolder, HeldAllocations
<1>5. /\ status' = [status EXCEPT ![b] = "HELD"]
      /\ request' = [request EXCEPT ![b] = r]
      /\ entryStatus' = [entryStatus EXCEPT ![e] = "CONVERTED"]
      /\ offerExpiresAt' = [offerExpiresAt EXCEPT ![e] = Null]
      /\ conversion' = [conversion EXCEPT ![e] = b]
      /\ now' = now
  BY DEF AcceptOffer
<1>. HIDE DEF r
<1>. QED BY <1>2, <1>3, <1>4, <1>5, WaitlistAssumption
        DEF OthersKept, BookingKept, OfferKept, RowsKept, OwnerInv, Typed

-------------------------------------------------------------------------------
(* With one clock, bookings and offers that count own rows for their seats   *)

OffersKept == \A e \in Entries : LiveOffer(e) => OfferComplete(e)

SharedInv == OwnerInv /\ LiveBookingsOwnSeats /\ OffersKept

LEMMA KeptBookingOwnsSeats ==
  ASSUME OwnerInv, LiveBookingsOwnSeats, now' \in {now, now + 1},
         NEW c \in Bookings, BookingKept(c), RowsKept(c), Live(c)'
  PROVE  Live(c) /\ \A s \in request'[c].seats : SeatRow(c, s)' \in alloc'
<1>1. Live(c)
  BY DEF Live, BookingKept, OwnerInv, Typed, RequestsKnown
<1>2. ASSUME NEW s \in request[c].seats PROVE SeatRow(c, s) \in alloc'
  <2>1. SeatRow(c, s) \in alloc /\ SeatRow(c, s).holder = c
    BY <1>1, <1>2 DEF LiveBookingsOwnSeats, SeatRow
  <2>2. SeatRow(c, s).allocationType = "HELD" => SeatRow(c, s).expiresAt > now
    BY <1>1 DEF SeatRow, Live
  <2>. QED BY <2>1, <2>2 DEF RowsKept
<1>. QED BY <1>1, <1>2 DEF SeatRow, BookingKept

LEMMA KeptOfferKeepsRows ==
  ASSUME OwnerInv, now' \in {now, now + 1},
         NEW e \in Entries, OfferKept(e), RowsKept(e), LiveOffer(e)'
  PROVE  LiveOffer(e) /\ OfferRows(e)' = OfferRows(e)
<1>1. LiveOffer(e)
  <2>1. entryStatus[e] = "OFFERED" /\ offerExpiresAt[e] > now'
    BY DEF LiveOffer, OfferKept
  <2>2. offerExpiresAt[e] \in Nat /\ now \in Nat
    BY <2>1, ConstantsAssumption DEF OwnerInv, Typed
  <2>. QED BY <2>1, <2>2 DEF LiveOffer
<1>2. \A a \in alloc : a.holder = e => a.expiresAt = offerExpiresAt[e]
  BY WaitlistAssumption DEF OwnerInv, Owned, OwnedByBooking, OwnedByEntry
<1>. QED BY <1>1, <1>2 DEF RowsKept, OfferRows, LiveOffer

LEMMA PlacedBookingOwnsSeats ==
  ASSUME OwnerInv, NEW b \in Bookings, NEW r, NEW table, NEW t, PlaceHold(b, r, table, t),
         status' = [status EXCEPT ![b] = "HELD"], request'[b] = r
  PROVE  \A s \in request'[b].seats : SeatRow(b, s)' \in alloc'
BY SeatsPutOnHold DEF PlaceHold, HeldAllocations, SeatRow, OwnerInv, Typed

LEMMA ConfirmedBookingOwnsSeats ==
  ASSUME OwnerInv, LiveBookingsOwnSeats, NEW b \in Bookings, HoldConfirmed(b)
  PROVE  Live(b) /\ \A s \in request'[b].seats : SeatRow(b, s)' \in alloc'
<1>1. Live(b)
  BY DEF HoldConfirmed, ConfirmHeld, Live
<1>2. ASSUME NEW s \in request[b].seats PROVE SeatRow(b, s)' \in alloc'
  <2>1. SeatRow(b, s) \in alloc /\ SeatRow(b, s).holder = b
    BY <1>1, <1>2 DEF LiveBookingsOwnSeats, SeatRow
  <2>2. Confirmed(SeatRow(b, s)) \in alloc'
    BY <2>1 DEF HoldConfirmed, ConfirmHeld, ConfirmByHolder
  <2>3. Confirmed(SeatRow(b, s)) = SeatRow(b, s)'
    BY DEF HoldConfirmed, ConfirmHeld, Confirmed, SeatRow, OwnerInv, Typed
  <2>. QED BY <2>2, <2>3
<1>. QED BY <1>1, <1>2 DEF HoldConfirmed

\* Each seat of the offer gets a row, and the entry had none before.
LEMMA OfferIsComplete ==
  ASSUME OwnerInv, NEW e \in Entries, OfferSeat(e)
  PROVE  OfferComplete(e)' /\ \E r \in Conversions(e) : {a.seat : a \in OfferRows(e)'} = r.seats
<1>0. PICK t \in AppClock, r \in Conversions(e) : PutSeatsOnHold(e, r, alloc, t, OfferMinutes)
  BY DEF OfferSeat
<1>1. PICK deleted \in 0 .. t :
        alloc' = DeleteExpiredHoldsForSeats(alloc, r.seats, deleted)
                   \union HeldAllocations(e, r.seats, r.segment, t + OfferMinutes)
  BY <1>0, SeatsPutOnHold
<1>. DEFINE rows == HeldAllocations(e, r.seats, r.segment, t + OfferMinutes)
<1>2. \A a \in alloc : a.holder # e
  BY WaitlistAssumption DEF OfferSeat, OwnerInv, Owned, OwnedByBooking, OwnedByEntry
<1>3. OfferRows(e)' = rows
  BY <1>1, <1>2 DEF OfferRows, DeleteExpiredHoldsForSeats, HeldAllocations
<1>4. IsFiniteSet(r.seats) /\ Cardinality(r.seats) = Wish[e].passengerCount
  BY ConstantsAssumption, WaitlistAssumption DEF Conversions
<1>5. Cardinality(rows) = Wish[e].passengerCount
  BY <1>4, RowsAsManyAsSeats
<1>6. {a.seat : a \in rows} = r.seats
  BY <1>4, RowsAsManyAsSeats
<1>. QED BY <1>3, <1>5, <1>6 DEF OfferComplete

LEMMA SharedByBooking ==
  ASSUME MaxSkew = 0, SharedInv, NEW b \in Bookings, EntriesRest,
         StageMoves(b) \/ CreateBookingHold(b) \/ HoldConfirmed(b) \/ BookingReleased(b)
  PROVE  LiveBookingsOwnSeats' /\ OffersKept'
<1>. USE DEF SharedInv
<1>1. OthersKept({b}, {}) /\ now' = now
  BY OthersKeptByBooking
<1>2. ASSUME NEW c \in Bookings \ {b}, Live(c)'
      PROVE  \A s \in request'[c].seats : SeatRow(c, s)' \in alloc'
  BY <1>1, <1>2, KeptBookingOwnsSeats DEF OthersKept
<1>3. ASSUME Live(b)' PROVE \A s \in request'[b].seats : SeatRow(b, s)' \in alloc'
  <2>1. CASE StageMoves(b)
    BY <1>3, <2>1 DEF StageMoves, PreviewHold, RejectHold, MarkRefunded, Live, OwnerInv, Typed
  <2>2. CASE CreateBookingHold(b)
    BY <2>2, PlacedBookingOwnsSeats DEF CreateBookingHold, CommitHold
  <2>3. CASE BookingReleased(b)
    BY <1>3, <2>3 DEF BookingReleased, ReleaseTo, Live, OwnerInv, Typed
  <2>. QED BY <2>1, <2>2, <2>3, ConfirmedBookingOwnsSeats
<1>4. LiveBookingsOwnSeats'
  BY <1>2, <1>3 DEF LiveBookingsOwnSeats, SeatRow
<1>5. OffersKept'
  BY <1>1, KeptOfferKeepsRows DEF OthersKept, OffersKept, OfferComplete
<1>. QED BY <1>4, <1>5

LEMMA SharedByEntry ==
  ASSUME MaxSkew = 0, SharedInv, NEW e \in Entries,
         EntryJoins(e) \/ OfferSeat(e) \/ EntryEnds(e)
  PROVE  LiveBookingsOwnSeats' /\ OffersKept'
<1>. USE DEF SharedInv
<1>1. OthersKept({}, {e}) /\ now' = now
  BY OthersKeptByEntry
<1>2. LiveBookingsOwnSeats'
  BY <1>1, KeptBookingOwnsSeats DEF OthersKept, LiveBookingsOwnSeats, SeatRow
<1>3. ASSUME NEW d \in Entries \ {e}, LiveOffer(d)' PROVE OfferComplete(d)'
  BY <1>1, <1>3, KeptOfferKeepsRows DEF OthersKept, OffersKept, OfferComplete
<1>4. ASSUME LiveOffer(e)' PROVE OfferComplete(e)'
  <2>1. ~EntryJoins(e) /\ ~EntryEnds(e)
    BY <1>4 DEF EntryJoins, EntryEnds, EndOffer, LiveOffer, OwnerInv, Typed
  <2>. QED BY <2>1, OfferIsComplete
<1>. QED BY <1>2, <1>3, <1>4 DEF OffersKept

LEMMA SharedByAcceptance ==
  ASSUME MaxSkew = 0, SharedInv, NEW e \in Entries, NEW b \in Bookings, AcceptOffer(e, b)
  PROVE  LiveBookingsOwnSeats' /\ OffersKept'
<1>. USE DEF SharedInv
<1>1. OthersKept({b}, {e}) /\ now' = now
  BY OthersKeptByAcceptance
<1>2. ASSUME NEW c \in Bookings \ {b}, Live(c)'
      PROVE  \A s \in request'[c].seats : SeatRow(c, s)' \in alloc'
  BY <1>1, <1>2, KeptBookingOwnsSeats DEF OthersKept
<1>3. \A s \in request'[b].seats : SeatRow(b, s)' \in alloc'
  <2>. DEFINE r == [seats |-> {a.seat : a \in OfferRows(e)}, segment |-> Wish[e].segment]
  <2>1. /\ \E t \in AppClock : PlaceHold(b, r, DeleteByHolder(alloc, e), t)
        /\ status' = [status EXCEPT ![b] = "HELD"]
        /\ request' = [request EXCEPT ![b] = r]
    BY DEF AcceptOffer
  <2>. HIDE DEF r
  <2>2. request'[b] = r
    BY <2>1 DEF OwnerInv, Typed
  <2>. QED BY <2>1, <2>2, PlacedBookingOwnsSeats
<1>4. LiveBookingsOwnSeats'
  BY <1>2, <1>3 DEF LiveBookingsOwnSeats, SeatRow
<1>5. ~LiveOffer(e)'
  BY DEF AcceptOffer, LiveOffer, OwnerInv, Typed
<1>6. OffersKept'
  BY <1>1, <1>5, KeptOfferKeepsRows DEF OthersKept, OffersKept, OfferComplete
<1>. QED BY <1>4, <1>6

LEMMA SharedNext == MaxSkew = 0 /\ SharedInv /\ SeatStep => SharedInv'
<1>. SUFFICES ASSUME MaxSkew = 0, SharedInv, SeatStep PROVE SharedInv'
  OBVIOUS
<1>1. OwnerInv'
  BY OwnerNext DEF SharedInv
<1>2. CASE UNCHANGED seatVars \/ (Tick /\ EntriesRest)
  <2>1. OthersKept({}, {}) /\ now' \in {now, now + 1}
    BY <1>2, OthersKeptByRest DEF SharedInv
  <2>2. LiveBookingsOwnSeats'
    BY <2>1, KeptBookingOwnsSeats DEF SharedInv, OthersKept, LiveBookingsOwnSeats, SeatRow
  <2>3. OffersKept'
    BY <2>1, KeptOfferKeepsRows DEF SharedInv, OthersKept, OffersKept, OfferComplete
  <2>. QED BY <1>1, <2>2, <2>3 DEF SharedInv
<1>. QED BY <1>1, <1>2, SharedByBooking, SharedByEntry, SharedByAcceptance
        DEF SeatStep, SharedInv

LEMMA SharedInvariant == ASSUME MaxSkew = 0 PROVE WaitlistSpec => []SharedInv
<1>1. WaitlistInit => SharedInv
  BY OwnerInit
     DEF WaitlistInit, Init, SharedInv, LiveBookingsOwnSeats, OffersKept, Live, LiveOffer
<1>2. SharedInv /\ [WaitlistNext]_allVars => SharedInv'
  BY SharedNext, WaitlistSteps
<1>. QED BY <1>1, <1>2, PTL DEF WaitlistSpec

\* An offer that has not lapsed keeps a seat for every passenger, and nobody has a
\* row beside its rows: accepting it in time finds the seats (acceptOffer).
THEOREM OffersKeepTheirSeats ==
  ASSUME MaxSkew = 0
  PROVE  WaitlistSpec => []LiveOffersHoldSeats
<1>1. SharedInv => LiveOffersHoldSeats
  <2>. SUFFICES ASSUME SharedInv, NEW e \in Entries, LiveOffer(e)
                PROVE  /\ OfferComplete(e)
                       /\ \A a \in OfferRows(e) : a.expiresAt = offerExpiresAt[e]
                       /\ \A a \in OfferRows(e), d \in alloc \ OfferRows(e) :
                            a.seat = d.seat => ~SegmentsOverlap(a.segment, d.segment)
    BY DEF LiveOffersHoldSeats
  <2>1. OfferComplete(e)
    BY DEF SharedInv, OffersKept
  <2>2. \A a \in OfferRows(e) : a \in alloc /\ a.expiresAt = offerExpiresAt[e]
    BY WaitlistAssumption
       DEF SharedInv, OwnerInv, Owned, OwnedByBooking, OwnedByEntry, OfferRows
  <2>. QED BY <2>1, <2>2 DEF SharedInv, OwnerInv, ExclusionConstraint
<1>. QED BY <1>1, SharedInvariant, PTL

\* A row is about a cell: its seat, on one of the legs of its segment.
Covers(a, x) == \E l \in Legs(a.segment) : x = <<a.seat, l>>

LEMMA OneRowPerCell ==
  ASSUME OwnerInv, NEW a \in alloc, NEW d \in alloc, NEW x, Covers(a, x), Covers(d, x)
  PROVE  a = d
<1>1. PICK l \in Legs(a.segment) : x = <<a.seat, l>>
  BY DEF Covers
<1>2. l \in Legs(d.segment) /\ a.seat = d.seat
  BY <1>1 DEF Covers
<1>3. a.segment \in Segment /\ d.segment \in Segment
  BY DEF OwnerInv, Typed, Allocation
<1>4. SegmentsOverlap(a.segment, d.segment)
  BY <1>1, <1>2, <1>3, OverlapIffSharedLeg DEF ShareLeg
<1>. QED BY <1>2, <1>4 DEF OwnerInv, ExclusionConstraint

LEMMA LiveCellHasRow ==
  ASSUME SharedInv, NEW b \in Bookings, Live(b), NEW x \in BookingCells(b)
  PROVE  \E a \in alloc : a.holder = b /\ Covers(a, x)
<1>1. PICK s \in request[b].seats, l \in Legs(request[b].segment) : x = <<s, l>>
  BY DEF BookingCells
<1>2. SeatRow(b, s) \in alloc
  BY DEF SharedInv, LiveBookingsOwnSeats, SeatRow
<1>3. SeatRow(b, s).holder = b /\ SeatRow(b, s).seat = s /\ SeatRow(b, s).segment = request[b].segment
  BY DEF SeatRow
<1>. QED BY <1>1, <1>2, <1>3 DEF Covers

\* With offers beside bookings, too, no seat is sold twice.
THEOREM NoDoubleSaleBesideOffers ==
  ASSUME MaxSkew = 0
  PROVE  WaitlistSpec => []LiveBookingsDisjoint
<1>1. SharedInv => LiveBookingsDisjoint
  <2>. SUFFICES ASSUME SharedInv, NEW b \in Bookings, NEW c \in Bookings, b # c,
                       Live(b), Live(c), NEW x \in BookingCells(b), x \in BookingCells(c)
                PROVE  FALSE
    BY DEF LiveBookingsDisjoint
  <2>1. PICK a \in alloc : a.holder = b /\ Covers(a, x)
    BY LiveCellHasRow
  <2>2. PICK d \in alloc : d.holder = c /\ Covers(d, x)
    BY LiveCellHasRow
  <2>. QED BY <2>1, <2>2, OneRowPerCell DEF SharedInv
<1>. QED BY <1>1, SharedInvariant, PTL

-------------------------------------------------------------------------------
(* Bookings and offers implement the seat ledger                             *)

Holders == Bookings \union Entries

\* The row that stands for a cell of h: of the holder itself, or of the booking
\* that an entry was converted to.
Carries(h, a) ==
  \/ a.holder = h /\ (h \in Bookings => ~Converted(h))
  \/ h \in Entries /\ conversion[h] # Null /\ a.holder = conversion[h]

LEMMA CellHasRow ==
  ASSUME SharedInv, NEW h \in Holders, NEW x \in HolderCells(h)
  PROVE  \E a \in alloc : Carries(h, a) /\ Covers(a, x)
<1>1. CASE h \in Bookings
  BY <1>1, LiveCellHasRow DEF HolderCells, Carries
<1>2. CASE h \in Entries /\ LiveOffer(h)
  <2>1. x \in {a.seat : a \in OfferRows(h)} \X Legs(Wish[h].segment)
    BY <1>2, WaitlistAssumption DEF HolderCells
  <2>2. PICK a \in OfferRows(h), l \in Legs(Wish[h].segment) : x = <<a.seat, l>>
    BY <2>1
  <2>3. a \in alloc /\ a.holder = h /\ a.segment = Wish[h].segment
    BY <1>2, WaitlistAssumption
       DEF OfferRows, SharedInv, OwnerInv, Owned, OwnedByBooking, OwnedByEntry
  <2>. QED BY <1>2, <2>2, <2>3, WaitlistAssumption DEF Carries, Covers
<1>3. CASE h \in Entries /\ ~LiveOffer(h)
  <2>1. conversion[h] # Null /\ Live(conversion[h]) /\ x \in BookingCells(conversion[h])
    BY <1>3, WaitlistAssumption DEF HolderCells
  <2>2. conversion[h] \in Bookings
    BY <1>3, <2>1 DEF SharedInv, OwnerInv, Typed
  <2>. QED BY <1>3, <2>1, <2>2, LiveCellHasRow DEF Carries
<1>. QED BY <1>1, <1>2, <1>3 DEF Holders

LEMMA CellsDisjoint ==
  SharedInv => \A g, h \in Holders : g # h => HolderCells(g) \intersect HolderCells(h) = {}
<1>. SUFFICES ASSUME SharedInv, NEW g \in Holders, NEW h \in Holders, g # h,
                     NEW x \in HolderCells(g), x \in HolderCells(h)
              PROVE  FALSE
  OBVIOUS
<1>1. PICK a \in alloc : Carries(g, a) /\ Covers(a, x)
  BY CellHasRow
<1>2. PICK d \in alloc : Carries(h, d) /\ Covers(d, x)
  BY CellHasRow
<1>3. a = d
  BY <1>1, <1>2, OneRowPerCell DEF SharedInv
<1>. QED BY <1>1, <1>2, <1>3, WaitlistAssumption
        DEF Carries, Converted, Holders, SharedInv, OwnerInv, Typed, ConversionsStored

LEMMA WaitLedgerInit == WaitlistInit => WaitLedger!Init
BY DEF WaitlistInit, Init, WaitLedger!Init, AllCells, HolderCells, Live, LiveOffer

\* Who has cells after such a step had the same cells before it.
LEMMA WaitLedgerRelease ==
  ASSUME \A h \in Holders : HolderCells(h)' = {} \/ HolderCells(h)' = HolderCells(h)
  PROVE  WaitLedger!Next
<1>. DEFINE H == {h \in Holders : HolderCells(h)' = {}}
<1>1. WaitLedger!Release(H)
  BY DEF WaitLedger!Release, AllCells, Holders
<1>. QED BY <1>1 DEF WaitLedger!Next, Holders

\* A holder without cells gets a lot that nobody has afterwards either.
LEMMA WaitLedgerClaim ==
  ASSUME NEW h \in Holders, HolderCells(h) = {},
         \A g \in Holders : g # h => HolderCells(g)' \intersect HolderCells(h)' = {},
         HolderCells(h)' \in {r.seats \X Legs(r.segment) : r \in Requests},
         \A g \in Holders \ {h} : HolderCells(g)' = HolderCells(g)
  PROVE  WaitLedger!Next
<1>1. WaitLedger!Claim(h, HolderCells(h)')
  BY DEF WaitLedger!Claim, WaitLedger!Free, AllCells, Holders
<1>. QED BY <1>1 DEF WaitLedger!Next, Holders

LEMMA KeptBookingCells ==
  ASSUME now' = now, NEW c \in Bookings, BookingKept(c), Converted(c)' <=> Converted(c)
  PROVE  HolderCells(c)' = HolderCells(c)
BY DEF BookingKept, HolderCells, Live, BookingCells

LEMMA KeptEntryCells ==
  ASSUME OwnerInv, now' = now, NEW e \in Entries, OfferKept(e), RowsKept(e),
         conversion[e] # Null => BookingKept(conversion[e])
  PROVE  HolderCells(e)' = HolderCells(e)
<1>1. LiveOffer(e)' <=> LiveOffer(e)
  BY DEF LiveOffer, OfferKept
<1>2. LiveOffer(e)' => OfferRows(e)' = OfferRows(e)
  BY KeptOfferKeepsRows
<1>3. conversion'[e] = conversion[e]
  BY DEF OfferKept
<1>4. conversion[e] # Null =>
        (Live(conversion[e])' <=> Live(conversion[e]))
          /\ BookingCells(conversion[e])' = BookingCells(conversion[e])
  BY <1>3 DEF BookingKept, Live, BookingCells
<1>. QED BY <1>1, <1>2, <1>3, <1>4, WaitlistAssumption DEF HolderCells, Live, BookingCells

\* Bookings and entries that only lose what they had, or keep it.
LEMMA CellsLost ==
  ASSUME OwnerInv, OwnerInv', conversion' = conversion,
         \A c \in Bookings : Live(c)' => Live(c) /\ BookingCells(c)' = BookingCells(c),
         \A e \in Entries : LiveOffer(e)' => LiveOffer(e) /\ OfferRows(e)' = OfferRows(e)
  PROVE  WaitLedger!Next
<1>1. ASSUME NEW c \in Bookings
      PROVE  HolderCells(c)' = {} \/ HolderCells(c)' = HolderCells(c)
  BY DEF HolderCells, Converted
<1>2. ASSUME NEW e \in Entries
      PROVE  HolderCells(e)' = {} \/ HolderCells(e)' = HolderCells(e)
  <2>1. e \notin Bookings
    BY WaitlistAssumption
  <2>2. CASE LiveOffer(e)'
    BY <2>1, <2>2 DEF HolderCells
  <2>3. CASE ~LiveOffer(e)' /\ conversion[e] # Null /\ Live(conversion[e])'
    <3>1. conversion[e] \in Bookings /\ ~LiveOffer(e)
      BY <2>3 DEF OwnerInv, Typed, LiveOffer
    <3>2. Live(conversion[e]) /\ BookingCells(conversion[e])' = BookingCells(conversion[e])
      BY <2>3, <3>1 DEF Live, BookingCells
    <3>. QED BY <2>1, <2>3, <3>1, <3>2 DEF HolderCells, Live, BookingCells
  <2>4. CASE ~LiveOffer(e)' /\ ~(conversion[e] # Null /\ Live(conversion[e])')
    BY <2>1, <2>4 DEF HolderCells, Live
  <2>. QED BY <2>2, <2>3, <2>4
<1>. QED BY <1>1, <1>2, WaitLedgerRelease DEF Holders

LEMMA KeptBookingLoses ==
  ASSUME OwnerInv, LiveBookingsOwnSeats, now' \in {now, now + 1},
         NEW c \in Bookings, BookingKept(c), RowsKept(c), Live(c)'
  PROVE  Live(c) /\ BookingCells(c)' = BookingCells(c)
BY KeptBookingOwnsSeats DEF BookingCells, BookingKept

LEMMA WaitLedgerByBooking ==
  ASSUME MaxSkew = 0, SharedInv, OwnerInv', NEW b \in Bookings, EntriesRest,
         StageMoves(b) \/ HoldConfirmed(b) \/ BookingReleased(b)
  PROVE  WaitLedger!Next
<1>1. OthersKept({b}, {}) /\ now' = now
  BY OthersKeptByBooking DEF SharedInv
<1>2. ASSUME Live(b)' PROVE Live(b) /\ BookingCells(b)' = BookingCells(b)
  <2>1. HoldConfirmed(b)
    BY <1>2
       DEF StageMoves, PreviewHold, RejectHold, MarkRefunded, BookingReleased, ReleaseTo, Live,
           SharedInv, OwnerInv, Typed
  <2>. QED BY <2>1, ConfirmedBookingOwnsSeats DEF SharedInv, HoldConfirmed, BookingCells
<1>3. \A c \in Bookings : Live(c)' => Live(c) /\ BookingCells(c)' = BookingCells(c)
  BY <1>1, <1>2, KeptBookingLoses DEF OthersKept, SharedInv
<1>4. \A e \in Entries : LiveOffer(e)' => LiveOffer(e) /\ OfferRows(e)' = OfferRows(e)
  BY <1>1, KeptOfferKeepsRows DEF OthersKept, SharedInv
<1>. QED BY <1>3, <1>4, CellsLost DEF EntriesRest, SharedInv

LEMMA WaitLedgerByRest ==
  ASSUME SharedInv, OwnerInv', UNCHANGED seatVars \/ (Tick /\ EntriesRest)
  PROVE  WaitLedger!Next
<1>1. OthersKept({}, {}) /\ now' \in {now, now + 1} /\ conversion' = conversion
  BY OthersKeptByRest DEF SharedInv, seatVars, EntriesRest
<1>2. \A c \in Bookings : Live(c)' => Live(c) /\ BookingCells(c)' = BookingCells(c)
  BY <1>1, KeptBookingLoses DEF OthersKept, SharedInv
<1>3. \A e \in Entries : LiveOffer(e)' => LiveOffer(e) /\ OfferRows(e)' = OfferRows(e)
  BY <1>1, KeptOfferKeepsRows DEF OthersKept, SharedInv
<1>. QED BY <1>1, <1>2, <1>3, CellsLost DEF SharedInv

LEMMA WaitLedgerByEntry ==
  ASSUME MaxSkew = 0, SharedInv, OwnerInv', NEW e \in Entries, EntryJoins(e) \/ EntryEnds(e)
  PROVE  WaitLedger!Next
<1>1. OthersKept({}, {e}) /\ now' = now /\ conversion' = conversion
  BY OthersKeptByEntry DEF SharedInv
<1>2. \A c \in Bookings : Live(c)' => Live(c) /\ BookingCells(c)' = BookingCells(c)
  BY <1>1, KeptBookingLoses DEF OthersKept, SharedInv
<1>3. ~LiveOffer(e)'
  BY DEF EntryJoins, EntryEnds, EndOffer, LiveOffer, SharedInv, OwnerInv, Typed
<1>4. \A d \in Entries : LiveOffer(d)' => LiveOffer(d) /\ OfferRows(d)' = OfferRows(d)
  BY <1>1, <1>3, KeptOfferKeepsRows DEF OthersKept, SharedInv
<1>. QED BY <1>1, <1>2, <1>4, CellsLost DEF SharedInv

\* A hold claims the lot of its request.
LEMMA WaitLedgerByPlacement ==
  ASSUME MaxSkew = 0, SharedInv, OwnerInv', NEW b \in Bookings, CreateBookingHold(b), EntriesRest,
         \A g, h \in Holders : g # h => HolderCells(g)' \intersect HolderCells(h)' = {}
  PROVE  WaitLedger!Next
<1>1. OthersKept({b}, {}) /\ now' = now
  BY OthersKeptByBooking DEF SharedInv
<1>2. status[b] = "PREVIEWED" /\ conversion' = conversion
  BY DEF CreateBookingHold, EntriesRest
<1>3. ~Converted(b) /\ ~Converted(b)' /\ \A e \in Entries : conversion[e] # b
  BY <1>2, WaitlistAssumption DEF Converted, SharedInv, OwnerInv, ConversionsStored, BookingStatus
<1>4. ASSUME NEW g \in Holders \ {b} PROVE HolderCells(g)' = HolderCells(g)
  <2>1. CASE g \in Bookings
    BY <1>1, <1>2, <2>1, KeptBookingCells DEF OthersKept, Converted
  <2>2. CASE g \in Entries
    <3>1. conversion[g] # Null => conversion[g] \in Bookings \ {b}
      BY <1>3, <2>2 DEF SharedInv, OwnerInv, Typed
    <3>. QED BY <1>1, <2>2, <3>1, KeptEntryCells DEF OthersKept, SharedInv
  <2>. QED BY <2>1, <2>2 DEF Holders
<1>5. Live(b)'
  <2>1. PICK t \in AppClock : holdExpiresAt' = [holdExpiresAt EXCEPT ![b] = t + HoldMinutes]
    BY DEF CreateBookingHold, CommitHold, PlaceHold
  <2>2. now \in Nat
    BY ConstantsAssumption DEF SharedInv, OwnerInv, Typed
  <2>3. t = now
    BY <2>2, ConstantsAssumption DEF AppClock
  <2>. QED BY <1>1, <2>1, <2>2, <2>3, ConstantsAssumption
           DEF CreateBookingHold, Live, SharedInv, OwnerInv, Typed
<1>6. HolderCells(b) = {} /\ HolderCells(b)' = BookingCells(b)'
  BY <1>2, <1>3, <1>5 DEF HolderCells, Live
<1>7. BookingCells(b)' = request[b].seats \X Legs(request[b].segment) /\ request[b] \in Requests
  BY <1>2 DEF BookingCells, CreateBookingHold, SharedInv, OwnerInv, Typed, RequestsKnown
<1>. QED BY <1>4, <1>6, <1>7, WaitLedgerClaim DEF Holders

\* An offer claims the lot that a booking of the same party would ask for.
LEMMA WaitLedgerByOffer ==
  ASSUME MaxSkew = 0, SharedInv, OwnerInv', NEW e \in Entries, OfferSeat(e),
         \A g, h \in Holders : g # h => HolderCells(g)' \intersect HolderCells(h)' = {}
  PROVE  WaitLedger!Next
<1>1. OthersKept({}, {e}) /\ now' = now /\ conversion' = conversion
  BY OthersKeptByEntry DEF SharedInv
<1>2. entryStatus[e] = "WAITING" /\ entryStatus'[e] = "OFFERED" /\ conversion[e] = Null
  BY DEF OfferSeat, SharedInv, OwnerInv, Typed
<1>3. ASSUME NEW g \in Holders \ {e} PROVE HolderCells(g)' = HolderCells(g)
  <2>1. CASE g \in Bookings
    BY <1>1, <2>1, KeptBookingCells DEF OthersKept, Converted
  <2>2. CASE g \in Entries
    <3>1. conversion[g] # Null => conversion[g] \in Bookings
      BY <2>2 DEF SharedInv, OwnerInv, Typed
    <3>. QED BY <1>1, <1>3, <2>2, <3>1, KeptEntryCells DEF OthersKept, SharedInv
  <2>. QED BY <2>1, <2>2 DEF Holders
<1>4. LiveOffer(e)'
  <2>1. PICK t \in AppClock : offerExpiresAt' = [offerExpiresAt EXCEPT ![e] = t + OfferMinutes]
    BY DEF OfferSeat
  <2>2. now \in Nat
    BY ConstantsAssumption DEF SharedInv, OwnerInv, Typed
  <2>3. t = now
    BY <2>2, ConstantsAssumption DEF AppClock
  <2>. QED BY <1>1, <1>2, <2>1, <2>2, <2>3, WaitlistAssumption
           DEF LiveOffer, SharedInv, OwnerInv, Typed
<1>5. e \notin Bookings
  BY WaitlistAssumption
<1>6. PICK r \in Conversions(e) : {a.seat : a \in OfferRows(e)'} = r.seats
  BY OfferIsComplete DEF SharedInv
<1>7. r \in Requests /\ r.segment = Wish[e].segment
  BY WaitlistAssumption DEF Conversions
<1>8. HolderCells(e) = {} /\ HolderCells(e)' = r.seats \X Legs(r.segment)
  BY <1>2, <1>4, <1>5, <1>6, <1>7 DEF HolderCells, LiveOffer
<1>. QED BY <1>3, <1>7, <1>8, WaitLedgerClaim DEF Holders

\* Acceptance changes no owner: the booking holds the seats for its entry.  If the
\* offer lapsed while it was accepted, the entry claims its lot anew.
LEMMA WaitLedgerByAcceptance ==
  ASSUME MaxSkew = 0, SharedInv, OwnerInv', NEW e \in Entries, NEW b \in Bookings,
         AcceptOffer(e, b),
         \A g, h \in Holders : g # h => HolderCells(g)' \intersect HolderCells(h)' = {}
  PROVE  [WaitLedger!Next]_AllCells
<1>. USE DEF SharedInv
<1>1. OthersKept({b}, {e}) /\ now' = now
  BY OthersKeptByAcceptance
<1>. DEFINE r == [seats |-> {a.seat : a \in OfferRows(e)}, segment |-> Wish[e].segment]
<1>2. PICK t \in AppClock : holdExpiresAt' = [holdExpiresAt EXCEPT ![b] = t + HoldMinutes]
  BY DEF AcceptOffer, PlaceHold
<1>3. t = now /\ now \in Nat
  <2>1. now \in Nat
    BY ConstantsAssumption DEF OwnerInv, Typed
  <2>. QED BY <2>1, ConstantsAssumption DEF AppClock
<1>4. /\ status[b] = "NEW" /\ status'[b] = "HELD" /\ request'[b] = r
      /\ entryStatus[e] = "OFFERED" /\ entryStatus'[e] = "CONVERTED"
      /\ conversion' = [conversion EXCEPT ![e] = b]
      /\ conversion[e] = Null /\ conversion'[e] = b
  BY DEF AcceptOffer, OwnerInv, Typed
<1>5. ~LiveOffer(e)' /\ ~Live(b) /\ Live(b)'
  BY <1>1, <1>2, <1>3, <1>4, ConstantsAssumption DEF LiveOffer, Live, OwnerInv, Typed
<1>6. e \notin Bookings /\ b # Null /\ Converted(b)'
  BY <1>4, WaitlistAssumption DEF Converted
<1>7. HolderCells(e)' = r.seats \X Legs(r.segment)
  <2>1. HolderCells(e)' = BookingCells(b)'
    BY <1>4, <1>5, <1>6 DEF HolderCells, Live, BookingCells
  <2>. QED BY <1>4, <2>1 DEF BookingCells
<1>8. HolderCells(b)' = HolderCells(b)
  BY <1>5, <1>6 DEF HolderCells
<1>9. \A d \in Entries : conversion[d] # b
  BY <1>4, <1>6 DEF OwnerInv, ConversionsStored, BookingStatus
<1>10. ASSUME NEW c \in Bookings \ {b} PROVE HolderCells(c)' = HolderCells(c)
  <2>1. Converted(c)' <=> Converted(c)
    BY <1>4, WaitlistAssumption DEF Converted, OwnerInv, Typed
  <2>. QED BY <1>1, <2>1, KeptBookingCells DEF OthersKept
<1>11. ASSUME NEW d \in Entries \ {e} PROVE HolderCells(d)' = HolderCells(d)
  <2>1. conversion[d] # Null => conversion[d] \in Bookings \ {b}
    BY <1>9 DEF OwnerInv, Typed
  <2>. QED BY <1>1, <2>1, KeptEntryCells DEF OthersKept
<1>12. CASE LiveOffer(e)
  <2>1. HolderCells(e) = r.seats \X Legs(r.segment)
    BY <1>6, <1>12 DEF HolderCells
  <2>. QED BY <1>7, <1>8, <1>10, <1>11, <2>1 DEF AllCells
<1>13. CASE ~LiveOffer(e)
  <2>1. HolderCells(e) = {}
    BY <1>4, <1>6, <1>13 DEF HolderCells
  <2>2. r \in Requests
    BY OfferIsRequest DEF AcceptOffer
  <2>3. \A g \in Holders \ {e} : HolderCells(g)' = HolderCells(g)
    BY <1>8, <1>10, <1>11 DEF Holders
  <2>4. HolderCells(e)' \in {q.seats \X Legs(q.segment) : q \in Requests}
    BY <1>7, <2>2
  <2>5. e \in Holders /\ \A g \in Holders : g # e => HolderCells(g)' \intersect HolderCells(e)' = {}
    BY DEF Holders
  <2>. QED BY <2>1, <2>3, <2>4, <2>5, WaitLedgerClaim
<1>. QED BY <1>12, <1>13

LEMMA WaitLedgerNext ==
  ASSUME MaxSkew = 0, SharedInv, OwnerInv', SeatStep,
         \A g, h \in Holders : g # h => HolderCells(g)' \intersect HolderCells(h)' = {}
  PROVE  [WaitLedger!Next]_AllCells
<1>1. ASSUME NEW b \in Bookings, EntriesRest,
             StageMoves(b) \/ CreateBookingHold(b) \/ HoldConfirmed(b) \/ BookingReleased(b)
      PROVE  WaitLedger!Next
  BY <1>1, WaitLedgerByBooking, WaitLedgerByPlacement
<1>2. ASSUME NEW e \in Entries, EntryJoins(e) \/ OfferSeat(e) \/ EntryEnds(e)
      PROVE  WaitLedger!Next
  BY <1>2, WaitLedgerByEntry, WaitLedgerByOffer
<1>. QED BY <1>1, <1>2, WaitLedgerByRest, WaitLedgerByAcceptance DEF SeatStep

\* Bookings and offers share one ledger of seats: a seat on a leg passes from one
\* holder to another only after the first stopped counting on it, and acceptance in
\* time gives nobody else a chance.
THEOREM WaitlistImplementsLedger ==
  ASSUME MaxSkew = 0
  PROVE  WaitlistSpec => ImplementsWaitLedger
<1>1. WaitlistSpec => []SharedInv
  BY SharedInvariant
<1>2. SharedInv => OwnerInv
  BY DEF SharedInv
<1>. DEFINE Disjoint ==
       \A g, h \in Holders : g # h => HolderCells(g) \intersect HolderCells(h) = {}
<1>3. SharedInv => Disjoint
  BY CellsDisjoint
<1>4. SharedInv /\ OwnerInv' /\ Disjoint' /\ [WaitlistNext]_allVars => [WaitLedger!Next]_AllCells
  BY WaitLedgerNext, WaitlistSteps
<1>. HIDE DEF Disjoint
<1>. QED BY <1>1, <1>2, <1>3, <1>4, WaitLedgerInit, PTL
         DEF WaitlistSpec, ImplementsWaitLedger, WaitLedger!Spec

\* Accepting in time finds the seats: once the entry's rows are released, the check
\* and the INSERTs of the hold that replaces them succeed at whatever readings of the
\* clock they are made, other holds having lapsed or not, unless a seat was blocked.
THEOREM AcceptanceFindsItsSeats ==
  ASSUME MaxSkew = 0, SharedInv, NEW e \in Entries, LiveOffer(e),
         NEW b \in Bookings, NEW t \in AppClock,
         NEW deleted \in 0 .. t, NEW checked \in deleted .. t,
         NEW r, r = [seats |-> {a.seat : a \in OfferRows(e)}, segment |-> Wish[e].segment],
         \A s \in r.seats : seatStatus[s] = "AVAILABLE"
  PROVE  LET kept == DeleteExpiredHoldsForSeats(DeleteByHolder(alloc, e), r.seats, deleted)
             rows == HeldAllocations(b, r.seats, r.segment, t + HoldMinutes)
         IN  /\ OfferComplete(e)
             /\ AllAvailable(r, kept, checked)
             /\ ExclusionConstraint(kept \union rows)
<1>. DEFINE table == DeleteByHolder(alloc, e)
            kept == DeleteExpiredHoldsForSeats(table, r.seats, deleted)
<1>. USE DEF SharedInv
<1>1. OfferComplete(e) /\ r \in Requests
  BY OfferIsRequest DEF OffersKept
<1>2. /\ r.seats \in SUBSET Seats /\ r.segment \in Segment /\ r.segment = Wish[e].segment
      /\ t \in Nat /\ deleted \in Nat /\ checked \in Nat /\ deleted <= checked
      /\ t + HoldMinutes \in Nat /\ checked < t + HoldMinutes
  BY <1>1, ConstantsAssumption DEF AppClock
\* The rows of the offer kept everybody else off its seats.
<1>3. ASSUME NEW d \in table, d.seat \in r.seats
      PROVE  ~SegmentsOverlap(d.segment, r.segment)
  <2>1. PICK a \in alloc : a.holder = e /\ a.seat = d.seat
    BY <1>3 DEF OfferRows
  <2>2. a.segment = r.segment
    BY <1>2, <2>1, WaitlistAssumption DEF OwnerInv, Owned, OwnedByBooking, OwnedByEntry
  <2>3. d \in alloc /\ d # a
    BY <1>3, <2>1 DEF DeleteByHolder
  <2>. QED BY <2>1, <2>2, <2>3 DEF OwnerInv, ExclusionConstraint
<1>4. \A s \in r.seats : NoActiveOverlap(kept, s, r.segment, checked)
  BY <1>3 DEF NoActiveOverlap, Overlapping, DeleteExpiredHoldsForSeats
<1>5. AllAvailable(r, kept, checked)
  BY <1>4 DEF AllAvailable
<1>6. table \in SUBSET Allocation(Bookings \union Entries, Seats) /\ ExclusionConstraint(table)
  BY SubtableExclusive DEF DeleteByHolder, OwnerInv, Typed
<1>7. LapsedBetween(table, r.seats, r.segment, deleted, checked) = {}
  BY <1>3 DEF LapsedBetween
<1>. HIDE DEF table
<1>8. ExclusionConstraint(kept \union HeldAllocations(b, r.seats, r.segment, t + HoldMinutes))
  BY <1>2, <1>4, <1>6, <1>7, InsertRefusedIffLapsed
<1>. QED BY <1>1, <1>5, <1>8 DEF table
===============================================================================
