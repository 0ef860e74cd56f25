--------------------------- MODULE SeatBookingProofs ---------------------------
(***************************************************************************)
(* Theorems about the booking core, for any bookings, seats, requests, hold *)
(* time, batch size and time bound: what the segment functions and the      *)
(* statements on the table of seat allocations do, the invariants of        *)
(* SeatBooking, and that it implements SeatLedger.                          *)
(***************************************************************************)
EXTENDS SeatBooking, TLAPS

-------------------------------------------------------------------------------
(* Segments and the statements on seat_allocations                           *)

\* The half-open comparison of segmentsOverlap is exactly "some leg belongs to
\* both": passengers whose rides only touch at a station may share a seat.
THEOREM OverlapIffSharedLeg ==
  ASSUME NEW a \in Segment, NEW b \in Segment
  PROVE  SegmentsOverlap(a, b) <=> ShareLeg(a, b)
<1>1. /\ a.originSequence \in Nat /\ a.destinationSequence \in Nat
      /\ b.originSequence \in Nat /\ b.destinationSequence \in Nat
      /\ a.originSequence < a.destinationSequence
      /\ b.originSequence < b.destinationSequence
  BY DEF Segment, IsValidSegment
<1>2. ASSUME SegmentsOverlap(a, b) PROVE ShareLeg(a, b)
  <2>1. CASE a.originSequence <= b.originSequence
    <3>1. b.originSequence \in Legs(a) /\ b.originSequence \in Legs(b)
      BY <1>1, <1>2, <2>1 DEF SegmentsOverlap, Legs
    <3>. QED BY <3>1 DEF ShareLeg
  <2>2. CASE b.originSequence < a.originSequence
    <3>1. a.originSequence \in Legs(a) /\ a.originSequence \in Legs(b)
      BY <1>1, <1>2, <2>2 DEF SegmentsOverlap, Legs
    <3>. QED BY <3>1 DEF ShareLeg
  <2>. QED BY <1>1, <2>1, <2>2
<1>3. ASSUME ShareLeg(a, b) PROVE SegmentsOverlap(a, b)
  <2>1. PICK l \in Legs(a) : l \in Legs(b)
    BY <1>3 DEF ShareLeg
  <2>. QED BY <1>1, <2>1 DEF Legs, SegmentsOverlap
<1>. QED BY <1>2, <1>3

\* A seat given up at a station can be sold from there on; a ride inside
\* another one always collides with it.
LEMMA AdjacentAndContained ==
  ASSUME NEW a \in Segment, NEW b \in Segment
  PROVE  /\ SegmentsAreAdjacent(a, b) => ~SegmentsOverlap(a, b)
         /\ SegmentContains(a, b) => SegmentsOverlap(a, b)
BY DEF Segment, IsValidSegment, SegmentsAreAdjacent, SegmentContains, SegmentsOverlap

\* The test does not depend on which ride is looked at first.
LEMMA OverlapSymmetric ==
  ASSUME NEW a, NEW b, a \in Segment, b \in Segment
  PROVE  SegmentsOverlap(a, b) <=> SegmentsOverlap(b, a)
BY DEF SegmentsOverlap, Segment

\* Deleting rows, as every release and clean-up does, keeps the constraint.
LEMMA SubtableExclusive ==
  ASSUME NEW table, NEW subtable \in SUBSET table, ExclusionConstraint(table)
  PROVE  ExclusionConstraint(subtable)
BY DEF ExclusionConstraint

\* Confirming a booking changes only the type and expiry of its rows.
LEMMA ConfirmExclusive ==
  ASSUME NEW table, NEW h, ExclusionConstraint(table)
  PROVE  ExclusionConstraint(ConfirmByHolder(table, h))
<1>. DEFINE row(a) == IF a.holder = h THEN Confirmed(a) ELSE a
<1>1. \A a \in table : row(a).seat = a.seat /\ row(a).segment = a.segment
  BY DEF Confirmed
<1>2. SUFFICES ASSUME NEW c \in ConfirmByHolder(table, h),
                      NEW d \in ConfirmByHolder(table, h),
                      c # d, c.seat = d.seat
               PROVE  ~SegmentsOverlap(c.segment, d.segment)
  BY DEF ExclusionConstraint
<1>3. PICK a \in table, b \in table : c = row(a) /\ d = row(b)
  BY DEF ConfirmByHolder, DeleteByHolder
<1>4. a # b
  BY <1>2, <1>3
<1>. HIDE DEF row
<1>. QED BY <1>1, <1>2, <1>3, <1>4 DEF ExclusionConstraint

\* Holds of these seats that were in the way at the clean-up and had lapsed by the
\* check, so that neither of them dealt with their rows.
LapsedBetween(table, S, segment, deleted, checked) ==
  {a \in table : /\ a.seat \in S /\ SegmentsOverlap(a.segment, segment)
                 /\ a.allocationType = "HELD"
                 /\ deleted < a.expiresAt /\ a.expiresAt <= checked}

\* What the clean-up and the check of a hold leave to the database's exclusion
\* constraint: of the INSERTs that passed the check, it refuses those whose seats
\* another hold gave up between the two clock readings, and no others.
THEOREM InsertRefusedIffLapsed ==
  ASSUME NEW holders, NEW seats, NEW table \in SUBSET Allocation(holders, seats),
         ExclusionConstraint(table),
         NEW h, NEW S \in SUBSET seats, NEW segment \in Segment,
         NEW deleted \in Nat, NEW checked \in Nat, NEW expiry \in Nat,
         deleted <= checked, checked < expiry,
         \A s \in S :
           NoActiveOverlap(DeleteExpiredHoldsForSeats(table, S, deleted), s, segment, checked)
  PROVE  ExclusionConstraint(DeleteExpiredHoldsForSeats(table, S, deleted)
                               \union HeldAllocations(h, S, segment, expiry))
         <=> LapsedBetween(table, S, segment, deleted, checked) = {}
<1>. DEFINE kept == DeleteExpiredHoldsForSeats(table, S, deleted)
            rows == HeldAllocations(h, S, segment, expiry)
<1>1. \A b \in rows : b.seat \in S /\ b.segment = segment /\ b.expiresAt = expiry
  BY DEF HeldAllocations
<1>2. \A a, b \in rows : a.seat = b.seat => a = b
  BY DEF HeldAllocations
<1>3. kept \subseteq table /\ ExclusionConstraint(kept)
  BY SubtableExclusive DEF DeleteExpiredHoldsForSeats
<1>4. \A a \in kept : a \in Allocation(holders, seats) /\ a.segment \in Segment
  BY <1>3 DEF Allocation
\* A row in the way is a hold that has lapsed since the clean-up.
<1>5. ASSUME NEW a \in kept, a.seat \in S, SegmentsOverlap(a.segment, segment)
      PROVE  a \in LapsedBetween(table, S, segment, deleted, checked)
  <2>1. ~Active(a, checked)
    BY <1>5 DEF NoActiveOverlap, Overlapping
  <2>2. /\ a.allocationType \in {"HELD", "CONFIRMED"}
        /\ a.allocationType = "HELD" <=> a.expiresAt # Null
        /\ a.expiresAt \in Nat \union {Null}
    BY <1>4, <1>5 DEF Allocation
  <2>3. a.allocationType = "HELD" /\ a.expiresAt \in Nat /\ a.expiresAt <= checked
    BY <2>1, <2>2 DEF Active
  <2>4. ~(a.expiresAt <= deleted)
    BY <1>5, <2>3 DEF DeleteExpiredHoldsForSeats
  <2>. QED BY <1>3, <1>5, <2>3, <2>4 DEF LapsedBetween
<1>6. ASSUME LapsedBetween(table, S, segment, deleted, checked) = {}
      PROVE  ExclusionConstraint(kept \union rows)
  <2>. SUFFICES ASSUME NEW a \in kept \union rows, NEW b \in kept \union rows,
                       a # b, a.seat = b.seat
                PROVE  ~SegmentsOverlap(a.segment, b.segment)
    BY DEF ExclusionConstraint
  <2>1. CASE a \in kept /\ b \in kept
    BY <1>3, <2>1 DEF ExclusionConstraint
  <2>2. CASE a \in kept /\ b \in rows
    BY <1>1, <1>5, <1>6, <2>2
  <2>3. CASE a \in rows /\ b \in kept
    BY <1>1, <1>4, <1>5, <1>6, <2>3, OverlapSymmetric
  <2>4. CASE a \in rows /\ b \in rows
    BY <1>2, <2>4
  <2>. QED BY <2>1, <2>2, <2>3, <2>4
<1>7. ASSUME ExclusionConstraint(kept \union rows),
             NEW a \in LapsedBetween(table, S, segment, deleted, checked)
      PROVE  FALSE
  <2>1. /\ a \in table /\ a.seat \in S /\ SegmentsOverlap(a.segment, segment)
        /\ deleted < a.expiresAt /\ a.expiresAt <= checked /\ a.allocationType = "HELD"
    BY <1>7 DEF LapsedBetween
  <2>2. a.expiresAt \in Nat
    BY <2>1 DEF Allocation
  <2>3. a \in kept
    BY <2>1, <2>2 DEF DeleteExpiredHoldsForSeats
  <2>. DEFINE b == [holder |-> h, seat |-> a.seat, segment |-> segment,
                    allocationType |-> "HELD", expiresAt |-> expiry]
  <2>4. b \in rows /\ b.seat = a.seat
    BY <2>1 DEF HeldAllocations
  <2>5. a # b /\ b.segment = segment
    BY <1>1, <2>1, <2>2
  <2>. QED BY <1>7, <2>1, <2>3, <2>4, <2>5 DEF ExclusionConstraint
<1>. QED BY <1>6, <1>7

-------------------------------------------------------------------------------
(* Rows                                                                      *)

LEMMA NewRowsTyped ==
  ASSUME NEW holders, NEW seats, NEW h \in holders, NEW S \in SUBSET seats,
         NEW segment \in Segment, NEW expiry \in Nat
  PROVE  HeldAllocations(h, S, segment, expiry) \subseteq Allocation(holders, seats)
BY NullAssumption DEF HeldAllocations, Allocation

LEMMA ConfirmedRowsTyped ==
  ASSUME NEW holders, NEW seats, NEW h, NEW table \in SUBSET Allocation(holders, seats)
  PROVE  ConfirmByHolder(table, h) \subseteq Allocation(holders, seats)
<1>1. ASSUME NEW a \in table PROVE Confirmed(a) \in Allocation(holders, seats)
  BY NullAssumption DEF Confirmed, Allocation
<1>. QED BY <1>1 DEF ConfirmByHolder, DeleteByHolder

\* What a transaction that puts seats on hold leaves in the table.
LEMMA SeatsPutOnHold ==
  ASSUME NEW holder, NEW r, NEW table, NEW t, NEW minutes,
         PutSeatsOnHold(holder, r, table, t, minutes)
  PROVE  /\ \E deleted \in 0 .. t :
              alloc' = DeleteExpiredHoldsForSeats(table, r.seats, deleted)
                         \union HeldAllocations(holder, r.seats, r.segment, t + minutes)
         /\ ExclusionConstraint(alloc')
         /\ \A s \in r.seats : seatStatus[s] = "AVAILABLE"
BY DEF PutSeatsOnHold, AllAvailable

-------------------------------------------------------------------------------
(* Types                                                                     *)

\* A booking past its preview knows what was asked for, and a hold its expiry.
RequestsKnown ==
  \A b \in Bookings :
    /\ status[b] # "NEW" => request[b] \in Requests
    /\ status[b] = "HELD" => holdExpiresAt[b] \in Nat
    /\ status[b] = "CONFIRMED" => holdExpiresAt[b] = Null

TypeInv == TypeOK /\ RequestsKnown

LEMMA TypeInit == Init => TypeInv
BY ConstantsAssumption DEF Init, TypeInv, TypeOK, RequestsKnown, JourneyStatus,
   SeatStatus, Stage, BookingStatus

LEMMA TypeNext == TypeInv /\ [Next]_vars => TypeInv'
<1>. SUFFICES ASSUME TypeInv, [Next]_vars PROVE TypeInv'
  OBVIOUS
<1>. USE DEF TypeInv, TypeOK, RequestsKnown, Stage, BookingStatus
<1>1. ASSUME NEW b \in Bookings, PreviewHold(b) PROVE TypeInv'
  <2>1. PICK r \in Requests : request' = [request EXCEPT ![b] = r]
    BY <1>1 DEF PreviewHold
  <2>. QED BY <1>1, <2>1 DEF PreviewHold
<1>2. ASSUME NEW b \in Bookings, CreateBookingHold(b) PROVE TypeInv'
  <2>1. PICK t \in AppClock : CommitHold(b, t)
    BY <1>2 DEF CreateBookingHold
  <2>2. t \in Nat /\ t + HoldMinutes \in Nat /\ request[b] \in Requests
    BY <1>2, <2>1, ConstantsAssumption DEF AppClock, CreateBookingHold
  <2>3. request[b].seats \in SUBSET Seats /\ request[b].segment \in Segment
    BY <2>2, ConstantsAssumption
  <2>4. alloc' \subseteq Allocation(Bookings, Seats)
    BY <2>1, <2>2, <2>3, NewRowsTyped, SeatsPutOnHold
       DEF CommitHold, PlaceHold, DeleteExpiredHoldsForSeats
  <2>5. holdExpiresAt' = [holdExpiresAt EXCEPT ![b] = t + HoldMinutes]
    BY <2>1 DEF CommitHold, PlaceHold
  <2>. QED BY <1>2, <2>2, <2>4, <2>5 DEF CreateBookingHold
<1>3. ASSUME NEW b \in Bookings, RejectHold(b) PROVE TypeInv'
  BY <1>3 DEF RejectHold
<1>4. ASSUME NEW b \in Bookings, ConfirmHeld(b), paid' \in {paid, paid \union {b}},
             UNCHANGED <<now, journeyStatus, seatStatus, request, jobBatch>>
      PROVE  TypeInv'
  <2>1. alloc' \subseteq Allocation(Bookings, Seats)
    BY <1>4, ConfirmedRowsTyped DEF ConfirmHeld
  <2>. QED BY <1>4, <2>1 DEF ConfirmHeld
<1>5. ASSUME NEW b \in Bookings, PaidTooLate(b) PROVE TypeInv'
  BY <1>5 DEF PaidTooLate
<1>6. ASSUME NEW b \in Bookings, NEW target \in {"CANCELLED", "EXPIRED", "COMPLETED"},
             status[b] \in {"HELD", "CONFIRMED"}, ReleaseTo(b, target),
             jobBatch' \in SUBSET jobBatch,
             UNCHANGED <<now, journeyStatus, seatStatus, request, paid>>
      PROVE  TypeInv'
  BY <1>6 DEF ReleaseTo, DeleteByHolder
<1>7. ASSUME NEW b \in Bookings, MarkRefunded(b) PROVE TypeInv'
  BY <1>7 DEF MarkRefunded
<1>8. ASSUME NEW b \in Bookings, ExpireBooking(b) PROVE TypeInv'
  BY <1>6, <1>8 DEF ExpireBooking, ExpiredHolds
<1>9. ASSUME NEW b \in Bookings, BookingStep(b) PROVE TypeInv'
  BY <1>1, <1>2, <1>3, <1>4, <1>5, <1>6, <1>7, <1>8, <1>9
     DEF BookingStep, CompletePaidBooking, ConfirmBooking, CancelBooking, CompleteBooking
<1>10. CASE FetchExpiredHolds \/ DropRecords
  BY <1>10 DEF FetchExpiredHolds, DropRecords, ExpiredHolds
<1>11. CASE ChangeJourney
  BY <1>11, ConstantsAssumption
     DEF ChangeJourney, CancelJourney, CompleteJourney, DelayJourney, UpdateJourney,
         JourneyStatus
<1>12. ASSUME NEW s \in Seats, SetSeatStatus(s) PROVE TypeInv'
  BY <1>12, ConstantsAssumption DEF SetSeatStatus
<1>13. CASE Tick
  BY <1>13, ConstantsAssumption DEF Tick
<1>14. CASE UNCHANGED vars
  BY <1>14 DEF vars
<1>. QED BY <1>9, <1>10, <1>11, <1>12, <1>13, <1>14 DEF Next

\* Every state of the booking tables is well formed.
THEOREM TypeCorrect == Spec => []TypeOK
<1>1. Spec => []TypeInv
  BY TypeInit, TypeNext, PTL DEF Spec
<1>. QED BY <1>1, PTL DEF TypeInv

-------------------------------------------------------------------------------
(* Seats neither leak nor are double-booked in the table, whatever the clocks *)

RowsExclusive == ExclusionConstraint(alloc)

RowsInv == TypeInv /\ NoLeakedAllocations /\ RowsExclusive

LEMMA RowsInit == Init => RowsInv
BY TypeInit DEF Init, RowsInv, NoLeakedAllocations, RowsExclusive, ExclusionConstraint

\* A step that leaves the bookings and their rows alone leaves the rows right.
LEMMA RowsUnchanged ==
  RowsInv /\ TypeInv' /\ UNCHANGED <<status, request, holdExpiresAt, alloc>> => RowsInv'
BY DEF RowsInv, NoLeakedAllocations, RowsExclusive

LEMMA RowsPlaced ==
  ASSUME RowsInv, TypeInv', NEW b \in Bookings, CreateBookingHold(b)
  PROVE  RowsInv'
<1>. USE DEF RowsInv, TypeInv, TypeOK
<1>1. PICK t \in AppClock : CommitHold(b, t)
  BY DEF CreateBookingHold
<1>. DEFINE rows == HeldAllocations(b, request[b].seats, request[b].segment, t + HoldMinutes)
<1>0. PICK deleted \in 0 .. t :
        /\ alloc' = DeleteExpiredHoldsForSeats(alloc, request[b].seats, deleted) \union rows
        /\ ExclusionConstraint(alloc')
  BY <1>1, SeatsPutOnHold DEF CommitHold, PlaceHold
<1>. DEFINE kept == DeleteExpiredHoldsForSeats(alloc, request[b].seats, deleted)
<1>2. alloc' = kept \union rows /\ ExclusionConstraint(kept \union rows)
  BY <1>0
<1>3. \A a \in kept : a \in alloc /\ a.holder \in Bookings /\ a.holder # b
  BY DEF DeleteExpiredHoldsForSeats, Allocation, NoLeakedAllocations, CreateBookingHold
<1>4. /\ status' = [status EXCEPT ![b] = "HELD"]
      /\ request' = request
      /\ holdExpiresAt' = [holdExpiresAt EXCEPT ![b] = t + HoldMinutes]
  BY <1>1 DEF CreateBookingHold, CommitHold, PlaceHold
<1>5. ASSUME NEW a \in kept
      PROVE  /\ status'[a.holder] \in {"HELD", "CONFIRMED"}
             /\ a.allocationType = status'[a.holder]
             /\ a.expiresAt = holdExpiresAt'[a.holder]
             /\ a.seat \in request'[a.holder].seats
             /\ a.segment = request'[a.holder].segment
  BY <1>3, <1>4, <1>5 DEF NoLeakedAllocations
<1>6. ASSUME NEW a \in rows
      PROVE  /\ status'[a.holder] \in {"HELD", "CONFIRMED"}
             /\ a.allocationType = status'[a.holder]
             /\ a.expiresAt = holdExpiresAt'[a.holder]
             /\ a.seat \in request'[a.holder].seats
             /\ a.segment = request'[a.holder].segment
  BY <1>4, <1>6 DEF HeldAllocations
<1>7. NoLeakedAllocations'
  BY <1>2, <1>5, <1>6 DEF NoLeakedAllocations
<1>. QED BY <1>2, <1>7 DEF RowsExclusive

LEMMA RowsConfirmed ==
  ASSUME RowsInv, TypeInv', NEW b \in Bookings, ConfirmHeld(b), request' = request
  PROVE  RowsInv'
<1>. USE DEF RowsInv, TypeInv, TypeOK
<1>1. RowsExclusive'
  BY ConfirmExclusive DEF RowsExclusive, ConfirmHeld
<1>2. ASSUME NEW a \in alloc, a.holder # b
      PROVE  /\ status'[a.holder] \in {"HELD", "CONFIRMED"}
             /\ a.allocationType = status'[a.holder]
             /\ a.expiresAt = holdExpiresAt'[a.holder]
             /\ a.seat \in request'[a.holder].seats
             /\ a.segment = request'[a.holder].segment
  BY <1>2 DEF NoLeakedAllocations, ConfirmHeld, Allocation
<1>3. ASSUME NEW a \in alloc, a.holder = b
      PROVE  LET c == Confirmed(a)
             IN  /\ status'[c.holder] \in {"HELD", "CONFIRMED"}
                 /\ c.allocationType = status'[c.holder]
                 /\ c.expiresAt = holdExpiresAt'[c.holder]
                 /\ c.seat \in request'[c.holder].seats
                 /\ c.segment = request'[c.holder].segment
  BY <1>3 DEF NoLeakedAllocations, ConfirmHeld, Confirmed
<1>4. NoLeakedAllocations'
  BY <1>2, <1>3 DEF NoLeakedAllocations, ConfirmHeld, ConfirmByHolder, DeleteByHolder
<1>. QED BY <1>1, <1>4

LEMMA RowsReleased ==
  ASSUME RowsInv, TypeInv', NEW b \in Bookings, NEW target, ReleaseTo(b, target),
         request' = request
  PROVE  RowsInv'
<1>. USE DEF RowsInv, TypeInv, TypeOK
<1>1. alloc' = {a \in alloc : a.holder # b}
  BY DEF ReleaseTo, DeleteByHolder
<1>2. RowsExclusive'
  BY <1>1, SubtableExclusive DEF RowsExclusive
<1>3. NoLeakedAllocations'
  BY <1>1 DEF NoLeakedAllocations, ReleaseTo, Allocation
<1>. QED BY <1>2, <1>3

\* A booking with no rows may change its stage freely.
LEMMA RowsOtherStage ==
  ASSUME RowsInv, TypeInv', NEW b \in Bookings, status[b] \notin {"HELD", "CONFIRMED"},
         \A c \in Bookings \ {b} : status'[c] = status[c] /\ request'[c] = request[c],
         UNCHANGED <<holdExpiresAt, alloc>>
  PROVE  RowsInv'
<1>1. \A a \in alloc : a.holder \in Bookings \ {b}
  BY DEF RowsInv, TypeInv, TypeOK, NoLeakedAllocations, Allocation
<1>. QED BY <1>1 DEF RowsInv, NoLeakedAllocations, RowsExclusive

LEMMA RowsNext == RowsInv /\ [Next]_vars => RowsInv'
<1>. SUFFICES ASSUME RowsInv, [Next]_vars PROVE RowsInv'
  OBVIOUS
<1>0. TypeInv'
  BY TypeNext DEF RowsInv
<1>1. ASSUME NEW b \in Bookings, PreviewHold(b) PROVE RowsInv'
  <2>1. PICK r \in Requests : request' = [request EXCEPT ![b] = r]
    BY <1>1 DEF PreviewHold
  <2>. QED BY <1>0, <1>1, <2>1, RowsOtherStage DEF PreviewHold, RowsInv, TypeInv, TypeOK
<1>2. ASSUME NEW b \in Bookings, RejectHold(b) PROVE RowsInv'
  BY <1>0, <1>2, RowsOtherStage DEF RejectHold, RowsInv, TypeInv, TypeOK
<1>3. ASSUME NEW b \in Bookings, MarkRefunded(b) PROVE RowsInv'
  BY <1>0, <1>3, RowsOtherStage DEF MarkRefunded, RowsInv, TypeInv, TypeOK
<1>4. ASSUME NEW b \in Bookings, CompletePaidBooking(b) \/ ConfirmBooking(b) PROVE RowsInv'
  BY <1>0, <1>4, RowsConfirmed DEF CompletePaidBooking, ConfirmBooking
<1>5. ASSUME NEW b \in Bookings, CancelBooking(b) \/ CompleteBooking(b) PROVE RowsInv'
  BY <1>0, <1>5, RowsReleased DEF CancelBooking, CompleteBooking
<1>6. ASSUME NEW b \in Bookings, ExpireBooking(b) PROVE RowsInv'
  BY <1>0, <1>6, RowsReleased, RowsUnchanged DEF ExpireBooking
<1>7. ASSUME NEW b \in Bookings, BookingStep(b) PROVE RowsInv'
  BY <1>0, <1>1, <1>2, <1>3, <1>4, <1>5, <1>6, <1>7, RowsPlaced, RowsUnchanged
     DEF BookingStep, PaidTooLate
<1>8. CASE FetchExpiredHolds \/ DropRecords \/ ChangeJourney \/ Tick
           \/ (\E s \in Seats : SetSeatStatus(s)) \/ UNCHANGED vars
  BY <1>0, <1>8, RowsUnchanged
     DEF FetchExpiredHolds, DropRecords, ChangeJourney, Tick, SetSeatStatus, vars
<1>. QED BY <1>7, <1>8 DEF Next

LEMMA RowsInvariant == Spec => []RowsInv
BY RowsInit, RowsNext, PTL DEF Spec

\* No booking that is over keeps a seat, even when the clocks of the servers
\* disagree by any amount.
THEOREM SeatsDoNotLeak == Spec => []NoLeakedAllocations
BY RowsInvariant, PTL DEF RowsInv

\* The exclusion constraint refuses a hold whose seats passed the second check only
\* because of holds that lapsed between the clean-up and that check, whose bookings
\* the job has not expired yet; whenever there is such a hold, it does refuse.
THEOREM HoldRefusedIffLapsed ==
  ASSUME RowsInv, NEW b \in Bookings, status[b] = "PREVIEWED", NEW t \in AppClock,
         NEW deleted \in 0 .. t, NEW checked \in deleted .. t,
         AllAvailable(request[b],
                      DeleteExpiredHoldsForSeats(alloc, request[b].seats, deleted), checked)
  PROVE  LET r == request[b]
             lapsed == LapsedBetween(alloc, r.seats, r.segment, deleted, checked)
         IN  /\ ExclusionConstraint(
                  DeleteExpiredHoldsForSeats(alloc, r.seats, deleted)
                    \union HeldAllocations(b, r.seats, r.segment, t + HoldMinutes))
                <=> lapsed = {}
             /\ \A a \in lapsed : status[a.holder] = "HELD" /\ holdExpiresAt[a.holder] <= checked
<1>1. /\ request[b] \in Requests
      /\ alloc \in SUBSET Allocation(Bookings, Seats)
      /\ ExclusionConstraint(alloc)
  BY DEF RowsInv, RowsExclusive, TypeInv, TypeOK, RequestsKnown
<1>2. /\ request[b].seats \in SUBSET Seats
      /\ request[b].segment \in Segment
      /\ t \in Nat /\ deleted \in Nat /\ checked \in Nat /\ deleted <= checked
      /\ t + HoldMinutes \in Nat /\ checked < t + HoldMinutes
  BY <1>1, ConstantsAssumption DEF AppClock
<1>3. \A s \in request[b].seats :
        NoActiveOverlap(DeleteExpiredHoldsForSeats(alloc, request[b].seats, deleted), s,
                        request[b].segment, checked)
  BY DEF AllAvailable
<1>4. \A a \in LapsedBetween(alloc, request[b].seats, request[b].segment, deleted, checked) :
        status[a.holder] = "HELD" /\ holdExpiresAt[a.holder] <= checked
  BY DEF LapsedBetween, RowsInv, NoLeakedAllocations
<1>. QED BY <1>1, <1>2, <1>3, <1>4, InsertRefusedIffLapsed

-------------------------------------------------------------------------------
(* With one clock, no seat is sold twice                                     *)

LiveInv == RowsInv /\ LiveBookingsOwnSeats

\* The row a booking that counts owns for one of its seats.
SeatRow(b, s) ==
  [holder |-> b, seat |-> s, segment |-> request[b].segment,
   allocationType |-> status[b], expiresAt |-> holdExpiresAt[b]]

\* Two rides that count on the same cell would be two rows on one seat with
\* overlapping segments.
LEMMA OwnersAreDisjoint == LiveInv => LiveBookingsDisjoint
<1>. SUFFICES ASSUME LiveInv, NEW b \in Bookings, NEW c \in Bookings,
                     b # c, Live(b), Live(c),
                     NEW x \in BookingCells(b), x \in BookingCells(c)
              PROVE  FALSE
  BY DEF LiveBookingsDisjoint
<1>1. /\ request[b] \in Requests /\ request[c] \in Requests
      /\ request[b].segment \in Segment /\ request[c].segment \in Segment
  BY ConstantsAssumption DEF LiveInv, RowsInv, TypeInv, RequestsKnown, Live
<1>2. PICK s \in request[b].seats, l \in Legs(request[b].segment) : x = <<s, l>>
  BY DEF BookingCells
<1>3. s \in request[c].seats /\ l \in Legs(request[c].segment)
  BY <1>2 DEF BookingCells
<1>4. SegmentsOverlap(request[b].segment, request[c].segment)
  BY <1>1, <1>2, <1>3, OverlapIffSharedLeg DEF ShareLeg
<1>5. SeatRow(b, s) \in alloc /\ SeatRow(c, s) \in alloc
  BY <1>2, <1>3 DEF LiveInv, LiveBookingsOwnSeats, SeatRow
<1>6. /\ SeatRow(b, s).holder = b /\ SeatRow(c, s).holder = c
      /\ SeatRow(b, s).seat = SeatRow(c, s).seat
      /\ SeatRow(b, s).segment = request[b].segment
      /\ SeatRow(c, s).segment = request[c].segment
  BY DEF SeatRow
<1>. QED BY <1>4, <1>5, <1>6 DEF LiveInv, RowsInv, RowsExclusive, ExclusionConstraint

\* Bookings that keep their state keep their rows, unless they lapse.
LEMMA LiveKept ==
  ASSUME LiveInv, NEW c \in Bookings, Live(c)', now' >= now, now \in Nat, now' \in Nat,
         status'[c] = status[c], request'[c] = request[c],
         holdExpiresAt'[c] = holdExpiresAt[c],
         \A a \in alloc : a.holder = c /\ (a.allocationType = "HELD" => a.expiresAt > now)
                          => a \in alloc'
  PROVE  \A s \in request'[c].seats : SeatRow(c, s)' \in alloc'
<1>1. Live(c)
  BY DEF Live, LiveInv, RowsInv, TypeInv, RequestsKnown
<1>2. ASSUME NEW s \in request[c].seats PROVE SeatRow(c, s) \in alloc'
  <2>1. SeatRow(c, s) \in alloc
    BY <1>1, <1>2 DEF LiveInv, LiveBookingsOwnSeats, SeatRow
  <2>2. SeatRow(c, s).allocationType = "HELD" => SeatRow(c, s).expiresAt > now
    BY <1>1 DEF SeatRow, Live
  <2>3. SeatRow(c, s).holder = c
    BY DEF SeatRow
  <2>. QED BY <2>1, <2>2, <2>3
<1>. QED BY <1>2 DEF SeatRow

LEMMA LiveNext ==
  ASSUME MaxSkew = 0, LiveInv, [Next]_vars
  PROVE  LiveInv'
<1>. USE DEF LiveInv
<1>1. RowsInv'
  BY RowsNext
<1>2. now \in Nat /\ now' \in Nat /\ now' >= now
  <2>1. now' = now \/ now' = now + 1
    BY DEF Next, BookingStep, PreviewHold, CreateBookingHold, RejectHold,
       CompletePaidBooking, PaidTooLate, ConfirmBooking, CancelBooking, CompleteBooking,
       MarkRefunded, ExpireBooking, FetchExpiredHolds, DropRecords, ChangeJourney,
       SetSeatStatus, Tick, vars
  <2>. QED BY <1>1, <2>1, ConstantsAssumption DEF RowsInv, TypeInv, TypeOK
<1>. SUFFICES ASSUME NEW c \in Bookings, Live(c)'
              PROVE  \A s \in request'[c].seats : SeatRow(c, s)' \in alloc'
  BY <1>1 DEF LiveBookingsOwnSeats, SeatRow
<1>. USE DEF RowsInv, TypeInv, TypeOK
<1>3. CASE UNCHANGED <<status, request, holdExpiresAt, alloc>>
  BY <1>2, <1>3, LiveKept
<1>4. ASSUME NEW b \in Bookings, CreateBookingHold(b)
      PROVE  \A s \in request'[c].seats : SeatRow(c, s)' \in alloc'
  <2>1. PICK t \in AppClock : CommitHold(b, t)
    BY <1>4 DEF CreateBookingHold
  <2>2. t = now
    BY <1>2, ConstantsAssumption DEF AppClock
  <2>3. CASE c = b
    <3>1. \A s \in request[b].seats :
            [holder |-> b, seat |-> s, segment |-> request[b].segment,
             allocationType |-> "HELD", expiresAt |-> t + HoldMinutes] \in alloc'
      BY <2>1, SeatsPutOnHold DEF CommitHold, PlaceHold, HeldAllocations
    <3>. QED BY <1>4, <2>1, <2>3, <3>1 DEF CreateBookingHold, CommitHold, PlaceHold, SeatRow
  <2>4. CASE c # b
    <3>1. \A a \in alloc : (a.allocationType = "HELD" => a.expiresAt > now) => a \in alloc'
      <4>1. PICK deleted \in 0 .. t :
              DeleteExpiredHoldsForSeats(alloc, request[b].seats, deleted) \subseteq alloc'
        BY <2>1, SeatsPutOnHold DEF CommitHold, PlaceHold
      <4>. SUFFICES ASSUME NEW a \in alloc, a.allocationType = "HELD" => a.expiresAt > now
                    PROVE  a \in DeleteExpiredHoldsForSeats(alloc, request[b].seats, deleted)
        BY <4>1
      <4>2. a.allocationType = "HELD" => a.expiresAt \in Nat
        BY NullAssumption DEF Allocation
      <4>. QED BY <1>2, <2>2, <4>2 DEF DeleteExpiredHoldsForSeats
    <3>. QED BY <1>2, <1>4, <2>1, <2>4, <3>1, LiveKept DEF CreateBookingHold, CommitHold, PlaceHold
  <2>. QED BY <2>3, <2>4
<1>5. ASSUME NEW b \in Bookings, ConfirmHeld(b), request' = request
      PROVE  \A s \in request'[c].seats : SeatRow(c, s)' \in alloc'
  <2>1. CASE c = b
    <3>1. Live(b)
      BY <1>5 DEF ConfirmHeld, Live
    <3>2. ASSUME NEW s \in request[b].seats PROVE SeatRow(b, s)' \in alloc'
      <4>1. SeatRow(b, s) \in alloc /\ SeatRow(b, s).holder = b
        BY <3>1, <3>2 DEF LiveBookingsOwnSeats, SeatRow
      <4>2. Confirmed(SeatRow(b, s)) \in alloc'
        BY <1>5, <4>1 DEF ConfirmHeld, ConfirmByHolder
      <4>3. Confirmed(SeatRow(b, s)) = SeatRow(b, s)'
        BY <1>5 DEF ConfirmHeld, Confirmed, SeatRow
      <4>. QED BY <4>2, <4>3
    <3>. QED BY <1>5, <2>1, <3>2
  <2>2. CASE c # b
    <3>1. \A a \in alloc : a.holder = c => a \in alloc'
      BY <1>5, <2>2 DEF ConfirmHeld, ConfirmByHolder, DeleteByHolder
    <3>. QED BY <1>2, <1>5, <2>2, <3>1, LiveKept DEF ConfirmHeld
  <2>. QED BY <2>1, <2>2
<1>6. ASSUME NEW b \in Bookings, NEW target \in {"CANCELLED", "EXPIRED", "COMPLETED"},
             ReleaseTo(b, target), request' = request
      PROVE  \A s \in request'[c].seats : SeatRow(c, s)' \in alloc'
  <2>1. c # b
    BY <1>6 DEF ReleaseTo, Live
  <2>2. \A a \in alloc : a.holder = c => a \in alloc'
    BY <1>6, <2>1 DEF ReleaseTo, DeleteByHolder
  <2>. QED BY <1>2, <1>6, <2>1, <2>2, LiveKept DEF ReleaseTo
<1>7. ASSUME NEW b \in Bookings, PreviewHold(b) \/ RejectHold(b) \/ MarkRefunded(b)
      PROVE  \A s \in request'[c].seats : SeatRow(c, s)' \in alloc'
  <2>1. c # b
    BY <1>7 DEF PreviewHold, RejectHold, MarkRefunded, Live
  <2>2. status'[c] = status[c] /\ request'[c] = request[c]
    BY <1>7, <2>1 DEF PreviewHold, RejectHold, MarkRefunded
  <2>. QED BY <1>2, <1>7, <2>1, <2>2, LiveKept DEF PreviewHold, RejectHold, MarkRefunded
<1>8. ASSUME NEW b \in Bookings, BookingStep(b)
      PROVE  \A s \in request'[c].seats : SeatRow(c, s)' \in alloc'
  BY <1>3, <1>4, <1>5, <1>6, <1>7, <1>8
     DEF BookingStep, PaidTooLate, CompletePaidBooking, ConfirmBooking, CancelBooking,
         CompleteBooking, ExpireBooking
<1>. QED BY <1>3, <1>8
        DEF Next, FetchExpiredHolds, DropRecords, ChangeJourney, SetSeatStatus, Tick, vars

LEMMA LiveInvariant ==
  ASSUME MaxSkew = 0
  PROVE  Spec => []LiveInv
<1>1. Init => LiveInv
  BY RowsInit DEF Init, LiveInv, LiveBookingsOwnSeats, Live
<1>2. LiveInv /\ [Next]_vars => LiveInv'
  BY LiveNext
<1>. QED BY <1>1, <1>2, PTL DEF Spec

\* A booking that counts never loses a row of the table to anyone.
THEOREM RowsStayWithTheirBooking ==
  ASSUME MaxSkew = 0
  PROVE  Spec => []LiveBookingsOwnSeats
BY LiveInvariant, PTL DEF LiveInv

\* No seat is sold twice on any leg, when the application servers and the
\* database read the same clock.
THEOREM NoDoubleSale ==
  ASSUME MaxSkew = 0
  PROVE  Spec => []LiveBookingsDisjoint
BY LiveInvariant, OwnersAreDisjoint, PTL

-------------------------------------------------------------------------------
(* SeatBooking implements SeatLedger                                         *)

LEMMA LedgerInit == Init => Ledger!Init
BY DEF Init, Ledger!Init, LiveCells, Live

\* A step after which nobody counts who did not before releases lots.
LEMMA LedgerRelease ==
  ASSUME \A c \in Bookings : Live(c)' => Live(c) /\ BookingCells(c)' = BookingCells(c)
  PROVE  Ledger!Next
<1>. DEFINE H == {c \in Bookings : ~Live(c)'}
<1>1. Ledger!Release(H)
  BY DEF Ledger!Release, LiveCells
<1>. QED BY <1>1 DEF Ledger!Next

\* A hold is stored: its booking claims its lot.
LEMMA LedgerClaim ==
  ASSUME MaxSkew = 0, LiveInv, LiveBookingsDisjoint', NEW b \in Bookings, CreateBookingHold(b)
  PROVE  Ledger!Next
<1>. USE DEF LiveInv, RowsInv, TypeInv, TypeOK
<1>1. PICK t \in AppClock : CommitHold(b, t)
  BY DEF CreateBookingHold
<1>2. t = now /\ now \in Nat
  BY ConstantsAssumption DEF AppClock
<1>3. /\ status' = [status EXCEPT ![b] = "HELD"]
      /\ holdExpiresAt' = [holdExpiresAt EXCEPT ![b] = now + HoldMinutes]
      /\ UNCHANGED <<now, request>>
  BY <1>1, <1>2 DEF CreateBookingHold, CommitHold, PlaceHold
<1>4. /\ Live(b)' /\ ~Live(b)
      /\ \A c \in Bookings \ {b} : Live(c)' <=> Live(c)
      /\ \A c \in Bookings : BookingCells(c)' = BookingCells(c)
  BY <1>2, <1>3, ConstantsAssumption DEF Live, CreateBookingHold, BookingCells
<1>5. BookingCells(b) \in {r.seats \X Legs(r.segment) : r \in Requests}
  BY DEF RequestsKnown, BookingCells, CreateBookingHold
<1>6. \A c \in Bookings : LiveCells[c] \intersect BookingCells(b) = {}
  BY <1>4 DEF LiveCells, LiveBookingsDisjoint
<1>7. LiveCells[b] = {} /\ LiveCells' = [LiveCells EXCEPT ![b] = BookingCells(b)]
  BY <1>4 DEF LiveCells
<1>8. Ledger!Claim(b, BookingCells(b))
  BY <1>6, <1>7 DEF Ledger!Claim, Ledger!Free
<1>. QED BY <1>5, <1>8 DEF Ledger!Next

LEMMA LedgerNext ==
  ASSUME MaxSkew = 0, LiveInv, TypeInv', LiveBookingsDisjoint', [Next]_vars
  PROVE  [Ledger!Next]_LiveCells
<1>. USE DEF LiveInv, RowsInv, TypeInv, TypeOK
<1>1. ASSUME UNCHANGED <<now, status, request, holdExpiresAt>> PROVE Ledger!Next
  BY <1>1, LedgerRelease DEF Live, BookingCells
<1>2. CASE Tick
  BY <1>2, LedgerRelease, NullAssumption, ConstantsAssumption
     DEF Tick, Live, BookingCells, RequestsKnown
<1>3. ASSUME NEW b \in Bookings, PreviewHold(b) \/ RejectHold(b) \/ MarkRefunded(b)
      PROVE  Ledger!Next
  <2>1. \A c \in Bookings \ {b} : status'[c] = status[c] /\ request'[c] = request[c]
    BY <1>3 DEF PreviewHold, RejectHold, MarkRefunded
  <2>2. ~Live(b)' /\ UNCHANGED <<now, holdExpiresAt>>
    BY <1>3 DEF PreviewHold, RejectHold, MarkRefunded, Live
  <2>. QED BY <2>1, <2>2, LedgerRelease DEF Live, BookingCells
<1>4. ASSUME NEW b \in Bookings, ConfirmHeld(b), UNCHANGED <<now, request>> PROVE Ledger!Next
  BY <1>4, LedgerRelease DEF ConfirmHeld, Live, BookingCells
<1>5. ASSUME NEW b \in Bookings, NEW target \in {"CANCELLED", "EXPIRED", "COMPLETED"},
             ReleaseTo(b, target), UNCHANGED <<now, request>>
      PROVE  Ledger!Next
  BY <1>5, LedgerRelease DEF ReleaseTo, Live, BookingCells
<1>6. ASSUME NEW b \in Bookings, BookingStep(b) PROVE Ledger!Next
  BY <1>1, <1>3, <1>4, <1>5, <1>6, LedgerClaim
     DEF BookingStep, PaidTooLate, CompletePaidBooking, ConfirmBooking, CancelBooking,
         CompleteBooking, ExpireBooking
<1>7. CASE FetchExpiredHolds \/ DropRecords \/ ChangeJourney
           \/ (\E s \in Seats : SetSeatStatus(s)) \/ UNCHANGED vars
  BY <1>1, <1>7 DEF FetchExpiredHolds, DropRecords, ChangeJourney, SetSeatStatus, vars
<1>. QED BY <1>2, <1>6, <1>7 DEF Next

\* Every behaviour of the bookings is one of the ledger: a seat on a leg passes
\* from one booking to another only after the first stopped counting on it.
THEOREM BookingImplementsLedger ==
  ASSUME MaxSkew = 0
  PROVE  Spec => ImplementsLedger
<1>1. Spec => []LiveInv
  BY LiveInvariant
<1>2. LiveInv => TypeInv
  BY DEF LiveInv, RowsInv
<1>3. LiveInv /\ TypeInv' /\ LiveBookingsDisjoint' /\ [Next]_vars => [Ledger!Next]_LiveCells
  BY LedgerNext
<1>. QED BY <1>1, <1>2, <1>3, LedgerInit, OwnersAreDisjoint, PTL
        DEF Spec, ImplementsLedger, Ledger!Spec

\* Whatever an administrator does between a preview and its commit, a hold is
\* placed only on seats that are AVAILABLE when it commits.
THEOREM BlockedSeatsStayUnsold == Spec => BlockedSeatsNotSold
<1>1. ASSUME [Next]_vars, NEW b \in Bookings, PlacesHold(b), TypeInv
      PROVE  \A s \in request[b].seats : seatStatus[s] = "AVAILABLE"
  <2>1. ASSUME NEW c \in Bookings, CreateBookingHold(c)
        PROVE  \A s \in request[b].seats : seatStatus[s] = "AVAILABLE"
    <3>1. c = b
      BY <1>1, <2>1 DEF CreateBookingHold, PlacesHold, TypeInv, TypeOK
    <3>. QED BY <2>1, <3>1, SeatsPutOnHold DEF CreateBookingHold, CommitHold, PlaceHold
  <2>2. \E c \in Bookings : CreateBookingHold(c)
    BY <1>1 DEF PlacesHold, TypeInv, TypeOK, Next, BookingStep, PreviewHold, RejectHold,
       CompletePaidBooking, PaidTooLate, ConfirmBooking, ConfirmHeld, CancelBooking,
       CompleteBooking, ReleaseTo, MarkRefunded, ExpireBooking, FetchExpiredHolds,
       DropRecords, ChangeJourney, SetSeatStatus, Tick, vars
  <2>. QED BY <2>1, <2>2
<1>2. TypeInv /\ [Next]_vars =>
        [\A b \in Bookings :
           PlacesHold(b) => \A s \in request[b].seats : seatStatus[s] = "AVAILABLE"]_vars
  BY <1>1
<1>3. Spec => []TypeInv
  BY TypeInit, TypeNext, PTL DEF Spec
<1>. QED BY <1>2, <1>3, PTL DEF Spec, BlockedSeatsNotSold

\* POST confirm never yields a ticket without its seats, however far the clocks
\* are apart and whoever cleans up lapsed holds meanwhile.
THEOREM RouteConfirmationsOwnSeats == Spec => RouteConfirmationOwnsSeats
<1>1. ASSUME TypeInv, [Next]_vars, NEW b \in paid, status[b] = "HELD", status'[b] = "CONFIRMED"
      PROVE  \A s \in request[b].seats :
               \E a \in alloc' : a.holder = b /\ a.seat = s /\ a.allocationType = "CONFIRMED"
  <2>1. b \in Bookings
    BY <1>1 DEF TypeInv, TypeOK
  <2>2. ConfirmBooking(b)
    <3>1. ASSUME NEW c \in Bookings, BookingStep(c) PROVE ConfirmBooking(b)
      BY <1>1, <2>1, <3>1 DEF TypeInv, TypeOK, BookingStep, PreviewHold, CreateBookingHold,
         RejectHold, CompletePaidBooking, PaidTooLate, ConfirmBooking, ConfirmHeld,
         CancelBooking, CompleteBooking, ReleaseTo, MarkRefunded, ExpireBooking
    <3>. QED
      BY <1>1, <3>1 DEF Next, FetchExpiredHolds, DropRecords, ChangeJourney, SetSeatStatus,
         Tick, vars
  <2>3. PICK t \in AppClock : AllocationsConfirmable(b, t)
    BY <2>2 DEF ConfirmBooking
  <2>. SUFFICES ASSUME NEW s \in request[b].seats
                PROVE  \E a \in alloc' : a.holder = b /\ a.seat = s
                                         /\ a.allocationType = "CONFIRMED"
    OBVIOUS
  <2>4. PICK a \in alloc : a.holder = b /\ a.seat = s
    BY <2>3 DEF AllocationsConfirmable
  <2>5. Confirmed(a) \in alloc'
    BY <2>2, <2>4 DEF ConfirmBooking, ConfirmHeld, ConfirmByHolder
  <2>. QED BY <2>4, <2>5 DEF Confirmed
<1>2. TypeInv /\ [Next]_vars =>
        [\A b \in paid :
           status[b] = "HELD" /\ status'[b] = "CONFIRMED" =>
             \A s \in request[b].seats :
               \E a \in alloc' : a.holder = b /\ a.seat = s /\ a.allocationType = "CONFIRMED"]_vars
  BY <1>1
<1>3. Spec => []TypeInv
  BY TypeInit, TypeNext, PTL DEF Spec
<1>. QED BY <1>2, <1>3, PTL DEF Spec, RouteConfirmationOwnsSeats
===============================================================================
