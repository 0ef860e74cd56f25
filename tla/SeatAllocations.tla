---------------------------- MODULE SeatAllocations ----------------------------
(***************************************************************************)
(* The table active_seat_allocations of one journey, as a set of rows, and  *)
(* the statements the services run on it (allocation.repository.js,         *)
(* availability.repository.js, migrations 011 and 021).  A row belongs to a *)
(* holder: a booking, through its booking seat, or a waitlist entry.        *)
(***************************************************************************)
EXTENDS Segments

CONSTANT Null                 \* SQL NULL

ASSUME NullAssumption == Null \notin Nat

\* One row; the CHECKs of 011 and validateAllocation: HELD rows expire, others do not.
Allocation(holders, seats) ==
  {a \in [holder : holders, seat : seats, segment : Segment,
          allocationType : {"HELD", "CONFIRMED"}, expiresAt : Nat \union {Null}] :
     a.allocationType = "HELD" <=> a.expiresAt # Null}

\* A row still blocks its seat at clock reading t.
Active(a, t) ==
  \/ a.allocationType = "CONFIRMED"
  \/ a.allocationType = "HELD" /\ a.expiresAt > t

Overlapping(table, seat, segment) ==
  {a \in table : a.seat = seat /\ SegmentsOverlap(a.segment, segment)}

\* No active allocation on the seat meets the segment.
NoActiveOverlap(table, seat, segment, t) ==
  \A a \in Overlapping(table, seat, segment) : ~Active(a, t)

\* Two mistakes in the clean-up: every hold goes, or holds go a minute early.
DeleteAnyHoldForSeats(table, seats, t) ==
  {a \in table : ~(a.seat \in seats /\ a.allocationType = "HELD")}

DeleteHoldsEarly(table, seats, t) ==
  {a \in table : ~(a.seat \in seats /\ a.allocationType = "HELD" /\ a.expiresAt <= t + 1)}

\* Holds of these seats that have lapsed at t, whoever owns them.
DeleteExpiredHoldsForSeats(table, seats, t) ==
  {a \in table : ~(a.seat \in seats /\ a.allocationType = "HELD" /\ a.expiresAt <= t)}

\* A mistake: rows for the first leg of the ride only.
HeldFirstLeg(holder, seats, segment, expiresAt) ==
  {[holder |-> holder, seat |-> s,
    segment |-> [originSequence |-> segment.originSequence,
                 destinationSequence |-> segment.originSequence + 1],
    allocationType |-> "HELD", expiresAt |-> expiresAt] : s \in seats}

\* The rows one hold inserts, one per seat.
HeldAllocations(holder, seats, segment, expiresAt) ==
  {[holder |-> holder, seat |-> s, segment |-> segment,
    allocationType |-> "HELD", expiresAt |-> expiresAt] : s \in seats}

\* prevent_overlapping_seat_allocations: an INSERT that breaks it is refused
\* (one holder never has two rows on one seat, so rows differ by holder).
ExclusionConstraint(table) ==
  \A a, b \in table :
    a # b /\ a.seat = b.seat => ~SegmentsOverlap(a.segment, b.segment)

DeleteByHolder(table, holder) == {a \in table : a.holder # holder}

Confirmed(a) ==
  [holder |-> a.holder, seat |-> a.seat, segment |-> a.segment,
   allocationType |-> "CONFIRMED", expiresAt |-> Null]

ConfirmByHolder(table, holder) ==
  DeleteByHolder(table, holder)
    \union {Confirmed(a) : a \in {b \in table : b.holder = holder}}

===============================================================================
