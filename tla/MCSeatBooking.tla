----------------------------- MODULE MCSeatBooking -----------------------------
(***************************************************************************)
(* Small instances of SeatBooking: two seats, stations 0, 1 and 2.          *)
(***************************************************************************)
EXTENDS SeatBooking, TLC

CONSTANTS b1, b2, b3, s1, s2

Ride(origin, destination) ==
  [originSequence |-> origin, destinationSequence |-> destination]

\* A whole trip, each half of it (adjacent segments), and a party of two.
MCRequests ==
  {[seats |-> {s1}, segment |-> Ride(0, 2)],
   [seats |-> {s1}, segment |-> Ride(0, 1)],
   [seats |-> {s1, s2}, segment |-> Ride(1, 2)]}

\* Enough for one hold to delete part of another's rows.
MCTwoRequests ==
  {[seats |-> {s1}, segment |-> Ride(0, 2)],
   [seats |-> {s1, s2}, segment |-> Ride(1, 2)]}

MCWindow == 0 .. 2

BookingSymmetry == Permutations(Bookings)
===============================================================================
