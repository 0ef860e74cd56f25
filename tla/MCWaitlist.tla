------------------------------- MODULE MCWaitlist -------------------------------
(***************************************************************************)
(* Small instances of Waitlist.                                             *)
(***************************************************************************)
EXTENDS Waitlist, TLC

CONSTANTS b1, b2, s1, s2, e1, e2, u1, u2

Ride(origin, destination) ==
  [originSequence |-> origin, destinationSequence |-> destination]

\* One seat: two users wait for the whole trip.
MCWishes ==
  e1 :> [user |-> u1, passengerCount |-> 1, segment |-> Ride(0, 2)]
    @@ e2 :> [user |-> u2, passengerCount |-> 1, segment |-> Ride(0, 2)]

MCRequests == {[seats |-> {s1}, segment |-> Ride(0, 2)]}

\* Two seats: a user waits for a party of two.
MCPartyWishes ==
  e1 :> [user |-> u1, passengerCount |-> 2, segment |-> Ride(0, 1)]

MCPartyRequests ==
  {[seats |-> {s1}, segment |-> Ride(0, 1)], [seats |-> {s1, s2}, segment |-> Ride(0, 1)]}

\* The window closes before the clock's bound.
MCWindow == 0 .. 1

\* The entries differ in their users only, and users are only compared.
EntrySymmetry == Permutations(Bookings) \union Permutations(Entries)
===============================================================================
