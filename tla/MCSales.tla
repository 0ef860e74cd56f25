-------------------------------- MODULE MCSales --------------------------------
(***************************************************************************)
(* Small instances of the waitlist, of the views of the seats and of what   *)
(* is announced.  A behaviour is one of these while the others rest.        *)
(***************************************************************************)
EXTENDS MCWaitlist, Availability, Announcements

CONSTANTS a1, a2, r3, k1, k2, h1, o1, n1

VARIABLE part

\* Two seats in a reserved coach, one in a coach without reservations.
MCCoachOf == a1 :> k1 @@ a2 :> k1 @@ r3 :> k2
MCCoachClass == k1 :> "FIRST" @@ k2 :> "SECOND"

\* Bookings close when the clock reaches its bound, or never.
MCJourneyRows ==
  {[status |-> s, opens |-> Null, closes |-> c, departs |-> 1] :
     s \in {"SCHEDULED", "BOARDING", "CANCELLED"}, c \in {Null, 1}}

MCBoarding == {0, 1}
MCAlighting == {1, 2}

\* The journey whose seats nobody looks at.
AvailabilityRests ==
  /\ journey = [status |-> "CANCELLED", opens |-> Null, closes |-> Null, departs |-> 1]
  /\ rowStatus = [r \in SeatRow |-> "AVAILABLE"]
  /\ coachOpen = CoachRow /\ activeSeat = SeatRow
  /\ table = {} /\ clock = 0

\* One e-mail address with a telephone number as it is dialled at home, the same
\* address alone, one number alone.
MCContacts ==
  {("EMAIL" :> "a@x" @@ "SMS" :> "077"), ("EMAIL" :> "a@x" @@ "SMS" :> Null),
   ("EMAIL" :> Null @@ "SMS" :> "+94")}
MCEntrantContact == n1 :> ("EMAIL" :> "b@x" @@ "SMS" :> "+95")

\* A journey whose other bookings were cancelled before the server stopped, whose
\* entry was served, and that was delayed n times before it was booked.
Journey(bookings, entry, n) ==
  /\ contact \in [Booked -> Contacts]
  /\ bookingStatus = [b \in Booked |-> IF b \in bookings THEN "HELD" ELSE "CANCELLED"]
  /\ paidBookings = {}
  /\ offer = [e \in Entrant |-> [status |-> entry, number |-> 0]]
  /\ delays = n /\ delayed = [v \in 1 .. MaxDelays |-> {}]
  /\ calls = {} /\ notices = {}
  /\ forgotten = {Event("bookingCancellation", b, 0) : b \in Booked \ bookings}

AnnouncementsRest ==
  /\ Journey({}, "CONVERTED", MaxDelays)
  /\ contact = [b \in Booked |-> CHOOSE c \in Contacts : c["SMS"] = Null]

\* Two bookings of one e-mail address and one more delay; one booking and all
\* delays; offers.
AnnouncementsStart ==
  \/ /\ Journey(Booked, "CONVERTED", MaxDelays - 1)
     /\ \A b \in Booked : contact[b]["EMAIL"] = "a@x"
  \/ \E b \in Booked : Journey({b}, "CONVERTED", 0)
  \/ Journey({}, "WAITING", MaxDelays)

MCInit ==
  /\ WaitlistInit
  /\ \/ part = "waitlist" /\ AvailabilityRests /\ AnnouncementsRest
     \/ part = "views" /\ AvailabilityInit /\ AnnouncementsRest
     \/ part = "announcements" /\ AvailabilityRests /\ AnnouncementsStart

\* In the waitlist a delayed journey is open as one on schedule is, and a cancelled
\* one closed as one that is completed, which allows more.
MCNext ==
  /\ part' = part
  /\ \/ /\ part = "waitlist" /\ WaitlistNext
        /\ journeyStatus' \in {"SCHEDULED", "COMPLETED"}
        /\ UNCHANGED <<availabilityVars, announcementVars>>
     \/ /\ part = "views" /\ AvailabilityNext
        /\ UNCHANGED <<allVars, announcementVars>>
     \/ /\ part = "announcements" /\ AnnouncementsNext
        /\ UNCHANGED <<allVars, availabilityVars>>

salesVars == <<part, allVars, availabilityVars, announcementVars>>

MCSpec == MCInit /\ [][MCNext]_salesVars

\* The parts at rest keep their first state.
SalesTypeOK ==
  /\ part = "waitlist" => WaitlistTypeOK
  /\ part = "views" => AvailabilityTypeOK
  /\ part = "announcements" => AnnouncementsTypeOK

\* Seats of a coach and bookings of a journey are alike.
MCSymmetry == EntrySymmetry \union Permutations({a1, a2})
===============================================================================
