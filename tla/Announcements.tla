----------------------------- MODULE Announcements -----------------------------
(***************************************************************************)
(* What passengers are told: events of bookings, payments, offers and the   *)
(* departure of a journey that call the notification service once their     *)
(* transaction has committed, what it reads then and the notifications it   *)
(* queues.  Translated from modules/notifications/ (service and repository) *)
(* and the callbacks of booking-status.service.js, payment.service.js,      *)
(* waitlist-offer.service.js and journey.service.js.                        *)
(*                                                                          *)
(* A callback reads and inserts in one step: only a key that is in use      *)
(* already matters to what it inserts.  Callbacks live in the memory of the *)
(* server.                                                                  *)
(* Preferences are left out: no code writes them.                           *)
(***************************************************************************)
EXTENDS Integers

CONSTANTS
  Booked,          \* bookings of the journey
  Entrant,         \* waitlist entries of the journey
  Contacts,        \* what a booking may have as its contact: channel -> destination
  EntrantContact,  \* entry -> contact
  NoDestination,
  Malformed,       \* destinations that validateDestination rejects
  EnabledChannels, \* channelEnabled
  MaxDelays,       \* bound on delays of the journey
  MaxOffers        \* bound on offers to an entry

AllChannels == {"EMAIL", "SMS"}

ASSUME AnnouncementsAssumption ==
  /\ EnabledChannels \subseteq AllChannels
  /\ MaxDelays \in Nat /\ MaxOffers \in Nat

VARIABLES
  contact,       \* contact of a booking, or of its user
  bookingStatus, \* bookings.status
  paidBookings,  \* bookings whose payment is PAID
  offer,         \* waitlist_entries.status, and the offer it is, or was last
  delays,        \* updates of the journey by delayJourney
  delayed,       \* delay -> bookings that were confirmed when it committed
  calls,         \* callbacks of committed transactions that have not read yet
  notices,       \* rows of notifications
  forgotten      \* events whose callback was lost when the server stopped

announcementVars == <<contact, bookingStatus, paidBookings, offer, delays, delayed, calls,
                      notices, forgotten>>

\* The version tells the delays of a journey, and the offers to an entry, apart.
Event(kind, subject, version) == [kind |-> kind, subject |-> subject, version |-> version]
Delay(v) == Event("journeyDelay", "journey", v)
Offer(e) == Event("waitlistOffer", e, offer[e].number)
Events ==
  {Event(k, b, 0) : k \in {"bookingConfirmation", "bookingCancellation", "paymentSuccess"},
                    b \in Booked}
    \union {Event("waitlistOffer", e, n) : e \in Entrant, n \in 1 .. MaxOffers}
    \union {Delay(v) : v \in 1 .. MaxDelays}
Destinations == {c[ch] : c \in Contacts \union {EntrantContact[e] : e \in Entrant},
                         ch \in AllChannels}
Notice == [event : Events, channel : AllChannels, destination : Destinations \ Malformed]

AnnouncementsTypeOK ==
  /\ contact \in [Booked -> Contacts]
  /\ bookingStatus \in [Booked -> {"HELD", "CONFIRMED", "CANCELLED"}]
  /\ paidBookings \subseteq Booked
  /\ offer \in [Entrant -> [status : {"WAITING", "OFFERED", "CONVERTED"}, number : 0 .. MaxOffers]]
  /\ delays \in 0 .. MaxDelays /\ delayed \in [1 .. MaxDelays -> SUBSET Booked]
  /\ calls \subseteq Events /\ forgotten \subseteq Events
  /\ notices \subseteq Notice

AnnouncementsInit ==
  /\ contact \in [Booked -> Contacts]
  /\ bookingStatus = [b \in Booked |-> "HELD"]
  /\ paidBookings = {}
  /\ offer = [e \in Entrant |-> [status |-> "WAITING", number |-> 0]]
  /\ delays = 0 /\ delayed = [v \in 1 .. MaxDelays |-> {}]
  /\ calls = {} /\ notices = {} /\ forgotten = {}

-------------------------------------------------------------------------------
(* Transactions that commit                                                  *)

\* resolvePaidBooking: the booking's callback, then the payment's.
ConfirmPaid(b) ==
  /\ bookingStatus[b] = "HELD"
  /\ bookingStatus' = [bookingStatus EXCEPT ![b] = "CONFIRMED"]
  /\ paidBookings' = paidBookings \union {b}
  /\ calls' = calls \union {Event("bookingConfirmation", b, 0), Event("paymentSuccess", b, 0)}
  /\ UNCHANGED <<contact, offer, delays, delayed, notices, forgotten>>

CancelBooked(b) ==
  /\ bookingStatus[b] \in {"HELD", "CONFIRMED"}
  /\ bookingStatus' = [bookingStatus EXCEPT ![b] = "CANCELLED"]
  /\ calls' = calls \union {Event("bookingCancellation", b, 0)}
  /\ UNCHANGED <<contact, paidBookings, offer, delays, delayed, notices, forgotten>>

\* createRefund takes the payment of a cancelled booking out of PAID.
RefundPaid(b) ==
  /\ bookingStatus[b] = "CANCELLED" /\ b \in paidBookings
  /\ paidBookings' = paidBookings \ {b}
  /\ UNCHANGED <<contact, bookingStatus, offer, delays, delayed, calls, notices, forgotten>>

\* offerSeats, of an entry that was put back in the queue too
OfferSeatsTo(e) ==
  /\ offer[e].status = "WAITING" /\ offer[e].number < MaxOffers
  /\ offer' = [offer EXCEPT ![e] = [status |-> "OFFERED", number |-> @.number + 1]]
  /\ calls' = calls \union {Offer(e)'}
  /\ UNCHANGED <<contact, bookingStatus, paidBookings, delays, delayed, notices, forgotten>>

\* expireOffer with requeueExpired, or acceptOffer: neither event is announced.
OfferEnds(e) ==
  /\ offer[e].status = "OFFERED"
  /\ \E status \in {"WAITING", "CONVERTED"} : offer' = [offer EXCEPT ![e].status = status]
  /\ UNCHANGED <<contact, bookingStatus, paidBookings, delays, delayed, calls, notices, forgotten>>

DelayDeparture ==
  /\ delays < MaxDelays
  /\ delays' = delays + 1
  /\ delayed' = [delayed EXCEPT ![delays'] = {b \in Booked : bookingStatus[b] = "CONFIRMED"}]
  /\ calls' = calls \union {Delay(delays')}
  /\ UNCHANGED <<contact, bookingStatus, paidBookings, offer, notices, forgotten>>

-------------------------------------------------------------------------------
(* The notification service                                                  *)

\* resolveDestinations of a contact, the malformed ones rejected one by one
Reached(to, channels) ==
  {[channel |-> ch, destination |-> to[ch]] : ch \in {c \in channels :
                                      to[c] \notin Malformed \union {NoDestination}}}

Contacted(bookings) ==
  {[channel |-> ch, destination |-> contact[b][ch]] : b \in bookings, ch \in AllChannels}

\* sendJourneyDelay: one malformed destination and nobody is told.
DelayTargets ==
  LET targets == {t \in Contacted({b \in Booked : bookingStatus[b] = "CONFIRMED"}) :
                    t.destination # NoDestination}
  IN {t \in targets : \A u \in targets : u.destination \notin Malformed}

\* sendBookingConfirmation, which wants the booking confirmed when it reads
ConfirmationTargets(b) == {t \in Reached(contact[b], AllChannels) : bookingStatus[b] = "CONFIRMED"}

\* sendBookingCancellation
CancellationTargets(b) == Reached(contact[b], AllChannels)

\* sendPaymentSuccess, which wants the payment PAID when it reads
PaymentTargets(b) == {t \in Reached(contact[b], {"EMAIL"}) : b \in paidBookings}

\* sendWaitlistOffer
OfferTargets(e) == {t \in Reached(EntrantContact[e], EnabledChannels) : offer[e].status = "OFFERED"}

\* What the callback of an event finds to send.
Targets(call) ==
  CASE call.kind = "bookingConfirmation" -> ConfirmationTargets(call.subject)
    [] call.kind = "bookingCancellation" -> CancellationTargets(call.subject)
    [] call.kind = "paymentSuccess" -> PaymentTargets(call.subject)
    [] call.kind = "waitlistOffer" -> OfferTargets(call.subject)
    [] call.kind = "journeyDelay" -> DelayTargets

\* An offer is read anew: a later one may have taken its place.
EventRead(call) == IF call.kind = "waitlistOffer" THEN Offer(call.subject) ELSE call

\* A mistake: an entry is told of one offer only, a journey of one delay.
KeyOfSubject(n) ==
  <<n.event.kind, n.event.subject, n.channel,
    IF n.event.kind = "journeyDelay" THEN n.destination ELSE NoDestination>>

DeduplicationKey(n) ==
  <<n.event, n.channel,
    IF n.event.kind = "journeyDelay" THEN n.destination ELSE NoDestination>>

\* queueNotification, or the row that has the key already
RunCallback(call) ==
  LET rows == {[event |-> EventRead(call), channel |-> t.channel, destination |-> t.destination] :
                 t \in Targets(call)}
  IN /\ call \in calls
     /\ calls' = calls \ {call}
     /\ notices' = notices \union
          {n \in rows : \A r \in notices : DeduplicationKey(r) # DeduplicationKey(n)}
     /\ UNCHANGED <<contact, bookingStatus, paidBookings, offer, delays, delayed, forgotten>>

StopServer ==
  /\ calls # {}
  /\ forgotten' = forgotten \union calls
  /\ calls' = {}
  /\ UNCHANGED <<contact, bookingStatus, paidBookings, offer, delays, delayed, notices>>

AnnouncementsNext ==
  \/ \E b \in Booked : ConfirmPaid(b) \/ CancelBooked(b) \/ RefundPaid(b)
  \/ \E e \in Entrant : OfferSeatsTo(e) \/ OfferEnds(e)
  \/ \E call \in calls : RunCallback(call)
  \/ DelayDeparture \/ StopServer

AnnouncementsSpec == AnnouncementsInit /\ [][AnnouncementsNext]_announcementVars

-------------------------------------------------------------------------------
(* Properties                                                                *)

\* The callback of the event has come to its end.
Announced(event) == event \notin calls \union forgotten

Told(event, to, channels) ==
  \A t \in Reached(to, channels) :
    \E n \in notices : /\ n.event = event /\ n.channel = t.channel
                       /\ event.kind = "journeyDelay" => n.destination = t.destination

\* Once callbacks have run, whoever has a confirmed or cancelled booking, a payment
\* that is kept, an offer that stands or a departure that was put off, again too,
\* has a notification of it in the queue on every channel that reaches him, unless
\* the server stopped before; of a delay, only if no contact of the journey is
\* malformed (notification.service.js:384 and waitlist-offer.service.js:95).
EventsAreAnnounced ==
  /\ \A b \in Booked :
       /\ bookingStatus[b] = "CONFIRMED" /\ Announced(Event("bookingConfirmation", b, 0))
          => Told(Event("bookingConfirmation", b, 0), contact[b], AllChannels)
       /\ bookingStatus[b] = "CANCELLED" /\ Announced(Event("bookingCancellation", b, 0))
          => Told(Event("bookingCancellation", b, 0), contact[b], AllChannels)
       /\ b \in paidBookings /\ Announced(Event("paymentSuccess", b, 0))
          => Told(Event("paymentSuccess", b, 0), contact[b], {"EMAIL"})
  /\ \A e \in Entrant :
       offer[e].status = "OFFERED" /\ Announced(Offer(e))
       => Told(Offer(e), EntrantContact[e], EnabledChannels)
  /\ \A v \in 1 .. delays :
       Announced(Delay(v)) /\ (\A t \in Contacted(Booked) : t.destination \notin Malformed)
       => \A b \in delayed[v] : bookingStatus[b] = "CONFIRMED"
                                => Told(Delay(v), contact[b], AllChannels)
===============================================================================
