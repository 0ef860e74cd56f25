----------------------------- MODULE PassengerPages -----------------------------
(***************************************************************************)
(* A passenger without an account buys tickets in one tab of a browser:     *)
(* seats, passengers, payment, and what the server does with the requests   *)
(* of these pages, idempotency keys included.  Translated from the          *)
(* frontend's SeatSelectionView, BookingPageView and PaymentPageView with   *)
(* their stores and hooks, and from the backend's payment.service,          *)
(* idempotency.service, bank-slip.service and guest-booking.middleware.     *)
(*                                                                          *)
(* A page that is opened is a visit and has a key of its own.  A request    *)
(* and its answer are in flight while the passenger goes on; an answer acts *)
(* although its page has been left, as the stores outlive pages.  Stripe's  *)
(* intent and the answer kept for a key come after the transaction; by then *)
(* the browser may have given up (after 15 s, api-client.ts).               *)
(***************************************************************************)
EXTENDS Rows, FiniteSets, Integers

CONSTANTS
  SeatChoice,      \* seats of the journey
  Party,      \* seats asked for
  MaxTrips,   \* bound on bookings
  MaxVisits,  \* bound on pages opened
  MaxPayments \* bound on payment attempts

VARIABLES
  view,      \* the page that is open, and what it alone remembers
  flow,      \* payment-flow store
  selected,  \* seat-selection store
  draft,     \* selectedSeatIds of the booking-draft store
  offered,   \* seats the map shows as AVAILABLE
  accesses,   \* bookings whose access token the browser has
  trips,     \* booking -> its status and seats
  taken,     \* seats of other passengers
  payments,  \* payment -> its row
  keys,      \* rows of idempotency_records
  creating,  \* payments whose request goes on after its transaction
  posts,     \* requests that travel to the server
  answers,   \* answers that travel back
  named,     \* payments that answers to a key have named
  slips      \* slips stored, and the page they were chosen on

tabVars == <<view, flow, selected, draft, offered, accesses>>
recordVars == <<trips, taken, payments, keys, creating, named, slips>>
passengerVars == <<tabVars, recordVars, posts, answers>>

PaymentMethod == {"CARD", "BANK_SLIP"}
Trip == 1 .. MaxTrips
PaymentId == 1 .. MaxPayments
Visit == 1 .. MaxVisits

Free == SeatChoice \ (taken \union UNION {trips[b].seats : b \in {t \in Trip : trips[t].status \in
                                                           {"HELD", "CONFIRMED"}}})
LiveAttempt == {"PENDING", "PROCESSING", "AWAITING_VERIFICATION"}
Attempt == [booking : Trip, method : PaymentMethod,
            status : LiveAttempt \union {"REJECTED", "PAID", "FAILED"}]
Created == {p \in PaymentId : payments[p] # None}

ASSUME PagesAssumption ==
  /\ {Party, MaxTrips, MaxPayments} \subseteq Nat
  /\ MaxVisits \in Nat \ {0}
  /\ None \notin Nat \union Attempt

PagesTypeOK ==
  /\ view \in [name : {"SEATS", "BOOKING", "PAYMENT", "TICKET"}, booking : Trip \union {None},
               visit : Visit, response : PaymentId \union {None}, crossed : BOOLEAN]
  /\ flow \in [method : PaymentMethod, paymentId : PaymentId \union {None}]
  /\ selected \subseteq SeatChoice /\ draft \subseteq SeatChoice /\ offered \subseteq SeatChoice
  /\ accesses \subseteq Trip /\ taken \subseteq SeatChoice
  /\ trips \in [Trip -> [status : {"NONE", "HELD", "CONFIRMED", "EXPIRED"}, seats : SUBSET SeatChoice]]
  /\ payments \in [PaymentId -> Attempt \union {None}]
  /\ keys \subseteq [booking : Trip, key : Visit, method : PaymentMethod,
                     payment : PaymentId \union {None}]
  /\ creating \subseteq [payment : PaymentId, key : Visit, awaited : BOOLEAN]
  /\ named \subseteq [booking : Trip, key : Visit, payment : PaymentId]
  /\ slips \subseteq [payment : PaymentId, booking : Trip, crossed : BOOLEAN]

Opened(name, booking, visit) ==
  [name |-> name, booking |-> booking, visit |-> visit, response |-> None, crossed |-> FALSE]

\* The cookie a request of a booking, or of a payment of it, must bring.
HasCookie(b) == b \in accesses

PagesInit ==
  /\ view = Opened("SEATS", None, 1)
  /\ flow = [method |-> "CARD", paymentId |-> None]
  /\ selected = {} /\ draft = {} /\ offered = {} /\ accesses = {}
  /\ trips = [b \in Trip |-> [status |-> "NONE", seats |-> {}]]
  /\ payments = [p \in PaymentId |-> None]
  /\ taken = {} /\ keys = {} /\ creating = {} /\ posts = {} /\ answers = {}
  /\ named = {} /\ slips = {}

-------------------------------------------------------------------------------
(* Pages                                                                     *)

Push(name, booking) ==
  /\ view.visit < MaxVisits
  /\ view' = Opened(name, booking, view.visit + 1)

\* Opening the seat map, whose effect empties the selection.
OpenSeats ==
  /\ Push("SEATS", None)
  /\ selected' = {} /\ offered' = {}
  /\ UNCHANGED <<flow, draft, accesses, recordVars, posts, answers>>

\* A snapshot or event arrives: what is not available any more is deselected.
RefreshMap ==
  /\ view.name = "SEATS"
  /\ offered' = Free
  /\ selected' = selected \intersect Free
  /\ UNCHANGED <<view, flow, draft, accesses, recordVars, posts, answers>>

ToggleSeat(s) ==
  /\ view.name = "SEATS" /\ s \in offered
  /\ selected' = IF s \in selected THEN selected \ {s}
                 ELSE IF Cardinality(selected) < Party THEN selected \union {s} ELSE selected
  /\ UNCHANGED <<view, flow, draft, offered, accesses, recordVars, posts, answers>>

\* proceed
ChooseSeats ==
  /\ view.name = "SEATS" /\ Cardinality(selected) = Party
  /\ draft' = selected
  /\ Push("BOOKING", None)
  /\ UNCHANGED <<flow, selected, offered, accesses, recordVars, posts, answers>>

\* Back to the passengers: the draft is kept when its hold was made.
ReturnToDraft ==
  /\ Push("BOOKING", None)
  /\ UNCHANGED <<flow, selected, draft, offered, accesses, recordVars, posts, answers>>

ReturnToPayment(b) ==
  /\ b \in accesses
  /\ Push("PAYMENT", b)
  /\ UNCHANGED <<flow, selected, draft, offered, accesses, recordVars, posts, answers>>

AwaitsAnswer == \E m \in posts \union answers : m.visit = view.visit

SubmitHold ==
  /\ view.name = "BOOKING" /\ draft # {} /\ ~ AwaitsAnswer
  /\ posts' = posts \union {[kind |-> "hold", visit |-> view.visit, seats |-> draft]}
  /\ UNCHANGED <<tabVars, recordVars, answers>>

\* An answer moves the passenger on, from whichever page is open by then.
HoldAnswered(a) ==
  /\ a \in answers /\ a.kind = "hold"
  /\ answers' = answers \ {a}
  /\ \/ /\ a.booking # None
        /\ accesses' = accesses \union {a.booking} /\ selected' = {}
        /\ Push("PAYMENT", a.booking)
     \/ /\ a.booking = None
        /\ Push("SEATS", None)
        /\ selected' = {} /\ UNCHANGED accesses
  /\ offered' = {}
  /\ UNCHANGED <<flow, draft, recordVars, posts>>

PickMethod(method) ==
  /\ view.name = "PAYMENT"
  /\ flow' = [flow EXCEPT !.method = method]
  /\ UNCHANGED <<view, selected, draft, offered, accesses, recordVars, posts, answers>>

\* start
StartPayment ==
  /\ view.name = "PAYMENT" /\ view.response = None /\ ~ AwaitsAnswer
  /\ \A c \in creating : c.key = view.visit => ~ c.awaited
  /\ posts' = posts \union {[kind |-> "create", visit |-> view.visit, booking |-> view.booking,
                             method |-> flow.method]}
  /\ UNCHANGED <<tabVars, recordVars, answers>>

\* The answer is kept by its page, if that is still open, and by the store.
PaymentAnswered(a) ==
  /\ a \in answers /\ a.kind = "create"
  /\ answers' = answers \ {a}
  /\ IF a.payment = None THEN UNCHANGED <<view, flow>>
     ELSE /\ flow' = [flow EXCEPT !.paymentId = a.payment]
          /\ view' = IF a.visit = view.visit THEN [view EXCEPT !.response = a.payment]
                     ELSE [view EXCEPT !.crossed = TRUE]
  /\ UNCHANGED <<selected, draft, offered, accesses, recordVars, posts>>

\* A request or an answer is lost: the page shows an error.
LoseMessage(m) ==
  /\ m \in posts \union answers
  /\ posts' = posts \ {m} /\ answers' = answers \ {m}
  /\ UNCHANGED <<tabVars, recordVars>>

\* A mistake: a page offers the upload for any payment the store has.
OfferedForAny ==
  view.name = "PAYMENT" /\ flow.method = "BANK_SLIP" /\ flow.paymentId # None

UploadOffered ==
  /\ view.name = "PAYMENT" /\ flow.method = "BANK_SLIP" /\ flow.paymentId # None
  /\ view.response # None

\* upload, and uploadBankSlip: the payment is the store's, whose booking has a cookie.
UploadSlip ==
  /\ UploadOffered
  /\ LET p == flow.paymentId
     IN /\ HasCookie(payments[p].booking)
        /\ payments[p].method = "BANK_SLIP" /\ payments[p].status \in {"PENDING", "REJECTED"}
        /\ trips[payments[p].booking].status = "HELD"
        /\ payments' = [payments EXCEPT ![p].status = "AWAITING_VERIFICATION"]
        /\ slips' = slips \union {[payment |-> p, booking |-> view.booking,
                                   crossed |-> view.crossed]}
  /\ UNCHANGED <<tabVars, trips, taken, keys, creating, named, posts, answers>>

\* The status query of the store's payment, or the booking's own status.
OpenTicket ==
  /\ view.name = "PAYMENT"
  /\ \/ trips[view.booking].status = "CONFIRMED"
     \/ flow.paymentId # None /\ payments[flow.paymentId].status = "PAID"
  /\ Push("TICKET", view.booking)
  /\ UNCHANGED <<flow, selected, draft, offered, accesses, recordVars, posts, answers>>

-------------------------------------------------------------------------------
(* The server                                                                *)

\* createGuestHold
ServeHold(m) ==
  /\ m \in posts /\ m.kind = "hold"
  /\ posts' = posts \ {m}
  /\ \/ /\ ~ m.seats \subseteq Free
        /\ answers' = answers \union {[kind |-> "hold", visit |-> m.visit, booking |-> None]}
        /\ UNCHANGED trips
     \/ /\ m.seats \subseteq Free
        /\ \E b \in Trip :
             /\ trips[b].status = "NONE" /\ \A c \in 1 .. b - 1 : trips[c].status # "NONE"
             /\ trips' = [trips EXCEPT ![b] = [status |-> "HELD", seats |-> m.seats]]
             /\ answers' = answers \union {[kind |-> "hold", visit |-> m.visit, booking |-> b]}
  /\ UNCHANGED <<tabVars, taken, payments, keys, creating, named, slips>>

\* A mistake: an attempt counts once its provider has answered.
AnsweredAttempt(b) ==
  \E p \in Created : payments[p].booking = b /\ payments[p].status \in LiveAttempt \ {"PENDING"}

ActiveAttempt(b) == \E p \in Created : payments[p].booking = b /\ payments[p].status \in LiveAttempt

\* begin: the row of a key, which is made with the first request.
KeyOf(m) == {k \in keys : k.booking = m.booking /\ k.key = m.visit}

Answer(m, payment) == [kind |-> "create", visit |-> m.visit, payment |-> payment]

\* A key that has an answer, for the same request: the answer is repeated.
ReplayAnswer(m) ==
  /\ m \in posts /\ m.kind = "create"
  /\ \E k \in KeyOf(m) :
       /\ k.method = m.method /\ k.payment # None
       /\ answers' = answers \union {Answer(m, k.payment)}
       /\ named' = named \union {[booking |-> m.booking, key |-> m.visit, payment |-> k.payment]}
  /\ posts' = posts \ {m}
  /\ UNCHANGED <<tabVars, trips, taken, payments, keys, creating, slips>>

\* #createInternal of a key that has no answer yet
CreatePayment(m) ==
  /\ m \in posts /\ m.kind = "create" /\ HasCookie(m.booking)
  /\ \A k \in KeyOf(m) : k.method = m.method /\ k.payment = None
  /\ trips[m.booking].status = "HELD" /\ ~ ActiveAttempt(m.booking)
  /\ \E p \in PaymentId \ Created :
       /\ p - 1 \in Created \union {0}
       /\ payments' = [payments EXCEPT ![p] = [booking |-> m.booking, method |-> m.method,
                                               status |-> "PENDING"]]
       /\ creating' = creating \union {[payment |-> p, key |-> m.visit, awaited |-> TRUE]}
  /\ keys' = keys \union {[booking |-> m.booking, key |-> m.visit, method |-> m.method,
                           payment |-> None]}
  /\ posts' = posts \ {m}
  /\ UNCHANGED <<tabVars, trips, taken, named, slips, answers>>

\* The key belongs to another request, or the booking cannot be paid.
RefusePayment(m) ==
  /\ m \in posts /\ m.kind = "create"
  /\ \/ \E k \in KeyOf(m) : k.method # m.method
     \/ \A k \in KeyOf(m) : k.payment = None
        /\ (trips[m.booking].status # "HELD" \/ ActiveAttempt(m.booking))
  /\ posts' = posts \ {m}
  /\ answers' = answers \union {Answer(m, None)}
  /\ UNCHANGED <<tabVars, recordVars>>

\* Stripe's intent, for a card, then complete, and the answer.
FinishPayment(c) ==
  LET p == payments[c.payment]
      m == [booking |-> p.booking, visit |-> c.key]
  IN /\ c \in creating
     /\ creating' = creating \ {c}
     /\ payments' = [payments EXCEPT ![c.payment].status =
                       IF p.method = "CARD" THEN "PROCESSING" ELSE @]
     /\ keys' = (keys \ KeyOf(m)) \union
                  {[booking |-> p.booking, key |-> c.key, method |-> p.method,
                    payment |-> c.payment]}
     /\ answers' = IF c.awaited THEN answers \union {Answer(m, c.payment)} ELSE answers
     /\ named' = named \union {[booking |-> p.booking, key |-> c.key, payment |-> c.payment]}
     /\ UNCHANGED <<tabVars, trips, taken, slips, posts>>

\* The browser waits no longer; the server goes on.
GiveUp(c) ==
  /\ c \in creating /\ c.awaited
  /\ creating' = (creating \ {c}) \union {[c EXCEPT !.awaited = FALSE]}
  /\ UNCHANGED <<tabVars, trips, taken, payments, keys, named, slips, posts, answers>>

\* Stripe refuses the intent.
FailPayment(c) ==
  /\ c \in creating /\ payments[c.payment].method = "CARD"
  /\ creating' = creating \ {c}
  /\ payments' = [payments EXCEPT ![c.payment].status = "FAILED"]
  /\ answers' = IF c.awaited THEN answers \union {Answer([visit |-> c.key], None)} ELSE answers
  /\ UNCHANGED <<tabVars, trips, taken, keys, named, slips, posts>>

\* The server stops after the transaction.
ForgetRequest(c) ==
  /\ c \in creating
  /\ creating' = creating \ {c}
  /\ UNCHANGED <<tabVars, trips, taken, payments, keys, named, slips, posts, answers>>

\* A webhook or an administrator's decision.
PayAttempt(p) ==
  /\ p \in Created /\ payments[p].status \in {"PROCESSING", "AWAITING_VERIFICATION"}
  /\ \/ /\ payments' = [payments EXCEPT ![p].status = "PAID"]
        /\ trips' = [trips EXCEPT ![payments[p].booking].status = IF @ = "HELD" THEN "CONFIRMED" ELSE @]
     \/ /\ payments' = [payments EXCEPT ![p].status =
                          IF @ = "PROCESSING" THEN "FAILED" ELSE "REJECTED"]
        /\ UNCHANGED trips
  /\ UNCHANGED <<tabVars, taken, keys, creating, named, slips, posts, answers>>

ExpireTrip(b) ==
  /\ trips[b].status = "HELD"
  /\ trips' = [trips EXCEPT ![b].status = "EXPIRED"]
  /\ UNCHANGED <<tabVars, taken, payments, keys, creating, named, slips, posts, answers>>

OthersHold(s) ==
  /\ s \in Free
  /\ taken' = taken \union {s}
  /\ UNCHANGED <<tabVars, trips, payments, keys, creating, named, slips, posts, answers>>

PagesNext ==
  \/ OpenSeats \/ RefreshMap \/ ChooseSeats \/ ReturnToDraft \/ SubmitHold
  \/ StartPayment \/ UploadSlip \/ OpenTicket
  \/ \E s \in SeatChoice : ToggleSeat(s) \/ OthersHold(s)
  \/ \E b \in Trip : ReturnToPayment(b) \/ ExpireTrip(b)
  \/ \E method \in PaymentMethod : PickMethod(method)
  \/ \E m \in posts : ServeHold(m) \/ ReplayAnswer(m) \/ CreatePayment(m) \/ RefusePayment(m)
  \/ \E a \in answers : HoldAnswered(a) \/ PaymentAnswered(a)
  \/ \E m \in posts \union answers : LoseMessage(m)
  \/ \E c \in creating : GiveUp(c) \/ FinishPayment(c) \/ FailPayment(c) \/ ForgetRequest(c)
  \/ \E p \in PaymentId : PayAttempt(p)

PagesSpec == PagesInit /\ [][PagesNext]_passengerVars

-------------------------------------------------------------------------------
(* Properties                                                                *)

\* A slip is stored with a payment of the booking whose page it was chosen on,
\* however many bookings the tab has paid or left before, unless an answer to an
\* earlier page came in while this one was open (PaymentPageView.tsx:59).
SlipsStayWithTheirBooking ==
  \A s \in slips : s.crossed \/ payments[s.payment].booking = s.booking

\* Whoever repeats a request with its key, because an answer was lost, the card
\* was refused or the page sent it twice, is never told of a second payment
\* (payment.service.js:116 and idempotency.service.js:17).
AnswersRepeat ==
  \A n, m \in named : n.booking = m.booking /\ n.key = m.key => n.payment = m.payment
===============================================================================
