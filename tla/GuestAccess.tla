------------------------------ MODULE GuestAccess ------------------------------
(***************************************************************************)
(* How passengers without an account reach their booking: the cookie of the *)
(* hold, and verification codes.  Translated from                           *)
(* modules/bookings/booking-access.service.js, booking-access.controller,   *)
(* guest-booking-access.service.js, guest-booking.middleware.js and         *)
(* createGuestHold of booking.controller.js.                                *)
(*                                                                          *)
(* There is one booking.  The row keeps the hash of one token; who shows    *)
(* that token reaches the booking until it expires.  Requests for a code    *)
(* are in the memory of the one server.  verifyAccess compares the code     *)
(* without giving way, then finds and updates the booking and only then     *)
(* forgets the request.  A refused request that changes nothing is no step. *)
(***************************************************************************)
EXTENDS Rows, Naturals, FiniteSets

CONSTANTS
  Browser,         \* browsers of guests, each with one page
  Request,         \* ids of requests for a code
  MaxCodeAttempts, \* maxAttempts
  CodeMinutes,     \* otpTtlMinutes
  TokenMinutes,    \* ttlSeconds of config/guest-booking.js
  DevelopmentCode, \* the server runs with developmentOtp
  MaxTokens,       \* bound: tokens of a behaviour
  MaxGuestTime     \* bound of the clock

Token == 1 .. MaxTokens
GuestMoment == 0 .. MaxGuestTime

TokenHash == [token : Token, expiresAt : Nat]
NoCookies == [booking |-> NoValue, session |-> NoValue]
RequestRecord ==
  [matched : BOOLEAN, attempts : 0 .. MaxCodeAttempts, expiresAt : Nat]
Verification ==
  [browser : Browser, request : Request, access : TokenHash,
   stage : {"ISSUED", "UPDATED"}, awaited : BOOLEAN]

ASSUME GuestAccessAssumption ==
  /\ MaxCodeAttempts \in Nat /\ CodeMinutes \in Nat /\ TokenMinutes \in Nat
  /\ MaxTokens \in Nat /\ MaxGuestTime \in Nat
  /\ DevelopmentCode \in BOOLEAN
  /\ None \notin TokenHash \union RequestRecord \union Verification
  /\ NoValue \notin TokenHash

VARIABLES
  clock,          \* this.clock()
  access,         \* guest_access_token_hash and _expires_at of the booking
  cookies,        \* the two cookies of a browser
  requests,       \* this.requests
  verifying,      \* verifications after the code was compared, by their token
  issued,         \* how many tokens were made
  comparisons,    \* codes compared for a request
  exchanged,      \* tokens made for a request
  together,       \* requests with two verifications under way at once
  unanswered      \* tokens whose answer was lost, or whose cookie was ended

guestVars == <<clock, access, cookies, requests, verifying, issued, comparisons,
               exchanged, together, unanswered>>

GuestAccessTypeOK ==
  /\ clock \in GuestMoment
  /\ access \in TokenHash \union {None, NoValue}
  /\ cookies \in [Browser -> [booking : TokenHash \union {NoValue},
                             session : TokenHash \union {NoValue}]]
  /\ requests \in [Request -> RequestRecord \union {None}]
  /\ verifying \in [Token -> Verification \union {None}]
  /\ issued \in 0 .. MaxTokens
  /\ comparisons \in [Request -> Nat]
  /\ exchanged \in [Request -> SUBSET Token]
  /\ together \subseteq Request /\ unanswered \subseteq Token

GuestAccessInit ==
  /\ clock = 0
  /\ access = None
  /\ cookies = [b \in Browser |-> NoCookies]
  /\ requests = [r \in Request |-> None]
  /\ verifying = [v \in Token |-> None]
  /\ issued = 0
  /\ comparisons = [r \in Request |-> 0]
  /\ exchanged = [r \in Request |-> {}]
  /\ together = {}
  /\ unanswered = {}

-------------------------------------------------------------------------------
\* issue: a token that was never used, and when it expires
Issued == [token |-> issued + 1, expiresAt |-> clock + TokenMinutes]

\* authorize
Authorized(cookie) == cookie # NoValue /\ cookie = access /\ access.expiresAt > clock

\* The middleware of /guest/bookings/:bookingId reads the cookie of the hold.
MayUseBooking(b) == Authorized(cookies[b].booking)

\* summary of the controller reads the cookie of the verification.
MayReadSummary(b) == Authorized(cookies[b].session)

\* createGuestHold, its transaction and its answer
CreateGuestHold(b, answered) ==
  /\ access = None /\ issued < MaxTokens
  /\ access' = Issued /\ issued' = issued + 1
  /\ IF answered
     THEN cookies' = [cookies EXCEPT ![b].booking = Issued] /\ UNCHANGED unanswered
     ELSE unanswered' = unanswered \union {issued + 1} /\ UNCHANGED cookies
  /\ UNCHANGED <<clock, requests, verifying, comparisons, exchanged, together>>

\* findByReference and findOne read the booking without its passengers.
PassengersRead == {}

\* #bookingMatches: whether contact and NIC are the owner's
BookingMatches(owner) == owner /\ PassengersRead # {}

\* requestAccess with a reference that is the booking's or is not
RequestAccess(r, found, owner) ==
  /\ requests[r] = None /\ comparisons[r] = 0
  /\ found => access # None
  /\ requests' = [requests EXCEPT ![r] =
       [matched |-> found /\ (BookingMatches(owner) \/ DevelopmentCode),
        attempts |-> 0, expiresAt |-> clock + CodeMinutes]]
  /\ UNCHANGED <<clock, access, cookies, verifying, issued, comparisons, exchanged,
                 together, unanswered>>

\* A mistake: the last attempt is not the last.
ComparableOnceMore(r) ==
  requests[r] # None /\ requests[r].expiresAt > clock
    /\ requests[r].attempts <= MaxCodeAttempts

\* The checks of verifyAccess before it compares the code
Comparable(r) ==
  requests[r] # None /\ requests[r].expiresAt > clock
    /\ requests[r].attempts < MaxCodeAttempts

\* verifyAccess finds the request expired.
ForgetExpired(r) ==
  /\ requests[r] # None /\ requests[r].expiresAt <= clock
  /\ requests' = [requests EXCEPT ![r] = None]
  /\ UNCHANGED <<clock, access, cookies, verifying, issued, comparisons, exchanged,
                 together, unanswered>>

AttemptCounted(r) == [requests EXCEPT ![r].attempts = IF @ < MaxCodeAttempts THEN @ + 1 ELSE @]

\* verifyAccess with a wrong code, or any code of a request without a booking
RefuseCode(r) ==
  /\ Comparable(r)
  /\ requests' = AttemptCounted(r)
  /\ comparisons' = [comparisons EXCEPT ![r] = @ + 1]
  /\ UNCHANGED <<clock, access, cookies, verifying, issued, exchanged, together,
                 unanswered>>

VerificationsOf(r) == {v \in Token : verifying[v] # None /\ verifying[v].request = r}

\* A mistake: the button stays enabled.
NeverDisabled(b) == FALSE

\* The page sends one code at a time (BookingAccessPageView).
Awaiting(b) == \E v \in Token :
  verifying[v] # None /\ verifying[v].browser = b /\ verifying[v].awaited

\* verifyAccess with the right code, up to its first await
AcceptCode(b, r) ==
  /\ issued < MaxTokens /\ ~Awaiting(b)
  /\ Comparable(r) /\ requests[r].matched
  /\ requests' = AttemptCounted(r)
  /\ comparisons' = [comparisons EXCEPT ![r] = @ + 1]
  /\ issued' = issued + 1
  /\ verifying' = [verifying EXCEPT ![issued + 1] =
       [browser |-> b, request |-> r, access |-> Issued, stage |-> "ISSUED",
        awaited |-> TRUE]]
  /\ exchanged' = [exchanged EXCEPT ![r] = @ \union {issued + 1}]
  /\ together' = IF VerificationsOf(r) = {} THEN together ELSE together \union {r}
  /\ UNCHANGED <<clock, access, cookies, unanswered>>

\* findById and booking.update, which writes both columns
UpdateAccess(v) ==
  /\ verifying[v] # None /\ verifying[v].stage = "ISSUED"
  /\ access' = verifying[v].access
  /\ verifying' = [verifying EXCEPT ![v].stage = "UPDATED"]
  /\ UNCHANGED <<clock, cookies, requests, issued, comparisons, exchanged, together,
                 unanswered>>

\* A mistake: the request is kept.
ForgetNothing(r) == requests

Forget(r) == [requests EXCEPT ![r] = None]

\* The request is forgotten; the answer sets the cookie when it is awaited.
AnswerVerified(v) ==
  /\ verifying[v] # None /\ verifying[v].stage = "UPDATED"
  /\ requests' = Forget(verifying[v].request)
  /\ IF verifying[v].awaited
     THEN /\ cookies' = [cookies EXCEPT ![verifying[v].browser].session = verifying[v].access]
          /\ UNCHANGED unanswered
     ELSE /\ unanswered' = unanswered \union {verifying[v].access.token}
          /\ UNCHANGED cookies
  /\ verifying' = [verifying EXCEPT ![v] = None]
  /\ UNCHANGED <<clock, access, issued, comparisons, exchanged, together>>

\* The browser's timeout, or the connection breaks: the call goes on.
GiveUpWaiting(v) ==
  /\ verifying[v] # None /\ verifying[v].awaited
  /\ verifying' = [verifying EXCEPT ![v].awaited = FALSE]
  /\ UNCHANGED <<clock, access, cookies, requests, issued, comparisons, exchanged,
                 together, unanswered>>

\* end of the controller clears the cookie; the token stays what it is.
EndGuestAccess(b) ==
  /\ cookies[b].session # NoValue
  /\ cookies' = [cookies EXCEPT ![b].session = NoValue]
  /\ unanswered' = unanswered \union {cookies[b].session.token}
  /\ UNCHANGED <<clock, access, requests, verifying, issued, comparisons, exchanged,
                 together>>

\* The server restarts: requests and calls under way are gone.
RestartServer ==
  /\ requests' = [r \in Request |-> None]
  /\ verifying' = [v \in Token |-> None]
  /\ unanswered' = unanswered \union
       {verifying[v].access.token : v \in {w \in Token : verifying[w] # None}}
  /\ UNCHANGED <<clock, access, cookies, issued, comparisons, exchanged, together>>

PassGuestTime ==
  /\ clock < MaxGuestTime
  /\ clock' = clock + 1
  /\ UNCHANGED <<access, cookies, requests, verifying, issued, comparisons, exchanged,
                 together, unanswered>>

GuestAccessNext ==
  \/ \E b \in Browser :
       \/ \E answered \in BOOLEAN : CreateGuestHold(b, answered)
       \/ \E r \in Request : AcceptCode(b, r)
       \/ EndGuestAccess(b)
  \/ \E r \in Request :
       \/ \E found, owner \in BOOLEAN : RequestAccess(r, found, owner)
       \/ ForgetExpired(r)
       \/ RefuseCode(r)
  \/ \E v \in Token :
       \/ UpdateAccess(v)
       \/ AnswerVerified(v)
       \/ GiveUpWaiting(v)
  \/ RestartServer
  \/ PassGuestTime

GuestAccessSpec == GuestAccessInit /\ [][GuestAccessNext]_guestVars

-------------------------------------------------------------------------------
(* Properties                                                                *)

\* A code is compared a bounded number of times and exchanged for one token,
\* although verifyAccess awaits the database between comparing it and forgetting
\* the request; only verifications of one code that are under way at the same
\* time each make a token.
CodesWorkOnce ==
  \A r \in Request :
    /\ comparisons[r] <= MaxCodeAttempts
    /\ r \in together \/ Cardinality(exchanged[r]) <= 1

\* The token that the booking accepts is in a cookie or in a verification that has
\* yet to answer; otherwise its own answer was lost (the guest gave up waiting, the
\* answer to the hold never came, the server stopped) or its holder ended the
\* access.  Such a loss does lock everybody out until the next code, the browser
\* answered last too when a verification given up earlier updates the booking after
\* it.  The order alone in which verifications update and answer does not: a page
\* waits for one answer before it sends another code.
TokenLostOnlyWithItsAnswer ==
  \/ access \in {None, NoValue}
  \/ access.token \in unanswered
  \/ \E b \in Browser : access \in {cookies[b].booking, cookies[b].session}
  \/ \E v \in Token : verifying[v] # None /\ verifying[v].access = access

\* "verify your registered contact to view your booking, payment, ticket, and
\* waitlist status" (BookingAccessPageView.tsx:46): a guest who is verified may
\* open the pages of the booking, its ticket among them.
VerifiedGuestsReachTheTicket ==
  \A b \in Browser : MayReadSummary(b) => MayUseBooking(b)
===============================================================================
