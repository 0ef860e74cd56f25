------------------------------- MODULE MCServices -------------------------------
(***************************************************************************)
(* Small instances of the components that share no rows with the sale of    *)
(* seats: the timetable, accounts, guests' access, refunds, the pages of a  *)
(* passenger, the party that travels and the sessions of a browser.  A      *)
(* behaviour is one of one of them while the others rest in their first     *)
(* state, so one run explores each of them, never their product.            *)
(***************************************************************************)
EXTENDS MCJourneys, Accounts, GuestAccess, Refunds, PassengerPages, Passengers, Sessions

CONSTANTS u1, u2, u3, s1, s2

VARIABLE part

MCNormalOf == [n \in {"n-"} |-> "n"]

MCAccount(role) ==
  [role |-> role, isActive |-> TRUE, blockedAt |-> NoValue,
   mustChangePassword |-> FALSE, password |-> 0]

\* Two super admins and an account to be made; one of each role, in scope.
MCInstallations ==
  {[account |-> u1 :> MCAccount("SUPER_ADMIN") @@ u2 :> MCAccount("SUPER_ADMIN") @@ u3 :> None,
    assigned |-> {}],
   [account |-> u1 :> MCAccount("SUPER_ADMIN") @@ u2 :> MCAccount("ADMIN") @@ u3 :> MCAccount("STAFF"),
    assigned |-> {<<"JOURNEY", u2>>, <<"STATION", u3>>}]}

\* The user u2 has logged in before; three calls follow between two super
\* admins, two among one of each role.
MCAccountsInit ==
  /\ \E i \in Installations : account = i.account /\ assigned = i.assigned
  /\ tokens = [c \in Call |-> IF c = 1 THEN NewToken(u2, NoValue) ELSE None]
  /\ calls = [c \in Call |-> None]
  /\ begun = IF account[u3] = None THEN 1 ELSE 2
  /\ raced = FALSE
  /\ overlapped = {}

\* A tab that has not been used yet, or whose first booking waits for the slip.
MCPagesInit ==
  /\ view = Opened("SEATS", None, 2)
  /\ selected = {} /\ draft = {} /\ offered = {}
  /\ taken = {} /\ creating = {} /\ posts = {} /\ answers = {} /\ slips = {}
  /\ \/ /\ flow = [method |-> "CARD", paymentId |-> None]
        /\ accesses = {} /\ keys = {} /\ named = {}
        /\ trips = [b \in Trip |-> [status |-> "NONE", seats |-> {}]]
        /\ payments = [p \in PaymentId |-> None]
     \/ /\ flow = [method |-> "BANK_SLIP", paymentId |-> 1]
        /\ accesses = {1} /\ named = {[booking |-> 1, key |-> 1, payment |-> 1]}
        /\ keys = {[booking |-> 1, key |-> 1, method |-> "BANK_SLIP", payment |-> 1]}
        /\ \E s \in SeatChoice : trips = [b \in Trip |-> IF b = 1 THEN [status |-> "HELD", seats |-> {s}]
                                                          ELSE [status |-> "NONE", seats |-> {}]]
        /\ payments = [p \in PaymentId |->
              IF p = 1 THEN [booking |-> 1, method |-> "BANK_SLIP", status |-> "PENDING"] ELSE None]

\* SessionsInit, where a session that is there already has used one of the requests.
MCSessionsInit ==
  /\ jar \in {NoValue, 0}
  /\ granted = [c \in Cookie |->
       IF c = 0 /\ jar = 0
       THEN [user |-> u1, fate |-> "LIVE", by |-> NoValue, root |-> 0, held |-> TRUE]
       ELSE None]
  /\ traffic = [n \in RequestNo |-> IF n = 1 /\ jar = 0 THEN Over("ARRIVED") ELSE None]
  /\ \E showing \in IF jar = 0 THEN SUBSET Tab ELSE {{}} :
       tab = [t \in Tab |-> IF t \in showing
               THEN [Closed EXCEPT !.status = "AUTHENTICATED", !.user = u1, !.access = u1]
               ELSE Closed]
  /\ toChange = IF jar = 0 THEN {} ELSE Temporary
  /\ barred = {} /\ alarmed = {} /\ signedOut = {}

MCInit ==
  /\ part \in {"timetable", "accounts", "guests", "refunds", "pages", "party", "sessions"}
  /\ IF part = "timetable" THEN MCTimetableInit ELSE TimetableInit
  /\ MCAccountsInit /\ GuestAccessInit /\ RefundsInit /\ MCPagesInit
  /\ part # "accounts" => account[u3] = None
  /\ part # "refunds" => method = "CARD"
  /\ part # "pages" => flow.paymentId = None
  /\ PassengersInit
  /\ MCSessionsInit /\ (part # "sessions" => jar = NoValue)
  /\ Cardinality({i \in Passenger : form[i].born = "MINOR"}) <= IF part = "party" THEN 1 ELSE 0

\* The booking of the refunds is cancelled first: no step but this depends on it,
\* and one cancelled later is REFUNDED later or never.
MCNext ==
  /\ part' = part
  /\ \/ /\ part = "timetable" /\ TimetableNext
        /\ UNCHANGED <<accountVars, guestVars, refundVars, passengerVars, partyVars, sessionVars>>
     \/ /\ part = "accounts" /\ AccountsNext
        /\ UNCHANGED <<timetableVars, guestVars, refundVars, passengerVars, partyVars, sessionVars>>
     \/ /\ part = "guests" /\ GuestAccessNext
        /\ UNCHANGED <<timetableVars, accountVars, refundVars, passengerVars, partyVars, sessionVars>>
     \/ /\ part = "refunds" /\ RefundsNext
        /\ booking' # "CONFIRMED"
        /\ UNCHANGED <<timetableVars, accountVars, guestVars, passengerVars, partyVars, sessionVars>>
     \/ /\ part = "pages" /\ PagesNext
        /\ UNCHANGED <<timetableVars, accountVars, guestVars, refundVars, partyVars, sessionVars>>
     \/ /\ part = "party" /\ PassengersNext
        /\ UNCHANGED <<timetableVars, accountVars, guestVars, refundVars, passengerVars, sessionVars>>
     \/ /\ part = "sessions" /\ SessionsNext
        /\ UNCHANGED <<timetableVars, accountVars, guestVars, refundVars, passengerVars, partyVars>>

servicesVars ==
  <<part, timetableVars, accountVars, guestVars, refundVars, passengerVars,
    partyVars, sessionVars>>

MCSpec == MCInit /\ [][MCNext]_servicesVars

\* The parts at rest keep their first state.
ServicesTypeOK ==
  /\ part = "timetable" => TimetableTypeOK
  /\ part = "accounts" => AccountsTypeOK
  /\ part = "guests" => GuestAccessTypeOK
  /\ part = "refunds" => RefundsTypeOK
  /\ part = "pages" => PagesTypeOK
  /\ part = "party" => PassengersTypeOK
  /\ part = "sessions" => SessionsTypeOK

\* Editors, guests, refunds, browsers and seats are only told apart by what happens to them.
MCSymmetry == Permutations({s1, s2})
===============================================================================
