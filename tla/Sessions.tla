-------------------------------- MODULE Sessions --------------------------------
(***************************************************************************)
(* The session of a member of staff as a browser keeps it: several tabs,    *)
(* each with its own store and access token, share one jar with the refresh *)
(* cookie.  Translated from store/auth.store.ts, services/http/api-client,  *)
(* providers/AuthProvider, the forms that sign in and change a password,    *)
(* ManagementHeader and modules/auth/auth.controller.js.                    *)
(*                                                                          *)
(* The server answers a request in one step: Accounts shows that the calls  *)
(* on one token take turns.  A refresh token is named by the request whose  *)
(* answer carries it; an access token by its user.  Requests are served and *)
(* answers arrive in any order, or never: a request fails in the tab when   *)
(* the network does, after 15 seconds, or when the page is left, and the    *)
(* server may serve it all the same.                                        *)
(***************************************************************************)
EXTENDS Rows, Naturals, FiniteSets

CONSTANTS
  Tab,
  Staff,
  Temporary,   \* staff whose password is temporary at first
  MaxRequests, \* bound: requests of a behaviour
  MaxInFlight  \* bound: requests under way at once

RequestNo == 1 .. MaxRequests
CookieKind == {"REFRESH", "SIGN_IN", "CHANGE_PASSWORD", "SIGN_OUT"}

VARIABLES
  granted,     \* granted[t]: a refresh token that was stored, or None
  jar,         \* the refresh cookie
  tab,         \* tab[t]: the stores and the refreshPromise of a page
  traffic,     \* traffic[n], or None before it is sent
  toChange,   \* mustChangePassword
  barred,     \* blockedAt
  alarmed,    \* history: what is known of the refreshes that were taken for a
              \* theft because their token was spent
  signedOut   \* history: sessions signed out while no refresh was under way

sessionVars == <<granted, jar, tab, traffic, toChange, barred, alarmed, signedOut>>

Closed == [status |-> "IDLE", failed |-> FALSE, user |-> NoValue, access |-> NoValue,
           restricted |-> NoValue, refreshing |-> NoValue, waiting |-> {}]

Cookie == 0 .. MaxRequests

\* The request that spent a token, with its kind and tab
Spending == RequestNo \X {"REFRESH", "SIGN_OUT"} \X Tab

Grant ==
  [user : Staff, fate : {"LIVE", "SPENT", "SWEPT"},
   by : Spending \union {NoValue}, root : Cookie, held : BOOLEAN]

Page ==
  [status : {"IDLE", "LOADING", "AUTHENTICATED", "UNAUTHENTICATED", "PASSWORD_CHANGE_REQUIRED"},
   failed : BOOLEAN, user : Staff \union {NoValue}, access : Staff \union {NoValue},
   restricted : Staff \union {NoValue}, refreshing : RequestNo \union {NoValue},
   waiting : SUBSET {"INITIALIZE", "RETRY"}]

Message ==
  [kind : CookieKind \union {"ME", "OVER"}, tab : Tab \union {NoValue},
   cookie : Cookie \union {NoValue}, user : Staff \union {NoValue},
   answer : {"NONE", "OK", "REFUSED", "CHANGE"},
   state : {"SENT", "ANSWERED", "ARRIVED", "LEFT", "LOST"}, stale : BOOLEAN, alone : BOOLEAN]

ASSUME SessionsAssumption ==
  /\ {MaxRequests, MaxInFlight} \subseteq Nat
  /\ Temporary \subseteq Staff
  /\ NoValue \notin Cookie \union Tab \union Staff \union Spending
  /\ None \notin Grant \union Message

SessionsTypeOK ==
  /\ granted \in [Cookie -> Grant \union {None}]
  /\ traffic \in [RequestNo -> Message \union {None}]
  /\ tab \in [Tab -> Page]
  /\ jar \in Cookie \union {NoValue}
  /\ toChange \subseteq Staff /\ barred \subseteq Staff
  /\ alarmed \subseteq [stale : BOOLEAN, own : BOOLEAN] /\ signedOut \subseteq Cookie

\* No session, or one that some tabs show already; the others are not open.
SessionsInit ==
  /\ \E u \in Staff \union {NoValue} :
       /\ granted = [t \in 0 .. MaxRequests |->
            IF t = 0 /\ u # NoValue
            THEN [user |-> u, fate |-> "LIVE", by |-> NoValue, root |-> 0, held |-> TRUE]
            ELSE None]
       /\ jar = IF u # NoValue THEN 0 ELSE NoValue
       /\ toChange = Temporary \ {u}
       /\ \E showing \in SUBSET Tab :
            /\ u = NoValue => showing = {}
            /\ tab = [t \in Tab |-> IF t \in showing
                  THEN [Closed EXCEPT !.status = "AUTHENTICATED", !.user = u, !.access = u]
                  ELSE Closed]
  /\ traffic = [n \in RequestNo |-> None]
  /\ barred = {}
  /\ alarmed = {} /\ signedOut = {}

-------------------------------------------------------------------------------
(* Requests                                                                  *)

Unsent == {n \in RequestNo : traffic[n] = None}
NextRequest == CHOOSE n \in Unsent : \A m \in Unsent : n <= m

InState(states) == {n \in RequestNo : traffic[n] # None /\ traffic[n].state \in states}

MaySend == Unsent # {} /\ Cardinality(InState({"SENT", "ANSWERED", "LEFT"})) < MaxInFlight

OfKind(kind) == {n \in RequestNo : traffic[n] # None /\ traffic[n].kind = kind}

\* A request of the page in tab t; cookies and header as they are now.  stale is
\* history: the answer that spent the cookie has arrived.
NewRequest(t, kind, cookie, user) ==
  [kind |-> kind, tab |-> t, cookie |-> cookie, user |-> user, answer |-> "NONE",
   state |-> "SENT",
   stale |-> /\ kind = "REFRESH" /\ cookie # NoValue /\ granted[cookie].fate = "SPENT"
             /\ traffic[granted[cookie].by[1]].state = "ARRIVED",
   alone |-> kind = "SIGN_OUT" /\ OfKind("REFRESH") \intersect InState({"SENT", "ANSWERED"}) = {}]

\* What is kept of a request that is over
Over(state) ==
  [kind |-> "OVER", tab |-> NoValue, cookie |-> NoValue, user |-> NoValue, answer |-> "NONE",
   state |-> state, stale |-> FALSE, alone |-> FALSE]

\* The page is left: answers that are under way are lost, and what is not
\* served may still be.
Leaving(t, table) ==
  [n \in RequestNo |->
     IF table[n] = None \/ table[n].tab # t THEN table[n]
     ELSE CASE table[n].state = "SENT" -> [table[n] EXCEPT !.state = "LEFT"]
            [] table[n].state = "ANSWERED" -> Over("LOST")
            [] OTHER -> table[n]]

\* A refresh joins a sign-out that is under way.
Sent(table, t, kind, cookie, user) ==
  [n \in RequestNo |->
     IF n = NextRequest THEN NewRequest(t, kind, cookie, user)
     ELSE IF kind = "REFRESH" /\ table[n] # None /\ table[n].state \in {"SENT", "ANSWERED"}
          THEN [table[n] EXCEPT !.alone = FALSE]
     ELSE table[n]]

Arrived(n) == [traffic EXCEPT ![n] = Over("ARRIVED")]

Arriving(n, kind) ==
  traffic[n] # None /\ traffic[n].state = "ANSWERED" /\ traffic[n].kind = kind

-------------------------------------------------------------------------------
(* The stores of a page                                                      *)

\* setAuthenticated
Authenticated(page, user, access) ==
  [page EXCEPT !.status = "AUTHENTICATED", !.failed = FALSE, !.user = user,
               !.access = access, !.restricted = NoValue]

\* setUnauthenticated and clear
Unauthenticated(page) ==
  [page EXCEPT !.status = "UNAUTHENTICATED", !.failed = FALSE, !.user = NoValue,
               !.access = NoValue, !.restricted = NoValue]

\* setPasswordChangeRequired
ChangeRequired(page, user) ==
  [page EXCEPT !.status = "PASSWORD_CHANGE_REQUIRED", !.failed = FALSE, !.user = user,
               !.access = NoValue, !.restricted = user]

\* setBootstrapError
BootstrapError(page) == [page EXCEPT !.status = "LOADING", !.failed = TRUE]

\* A mistake: every caller refreshes for itself.
OwnRefresh(page) == TRUE

\* refreshPromise ??= axios.post(...): one refresh per page at a time
StartsRefresh(page) == page.refreshing = NoValue

\* initialize on a page that is loaded: LOADING, then refreshAccessToken.  The
\* cookie it sends is what the jar holds by then.
Initialized(t, table, cookie) ==
  /\ Unsent # {}
  /\ traffic' = Sent(Leaving(t, table), t, "REFRESH", cookie, NoValue)
  /\ tab' = [tab EXCEPT ![t] = [Closed EXCEPT
       !.status = "LOADING", !.refreshing = NextRequest, !.waiting = {"INITIALIZE"}]]

-------------------------------------------------------------------------------
(* What the user does                                                        *)

\* A page of the staff is opened or loaded again.
LoadPage(t) ==
  /\ MaySend
  /\ Initialized(t, traffic, jar)
  /\ UNCHANGED <<granted, jar, toChange, barred, alarmed, signedOut>>

\* LoginForm: it is there until the session is known, with the right password.
SignIn(t, u) ==
  /\ tab[t].status \in {"LOADING", "UNAUTHENTICATED"} /\ MaySend
  /\ {n \in OfKind("SIGN_IN") : traffic[n].tab = t} \intersect InState({"SENT", "ANSWERED"}) = {}
  /\ traffic' = Sent(traffic, t, "SIGN_IN", jar, u)
  /\ UNCHANGED <<granted, jar, tab, toChange, barred, alarmed, signedOut>>

\* ChangePasswordPage: an access token that a late refresh has left takes the
\* place of the restricted token in the header.
ChangePassword(t) ==
  /\ tab[t].restricted # NoValue /\ MaySend
  /\ {n \in OfKind("CHANGE_PASSWORD") : traffic[n].tab = t}
       \intersect InState({"SENT", "ANSWERED"}) = {}
  /\ traffic' = Sent(traffic, t, "CHANGE_PASSWORD", jar,
                     IF tab[t].access = NoValue THEN tab[t].restricted ELSE NoValue)
  /\ UNCHANGED <<granted, jar, tab, toChange, barred, alarmed, signedOut>>

\* ManagementHeader: the button is not disabled.
SignOut(t) ==
  /\ tab[t].status = "AUTHENTICATED" /\ MaySend
  /\ traffic' = Sent(traffic, t, "SIGN_OUT", jar, tab[t].access)
  /\ UNCHANGED <<granted, jar, tab, toChange, barred, alarmed, signedOut>>

-------------------------------------------------------------------------------
(* The server                                                                *)

AllSwept(table, u) ==
  [t \in DOMAIN table |->
     IF table[t] # None /\ table[t].user = u /\ table[t].fate = "LIVE"
     THEN [table[t] EXCEPT !.fate = "SWEPT"] ELSE table[t]]

Spent(table, t, n) ==
  [table EXCEPT ![t].fate = "SPENT", ![t].by = <<n, traffic[n].kind, traffic[n].tab>>]

Stored(table, n, u, root) ==
  [table EXCEPT ![n] = [user |-> u, fate |-> "LIVE", by |-> NoValue, root |-> root,
                        held |-> FALSE]]

Served(n, kind) ==
  traffic[n] # None /\ traffic[n].state \in {"SENT", "LEFT"} /\ traffic[n].kind = kind

\* The answer is on its way, or nobody waits for it.
Replied(n, answer) ==
  traffic' = [traffic EXCEPT ![n] =
    IF @.state = "LEFT" THEN Over("LOST")
    ELSE [@ EXCEPT !.state = "ANSWERED", !.answer = answer]]

\* The refresh n shows a token that `by` has spent: whether the answer of `by` had
\* arrived before n was sent, and whether one page sent both and lost neither.
Alarm(n, by) ==
  [stale |-> traffic[n].stale,
   own |-> /\ by[2] = "REFRESH" /\ by[3] = traffic[n].tab
           /\ traffic[n].state # "LEFT" /\ traffic[by[1]].state # "LOST"]

\* refresh: without a cookie it is refused; with the live one the token is
\* exchanged; any other ends every session of the user.
ServeRefresh(n) ==
  /\ Served(n, "REFRESH")
  /\ LET c == traffic[n].cookie IN
       \/ /\ c = NoValue
          /\ Replied(n, "REFUSED") /\ UNCHANGED <<granted, alarmed>>
       \/ /\ c # NoValue /\ granted[c].fate = "LIVE"
          /\ granted' = Stored(Spent(granted, c, n), n, granted[c].user, granted[c].root)
          /\ Replied(n, "OK") /\ UNCHANGED alarmed
       \/ /\ c # NoValue /\ granted[c].fate # "LIVE"
          /\ granted' = AllSwept(granted, granted[c].user)
          /\ alarmed' = IF granted[c].fate = "SPENT" THEN alarmed \union {Alarm(n, granted[c].by)}
                        ELSE alarmed
          /\ Replied(n, "REFUSED")
  /\ UNCHANGED <<jar, tab, toChange, barred, signedOut>>

\* login
ServeSignIn(n) ==
  /\ Served(n, "SIGN_IN")
  /\ LET u == traffic[n].user IN
       \/ u \in barred /\ Replied(n, "REFUSED") /\ UNCHANGED granted
       \/ u \in toChange \ barred /\ Replied(n, "CHANGE") /\ UNCHANGED granted
       \/ /\ u \notin toChange \union barred
          /\ granted' = Stored(granted, n, u, n) /\ Replied(n, "OK")
  /\ UNCHANGED <<jar, tab, toChange, barred, alarmed, signedOut>>

\* changeInitialPassword
ServeChangePassword(n) ==
  /\ Served(n, "CHANGE_PASSWORD")
  /\ LET u == traffic[n].user IN
       \/ u \notin toChange \ barred /\ Replied(n, "REFUSED") /\ UNCHANGED <<granted, toChange>>
       \/ /\ u \in toChange \ barred
          /\ toChange' = toChange \ {u}
          /\ granted' = Stored(AllSwept(granted, u), n, u, n)
          /\ Replied(n, "OK")
  /\ UNCHANGED <<jar, tab, barred, alarmed, signedOut>>

\* A mistake: the cookie goes, the token stays.
OnlyClears(n, table) == table

\* logout revokes the token that is shown, when it is live.
RevokedByLogout(n, table) ==
  LET c == traffic[n].cookie IN
  IF c # NoValue /\ table[c].fate = "LIVE" THEN Spent(table, c, n) ELSE table

ServeSignOut(n) ==
  /\ Served(n, "SIGN_OUT")
  /\ granted' = RevokedByLogout(n, granted)
  /\ Replied(n, "OK")
  /\ UNCHANGED <<jar, tab, toChange, barred, alarmed, signedOut>>

\* GET /auth/me with the access token
ServeMe(n) ==
  /\ Served(n, "ME")
  /\ Replied(n, IF traffic[n].user \in barred \union toChange THEN "REFUSED" ELSE "OK")
  /\ UNCHANGED <<granted, jar, tab, toChange, barred, alarmed, signedOut>>

\* An administrator blocks the user, or resets the password.  (Bound: once.)
EndSessions(u) ==
  /\ barred = {} /\ toChange = {}
  /\ \/ barred' = {u} /\ UNCHANGED toChange
     \/ toChange' = {u} /\ UNCHANGED barred
  /\ granted' = AllSwept(granted, u)
  /\ UNCHANGED <<jar, tab, traffic, alarmed, signedOut>>

-------------------------------------------------------------------------------
(* What arrives in a tab                                                     *)

\* Set-Cookie of the answer n
Kept(n) == granted' = [granted EXCEPT ![n].held = TRUE] /\ jar' = n

\* The end of a refresh for those that wait for it.  A refresh that failed or
\* was refused ends the session of a page that repeats a call, after the
\* initialization has seen it.
Settled(page) == [page EXCEPT !.refreshing = NoValue, !.waiting = {}]

\* The refresh is answered: initialize goes on with me, and the calls that
\* waited are repeated.
ArriveRefreshed(n) ==
  /\ Arriving(n, "REFRESH") /\ traffic[n].answer = "OK"
  /\ LET t == traffic[n].tab
         u == granted[n].user
         page == [Settled(tab[t]) EXCEPT !.access = u] IN
       /\ tab' = [tab EXCEPT ![t] = page]
       /\ Kept(n)
       /\ IF "INITIALIZE" \in tab[t].waiting
          THEN Unsent # {} /\ traffic' = Sent(Arrived(n), t, "ME", n, u)
          ELSE traffic' = Arrived(n)
  /\ UNCHANGED <<toChange, barred, alarmed, signedOut>>

ArriveNotRefreshed(n) ==
  /\ Arriving(n, "REFRESH") /\ traffic[n].answer = "REFUSED"
  /\ LET t == traffic[n].tab IN
       tab' = [tab EXCEPT ![t] = Unauthenticated(Settled(tab[t]))]
  /\ traffic' = Arrived(n)
  /\ UNCHANGED <<granted, jar, toChange, barred, alarmed, signedOut>>

\* The rest of initialize: the access token is the one that was sent.
ArriveMe(n) ==
  /\ Arriving(n, "ME")
  /\ LET t == traffic[n].tab
         u == traffic[n].user IN
       tab' = [tab EXCEPT ![t] = IF traffic[n].answer = "OK" THEN Authenticated(tab[t], u, u)
                                 ELSE Unauthenticated(tab[t])]
  /\ traffic' = Arrived(n)
  /\ UNCHANGED <<granted, jar, toChange, barred, alarmed, signedOut>>

\* LoginForm and ChangePasswordPage
ArriveSession(n) ==
  /\ Arriving(n, "SIGN_IN") \/ Arriving(n, "CHANGE_PASSWORD")
  /\ LET t == traffic[n].tab
         u == traffic[n].user IN
       \/ /\ traffic[n].answer = "OK"
          /\ tab' = [tab EXCEPT ![t] = Authenticated(tab[t], u, u)]
          /\ Kept(n)
       \/ /\ traffic[n].answer = "CHANGE"
          /\ tab' = [tab EXCEPT ![t] = ChangeRequired(tab[t], u)]
          /\ UNCHANGED <<granted, jar>>
       \/ /\ traffic[n].answer = "REFUSED"
          /\ UNCHANGED <<tab, granted, jar>>
  /\ traffic' = Arrived(n)
  /\ UNCHANGED <<toChange, barred, alarmed, signedOut>>

\* The cookie is cleared, the store too, and /login is loaded.
ArriveSignedOut(n) ==
  /\ Arriving(n, "SIGN_OUT")
  /\ jar' = NoValue
  /\ signedOut' = IF traffic[n].alone /\ traffic[n].cookie # NoValue
                  THEN signedOut \union {granted[traffic[n].cookie].root} ELSE signedOut
  /\ Initialized(traffic[n].tab, Arrived(n), NoValue)
  /\ UNCHANGED <<granted, toChange, barred, alarmed>>

\* A call is answered 401: the access token has expired.
ApiUnauthorized(t) ==
  /\ tab[t].status = "AUTHENTICATED" /\ tab[t].access # NoValue
  /\ IF StartsRefresh(tab[t])
     THEN /\ MaySend
          /\ traffic' = Sent(traffic, t, "REFRESH", jar, NoValue)
          /\ tab' = [tab EXCEPT ![t].refreshing = NextRequest,
                                ![t].waiting = @ \union {"RETRY"}]
     ELSE /\ tab' = [tab EXCEPT ![t].waiting = @ \union {"RETRY"}]
          /\ UNCHANGED traffic
  /\ UNCHANGED <<granted, jar, toChange, barred, alarmed, signedOut>>

\* A call is answered USER_BLOCKED: auth:expired.
ApiBlocked(t) ==
  /\ tab[t].access \in barred
  /\ tab' = [tab EXCEPT ![t] = Unauthenticated(tab[t])]
  /\ UNCHANGED <<granted, jar, traffic, toChange, barred, alarmed, signedOut>>

\* The request fails in its tab.
Fail(n) ==
  /\ n \in InState({"SENT", "ANSWERED"})
  /\ LET t == traffic[n].tab
         gone == [traffic EXCEPT ![n] =
                    IF @.state = "SENT" THEN [@ EXCEPT !.state = "LEFT"] ELSE Over("LOST")] IN
       \/ /\ traffic[n].kind = "REFRESH"
          /\ tab' = [tab EXCEPT ![t] = IF "RETRY" \in tab[t].waiting
                                       THEN Unauthenticated(Settled(tab[t]))
                                       ELSE BootstrapError(Settled(tab[t]))]
          /\ traffic' = gone
       \/ /\ traffic[n].kind = "ME"
          /\ tab' = [tab EXCEPT ![t] = BootstrapError(tab[t])]
          /\ traffic' = gone
       \/ /\ traffic[n].kind = "SIGN_OUT"
          /\ Initialized(t, gone, jar)
       \/ /\ traffic[n].kind \in {"SIGN_IN", "CHANGE_PASSWORD"}
          /\ traffic' = gone
          /\ UNCHANGED tab
  /\ UNCHANGED <<granted, jar, toChange, barred, alarmed, signedOut>>

SessionsNext ==
  \/ \E t \in Tab :
       \/ LoadPage(t) \/ ChangePassword(t) \/ SignOut(t) \/ ApiUnauthorized(t) \/ ApiBlocked(t)
       \/ \E u \in Staff : SignIn(t, u)
  \/ \E n \in RequestNo :
       \/ ServeRefresh(n) \/ ServeSignIn(n) \/ ServeChangePassword(n) \/ ServeSignOut(n)
       \/ ServeMe(n)
       \/ ArriveRefreshed(n) \/ ArriveNotRefreshed(n) \/ ArriveMe(n) \/ ArriveSession(n)
       \/ ArriveSignedOut(n) \/ Fail(n)
  \/ \E u \in Staff : EndSessions(u)

SessionsSpec == SessionsInit /\ [][SessionsNext]_sessionVars

-------------------------------------------------------------------------------
(* Properties                                                                *)

\* The browser's own traffic is not taken for a stolen token: a refresh that
\* shows a spent token was sent before the answer that spent it arrived, and
\* when one page sent both refreshes, an answer was lost or the page was left.
\* (Two tabs that refresh together, or a refresh beside a sign-out, do end all
\* sessions of the user.)
OwnTrafficIsNoTheft ==
  \A alarm \in alarmed : ~alarm.stale /\ ~alarm.own

\* A session that was signed out while no refresh was under way is over: none
\* of the tokens that the browser ever held of it is live, and its cookie does
\* not come back.
SignedOutSessionsEnd ==
  /\ \A t \in DOMAIN granted :
       granted[t] # None /\ granted[t].held /\ granted[t].root \in signedOut
         => granted[t].fate # "LIVE"
  /\ jar # NoValue => granted[jar].root \notin signedOut
===============================================================================
