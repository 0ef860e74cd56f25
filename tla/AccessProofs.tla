------------------------------ MODULE AccessProofs ------------------------------
(***************************************************************************)
(* Theorems about who gets in: verification codes and tokens of guests, the *)
(* staff's refresh tokens, blocking and super admins, and the tabs and the  *)
(* cookie of a browser, for every number of browsers, requests, tokens,     *)
(* users, calls and tabs.                                                   *)
(***************************************************************************)
EXTENDS Accounts, GuestAccess, Sessions, FiniteSetTheorems, WellFoundedInduction, TLAPS

-------------------------------------------------------------------------------
(* Guests                                                                    *)

\* An attempt is counted where the code is compared; a token made for a request
\* belongs to a verification under way, or the request is gone for good.
CodesCounted ==
  \A r \in Request :
    /\ comparisons[r] <= MaxCodeAttempts
    /\ requests[r] # None => comparisons[r] = requests[r].attempts
    /\ \A v \in exchanged[r] :
         /\ comparisons[r] > 0
         /\ requests[r] = None \/ (verifying[v] # None /\ verifying[v].request = r)
    /\ r \in together \/ \A v, w \in exchanged[r] : v = w

\* Tokens are told apart by the order they were made in, and a cookie holds none
\* whose verification is still under way.
TokensTellApart ==
  /\ access \notin {None, NoValue} => access.token <= issued
  /\ \A v \in Token : verifying[v] # None => v <= issued /\ verifying[v].access.token = v
  /\ \A b \in Browser : cookies[b].session # NoValue =>
       /\ cookies[b].session.token <= issued
       /\ verifying[cookies[b].session.token] = None

\* A browser waits for one answer at a time, and once the booking was updated the
\* cookie this answer replaces is not the one the booking accepts.
ReplacedCookiesAreOld ==
  \A v \in Token : verifying[v] # None /\ verifying[v].awaited =>
    /\ \A w \in Token : verifying[w] # None /\ verifying[w].awaited
                        /\ verifying[w].browser = verifying[v].browser => v = w
    /\ verifying[v].stage = "UPDATED" =>
         access \notin {None, NoValue} /\ access # cookies[verifying[v].browser].session

GuestInv ==
  /\ GuestAccessTypeOK /\ CodesCounted /\ TokensTellApart /\ ReplacedCookiesAreOld
  /\ TokenLostOnlyWithItsAnswer

LEMMA GuestStart == GuestAccessInit => GuestInv
<1> SUFFICES ASSUME GuestAccessInit PROVE GuestInv
  OBVIOUS
<1> USE GuestAccessAssumption DEF GuestAccessInit
<1>1. GuestAccessTypeOK
  <2>1. NoCookies \in [booking : TokenHash \union {NoValue}, session : TokenHash \union {NoValue}]
    BY DEF NoCookies
  <2>2. cookies \in [Browser -> [booking : TokenHash \union {NoValue},
                                 session : TokenHash \union {NoValue}]]
    BY <2>1
  <2> QED
    BY <2>2 DEF GuestAccessTypeOK, GuestMoment
<1>2. CodesCounted /\ TokensTellApart /\ ReplacedCookiesAreOld
  BY DEF CodesCounted, TokensTellApart, ReplacedCookiesAreOld, NoCookies
<1> QED
  BY <1>1, <1>2 DEF GuestInv, TokenLostOnlyWithItsAnswer

\* A new token is a number that no token had.
LEMMA IssuedIsNew ==
  GuestAccessTypeOK /\ issued < MaxTokens =>
    /\ issued + 1 \in Token /\ issued + 1 > issued
    /\ Issued \in TokenHash /\ Issued.token = issued + 1
BY GuestAccessAssumption DEF GuestAccessTypeOK, Issued, TokenHash, Token, GuestMoment

\* A step that changes of a verification only its stage, or who waits for it
Proceeds ==
  \A w \in Token :
    /\ verifying'[w] # None <=> verifying[w] # None
    /\ verifying[w] # None =>
         /\ verifying'[w].browser = verifying[w].browser
         /\ verifying'[w].request = verifying[w].request
         /\ verifying'[w].access = verifying[w].access

LEMMA GuestStep == GuestInv /\ [GuestAccessNext]_guestVars => GuestInv'
<1> SUFFICES ASSUME GuestInv, [GuestAccessNext]_guestVars PROVE GuestInv'
  OBVIOUS
<1> USE GuestAccessAssumption DEF GuestInv, GuestAccessTypeOK
<1>1. ASSUME NEW b \in Browser, NEW answered \in BOOLEAN, CreateGuestHold(b, answered)
      PROVE  GuestInv'
  <2>1. /\ issued + 1 \in Token /\ issued + 1 > issued /\ issued' = issued + 1
        /\ Issued \in TokenHash /\ Issued.token = issued + 1 /\ access' = Issued
    BY <1>1, IssuedIsNew DEF CreateGuestHold
  <2>2. /\ cookies' \in [Browser -> [booking : TokenHash \union {NoValue},
                                    session : TokenHash \union {NoValue}]]
        /\ \A c \in Browser : cookies'[c].session = cookies[c].session
        /\ cookies'[b].booking = Issued \/ unanswered' = unanswered \union {issued + 1}
        /\ unanswered' \subseteq Token
    <3>1. CASE answered
      BY <1>1, <2>1, <3>1 DEF CreateGuestHold
    <3>2. CASE ~answered
      BY <1>1, <2>1, <3>2 DEF CreateGuestHold
    <3> QED
      BY <3>1, <3>2
  <2>3. GuestAccessTypeOK'
    BY <1>1, <2>1, <2>2 DEF CreateGuestHold, Token
  <2>4. CodesCounted'
    BY <1>1 DEF CreateGuestHold, CodesCounted
  <2>5. TokensTellApart'
    BY <1>1, <2>1, <2>2 DEF CreateGuestHold, TokensTellApart, TokenHash, Token
  <2>6. ReplacedCookiesAreOld'
    <3>1. \A c \in Browser : cookies'[c].session # access'
      BY <2>1, <2>2 DEF TokensTellApart
    <3>2. access' \notin {None, NoValue}
      BY <2>1
    <3> QED
      BY <1>1, <3>1, <3>2 DEF CreateGuestHold, ReplacedCookiesAreOld, Verification
  <2>7. TokenLostOnlyWithItsAnswer'
    BY <2>1, <2>2 DEF TokenLostOnlyWithItsAnswer
  <2> QED
    BY <2>3, <2>4, <2>5, <2>6, <2>7
<1>2. ASSUME NEW b \in Browser, NEW r \in Request, AcceptCode(b, r) PROVE GuestInv'
  <2> DEFINE new == [browser |-> b, request |-> r, access |-> Issued, stage |-> "ISSUED",
                     awaited |-> TRUE]
  <2>1. /\ issued + 1 \in Token /\ issued + 1 > issued /\ issued' = issued + 1
        /\ Issued \in TokenHash /\ Issued.token = issued + 1
    BY <1>2, IssuedIsNew DEF AcceptCode
  <2>2. /\ new \in Verification /\ new # None
        /\ new.request = r /\ new.access = Issued /\ new.browser = b /\ new.stage = "ISSUED"
    <3>1. new \in Verification
      BY <2>1, Zenon DEF Verification
    <3> QED
      BY <3>1
  <2> HIDE DEF new
  <2>3. \A v \in Token : verifying'[v] = IF v = issued + 1 THEN new ELSE verifying[v]
    BY <1>2, <2>1 DEF AcceptCode, new
  <2>4. verifying' \in [Token -> Verification \union {None}]
    BY <1>2, <2>2 DEF AcceptCode, new
  <2>5. /\ requests[r] # None /\ requests[r].attempts < MaxCodeAttempts
        /\ requests[r] \in RequestRecord
    BY <1>2 DEF AcceptCode, Comparable
  <2>6. requests' = [requests EXCEPT ![r].attempts = requests[r].attempts + 1]
    BY <1>2, <2>5 DEF AcceptCode, AttemptCounted
  <2>7. /\ requests' \in [Request -> RequestRecord \union {None}]
        /\ requests'[r] # None /\ requests'[r].attempts = requests[r].attempts + 1
        /\ \A q \in Request \ {r} : requests'[q] = requests[q]
    <3>1. [requests[r] EXCEPT !.attempts = requests[r].attempts + 1] \in RequestRecord
      BY <2>5 DEF RequestRecord
    <3> QED
      BY <2>5, <2>6, <3>1 DEF RequestRecord
  <2>8. GuestAccessTypeOK'
    <3>1. comparisons' \in [Request -> Nat] /\ exchanged' \in [Request -> SUBSET Token]
      BY <1>2, <2>1 DEF AcceptCode
    <3>2. together' \subseteq Request /\ issued' \in 0 .. MaxTokens
      BY <1>2, <2>1 DEF AcceptCode, Token
    <3> QED
      BY <1>2, <2>4, <2>7, <3>1, <3>2 DEF AcceptCode
  <2>9. CodesCounted'
    <3>1. SUFFICES ASSUME NEW q \in Request
                   PROVE  /\ comparisons'[q] <= MaxCodeAttempts
                          /\ requests'[q] # None => comparisons'[q] = requests'[q].attempts
                          /\ \A v \in exchanged'[q] :
                               /\ comparisons'[q] > 0
                               /\ \/ requests'[q] = None
                                  \/ verifying'[v] # None /\ verifying'[v].request = q
                          /\ q \in together' \/ \A v, w \in exchanged'[q] : v = w
      BY DEF CodesCounted
    <3>2. CASE q # r
      <4>1. /\ comparisons'[q] = comparisons[q] /\ requests'[q] = requests[q]
            /\ exchanged'[q] = exchanged[q] /\ exchanged[q] \subseteq Token
            /\ q \in together => q \in together'
        BY <1>2, <2>7, <3>2 DEF AcceptCode
      <4>2. verifying[issued + 1] = None
        BY <2>1 DEF TokensTellApart, Token
      <4>3. \A v \in Token : verifying[v] # None => verifying'[v] = verifying[v]
        BY <2>3, <4>2
      <4> QED
        BY <4>1, <4>3 DEF CodesCounted
    <3>3. CASE q = r
      <4>1. comparisons'[r] = comparisons[r] + 1 /\ comparisons[r] = requests[r].attempts
        BY <1>2, <2>5 DEF AcceptCode, CodesCounted
      <4>2. comparisons'[r] <= MaxCodeAttempts /\ comparisons'[r] > 0
        BY <2>5, <4>1 DEF RequestRecord
      <4>3. exchanged'[r] = exchanged[r] \union {issued + 1} /\ exchanged[r] \subseteq Token
        BY <1>2 DEF AcceptCode
      <4>4. \A v \in exchanged[r] : verifying[v] # None /\ verifying[v].request = r
        BY <2>5 DEF CodesCounted
      <4>5. \A v \in exchanged'[r] : verifying'[v] # None /\ verifying'[v].request = r
        BY <2>1, <2>2, <2>3, <4>3, <4>4
      <4>6. r \in together' \/ exchanged[r] = {}
        BY <1>2, <4>3, <4>4 DEF AcceptCode, VerificationsOf
      <4> QED
        BY <2>7, <3>3, <4>1, <4>2, <4>3, <4>5, <4>6
    <3> QED
      BY <3>2, <3>3
  <2>10. TokensTellApart'
    <3>1. access' = access /\ cookies' = cookies /\ issued \in Nat
      BY <1>2 DEF AcceptCode
    <3>2. access' \notin {None, NoValue} => access'.token <= issued'
      BY <2>1, <3>1 DEF TokensTellApart, TokenHash, Token
    <3>3. \A v \in Token : verifying'[v] # None => v <= issued' /\ verifying'[v].access.token = v
      BY <2>1, <2>2, <2>3, <3>1 DEF TokensTellApart, Token
    <3>4. ASSUME NEW c \in Browser, cookies[c].session # NoValue
          PROVE  cookies[c].session.token <= issued' /\ verifying'[cookies[c].session.token] = None
      <4>1. cookies[c].session.token \in Token
        BY <3>4 DEF TokenHash
      <4> QED
        BY <2>1, <2>3, <3>1, <3>4, <4>1 DEF TokensTellApart, Token
    <3> QED
      BY <3>1, <3>2, <3>3, <3>4 DEF TokensTellApart
  <2>11. ReplacedCookiesAreOld'
    BY <1>2, <2>1, <2>3 DEF AcceptCode, Awaiting, ReplacedCookiesAreOld
  <2>12. TokenLostOnlyWithItsAnswer'
    <3>1. verifying[issued + 1] = None
      BY <2>1 DEF TokensTellApart, Token
    <3> QED
      BY <1>2, <2>3, <3>1 DEF AcceptCode, TokenLostOnlyWithItsAnswer
  <2> QED
    BY <2>8, <2>9, <2>10, <2>11, <2>12
<1>3. ASSUME NEW b \in Browser, EndGuestAccess(b) PROVE GuestInv'
  <2>1. cookies' = [cookies EXCEPT ![b].session = NoValue] /\ cookies[b].session \in TokenHash
    BY <1>3 DEF EndGuestAccess
  <2>2. GuestAccessTypeOK'
    BY <1>3, <2>1 DEF EndGuestAccess, TokenHash
  <2> QED
    BY <1>3, <2>1, <2>2 DEF EndGuestAccess, CodesCounted, TokensTellApart,
         ReplacedCookiesAreOld, TokenLostOnlyWithItsAnswer
<1>4. ASSUME NEW r \in Request, NEW found \in BOOLEAN, NEW owner \in BOOLEAN,
             RequestAccess(r, found, owner)
      PROVE  GuestInv'
  <2>1. /\ GuestAccessTypeOK' /\ requests'[r].attempts = 0
        /\ \A q \in Request \ {r} : requests'[q] = requests[q]
    BY <1>4 DEF RequestAccess, BookingMatches, PassengersRead, RequestRecord, GuestMoment
  <2>2. CodesCounted'
    BY <1>4, <2>1 DEF RequestAccess, CodesCounted
  <2> QED
    BY <1>4, <2>1, <2>2 DEF RequestAccess, TokensTellApart, ReplacedCookiesAreOld,
         TokenLostOnlyWithItsAnswer
<1>5. ASSUME NEW r \in Request, ForgetExpired(r) PROVE GuestInv'
  BY <1>5 DEF ForgetExpired, CodesCounted, TokensTellApart, ReplacedCookiesAreOld,
       TokenLostOnlyWithItsAnswer
<1>6. ASSUME NEW r \in Request, RefuseCode(r) PROVE GuestInv'
  <2>1. /\ requests[r] # None /\ requests[r].attempts < MaxCodeAttempts
        /\ requests[r] \in RequestRecord
    BY <1>6 DEF RefuseCode, Comparable
  <2>2. requests' = [requests EXCEPT ![r].attempts = requests[r].attempts + 1]
    BY <1>6, <2>1 DEF RefuseCode, AttemptCounted
  <2>3. [requests[r] EXCEPT !.attempts = requests[r].attempts + 1] \in RequestRecord
    BY <2>1 DEF RequestRecord
  <2>4. /\ requests' \in [Request -> RequestRecord \union {None}]
        /\ requests'[r] # None /\ requests'[r].attempts = requests[r].attempts + 1
        /\ \A q \in Request \ {r} : requests'[q] = requests[q]
    BY <2>1, <2>2, <2>3 DEF RequestRecord
  <2>5. GuestAccessTypeOK'
    <3>1. comparisons' \in [Request -> Nat]
      BY <1>6 DEF RefuseCode
    <3> QED
      BY <1>6, <2>4, <3>1 DEF RefuseCode
  <2>6. CodesCounted'
    BY <1>6, <2>1, <2>4 DEF RefuseCode, CodesCounted, RequestRecord
  <2> QED
    BY <1>6, <2>5, <2>6 DEF RefuseCode, TokensTellApart, ReplacedCookiesAreOld,
         TokenLostOnlyWithItsAnswer
<1>7. ASSUME NEW v \in Token, UpdateAccess(v) PROVE GuestInv'
  <2>1. /\ verifying[v] \in Verification /\ access' = verifying[v].access
        /\ verifying[v].access \in TokenHash
        /\ verifying' = [verifying EXCEPT ![v].stage = "UPDATED"]
    BY <1>7 DEF UpdateAccess, Verification
  <2>2. GuestAccessTypeOK' /\ verifying'[v] \in Verification
    BY <1>7, <2>1 DEF UpdateAccess, Verification
  <2>3. Proceeds /\ \A w \in Token : verifying[w] # None => verifying'[w].awaited = verifying[w].awaited
    BY <2>1, <2>2 DEF Proceeds
  <2>4. CodesCounted'
    BY <1>7, <2>3 DEF UpdateAccess, CodesCounted, Proceeds
  <2>5. TokensTellApart'
    BY <1>7, <2>1, <2>3 DEF UpdateAccess, TokensTellApart, Proceeds, TokenHash
  <2>6. ReplacedCookiesAreOld'
    <3>1. \A b \in Browser : cookies[b].session # access'
      BY <1>7, <2>1 DEF UpdateAccess, TokensTellApart
    <3>2. access' \notin {None, NoValue}
      BY <2>1
    <3> QED
      BY <1>7, <2>3, <3>1, <3>2 DEF UpdateAccess, ReplacedCookiesAreOld, Proceeds, Verification
  <2>7. TokenLostOnlyWithItsAnswer'
    <3>1. verifying'[v] # None /\ verifying'[v].access = access'
      BY <2>1, <2>3 DEF Proceeds
    <3> QED
      BY <3>1 DEF TokenLostOnlyWithItsAnswer
  <2> QED
    BY <2>2, <2>4, <2>5, <2>6, <2>7
<1>8. ASSUME NEW v \in Token, AnswerVerified(v) PROVE GuestInv'
  <2>1. /\ verifying[v] \in Verification /\ verifying[v].access \in TokenHash
        /\ verifying[v].access.token = v /\ verifying[v].browser \in Browser
        /\ verifying' = [verifying EXCEPT ![v] = None]
    BY <1>8 DEF AnswerVerified, Verification, TokensTellApart
  <2> DEFINE b == verifying[v].browser
  <2>2. /\ cookies' \in [Browser -> [booking : TokenHash \union {NoValue},
                                    session : TokenHash \union {NoValue}]]
        /\ unanswered' \subseteq Token /\ unanswered \subseteq unanswered'
        /\ \A c \in Browser : cookies'[c].booking = cookies[c].booking
        /\ \A c \in Browser :
             \/ cookies'[c].session = cookies[c].session
             \/ c = b /\ verifying[v].awaited /\ cookies'[c].session = verifying[v].access
        /\ v \in unanswered' \/ cookies'[b].session = verifying[v].access
    <3>1. CASE verifying[v].awaited
      <4>1. /\ cookies' = [cookies EXCEPT ![b].session = verifying[v].access]
            /\ unanswered' = unanswered
        BY <1>8, <3>1 DEF AnswerVerified
      <4>2. cookies' \in [Browser -> [booking : TokenHash \union {NoValue},
                                      session : TokenHash \union {NoValue}]]
        BY <2>1, <4>1
      <4>3. \A c \in Browser :
              cookies'[c] = IF c = b THEN [cookies[c] EXCEPT !.session = verifying[v].access]
                                     ELSE cookies[c]
        BY <2>1, <4>1
      <4>4. \A c \in Browser :
              /\ cookies'[c].booking = cookies[c].booking
              /\ cookies'[c].session =
                   IF c = b THEN verifying[v].access ELSE cookies[c].session
        BY <4>3
      <4> QED
        BY <2>1, <3>1, <4>1, <4>2, <4>4
    <3>2. CASE ~verifying[v].awaited
      BY <1>8, <2>1, <3>2 DEF AnswerVerified
    <3> QED
      BY <3>1, <3>2
  <2>3. GuestAccessTypeOK'
    BY <1>8, <2>1, <2>2 DEF AnswerVerified, Forget
  <2>4. CodesCounted'
    BY <1>8, <2>1 DEF AnswerVerified, Forget, CodesCounted
  <2>5. TokensTellApart'
    <3>1. access' = access /\ issued' = issued
      BY <1>8 DEF AnswerVerified
    <3>2. ASSUME NEW c \in Browser, cookies'[c].session # NoValue
          PROVE  cookies'[c].session.token <= issued /\ verifying'[cookies'[c].session.token] = None
      <4>1. CASE cookies'[c].session = verifying[v].access
        BY <1>8, <2>1, <4>1 DEF AnswerVerified, TokensTellApart
      <4>2. CASE cookies'[c].session = cookies[c].session
        <5>1. cookies[c].session.token \in Token
          BY <3>2, <4>2 DEF TokenHash
        <5> QED
          BY <2>1, <3>2, <4>2, <5>1 DEF TokensTellApart
      <4> QED
        BY <2>2, <4>1, <4>2
    <3> QED
      BY <2>1, <3>1, <3>2 DEF TokensTellApart
  <2>6. ReplacedCookiesAreOld'
    <3>1. SUFFICES ASSUME NEW w \in Token, verifying'[w] # None, verifying'[w].awaited
                   PROVE  /\ \A u \in Token : verifying'[u] # None /\ verifying'[u].awaited
                               /\ verifying'[u].browser = verifying'[w].browser => w = u
                          /\ verifying'[w].stage = "UPDATED" =>
                               /\ access' \notin {None, NoValue}
                               /\ access' # cookies'[verifying'[w].browser].session
      BY DEF ReplacedCookiesAreOld
    <3>2. w # v /\ verifying'[w] = verifying[w] /\ verifying[w] \in Verification
      BY <2>1, <3>1
    <3>3. \A u \in Token : verifying'[u] # None => verifying'[u] = verifying[u] /\ verifying[u] # None
      BY <2>1
    <3>4. ASSUME verifying[w].browser = b PROVE ~verifying[v].awaited
      BY <1>8, <3>1, <3>2, <3>4 DEF ReplacedCookiesAreOld, AnswerVerified
    <3>5. verifying[w].browser \in Browser
      BY <3>2 DEF Verification
    <3>6. cookies'[verifying[w].browser].session = cookies[verifying[w].browser].session
      BY <2>2, <3>4, <3>5
    <3>7. access' = access
      BY <1>8 DEF AnswerVerified
    <3> HIDE DEF b
    <3> QED
      BY <3>1, <3>2, <3>3, <3>6, <3>7 DEF ReplacedCookiesAreOld
  <2>7. TokenLostOnlyWithItsAnswer'
    <3>1. access' = access
      BY <1>8 DEF AnswerVerified
    <3>2. CASE access = verifying[v].access
      BY <2>1, <2>2, <3>1, <3>2 DEF TokenLostOnlyWithItsAnswer
    <3>3. CASE access # verifying[v].access
      <4>1. ASSUME NEW w \in Token, verifying[w] # None, verifying[w].access = access
            PROVE  TokenLostOnlyWithItsAnswer'
        <5>1. verifying'[w] = verifying[w]
          BY <2>1, <3>3, <4>1
        <5>2. verifying'[w] # None /\ verifying'[w].access = access'
          BY <3>1, <4>1, <5>1
        <5> QED
          BY <5>2 DEF TokenLostOnlyWithItsAnswer
      <4>2. ASSUME NEW c \in Browser, access = cookies[c].session, access \notin {None, NoValue}
            PROVE  cookies'[c].session = cookies[c].session
        <5>1. verifying[v].stage = "UPDATED"
          BY <1>8 DEF AnswerVerified
        <5> QED
          BY <1>8, <2>1, <2>2, <4>2, <5>1 DEF ReplacedCookiesAreOld, AnswerVerified
      <4> QED
        BY <2>2, <3>1, <4>1, <4>2 DEF TokenLostOnlyWithItsAnswer
    <3> QED
      BY <3>2, <3>3
  <2> QED
    BY <2>3, <2>4, <2>5, <2>6, <2>7
<1>9. ASSUME NEW v \in Token, GiveUpWaiting(v) PROVE GuestInv'
  <2>1. /\ verifying[v] \in Verification
        /\ verifying' = [verifying EXCEPT ![v].awaited = FALSE]
    BY <1>9 DEF GiveUpWaiting
  <2>2. [verifying[v] EXCEPT !.awaited = FALSE] \in Verification
    BY <2>1 DEF Verification
  <2>3. /\ GuestAccessTypeOK' /\ Proceeds
        /\ ~verifying'[v].awaited /\ \A w \in Token \ {v} : verifying'[w] = verifying[w]
    <3>1. GuestAccessTypeOK'
      BY <1>9, <2>1, <2>2 DEF GiveUpWaiting
    <3>2. /\ verifying'[v].browser = verifying[v].browser /\ verifying'[v] # None
          /\ verifying'[v].request = verifying[v].request
          /\ verifying'[v].access = verifying[v].access /\ ~verifying'[v].awaited
      BY <2>1, <2>2 DEF Verification
    <3>3. \A w \in Token \ {v} : verifying'[w] = verifying[w]
      BY <2>1
    <3>4. verifying[v] # None
      BY <1>9 DEF GiveUpWaiting
    <3> QED
      BY <3>1, <3>2, <3>3, <3>4 DEF Proceeds
  <2>4. CodesCounted'
    BY <1>9, <2>3 DEF GiveUpWaiting, CodesCounted, Proceeds
  <2>5. TokensTellApart'
    BY <1>9, <2>3 DEF GiveUpWaiting, TokensTellApart, Proceeds, TokenHash
  <2>6. ReplacedCookiesAreOld'
    BY <1>9, <2>3 DEF GiveUpWaiting, ReplacedCookiesAreOld
  <2>7. TokenLostOnlyWithItsAnswer'
    BY <1>9, <2>3 DEF GiveUpWaiting, TokenLostOnlyWithItsAnswer, Proceeds
  <2> QED
    BY <2>3, <2>4, <2>5, <2>6, <2>7
<1>10. CASE RestartServer
  <2>1. GuestAccessTypeOK'
    BY <1>10 DEF RestartServer, Verification, TokenHash
  <2>2. TokenLostOnlyWithItsAnswer'
    BY <1>10 DEF RestartServer, TokenLostOnlyWithItsAnswer
  <2> QED
    BY <1>10, <2>1, <2>2 DEF RestartServer, CodesCounted, TokensTellApart,
         ReplacedCookiesAreOld, TokenHash
<1>11. CASE PassGuestTime
  BY <1>11 DEF PassGuestTime, CodesCounted, TokensTellApart, ReplacedCookiesAreOld,
       TokenLostOnlyWithItsAnswer, GuestMoment
<1>12. CASE UNCHANGED guestVars
  BY <1>12 DEF guestVars, CodesCounted, TokensTellApart, ReplacedCookiesAreOld,
       TokenLostOnlyWithItsAnswer
<1> QED
  BY <1>1, <1>2, <1>3, <1>4, <1>5, <1>6, <1>7, <1>8, <1>9, <1>10, <1>11, <1>12
     DEF GuestAccessNext

\* The codes, tokens and cookies of guests satisfy the invariant.
THEOREM GuestInvariant == GuestAccessSpec => []GuestInv
BY GuestStart, GuestStep, PTL DEF GuestAccessSpec

\* A code is compared a bounded number of times and exchanged for one token,
\* unless verifications of it are under way together.
THEOREM CodesAreUsedOnce == GuestAccessSpec => []CodesWorkOnce
<1>1. GuestInv => CodesWorkOnce
  <2> SUFFICES ASSUME GuestInv, NEW r \in Request, r \notin together
               PROVE  Cardinality(exchanged[r]) <= 1
    BY DEF GuestInv, CodesCounted, CodesWorkOnce
  <2>1. \A v, w \in exchanged[r] : v = w
    BY DEF GuestInv, CodesCounted
  <2>2. exchanged[r] = {} \/ \E v \in exchanged[r] : exchanged[r] = {v}
    BY <2>1
  <2>3. CASE exchanged[r] = {}
    <3>1. Cardinality(exchanged[r]) = 0
      BY <2>3, FS_EmptySet
    <3> QED
      BY <3>1
  <2>4. CASE \E v \in exchanged[r] : exchanged[r] = {v}
    <3>1. Cardinality(exchanged[r]) = 1
      BY <2>4, FS_Singleton
    <3> QED
      BY <3>1
  <2> QED
    BY <2>2, <2>3, <2>4
<1> QED
  BY <1>1, GuestInvariant, PTL

\* In whatever order verifications update and answer, a token that the booking
\* accepts and that neither a browser nor a verification under way has is one
\* whose own answer was lost or whose cookie was ended.
THEOREM LostTokensWereUnanswered == GuestAccessSpec => []TokenLostOnlyWithItsAnswer
<1>1. GuestInv => TokenLostOnlyWithItsAnswer
  BY DEF GuestInv
<1> QED
  BY <1>1, GuestInvariant, PTL

-------------------------------------------------------------------------------
(* Accounts                                                                  *)

\* Operations that write the account and revoke the sessions in one transaction
Transactions == {"BLOCK", "RESET", "CHANGE_INITIAL"}

\* Calls are numbered as they begin; a call in flight has stored no token.
Numbered ==
  \A c \in Call :
    /\ c > begun => calls[c] = None /\ tokens[c] = None
    /\ calls[c] # None => tokens[c] = None /\ account[calls[c].user] # None
    /\ tokens[c] # None => account[tokens[c].user] # None

\* What each operation is about to write.
Intents ==
  \A c \in Call : calls[c] # None =>
    /\ calls[c].op = "BLOCK" => calls[c].values = [isActive |-> FALSE, blockedAt |-> c]
    /\ calls[c].op = "UNBLOCK" => calls[c].values = [isActive |-> TRUE, blockedAt |-> NoValue]
    /\ calls[c].op = "ASSIGN_ROLE" => calls[c].values \in [role : Role]
    /\ calls[c].op \in {"RESET", "CHANGE_OWN"} => calls[c].values \in Password
    /\ calls[c].op = "CHANGE_INITIAL" /\ calls[c].stage = "SWEEPING" =>
         calls[c].values \in Password
    /\ calls[c].op \in Transactions \union {"UNBLOCK"} => calls[c].stage # "WRITTEN"
    /\ calls[c].op \in {"LOGIN", "REFRESH"} => calls[c].stage = "READ"
    /\ calls[c].op = "REUSE" => calls[c].stage = "SWEEPING"

\* A token is locked by one call, and revoked by nobody else meanwhile.
LocksHeld ==
  \A c \in Call : calls[c] # None =>
    /\ calls[c].op = "REFRESH" => calls[c].token # NoValue
    /\ calls[c].token # NoValue =>
         /\ tokens[calls[c].token] # None
         /\ calls[c].op = "REFRESH" => ~tokens[calls[c].token].revoked
         /\ \A d \in Call : calls[d] # None /\ calls[d].token = calls[c].token => c = d
    /\ \A t \in calls[c].seen : tokens[t] # None /\ tokens[t].user = calls[c].user

\* A token that has a successor is revoked, and has no other.
SuccessorsOrdered ==
  /\ \A c \in Call : tokens[c] # None /\ tokens[c].parent # NoValue =>
       tokens[tokens[c].parent] # None /\ tokens[tokens[c].parent].revoked
  /\ TokensExchangedOnce

\* One transaction holds the row of an account; a password that is being changed
\* is that of a user who may log in.
RowsHeld ==
  \A c \in Call : calls[c] # None /\ calls[c].stage = "SWEEPING" =>
    /\ calls[c].op = "CHANGE_INITIAL" => Admitted(calls[c].user)
    /\ \A d \in Call :
         (/\ calls[d] # None /\ calls[d].stage = "SWEEPING" /\ calls[d].user = calls[c].user
          /\ calls[c].op \in Transactions /\ calls[d].op \in Transactions)
         => c = d

LetInto(u) == {d \in InFlight("LOGIN") \union InFlight("REFRESH") : calls[d].user = u}

\* While a block is under way and after it, whoever was let in is known.
OverlapsKnown ==
  /\ \A c \in InFlight("BLOCK") : calls[c].stage = "SWEEPING" =>
       /\ LetInto(calls[c].user) \subseteq overlapped
       /\ LiveTokens(calls[c].user) \ calls[c].seen \subseteq overlapped
  /\ \A u \in User : ~Admitted(u) => LetInto(u) \union LiveTokens(u) \subseteq overlapped

\* Another super admin than u who is active
AnotherSuperAdmin(u) ==
  \E w \in User \ {u} : HasRole(w, "SUPER_ADMIN") /\ account[w].isActive

\* Whoever writes what is fresh has read the row as it is, and has looked for
\* another super admin when it takes one away.
TakesOneAway(call) ==
  call.op = "BLOCK" \/ (call.op = "ASSIGN_ROLE" /\ call.values.role # "SUPER_ADMIN")

ReadingsFresh ==
  \A c \in Call :
    (/\ calls[c] # None /\ calls[c].fresh
     /\ calls[c].stage = "READ" \/ calls[c].op \in Transactions)
    => /\ account[calls[c].user] = calls[c].read
       /\ TakesOneAway(calls[c]) /\ HasRole(calls[c].user, "SUPER_ADMIN") =>
            AnotherSuperAdmin(calls[c].user)

SuperAdminStays ==
  /\ SuperAdminRemains
  /\ ~raced => \A u \in User : account[u] # None =>
                 (account[u].isActive <=> account[u].blockedAt = NoValue)

AccountsInv ==
  /\ AccountsTypeOK /\ Numbered /\ Intents /\ LocksHeld /\ SuccessorsOrdered
  /\ RowsHeld /\ OverlapsKnown /\ ReadingsFresh /\ SuperAdminStays

\* The rows that the steps write have the columns of a row.
LEMMA OutdatedRow ==
  \A r \in CallRow :
    /\ [r EXCEPT !.fresh = FALSE] \in CallRow
    /\ [r EXCEPT !.fresh = FALSE].fresh = FALSE
    /\ \A f \in {"op", "user", "stage", "read", "values", "token", "seen"} :
         [r EXCEPT !.fresh = FALSE][f] = r[f]
<1> TAKE r \in CallRow
<1>1. [r EXCEPT !.fresh = FALSE] \in CallRow
  BY DEF CallRow
<1> QED BY <1>1 DEF CallRow

LEMMA SweepingRow ==
  \A r \in CallRow, these \in SUBSET Call :
    LET s == [r EXCEPT !.stage = "SWEEPING", !.seen = these]
    IN /\ s \in CallRow /\ s.stage = "SWEEPING" /\ s.seen = these
       /\ s.op = r.op /\ s.user = r.user /\ s.read = r.read /\ s.values = r.values
       /\ s.token = r.token /\ s.fresh = r.fresh
<1> TAKE r \in CallRow, these \in SUBSET Call
<1> DEFINE s == [r EXCEPT !.stage = "SWEEPING", !.seen = these]
<1>1. s \in CallRow
  BY DEF CallRow
<1> QED BY <1>1 DEF CallRow

LEMMA RevokedTokens ==
  ASSUME AccountsAssumption, NEW table \in [Call -> TokenRow \union {None}],
         NEW these \in SUBSET Call, \A t \in these : table[t] # None
  PROVE  /\ Revoked(table, these) \in [Call -> TokenRow \union {None}]
         /\ \A t \in Call : t \notin these => Revoked(table, these)[t] = table[t]
         /\ \A t \in these :
              /\ Revoked(table, these)[t] # None /\ Revoked(table, these)[t].revoked
              /\ Revoked(table, these)[t].user = table[t].user
              /\ Revoked(table, these)[t].parent = table[t].parent
<1>1. \A t \in these : /\ [table[t] EXCEPT !.revoked = TRUE] \in TokenRow
                       /\ [table[t] EXCEPT !.revoked = TRUE].revoked
                       /\ [table[t] EXCEPT !.revoked = TRUE].user = table[t].user
                       /\ [table[t] EXCEPT !.revoked = TRUE].parent = table[t].parent
  BY DEF TokenRow
<1>2. None \notin TokenRow
  BY DEF AccountsAssumption
<1>3. \A t \in Call : Revoked(table, these)[t] =
        IF t \in these THEN [table[t] EXCEPT !.revoked = TRUE] ELSE table[t]
  BY DEF Revoked
<1>4. Revoked(table, these) = [t \in Call |-> Revoked(table, these)[t]]
  BY DEF Revoked
<1>5. \A t \in Call : Revoked(table, these)[t] \in TokenRow \union {None}
  BY <1>1, <1>3
<1>6. Revoked(table, these) \in [Call -> TokenRow \union {None}]
  BY <1>4, <1>5
<1>7. \A t \in these : Revoked(table, these)[t] = [table[t] EXCEPT !.revoked = TRUE]
  BY <1>3
<1>8. \A t \in these : Revoked(table, these)[t] # None
  <2> TAKE t \in these
  <2>1. Revoked(table, these)[t] \in TokenRow
    BY <1>1, <1>7
  <2> QED BY <1>2, <2>1
<1>9. \A t \in Call : t \notin these => Revoked(table, these)[t] = table[t]
  BY <1>3
<1> QED BY <1>1, <1>6, <1>7, <1>8, <1>9

LEMMA NewTokenRow ==
  \A u \in User, parent \in Call \union {NoValue} :
    /\ NewToken(u, parent) \in TokenRow /\ NewToken(u, parent).user = u
    /\ NewToken(u, parent).parent = parent /\ ~NewToken(u, parent).revoked
BY DEF NewToken, TokenRow

\* A password, a role or a block that is written leaves the other columns alone;
\* what is written is there when the record read is still the row.
LEMMA PasswordWritten ==
  \A row, read \in AccountRow, values \in Password :
    LET new == Updated(row, read, values)
    IN /\ new \in AccountRow /\ new.role = row.role /\ new.isActive = row.isActive
       /\ new.blockedAt = row.blockedAt
<1> TAKE row, read \in AccountRow, values \in Password
<1> DEFINE new == Updated(row, read, values)
<1>1. DOMAIN row = {"role", "isActive", "blockedAt", "mustChangePassword", "password"}
  BY DEF AccountRow
<1>2. DOMAIN values = {"password", "mustChangePassword"}
  BY DEF Password
<1>3. /\ new = [role |-> new.role, isActive |-> new.isActive, blockedAt |-> new.blockedAt,
                mustChangePassword |-> new.mustChangePassword, password |-> new.password]
      /\ new.role = row.role /\ new.isActive = row.isActive
      /\ new.blockedAt = row.blockedAt
      /\ new.mustChangePassword \in {values.mustChangePassword, row.mustChangePassword}
      /\ new.password \in {values.password, row.password}
  BY <1>1, <1>2 DEF Updated
<1>4. /\ new.role \in Role /\ new.isActive \in BOOLEAN
      /\ new.blockedAt \in Call \union {NoValue}
      /\ new.mustChangePassword \in BOOLEAN /\ new.password \in 0 .. MaxCalls
  BY <1>3 DEF AccountRow, Password
<1> HIDE DEF new
<1>5. new \in AccountRow
  BY <1>3, <1>4, Zenon DEF AccountRow
<1> QED BY <1>3, <1>5 DEF new

LEMMA RoleWritten ==
  \A row, read \in AccountRow, values \in [role : Role] :
    LET new == Updated(row, read, values)
    IN /\ new \in AccountRow /\ new.isActive = row.isActive
       /\ new.blockedAt = row.blockedAt
       /\ row = read => new.role = values.role
<1> TAKE row, read \in AccountRow, values \in [role : Role]
<1> DEFINE new == Updated(row, read, values)
<1>1. DOMAIN row = {"role", "isActive", "blockedAt", "mustChangePassword", "password"}
  BY DEF AccountRow
<1>2. DOMAIN values = {"role"}
  OBVIOUS
<1>3. /\ new = [role |-> new.role, isActive |-> new.isActive, blockedAt |-> new.blockedAt,
                mustChangePassword |-> new.mustChangePassword, password |-> new.password]
      /\ new.isActive = row.isActive /\ new.blockedAt = row.blockedAt
      /\ new.mustChangePassword = row.mustChangePassword /\ new.password = row.password
      /\ new.role = IF values.role # read.role THEN values.role ELSE row.role
  BY <1>1, <1>2 DEF Updated
<1>4. /\ new.role \in Role /\ new.isActive \in BOOLEAN
      /\ new.blockedAt \in Call \union {NoValue}
      /\ new.mustChangePassword \in BOOLEAN /\ new.password \in 0 .. MaxCalls
  BY <1>3 DEF AccountRow
<1> HIDE DEF new
<1>5. new \in AccountRow
  BY <1>3, <1>4, Zenon DEF AccountRow
<1> QED BY <1>3, <1>5 DEF new

LEMMA ActivityWritten ==
  \A row, read \in AccountRow, values \in Activity :
    LET new == Updated(row, read, values)
    IN /\ new \in AccountRow /\ new.role = row.role
       /\ row = read => new.isActive = values.isActive /\ new.blockedAt = values.blockedAt
       /\ new.isActive \in {values.isActive, row.isActive}
       /\ new.blockedAt \in {values.blockedAt, row.blockedAt}
<1> TAKE row, read \in AccountRow, values \in Activity
<1> DEFINE new == Updated(row, read, values)
<1>1. DOMAIN row = {"role", "isActive", "blockedAt", "mustChangePassword", "password"}
  BY DEF AccountRow
<1>2. DOMAIN values = {"isActive", "blockedAt"}
  BY DEF Activity
<1>3. /\ new = [role |-> new.role, isActive |-> new.isActive, blockedAt |-> new.blockedAt,
                mustChangePassword |-> new.mustChangePassword, password |-> new.password]
      /\ new.role = row.role
      /\ new.mustChangePassword = row.mustChangePassword /\ new.password = row.password
      /\ new.isActive = IF values.isActive # read.isActive THEN values.isActive
                        ELSE row.isActive
      /\ new.blockedAt = IF values.blockedAt # read.blockedAt THEN values.blockedAt
                         ELSE row.blockedAt
  BY <1>1, <1>2 DEF Updated
<1>4. /\ new.role \in Role /\ new.isActive \in BOOLEAN
      /\ new.blockedAt \in Call \union {NoValue}
      /\ new.mustChangePassword \in BOOLEAN /\ new.password \in 0 .. MaxCalls
  BY <1>3 DEF AccountRow, Activity
<1> HIDE DEF new
<1>5. new \in AccountRow
  BY <1>3, <1>4, Zenon DEF AccountRow
<1> QED BY <1>3, <1>5 DEF new

\* A call begins: what it has read is the account as it is.
LEMMA CallBegins ==
  ASSUME AccountsAssumption, AccountsInv, NEW c \in Call, c = begun + 1,
         NEW r \in CallRow, calls' = [calls EXCEPT ![c] = r], begun' = c,
         UNCHANGED <<account, tokens, assigned, raced>>,
         overlapped' \in {overlapped, overlapped \union {c}},
         account[r.user] # None, r.read = account[r.user],
         r.op = "BLOCK" => r.values = [isActive |-> FALSE, blockedAt |-> c],
         r.op = "UNBLOCK" => r.values = [isActive |-> TRUE, blockedAt |-> NoValue],
         r.op = "ASSIGN_ROLE" => r.values \in [role : Role],
         r.op \in {"RESET", "CHANGE_OWN"} => r.values \in Password,
         r.stage = IF r.op = "REUSE" THEN "SWEEPING" ELSE "READ",
         r.op = "REFRESH" => r.token # NoValue /\ ~tokens[r.token].revoked,
         r.token # NoValue => tokens[r.token] # None /\ ~TokenLocked(r.token, c),
         r.seen \subseteq LiveTokens(r.user),
         r.op \in {"LOGIN", "REFRESH"} =>
           Admitted(r.user) /\ (Holding(r.user, {"BLOCK"}) => c \in overlapped'),
         TakesOneAway(r) /\ HasRole(r.user, "SUPER_ADMIN") => AnotherSuperAdmin(r.user)
  PROVE  AccountsInv'
<1>1. calls[c] = None /\ tokens[c] = None
  BY DEF AccountsInv, Numbered, AccountsTypeOK, Call
<1>2. calls'[c] = r /\ \A d \in Call : d # c => calls'[d] = calls[d]
  BY DEF AccountsInv, AccountsTypeOK
<1>3. r # None
  BY DEF AccountsAssumption
<1>4. AccountsTypeOK'
  BY <1>2 DEF AccountsInv, AccountsTypeOK, Call
<1>5. Numbered'
  BY <1>1, <1>2, <1>3 DEF AccountsInv, AccountsTypeOK, Numbered, Call
<1>6. Intents'
  <2> SUFFICES ASSUME NEW d \in Call PROVE Intents!(d)'
    BY DEF Intents
  <2>1. CASE d # c
    <3>1. calls'[d] = calls[d]
      BY <1>2, <2>1
    <3>2. Intents!(d)
      BY DEF AccountsInv, Intents
    <3> QED BY <3>1, <3>2
  <2>2. CASE d = c
    <3>1. calls'[d] = r
      BY <1>2, <2>2
    <3>2. r.stage # "WRITTEN" /\ (r.op \in {"LOGIN", "REFRESH"} => r.stage = "READ")
          /\ (r.op = "REUSE" => r.stage = "SWEEPING")
          /\ (r.op = "CHANGE_INITIAL" => r.stage # "SWEEPING")
      OBVIOUS
    <3> QED BY <2>2, <3>1, <3>2
  <2> QED BY <2>1, <2>2
<1>7. LocksHeld'
  BY <1>1, <1>2, <1>3 DEF AccountsInv, LocksHeld, TokenLocked, LiveTokens
<1>8. SuccessorsOrdered'
  BY DEF AccountsInv, SuccessorsOrdered, TokensExchangedOnce
<1>9. RowsHeld'
  BY <1>2, <1>3 DEF AccountsInv, RowsHeld, Transactions, Admitted
<1>10. OverlapsKnown'
  <2>1. \A u : LiveTokens(u)' = LiveTokens(u) /\ Admitted(u)' = Admitted(u)
    BY DEF LiveTokens, Admitted
  <2>2. \A u : LetInto(u)' \subseteq LetInto(u) \union {c}
    BY <1>2 DEF LetInto, InFlight
  <2>3. \A u : c \in LetInto(u)' => u = r.user /\ r.op \in {"LOGIN", "REFRESH"}
    BY <1>2 DEF LetInto, InFlight
  <2>4. \A d \in Call : d \in InFlight("BLOCK")' /\ calls'[d].stage = "SWEEPING" =>
          d # c /\ d \in InFlight("BLOCK") /\ calls[d].stage = "SWEEPING"
    BY <1>2 DEF InFlight
  <2>5. \A d \in Call : d \in InFlight("BLOCK")' /\ calls'[d].stage = "SWEEPING" =>
          /\ LetInto(calls[d].user)' \subseteq overlapped'
          /\ LiveTokens(calls[d].user)' \ calls'[d].seen \subseteq overlapped'
    <3> TAKE d \in Call
    <3> HAVE d \in InFlight("BLOCK")' /\ calls'[d].stage = "SWEEPING"
    <3>1. calls'[d] = calls[d] /\ calls[d] # None /\ calls[d].op = "BLOCK"
          /\ calls[d].stage = "SWEEPING"
      BY <1>2, <2>4 DEF InFlight
    <3>2. calls[d].user = r.user => Holding(r.user, {"BLOCK"})
      BY <3>1 DEF Holding
    <3> QED BY <2>1, <2>2, <2>3, <2>4, <3>1, <3>2 DEF AccountsInv, OverlapsKnown
  <2>6. \A u \in User : ~Admitted(u)' =>
          LetInto(u)' \union LiveTokens(u)' \subseteq overlapped'
    BY <2>1, <2>2, <2>3 DEF AccountsInv, OverlapsKnown
  <2>7. InFlight("BLOCK")' \subseteq Call
    BY DEF InFlight
  <2> QED BY <2>5, <2>6, <2>7 DEF OverlapsKnown
<1>11. ReadingsFresh'
  BY <1>2, <1>3 DEF AccountsInv, ReadingsFresh, HasRole, AnotherSuperAdmin, TakesOneAway
<1>12. SuperAdminStays'
  BY DEF AccountsInv, SuperAdminStays, SuperAdminRemains, HasRole, Admitted
<1> QED BY <1>4, <1>5, <1>6, <1>7, <1>8, <1>9, <1>10, <1>11, <1>12 DEF AccountsInv

LEMMA IntentsKept ==
  ASSUME Intents, \A d \in Call : calls'[d] = None \/ calls'[d] = calls[d]
  PROVE  Intents'
<1> SUFFICES ASSUME NEW d \in Call PROVE Intents!(d)'
  BY DEF Intents
<1>1. CASE calls'[d] = None
  BY <1>1
<1>2. CASE calls'[d] = calls[d]
  <2>1. Intents!(d)
    BY DEF Intents
  <2> QED BY <1>2, <2>1
<1> QED BY <1>1, <1>2

\* A call that ends without writing.
LEMMA CallEnds ==
  ASSUME AccountsAssumption, AccountsInv, NEW c \in Call, Abandon(c)
  PROVE  AccountsInv'
<1>1. calls[c] # None /\ calls'[c] = None /\ \A d \in Call : d # c => calls'[d] = calls[d]
  BY DEF AccountsInv, AccountsTypeOK, Abandon, Finished
<1>2. UNCHANGED <<account, tokens, begun, assigned, raced, overlapped>>
  BY DEF Abandon
<1>3. AccountsTypeOK'
  BY <1>1, <1>2 DEF AccountsInv, AccountsTypeOK, Abandon, Finished
<1>4. Numbered' /\ Intents'
  BY <1>1, <1>2, IntentsKept DEF AccountsInv, Numbered
<1>5. LocksHeld' /\ SuccessorsOrdered'
  BY <1>1, <1>2 DEF AccountsInv, LocksHeld, SuccessorsOrdered, TokensExchangedOnce
<1>6. RowsHeld'
  BY <1>1, <1>2 DEF AccountsInv, RowsHeld, Admitted
<1>7. OverlapsKnown'
  BY <1>1, <1>2 DEF AccountsInv, OverlapsKnown, LetInto, InFlight, LiveTokens, Admitted
<1>8. ReadingsFresh' /\ SuperAdminStays'
  BY <1>1, <1>2 DEF AccountsInv, ReadingsFresh, SuperAdminStays, SuperAdminRemains, HasRole,
                    AnotherSuperAdmin, Admitted, TakesOneAway
<1> QED BY <1>3, <1>4, <1>5, <1>6, <1>7, <1>8 DEF AccountsInv

\* login stores its token.
LEMMA FirstTokenIssued ==
  ASSUME AccountsAssumption, AccountsInv, NEW c \in Call, IssueFirstToken(c)
  PROVE  AccountsInv'
<1> DEFINE new == NewToken(calls[c].user, NoValue)
<1>1. calls[c] # None /\ calls'[c] = None /\ \A d \in Call : d # c => calls'[d] = calls[d]
  BY DEF AccountsInv, AccountsTypeOK, IssueFirstToken, Finished
<1>2. UNCHANGED <<account, begun, assigned, raced, overlapped>>
  BY DEF IssueFirstToken
<1>3. calls[c].user \in User /\ calls[c].op = "LOGIN"
  BY <1>1 DEF AccountsInv, AccountsTypeOK, IssueFirstToken, CallRow
<1>4. new \in TokenRow /\ new # None /\ new.user = calls[c].user /\ new.parent = NoValue
  BY <1>3, NewTokenRow DEF AccountsAssumption
<1> HIDE DEF new
<1>5. tokens'[c] = new /\ tokens' = [tokens EXCEPT ![c] = new]
      /\ \A t \in Call : t # c => tokens'[t] = tokens[t]
  BY DEF AccountsInv, AccountsTypeOK, IssueFirstToken, new
<1>6. tokens[c] = None
  BY <1>1 DEF AccountsInv, Numbered
<1>7. AccountsTypeOK'
  BY <1>1, <1>2, <1>4, <1>5 DEF AccountsInv, AccountsTypeOK, IssueFirstToken, Finished
<1>8. Numbered'
  BY <1>1, <1>2, <1>4, <1>5 DEF AccountsInv, Numbered
<1>9. Intents'
  BY <1>1, IntentsKept DEF AccountsInv
<1>10. LocksHeld'
  BY <1>1, <1>5, <1>6 DEF AccountsInv, LocksHeld, AccountsTypeOK, CallRow
<1>11. SuccessorsOrdered'
  BY <1>4, <1>5, <1>6 DEF AccountsInv, SuccessorsOrdered, TokensExchangedOnce,
                          AccountsTypeOK, TokenRow
<1>12. RowsHeld'
  BY <1>1, <1>2 DEF AccountsInv, RowsHeld, Admitted
<1>13. OverlapsKnown'
  <2>1. \A u : Admitted(u)' = Admitted(u) /\ LetInto(u)' \subseteq LetInto(u)
    BY <1>1, <1>2 DEF Admitted, LetInto, InFlight
  <2>2. \A u : LiveTokens(u)' \subseteq LiveTokens(u) \union {c}
    BY <1>5 DEF LiveTokens
  <2>3. \A u : c \in LiveTokens(u)' => c \in LetInto(u)
    BY <1>1, <1>3, <1>4, <1>5 DEF LiveTokens, LetInto, InFlight
  <2>4. \A d \in Call : d \in InFlight("BLOCK")' => d # c /\ d \in InFlight("BLOCK")
    BY <1>1 DEF InFlight
  <2>5. \A d \in InFlight("BLOCK") : d # c /\ calls[d].stage = "SWEEPING" =>
          /\ LetInto(calls[d].user)' \subseteq overlapped'
          /\ LiveTokens(calls[d].user)' \ calls[d].seen \subseteq overlapped'
    <3> TAKE d \in InFlight("BLOCK")
    <3> HAVE d # c /\ calls[d].stage = "SWEEPING"
    <3>1. calls'[d] = calls[d]
      BY <1>1 DEF InFlight
    <3>2. /\ LetInto(calls[d].user) \subseteq overlapped
          /\ LiveTokens(calls[d].user) \ calls[d].seen \subseteq overlapped
      BY DEF AccountsInv, OverlapsKnown
    <3> QED BY <1>2, <2>1, <2>2, <2>3, <3>1, <3>2
  <2>6. \A u \in User : ~Admitted(u)' =>
          LetInto(u)' \union LiveTokens(u)' \subseteq overlapped'
    BY <1>2, <2>1, <2>2, <2>3 DEF AccountsInv, OverlapsKnown
  <2>7. InFlight("BLOCK")' \subseteq Call
    BY DEF InFlight
  <2> QED BY <1>1, <2>4, <2>5, <2>6, <2>7 DEF OverlapsKnown
<1>14. ReadingsFresh' /\ SuperAdminStays'
  BY <1>1, <1>2 DEF AccountsInv, ReadingsFresh, SuperAdminStays, SuperAdminRemains, HasRole,
                    AnotherSuperAdmin, Admitted, TakesOneAway
<1> QED BY <1>7, <1>8, <1>9, <1>10, <1>11, <1>12, <1>13, <1>14 DEF AccountsInv

\* refreshAccessToken exchanges the token it holds.
LEMMA RefreshCompleted ==
  ASSUME AccountsAssumption, AccountsInv, NEW c \in Call, CompleteRefresh(c)
  PROVE  AccountsInv'
<1> DEFINE new == NewToken(calls[c].user, calls[c].token)
           t == calls[c].token
<1>1. calls[c] # None /\ calls'[c] = None /\ \A d \in Call : d # c => calls'[d] = calls[d]
  BY DEF AccountsInv, AccountsTypeOK, CompleteRefresh, Finished
<1>2. UNCHANGED <<account, begun, assigned, raced, overlapped>>
  BY DEF CompleteRefresh
<1>3. calls[c].user \in User /\ calls[c].op = "REFRESH" /\ t \in Call
      /\ tokens[t] # None /\ ~tokens[t].revoked
      /\ \A d \in Call : d # c /\ calls[d] # None => calls[d].token # t
  BY <1>1 DEF AccountsInv, AccountsTypeOK, CompleteRefresh, CallRow, LocksHeld
<1>4. new \in TokenRow /\ new # None /\ new.user = calls[c].user /\ new.parent = t
  BY <1>3, NewTokenRow DEF AccountsAssumption
<1>5. tokens[c] = None /\ c # t
  BY <1>1, <1>3 DEF AccountsInv, Numbered
<1>6. /\ Revoked(tokens, {t}) \in [Call -> TokenRow \union {None}]
      /\ \A v \in Call : v # t => Revoked(tokens, {t})[v] = tokens[v]
      /\ Revoked(tokens, {t})[t] # None /\ Revoked(tokens, {t})[t].revoked
      /\ Revoked(tokens, {t})[t].user = tokens[t].user
      /\ Revoked(tokens, {t})[t].parent = tokens[t].parent
  BY <1>3, RevokedTokens DEF AccountsInv, AccountsTypeOK
<1>7. tokens' = [Revoked(tokens, {t}) EXCEPT ![c] = new]
  BY DEF CompleteRefresh
<1> HIDE DEF new, t
<1>8. /\ tokens' \in [Call -> TokenRow \union {None}]
      /\ tokens'[c] = new
      /\ \A v \in Call : v # t /\ v # c => tokens'[v] = tokens[v]
      /\ tokens'[t] # None /\ tokens'[t].revoked
      /\ tokens'[t].user = tokens[t].user /\ tokens'[t].parent = tokens[t].parent
  BY <1>3, <1>4, <1>5, <1>6, <1>7
<1>9. AccountsTypeOK'
  BY <1>1, <1>2, <1>8 DEF AccountsInv, AccountsTypeOK, CompleteRefresh, Finished
<1>10. Numbered'
  BY <1>1, <1>2, <1>3, <1>4, <1>8 DEF AccountsInv, Numbered
<1>11. Intents'
  BY <1>1, IntentsKept DEF AccountsInv
<1>12. LocksHeld'
  BY <1>1, <1>3, <1>5, <1>8 DEF AccountsInv, LocksHeld, AccountsTypeOK, CallRow
<1>13. SuccessorsOrdered'
  <2>1. \A d \in Call : tokens[d] # None /\ tokens[d].parent # NoValue =>
          tokens[d].parent # t /\ tokens[d].parent # c
    BY <1>3, <1>5 DEF AccountsInv, SuccessorsOrdered
  <2>2. \A d \in Call : tokens[d] # None => tokens[d].parent \in Call \union {NoValue}
    BY DEF AccountsInv, AccountsTypeOK, TokenRow
  <2>3. \A d \in Call : d # c => (tokens'[d] # None <=> tokens[d] # None)
          /\ tokens'[d].parent = tokens[d].parent
          /\ (tokens[d].revoked => tokens'[d].revoked)
    BY <1>3, <1>8
  <2>4. \A d \in Call : tokens'[d] # None /\ tokens'[d].parent # NoValue =>
          tokens'[tokens'[d].parent] # None /\ tokens'[tokens'[d].parent].revoked
    BY <1>3, <1>4, <1>8, <2>1, <2>2, <2>3 DEF AccountsInv, SuccessorsOrdered
  <2>5. TokensExchangedOnce'
    BY <1>3, <1>4, <1>8, <2>1, <2>3 DEF AccountsInv, SuccessorsOrdered, TokensExchangedOnce
  <2> QED BY <2>4, <2>5 DEF SuccessorsOrdered
<1>14. RowsHeld'
  BY <1>1, <1>2 DEF AccountsInv, RowsHeld, Admitted
<1>15. OverlapsKnown'
  <2>1. \A u : Admitted(u)' = Admitted(u) /\ LetInto(u)' \subseteq LetInto(u)
    BY <1>1, <1>2 DEF Admitted, LetInto, InFlight
  <2>2. \A u : LiveTokens(u)' \subseteq LiveTokens(u) \union {c}
    BY <1>3, <1>8 DEF LiveTokens
  <2>3. \A u : c \in LiveTokens(u)' => c \in LetInto(u)
    BY <1>1, <1>3, <1>4, <1>8 DEF LiveTokens, LetInto, InFlight
  <2>4. \A d \in Call : d \in InFlight("BLOCK")' => d # c /\ d \in InFlight("BLOCK")
    BY <1>1 DEF InFlight
  <2>5. \A d \in InFlight("BLOCK") : d # c /\ calls[d].stage = "SWEEPING" =>
          /\ LetInto(calls[d].user)' \subseteq overlapped'
          /\ LiveTokens(calls[d].user)' \ calls[d].seen \subseteq overlapped'
    <3> TAKE d \in InFlight("BLOCK")
    <3> HAVE d # c /\ calls[d].stage = "SWEEPING"
    <3>1. calls'[d] = calls[d]
      BY <1>1 DEF InFlight
    <3>2. /\ LetInto(calls[d].user) \subseteq overlapped
          /\ LiveTokens(calls[d].user) \ calls[d].seen \subseteq overlapped
      BY DEF AccountsInv, OverlapsKnown
    <3> QED BY <1>2, <2>1, <2>2, <2>3, <3>1, <3>2
  <2>6. \A u \in User : ~Admitted(u)' =>
          LetInto(u)' \union LiveTokens(u)' \subseteq overlapped'
    BY <1>2, <2>1, <2>2, <2>3 DEF AccountsInv, OverlapsKnown
  <2>7. InFlight("BLOCK")' \subseteq Call
    BY DEF InFlight
  <2> QED BY <1>1, <2>4, <2>5, <2>6, <2>7 DEF OverlapsKnown
<1>16. ReadingsFresh' /\ SuperAdminStays'
  BY <1>1, <1>2 DEF AccountsInv, ReadingsFresh, SuperAdminStays, SuperAdminRemains, HasRole,
                    AnotherSuperAdmin, Admitted, TakesOneAway
<1> QED BY <1>9, <1>10, <1>11, <1>12, <1>13, <1>14, <1>15, <1>16 DEF AccountsInv

\* logout revokes one token.
LEMMA LoggedOut ==
  ASSUME AccountsAssumption, AccountsInv, NEW c \in Call, c = begun + 1, NEW t \in Call,
         Logout(c, t)
  PROVE  AccountsInv'
<1>1. tokens[t] # None /\ ~tokens[t].revoked /\ ~TokenLocked(t, c) /\ begun' = c
      /\ tokens' = Revoked(tokens, {t})
      /\ UNCHANGED <<account, calls, assigned, raced, overlapped>>
  BY DEF Logout
<1>2. calls[c] = None /\ tokens[c] = None
  BY DEF AccountsInv, Numbered, AccountsTypeOK, Call
<1>3. /\ tokens' \in [Call -> TokenRow \union {None}]
      /\ \A v \in Call : v # t => tokens'[v] = tokens[v]
      /\ tokens'[t] # None /\ tokens'[t].revoked
      /\ tokens'[t].user = tokens[t].user /\ tokens'[t].parent = tokens[t].parent
  BY <1>1, RevokedTokens DEF AccountsInv, AccountsTypeOK
<1>4. AccountsTypeOK'
  <2>1. begun' \in 0 .. MaxCalls
    BY <1>1 DEF Call
  <2> QED BY <1>1, <1>3, <2>1 DEF AccountsInv, AccountsTypeOK
<1>5. Numbered'
  <2>1. \A d \in Call : d > begun' => d > begun /\ d # c
    BY <1>1 DEF AccountsInv, AccountsTypeOK, Call
  <2>2. \A d \in Call : (tokens'[d] # None <=> tokens[d] # None)
          /\ tokens'[d].user = tokens[d].user
    BY <1>1, <1>3
  <2> QED BY <1>1, <2>1, <2>2 DEF AccountsInv, Numbered
<1>6. Intents'
  BY <1>1, IntentsKept DEF AccountsInv
<1>7. LocksHeld'
  <2>1. \A d \in Call : calls[d] # None => calls[d].token # t
    BY <1>1, <1>2 DEF TokenLocked
  <2>2. \A d \in Call : (tokens'[d] # None <=> tokens[d] # None)
          /\ tokens'[d].user = tokens[d].user
    BY <1>1, <1>3
  <2>3. \A d \in Call : calls[d] # None =>
          calls[d].token \in Call \union {NoValue} /\ calls[d].seen \subseteq Call
    BY DEF AccountsInv, AccountsTypeOK, CallRow
  <2>4. UNCHANGED calls
    BY <1>1
  <2> SUFFICES ASSUME NEW d \in Call, calls[d] # None
               PROVE  LocksHeld!(d)!2'
    BY <2>4 DEF LocksHeld
  <2>5. LocksHeld!(d)!2
    BY DEF AccountsInv, LocksHeld
  <2>6. calls[d].token # NoValue => tokens'[calls[d].token] = tokens[calls[d].token]
    BY <1>3, <2>1, <2>3
  <2>7. \A v \in calls[d].seen : tokens'[v] # None /\ tokens'[v].user = calls[d].user
    BY <2>2, <2>3, <2>5
  <2> QED BY <2>4, <2>5, <2>6, <2>7
<1>8. SuccessorsOrdered'
  <2>1. \A d \in Call : (tokens'[d] # None <=> tokens[d] # None)
          /\ tokens'[d].parent = tokens[d].parent
          /\ (tokens[d].revoked => tokens'[d].revoked)
    BY <1>1, <1>3
  <2>2. \A d \in Call : tokens[d] # None => tokens[d].parent \in Call \union {NoValue}
    BY DEF AccountsInv, AccountsTypeOK, TokenRow
  <2>3. SuccessorsOrdered
    BY DEF AccountsInv
  <2>4. \A d \in Call : tokens'[d] # None /\ tokens'[d].parent # NoValue =>
          tokens'[tokens'[d].parent] # None /\ tokens'[tokens'[d].parent].revoked
    BY <2>1, <2>2, <2>3 DEF SuccessorsOrdered
  <2>5. TokensExchangedOnce'
    BY <2>1, <2>3 DEF SuccessorsOrdered, TokensExchangedOnce
  <2> QED BY <2>4, <2>5 DEF SuccessorsOrdered
<1>9. RowsHeld'
  BY <1>1 DEF AccountsInv, RowsHeld, Admitted
<1>10. OverlapsKnown'
  <2>1. \A u : LiveTokens(u)' \subseteq LiveTokens(u)
    BY <1>1, <1>3 DEF LiveTokens
  <2>2. \A u : Admitted(u)' = Admitted(u) /\ LetInto(u)' = LetInto(u)
    BY <1>1 DEF Admitted, LetInto, InFlight
  <2>3. \A d \in InFlight("BLOCK") : calls[d].stage = "SWEEPING" =>
          /\ LetInto(calls[d].user)' \subseteq overlapped'
          /\ LiveTokens(calls[d].user)' \ calls[d].seen \subseteq overlapped'
    <3> TAKE d \in InFlight("BLOCK")
    <3> HAVE calls[d].stage = "SWEEPING"
    <3>1. /\ LetInto(calls[d].user) \subseteq overlapped
          /\ LiveTokens(calls[d].user) \ calls[d].seen \subseteq overlapped
      BY DEF AccountsInv, OverlapsKnown
    <3> QED BY <1>1, <2>1, <2>2, <3>1
  <2>4. \A u \in User : ~Admitted(u)' =>
          LetInto(u)' \union LiveTokens(u)' \subseteq overlapped'
    BY <1>1, <2>1, <2>2 DEF AccountsInv, OverlapsKnown
  <2>5. InFlight("BLOCK")' = InFlight("BLOCK") /\ calls' = calls
    BY <1>1 DEF InFlight
  <2> QED BY <2>3, <2>4, <2>5 DEF OverlapsKnown
<1>11. ReadingsFresh' /\ SuperAdminStays'
  BY <1>1 DEF AccountsInv, ReadingsFresh, SuperAdminStays, SuperAdminRemains, HasRole,
              AnotherSuperAdmin, Admitted, TakesOneAway
<1> QED BY <1>4, <1>5, <1>6, <1>7, <1>8, <1>9, <1>10, <1>11 DEF AccountsInv

\* revokeAllForUser begins: what is live is what it will revoke.
LEMMA SweepBegins ==
  ASSUME AccountsAssumption, AccountsInv, NEW c \in Call, calls[c] # None,
         NEW s \in CallRow, calls' = [calls EXCEPT ![c] = s],
         UNCHANGED <<account, tokens, begun, assigned, raced>>,
         s.op = calls[c].op, s.user = calls[c].user, s.token = calls[c].token,
         s.stage = "SWEEPING", s.seen = LiveTokens(s.user),
         s.op \notin {"LOGIN", "REFRESH", "UNBLOCK"},
         s.op # "CHANGE_INITIAL" =>
           s.values = calls[c].values /\ s.read = calls[c].read /\ s.fresh = calls[c].fresh,
         s.op = "CHANGE_INITIAL" =>
           Admitted(s.user) /\ s.values \in Password /\ s.read = account[s.user],
         s.op \in Transactions => ~RowLocked(s.user) /\ calls[c].stage = "READ",
         overlapped' = IF s.op = "BLOCK" THEN overlapped \union LetInto(s.user)
                       ELSE overlapped
  PROVE  AccountsInv'
<1>1. calls'[c] = s /\ \A d \in Call : d # c => calls'[d] = calls[d]
  BY DEF AccountsInv, AccountsTypeOK
<1>2. s # None
  BY DEF AccountsAssumption
<1>3. AccountsTypeOK'
  <2>1. overlapped' \subseteq Call
    BY DEF AccountsInv, AccountsTypeOK, LetInto, InFlight
  <2> QED BY <2>1 DEF AccountsInv, AccountsTypeOK
<1>4. Numbered'
  BY <1>1, <1>2 DEF AccountsInv, Numbered
<1>5. Intents'
  <2> SUFFICES ASSUME NEW d \in Call PROVE Intents!(d)'
    BY DEF Intents
  <2>1. CASE d # c
    <3>1. calls'[d] = calls[d]
      BY <1>1, <2>1
    <3>2. Intents!(d)
      BY DEF AccountsInv, Intents
    <3> QED BY <3>1, <3>2
  <2>2. CASE d = c
    <3>1. calls'[d] = s
      BY <1>1, <2>2
    <3>2. Intents!(c)
      BY DEF AccountsInv, Intents
    <3>3. s.op = "BLOCK" => s.values = [isActive |-> FALSE, blockedAt |-> c]
      BY <3>2
    <3>4. s.op = "ASSIGN_ROLE" => s.values \in [role : Role]
      BY <3>2
    <3>5. s.op \in {"RESET", "CHANGE_OWN", "CHANGE_INITIAL"} => s.values \in Password
      BY <3>2
    <3> QED BY <2>2, <3>1, <3>3, <3>4, <3>5
  <2> QED BY <2>1, <2>2
<1>6. LocksHeld'
  <2>1. \A t \in s.seen : tokens[t] # None /\ tokens[t].user = s.user
    BY DEF LiveTokens
  <2> QED BY <1>1, <2>1 DEF AccountsInv, LocksHeld
<1>7. SuccessorsOrdered'
  BY DEF AccountsInv, SuccessorsOrdered, TokensExchangedOnce
<1>8. RowsHeld'
  <2>1. \A d \in Call : calls[d] # None /\ calls[d].stage = "SWEEPING"
          /\ calls[d].op \in Transactions /\ s.op \in Transactions => calls[d].user # s.user
    BY DEF RowLocked, Holding, Transactions
  <2>2. \A u : Admitted(u)' = Admitted(u)
    BY DEF Admitted
  <2> QED BY <1>1, <1>2, <2>1, <2>2 DEF AccountsInv, RowsHeld
<1>9. OverlapsKnown'
  <2>1. \A u : LiveTokens(u)' = LiveTokens(u) /\ Admitted(u)' = Admitted(u)
    BY DEF LiveTokens, Admitted
  <2>2. \A u : LetInto(u)' = LetInto(u)
    BY <1>1, <1>2 DEF LetInto, InFlight
  <2>3. overlapped \subseteq overlapped'
    OBVIOUS
  <2>4. \A d \in Call : d \in InFlight("BLOCK")' /\ calls'[d].stage = "SWEEPING" =>
          /\ LetInto(calls[d].user)' \subseteq overlapped'
          /\ LiveTokens(calls[d].user)' \ calls'[d].seen \subseteq overlapped'
    <3> TAKE d \in Call
    <3> HAVE d \in InFlight("BLOCK")' /\ calls'[d].stage = "SWEEPING"
    <3>1. CASE d = c
      <4>1. s.op = "BLOCK" /\ calls'[d] = s
        BY <1>1, <3>1 DEF InFlight
      <4>2. LetInto(s.user) \subseteq overlapped' /\ LiveTokens(s.user) \ s.seen = {}
        BY <4>1
      <4>3. calls'[d].user = s.user
        BY <4>1
      <4> QED BY <2>1, <2>2, <4>1, <4>2, <4>3
    <3>2. CASE d # c
      <4>1. calls'[d] = calls[d] /\ d \in InFlight("BLOCK") /\ calls[d].stage = "SWEEPING"
        BY <1>1, <3>2 DEF InFlight
      <4>2. /\ LetInto(calls[d].user) \subseteq overlapped
            /\ LiveTokens(calls[d].user) \ calls[d].seen \subseteq overlapped
        BY <4>1 DEF AccountsInv, OverlapsKnown
      <4> QED BY <2>1, <2>2, <2>3, <4>1, <4>2
    <3> QED BY <3>1, <3>2
  <2>5. \A u \in User : ~Admitted(u)' =>
          LetInto(u)' \union LiveTokens(u)' \subseteq overlapped'
    BY <2>1, <2>2, <2>3 DEF AccountsInv, OverlapsKnown
  <2>6. InFlight("BLOCK")' \subseteq Call
    BY DEF InFlight
  <2> QED BY <2>4, <2>5, <2>6 DEF OverlapsKnown
<1>10. ReadingsFresh'
  <2>1. \A u : HasRole(u, "SUPER_ADMIN")' = HasRole(u, "SUPER_ADMIN")
               /\ AnotherSuperAdmin(u)' = AnotherSuperAdmin(u)
    BY DEF HasRole, AnotherSuperAdmin
  <2> SUFFICES ASSUME NEW d \in Call, calls'[d] # None, calls'[d].fresh,
                      calls'[d].stage = "READ" \/ calls'[d].op \in Transactions
               PROVE  /\ account[calls'[d].user] = calls'[d].read
                      /\ TakesOneAway(calls'[d]) /\ HasRole(calls'[d].user, "SUPER_ADMIN") =>
                           AnotherSuperAdmin(calls'[d].user)
    BY DEF ReadingsFresh, HasRole, AnotherSuperAdmin, TakesOneAway
  <2>2. CASE d # c
    BY <1>1, <2>2 DEF AccountsInv, ReadingsFresh
  <2>3. CASE d = c
    <3>1. calls'[d] = s /\ s.op \in Transactions
      BY <1>1, <2>3
    <3>2. CASE s.op = "CHANGE_INITIAL"
      BY <3>1, <3>2 DEF TakesOneAway
    <3>3. CASE s.op # "CHANGE_INITIAL"
      BY <2>3, <3>1, <3>3 DEF AccountsInv, ReadingsFresh, TakesOneAway
    <3> QED BY <3>2, <3>3
  <2> QED BY <2>2, <2>3
<1>11. SuperAdminStays'
  BY DEF AccountsInv, SuperAdminStays, SuperAdminRemains, HasRole, Admitted
<1> QED BY <1>3, <1>4, <1>5, <1>6, <1>7, <1>8, <1>9, <1>10, <1>11 DEF AccountsInv

\* An account is written by somebody whose reading is fresh: a super admin is left.
LEMMA SuperAdminKept ==
  ASSUME AccountsAssumption, AccountsTypeOK, SuperAdminStays,
         ~raced, NEW u \in User,
         \A v \in User : v # u => account'[v] = account[v],
         account'[u] # None,
         account'[u].isActive <=> account'[u].blockedAt = NoValue,
         (account[u] # None /\ account[u].role = "SUPER_ADMIN" /\ account[u].isActive) =>
           \/ account'[u].role = "SUPER_ADMIN" /\ account'[u].isActive
           \/ AnotherSuperAdmin(u)
  PROVE  SuperAdminStays'
<1>1. \A v \in User : account'[v] # None =>
        (account'[v].isActive <=> account'[v].blockedAt = NoValue)
  BY DEF SuperAdminStays
<1>2. \E v \in User : account'[v] # None /\ account'[v].role = "SUPER_ADMIN"
                      /\ account'[v].isActive
  <2>1. PICK v \in User : account[v] # None /\ account[v].role = "SUPER_ADMIN"
                          /\ account[v].isActive
    BY DEF SuperAdminStays, SuperAdminRemains, HasRole, Admitted
  <2>2. CASE v # u
    BY <2>1, <2>2
  <2>3. CASE v = u
    BY <2>1, <2>3 DEF AnotherSuperAdmin, HasRole
  <2> QED BY <2>2, <2>3
<1>3. SuperAdminRemains'
  BY <1>1, <1>2 DEF SuperAdminRemains, HasRole, Admitted
<1> QED BY <1>1, <1>3 DEF SuperAdminStays

LEMMA OutdatedCalls ==
  ASSUME AccountsAssumption, NEW table \in [Call -> CallRow \union {None}], NEW c \in Call
  PROVE  /\ Outdate(c, table) \in [Call -> CallRow \union {None}]
         /\ Outdate(c, table)[c] = table[c]
         /\ \A d \in Call : d # c /\ table[d] = None => Outdate(c, table)[d] = None
         /\ \A d \in Call : d # c /\ table[d] # None =>
              /\ Outdate(c, table)[d] # None /\ ~Outdate(c, table)[d].fresh
              /\ Outdate(c, table)[d].op = table[d].op
              /\ Outdate(c, table)[d].user = table[d].user
              /\ Outdate(c, table)[d].stage = table[d].stage
              /\ Outdate(c, table)[d].values = table[d].values
              /\ Outdate(c, table)[d].token = table[d].token
              /\ Outdate(c, table)[d].seen = table[d].seen
<1> DEFINE new == Outdate(c, table)
<1>1. \A d \in Call : new[d] = IF d # c /\ table[d] # None
                               THEN [table[d] EXCEPT !.fresh = FALSE] ELSE table[d]
  BY DEF Outdate
<1>2. new = [d \in Call |-> new[d]]
  BY DEF Outdate
<1>3. \A d \in Call : d # c /\ table[d] # None =>
        /\ new[d] \in CallRow /\ ~new[d].fresh
        /\ new[d].op = table[d].op /\ new[d].user = table[d].user
        /\ new[d].stage = table[d].stage /\ new[d].values = table[d].values
        /\ new[d].token = table[d].token /\ new[d].seen = table[d].seen
  <2> TAKE d \in Call
  <2> HAVE d # c /\ table[d] # None
  <2>1. table[d] \in CallRow /\ new[d] = [table[d] EXCEPT !.fresh = FALSE]
    BY <1>1
  <2> HIDE DEF new
  <2> QED BY <2>1 DEF CallRow
<1>4. \A d \in Call : ~(d # c /\ table[d] # None) => new[d] = table[d]
  BY <1>1
<1>5. None \notin CallRow
  BY DEF AccountsAssumption
<1> HIDE DEF new
<1>6. \A d \in Call : new[d] \in CallRow \union {None}
  BY <1>3, <1>4
<1>7. new \in [Call -> CallRow \union {None}]
  BY <1>2, <1>6
<1> QED BY <1>3, <1>4, <1>5, <1>7 DEF new

LEMMA IntentsCarried ==
  ASSUME Intents,
         \A d \in Call : calls'[d] # None =>
           /\ calls[d] # None
           /\ calls'[d].op = calls[d].op /\ calls'[d].values = calls[d].values
           /\ \/ calls'[d].stage = calls[d].stage
              \/ calls'[d].stage = "WRITTEN" /\ calls[d].op \in {"CHANGE_OWN", "ASSIGN_ROLE"}
  PROVE  Intents'
<1> SUFFICES ASSUME NEW d \in Call, calls'[d] # None PROVE Intents!(d)!2'
  BY DEF Intents
<1>1. Intents!(d)!2
  BY DEF Intents
<1>2. CASE calls'[d].stage = calls[d].stage
  BY <1>1, <1>2
<1>3. CASE calls'[d].stage = "WRITTEN" /\ calls[d].op \in {"CHANGE_OWN", "ASSIGN_ROLE"}
  BY <1>1, <1>3 DEF Transactions
<1> QED BY <1>2, <1>3

\* One call has written the account of its user, or not; the others go on as they
\* were, but what they have read is out of date if it has.
CarriedOn(c) ==
  \A d \in Call : d # c =>
    /\ calls[d] = None => calls'[d] = None
    /\ calls[d] # None =>
         /\ calls'[d] # None /\ calls'[d].op = calls[d].op
         /\ calls'[d].user = calls[d].user /\ calls'[d].stage = calls[d].stage
         /\ calls'[d].values = calls[d].values /\ calls'[d].token = calls[d].token
         /\ calls'[d].seen = calls[d].seen

\* What a call writes: the row and what becomes of the user.
LEMMA RowWritten ==
  ASSUME AccountsAssumption, AccountsInv, NEW c \in Call, calls[c] # None,
         NEW u \in User, u = calls[c].user,
         calls[c].op \in {"CHANGE_OWN", "ASSIGN_ROLE", "UNBLOCK", "BLOCK", "RESET",
                          "CHANGE_INITIAL"},
         calls[c].op = "CHANGE_INITIAL" => calls[c].stage = "SWEEPING",
         Write(c, Updated(account[calls[c].user], calls[c].read, calls[c].values))
  PROVE  /\ account' \in [User -> AccountRow \union {None}]
         /\ \A v \in User : account[v] # None => account'[v] # None
         /\ \A v \in User : v # u => account'[v] = account[v]
         /\ Admitted(u) /\ calls[c].op # "BLOCK" => Admitted(u)'
         /\ calls[c].op \in {"RESET", "CHANGE_INITIAL"} => Admitted(u)' = Admitted(u)
         /\ raced' \in BOOLEAN
         /\ calls[c].stage = "READ" \/ calls[c].op \in Transactions => SuperAdminStays'
<1> DEFINE read == calls[c].read
           values == calls[c].values
           row == Updated(account[u], read, values)
<1>1. read \in AccountRow /\ account[u] \in AccountRow /\ account[u] # None
  BY DEF AccountsInv, AccountsTypeOK, CallRow, Numbered
<1>2. /\ account' = [account EXCEPT ![u] = row]
      /\ raced' = (raced \/ ~calls[c].fresh)
  BY DEF Write
<1>3. calls[c].op \in {"CHANGE_OWN", "RESET", "CHANGE_INITIAL"} => values \in Password
  BY DEF AccountsInv, Intents
<1>4. calls[c].op = "ASSIGN_ROLE" => values \in [role : Role]
  BY DEF AccountsInv, Intents
<1>5. calls[c].op = "UNBLOCK" =>
        values \in Activity /\ values.isActive = TRUE /\ values.blockedAt = NoValue
  <2>1. [isActive |-> TRUE, blockedAt |-> NoValue] \in Activity
    BY DEF Activity
  <2>2. calls[c].op = "UNBLOCK" => values = [isActive |-> TRUE, blockedAt |-> NoValue]
    BY DEF AccountsInv, Intents
  <2>3. /\ [isActive |-> TRUE, blockedAt |-> NoValue].isActive = TRUE
        /\ [isActive |-> TRUE, blockedAt |-> NoValue].blockedAt = NoValue
    OBVIOUS
  <2> HIDE DEF values
  <2> QED BY <2>1, <2>2, <2>3, Zenon
<1>6. calls[c].op = "BLOCK" =>
        values \in Activity /\ values.isActive = FALSE /\ values.blockedAt # NoValue
  <2>1. [isActive |-> FALSE, blockedAt |-> c] \in Activity
    BY DEF Activity
  <2>2. calls[c].op = "BLOCK" => values = [isActive |-> FALSE, blockedAt |-> c]
    BY DEF AccountsInv, Intents
  <2>3. c # NoValue
    BY DEF AccountsAssumption
  <2>4. /\ [isActive |-> FALSE, blockedAt |-> c].isActive = FALSE
        /\ [isActive |-> FALSE, blockedAt |-> c].blockedAt = c
    OBVIOUS
  <2> HIDE DEF values
  <2> QED BY <2>1, <2>2, <2>3, <2>4, Zenon
<1> HIDE DEF read, values
<1>7. calls[c].op \in {"CHANGE_OWN", "RESET", "CHANGE_INITIAL"} =>
        /\ row \in AccountRow /\ row.role = account[u].role
        /\ row.isActive = account[u].isActive /\ row.blockedAt = account[u].blockedAt
  <2> HAVE calls[c].op \in {"CHANGE_OWN", "RESET", "CHANGE_INITIAL"}
  <2>1. values \in Password
    BY <1>3
  <2>2. PICK old \in AccountRow, seen \in AccountRow, new \in Password :
          old = account[u] /\ seen = read /\ new = values
    BY <1>1, <2>1
  <2>3. LET written == Updated(old, seen, new)
        IN /\ written \in AccountRow /\ written.role = old.role
           /\ written.isActive = old.isActive /\ written.blockedAt = old.blockedAt
    BY PasswordWritten
  <2>4. row = Updated(old, seen, new)
    BY <2>2
  <2> HIDE DEF row
  <2> QED BY <2>2, <2>3, <2>4
<1>8. calls[c].op = "ASSIGN_ROLE" =>
        /\ row \in AccountRow /\ row.isActive = account[u].isActive
        /\ row.blockedAt = account[u].blockedAt
        /\ account[u] = read => row.role = values.role
  <2> HAVE calls[c].op = "ASSIGN_ROLE"
  <2>1. values \in [role : Role]
    BY <1>4
  <2>2. PICK old \in AccountRow, seen \in AccountRow, new \in [role : Role] :
          old = account[u] /\ seen = read /\ new = values
    BY <1>1, <2>1
  <2>3. LET written == Updated(old, seen, new)
        IN /\ written \in AccountRow /\ written.isActive = old.isActive
           /\ written.blockedAt = old.blockedAt
           /\ old = seen => written.role = new.role
    BY RoleWritten
  <2>4. row = Updated(old, seen, new)
    BY <2>2
  <2> HIDE DEF row
  <2> QED BY <2>2, <2>3, <2>4
<1>9. calls[c].op \in {"BLOCK", "UNBLOCK"} =>
        /\ row \in AccountRow /\ row.role = account[u].role
        /\ account[u] = read =>
             row.isActive = values.isActive /\ row.blockedAt = values.blockedAt
        /\ row.isActive \in {values.isActive, account[u].isActive}
        /\ row.blockedAt \in {values.blockedAt, account[u].blockedAt}
  BY <1>1, <1>5, <1>6, ActivityWritten, Zenon
<1> HIDE DEF row
<1>10. row \in AccountRow /\ row # None
  BY <1>7, <1>8, <1>9 DEF AccountsAssumption
<1>11. account' \in [User -> AccountRow \union {None}] /\ account'[u] = row
       /\ \A v \in User : v # u => account'[v] = account[v]
  BY <1>1, <1>2, <1>10 DEF AccountsInv, AccountsTypeOK
<1>12. Admitted(u) /\ calls[c].op # "BLOCK" => Admitted(u)'
  <2>1. CASE calls[c].op \in {"CHANGE_OWN", "RESET", "CHANGE_INITIAL"}
    BY <1>7, <1>10, <1>11, <2>1 DEF Admitted
  <2>2. CASE calls[c].op = "ASSIGN_ROLE"
    BY <1>8, <1>10, <1>11, <2>2 DEF Admitted
  <2>3. CASE calls[c].op = "UNBLOCK"
    BY <1>5, <1>9, <1>10, <1>11, <2>3 DEF Admitted
  <2> QED BY <2>1, <2>2, <2>3
<1>13. calls[c].op \in {"RESET", "CHANGE_INITIAL"} => Admitted(u)' = Admitted(u)
  BY <1>1, <1>7, <1>10, <1>11 DEF Admitted
<1>14. raced' \in BOOLEAN
  BY <1>2 DEF AccountsInv, AccountsTypeOK
<1>15. calls[c].stage = "READ" \/ calls[c].op \in Transactions => SuperAdminStays'
  <2> HAVE calls[c].stage = "READ" \/ calls[c].op \in Transactions
  <2>1. CASE raced'
    BY <2>1 DEF SuperAdminStays, SuperAdminRemains
  <2>2. CASE ~raced'
    <3>1. ~raced /\ calls[c].fresh
      BY <1>2, <2>2
    <3>2. /\ account[u] = read
          /\ TakesOneAway(calls[c]) /\ HasRole(u, "SUPER_ADMIN") => AnotherSuperAdmin(u)
      BY <3>1 DEF AccountsInv, ReadingsFresh, read
    <3>3. account[u].isActive <=> account[u].blockedAt = NoValue
      BY <1>1, <3>1 DEF AccountsInv, SuperAdminStays
    <3>4. row.isActive <=> row.blockedAt = NoValue
      <4>1. CASE calls[c].op \in {"CHANGE_OWN", "RESET", "CHANGE_INITIAL", "ASSIGN_ROLE"}
        BY <1>7, <1>8, <3>3, <4>1
      <4>2. CASE calls[c].op \in {"BLOCK", "UNBLOCK"}
        BY <1>5, <1>6, <1>9, <3>2, <4>2
      <4> QED BY <4>1, <4>2
    <3>5. account[u].role = "SUPER_ADMIN" /\ account[u].isActive =>
            \/ row.role = "SUPER_ADMIN" /\ row.isActive
            \/ AnotherSuperAdmin(u)
      <4> HAVE account[u].role = "SUPER_ADMIN" /\ account[u].isActive
      <4>1. CASE calls[c].op \in {"CHANGE_OWN", "RESET", "CHANGE_INITIAL"}
        BY <1>7, <4>1
      <4>2. CASE calls[c].op = "ASSIGN_ROLE"
        BY <1>1, <1>8, <3>2, <4>2 DEF TakesOneAway, HasRole, values
      <4>3. CASE calls[c].op = "BLOCK"
        BY <1>1, <3>2, <4>3 DEF TakesOneAway, HasRole
      <4>4. CASE calls[c].op = "UNBLOCK"
        BY <1>5, <1>9, <3>2, <4>4
      <4> QED BY <4>1, <4>2, <4>3, <4>4
    <3>6. AccountsTypeOK /\ SuperAdminStays 
      BY DEF AccountsInv
    <3>7. account'[u] # None /\ account' \in [User -> AccountRow \union {None}]
      BY <1>10, <1>11
    <3> QED BY <1>11, <3>1, <3>3, <3>4, <3>5, <3>6, <3>7, SuperAdminKept
  <2> QED BY <2>1, <2>2
<1> QED BY <1>1, <1>10, <1>11, <1>12, <1>13, <1>14, <1>15

\* changeOwnPassword, assignRole and unblockUser write in a statement of their own.
LEMMA WrittenAlone ==
  ASSUME AccountsAssumption, AccountsInv, NEW c \in Call, WriteAlone(c)
  PROVE  AccountsInv'
<1> DEFINE table == IF calls[c].op = "UNBLOCK" THEN Finished(c)
                    ELSE [calls EXCEPT ![c].stage = "WRITTEN"]
<1>1. /\ calls[c] # None /\ calls[c] \in CallRow /\ calls[c].stage = "READ"
      /\ calls[c].op \in {"CHANGE_OWN", "ASSIGN_ROLE", "UNBLOCK"}
      /\ ~RowLocked(calls[c].user)
      /\ UNCHANGED <<tokens, begun, assigned, overlapped>>
  BY DEF WriteAlone, AccountsInv, AccountsTypeOK
<1>2. PICK u \in User : u = calls[c].user
  BY <1>1 DEF CallRow
<1>3. Write(c, Updated(account[calls[c].user], calls[c].read, calls[c].values))
      /\ calls' = Outdate(c, table)
  BY DEF WriteAlone
<1>4. /\ account' \in [User -> AccountRow \union {None}]
      /\ \A v \in User : account[v] # None => account'[v] # None
      /\ \A v \in User : v # u => account'[v] = account[v]
      /\ Admitted(u) => Admitted(u)'
      /\ raced' \in BOOLEAN
      /\ SuperAdminStays'
  BY <1>1, <1>2, <1>3, RowWritten
<1>5. /\ table \in [Call -> CallRow \union {None}]
      /\ \A d \in Call : d # c => table[d] = calls[d]
      /\ calls[c].op = "UNBLOCK" => table[c] = None
      /\ calls[c].op # "UNBLOCK" =>
           /\ table[c] # None /\ table[c].op = calls[c].op /\ table[c].stage = "WRITTEN"
           /\ table[c].user = calls[c].user /\ table[c].values = calls[c].values
           /\ table[c].token = calls[c].token /\ table[c].seen = calls[c].seen
  <2>1. CASE calls[c].op = "UNBLOCK"
    BY <2>1 DEF AccountsInv, AccountsTypeOK, Finished
  <2>2. CASE calls[c].op # "UNBLOCK"
    <3>1. [calls[c] EXCEPT !.stage = "WRITTEN"] \in CallRow
      BY <1>1 DEF CallRow
    <3>2. table = [calls EXCEPT ![c] = [calls[c] EXCEPT !.stage = "WRITTEN"]]
      BY <2>2
    <3>3. table[c] = [calls[c] EXCEPT !.stage = "WRITTEN"]
          /\ \A d \in Call : d # c => table[d] = calls[d]
      BY <3>2 DEF AccountsInv, AccountsTypeOK
    <3>4. table \in [Call -> CallRow \union {None}]
      <4> DEFINE written == [calls[c] EXCEPT !.stage = "WRITTEN"]
      <4>1. written \in CallRow /\ table = [calls EXCEPT ![c] = written]
        BY <3>1, <3>2
      <4> HIDE DEF written, table
      <4> QED BY <4>1 DEF AccountsInv, AccountsTypeOK
    <3>5. table[c] # None
      BY <3>1, <3>3 DEF AccountsAssumption
    <3> HIDE DEF table
    <3> QED BY <1>1, <2>2, <3>3, <3>4, <3>5 DEF CallRow
  <2> QED BY <2>1, <2>2
<1> HIDE DEF table
<1>6. /\ calls' \in [Call -> CallRow \union {None}]
      /\ calls'[c] = table[c]
      /\ \A d \in Call : d # c /\ calls[d] # None => ~calls'[d].fresh
  BY <1>3, <1>5, OutdatedCalls
<1>7. CarriedOn(c)
  BY <1>3, <1>5, OutdatedCalls DEF CarriedOn
<1>8. AccountsTypeOK'
  BY <1>1, <1>4, <1>6 DEF AccountsInv, AccountsTypeOK
<1>9. Numbered'
  <2>1. \A d \in Call : calls'[d] # None => calls[d] # None /\ calls'[d].user = calls[d].user
    BY <1>1, <1>5, <1>6, <1>7 DEF CarriedOn
  <2>2. \A d \in Call : /\ calls[d] # None => calls[d].user \in User
                        /\ tokens[d] # None => tokens[d].user \in User
    BY DEF AccountsInv, AccountsTypeOK, CallRow, TokenRow
  <2> QED BY <1>1, <1>4, <2>1, <2>2 DEF AccountsInv, Numbered
<1>10. Intents'
  BY <1>1, <1>5, <1>6, <1>7, IntentsCarried DEF AccountsInv, CarriedOn
<1>11. LocksHeld'
  <2>1. \A d \in Call : calls'[d] # None =>
          /\ calls[d] # None /\ calls'[d].op = calls[d].op /\ calls'[d].user = calls[d].user
          /\ calls'[d].token = calls[d].token /\ calls'[d].seen = calls[d].seen
    BY <1>1, <1>5, <1>6, <1>7 DEF CarriedOn
  <2> QED BY <1>1, <2>1 DEF AccountsInv, LocksHeld
<1>12. SuccessorsOrdered'
  BY <1>1 DEF AccountsInv, SuccessorsOrdered, TokensExchangedOnce
<1>13. \A v \in User : Admitted(v) => Admitted(v)'
  BY <1>4 DEF Admitted
<1>14. RowsHeld'
  <2>1. \A d \in Call : calls'[d] # None /\ calls'[d].stage = "SWEEPING" =>
          /\ calls[d] # None /\ calls[d].stage = "SWEEPING" /\ calls'[d].op = calls[d].op
          /\ calls'[d].user = calls[d].user /\ calls[d].user \in User
    BY <1>1, <1>5, <1>6, <1>7 DEF CarriedOn, AccountsInv, AccountsTypeOK, CallRow
  <2> SUFFICES ASSUME NEW d \in Call, calls'[d] # None, calls'[d].stage = "SWEEPING"
               PROVE  RowsHeld!(d)!2'
    BY DEF RowsHeld
  <2>2. RowsHeld!(d)!2
    BY <2>1 DEF AccountsInv, RowsHeld
  <2>3. calls'[d].op = "CHANGE_INITIAL" =>
          account'[calls'[d].user] # None /\ account'[calls'[d].user].isActive
          /\ account'[calls'[d].user].blockedAt = NoValue
    BY <1>13, <2>1, <2>2 DEF Admitted
  <2> QED BY <2>1, <2>2, <2>3 DEF Admitted
<1>15. OverlapsKnown'
  <2>1. \A v : LiveTokens(v)' = LiveTokens(v) /\ LetInto(v)' \subseteq LetInto(v)
    BY <1>1, <1>5, <1>6, <1>7 DEF LiveTokens, LetInto, InFlight, CarriedOn
  <2>2. \A d \in InFlight("BLOCK")' :
          /\ d \in InFlight("BLOCK") /\ calls'[d].user = calls[d].user
          /\ calls'[d].seen = calls[d].seen /\ calls'[d].stage = calls[d].stage
    BY <1>1, <1>5, <1>6, <1>7 DEF InFlight, CarriedOn
  <2>3. \A d \in InFlight("BLOCK")' : calls'[d].stage = "SWEEPING" =>
          /\ LetInto(calls[d].user)' \subseteq overlapped'
          /\ LiveTokens(calls[d].user)' \ calls'[d].seen \subseteq overlapped'
    <3> TAKE d \in InFlight("BLOCK")'
    <3> HAVE calls'[d].stage = "SWEEPING"
    <3>1. calls'[d].user = calls[d].user /\ calls'[d].seen = calls[d].seen
      BY <2>2
    <3>2. /\ LetInto(calls[d].user) \subseteq overlapped
          /\ LiveTokens(calls[d].user) \ calls[d].seen \subseteq overlapped
      BY <2>2 DEF AccountsInv, OverlapsKnown
    <3> QED BY <1>1, <2>1, <3>1, <3>2
  <2>4. \A v \in User : ~Admitted(v)' =>
          LetInto(v)' \union LiveTokens(v)' \subseteq overlapped'
    BY <1>1, <1>13, <2>1 DEF AccountsInv, OverlapsKnown
  <2> QED BY <2>3, <2>4 DEF OverlapsKnown
<1>16. ReadingsFresh'
  <2>1. \A d \in Call : d # c /\ calls'[d] # None => ~calls'[d].fresh
    BY <1>6, <1>7 DEF CarriedOn
  <2>2. calls'[c] # None => calls'[c].stage = "WRITTEN" /\ calls'[c].op \notin Transactions
    BY <1>1, <1>5, <1>6 DEF Transactions
  <2> QED BY <2>1, <2>2 DEF ReadingsFresh
<1> QED BY <1>4, <1>8, <1>9, <1>10, <1>11, <1>12, <1>14, <1>15, <1>16 DEF AccountsInv

\* revokeAllForUser has got every row it found, and its transaction commits.
LEMMA SweepFinished ==
  ASSUME AccountsAssumption, AccountsInv, NEW c \in Call, FinishSweep(c)
  PROVE  AccountsInv'
<1> DEFINE seen == calls[c].seen
           op == calls[c].op
<1>1. /\ calls[c] # None /\ calls[c] \in CallRow /\ calls[c].stage = "SWEEPING"
      /\ \A t \in seen : ~TokenLocked(t, c)
      /\ UNCHANGED <<begun, assigned>>
      /\ overlapped' = IF op = "BLOCK" THEN overlapped \ seen ELSE overlapped
  BY DEF FinishSweep, Swept, AccountsInv, AccountsTypeOK
<1>2. PICK u \in User : u = calls[c].user
  BY <1>1 DEF CallRow
<1>3. seen \subseteq Call /\ tokens[c] = None /\ c \notin seen
      /\ \A t \in seen : tokens[t] # None /\ tokens[t].user = u
  BY <1>1, <1>2 DEF AccountsInv, LocksHeld, Numbered, CallRow
<1>4. /\ op \in Transactions =>
           /\ Write(c, Updated(account[calls[c].user], calls[c].read, calls[c].values))
           /\ calls' = Outdate(c, Finished(c))
      /\ op \notin Transactions => calls' = Finished(c) /\ UNCHANGED <<account, raced>>
      /\ tokens' = [Revoked(tokens, seen) EXCEPT
           ![c] = IF op = "CHANGE_INITIAL" THEN NewToken(u, NoValue) ELSE tokens[c]]
  BY <1>2 DEF FinishSweep, Transactions
<1> HIDE DEF seen, op
\* The account
<1>5. /\ account' \in [User -> AccountRow \union {None}]
      /\ \A v \in User : account[v] # None => account'[v] # None
      /\ \A v \in User : v # u => account'[v] = account[v]
      /\ op # "BLOCK" => Admitted(u)' = Admitted(u)
      /\ raced' \in BOOLEAN
      /\ SuperAdminStays'
  <2>1. CASE op \in Transactions
    <3>1. op \in {"BLOCK", "RESET", "CHANGE_INITIAL"}
      BY <2>1 DEF Transactions
    <3>2. calls[c].op \in {"CHANGE_OWN", "ASSIGN_ROLE", "UNBLOCK", "BLOCK", "RESET",
                           "CHANGE_INITIAL"}
      BY <3>1 DEF op
    <3>3. Write(c, Updated(account[calls[c].user], calls[c].read, calls[c].values))
      BY <1>4, <2>1
    <3> QED BY <1>1, <1>2, <2>1, <3>1, <3>2, <3>3, RowWritten DEF op
  <2>2. CASE op \notin Transactions
    <3>1. UNCHANGED <<account, raced>> /\ op # "BLOCK"
      BY <1>4, <2>2 DEF Transactions
    <3> QED BY <1>2, <3>1 DEF AccountsInv, AccountsTypeOK, SuperAdminStays, SuperAdminRemains,
                              HasRole, Admitted
  <2> QED BY <2>1, <2>2
<1>6. \A v \in User : Admitted(v) /\ (v # u \/ op # "BLOCK") => Admitted(v)'
  BY <1>5 DEF Admitted
<1>7. \A v \in User : v # u \/ op # "BLOCK" => Admitted(v)' = Admitted(v)
  BY <1>5 DEF Admitted
\* The calls
<1>8. /\ Finished(c) \in [Call -> CallRow \union {None}]
      /\ Finished(c)[c] = None /\ \A d \in Call : d # c => Finished(c)[d] = calls[d]
  BY DEF AccountsInv, AccountsTypeOK, Finished
<1>9. /\ calls' \in [Call -> CallRow \union {None}] /\ calls'[c] = None /\ CarriedOn(c)
      /\ \A d \in Call : d # c /\ calls'[d] # None /\ calls'[d].fresh =>
           op \notin Transactions /\ calls'[d] = calls[d]
  <2>1. CASE op \in Transactions
    <3>1. calls' = Outdate(c, Finished(c))
      BY <1>4, <2>1
    <3> QED BY <1>8, <3>1, OutdatedCalls DEF CarriedOn
  <2>2. CASE op \notin Transactions
    BY <1>4, <1>8, <2>2 DEF CarriedOn
  <2> QED BY <2>1, <2>2
<1>10. \A d \in Call : calls'[d] # None =>
         /\ d # c /\ calls[d] # None /\ calls'[d].op = calls[d].op
         /\ calls'[d].user = calls[d].user /\ calls'[d].stage = calls[d].stage
         /\ calls'[d].values = calls[d].values /\ calls'[d].token = calls[d].token
         /\ calls'[d].seen = calls[d].seen /\ calls[d] \in CallRow
  BY <1>9 DEF CarriedOn, AccountsInv, AccountsTypeOK
\* The tokens
<1>11. /\ tokens' \in [Call -> TokenRow \union {None}]
       /\ op # "CHANGE_INITIAL" => tokens'[c] = None
       /\ op = "CHANGE_INITIAL" =>
            /\ tokens'[c] # None /\ tokens'[c].user = u /\ tokens'[c].parent = NoValue
       /\ \A t \in Call : t \notin seen /\ t # c => tokens'[t] = tokens[t]
       /\ \A t \in seen : /\ tokens'[t] # None /\ tokens'[t].revoked
                          /\ tokens'[t].user = tokens[t].user
                          /\ tokens'[t].parent = tokens[t].parent
  <2> DEFINE new == IF op = "CHANGE_INITIAL" THEN NewToken(u, NoValue) ELSE tokens[c]
             table == Revoked(tokens, seen)
  <2>1. new \in TokenRow \union {None} /\ (op # "CHANGE_INITIAL" => new = None)
        /\ (op = "CHANGE_INITIAL" =>
              new # None /\ new.user = u /\ new.parent = NoValue)
    BY <1>3, NewTokenRow DEF AccountsAssumption
  <2>2. /\ table \in [Call -> TokenRow \union {None}]
        /\ \A t \in Call : t \notin seen => table[t] = tokens[t]
        /\ \A t \in seen : /\ table[t] # None /\ table[t].revoked
                           /\ table[t].user = tokens[t].user
                           /\ table[t].parent = tokens[t].parent
    BY <1>3, RevokedTokens DEF AccountsInv, AccountsTypeOK
  <2>3. tokens' = [table EXCEPT ![c] = new]
    BY <1>4
  <2> HIDE DEF new, table
  <2> QED BY <1>3, <2>1, <2>2, <2>3
<1>12. AccountsTypeOK'
  BY <1>1, <1>5, <1>9, <1>11 DEF AccountsInv, AccountsTypeOK
<1>13. Numbered'
  <2>1. \A t \in Call : t # c => (tokens'[t] # None <=> tokens[t] # None)
          /\ tokens'[t].user = tokens[t].user
    BY <1>3, <1>11
  <2>2. \A d \in Call : /\ calls[d] # None => calls[d].user \in User
                        /\ tokens[d] # None => tokens[d].user \in User
    BY DEF AccountsInv, AccountsTypeOK, CallRow, TokenRow
  <2>3. account'[u] # None
    BY <1>1, <1>2, <1>5 DEF AccountsInv, Numbered
  <2> QED BY <1>1, <1>5, <1>10, <1>11, <2>1, <2>2, <2>3 DEF AccountsInv, Numbered
<1>14. Intents'
  BY <1>10, IntentsCarried DEF AccountsInv
<1>15. LocksHeld'
  <2> SUFFICES ASSUME NEW d \in Call, calls'[d] # None
               PROVE  LocksHeld!(d)!2'
    BY DEF LocksHeld
  <2>1. LocksHeld!(d)!2
    BY <1>10 DEF AccountsInv, LocksHeld
  <2>2. calls[d].token # NoValue =>
          calls[d].token \in Call /\ calls[d].token \notin seen /\ calls[d].token # c
    BY <1>1, <1>3, <1>10, <2>1 DEF TokenLocked, CallRow
  <2>3. calls[d].token # NoValue => tokens'[calls[d].token] = tokens[calls[d].token]
    BY <1>11, <2>2
  <2>4. \A t \in calls[d].seen : tokens'[t] # None /\ tokens'[t].user = calls[d].user
    <3> TAKE t \in calls[d].seen
    <3>1. t \in Call /\ tokens[t] # None /\ tokens[t].user = calls[d].user
      BY <1>10, <2>1 DEF CallRow
    <3>2. t # c
      BY <1>3, <3>1
    <3> QED BY <1>11, <3>1, <3>2
  <2>5. calls[d].token # NoValue =>
          \A e \in Call : calls'[e] # None /\ calls'[e].token = calls[d].token => d = e
    BY <1>10, <2>1
  <2> QED BY <1>10, <2>1, <2>3, <2>4, <2>5
<1>16. SuccessorsOrdered'
  <2>1. \A t \in Call : t # c => /\ (tokens'[t] # None <=> tokens[t] # None)
                                 /\ tokens'[t].parent = tokens[t].parent
                                 /\ tokens[t] # None /\ tokens[t].revoked => tokens'[t].revoked
    BY <1>3, <1>11
  <2>2. tokens'[c] # None => tokens'[c].parent = NoValue
    BY <1>11
  <2>3. \A t \in Call : tokens[t] # None /\ tokens[t].parent # NoValue =>
          /\ tokens[t].parent \in Call /\ tokens[t].parent # c
          /\ tokens[tokens[t].parent] # None /\ tokens[tokens[t].parent].revoked
    BY <1>3 DEF AccountsInv, AccountsTypeOK, TokenRow, SuccessorsOrdered
  <2>4. TokensExchangedOnce'
    BY <2>1, <2>2 DEF AccountsInv, SuccessorsOrdered, TokensExchangedOnce
  <2> QED BY <2>1, <2>2, <2>3, <2>4 DEF SuccessorsOrdered
<1>17. RowsHeld'
  <2> SUFFICES ASSUME NEW d \in Call, calls'[d] # None, calls'[d].stage = "SWEEPING"
               PROVE  RowsHeld!(d)!2'
    BY DEF RowsHeld
  <2>1. RowsHeld!(d)!2
    BY <1>10 DEF AccountsInv, RowsHeld
  <2>2. calls'[d].op = "CHANGE_INITIAL" =>
          account'[calls'[d].user] # None /\ account'[calls'[d].user].isActive
          /\ account'[calls'[d].user].blockedAt = NoValue
    <3> HAVE calls'[d].op = "CHANGE_INITIAL"
    <3>1. calls[d].op = "CHANGE_INITIAL" /\ calls[d].op \in Transactions
          /\ calls[d].user \in User /\ Admitted(calls[d].user)
      BY <1>10, <2>1 DEF Transactions, CallRow
    <3>2. op = "BLOCK" => calls[d].user # u
      BY <1>1, <1>2, <1>10, <3>1 DEF AccountsInv, RowsHeld, Transactions, op
    <3> QED BY <1>6, <1>10, <3>1, <3>2 DEF Admitted
  <2>3. \A e \in Call :
          (/\ calls'[e] # None /\ calls'[e].stage = "SWEEPING"
           /\ calls'[e].user = calls'[d].user
           /\ calls'[d].op \in Transactions /\ calls'[e].op \in Transactions)
          => d = e
    BY <1>10, <2>1
  <2> QED BY <2>2, <2>3 DEF Admitted
<1>18. OverlapsKnown'
  <2>1. \A v : LetInto(v)' \subseteq LetInto(v) /\ LetInto(v) \intersect seen = {}
    <3>1. \A d \in Call : calls[d] # None => d \notin seen
      BY <1>3 DEF AccountsInv, Numbered
    <3> QED BY <1>10, <3>1 DEF LetInto, InFlight
  <2>2. \A v : LiveTokens(v)' \subseteq (LiveTokens(v) \ seen) \union {c}
    BY <1>11 DEF LiveTokens
  <2>3. \A v : c \in LiveTokens(v)' => v = u /\ op = "CHANGE_INITIAL"
    BY <1>11 DEF LiveTokens
  <2>4. \A d \in InFlight("BLOCK")' : calls'[d].stage = "SWEEPING" =>
          /\ LetInto(calls[d].user)' \subseteq overlapped'
          /\ LiveTokens(calls[d].user)' \ calls'[d].seen \subseteq overlapped'
    <3> TAKE d \in InFlight("BLOCK")'
    <3> HAVE calls'[d].stage = "SWEEPING"
    <3>1. /\ d \in Call /\ calls'[d] # None /\ calls'[d].op = "BLOCK"
          /\ d \in InFlight("BLOCK") /\ calls[d].stage = "SWEEPING" /\ d # c
          /\ calls'[d].user = calls[d].user /\ calls'[d].seen = calls[d].seen
      BY <1>10 DEF InFlight
    <3>2. /\ LetInto(calls[d].user) \subseteq overlapped
          /\ LiveTokens(calls[d].user) \ calls[d].seen \subseteq overlapped
      BY <3>1 DEF AccountsInv, OverlapsKnown
    <3>3. op \in Transactions => calls[d].user # u
      BY <1>1, <1>2, <3>1 DEF AccountsInv, RowsHeld, Transactions, op, InFlight
    <3>4. LetInto(calls[d].user)' \subseteq overlapped'
      BY <1>1, <2>1, <3>1, <3>2
    <3>5. c \notin LiveTokens(calls[d].user)'
      BY <2>3, <3>1, <3>3 DEF Transactions
    <3>6. LiveTokens(calls[d].user)' \ calls'[d].seen \subseteq overlapped'
      BY <1>1, <2>2, <3>1, <3>2, <3>5
    <3> QED BY <3>4, <3>6
  <2>5. \A v \in User : ~Admitted(v)' =>
          LetInto(v)' \union LiveTokens(v)' \subseteq overlapped'
    <3> TAKE v \in User
    <3> HAVE ~Admitted(v)'
    <3>1. CASE v = u /\ op = "BLOCK"
      <4>1. LetInto(v) \subseteq overlapped /\ LiveTokens(v) \ seen \subseteq overlapped
        BY <1>1, <1>2, <3>1 DEF AccountsInv, OverlapsKnown, InFlight, op, seen
      <4>2. c \notin LiveTokens(v)'
        BY <2>3, <3>1
      <4> QED BY <1>1, <2>1, <2>2, <3>1, <4>1, <4>2
    <3>2. CASE ~(v = u /\ op = "BLOCK")
      <4>1. ~Admitted(v)
        BY <1>6, <3>2
      <4>2. LetInto(v) \union LiveTokens(v) \subseteq overlapped
        BY <4>1 DEF AccountsInv, OverlapsKnown
      <4>3. c \notin LiveTokens(v)'
        <5>1. op = "CHANGE_INITIAL" => Admitted(u)
          BY <1>1, <1>2 DEF AccountsInv, RowsHeld, op
        <5> QED BY <2>3, <4>1, <5>1
      <4> QED BY <1>1, <2>1, <2>2, <4>2, <4>3
    <3> QED BY <3>1, <3>2
  <2> QED BY <2>4, <2>5 DEF OverlapsKnown
<1>19. ReadingsFresh'
  <2> SUFFICES ASSUME NEW d \in Call, ReadingsFresh!(d)!1'
               PROVE  ReadingsFresh!(d)!2'
    BY DEF ReadingsFresh
  <2>1. d # c /\ op \notin Transactions /\ calls'[d] = calls[d]
    BY <1>9
  <2>2. ReadingsFresh!(d)!2
    BY <2>1 DEF AccountsInv, ReadingsFresh
  <2>3. UNCHANGED account
    BY <1>4, <2>1
  <2> QED BY <2>1, <2>2, <2>3 DEF HasRole, AnotherSuperAdmin, TakesOneAway
<1> QED BY <1>5, <1>12, <1>13, <1>14, <1>15, <1>16, <1>17, <1>18, <1>19 DEF AccountsInv

\* createUser: nobody refers to the account before it is there.
LEMMA UserCreated ==
  ASSUME AccountsAssumption, AccountsInv, NEW c \in Call, c = begun + 1,
         NEW a \in User, NEW u \in User, NEW role \in NewRoles,
         NEW kinds \in SUBSET {"JOURNEY", "STATION"}, CreateUser(c, a, u, role, kinds)
  PROVE  AccountsInv'
<1> DEFINE new == [role |-> role, isActive |-> TRUE, blockedAt |-> NoValue,
                   mustChangePassword |-> TRUE, password |-> c]
<1>1. /\ account[u] = None /\ begun' = c
      /\ account' = [account EXCEPT ![u] = new]
      /\ assigned' = assigned \union (kinds \X {u})
  BY DEF CreateUser
<1>2. UNCHANGED <<tokens, calls, raced, overlapped>>
  BY DEF CreateUser
<1>3. /\ role \in Role /\ TRUE \in BOOLEAN /\ NoValue \in Call \union {NoValue}
      /\ c \in 0 .. MaxCalls
  BY DEF AccountsAssumption, Call
<1>4. new \in AccountRow
  BY <1>3, Zenon DEF AccountRow
<1>5. new # None /\ new.isActive = TRUE /\ new.blockedAt = NoValue
  BY <1>4 DEF AccountsAssumption
<1> HIDE DEF new
<1>6. /\ account' \in [User -> AccountRow \union {None}] /\ account'[u] = new
      /\ \A v \in User : v # u => account'[v] = account[v]
  BY <1>1, <1>4 DEF AccountsInv, AccountsTypeOK
<1>7. /\ \A d \in Call : calls[d] # None => calls[d].user \in User /\ calls[d].user # u
      /\ \A t \in Call : tokens[t] # None => tokens[t].user \in User /\ tokens[t].user # u
  BY <1>1 DEF AccountsInv, Numbered, AccountsTypeOK, CallRow, TokenRow
<1>8. AccountsTypeOK'
  <2>1. kinds \X {u} \subseteq Assignment
    BY DEF Assignment
  <2> QED BY <1>1, <1>2, <1>3, <1>6, <2>1 DEF AccountsInv, AccountsTypeOK
<1>9. Numbered'
  <2>1. \A d \in Call : d > begun' => d > begun
    BY <1>1 DEF AccountsInv, AccountsTypeOK, Call
  <2> QED BY <1>2, <1>6, <1>7, <2>1 DEF AccountsInv, Numbered
<1>10. Intents'
  BY <1>2, IntentsKept DEF AccountsInv
<1>11. LocksHeld' /\ SuccessorsOrdered'
  BY <1>2 DEF AccountsInv, LocksHeld, SuccessorsOrdered, TokensExchangedOnce
<1>12. \A v \in User : Admitted(v) => Admitted(v)'
  BY <1>1, <1>6 DEF Admitted
<1>13. RowsHeld'
  <2> SUFFICES ASSUME NEW d \in Call, calls'[d] # None, calls'[d].stage = "SWEEPING"
               PROVE  RowsHeld!(d)!2'
    BY DEF RowsHeld
  <2>1. RowsHeld!(d)!2
    BY <1>2 DEF AccountsInv, RowsHeld
  <2> QED BY <1>2, <1>6, <1>7, <2>1 DEF Admitted
<1>14. OverlapsKnown'
  <2>1. \A v : LiveTokens(v)' = LiveTokens(v) /\ LetInto(v)' = LetInto(v)
    BY <1>2 DEF LiveTokens, LetInto, InFlight
  <2>2. InFlight("BLOCK")' = InFlight("BLOCK")
    BY <1>2 DEF InFlight
  <2>3. \A d \in InFlight("BLOCK") : calls[d].stage = "SWEEPING" =>
          /\ LetInto(calls[d].user)' \subseteq overlapped'
          /\ LiveTokens(calls[d].user)' \ calls[d].seen \subseteq overlapped'
    BY <1>2, <2>1 DEF AccountsInv, OverlapsKnown
  <2>4. \A v \in User : ~Admitted(v)' =>
          LetInto(v)' \union LiveTokens(v)' \subseteq overlapped'
    BY <1>2, <1>12, <2>1 DEF AccountsInv, OverlapsKnown
  <2> QED BY <1>2, <2>2, <2>3, <2>4 DEF OverlapsKnown
<1>15. ReadingsFresh'
  <2>1. \A v \in User \ {u} : AnotherSuperAdmin(v) => AnotherSuperAdmin(v)'
    BY <1>1, <1>6 DEF AnotherSuperAdmin, HasRole
  <2> SUFFICES ASSUME NEW d \in Call, ReadingsFresh!(d)!1'
               PROVE  ReadingsFresh!(d)!2'
    BY DEF ReadingsFresh
  <2>2. ReadingsFresh!(d)!2
    BY <1>2 DEF AccountsInv, ReadingsFresh
  <2>3. calls' = calls /\ calls[d].user \in User \ {u}
    BY <1>2, <1>7
  <2>4. account'[calls[d].user] = account[calls[d].user]
    BY <1>6, <2>3
  <2>5. AnotherSuperAdmin(calls[d].user) =>
          \E w \in User \ {calls[d].user} : account'[w] # None
            /\ account'[w].role = "SUPER_ADMIN" /\ account'[w].isActive
    BY <2>1, <2>3 DEF AnotherSuperAdmin, HasRole
  <2> QED BY <2>2, <2>3, <2>4, <2>5 DEF HasRole, AnotherSuperAdmin, TakesOneAway
<1>16. SuperAdminStays'
  <2>1. CASE raced
    BY <1>2, <2>1 DEF SuperAdminStays, SuperAdminRemains
  <2>2. CASE ~raced
    <3>1. AccountsTypeOK /\ SuperAdminStays
      BY DEF AccountsInv
    <3> QED BY <1>1, <1>5, <1>6, <2>2, <3>1, SuperAdminKept
  <2> QED BY <2>1, <2>2
<1> QED BY <1>8, <1>9, <1>10, <1>11, <1>13, <1>14, <1>15, <1>16 DEF AccountsInv

\* Assignments to journeys and stations touch no account.
LEMMA AssignmentsMoved ==
  ASSUME AccountsInv, NEW c \in Call, c = begun + 1, begun' = c,
         assigned' \subseteq Assignment,
         UNCHANGED <<account, tokens, calls, raced, overlapped>>
  PROVE  AccountsInv'
<1>1. AccountsTypeOK'
  BY DEF AccountsInv, AccountsTypeOK, Call
<1>2. Numbered'
  BY DEF AccountsInv, AccountsTypeOK, Numbered, Call
<1>3. Intents'
  BY IntentsKept DEF AccountsInv
<1>4. LocksHeld' /\ SuccessorsOrdered'
  BY DEF AccountsInv, LocksHeld, SuccessorsOrdered, TokensExchangedOnce
<1>5. RowsHeld' /\ OverlapsKnown'
  BY DEF AccountsInv, RowsHeld, OverlapsKnown, Admitted, LetInto, LiveTokens, InFlight
<1>6. ReadingsFresh' /\ SuperAdminStays'
  BY DEF AccountsInv, ReadingsFresh, SuperAdminStays, SuperAdminRemains, HasRole,
         AnotherSuperAdmin, Admitted, TakesOneAway
<1> QED BY <1>1, <1>2, <1>3, <1>4, <1>5, <1>6 DEF AccountsInv

\* More than one active super admin means one beside any user.
LEMMA LastSuperAdminAsked ==
  ASSUME AccountsAssumption, NEW u \in User, NotLastSuperAdmin(u), HasRole(u, "SUPER_ADMIN")
  PROVE  AnotherSuperAdmin(u)
<1>1. Cardinality(ActiveSuperAdmins) > 1
  BY DEF NotLastSuperAdmin
<1>2. ActiveSuperAdmins \subseteq User /\ IsFiniteSet(User)
  BY DEF ActiveSuperAdmins, AccountsAssumption
<1>3. SUFFICES ASSUME \A w \in ActiveSuperAdmins : w = u PROVE FALSE
  BY DEF AnotherSuperAdmin, ActiveSuperAdmins
<1>4. ActiveSuperAdmins \subseteq {u} /\ IsFiniteSet({u}) /\ Cardinality({u}) = 1
  BY <1>3, FS_Singleton
<1>5. Cardinality(ActiveSuperAdmins) <= Cardinality({u})
        /\ Cardinality(ActiveSuperAdmins) \in Nat
  BY <1>2, <1>4, FS_Subset, FS_CardinalityType
<1> QED BY <1>1, <1>4, <1>5

LEMMA AccountsStart == AccountsAssumption /\ AccountsInit => AccountsInv
<1> SUFFICES ASSUME AccountsAssumption, AccountsInit PROVE AccountsInv
  OBVIOUS
<1>1. PICK i \in Installations : account = i.account /\ assigned = i.assigned
  BY DEF AccountsInit
<1>2. /\ \A c \in Call : tokens[c] = None /\ calls[c] = None
      /\ tokens \in [Call -> TokenRow \union {None}]
      /\ calls \in [Call -> CallRow \union {None}]
      /\ begun = 0 /\ raced = FALSE /\ overlapped = {}
  BY DEF AccountsInit
<1>3. /\ account \in [User -> AccountRow \union {None}] /\ assigned \subseteq Assignment
      /\ \A u \in User : account[u] # None =>
           (account[u].isActive <=> account[u].blockedAt = NoValue)
      /\ \E u \in User : account[u] # None /\ account[u].role = "SUPER_ADMIN"
                          /\ account[u].isActive
  BY <1>1 DEF AccountsAssumption
<1>4. AccountsTypeOK
  <2>1. begun \in 0 .. MaxCalls
    BY <1>2 DEF AccountsAssumption
  <2>2. raced \in BOOLEAN /\ overlapped \subseteq Call
    BY <1>2
  <2> QED BY <1>2, <1>3, <2>1, <2>2 DEF AccountsTypeOK
<1>5. Numbered /\ Intents /\ LocksHeld /\ SuccessorsOrdered /\ RowsHeld
  BY <1>2 DEF Numbered, Intents, LocksHeld, SuccessorsOrdered, TokensExchangedOnce, RowsHeld
<1>6. OverlapsKnown /\ ReadingsFresh
  BY <1>2 DEF OverlapsKnown, ReadingsFresh, LetInto, LiveTokens, InFlight
<1>7. SuperAdminStays
  BY <1>3 DEF SuperAdminStays, SuperAdminRemains, HasRole, Admitted
<1> QED BY <1>4, <1>5, <1>6, <1>7 DEF AccountsInv

CallAt(op, u, stage, read, values, token, seen) ==
  [op |-> op, user |-> u, stage |-> stage, read |-> read, values |-> values,
   token |-> token, seen |-> seen, fresh |-> TRUE]

\* Most calls begin by reading an account.
LEMMA PlainCallBegins ==
  ASSUME AccountsAssumption, AccountsInv, NEW c \in Call, c = begun + 1, begun' = c,
         NEW u \in User, account[u] # None,
         NEW op \in Operation \ {"REFRESH", "REUSE"}, NEW values \in Values,
         calls' = [calls EXCEPT ![c] =
           [op |-> op, user |-> u, stage |-> "READ", read |-> account[u],
            values |-> values, token |-> NoValue, seen |-> {}, fresh |-> TRUE]],
         UNCHANGED <<account, tokens, assigned, raced>>,
         overlapped' = IF op = "LOGIN" THEN LetIn(c, u) ELSE overlapped,
         op = "LOGIN" => Admitted(u),
         op = "BLOCK" => values = [isActive |-> FALSE, blockedAt |-> c],
         op = "UNBLOCK" => values = [isActive |-> TRUE, blockedAt |-> NoValue],
         op = "ASSIGN_ROLE" => values \in [role : Role],
         op \in {"RESET", "CHANGE_OWN"} => values \in Password,
         (op = "BLOCK" \/ (op = "ASSIGN_ROLE" /\ values.role # "SUPER_ADMIN")) =>
           NotLastSuperAdmin(u)
  PROVE  AccountsInv'
<1> DEFINE r == CallAt(op, u, "READ", account[u], values, NoValue, {})
<1>1. /\ r \in CallRow
      /\ r.op = op /\ r.user = u /\ r.stage = "READ" /\ r.read = account[u]
      /\ r.values = values /\ r.token = NoValue /\ r.seen = {} /\ r.fresh = TRUE
  <2>1. account[u] \in AccountRow /\ op \in Operation
    BY DEF AccountsInv, AccountsTypeOK
  <2>2. "READ" \in {"READ", "WRITTEN", "SWEEPING"} /\ NoValue \in Call \union {NoValue}
        /\ {} \in SUBSET Call /\ TRUE \in BOOLEAN
    OBVIOUS
  <2>3. r \in CallRow
    BY <2>1, <2>2, Zenon DEF CallRow, CallAt
  <2> QED BY <2>3 DEF CallAt
<1>2. calls' = [calls EXCEPT ![c] = r]
  BY DEF CallAt
<1> HIDE DEF r
<1>3. overlapped' \in {overlapped, overlapped \union {c}}
      /\ (op = "LOGIN" /\ Holding(u, {"BLOCK"}) => c \in overlapped')
  BY DEF LetIn
<1>4. TakesOneAway(r) /\ HasRole(r.user, "SUPER_ADMIN") => AnotherSuperAdmin(r.user)
  BY <1>1, LastSuperAdminAsked DEF TakesOneAway
<1>5. r.stage = (IF r.op = "REUSE" THEN "SWEEPING" ELSE "READ")
  BY <1>1
<1>12. r.op # "REFRESH" /\ r.seen \subseteq LiveTokens(r.user)
  BY <1>1
<1>6. account[r.user] # None /\ r.read = account[r.user]
  BY <1>1
<1>7. r.op \in {"LOGIN", "REFRESH"} =>
        Admitted(r.user) /\ (Holding(r.user, {"BLOCK"}) => c \in overlapped')
  BY <1>1, <1>3
<1>8. /\ r.op = "BLOCK" => r.values = [isActive |-> FALSE, blockedAt |-> c]
      /\ r.op = "UNBLOCK" => r.values = [isActive |-> TRUE, blockedAt |-> NoValue]
      /\ r.op = "ASSIGN_ROLE" => r.values \in [role : Role]
      /\ r.op \in {"RESET", "CHANGE_OWN"} => r.values \in Password
      /\ r.token = NoValue
  BY <1>1, Zenon
<1>9. r \in CallRow /\ overlapped' \in {overlapped, overlapped \union {c}}
  BY <1>1, <1>3
<1>10. r.op = "REFRESH" => r.token # NoValue /\ ~tokens[r.token].revoked
  BY <1>12
<1>11. r.token # NoValue => tokens[r.token] # None /\ ~TokenLocked(r.token, c)
  BY <1>8
<1> QED BY <1>2, <1>4, <1>5, <1>6, <1>7, <1>8, <1>9, <1>10, <1>11, <1>12, CallBegins, ZenonT(60)

\* What the operations write are values of a call.
LEMMA WrittenValues ==
  ASSUME AccountsAssumption, NEW c \in Call
  PROVE  /\ <<>> \in Values
         /\ [isActive |-> FALSE, blockedAt |-> c] \in Values
         /\ [isActive |-> TRUE, blockedAt |-> NoValue] \in Values
         /\ \A role \in Role : /\ [role |-> role] \in Values
                               /\ [role |-> role] \in [role : Role]
                               /\ [role |-> role].role = role
         /\ \A must \in BOOLEAN :
              /\ [password |-> c, mustChangePassword |-> must] \in Values
              /\ [password |-> c, mustChangePassword |-> must] \in Password
<1>1. [isActive |-> FALSE, blockedAt |-> c] \in Activity
      /\ [isActive |-> TRUE, blockedAt |-> NoValue] \in Activity
  BY DEF Activity
<1>2. c \in 0 .. MaxCalls
  BY DEF Call
<1>3. \A must \in BOOLEAN : [password |-> c, mustChangePassword |-> must] \in Password
  BY <1>2, Zenon DEF Password
<1>4. \A role \in Role : [role |-> role] \in [role : Role] /\ [role |-> role].role = role
  OBVIOUS
<1>5. Activity \subseteq Values /\ Password \subseteq Values /\ [role : Role] \subseteq Values
      /\ <<>> \in Values
  BY Zenon DEF Values
<1> QED BY <1>1, <1>3, <1>4, <1>5, Zenon

\* Those that write no account of what they have read yet.
LEMMA ReadingCallBegins ==
  ASSUME AccountsAssumption, AccountsInv, NEW c \in Call, c = begun + 1,
         NEW u \in User, NEW op \in {"LOGIN", "CHANGE_INITIAL", "LOGOUT_ALL"},
         Begin(c, op, u), Admitted(u), UNCHANGED <<account, tokens, assigned, raced>>,
         overlapped' = IF op = "LOGIN" THEN LetIn(c, u) ELSE overlapped
  PROVE  AccountsInv'
<1> DEFINE values == <<>>
<1>1. begun' = c /\ account[u] # None /\ values \in Values
      /\ op \in Operation \ {"REFRESH", "REUSE"}
  BY WrittenValues DEF Begin, Operation
<1>2. calls' = [calls EXCEPT ![c] =
        [op |-> op, user |-> u, stage |-> "READ", read |-> account[u],
         values |-> values, token |-> NoValue, seen |-> {}, fresh |-> TRUE]]
  BY DEF Begin
<1> HIDE DEF values
<1>3. /\ op # "BLOCK" /\ op # "UNBLOCK" /\ op # "ASSIGN_ROLE"
      /\ op \notin {"RESET", "CHANGE_OWN"}
  OBVIOUS
<1> QED BY <1>1, <1>2, <1>3, PlainCallBegins, ZenonT(60)

\* Those that have something to write.
LEMMA WritingCallBegins ==
  ASSUME AccountsAssumption, AccountsInv, NEW c \in Call, c = begun + 1,
         NEW a \in User, NEW u \in User, NEW op, NEW values \in Values,
         Administer(c, op, a, u, values),
         \/ op \in {"RESET", "CHANGE_OWN"} /\ values \in Password
         \/ op = "BLOCK" /\ values = [isActive |-> FALSE, blockedAt |-> c]
            /\ NotLastSuperAdmin(u)
         \/ op = "UNBLOCK" /\ values = [isActive |-> TRUE, blockedAt |-> NoValue]
         \/ op = "ASSIGN_ROLE" /\ values \in [role : Role]
            /\ (values.role = "SUPER_ADMIN" \/ NotLastSuperAdmin(u))
  PROVE  AccountsInv'
<1>1. op \in {"RESET", "CHANGE_OWN", "BLOCK", "UNBLOCK", "ASSIGN_ROLE"}
  OBVIOUS
<1>2. op \in Operation \ {"REFRESH", "REUSE"} /\ op # "LOGIN"
  BY <1>1 DEF Operation
<1>3. begun' = c /\ account[u] # None
  BY DEF Administer
<1>4. UNCHANGED <<account, tokens, assigned, raced>>
      /\ overlapped' = IF op = "LOGIN" THEN LetIn(c, u) ELSE overlapped
  BY <1>2 DEF Administer
<1>5. calls' = [calls EXCEPT ![c] =
        [op |-> op, user |-> u, stage |-> "READ", read |-> account[u],
         values |-> values, token |-> NoValue, seen |-> {}, fresh |-> TRUE]]
  BY DEF Administer
<1>6. op = "BLOCK" => values = [isActive |-> FALSE, blockedAt |-> c]
  OBVIOUS
<1>7. op = "UNBLOCK" => values = [isActive |-> TRUE, blockedAt |-> NoValue]
  OBVIOUS
<1>8. op = "ASSIGN_ROLE" => values \in [role : Role]
  OBVIOUS
<1>9. op \in {"RESET", "CHANGE_OWN"} => values \in Password
  OBVIOUS
<1>10. (op = "BLOCK" \/ (op = "ASSIGN_ROLE" /\ values.role # "SUPER_ADMIN")) =>
         NotLastSuperAdmin(u)
  OBVIOUS
<1> QED BY <1>2, <1>3, <1>4, <1>5, <1>6, <1>7, <1>8, <1>9, <1>10, PlainCallBegins, ZenonT(60)

LEMMA SessionCallKeeps ==
  ASSUME AccountsAssumption, AccountsInv, NEW c \in Call, c = begun + 1, SessionCall(c)
  PROVE  AccountsInv'
<1>1. ASSUME NEW u \in User, Login(c, u) PROVE AccountsInv'
  BY <1>1, ReadingCallBegins DEF Login
<1>2. ASSUME NEW u \in User, LoginTemporary(c, u) PROVE AccountsInv'
  BY <1>2, ReadingCallBegins DEF LoginTemporary
<1>3. ASSUME NEW u \in User, LogoutAll(c, u) PROVE AccountsInv'
  BY <1>3, ReadingCallBegins DEF LogoutAll
<1>4. ASSUME NEW u \in User, ChangeOwnPassword(c, u) PROVE AccountsInv'
  <2>1. Administer(c, "CHANGE_OWN", u, u, [password |-> c, mustChangePassword |-> FALSE])
    BY <1>4 DEF ChangeOwnPassword
  <2>2. /\ [password |-> c, mustChangePassword |-> FALSE] \in Values
        /\ [password |-> c, mustChangePassword |-> FALSE] \in Password
    BY WrittenValues
  <2> QED BY <2>1, <2>2, WritingCallBegins
<1>5. ASSUME NEW t \in Call, Refresh(c, t) PROVE AccountsInv'
  <2>1. PICK u \in User : u = tokens[t].user
    BY <1>5 DEF Refresh, MayRefresh, AccountsInv, AccountsTypeOK, TokenRow
  <2>2. /\ tokens[t] # None /\ ~tokens[t].revoked /\ ~TokenLocked(t, c) /\ Admitted(u)
        /\ begun' = c /\ overlapped' = LetIn(c, u)
        /\ calls' = [calls EXCEPT ![c] =
             [op |-> "REFRESH", user |-> u, stage |-> "READ", read |-> account[u],
              values |-> <<>>, token |-> t, seen |-> {}, fresh |-> TRUE]]
    BY <1>5, <2>1 DEF Refresh, MayRefresh
  <2>3. UNCHANGED <<account, tokens, assigned, raced>>
    BY <1>5 DEF Refresh
  <2> DEFINE r == CallAt("REFRESH", u, "READ", account[u], <<>>, t, {})
  <2>4. account[u] # None
    BY <2>2 DEF Admitted
  <2>5. /\ r \in CallRow
        /\ r.op = "REFRESH" /\ r.user = u /\ r.stage = "READ" /\ r.read = account[u]
        /\ r.token = t /\ r.seen = {}
    <3>1. "REFRESH" \in Operation /\ <<>> \in Values /\ account[u] \in AccountRow
      BY <2>4 DEF Operation, Values, AccountsInv, AccountsTypeOK
    <3>2. "READ" \in {"READ", "WRITTEN", "SWEEPING"} /\ t \in Call \union {NoValue}
          /\ {} \in SUBSET Call /\ TRUE \in BOOLEAN
      OBVIOUS
    <3>3. r \in CallRow
      BY <3>1, <3>2, Zenon DEF CallRow, CallAt
    <3> QED BY <3>3 DEF CallAt
  <2>6. calls' = [calls EXCEPT ![c] = r]
    BY <2>2 DEF CallAt
  <2> HIDE DEF r
  <2>7. overlapped' \in {overlapped, overlapped \union {c}}
        /\ (Holding(u, {"BLOCK"}) => c \in overlapped')
    BY <2>2 DEF LetIn
  <2>8. ~TakesOneAway(r)
    BY <2>5 DEF TakesOneAway
  <2> QED BY <2>2, <2>3, <2>4, <2>5, <2>6, <2>7, <2>8, CallBegins
<1>6. ASSUME NEW t \in Call, DetectReuse(c, t) PROVE AccountsInv'
  <2>1. PICK u \in User : u = tokens[t].user
    BY <1>6 DEF DetectReuse, AccountsInv, AccountsTypeOK, TokenRow
  <2>2. /\ tokens[t] # None /\ ~TokenLocked(t, c) /\ begun' = c
        /\ calls' = [calls EXCEPT ![c] =
             [op |-> "REUSE", user |-> u, stage |-> "SWEEPING", read |-> account[u],
              values |-> <<>>, token |-> t, seen |-> LiveTokens(u), fresh |-> TRUE]]
    BY <1>6, <2>1 DEF DetectReuse
  <2>3. UNCHANGED <<account, tokens, assigned, raced, overlapped>>
    BY <1>6 DEF DetectReuse
  <2> DEFINE r == CallAt("REUSE", u, "SWEEPING", account[u], <<>>, t, LiveTokens(u))
  <2>4. account[u] # None
    BY <2>1, <2>2 DEF AccountsInv, Numbered
  <2>5. /\ r \in CallRow
        /\ r.op = "REUSE" /\ r.user = u /\ r.stage = "SWEEPING" /\ r.read = account[u]
        /\ r.token = t /\ r.seen = LiveTokens(u)
    <3>1. "REUSE" \in Operation /\ <<>> \in Values /\ account[u] \in AccountRow
          /\ LiveTokens(u) \in SUBSET Call
      BY <2>4 DEF Operation, Values, AccountsInv, AccountsTypeOK, LiveTokens
    <3>2. "SWEEPING" \in {"READ", "WRITTEN", "SWEEPING"} /\ t \in Call \union {NoValue}
          /\ TRUE \in BOOLEAN
      OBVIOUS
    <3>3. r \in CallRow
      BY <3>1, <3>2, Zenon DEF CallRow, CallAt
    <3> QED BY <3>3 DEF CallAt
  <2>6. calls' = [calls EXCEPT ![c] = r]
    BY <2>2 DEF CallAt
  <2> HIDE DEF r
  <2>7. ~TakesOneAway(r)
    BY <2>5 DEF TakesOneAway
  <2>8. /\ r.op # "BLOCK" /\ r.op # "UNBLOCK" /\ r.op # "ASSIGN_ROLE"
        /\ r.op \notin {"RESET", "CHANGE_OWN"} /\ r.op # "REFRESH"
        /\ r.op \notin {"LOGIN", "REFRESH"}
    BY <2>5
  <2>9. /\ r.stage = IF r.op = "REUSE" THEN "SWEEPING" ELSE "READ"
        /\ r.token # NoValue => tokens[r.token] # None /\ ~TokenLocked(r.token, c)
    BY <2>2, <2>5
  <2>10. /\ r.seen \subseteq LiveTokens(r.user) /\ account[r.user] # None
         /\ r.read = account[r.user] /\ r \in CallRow
    BY <2>4, <2>5
  <2>11. overlapped' \in {overlapped, overlapped \union {c}}
    BY <2>3
  <2>12. begun' = c
    BY <2>2
  <2> QED BY <2>3, <2>6, <2>7, <2>8, <2>9, <2>10, <2>11, <2>12, CallBegins, ZenonT(60)
<1>7. ASSUME NEW t \in Call, Logout(c, t) PROVE AccountsInv'
  BY <1>7, LoggedOut
<1> QED BY <1>1, <1>2, <1>3, <1>4, <1>5, <1>6, <1>7 DEF SessionCall

LEMMA AdministrationCallKeeps ==
  ASSUME AccountsAssumption, AccountsInv, NEW c \in Call, c = begun + 1,
         AdministrationCall(c)
  PROVE  AccountsInv'
<1>1. ASSUME NEW a \in User, NEW u \in User, BlockUser(c, a, u) PROVE AccountsInv'
  BY <1>1, WrittenValues, WritingCallBegins DEF BlockUser
<1>2. ASSUME NEW a \in User, NEW u \in User, UnblockUser(c, a, u) PROVE AccountsInv'
  BY <1>2, WrittenValues, WritingCallBegins DEF UnblockUser
<1>3. ASSUME NEW a \in User, NEW u \in User, ResetUserPassword(c, a, u) PROVE AccountsInv'
  <2>1. Administer(c, "RESET", a, u, [password |-> c, mustChangePassword |-> TRUE])
    BY <1>3 DEF ResetUserPassword
  <2>2. /\ [password |-> c, mustChangePassword |-> TRUE] \in Values
        /\ [password |-> c, mustChangePassword |-> TRUE] \in Password
    BY WrittenValues
  <2> QED BY <2>1, <2>2, WritingCallBegins
<1>4. ASSUME NEW a \in User, NEW u \in User, NEW role \in NewRoles, AssignRole(c, a, u, role)
      PROVE  AccountsInv'
  <2>1. /\ Administer(c, "ASSIGN_ROLE", a, u, [role |-> role])
        /\ role = "SUPER_ADMIN" \/ NotLastSuperAdmin(u)
    BY <1>4 DEF AssignRole
  <2>2. role \in Role
    BY DEF AccountsAssumption
  <2>3. [role |-> role] \in Values /\ [role |-> role] \in [role : Role]
        /\ [role |-> role].role = role
    BY <2>2, WrittenValues
  <2> QED BY <2>1, <2>3, WritingCallBegins
<1>5. ASSUME NEW a \in User, NEW u \in User, NEW role \in NewRoles,
             NEW kinds \in SUBSET {"JOURNEY", "STATION"}, CreateUser(c, a, u, role, kinds)
      PROVE  AccountsInv'
  BY <1>5, UserCreated
<1>6. ASSUME NEW a \in User, NEW u \in User, NEW kind \in {"JOURNEY", "STATION"},
             Assign(c, a, kind, u) \/ Unassign(c, a, kind, u)
      PROVE  AccountsInv'
  <2>1. begun' = c /\ UNCHANGED <<account, tokens, calls, raced, overlapped>>
    BY <1>6 DEF Assign, Unassign
  <2>2. assigned' \subseteq Assignment
    BY <1>6 DEF Assign, Unassign, Assignment, AccountsInv, AccountsTypeOK
  <2> QED BY <2>1, <2>2, AssignmentsMoved
<1> QED BY <1>1, <1>2, <1>3, <1>4, <1>5, <1>6 DEF AdministrationCall

\* The three ways to begin to revoke.
LEMMA SweepingCallKeeps ==
  ASSUME AccountsAssumption, AccountsInv, NEW c \in Call,
         ChangeInitialPassword(c) \/ WriteInTransaction(c) \/ BeginSweep(c)
  PROVE  AccountsInv'
<1>1. calls[c] # None /\ calls[c] \in CallRow
  BY DEF ChangeInitialPassword, WriteInTransaction, BeginSweep, AccountsInv, AccountsTypeOK
<1> DEFINE these == LiveTokens(calls[c].user)
<1>2. these \in SUBSET Call
  BY DEF LiveTokens
<1>3. CASE ChangeInitialPassword(c)
  <2> DEFINE values == [password |-> c, mustChangePassword |-> FALSE]
             row == [calls[c] EXCEPT !.read = account[calls[c].user], !.fresh = TRUE,
                                     !.values = values]
             s == [row EXCEPT !.stage = "SWEEPING", !.seen = these]
  <2>1. /\ Admitted(calls[c].user) /\ ~RowLocked(calls[c].user)
        /\ calls[c].op = "CHANGE_INITIAL" /\ calls[c].stage = "READ"
        /\ calls' = Sweeping(c, [calls EXCEPT
             ![c].read = account[calls[c].user], ![c].fresh = TRUE, ![c].values = values])
    BY <1>3 DEF ChangeInitialPassword
  <2>2. values \in Password /\ values \in Values
    BY WrittenValues
  <2>3. account[calls[c].user] \in AccountRow
    BY <1>1, <2>1 DEF AccountsInv, AccountsTypeOK, CallRow, Admitted
  <2> HIDE DEF values
  <2>4. /\ row \in CallRow /\ row.op = "CHANGE_INITIAL" /\ row.user = calls[c].user
        /\ row.token = calls[c].token /\ row.values = values
        /\ row.read = account[calls[c].user] /\ row.fresh = TRUE
    BY <1>1, <2>1, <2>2, <2>3 DEF CallRow
  <2>5. [calls EXCEPT ![c].read = account[calls[c].user], ![c].fresh = TRUE,
                      ![c].values = values] = [calls EXCEPT ![c] = row]
    BY <1>1 DEF AccountsInv, AccountsTypeOK
  <2>6. Sweeping(c, [calls EXCEPT ![c] = row]) = [calls EXCEPT ![c] = s]
    <3> DEFINE table == [calls EXCEPT ![c] = row]
    <3> HIDE DEF row
    <3>1. table[c] = row /\ table \in [Call -> CallRow \union {None}]
          /\ \A d \in Call : d # c => table[d] = calls[d]
      BY <2>4 DEF AccountsInv, AccountsTypeOK
    <3>2. [calls EXCEPT ![c] = s] = [table EXCEPT ![c] = s]
      BY <3>1 DEF AccountsInv, AccountsTypeOK
    <3> HIDE DEF table
    <3>3. LiveTokens(table[c].user) = these
      BY <2>4, <3>1
    <3>4. Sweeping(c, table) = [table EXCEPT ![c] = [table[c] EXCEPT !.stage = "SWEEPING",
                                                                   !.seen = these]]
      BY <3>1, <3>3 DEF Sweeping
    <3>5. Sweeping(c, table) = [table EXCEPT ![c] = s]
      BY <3>1, <3>4
    <3> QED BY <3>2, <3>5 DEF table
  <2>7. calls' = [calls EXCEPT ![c] = s]
    BY <2>1, <2>5, <2>6
  <2> HIDE DEF row
  <2>8. /\ s \in CallRow /\ s.stage = "SWEEPING" /\ s.seen = these
        /\ s.op = "CHANGE_INITIAL" /\ s.user = calls[c].user /\ s.token = calls[c].token
        /\ s.values = values /\ s.read = account[calls[c].user]
    <3> HIDE DEF these
    <3>1. s \in CallRow
      BY <1>2, <2>4 DEF CallRow
    <3> QED BY <2>4, <3>1 DEF CallRow
  <2> HIDE DEF s
  <2>9. UNCHANGED <<account, tokens, begun, assigned, raced>> /\ overlapped' = overlapped
    BY <1>3 DEF ChangeInitialPassword
  <2>10. /\ s.op = calls[c].op /\ s.seen = LiveTokens(s.user)
         /\ s.op \notin {"LOGIN", "REFRESH", "UNBLOCK"} /\ s.op = "CHANGE_INITIAL"
         /\ Admitted(s.user) /\ s.values \in Password /\ s.read = account[s.user]
         /\ ~RowLocked(s.user) /\ calls[c].stage = "READ"
    BY <2>1, <2>2, <2>8
  <2>11. overlapped' = IF s.op = "BLOCK" THEN overlapped \union LetInto(s.user)
                       ELSE overlapped
    BY <2>8, <2>9
  <2> QED BY <1>1, <2>7, <2>8, <2>9, <2>10, <2>11, SweepBegins, ZenonT(60)
<1>4. CASE WriteInTransaction(c) \/ BeginSweep(c)
  <2> DEFINE s == [calls[c] EXCEPT !.stage = "SWEEPING", !.seen = these]
  <2>1. calls' = Sweeping(c, calls)
    BY <1>4 DEF WriteInTransaction, BeginSweep
  <2>2. calls' = [calls EXCEPT ![c] = s]
    BY <1>1, <2>1 DEF Sweeping, AccountsInv, AccountsTypeOK
  <2>3. /\ s \in CallRow /\ s.stage = "SWEEPING" /\ s.seen = these
        /\ s.op = calls[c].op /\ s.user = calls[c].user /\ s.token = calls[c].token
        /\ s.values = calls[c].values /\ s.read = calls[c].read
        /\ s.fresh = calls[c].fresh
    <3>1. PICK r \in CallRow : r = calls[c]
      BY <1>1
    <3> DEFINE swept == [r EXCEPT !.stage = "SWEEPING", !.seen = these]
    <3>2. s = swept
      BY <3>1
    <3>3. /\ swept \in CallRow /\ swept.stage = "SWEEPING" /\ swept.seen = these
          /\ swept.op = r.op /\ swept.user = r.user /\ swept.token = r.token
          /\ swept.values = r.values /\ swept.read = r.read /\ swept.fresh = r.fresh
      <4> HIDE DEF these
      <4>1. swept \in CallRow
        BY <1>2 DEF CallRow
      <4> QED BY <4>1 DEF CallRow
    <3> HIDE DEF s, swept
    <3> QED BY <3>1, <3>2, <3>3
  <2> HIDE DEF s
  <2>4. UNCHANGED <<account, tokens, begun, assigned, raced>>
    BY <1>4 DEF WriteInTransaction, BeginSweep
  <2>5. /\ calls[c].op \notin {"LOGIN", "REFRESH", "UNBLOCK", "CHANGE_INITIAL"}
        /\ calls[c].op \in Transactions =>
             ~RowLocked(calls[c].user) /\ calls[c].stage = "READ"
    BY <1>4 DEF WriteInTransaction, BeginSweep, Transactions
  <2>6. overlapped' = IF calls[c].op = "BLOCK"
                      THEN overlapped \union LetInto(calls[c].user) ELSE overlapped
    BY <1>4 DEF WriteInTransaction, BeginSweep, Overlap, LetInto
  <2> QED BY <1>1, <2>2, <2>3, <2>4, <2>5, <2>6, SweepBegins
<1> QED BY <1>3, <1>4

LEMMA AccountsStep ==
  AccountsAssumption /\ AccountsInv /\ [AccountsNext]_accountVars => AccountsInv'
<1> SUFFICES ASSUME AccountsAssumption, AccountsInv, [AccountsNext]_accountVars
             PROVE  AccountsInv'
  OBVIOUS
<1>1. ASSUME begun < MaxCalls, SessionCall(begun + 1) \/ AdministrationCall(begun + 1)
      PROVE  AccountsInv'
  <2>1. PICK c \in Call : c = begun + 1
    BY <1>1 DEF Call, AccountsInv, AccountsTypeOK, AccountsAssumption
  <2> QED BY <1>1, <2>1, SessionCallKeeps, AdministrationCallKeeps
<1>2. ASSUME NEW c \in Call, ContinuedCall(c) PROVE AccountsInv'
  BY <1>2, FirstTokenIssued, RefreshCompleted, SweepingCallKeeps, WrittenAlone,
     SweepFinished, CallEnds DEF ContinuedCall
<1>3. CASE UNCHANGED accountVars
  <2>1. UNCHANGED <<account, tokens, calls, begun, assigned, raced, overlapped>>
    BY <1>3 DEF accountVars
  <2>2. AccountsTypeOK' /\ Numbered'
    BY <2>1 DEF AccountsInv, AccountsTypeOK, Numbered
  <2>3. Intents'
    BY <2>1, IntentsKept DEF AccountsInv
  <2>4. LocksHeld' /\ SuccessorsOrdered'
    BY <2>1 DEF AccountsInv, LocksHeld, SuccessorsOrdered, TokensExchangedOnce
  <2>5. RowsHeld' /\ OverlapsKnown'
    BY <2>1 DEF AccountsInv, RowsHeld, OverlapsKnown, Admitted, LetInto, LiveTokens, InFlight
  <2>6. ReadingsFresh' /\ SuperAdminStays'
    BY <2>1 DEF AccountsInv, ReadingsFresh, SuperAdminStays, SuperAdminRemains, HasRole,
                AnotherSuperAdmin, Admitted, TakesOneAway
  <2> QED BY <2>2, <2>3, <2>4, <2>5, <2>6 DEF AccountsInv
<1> QED BY <1>1, <1>2, <1>3 DEF AccountsNext

\* Accounts, refresh tokens and the calls under way satisfy the invariant.
THEOREM AccountsInvariant == AccountsSpec => []AccountsInv
BY AccountsAssumption, AccountsStart, AccountsStep, PTL DEF AccountsSpec

\* refreshAccessToken: a refresh token has one successor, whatever number of calls,
\* users and administrators there are.
THEOREM OneSuccessor == AccountsSpec => []TokensExchangedOnce
<1>1. AccountsInv => TokensExchangedOnce
  BY DEF AccountsInv, SuccessorsOrdered
<1> QED BY <1>1, AccountsInvariant, PTL

\* blockUser: a session that outlives a block belongs to a request that was let in
\* before the block was committed.
THEOREM BlockingEndsSessions == AccountsSpec => []BlockedSessionsEnd
<1>1. AccountsInv => BlockedSessionsEnd
  <2> SUFFICES ASSUME AccountsInv, NEW c \in Call, tokens[c] # None, ~tokens[c].revoked,
                      ~Admitted(tokens[c].user)
               PROVE  c \in overlapped
    BY DEF BlockedSessionsEnd
  <2>1. tokens[c].user \in User
    BY DEF AccountsInv, AccountsTypeOK, TokenRow
  <2>2. c \in LiveTokens(tokens[c].user)
    BY DEF LiveTokens
  <2> QED BY <2>1, <2>2 DEF AccountsInv, OverlapsKnown
<1> QED BY <1>1, AccountsInvariant, PTL

\* blockUser and assignRole: as long as no account was written from a reading that
\* another write had made old, a super admin can log in.
THEOREM SuperAdminIsLeft == AccountsSpec => []SuperAdminRemains
<1>1. AccountsInv => SuperAdminRemains
  BY DEF AccountsInv, SuperAdminStays
<1> QED BY <1>1, AccountsInvariant, PTL

-------------------------------------------------------------------------------
(* Sessions of a browser: statements on the tokens g, the messages tr, the   *)
(* cookie j, the pages and the roots signed out so, so that a step of        *)
(* several effects is followed one effect at a time.                         *)

UnderWay(tr, n) == tr[n] # None /\ tr[n].state \in {"SENT", "ANSWERED"}
Refreshes(tr, n) == UnderWay(tr, n) /\ tr[n].kind = "REFRESH"

TablesTyped(g, tr, j, so) ==
  /\ g \in [Cookie -> Grant \union {None}]
  /\ tr \in [RequestNo -> Message \union {None}]
  /\ j \in Cookie \union {NoValue}
  /\ so \subseteq Cookie

\* No refresh was sent stale; what is over keeps nothing.
MessagesFormed(tr) ==
  \A n \in RequestNo : tr[n] # None =>
    /\ ~tr[n].stale
    /\ tr[n].state \in {"ARRIVED", "LOST"} => tr[n] = Over(tr[n].state)
    /\ tr[n].state \notin {"ARRIVED", "LOST"} => tr[n].tab \in Tab /\ tr[n].kind # "OVER"
    /\ tr[n].kind = "SIGN_IN" => tr[n].user \in Staff

\* Only tokens that the browser was given are shown.
CookiesHeld(g, tr, j) ==
  /\ j # NoValue => g[j] # None /\ g[j].held
  /\ \A n \in RequestNo : tr[n] # None /\ tr[n].cookie # NoValue =>
       g[tr[n].cookie] # None /\ g[tr[n].cookie].held

\* The tokens of one session: all but the last are spent.
Families(g) ==
  \A t \in Cookie : g[t] # None =>
    /\ g[g[t].root] # None
    /\ t # g[t].root => g[g[t].root].fate = "SPENT"
    /\ g[t].fate = "SPENT" => g[t].held /\ g[t].by # NoValue
    /\ \A s \in Cookie :
         g[s] # None /\ g[s].root = g[t].root /\ g[s].fate # "SPENT" /\ g[t].fate # "SPENT"
           => s = t

\* A token is made when its request is served, and held when the answer is.
TokensOfAnswers(g, tr) ==
  \A n \in RequestNo :
    /\ g[n] # None => /\ tr[n] # None /\ tr[n].state \notin {"SENT", "LEFT"}
                      /\ tr[n].state = "ANSWERED" => ~g[n].held
    /\ tr[n] # None /\ tr[n].state = "ANSWERED" /\ tr[n].answer = "OK" =>
         /\ tr[n].kind = "REFRESH" => /\ g[n] # None /\ tr[n].cookie # NoValue
                                      /\ g[n].root = g[tr[n].cookie].root
         /\ tr[n].kind \in {"SIGN_IN", "CHANGE_PASSWORD"} => g[n] # None /\ g[n].root = n

\* Who spent a token was served.
SpendersServed(g, tr) ==
  \A t \in Cookie : g[t] # None /\ g[t].fate = "SPENT" =>
    LET m == g[t].by[1] IN
    /\ tr[m] # None /\ tr[m].state \in {"ANSWERED", "ARRIVED", "LOST"}
    /\ tr[m].state = "ANSWERED" =>
         tr[m].kind = g[t].by[2] /\ tr[m].tab = g[t].by[3] /\ tr[m].answer = "OK"

OnePerPage(tr, pages) ==
  \A n \in RequestNo : Refreshes(tr, n) => pages[tr[n].tab].refreshing = n

\* The answer that spent the cookie has not arrived; nor, if it was the same
\* page that asked for it, the answer that spent what a refresh will show.
SpentUnseen(g, tr, j) ==
  /\ j # NoValue /\ g[j].fate = "SPENT" => tr[g[j].by[1]].state # "ARRIVED"
  /\ \A n \in RequestNo : \A c \in Cookie :
       /\ Refreshes(tr, n) /\ tr[n].state = "SENT" /\ tr[n].cookie = c
       /\ g[c].fate = "SPENT" /\ g[c].by[2] = "REFRESH" /\ g[c].by[3] = tr[n].tab
       => tr[g[c].by[1]].state # "ARRIVED"

\* Of the session of c the browser holds no live token but c.
OthersOver(g, c) ==
  \A t \in Cookie : g[t] # None /\ g[t].held /\ g[t].root = g[c].root /\ t # c =>
    g[t].fate # "LIVE"

SignOutsAlone(g, tr, j) ==
  /\ j # NoValue => OthersOver(g, j)
  /\ \A n \in RequestNo : UnderWay(tr, n) /\ tr[n].alone =>
       /\ tr[n].kind = "SIGN_OUT"
       /\ \A m \in RequestNo : ~Refreshes(tr, m)
       /\ tr[n].cookie # NoValue =>
            /\ OthersOver(g, tr[n].cookie)
            /\ tr[n].state = "ANSWERED" => g[tr[n].cookie].fate # "LIVE"

\* What was signed out is shown by no refresh.
Ended(g, tr, j, so) ==
  /\ \A r \in so : g[r] # None /\ g[r].held
  /\ \A n \in RequestNo : Refreshes(tr, n) /\ tr[n].cookie # NoValue =>
       g[tr[n].cookie].root \notin so
  /\ \A t \in Cookie : g[t] # None /\ g[t].held /\ g[t].root \in so => g[t].fate # "LIVE"
  /\ j # NoValue => g[j].root \notin so

TokensInOrder(g, tr, j, so) ==
  /\ TablesTyped(g, tr, j, so) /\ MessagesFormed(tr) /\ CookiesHeld(g, tr, j) /\ Families(g)
  /\ TokensOfAnswers(g, tr) /\ SpendersServed(g, tr) /\ SpentUnseen(g, tr, j)
  /\ SignOutsAlone(g, tr, j) /\ Ended(g, tr, j, so)

\* A message that nobody waits for any more, or that is no longer alone
Fades(x, y) ==
  \/ y = x
  \/ x # None /\ x.state = "ANSWERED" /\ y = Over("LOST")
  \/ /\ x # None /\ y # None
     /\ y.kind = x.kind /\ y.tab = x.tab /\ y.cookie = x.cookie /\ y.user = x.user
     /\ y.answer = x.answer /\ y.stale = x.stale /\ (y.alone => x.alone)
     /\ y.state = x.state \/ (x.state = "SENT" /\ y.state = "LEFT")

LEMMA OverIsMessage ==
  \A s \in {"ARRIVED", "LOST"} :
    /\ Over(s) \in Message /\ Over(s).state = s /\ ~Over(s).stale /\ ~Over(s).alone
    /\ Over(s).kind = "OVER" /\ Over(s).cookie = NoValue /\ Over(s).tab = NoValue
    /\ Over(s) # None
<1> TAKE s \in {"ARRIVED", "LOST"}
<1>1. Over(s) \in Message
  BY DEF Over, Message
<1> QED
  BY <1>1, SessionsAssumption DEF Over

\* Requests and tokens are numbers, and nothing else.
LEMMA NamesApart ==
  /\ RequestNo \subseteq Cookie /\ NoValue \notin Cookie /\ NoValue \notin RequestNo
  /\ NoValue \notin Tab /\ NoValue \notin Spending /\ None \notin Grant /\ None \notin Message
BY SessionsAssumption DEF RequestNo, Cookie

LEMMA GrantFields ==
  \A x \in Grant : /\ x.root \in Cookie
                   /\ x.by # NoValue => x.by[1] \in RequestNo /\ x.by[2] \in {"REFRESH", "SIGN_OUT"}
                                        /\ x.by[3] \in Tab
BY DEF Grant, Spending

LEMMA FadingKeepsOrder ==
  ASSUME NEW g, NEW tr, NEW j, NEW so, TokensInOrder(g, tr, j, so),
         NEW new \in [RequestNo -> Message \union {None}],
         \A n \in RequestNo : Fades(tr[n], new[n])
  PROVE  TokensInOrder(g, new, j, so)
<1>1. /\ TablesTyped(g, tr, j, so) /\ MessagesFormed(tr) /\ CookiesHeld(g, tr, j) /\ Families(g)
      /\ TokensOfAnswers(g, tr) /\ SpendersServed(g, tr) /\ SpentUnseen(g, tr, j)
      /\ SignOutsAlone(g, tr, j) /\ Ended(g, tr, j, so)
  BY DEF TokensInOrder
<1>2. \A n \in RequestNo :
        /\ UnderWay(new, n) => /\ UnderWay(tr, n) /\ new[n].kind = tr[n].kind
                               /\ new[n].cookie = tr[n].cookie /\ new[n].tab = tr[n].tab
                               /\ new[n].state = tr[n].state
                               /\ (new[n].alone => tr[n].alone)
        /\ new[n] # None <=> tr[n] # None
        /\ new[n] # None =>
             /\ new[n].state = "ARRIVED" <=> tr[n].state = "ARRIVED"
             /\ tr[n].state \in {"ANSWERED", "ARRIVED", "LOST"} =>
                  new[n].state \in {"ANSWERED", "ARRIVED", "LOST"}
             /\ new[n].state = "ANSWERED" =>
                  tr[n].state = "ANSWERED" /\ new[n].answer = tr[n].answer
             /\ new[n].cookie # NoValue => new[n].cookie = tr[n].cookie
  BY OverIsMessage, NamesApart DEF Fades, UnderWay
<1>3. \A n \in RequestNo : Refreshes(new, n) => Refreshes(tr, n)
  BY <1>2 DEF Refreshes
<1>4. TablesTyped(g, new, j, so)
  BY <1>1 DEF TablesTyped
<1>5. MessagesFormed(new)
  <2> SUFFICES ASSUME NEW n \in RequestNo, new[n] # None
               PROVE  /\ ~new[n].stale
                      /\ new[n].state \in {"ARRIVED", "LOST"} => new[n] = Over(new[n].state)
                      /\ new[n].state \notin {"ARRIVED", "LOST"} =>
                           new[n].tab \in Tab /\ new[n].kind # "OVER"
                      /\ new[n].kind = "SIGN_IN" => new[n].user \in Staff
    BY DEF MessagesFormed
  <2>1. CASE new[n] = tr[n]
    BY <1>1, <2>1 DEF MessagesFormed
  <2>2. CASE new[n] = Over("LOST")
    BY <2>2, OverIsMessage
  <2>3. CASE new[n] # tr[n] /\ new[n] # Over("LOST")
    <3>1. /\ tr[n] # None /\ new[n].kind = tr[n].kind /\ new[n].tab = tr[n].tab
          /\ new[n].cookie = tr[n].cookie /\ new[n].user = tr[n].user
          /\ new[n].answer = tr[n].answer /\ new[n].stale = tr[n].stale
          /\ (new[n].alone => tr[n].alone)
          /\ new[n].state = tr[n].state \/ (tr[n].state = "SENT" /\ new[n].state = "LEFT")
      BY <2>3 DEF Fades
    <3>2. CASE tr[n].state \in {"ARRIVED", "LOST"}
      <4>1. tr[n] = Over(tr[n].state)
        BY <1>1, <3>1, <3>2 DEF MessagesFormed
      <4>2. tr[n].state = "ARRIVED" \/ tr[n].state = "LOST"
        BY <3>2
      <4>3. new[n] = Over(tr[n].state)
        BY <3>1, <4>1, <4>2 DEF Over, Message
      <4> QED
        BY <4>2, <4>3, OverIsMessage
    <3>3. CASE tr[n].state \notin {"ARRIVED", "LOST"}
      BY <1>1, <3>1, <3>3 DEF MessagesFormed
    <3> QED BY <3>2, <3>3
  <2> QED BY <2>1, <2>2, <2>3
<1>6. CookiesHeld(g, new, j)
  BY <1>1, <1>2 DEF CookiesHeld
<1>7. TokensOfAnswers(g, new)
  BY <1>1, <1>2, NamesApart DEF TokensOfAnswers, UnderWay, TablesTyped, Message
<1>8. SpendersServed(g, new)
  BY <1>1, <1>2, GrantFields DEF SpendersServed, UnderWay, TablesTyped, Families
<1>9. SpentUnseen(g, new, j)
  <2>1. \A c \in Cookie : g[c] # None /\ g[c].fate = "SPENT" =>
          g[c].by[1] \in RequestNo /\ tr[g[c].by[1]] # None /\ new[g[c].by[1]] # None
    BY <1>1, <1>2, GrantFields DEF TablesTyped, Families, SpendersServed
  <2>2. j # NoValue => j \in Cookie /\ g[j] # None
    BY <1>1 DEF TablesTyped, CookiesHeld
  <2>3. \A n \in RequestNo, c \in Cookie : Refreshes(tr, n) /\ tr[n].cookie = c => g[c] # None
    BY <1>1, NamesApart DEF CookiesHeld, Refreshes, UnderWay
  <2>4. j # NoValue /\ g[j].fate = "SPENT" => new[g[j].by[1]].state # "ARRIVED"
    BY <1>1, <1>2, <2>1, <2>2 DEF SpentUnseen
  <2>5. \A n \in RequestNo : Refreshes(new, n) =>
          Refreshes(tr, n) /\ new[n].state = tr[n].state /\ new[n].cookie = tr[n].cookie
          /\ new[n].tab = tr[n].tab
    BY <1>2, <1>3 DEF Refreshes
  <2> QED
    BY <1>1, <1>2, <2>1, <2>3, <2>4, <2>5 DEF SpentUnseen
<1>10. SignOutsAlone(g, new, j)
  BY <1>1, <1>2, <1>3 DEF SignOutsAlone
<1>11. Ended(g, new, j, so)
  BY <1>1, <1>2, <1>3 DEF Ended, Refreshes
<1> QED
  BY <1>1, <1>4, <1>5, <1>6, <1>7, <1>8, <1>9, <1>10, <1>11 DEF TokensInOrder

\* The parts of the order, and that what it names is there
LEMMA OrderParts ==
  ASSUME NEW g, NEW tr, NEW j, NEW so, TokensInOrder(g, tr, j, so)
  PROVE  /\ TablesTyped(g, tr, j, so) /\ MessagesFormed(tr) /\ CookiesHeld(g, tr, j) /\ Families(g)
         /\ TokensOfAnswers(g, tr) /\ SpendersServed(g, tr) /\ SpentUnseen(g, tr, j)
         /\ SignOutsAlone(g, tr, j) /\ Ended(g, tr, j, so)
         /\ \A c \in Cookie : g[c] # None =>
              /\ g[c] \in Grant /\ g[c].root \in Cookie
              /\ g[c].fate = "SPENT" =>
                   g[c].by[1] \in RequestNo /\ tr[g[c].by[1]] # None
                   /\ tr[g[c].by[1]].state \in {"ANSWERED", "ARRIVED", "LOST"}
         /\ j # NoValue => j \in Cookie /\ g[j] # None
         /\ \A n \in RequestNo : tr[n] # None =>
              /\ tr[n] \in Message
              /\ tr[n].cookie # NoValue => tr[n].cookie \in Cookie /\ g[tr[n].cookie] # None
<1>1. /\ TablesTyped(g, tr, j, so) /\ MessagesFormed(tr) /\ CookiesHeld(g, tr, j) /\ Families(g)
      /\ TokensOfAnswers(g, tr) /\ SpendersServed(g, tr) /\ SpentUnseen(g, tr, j)
      /\ SignOutsAlone(g, tr, j) /\ Ended(g, tr, j, so)
  BY DEF TokensInOrder
<1>2. \A c \in Cookie : g[c] # None =>
        /\ g[c] \in Grant /\ g[c].root \in Cookie
        /\ g[c].fate = "SPENT" => 
                   g[c].by[1] \in RequestNo /\ tr[g[c].by[1]] # None
                   /\ tr[g[c].by[1]].state \in {"ANSWERED", "ARRIVED", "LOST"}
  BY <1>1, GrantFields DEF TablesTyped, Families, SpendersServed
<1>3. j # NoValue => j \in Cookie /\ g[j] # None
  BY <1>1 DEF TablesTyped, CookiesHeld
<1>4. \A n \in RequestNo : tr[n] # None =>
        /\ tr[n] \in Message
        /\ tr[n].cookie # NoValue => tr[n].cookie \in Cookie /\ g[tr[n].cookie] # None
  BY <1>1 DEF TablesTyped, CookiesHeld, Message
<1> QED BY <1>1, <1>2, <1>3, <1>4

LEMMA SendingKeepsOrder ==
  ASSUME NEW g, NEW tr, NEW j, NEW so, TokensInOrder(g, tr, j, so),
         NEW n \in RequestNo, tr[n] = None, NEW x \in Message,
         x.state = "SENT", ~x.stale, x.tab \in Tab, x.kind # "OVER", x.cookie \in {j, NoValue},
         x.kind = "SIGN_IN" => x.user \in Staff,
         x.kind = "REFRESH" => \A m \in RequestNo : UnderWay(tr, m) => ~tr[m].alone,
         x.alone => x.kind = "SIGN_OUT" /\ \A m \in RequestNo : ~Refreshes(tr, m)
  PROVE  TokensInOrder(g, [tr EXCEPT ![n] = x], j, so)
<1> DEFINE new == [tr EXCEPT ![n] = x]
<1>1. /\ TablesTyped(g, tr, j, so) /\ MessagesFormed(tr) /\ CookiesHeld(g, tr, j) /\ Families(g)
      /\ TokensOfAnswers(g, tr) /\ SpendersServed(g, tr) /\ SpentUnseen(g, tr, j)
      /\ SignOutsAlone(g, tr, j) /\ Ended(g, tr, j, so)
  BY OrderParts
<1>2. /\ new \in [RequestNo -> Message \union {None}] /\ new[n] = x /\ x # None
      /\ \A m \in RequestNo : m # n => new[m] = tr[m]
  BY <1>1, NamesApart DEF TablesTyped
<1>3. /\ \A m \in RequestNo : m # n => (Refreshes(new, m) <=> Refreshes(tr, m))
                                       /\ (UnderWay(new, m) <=> UnderWay(tr, m))
      /\ Refreshes(new, n) => x.kind = "REFRESH"
      /\ g[n] = None /\ ~UnderWay(tr, n) /\ ~Refreshes(tr, n)
  BY <1>1, <1>2 DEF Refreshes, UnderWay, TokensOfAnswers
<1>4. /\ \A c \in Cookie : g[c] # None /\ g[c].fate = "SPENT" =>
           g[c].by[1] \in RequestNo /\ g[c].by[1] # n /\ tr[g[c].by[1]] # None
      /\ j # NoValue => j \in Cookie /\ g[j] # None
      /\ \A m \in RequestNo : tr[m] # None /\ tr[m].cookie # NoValue =>
           tr[m].cookie \in Cookie /\ g[tr[m].cookie] # None
  BY OrderParts
<1> HIDE DEF new
<1>5. TablesTyped(g, new, j, so)
  BY <1>1, <1>2 DEF TablesTyped
<1>6. MessagesFormed(new)
  BY <1>1, <1>2 DEF MessagesFormed
<1>7. CookiesHeld(g, new, j)
  BY <1>1, <1>2 DEF CookiesHeld
<1>8. TokensOfAnswers(g, new)
  BY <1>1, <1>2, <1>3 DEF TokensOfAnswers
<1>9. SpendersServed(g, new)
  BY <1>1, <1>2, <1>4 DEF SpendersServed
<1>10. SpentUnseen(g, new, j)
  <2>1. j # NoValue /\ g[j].fate = "SPENT" => new[g[j].by[1]].state # "ARRIVED"
    BY <1>1, <1>2, <1>4 DEF SpentUnseen
  <2>2. ASSUME NEW m \in RequestNo, NEW c \in Cookie,
               Refreshes(new, m), new[m].state = "SENT", new[m].cookie = c,
               g[c].fate = "SPENT", g[c].by[2] = "REFRESH", g[c].by[3] = new[m].tab
        PROVE  new[g[c].by[1]].state # "ARRIVED"
    <3>1. CASE m = n
      BY <2>1, <2>2, <1>2, <3>1, NamesApart
    <3>2. CASE m # n
      <4>1. g[c] # None
        BY <1>2, <1>3, <1>4, <2>2, <3>2, NamesApart DEF Refreshes, UnderWay
      <4> QED
        BY <1>1, <1>2, <1>3, <1>4, <2>2, <3>2, <4>1 DEF SpentUnseen
    <3> QED BY <3>1, <3>2
  <2> QED BY <2>1, <2>2 DEF SpentUnseen
<1>11. SignOutsAlone(g, new, j)
  BY <1>1, <1>2, <1>3 DEF SignOutsAlone
<1>12. Ended(g, new, j, so)
  BY <1>1, <1>2, <1>3 DEF Ended
<1>13. TokensInOrder(g, new, j, so)
  BY <1>1, <1>5, <1>6, <1>7, <1>8, <1>9, <1>10, <1>11, <1>12 DEF TokensInOrder
<1> QED
  BY <1>13 DEF new

\* The answer of the server to the message x
Answered(x, y) ==
  \/ x.state = "LEFT" /\ y = Over("LOST")
  \/ /\ x.state = "SENT" /\ y.state = "ANSWERED"
     /\ y.kind = x.kind /\ y.tab = x.tab /\ y.cookie = x.cookie /\ y.user = x.user
     /\ y.stale = x.stale /\ y.alone = x.alone

\* What an answer changes of the messages
AnswerGiven(g, tr, new, n, y) ==
  /\ new \in [RequestNo -> Message \union {None}] /\ new[n] = y /\ y # None
  /\ y.state \in {"ANSWERED", "LOST"}
  /\ y.cookie # NoValue => y.cookie = tr[n].cookie
  /\ y.state = "ANSWERED" => tr[n].state = "SENT"
  /\ \A m \in RequestNo : m # n => new[m] = tr[m]
  /\ \A m \in RequestNo : UnderWay(new, m) => UnderWay(tr, m)
  /\ \A m \in RequestNo : Refreshes(new, m) => Refreshes(tr, m)
  /\ \A m \in RequestNo : UnderWay(new, m) =>
       new[m].cookie = tr[m].cookie /\ new[m].alone = tr[m].alone
       /\ new[m].kind = tr[m].kind /\ new[m].tab = tr[m].tab
  /\ g[n] = None
  /\ MessagesFormed(new)
  /\ \A c \in Cookie : g[c] # None /\ g[c].fate = "SPENT" => g[c].by[1] # n

LEMMA AnswerFacts ==
  ASSUME NEW g, NEW tr, NEW j, NEW so, TokensInOrder(g, tr, j, so),
         NEW n \in RequestNo, tr[n] # None, tr[n].state \in {"SENT", "LEFT"},
         NEW y \in Message, Answered(tr[n], y),
         NEW new, new = [tr EXCEPT ![n] = y]
  PROVE  AnswerGiven(g, tr, new, n, y)
<1>1. /\ TablesTyped(g, tr, j, so) /\ MessagesFormed(tr) /\ TokensOfAnswers(g, tr)
      /\ \A c \in Cookie : g[c] # None /\ g[c].fate = "SPENT" =>
           tr[g[c].by[1]].state \in {"ANSWERED", "ARRIVED", "LOST"}
  BY OrderParts
<1>2. /\ new \in [RequestNo -> Message \union {None}] /\ new[n] = y /\ y # None
      /\ \A m \in RequestNo : m # n => new[m] = tr[m]
  BY <1>1, NamesApart DEF TablesTyped
<1>3. /\ y.state \in {"ANSWERED", "LOST"}
      /\ y.cookie # NoValue => y.cookie = tr[n].cookie
      /\ y.state = "ANSWERED" => tr[n].state = "SENT" /\ y.cookie = tr[n].cookie
                                 /\ y.alone = tr[n].alone /\ y.kind = tr[n].kind /\ y.tab = tr[n].tab
  BY OverIsMessage DEF Answered
<1>4. /\ \A m \in RequestNo : UnderWay(new, m) => UnderWay(tr, m)
      /\ \A m \in RequestNo : UnderWay(new, m) =>
           new[m].cookie = tr[m].cookie /\ new[m].alone = tr[m].alone
           /\ new[m].kind = tr[m].kind /\ new[m].tab = tr[m].tab
  BY <1>2, <1>3 DEF UnderWay
<1>5. \A m \in RequestNo : Refreshes(new, m) => Refreshes(tr, m)
  BY <1>4 DEF Refreshes
<1>6. g[n] = None
  BY <1>1 DEF TokensOfAnswers
<1>7. MessagesFormed(new)
  <2>1. /\ ~y.stale
        /\ y.state \in {"ARRIVED", "LOST"} => y = Over(y.state)
        /\ y.state \notin {"ARRIVED", "LOST"} => y.tab \in Tab /\ y.kind # "OVER"
        /\ y.kind = "SIGN_IN" => y.user \in Staff
    BY <1>1, OverIsMessage DEF Answered, MessagesFormed
  <2> QED BY <1>1, <1>2, <2>1 DEF MessagesFormed
<1>8. \A c \in Cookie : g[c] # None /\ g[c].fate = "SPENT" => g[c].by[1] # n
  BY <1>1
<1>9. y.state = "ANSWERED" => tr[n].state = "SENT"
  BY <1>3
<1>10. y.state \in {"ANSWERED", "LOST"} /\ (y.cookie # NoValue => y.cookie = tr[n].cookie)
  BY <1>3
<1> QED BY <1>2, <1>4, <1>5, <1>6, <1>7, <1>8, <1>9, <1>10 DEF AnswerGiven

\* An answer with which no token is stored or spent
LEMMA AnsweringKeepsOrder ==
  ASSUME NEW g, NEW tr, NEW j, NEW so, TokensInOrder(g, tr, j, so),
         NEW n \in RequestNo, tr[n] # None, tr[n].state \in {"SENT", "LEFT"},
         NEW y \in Message, Answered(tr[n], y),
         tr[n].kind \in {"REFRESH", "SIGN_IN", "CHANGE_PASSWORD"} =>
           (y.state = "ANSWERED" => y.answer # "OK"),
         tr[n].kind = "SIGN_OUT" /\ tr[n].cookie # NoValue => g[tr[n].cookie].fate # "LIVE"
  PROVE  TokensInOrder(g, [tr EXCEPT ![n] = y], j, so)
<1> DEFINE new == [tr EXCEPT ![n] = y]
<1>0. new = [tr EXCEPT ![n] = y]
  OBVIOUS
<1> HIDE DEF new
<1>1. /\ TablesTyped(g, tr, j, so) /\ CookiesHeld(g, tr, j) /\ Families(g)
      /\ TokensOfAnswers(g, tr) /\ SpendersServed(g, tr) /\ SpentUnseen(g, tr, j)
      /\ SignOutsAlone(g, tr, j) /\ Ended(g, tr, j, so)
  BY OrderParts
<1>given. AnswerGiven(g, tr, new, n, y)
  BY <1>0, AnswerFacts
<1>2. /\ new \in [RequestNo -> Message \union {None}] /\ new[n] = y /\ y # None
      /\ y.state \in {"ANSWERED", "LOST"}
      /\ y.cookie # NoValue => y.cookie = tr[n].cookie
      /\ y.state = "ANSWERED" => tr[n].state = "SENT"
      /\ \A m \in RequestNo : m # n => new[m] = tr[m]
      /\ \A m \in RequestNo : UnderWay(new, m) => UnderWay(tr, m)
      /\ \A m \in RequestNo : Refreshes(new, m) => Refreshes(tr, m)
      /\ \A m \in RequestNo : UnderWay(new, m) =>
           new[m].cookie = tr[m].cookie /\ new[m].alone = tr[m].alone
           /\ new[m].kind = tr[m].kind /\ new[m].tab = tr[m].tab
      /\ g[n] = None
      /\ MessagesFormed(new)
      /\ \A c \in Cookie : g[c] # None /\ g[c].fate = "SPENT" => g[c].by[1] # n
  BY <1>given DEF AnswerGiven
<1>3. \A c \in Cookie : g[c] # None /\ g[c].fate = "SPENT" => g[c].by[1] \in RequestNo
  BY OrderParts
<1>4. /\ j # NoValue => j \in Cookie /\ g[j] # None
      /\ \A m \in RequestNo : tr[m] # None /\ tr[m].cookie # NoValue =>
           tr[m].cookie \in Cookie /\ g[tr[m].cookie] # None
  BY OrderParts
<1>5. TablesTyped(g, new, j, so)
  BY <1>1, <1>2 DEF TablesTyped
<1>6. CookiesHeld(g, new, j)
  BY <1>1, <1>2 DEF CookiesHeld
<1>7. TokensOfAnswers(g, new)
  <2>1. y.state = "ANSWERED" => y.kind = tr[n].kind
    BY <1>2 DEF UnderWay
  <2> QED
    BY <1>1, <1>2, <2>1 DEF TokensOfAnswers
<1>8. SpendersServed(g, new)
  BY <1>1, <1>2, <1>3 DEF SpendersServed
<1>9. SpentUnseen(g, new, j)
  <2>1. j # NoValue /\ g[j].fate = "SPENT" => new[g[j].by[1]].state # "ARRIVED"
    BY <1>1, <1>2, <1>3, <1>4 DEF SpentUnseen
  <2>2. ASSUME NEW m \in RequestNo, NEW c \in Cookie,
               Refreshes(new, m), new[m].state = "SENT", new[m].cookie = c,
               g[c].fate = "SPENT", g[c].by[2] = "REFRESH", g[c].by[3] = new[m].tab
        PROVE  new[g[c].by[1]].state # "ARRIVED"
    <3>1. m # n
      BY <1>2, <2>2
    <3>2. g[c] # None
      BY <1>2, <1>4, <2>2, <3>1, NamesApart DEF Refreshes, UnderWay
    <3> QED
      BY <1>1, <1>2, <1>3, <2>2, <3>1, <3>2 DEF SpentUnseen
  <2> QED BY <2>1, <2>2 DEF SpentUnseen
<1>10. SignOutsAlone(g, new, j)
  BY <1>1, <1>2 DEF SignOutsAlone, UnderWay
<1>11. Ended(g, new, j, so)
  BY <1>1, <1>2 DEF Ended, Refreshes
<1>12. TokensInOrder(g, new, j, so)
  BY <1>1, <1>2, <1>5, <1>6, <1>7, <1>8, <1>9, <1>10, <1>11 DEF TokensInOrder
<1> QED
  BY <1>12, <1>0

\* The tokens of a user are swept.
LEMMA SweepingKeepsOrder ==
  ASSUME NEW g, NEW tr, NEW j, NEW so, TokensInOrder(g, tr, j, so), NEW u
  PROVE  TokensInOrder(AllSwept(g, u), tr, j, so)
<1> DEFINE new == AllSwept(g, u)
<1>1. /\ TablesTyped(g, tr, j, so) /\ MessagesFormed(tr) /\ CookiesHeld(g, tr, j) /\ Families(g)
      /\ TokensOfAnswers(g, tr) /\ SpendersServed(g, tr) /\ SpentUnseen(g, tr, j)
      /\ SignOutsAlone(g, tr, j) /\ Ended(g, tr, j, so)
  BY OrderParts
<1>2. /\ j # NoValue => j \in Cookie /\ g[j] # None
      /\ \A m \in RequestNo : tr[m] # None /\ tr[m].cookie # NoValue =>
           tr[m].cookie \in Cookie /\ g[tr[m].cookie] # None
      /\ \A c \in Cookie : g[c] # None => g[c] \in Grant /\ g[c].root \in Cookie
  BY OrderParts
<1>3. /\ new \in [Cookie -> Grant \union {None}]
      /\ \A t \in Cookie :
           /\ new[t] = None <=> g[t] = None
           /\ g[t] # None => /\ new[t].root = g[t].root /\ new[t].held = g[t].held
                             /\ new[t].by = g[t].by
                             /\ new[t].fate = "SPENT" <=> g[t].fate = "SPENT"
                             /\ new[t].fate = "LIVE" => g[t].fate = "LIVE"
  <2>1. \A t \in Cookie : g[t] # None => [g[t] EXCEPT !.fate = "SWEPT"] \in Grant
    BY <1>2 DEF Grant
  <2>2. \A t \in Cookie : g[t] # None =>
          /\ [g[t] EXCEPT !.fate = "SWEPT"].root = g[t].root
          /\ [g[t] EXCEPT !.fate = "SWEPT"].held = g[t].held
          /\ [g[t] EXCEPT !.fate = "SWEPT"].by = g[t].by
          /\ [g[t] EXCEPT !.fate = "SWEPT"].fate = "SWEPT"
          /\ [g[t] EXCEPT !.fate = "SWEPT"] # None
    BY <1>2, <2>1, NamesApart DEF Grant
  <2>3. new = [t \in Cookie |-> IF g[t] # None /\ g[t].user = u /\ g[t].fate = "LIVE"
                                THEN [g[t] EXCEPT !.fate = "SWEPT"] ELSE g[t]]
    BY <1>1 DEF AllSwept, TablesTyped
  <2> HIDE DEF new
  <2> QED
    BY <1>1, <2>1, <2>2, <2>3 DEF TablesTyped
<1> HIDE DEF new
<1>4. TablesTyped(new, tr, j, so)
  BY <1>1, <1>3 DEF TablesTyped
<1>5. CookiesHeld(new, tr, j)
  BY <1>1, <1>2, <1>3 DEF CookiesHeld
<1>6. Families(new)
  BY <1>1, <1>2, <1>3 DEF Families
<1>7. TokensOfAnswers(new, tr)
  BY <1>1, <1>2, <1>3, NamesApart DEF TokensOfAnswers
<1>8. SpendersServed(new, tr)
  BY <1>1, <1>3 DEF SpendersServed
<1>9. SpentUnseen(new, tr, j)
  <2>1. j # NoValue /\ new[j].fate = "SPENT" => tr[new[j].by[1]].state # "ARRIVED"
    BY <1>1, <1>2, <1>3 DEF SpentUnseen
  <2>2. \A m \in RequestNo, c \in Cookie : Refreshes(tr, m) /\ tr[m].cookie = c => g[c] # None
    BY <1>2, NamesApart DEF Refreshes, UnderWay
  <2> QED
    BY <1>1, <1>3, <2>1, <2>2 DEF SpentUnseen
<1>10. SignOutsAlone(new, tr, j)
  <2>1. \A c \in Cookie : g[c] # None /\ OthersOver(g, c) => OthersOver(new, c)
    BY <1>3 DEF OthersOver
  <2> QED
    BY <1>1, <1>2, <1>3, <2>1 DEF SignOutsAlone, UnderWay
<1>11. Ended(new, tr, j, so)
  <2>1. so \subseteq Cookie
    BY <1>1 DEF TablesTyped
  <2> QED
    BY <1>1, <1>2, <1>3, <2>1 DEF Ended, Refreshes, UnderWay
<1>12. TokensInOrder(new, tr, j, so)
  BY <1>1, <1>4, <1>5, <1>6, <1>7, <1>8, <1>9, <1>10, <1>11 DEF TokensInOrder
<1> QED
  BY <1>12 DEF new

\* A session begins: its first token is its root.
LEMMA BeginningKeepsOrder ==
  ASSUME NEW g, NEW tr, NEW j, NEW so, TokensInOrder(g, tr, j, so),
         NEW n \in RequestNo, tr[n] # None, tr[n].state \in {"SENT", "LEFT"},
         tr[n].kind \in {"SIGN_IN", "CHANGE_PASSWORD"}, NEW u \in Staff,
         NEW y \in Message, Answered(tr[n], y)
  PROVE  TokensInOrder(Stored(g, n, u, n), [tr EXCEPT ![n] = y], j, so)
<1> DEFINE new == [tr EXCEPT ![n] = y]
           made == Stored(g, n, u, n)
<1>0. new = [tr EXCEPT ![n] = y] /\ made = Stored(g, n, u, n)
  OBVIOUS
<1> HIDE DEF new, made
<1>1. /\ TablesTyped(g, tr, j, so) /\ CookiesHeld(g, tr, j) /\ Families(g)
      /\ TokensOfAnswers(g, tr) /\ SpendersServed(g, tr) /\ SpentUnseen(g, tr, j)
      /\ SignOutsAlone(g, tr, j) /\ Ended(g, tr, j, so)
  BY OrderParts
<1>given. AnswerGiven(g, tr, new, n, y)
  BY <1>0, AnswerFacts
<1>2. /\ new \in [RequestNo -> Message \union {None}] /\ new[n] = y /\ y # None
      /\ y.state \in {"ANSWERED", "LOST"}
      /\ y.cookie # NoValue => y.cookie = tr[n].cookie
      /\ y.state = "ANSWERED" => tr[n].state = "SENT"
      /\ \A m \in RequestNo : m # n => new[m] = tr[m]
      /\ \A m \in RequestNo : UnderWay(new, m) => UnderWay(tr, m)
      /\ \A m \in RequestNo : Refreshes(new, m) => Refreshes(tr, m)
      /\ \A m \in RequestNo : UnderWay(new, m) =>
           new[m].cookie = tr[m].cookie /\ new[m].alone = tr[m].alone
           /\ new[m].kind = tr[m].kind /\ new[m].tab = tr[m].tab
      /\ g[n] = None
      /\ MessagesFormed(new)
      /\ \A c \in Cookie : g[c] # None /\ g[c].fate = "SPENT" => g[c].by[1] # n
  BY <1>given DEF AnswerGiven
<1>3. \A c \in Cookie : g[c] # None =>
        /\ g[c] \in Grant /\ g[c].root \in Cookie
        /\ g[c].fate = "SPENT" => g[c].by[1] \in RequestNo
  BY OrderParts
<1>4. /\ j # NoValue => j \in Cookie /\ g[j] # None
      /\ \A m \in RequestNo : tr[m] # None /\ tr[m].cookie # NoValue =>
           tr[m].cookie \in Cookie /\ g[tr[m].cookie] # None
  BY OrderParts
<1>5. /\ made \in [Cookie -> Grant \union {None}] /\ n \in Cookie /\ made[n] # None
      /\ made[n].root = n /\ made[n].fate = "LIVE" /\ ~made[n].held
      /\ \A c \in Cookie : c # n => made[c] = g[c]
      /\ \A c \in Cookie : g[c] # None => c # n /\ g[c].root # n
  <2> DEFINE row == [user |-> u, fate |-> "LIVE", by |-> NoValue, root |-> n, held |-> FALSE]
  <2>0. row \in Grant /\ n \in Cookie
    BY NamesApart DEF Grant
  <2>1. row \in Grant /\ n \in Cookie /\ row # None
        /\ row.root = n /\ row.fate = "LIVE" /\ ~row.held
    BY <2>0, NamesApart
  <2>2. made = [g EXCEPT ![n] = row]
    BY <1>0 DEF Stored
  <2>3. \A c \in Cookie : g[c] # None => c # n /\ g[c].root # n
    BY <1>1, <1>2, <1>3 DEF Families
  <2> HIDE DEF row
  <2> QED
    BY <1>1, <2>1, <2>2, <2>3 DEF TablesTyped
<1>6. TablesTyped(made, new, j, so)
  BY <1>1, <1>2, <1>5 DEF TablesTyped
<1>7. CookiesHeld(made, new, j)
  BY <1>1, <1>2, <1>4, <1>5 DEF CookiesHeld
<1>8. Families(made)
  <2> SUFFICES ASSUME NEW t \in Cookie, made[t] # None
               PROVE  /\ made[made[t].root] # None
                      /\ t # made[t].root => made[made[t].root].fate = "SPENT"
                      /\ made[t].fate = "SPENT" => made[t].held /\ made[t].by # NoValue
                      /\ \A s \in Cookie :
                           made[s] # None /\ made[s].root = made[t].root
                           /\ made[s].fate # "SPENT" /\ made[t].fate # "SPENT" => s = t
    BY DEF Families
  <2>1. CASE t = n
    BY <1>5, <2>1
  <2>2. CASE t # n
    BY <1>1, <1>3, <1>5, <2>2 DEF Families
  <2> QED BY <2>1, <2>2
<1>9. TokensOfAnswers(made, new)
  <2>1. /\ y.state = "ANSWERED" => y.kind = tr[n].kind
        /\ y.state \notin {"SENT", "LEFT"}
    BY <1>2 DEF UnderWay
  <2>2. \A m \in RequestNo : m # n => made[m] = g[m]
    BY <1>5, NamesApart
  <2>3. \A m \in RequestNo : tr[m] # None /\ tr[m].cookie # NoValue =>
          made[tr[m].cookie] = g[tr[m].cookie]
    BY <1>4, <1>5
  <2> QED
    BY <1>1, <1>2, <1>5, <2>1, <2>2, <2>3 DEF TokensOfAnswers
<1>10. SpendersServed(made, new)
  BY <1>1, <1>2, <1>3, <1>5 DEF SpendersServed
<1>11. SpentUnseen(made, new, j)
  <2>1. j # NoValue /\ made[j].fate = "SPENT" => new[made[j].by[1]].state # "ARRIVED"
    BY <1>1, <1>2, <1>3, <1>4, <1>5 DEF SpentUnseen
  <2>2. ASSUME NEW m \in RequestNo, NEW c \in Cookie,
               Refreshes(new, m), new[m].state = "SENT", new[m].cookie = c,
               made[c].fate = "SPENT", made[c].by[2] = "REFRESH", made[c].by[3] = new[m].tab
        PROVE  new[made[c].by[1]].state # "ARRIVED"
    <3>1. m # n
      BY <1>2, <2>2
    <3>2. g[c] # None /\ made[c] = g[c]
      BY <1>2, <1>4, <1>5, <2>2, <3>1, NamesApart DEF Refreshes, UnderWay
    <3> QED
      BY <1>1, <1>2, <1>3, <2>2, <3>1, <3>2 DEF SpentUnseen
  <2> QED BY <2>1, <2>2 DEF SpentUnseen
<1>12. SignOutsAlone(made, new, j)
  <2>1. \A c \in Cookie : g[c] # None /\ OthersOver(g, c) => OthersOver(made, c)
    BY <1>5 DEF OthersOver
  <2>2. \A m \in RequestNo : m # n => new[m] = tr[m]
    BY <1>2
  <2>3. \A m \in RequestNo : UnderWay(new, m) /\ new[m].alone => m # n /\ UnderWay(tr, m) /\ tr[m].alone
    BY <1>1, <1>2 DEF SignOutsAlone, UnderWay
  <2>4. \A m \in RequestNo : tr[m] # None /\ tr[m].cookie # NoValue =>
          made[tr[m].cookie] = g[tr[m].cookie]
    BY <1>4, <1>5
  <2> QED
    BY <1>1, <1>2, <1>4, <2>1, <2>2, <2>3, <2>4 DEF SignOutsAlone, UnderWay
<1>13. Ended(made, new, j, so)
  <2>1. so \subseteq Cookie
    BY <1>1 DEF TablesTyped
  <2>2. \A m \in RequestNo : Refreshes(new, m) => m # n /\ tr[m] # None
    BY <1>2 DEF Refreshes, UnderWay
  <2>3. \A r \in so : made[r] # None /\ made[r].held
    BY <1>1, <1>2, <1>5, <2>1 DEF Ended
  <2>4. \A m \in RequestNo : Refreshes(new, m) /\ new[m].cookie # NoValue =>
       made[new[m].cookie].root \notin so
    BY <1>1, <1>2, <1>4, <1>5, <2>2 DEF Ended
  <2>5. \A t \in Cookie : made[t] # None /\ made[t].held /\ made[t].root \in so => made[t].fate # "LIVE"
    BY <1>1, <1>5 DEF Ended
  <2>6. j # NoValue => made[j].root \notin so
    BY <1>1, <1>4, <1>5 DEF Ended
  <2> QED
    BY <2>3, <2>4, <2>5, <2>6 DEF Ended
<1>14. TokensInOrder(made, new, j, so)
  BY <1>1, <1>2, <1>6, <1>7, <1>8, <1>9, <1>10, <1>11, <1>12, <1>13 DEF TokensInOrder
<1> QED
  BY <1>14, <1>0

\* The request n spends the token c: a sign-out revokes it, a refresh exchanges it.
Spends(g, tr, made, n, c) ==
  /\ made \in [Cookie -> Grant \union {None}]
  /\ made[c] # None /\ made[c].root = g[c].root /\ made[c].held = g[c].held
  /\ made[c].fate = "SPENT" /\ made[c].by = <<n, tr[n].kind, tr[n].tab>>
  /\ tr[n].kind = "SIGN_OUT" => made[n] = None
  /\ tr[n].kind = "REFRESH" => /\ made[n] # None /\ made[n].root = g[c].root
                               /\ made[n].fate = "LIVE" /\ ~made[n].held
  /\ \A t \in Cookie : t # n /\ t # c => made[t] = g[t]

LEMMA SpendingKeepsOrder ==
  ASSUME NEW g, NEW tr, NEW j, NEW so, TokensInOrder(g, tr, j, so),
         NEW n \in RequestNo, tr[n] # None, tr[n].state \in {"SENT", "LEFT"},
         tr[n].kind \in {"REFRESH", "SIGN_OUT"},
         NEW c \in Cookie, tr[n].cookie = c, g[c].fate = "LIVE",
         NEW made, Spends(g, tr, made, n, c),
         NEW y \in Message, Answered(tr[n], y), y.state = "ANSWERED" => y.answer = "OK"
  PROVE  TokensInOrder(made, [tr EXCEPT ![n] = y], j, so)
<1> DEFINE new == [tr EXCEPT ![n] = y]
<1>0. new = [tr EXCEPT ![n] = y]
  OBVIOUS
<1> HIDE DEF new
<1>1. /\ TablesTyped(g, tr, j, so) /\ CookiesHeld(g, tr, j) /\ Families(g)
      /\ TokensOfAnswers(g, tr) /\ SpendersServed(g, tr) /\ SpentUnseen(g, tr, j)
      /\ SignOutsAlone(g, tr, j) /\ Ended(g, tr, j, so)
  BY OrderParts
<1>given. AnswerGiven(g, tr, new, n, y)
  BY <1>0, AnswerFacts
<1>2. /\ new \in [RequestNo -> Message \union {None}] /\ new[n] = y /\ y # None
      /\ y.state \in {"ANSWERED", "LOST"}
      /\ y.cookie # NoValue => y.cookie = tr[n].cookie
      /\ y.state = "ANSWERED" => tr[n].state = "SENT"
      /\ \A m \in RequestNo : m # n => new[m] = tr[m]
      /\ \A m \in RequestNo : UnderWay(new, m) => UnderWay(tr, m)
      /\ \A m \in RequestNo : Refreshes(new, m) => Refreshes(tr, m)
      /\ \A m \in RequestNo : UnderWay(new, m) =>
           new[m].cookie = tr[m].cookie /\ new[m].alone = tr[m].alone
           /\ new[m].kind = tr[m].kind /\ new[m].tab = tr[m].tab
      /\ g[n] = None
      /\ MessagesFormed(new)
      /\ \A t \in Cookie : g[t] # None /\ g[t].fate = "SPENT" => g[t].by[1] # n
  BY <1>given DEF AnswerGiven
<1>3. \A t \in Cookie : g[t] # None =>
        /\ g[t] \in Grant /\ g[t].root \in Cookie
        /\ g[t].fate = "SPENT" => g[t].by[1] \in RequestNo
  BY OrderParts
<1>4. /\ j # NoValue => j \in Cookie /\ g[j] # None
      /\ \A m \in RequestNo : tr[m] # None /\ tr[m].cookie # NoValue =>
           tr[m].cookie \in Cookie /\ g[tr[m].cookie] # None
  BY OrderParts
<1>5. /\ n \in Cookie /\ c # NoValue /\ g[c] # None /\ c # n /\ g[c].held
      /\ \A t \in Cookie : g[t] # None => t # n /\ g[t].root # n
      /\ made[c].by[1] = n /\ made[c].by[2] = tr[n].kind /\ made[c].by[3] = tr[n].tab
      /\ made[c].by # NoValue
  <2>1. n \in Cookie /\ c # NoValue /\ g[c] # None /\ g[c].held
    BY <1>1, NamesApart DEF CookiesHeld
  <2>2. \A t \in Cookie : g[t] # None => t # n /\ g[t].root # n
    BY <1>1, <1>2, <1>3 DEF Families
  <2>3. made[c].by[1] = n /\ made[c].by[2] = tr[n].kind /\ made[c].by[3] = tr[n].tab
    BY DEF Spends
  <2>4. tr[n].tab \in Tab
    BY <1>2, OrderParts DEF MessagesFormed
  <2>5. made[c].by # NoValue
    <3>1. <<n, tr[n].kind, tr[n].tab>> \in Spending
      BY <2>4 DEF Spending
    <3> QED BY <3>1, NamesApart DEF Spends
  <2> QED BY <2>1, <2>2, <2>3, <2>5
<1>6. /\ made \in [Cookie -> Grant \union {None}]
      /\ made[c] # None /\ made[c].root = g[c].root /\ made[c].held = g[c].held
      /\ made[c].fate = "SPENT"
      /\ tr[n].kind = "SIGN_OUT" => made[n] = None
      /\ tr[n].kind = "REFRESH" => /\ made[n] # None /\ made[n].root = g[c].root
                                   /\ made[n].fate = "LIVE" /\ ~made[n].held
      /\ \A t \in Cookie : t # n /\ t # c => made[t] = g[t]
      /\ \A t \in Cookie : t # n =>
           /\ made[t] # None <=> g[t] # None
           /\ made[t].root = g[t].root /\ made[t].held = g[t].held
           /\ made[t].fate = "LIVE" => g[t].fate = "LIVE"
           /\ g[t].fate = "SPENT" => made[t] = g[t]
           /\ made[t].fate = "SPENT" => t = c \/ g[t].fate = "SPENT"
  BY <1>5 DEF Spends
<1>7. TablesTyped(made, new, j, so)
  BY <1>1, <1>2, <1>6 DEF TablesTyped
<1>8. CookiesHeld(made, new, j)
  BY <1>1, <1>2, <1>4, <1>5, <1>6 DEF CookiesHeld
<1>9. Families(made)
  <2> SUFFICES ASSUME NEW t \in Cookie, made[t] # None
               PROVE  /\ made[made[t].root] # None
                      /\ t # made[t].root => made[made[t].root].fate = "SPENT"
                      /\ made[t].fate = "SPENT" => made[t].held /\ made[t].by # NoValue
                      /\ \A s \in Cookie :
                           made[s] # None /\ made[s].root = made[t].root
                           /\ made[s].fate # "SPENT" /\ made[t].fate # "SPENT" => s = t
    BY DEF Families
  <2>1. CASE t = n
    <3>1. made[t].root = g[c].root /\ made[t].fate = "LIVE"
      BY <1>6, <2>1
    <3>2. g[c].root \in Cookie /\ g[g[c].root] # None /\ g[c].root # n
          /\ (c # g[c].root => g[g[c].root].fate = "SPENT")
      BY <1>1, <1>3, <1>5 DEF Families
    <3>3. made[g[c].root] # None /\ made[g[c].root].fate = "SPENT"
      BY <1>6, <3>2
    <3>4. ASSUME NEW s \in Cookie, made[s] # None, made[s].root = g[c].root, made[s].fate # "SPENT"
          PROVE  s = t
      BY <1>1, <1>5, <1>6, <2>1, <3>4 DEF Families
    <3> QED BY <3>1, <3>3, <3>4
  <2>2. CASE t # n
    <3>1. g[t] # None /\ made[t].root = g[t].root /\ g[t].root \in Cookie /\ g[t].root # n
          /\ g[g[t].root] # None
          /\ (t # g[t].root => g[g[t].root].fate = "SPENT")
      BY <1>1, <1>3, <1>5, <1>6, <2>2 DEF Families
    <3>2. made[g[t].root] # None /\ (t # g[t].root => made[g[t].root].fate = "SPENT")
      BY <1>6, <3>1
    <3>3. made[t].fate = "SPENT" => made[t].held /\ made[t].by # NoValue
      BY <1>1, <1>5, <1>6, <2>2, <3>1 DEF Families
    <3>4. ASSUME NEW s \in Cookie, made[s] # None, made[s].root = g[t].root, made[s].fate # "SPENT",
                 made[t].fate # "SPENT"
          PROVE  s = t
      <4>1. g[t].fate # "SPENT" /\ t # c
        BY <1>6, <2>2, <3>4
      <4>2. CASE s = n
        BY <1>1, <1>5, <1>6, <3>1, <3>4, <4>1, <4>2 DEF Families
      <4>3. CASE s # n
        BY <1>1, <1>5, <1>6, <3>1, <3>4, <4>1, <4>3 DEF Families
      <4> QED BY <4>2, <4>3
    <3> QED BY <3>1, <3>2, <3>3, <3>4
  <2> QED BY <2>1, <2>2
<1>10. TokensOfAnswers(made, new)
  <2>1. /\ y.state = "ANSWERED" => y.kind = tr[n].kind
        /\ y.state \notin {"SENT", "LEFT"}
    BY <1>2 DEF UnderWay
  <2>2. \A m \in RequestNo : m # n =>
          /\ made[m] # None <=> g[m] # None
          /\ made[m].root = g[m].root /\ made[m].held = g[m].held
    BY <1>6, NamesApart
  <2>3. \A m \in RequestNo : tr[m] # None /\ tr[m].cookie # NoValue =>
          made[tr[m].cookie].root = g[tr[m].cookie].root
    BY <1>4, <1>5, <1>6
  <2>4. y.state = "ANSWERED" => y.cookie = c
    BY <1>2 DEF UnderWay
  <2>5. ASSUME NEW m \in RequestNo
        PROVE  /\ made[m] # None => /\ new[m] # None /\ new[m].state \notin {"SENT", "LEFT"}
                                    /\ new[m].state = "ANSWERED" => ~made[m].held
               /\ new[m] # None /\ new[m].state = "ANSWERED" /\ new[m].answer = "OK" =>
                    /\ new[m].kind = "REFRESH" => /\ made[m] # None /\ new[m].cookie # NoValue
                                                  /\ made[m].root = made[new[m].cookie].root
                    /\ new[m].kind \in {"SIGN_IN", "CHANGE_PASSWORD"} =>
                         made[m] # None /\ made[m].root = m
    <3>1. CASE m = n
      BY <1>2, <1>5, <1>6, <2>1, <2>4, <3>1
    <3>2. CASE m # n
      BY <1>1, <1>2, <2>2, <2>3, <3>2 DEF TokensOfAnswers
    <3> QED BY <3>1, <3>2
  <2> QED BY <2>5 DEF TokensOfAnswers
<1>11. SpendersServed(made, new)
  <2>1. y.state = "ANSWERED" => y.kind = tr[n].kind /\ y.tab = tr[n].tab
    BY <1>2 DEF UnderWay
  <2>2. ASSUME NEW t \in Cookie, made[t] # None, made[t].fate = "SPENT", NEW m, m = made[t].by[1]
        PROVE  /\ new[m] # None /\ new[m].state \in {"ANSWERED", "ARRIVED", "LOST"}
               /\ new[m].state = "ANSWERED" =>
                    /\ new[m].kind = made[t].by[2] /\ new[m].tab = made[t].by[3]
                    /\ new[m].answer = "OK"
    <3>1. CASE t = c
      BY <1>2, <1>5, <2>1, <2>2, <3>1
    <3>2. CASE t # c
      BY <1>1, <1>2, <1>3, <1>6, <2>2, <3>2 DEF SpendersServed
    <3> QED BY <3>1, <3>2
  <2> QED BY <2>2 DEF SpendersServed
<1>12. SpentUnseen(made, new, j)
  <2>1. ASSUME NEW t \in Cookie, g[t] # None, made[t].fate = "SPENT",
               g[t].fate = "SPENT" => tr[g[t].by[1]].state # "ARRIVED"
        PROVE  new[made[t].by[1]].state # "ARRIVED"
    BY <1>2, <1>3, <1>5, <1>6, <2>1
  <2>2. j # NoValue /\ made[j].fate = "SPENT" => new[made[j].by[1]].state # "ARRIVED"
    BY <1>1, <1>4, <2>1 DEF SpentUnseen
  <2>3. ASSUME NEW m \in RequestNo, NEW t \in Cookie,
               Refreshes(new, m), new[m].state = "SENT", new[m].cookie = t,
               made[t].fate = "SPENT", made[t].by[2] = "REFRESH", made[t].by[3] = new[m].tab
        PROVE  new[made[t].by[1]].state # "ARRIVED"
    <3>1. m # n
      BY <1>2, <2>3
    <3>2. g[t] # None
      BY <1>2, <1>4, <2>3, <3>1, NamesApart DEF Refreshes, UnderWay
    <3>3. CASE t = c
      BY <1>2, <1>5, <3>3
    <3>4. CASE t # c
      BY <1>1, <1>2, <1>3, <1>5, <1>6, <2>3, <3>1, <3>2, <3>4 DEF SpentUnseen
    <3> QED BY <3>3, <3>4
  <2> QED BY <2>2, <2>3 DEF SpentUnseen
<1>13. SignOutsAlone(made, new, j)
  <2>1. \A t \in Cookie : g[t] # None /\ OthersOver(g, t) => OthersOver(made, t)
    <3> SUFFICES ASSUME NEW t \in Cookie, g[t] # None, OthersOver(g, t),
                        NEW s \in Cookie, made[s] # None, made[s].held, made[s].root = made[t].root, s # t
                 PROVE  made[s].fate # "LIVE"
      BY DEF OthersOver
    <3>1. s # n
      BY <1>6
    <3>2. t # n /\ made[t].root = g[t].root
      BY <1>5, <1>6
    <3> QED BY <1>6, <3>1, <3>2 DEF OthersOver
  <2>2. j # NoValue => OthersOver(made, j)
    BY <1>1, <1>4, <2>1 DEF SignOutsAlone
  <2>3. ASSUME NEW m \in RequestNo, UnderWay(new, m), new[m].alone
        PROVE  /\ new[m].kind = "SIGN_OUT"
               /\ \A q \in RequestNo : ~Refreshes(new, q)
               /\ new[m].cookie # NoValue =>
                    /\ OthersOver(made, new[m].cookie)
                    /\ new[m].state = "ANSWERED" => made[new[m].cookie].fate # "LIVE"
    <3>1. /\ UnderWay(tr, m) /\ tr[m].alone /\ new[m].kind = tr[m].kind
          /\ new[m].cookie = tr[m].cookie /\ tr[m] # None
      BY <1>2, <2>3 DEF UnderWay
    <3>2. new[m].kind = "SIGN_OUT" /\ \A q \in RequestNo : ~Refreshes(new, q)
      BY <1>1, <1>2, <3>1 DEF SignOutsAlone
    <3>3. new[m].cookie # NoValue => OthersOver(made, new[m].cookie)
      BY <1>1, <1>4, <2>1, <3>1 DEF SignOutsAlone
    <3>4. ASSUME new[m].cookie # NoValue, new[m].state = "ANSWERED"
          PROVE  made[new[m].cookie].fate # "LIVE"
      <4>1. CASE m = n
        BY <1>6, <3>1, <4>1
      <4>2. CASE m # n
        BY <1>1, <1>2, <1>4, <1>5, <1>6, <3>1, <3>4, <4>2 DEF SignOutsAlone
      <4> QED BY <4>1, <4>2
    <3> QED BY <3>2, <3>3, <3>4
  <2> QED BY <2>2, <2>3 DEF SignOutsAlone
<1>14. Ended(made, new, j, so)
  <2>1. so \subseteq Cookie
    BY <1>1 DEF TablesTyped
  <2>2. \A r \in so : made[r] # None /\ made[r].held
    BY <1>1, <1>5, <1>6, <2>1 DEF Ended
  <2>3. \A m \in RequestNo : Refreshes(new, m) /\ new[m].cookie # NoValue =>
          made[new[m].cookie].root \notin so
    <3> SUFFICES ASSUME NEW m \in RequestNo, Refreshes(new, m), new[m].cookie # NoValue
                 PROVE  made[new[m].cookie].root \notin so
      OBVIOUS
    <3>1. Refreshes(tr, m) /\ tr[m] # None /\ new[m].cookie = tr[m].cookie
      BY <1>2 DEF Refreshes, UnderWay
    <3>2. tr[m].cookie \in Cookie /\ g[tr[m].cookie] # None /\ g[tr[m].cookie].root \notin so
      BY <1>1, <1>4, <3>1 DEF Ended
    <3> QED BY <1>5, <1>6, <3>1, <3>2
  <2>4. \A t \in Cookie : made[t] # None /\ made[t].held /\ made[t].root \in so => made[t].fate # "LIVE"
    <3> SUFFICES ASSUME NEW t \in Cookie, made[t] # None, made[t].held, made[t].root \in so
                 PROVE  made[t].fate # "LIVE"
      OBVIOUS
    <3>1. t # n
      BY <1>6
    <3> QED BY <1>1, <1>6, <3>1 DEF Ended
  <2>5. j # NoValue => made[j].root \notin so
    BY <1>1, <1>4, <1>5, <1>6 DEF Ended
  <2> QED
    BY <2>2, <2>3, <2>4, <2>5 DEF Ended
<1>15. TokensInOrder(made, new, j, so)
  BY <1>2, <1>7, <1>8, <1>9, <1>10, <1>11, <1>12, <1>13, <1>14 DEF TokensInOrder
<1> QED
  BY <1>15, <1>0

\* What the arrival of the answer n changes of the messages
ArrivalSeen(tr, new, n) ==
  /\ new \in [RequestNo -> Message \union {None}]
  /\ new[n] # None /\ new[n].state = "ARRIVED" /\ new[n].cookie = NoValue
  /\ \A m \in RequestNo : m # n => new[m] = tr[m]
  /\ \A m \in RequestNo : UnderWay(new, m) => m # n /\ UnderWay(tr, m)
  /\ \A m \in RequestNo : Refreshes(new, m) => m # n /\ Refreshes(tr, m)
  /\ MessagesFormed(new)

LEMMA ArrivalFacts ==
  ASSUME NEW g, NEW tr, NEW j, NEW so, TokensInOrder(g, tr, j, so),
         NEW n \in RequestNo, NEW new, new = [tr EXCEPT ![n] = Over("ARRIVED")]
  PROVE  ArrivalSeen(tr, new, n)
<1>1. TablesTyped(g, tr, j, so) /\ MessagesFormed(tr)
  BY OrderParts
<1>2. /\ Over("ARRIVED") \in Message /\ Over("ARRIVED").state = "ARRIVED" /\ ~Over("ARRIVED").stale
      /\ Over("ARRIVED").kind = "OVER" /\ Over("ARRIVED").cookie = NoValue /\ Over("ARRIVED") # None
  BY OverIsMessage
<1>3. /\ new \in [RequestNo -> Message \union {None}] /\ new[n] = Over("ARRIVED")
      /\ \A m \in RequestNo : m # n => new[m] = tr[m]
  BY <1>1, <1>2 DEF TablesTyped
<1>4. \A m \in RequestNo : UnderWay(new, m) => m # n /\ UnderWay(tr, m)
  BY <1>2, <1>3 DEF UnderWay
<1>5. \A m \in RequestNo : Refreshes(new, m) => m # n /\ Refreshes(tr, m)
  BY <1>3, <1>4 DEF Refreshes
<1>6. MessagesFormed(new)
  BY <1>1, <1>2, <1>3 DEF MessagesFormed
<1> QED BY <1>2, <1>3, <1>4, <1>5, <1>6 DEF ArrivalSeen

\* An answer that brings no token, and with which none was spent
LEMMA ArrivingKeepsOrder ==
  ASSUME NEW g, NEW tr, NEW j, NEW so, TokensInOrder(g, tr, j, so),
         NEW n \in RequestNo, tr[n] # None, tr[n].state = "ANSWERED",
         tr[n].kind \in {"REFRESH", "SIGN_OUT"} => tr[n].answer # "OK"
  PROVE  TokensInOrder(g, [tr EXCEPT ![n] = Over("ARRIVED")], j, so)
<1> DEFINE new == [tr EXCEPT ![n] = Over("ARRIVED")]
<1>0. new = [tr EXCEPT ![n] = Over("ARRIVED")]
  OBVIOUS
<1> HIDE DEF new
<1>1. /\ TablesTyped(g, tr, j, so) /\ CookiesHeld(g, tr, j) /\ Families(g)
      /\ TokensOfAnswers(g, tr) /\ SpendersServed(g, tr) /\ SpentUnseen(g, tr, j)
      /\ SignOutsAlone(g, tr, j) /\ Ended(g, tr, j, so)
  BY OrderParts
<1>seen. ArrivalSeen(tr, new, n)
  BY <1>0, ArrivalFacts
<1>2. /\ new \in [RequestNo -> Message \union {None}]
      /\ new[n] # None /\ new[n].state = "ARRIVED" /\ new[n].cookie = NoValue
      /\ \A m \in RequestNo : m # n => new[m] = tr[m]
      /\ \A m \in RequestNo : UnderWay(new, m) => m # n /\ UnderWay(tr, m)
      /\ \A m \in RequestNo : Refreshes(new, m) => m # n /\ Refreshes(tr, m)
      /\ MessagesFormed(new)
  BY <1>seen DEF ArrivalSeen
<1>3. \A t \in Cookie : g[t] # None /\ g[t].fate = "SPENT" =>
        g[t].by[1] \in RequestNo /\ g[t].by[1] # n
  <2> SUFFICES ASSUME NEW t \in Cookie, g[t] # None, g[t].fate = "SPENT"
               PROVE  g[t].by[1] \in RequestNo /\ g[t].by[1] # n
    OBVIOUS
  <2>1. g[t].by[1] \in RequestNo /\ g[t].by[2] \in {"REFRESH", "SIGN_OUT"}
    BY <1>1, OrderParts, GrantFields DEF Families
  <2>2. g[t].by[1] = n => tr[n].kind = g[t].by[2] /\ tr[n].answer = "OK"
    BY <1>1 DEF SpendersServed
  <2> QED BY <2>1, <2>2
<1>4. /\ j # NoValue => j \in Cookie /\ g[j] # None
      /\ \A m \in RequestNo : tr[m] # None /\ tr[m].cookie # NoValue =>
           tr[m].cookie \in Cookie /\ g[tr[m].cookie] # None
  BY OrderParts
<1>5. TablesTyped(g, new, j, so)
  BY <1>1, <1>2 DEF TablesTyped
<1>6. CookiesHeld(g, new, j)
  BY <1>1, <1>2 DEF CookiesHeld
<1>7. TokensOfAnswers(g, new)
  BY <1>1, <1>2 DEF TokensOfAnswers
<1>8. SpendersServed(g, new)
  BY <1>1, <1>2, <1>3 DEF SpendersServed
<1>9. SpentUnseen(g, new, j)
  <2>1. j # NoValue /\ g[j].fate = "SPENT" => new[g[j].by[1]].state # "ARRIVED"
    BY <1>1, <1>2, <1>3, <1>4 DEF SpentUnseen
  <2>2. \A m \in RequestNo, t \in Cookie : Refreshes(new, m) /\ new[m].cookie = t =>
          g[t] # None /\ Refreshes(tr, m) /\ new[m] = tr[m]
    BY <1>2, <1>4, NamesApart DEF Refreshes, UnderWay
  <2> QED
    BY <1>1, <1>2, <1>3, <2>1, <2>2 DEF SpentUnseen
<1>10. SignOutsAlone(g, new, j)
  BY <1>1, <1>2 DEF SignOutsAlone
<1>11. Ended(g, new, j, so)
  BY <1>1, <1>2 DEF Ended
<1>12. TokensInOrder(g, new, j, so)
  BY <1>2, <1>5, <1>6, <1>7, <1>8, <1>9, <1>10, <1>11 DEF TokensInOrder
<1> QED
  BY <1>12, <1>0

\* An answer that brings a token: it becomes the cookie.
LEMMA KeepingKeepsOrder ==
  ASSUME NEW g, NEW tr, NEW j, NEW so, TokensInOrder(g, tr, j, so),
         NEW pages, OnePerPage(tr, pages),
         NEW n \in RequestNo, tr[n] # None, tr[n].state = "ANSWERED", tr[n].answer = "OK",
         tr[n].kind \in {"REFRESH", "SIGN_IN", "CHANGE_PASSWORD"}
  PROVE  TokensInOrder([g EXCEPT ![n].held = TRUE], [tr EXCEPT ![n] = Over("ARRIVED")], n, so)
<1> DEFINE new == [tr EXCEPT ![n] = Over("ARRIVED")]
           made == [g EXCEPT ![n].held = TRUE]
<1>0. new = [tr EXCEPT ![n] = Over("ARRIVED")] /\ made = [g EXCEPT ![n].held = TRUE]
  OBVIOUS
<1> HIDE DEF new, made
<1>1. /\ TablesTyped(g, tr, j, so) /\ CookiesHeld(g, tr, j) /\ Families(g)
      /\ TokensOfAnswers(g, tr) /\ SpendersServed(g, tr) /\ SpentUnseen(g, tr, j)
      /\ SignOutsAlone(g, tr, j) /\ Ended(g, tr, j, so)
  BY OrderParts
<1>seen. ArrivalSeen(tr, new, n)
  BY <1>0, ArrivalFacts
<1>2. /\ new \in [RequestNo -> Message \union {None}]
      /\ new[n] # None /\ new[n].state = "ARRIVED" /\ new[n].cookie = NoValue
      /\ \A m \in RequestNo : m # n => new[m] = tr[m]
      /\ \A m \in RequestNo : UnderWay(new, m) => m # n /\ UnderWay(tr, m)
      /\ \A m \in RequestNo : Refreshes(new, m) => m # n /\ Refreshes(tr, m)
      /\ MessagesFormed(new)
  BY <1>seen DEF ArrivalSeen
<1>3. \A t \in Cookie : g[t] # None =>
        /\ g[t] \in Grant /\ g[t].root \in Cookie
        /\ g[t].fate = "SPENT" => g[t].by[1] \in RequestNo /\ tr[g[t].by[1]] # None
  BY OrderParts
<1>4. /\ j # NoValue => j \in Cookie /\ g[j] # None
      /\ \A m \in RequestNo : tr[m] # None /\ tr[m].cookie # NoValue =>
           tr[m].cookie \in Cookie /\ g[tr[m].cookie] # None
  BY OrderParts
\* The token is new, and not spent before it was held.
<1>5. /\ n \in Cookie /\ n # NoValue /\ g[n] # None /\ ~g[n].held /\ g[n].fate # "SPENT"
      /\ tr[n].kind = "REFRESH" => tr[n].cookie # NoValue /\ g[n].root = g[tr[n].cookie].root
      /\ tr[n].kind # "REFRESH" => g[n].root = n
  BY <1>1, NamesApart DEF TokensOfAnswers, Families
<1>6. /\ made \in [Cookie -> Grant \union {None}]
      /\ made[n].held
      /\ \A t \in Cookie : /\ made[t] # None <=> g[t] # None
                           /\ made[t].root = g[t].root /\ made[t].fate = g[t].fate
                           /\ made[t].by = g[t].by
                           /\ t # n => made[t] = g[t]
                           /\ g[t].held => made[t].held
  <2>1. [g[n] EXCEPT !.held = TRUE] \in Grant
    BY <1>3, <1>5 DEF Grant
  <2>2. /\ [g[n] EXCEPT !.held = TRUE].root = g[n].root
        /\ [g[n] EXCEPT !.held = TRUE].fate = g[n].fate
        /\ [g[n] EXCEPT !.held = TRUE].by = g[n].by
        /\ [g[n] EXCEPT !.held = TRUE].held = TRUE
        /\ [g[n] EXCEPT !.held = TRUE] # None
    BY <1>3, <1>5, <2>1, NamesApart DEF Grant
  <2>3. made = [g EXCEPT ![n] = [g[n] EXCEPT !.held = TRUE]]
    BY <1>0
  <2> QED
    BY <1>1, <1>5, <2>1, <2>2, <2>3 DEF TablesTyped
\* No session that was or is signed out gets this token.
<1>7. g[n].root \notin so
  <2>1. CASE tr[n].kind = "REFRESH"
    BY <1>1, <1>5, <2>1 DEF Ended, Refreshes, UnderWay
  <2>2. CASE tr[n].kind # "REFRESH"
    BY <1>1, <1>5, <2>2 DEF Ended
  <2> QED BY <2>1, <2>2
<1>8. \A m \in RequestNo : UnderWay(tr, m) /\ tr[m].alone /\ tr[m].cookie # NoValue =>
        g[tr[m].cookie].root # g[n].root
  <2> SUFFICES ASSUME NEW m \in RequestNo, UnderWay(tr, m), tr[m].alone, tr[m].cookie # NoValue,
                      g[tr[m].cookie].root = g[n].root
               PROVE  FALSE
    OBVIOUS
  <2>1. tr[n].kind # "REFRESH"
    BY <1>1 DEF SignOutsAlone, Refreshes, UnderWay
  <2>2. tr[m].cookie \in Cookie /\ g[tr[m].cookie] # None /\ g[tr[m].cookie].held
    BY <1>1, <1>4 DEF UnderWay, CookiesHeld
  <2>3. g[tr[m].cookie].root = n /\ tr[m].cookie # n
    BY <1>5, <2>1, <2>2
  <2>4. g[n].fate = "SPENT"
    BY <1>1, <2>2, <2>3 DEF Families
  <2> QED BY <1>5, <2>4
<1>9. OthersOver(made, n)
  <2> SUFFICES ASSUME NEW t \in Cookie, made[t] # None, made[t].root = made[n].root, t # n
               PROVE  made[t].fate # "LIVE"
    BY DEF OthersOver
  <2> QED
    BY <1>1, <1>5, <1>6 DEF Families
<1>10. TablesTyped(made, new, n, so)
  BY <1>1, <1>2, <1>5, <1>6 DEF TablesTyped
<1>11. CookiesHeld(made, new, n)
  BY <1>1, <1>2, <1>4, <1>5, <1>6 DEF CookiesHeld
<1>12. Families(made)
  <2> SUFFICES ASSUME NEW t \in Cookie, made[t] # None
               PROVE  /\ made[made[t].root] # None
                      /\ t # made[t].root => made[made[t].root].fate = "SPENT"
                      /\ made[t].fate = "SPENT" => made[t].held /\ made[t].by # NoValue
                      /\ \A s \in Cookie :
                           made[s] # None /\ made[s].root = made[t].root
                           /\ made[s].fate # "SPENT" /\ made[t].fate # "SPENT" => s = t
    BY DEF Families
  <2>1. g[t] # None /\ g[t].root \in Cookie
    BY <1>3, <1>6
  <2> QED
    BY <1>1, <1>6, <2>1 DEF Families
<1>13. TokensOfAnswers(made, new)
  <2> SUFFICES ASSUME NEW m \in RequestNo
               PROVE  /\ made[m] # None => /\ new[m] # None /\ new[m].state \notin {"SENT", "LEFT"}
                                           /\ new[m].state = "ANSWERED" => ~made[m].held
                      /\ new[m] # None /\ new[m].state = "ANSWERED" /\ new[m].answer = "OK" =>
                           /\ new[m].kind = "REFRESH" =>
                                /\ made[m] # None /\ new[m].cookie # NoValue
                                /\ made[m].root = made[new[m].cookie].root
                           /\ new[m].kind \in {"SIGN_IN", "CHANGE_PASSWORD"} =>
                                made[m] # None /\ made[m].root = m
    BY DEF TokensOfAnswers
  <2>1. CASE m = n
    BY <1>2, <2>1
  <2>2. CASE m # n
    <3>1. new[m] = tr[m] /\ made[m] = g[m] /\ m \in Cookie
      BY <1>2, <1>6, <2>2, NamesApart
    <3>2. new[m] # None /\ new[m].cookie # NoValue => made[new[m].cookie].root = g[new[m].cookie].root
      BY <1>4, <1>6, <3>1
    <3> QED BY <1>1, <3>1, <3>2 DEF TokensOfAnswers
  <2> QED BY <2>1, <2>2
<1>14. SpendersServed(made, new)
  BY <1>1, <1>2, <1>3, <1>6 DEF SpendersServed
<1>15. SpentUnseen(made, new, n)
  <2>1. made[n].fate # "SPENT"
    BY <1>5, <1>6
  <2>2. ASSUME NEW m \in RequestNo, NEW t \in Cookie,
               Refreshes(new, m), new[m].state = "SENT", new[m].cookie = t,
               made[t].fate = "SPENT", made[t].by[2] = "REFRESH", made[t].by[3] = new[m].tab
        PROVE  new[made[t].by[1]].state # "ARRIVED"
    <3>1. m # n /\ Refreshes(tr, m) /\ new[m] = tr[m]
      BY <1>2, <2>2
    <3>2. g[t] # None /\ g[t].fate = "SPENT" /\ g[t].by = made[t].by
      BY <1>4, <1>6, <2>2, <3>1, NamesApart DEF Refreshes, UnderWay
    <3>3. g[t].by[1] # n
      <4> SUFFICES ASSUME g[t].by[1] = n PROVE FALSE
        OBVIOUS
      <4>1. tr[n].kind = "REFRESH" /\ tr[n].tab = tr[m].tab
        BY <1>1, <2>2, <3>1, <3>2 DEF SpendersServed
      <4>2. Refreshes(tr, n)
        BY <4>1 DEF Refreshes, UnderWay
      <4> QED
        BY <3>1, <4>1, <4>2 DEF OnePerPage
    <3> QED
      BY <1>1, <1>2, <1>3, <2>2, <3>1, <3>2, <3>3 DEF SpentUnseen
  <2> QED BY <2>1, <2>2 DEF SpentUnseen
<1>16. SignOutsAlone(made, new, n)
  <2>1. ASSUME NEW m \in RequestNo, UnderWay(new, m), new[m].alone
        PROVE  /\ new[m].kind = "SIGN_OUT"
               /\ \A q \in RequestNo : ~Refreshes(new, q)
               /\ new[m].cookie # NoValue =>
                    /\ OthersOver(made, new[m].cookie)
                    /\ new[m].state = "ANSWERED" => made[new[m].cookie].fate # "LIVE"
    <3>1. m # n /\ UnderWay(tr, m) /\ new[m] = tr[m] /\ tr[m] # None
      BY <1>2, <2>1 DEF UnderWay
    <3>2. new[m].kind = "SIGN_OUT" /\ \A q \in RequestNo : ~Refreshes(new, q)
      BY <1>1, <1>2, <2>1, <3>1 DEF SignOutsAlone
    <3>3. ASSUME new[m].cookie # NoValue PROVE OthersOver(made, new[m].cookie)
      <4>1. /\ tr[m].cookie \in Cookie /\ OthersOver(g, tr[m].cookie)
            /\ g[tr[m].cookie].root # g[n].root
        BY <1>1, <1>4, <1>8, <2>1, <3>1, <3>3 DEF SignOutsAlone
      <4> QED
        BY <1>6, <3>1, <4>1 DEF OthersOver
    <3>4. new[m].cookie # NoValue /\ new[m].state = "ANSWERED" => made[new[m].cookie].fate # "LIVE"
      BY <1>1, <1>4, <1>6, <2>1, <3>1 DEF SignOutsAlone
    <3> QED BY <3>2, <3>3, <3>4
  <2> QED BY <1>9, <2>1 DEF SignOutsAlone
<1>17. Ended(made, new, n, so)
  <2>1. so \subseteq Cookie
    BY <1>1 DEF TablesTyped
  <2>2. \A r \in so : made[r] # None /\ made[r].held
    BY <1>1, <1>6, <2>1 DEF Ended
  <2>3. \A m \in RequestNo : Refreshes(new, m) /\ new[m].cookie # NoValue =>
          made[new[m].cookie].root \notin so
    BY <1>1, <1>2, <1>4, <1>6 DEF Ended, Refreshes, UnderWay
  <2>4. \A t \in Cookie : made[t] # None /\ made[t].held /\ made[t].root \in so => made[t].fate # "LIVE"
    BY <1>1, <1>6, <1>7 DEF Ended
  <2> QED
    BY <1>5, <1>6, <1>7, <2>2, <2>3, <2>4 DEF Ended
<1>18. TokensInOrder(made, new, n, so)
  BY <1>2, <1>10, <1>11, <1>12, <1>13, <1>14, <1>15, <1>16, <1>17 DEF TokensInOrder
<1> QED
  BY <1>18, <1>0

\* The answer to a sign-out: the cookie is cleared, and the session is over when
\* no refresh was under way.
LEMMA SignedOutKeepsOrder ==
  ASSUME NEW g, NEW tr, NEW j, NEW so, TokensInOrder(g, tr, j, so),
         NEW n \in RequestNo, tr[n] # None, tr[n].state = "ANSWERED", tr[n].kind = "SIGN_OUT",
         NEW ended, ended = IF tr[n].alone /\ tr[n].cookie # NoValue
                            THEN so \union {g[tr[n].cookie].root} ELSE so
  PROVE  TokensInOrder(g, [tr EXCEPT ![n] = Over("ARRIVED")], NoValue, ended)
<1> DEFINE new == [tr EXCEPT ![n] = Over("ARRIVED")]
<1>0. new = [tr EXCEPT ![n] = Over("ARRIVED")]
  OBVIOUS
<1> HIDE DEF new
<1>1. /\ TablesTyped(g, tr, j, so) /\ CookiesHeld(g, tr, j) /\ Families(g)
      /\ TokensOfAnswers(g, tr) /\ SpendersServed(g, tr) /\ SpentUnseen(g, tr, j)
      /\ SignOutsAlone(g, tr, j) /\ Ended(g, tr, j, so)
  BY OrderParts
<1>seen. ArrivalSeen(tr, new, n)
  BY <1>0, ArrivalFacts
<1>2. /\ new \in [RequestNo -> Message \union {None}]
      /\ new[n] # None /\ new[n].state = "ARRIVED" /\ new[n].cookie = NoValue
      /\ \A m \in RequestNo : m # n => new[m] = tr[m]
      /\ \A m \in RequestNo : UnderWay(new, m) => m # n /\ UnderWay(tr, m)
      /\ \A m \in RequestNo : Refreshes(new, m) => m # n /\ Refreshes(tr, m)
      /\ MessagesFormed(new)
  BY <1>seen DEF ArrivalSeen
<1>3. \A t \in Cookie : g[t] # None =>
        /\ g[t].root \in Cookie
        /\ g[t].fate = "SPENT" => g[t].by[1] \in RequestNo /\ tr[g[t].by[1]] # None
  BY OrderParts
<1>4. \A m \in RequestNo : tr[m] # None /\ tr[m].cookie # NoValue =>
        tr[m].cookie \in Cookie /\ g[tr[m].cookie] # None
  BY OrderParts
<1>5. ended \subseteq Cookie
  BY <1>1, <1>3, <1>4 DEF TablesTyped
<1>6. TablesTyped(g, new, NoValue, ended)
  BY <1>1, <1>2, <1>5 DEF TablesTyped
<1>7. CookiesHeld(g, new, NoValue)
  BY <1>1, <1>2 DEF CookiesHeld
<1>8. TokensOfAnswers(g, new)
  BY <1>1, <1>2 DEF TokensOfAnswers
<1>9. SpendersServed(g, new)
  BY <1>1, <1>2, <1>3 DEF SpendersServed
<1>10. SpentUnseen(g, new, NoValue)
  <2> SUFFICES ASSUME NEW m \in RequestNo, NEW t \in Cookie,
                      Refreshes(new, m), new[m].state = "SENT", new[m].cookie = t,
                      g[t].fate = "SPENT", g[t].by[2] = "REFRESH", g[t].by[3] = new[m].tab
               PROVE  new[g[t].by[1]].state # "ARRIVED"
    BY DEF SpentUnseen
  <2>1. Refreshes(tr, m) /\ new[m] = tr[m] /\ g[t] # None
    BY <1>2, <1>4, NamesApart DEF Refreshes, UnderWay
  <2>2. g[t].by[1] # n
    BY <1>1, <2>1 DEF SpendersServed
  <2> QED
    BY <1>1, <1>2, <1>3, <2>1, <2>2 DEF SpentUnseen
<1>11. SignOutsAlone(g, new, NoValue)
  BY <1>1, <1>2 DEF SignOutsAlone
<1>12. Ended(g, new, NoValue, ended)
  <2>1. CASE tr[n].alone /\ tr[n].cookie # NoValue
    <3> DEFINE c == tr[n].cookie
    <3>1. /\ c \in Cookie /\ g[c] # None /\ g[c].held /\ OthersOver(g, c) /\ g[c].fate # "LIVE"
          /\ \A m \in RequestNo : ~Refreshes(tr, m)
      BY <1>1, <1>4, <2>1 DEF SignOutsAlone, UnderWay, CookiesHeld
    <3>2. ended = so \union {g[c].root} /\ so \subseteq Cookie
      BY <1>1, <2>1 DEF TablesTyped
    <3>3. g[g[c].root] # None /\ g[g[c].root].held
      BY <1>1, <1>3, <3>1 DEF Families
    <3> HIDE DEF c
    <3>4. \A r \in ended : g[r] # None /\ g[r].held
      BY <1>1, <3>2, <3>3 DEF Ended
    <3>5. \A m \in RequestNo : ~Refreshes(new, m)
      BY <1>2, <3>1
    <3>6. \A t \in Cookie : g[t] # None /\ g[t].held /\ g[t].root \in ended => g[t].fate # "LIVE"
      BY <1>1, <3>1, <3>2 DEF Ended, OthersOver
    <3> QED
      BY <3>4, <3>5, <3>6 DEF Ended
  <2>2. CASE ~(tr[n].alone /\ tr[n].cookie # NoValue)
    BY <1>1, <1>2, <2>2 DEF Ended
  <2> QED BY <2>1, <2>2
<1>13. TokensInOrder(g, new, NoValue, ended)
  BY <1>1, <1>2, <1>6, <1>7, <1>8, <1>9, <1>10, <1>11, <1>12 DEF TokensInOrder
<1> QED
  BY <1>13, <1>0

SessionsInv ==
  /\ SessionsTypeOK
  /\ TokensInOrder(granted, traffic, jar, signedOut)
  /\ OnePerPage(traffic, tab)
  /\ OwnTrafficIsNoTheft

LEMMA NextIsUnsent == Unsent # {} => NextRequest \in Unsent /\ NextRequest \in RequestNo
                                     /\ traffic[NextRequest] = None
<1> SUFFICES ASSUME Unsent # {} PROVE NextRequest \in Unsent
  BY DEF Unsent
<1>1. Unsent \subseteq Nat
  BY SessionsAssumption DEF Unsent, RequestNo
<1>2. \E n \in Unsent : \A m \in Unsent : <<m, n>> \notin OpToRel(<, Nat)
  BY <1>1, NatLessThanWellFounded, WFMin
<1>3. PICK n \in Unsent : \A m \in Unsent : <<m, n>> \notin OpToRel(<, Nat)
  BY <1>2
<1>4. ASSUME NEW m \in Unsent PROVE n <= m
  <2>1. m \in Nat /\ n \in Nat
    BY <1>1
  <2>2. ~(m < n)
    BY <1>3, <2>1 DEF OpToRel
  <2> QED BY <2>1, <2>2
<1> QED
  BY <1>4 DEF NextRequest

\* The stores of a page stay what they are; only a few change the refreshPromise.
LEMMA PageFacts ==
  \A p \in Page :
    /\ \A u \in Staff \union {NoValue} :
         /\ Authenticated(p, u, u) \in Page /\ Authenticated(p, u, u).refreshing = p.refreshing
         /\ ChangeRequired(p, u) \in Page /\ ChangeRequired(p, u).refreshing = p.refreshing
         /\ [Settled(p) EXCEPT !.access = u] \in Page
    /\ Unauthenticated(p) \in Page /\ Unauthenticated(p).refreshing = p.refreshing
    /\ BootstrapError(p) \in Page /\ BootstrapError(p).refreshing = p.refreshing
    /\ Settled(p) \in Page
    /\ \A n \in RequestNo :
         /\ [p EXCEPT !.refreshing = n, !.waiting = @ \union {"RETRY"}] \in Page
         /\ [p EXCEPT !.refreshing = n, !.waiting = @ \union {"RETRY"}].refreshing = n
    /\ [p EXCEPT !.waiting = @ \union {"RETRY"}] \in Page
    /\ [p EXCEPT !.waiting = @ \union {"RETRY"}].refreshing = p.refreshing
<1> TAKE p \in Page
<1>1. ASSUME NEW u \in Staff \union {NoValue}
      PROVE  /\ Authenticated(p, u, u) \in Page /\ Authenticated(p, u, u).refreshing = p.refreshing
             /\ ChangeRequired(p, u) \in Page /\ ChangeRequired(p, u).refreshing = p.refreshing
  BY DEF Page, Authenticated, ChangeRequired
<1>2. \A u \in Staff \union {NoValue} : [Settled(p) EXCEPT !.access = u] \in Page
  BY DEF Page, Settled
<1>3. /\ Unauthenticated(p) \in Page /\ Unauthenticated(p).refreshing = p.refreshing
      /\ BootstrapError(p) \in Page /\ BootstrapError(p).refreshing = p.refreshing
      /\ Settled(p) \in Page
  BY DEF Page, Settled, Unauthenticated, BootstrapError
<1>4. p.waiting \union {"RETRY"} \in SUBSET {"INITIALIZE", "RETRY"}
  BY DEF Page
<1>5. ASSUME NEW n \in RequestNo
      PROVE  /\ [p EXCEPT !.refreshing = n, !.waiting = @ \union {"RETRY"}] \in Page
             /\ [p EXCEPT !.refreshing = n, !.waiting = @ \union {"RETRY"}].refreshing = n
  BY <1>4 DEF Page
<1>6. /\ [p EXCEPT !.waiting = @ \union {"RETRY"}] \in Page
      /\ [p EXCEPT !.waiting = @ \union {"RETRY"}].refreshing = p.refreshing
  BY <1>4 DEF Page
<1> QED BY <1>1, <1>2, <1>3, <1>5, <1>6

LEMMA LoadedPage ==
  \A n \in RequestNo :
    LET p == [Closed EXCEPT !.status = "LOADING", !.refreshing = n, !.waiting = {"INITIALIZE"}] IN
    p \in Page /\ p.refreshing = n
BY DEF Closed, Page

\* A message is sent: some that are under way are no longer alone, then it is there.
LEMMA SentInTwo ==
  ASSUME NEW table \in [RequestNo -> Message \union {None}], Unsent # {},
         table[NextRequest] = None, NEW t, NEW kind, NEW cookie, NEW user
  PROVE  \E mid \in [RequestNo -> Message \union {None}] :
           /\ \A m \in RequestNo : Fades(table[m], mid[m])
           /\ mid[NextRequest] = None
           /\ kind = "REFRESH" => \A m \in RequestNo : UnderWay(mid, m) => ~mid[m].alone
           /\ kind # "REFRESH" => mid = table
           /\ Sent(table, t, kind, cookie, user)
                = [mid EXCEPT ![NextRequest] = NewRequest(t, kind, cookie, user)]
<1> DEFINE N == NextRequest
           x == NewRequest(t, kind, cookie, user)
           quiet(m) == kind = "REFRESH" /\ table[m] # None /\ table[m].state \in {"SENT", "ANSWERED"}
           mid == [m \in RequestNo |-> IF quiet(m) THEN [table[m] EXCEPT !.alone = FALSE] ELSE table[m]]
<1>1. N \in RequestNo
  BY NextIsUnsent
<1>2. \A m \in RequestNo : table[m] # None =>
        /\ table[m] \in Message
        /\ [table[m] EXCEPT !.alone = FALSE] \in Message
        /\ [table[m] EXCEPT !.alone = FALSE] # None
        /\ [table[m] EXCEPT !.alone = FALSE].kind = table[m].kind
        /\ [table[m] EXCEPT !.alone = FALSE].tab = table[m].tab
        /\ [table[m] EXCEPT !.alone = FALSE].cookie = table[m].cookie
        /\ [table[m] EXCEPT !.alone = FALSE].user = table[m].user
        /\ [table[m] EXCEPT !.alone = FALSE].answer = table[m].answer
        /\ [table[m] EXCEPT !.alone = FALSE].stale = table[m].stale
        /\ [table[m] EXCEPT !.alone = FALSE].state = table[m].state
        /\ ~[table[m] EXCEPT !.alone = FALSE].alone
  <2> SUFFICES ASSUME NEW m \in RequestNo, table[m] # None
               PROVE  /\ table[m] \in Message
                      /\ [table[m] EXCEPT !.alone = FALSE] \in Message
                      /\ [table[m] EXCEPT !.alone = FALSE] # None
                      /\ [table[m] EXCEPT !.alone = FALSE].kind = table[m].kind
                      /\ [table[m] EXCEPT !.alone = FALSE].tab = table[m].tab
                      /\ [table[m] EXCEPT !.alone = FALSE].cookie = table[m].cookie
                      /\ [table[m] EXCEPT !.alone = FALSE].user = table[m].user
                      /\ [table[m] EXCEPT !.alone = FALSE].answer = table[m].answer
                      /\ [table[m] EXCEPT !.alone = FALSE].stale = table[m].stale
                      /\ [table[m] EXCEPT !.alone = FALSE].state = table[m].state
                      /\ ~[table[m] EXCEPT !.alone = FALSE].alone
    OBVIOUS
  <2>1. table[m] \in Message
    OBVIOUS
  <2>2. [table[m] EXCEPT !.alone = FALSE] \in Message
    BY <2>1 DEF Message
  <2> QED BY <2>1, <2>2, NamesApart DEF Message
<1>3. /\ mid \in [RequestNo -> Message \union {None}]
      /\ \A m \in RequestNo : ~quiet(m) => mid[m] = table[m]
      /\ \A m \in RequestNo : quiet(m) => mid[m] = [table[m] EXCEPT !.alone = FALSE]
  BY <1>2
<1>4. \A m \in RequestNo : Fades(table[m], mid[m])
  BY <1>2, <1>3 DEF Fades
<1>5. mid[N] = None
  BY <1>1, <1>3
<1>6. kind = "REFRESH" => \A m \in RequestNo : UnderWay(mid, m) => ~mid[m].alone
  BY <1>2, <1>3 DEF UnderWay
<1>7. kind # "REFRESH" => mid = table
  BY <1>3
<1>8. Sent(table, t, kind, cookie, user) = [mid EXCEPT ![N] = x]
  BY <1>1 DEF Sent
<1> QED
  BY <1>3, <1>4, <1>5, <1>6, <1>7, <1>8

LEMMA SentMessage ==
  ASSUME NEW t \in Tab, NEW kind \in CookieKind \union {"ME"}, NEW cookie \in Cookie \union {NoValue},
         NEW user \in Staff \union {NoValue}, NEW x, x = NewRequest(t, kind, cookie, user)
  PROVE  /\ x \in Message /\ x.kind = kind /\ x.tab = t /\ x.cookie = cookie /\ x.user = user
         /\ x.state = "SENT"
         /\ x.alone <=> (kind = "SIGN_OUT"
                         /\ OfKind("REFRESH") \intersect InState({"SENT", "ANSWERED"}) = {})
<1>1. x \in Message
  BY DEF NewRequest, Message, CookieKind
<1> QED BY <1>1 DEF NewRequest

LEMMA SentInOrder ==
  ASSUME NEW g, NEW table, NEW j, NEW so, TokensInOrder(g, table, j, so), Unsent # {},
         table[NextRequest] = None,
         NEW t \in Tab, NEW kind \in CookieKind \union {"ME"}, NEW cookie \in {j, NoValue},
         NEW user \in Staff \union {NoValue}, kind = "SIGN_IN" => user \in Staff,
         ~NewRequest(t, kind, cookie, user).stale,
         kind = "SIGN_OUT" => table = traffic,
         NEW pages, OnePerPage(table, pages),
         kind = "REFRESH" => pages[t].refreshing = NextRequest
  PROVE  /\ TokensInOrder(g, Sent(table, t, kind, cookie, user), j, so)
         /\ OnePerPage(Sent(table, t, kind, cookie, user), pages)
<1> DEFINE N == NextRequest
           x == NewRequest(t, kind, cookie, user)
<1>0. x = NewRequest(t, kind, cookie, user) /\ ~x.stale
  OBVIOUS
<1> HIDE DEF x
<1>1. /\ table \in [RequestNo -> Message \union {None}] /\ j \in Cookie \union {NoValue}
      /\ N \in RequestNo
  BY NextIsUnsent DEF TokensInOrder, TablesTyped
<1>2. PICK mid \in [RequestNo -> Message \union {None}] :
           /\ \A m \in RequestNo : Fades(table[m], mid[m])
           /\ mid[NextRequest] = None
           /\ kind = "REFRESH" => \A m \in RequestNo : UnderWay(mid, m) => ~mid[m].alone
           /\ kind # "REFRESH" => mid = table
           /\ Sent(table, t, kind, cookie, user) = [mid EXCEPT ![NextRequest] = x]
  BY <1>0, <1>1, SentInTwo
<1>3. /\ x \in Message /\ x.kind = kind /\ x.tab = t /\ x.cookie = cookie /\ x.user = user
      /\ x.state = "SENT" /\ ~x.stale
      /\ x.alone <=> (kind = "SIGN_OUT"
                      /\ OfKind("REFRESH") \intersect InState({"SENT", "ANSWERED"}) = {})
  <2>1. cookie \in Cookie \union {NoValue}
    BY <1>1
  <2> QED BY <1>0, <2>1, SentMessage
<1>4. TokensInOrder(g, mid, j, so)
  BY <1>2, FadingKeepsOrder
<1>5. x.alone => x.kind = "SIGN_OUT" /\ \A m \in RequestNo : ~Refreshes(mid, m)
  BY <1>2, <1>3 DEF OfKind, InState, Refreshes, UnderWay
<1>6. x.tab \in Tab /\ x.kind # "OVER" /\ x.cookie \in {j, NoValue}
      /\ (x.kind = "SIGN_IN" => x.user \in Staff)
      /\ (x.kind = "REFRESH" => \A m \in RequestNo : UnderWay(mid, m) => ~mid[m].alone)
  BY <1>2, <1>3 DEF CookieKind
<1>7. TokensInOrder(g, [mid EXCEPT ![N] = x], j, so)
  BY <1>1, <1>2, <1>3, <1>4, <1>5, <1>6, SendingKeepsOrder
<1>8. OnePerPage([mid EXCEPT ![N] = x], pages)
  <2> SUFFICES ASSUME NEW n \in RequestNo, Refreshes([mid EXCEPT ![N] = x], n)
               PROVE  pages[[mid EXCEPT ![N] = x][n].tab].refreshing = n
    BY DEF OnePerPage
  <2>1. CASE n = N
    BY <1>1, <1>2, <1>3, <2>1 DEF Refreshes
  <2>2. CASE n # N
    <3>1. [mid EXCEPT ![N] = x][n] = mid[n]
      BY <1>1, <1>2, <2>2
    <3>2. Refreshes(mid, n)
      BY <3>1 DEF Refreshes, UnderWay
    <3>3. Refreshes(table, n) /\ table[n].tab = mid[n].tab
      BY <1>2, <3>2, OverIsMessage DEF Fades, Refreshes, UnderWay
    <3> QED BY <3>1, <3>3 DEF OnePerPage
  <2> QED BY <2>1, <2>2
<1> QED
  BY <1>2, <1>7, <1>8

LEMMA NothingStale ==
  SessionsInv => \A t, kind, user : \A cookie \in {jar, NoValue} :
                   ~NewRequest(t, kind, cookie, user).stale
<1> SUFFICES ASSUME SessionsInv, NEW t, NEW kind, NEW user, NEW cookie \in {jar, NoValue}
             PROVE  ~NewRequest(t, kind, cookie, user).stale
  OBVIOUS
<1>1. jar # NoValue /\ granted[jar].fate = "SPENT" => traffic[granted[jar].by[1]].state # "ARRIVED"
  BY DEF SessionsInv, TokensInOrder, SpentUnseen
<1> QED
  BY <1>1 DEF NewRequest

\* A page is left.
LEMMA LeavingFades ==
  ASSUME NEW table \in [RequestNo -> Message \union {None}], NEW t \in Tab,
         MessagesFormed(table)
  PROVE  /\ Leaving(t, table) \in [RequestNo -> Message \union {None}]
         /\ \A m \in RequestNo : Fades(table[m], Leaving(t, table)[m])
         /\ \A m \in RequestNo : Refreshes(Leaving(t, table), m) =>
              Refreshes(table, m) /\ table[m].tab # t /\ Leaving(t, table)[m].tab = table[m].tab
<1> DEFINE left == Leaving(t, table)
<1> SUFFICES ASSUME NEW m \in RequestNo
             PROVE  /\ left[m] \in Message \union {None}
                    /\ Fades(table[m], left[m])
                    /\ Refreshes(left, m) => Refreshes(table, m) /\ table[m].tab # t
                                             /\ left[m].tab = table[m].tab
  BY DEF Leaving
<1>1. left[m] = IF table[m] = None \/ table[m].tab # t THEN table[m]
                ELSE CASE table[m].state = "SENT" -> [table[m] EXCEPT !.state = "LEFT"]
                       [] table[m].state = "ANSWERED" -> Over("LOST")
                       [] OTHER -> table[m]
  BY DEF Leaving
<1> HIDE DEF left
<1>2. CASE table[m] = None \/ table[m].tab # t
  BY <1>1, <1>2 DEF Fades, Refreshes, UnderWay
<1>3. CASE table[m] # None /\ table[m].tab = t
  <2>0. table[m] \in Message
    BY <1>3
  <2>1. CASE table[m].state = "SENT"
    <3>1. left[m] = [table[m] EXCEPT !.state = "LEFT"]
      BY <1>1, <1>3, <2>1
    <3>2. left[m] \in Message
      BY <2>0, <3>1 DEF Message
    <3>3. /\ left[m].kind = table[m].kind /\ left[m].tab = table[m].tab
          /\ left[m].cookie = table[m].cookie /\ left[m].user = table[m].user
          /\ left[m].answer = table[m].answer /\ left[m].stale = table[m].stale
          /\ left[m].alone = table[m].alone /\ left[m].state = "LEFT"
      BY <2>0, <3>1 DEF Message
    <3> QED BY <1>3, <2>1, <3>2, <3>3, NamesApart DEF Fades, Refreshes, UnderWay
  <2>2. CASE table[m].state = "ANSWERED"
    <3>1. left[m] = Over("LOST")
      BY <1>1, <1>3, <2>2
    <3> QED BY <1>3, <2>2, <3>1, OverIsMessage DEF Fades, Refreshes, UnderWay
  <2>3. CASE table[m].state \notin {"SENT", "ANSWERED"}
    <3>1. left[m] = table[m]
      BY <1>1, <1>3, <2>3
    <3> QED BY <1>3, <2>0, <2>3, <3>1 DEF Fades, Refreshes, UnderWay
  <2> QED BY <2>1, <2>2, <2>3
<1> QED BY <1>2, <1>3

LEMMA InitializedInOrder ==
  ASSUME SessionsTypeOK, NEW table, NEW j, NEW so, TokensInOrder(granted, table, j, so),
         OnePerPage(table, tab), Unsent # {} => table[NextRequest] = None,
         NEW t \in Tab, NEW cookie \in {j, NoValue},
         ~NewRequest(t, "REFRESH", cookie, NoValue).stale,
         Initialized(t, table, cookie)
  PROVE  /\ TokensInOrder(granted, traffic', j, so) /\ OnePerPage(traffic', tab')
         /\ tab' \in [Tab -> Page] /\ traffic' \in [RequestNo -> Message \union {None}]
<1> DEFINE left == Leaving(t, table)
           N == NextRequest
           p == [Closed EXCEPT !.status = "LOADING", !.refreshing = N, !.waiting = {"INITIALIZE"}]
<1>0. left = Leaving(t, table)
  OBVIOUS
<1>1. /\ Unsent # {} /\ N \in RequestNo
      /\ traffic' = Sent(left, t, "REFRESH", cookie, NoValue)
      /\ tab' = [tab EXCEPT ![t] = p]
  BY NextIsUnsent DEF Initialized
<1>2. p \in Page /\ p.refreshing = N
  BY <1>1, LoadedPage
<1> HIDE DEF p, left
<1>3. /\ tab' \in [Tab -> Page] /\ tab'[t].refreshing = N
      /\ \A s \in Tab : s # t => tab'[s] = tab[s]
  BY <1>1, <1>2 DEF SessionsTypeOK
<1>4. /\ table \in [RequestNo -> Message \union {None}] /\ MessagesFormed(table)
  BY DEF TokensInOrder, TablesTyped
<1>5. /\ left \in [RequestNo -> Message \union {None}]
      /\ \A m \in RequestNo : Fades(table[m], left[m])
      /\ \A m \in RequestNo : Refreshes(left, m) =>
           Refreshes(table, m) /\ table[m].tab # t /\ left[m].tab = table[m].tab
  BY <1>0, <1>4, LeavingFades
<1>6. TokensInOrder(granted, left, j, so)
  BY <1>5, FadingKeepsOrder
<1>7. left[N] = None
  BY <1>1, <1>5, NamesApart, OverIsMessage DEF Fades
<1>8. OnePerPage(left, tab')
  <2> SUFFICES ASSUME NEW m \in RequestNo, Refreshes(left, m)
               PROVE  tab'[left[m].tab].refreshing = m
    BY DEF OnePerPage
  <2>1. Refreshes(table, m) /\ table[m].tab # t /\ left[m].tab = table[m].tab
    BY <1>5
  <2>2. table[m].tab \in Tab
    BY <1>4, <2>1 DEF MessagesFormed, Refreshes, UnderWay
  <2> QED
    BY <1>3, <2>1, <2>2 DEF OnePerPage
<1>9. /\ TokensInOrder(granted, Sent(left, t, "REFRESH", cookie, NoValue), j, so)
      /\ OnePerPage(Sent(left, t, "REFRESH", cookie, NoValue), tab')
  <2>1. NoValue \in Staff \union {NoValue} /\ "REFRESH" \in CookieKind \union {"ME"}
    BY DEF CookieKind
  <2> QED
    BY <1>1, <1>3, <1>6, <1>7, <1>8, <2>1, SentInOrder
<1> QED
  BY <1>1, <1>3, <1>9 DEF TokensInOrder, TablesTyped

\* The server answers.
LEMMA RepliedAnswers ==
  ASSUME SessionsInv, NEW n \in RequestNo, NEW kind, Served(n, kind),
         NEW answer \in {"OK", "REFUSED", "CHANGE"}, Replied(n, answer)
  PROVE  /\ traffic[n] # None /\ traffic[n].state \in {"SENT", "LEFT"} /\ traffic[n].kind = kind
         /\ \E y \in Message : /\ traffic' = [traffic EXCEPT ![n] = y] /\ Answered(traffic[n], y)
                               /\ y.state = "ANSWERED" => y.answer = answer
         /\ OnePerPage(traffic', tab)
<1>1. /\ traffic[n] # None /\ traffic[n].state \in {"SENT", "LEFT"} /\ traffic[n].kind = kind
      /\ traffic \in [RequestNo -> Message \union {None}] /\ traffic[n] \in Message
  BY DEF Served, SessionsInv, SessionsTypeOK
<1>2. \E y \in Message : /\ traffic' = [traffic EXCEPT ![n] = y] /\ Answered(traffic[n], y)
                         /\ y.state = "ANSWERED" => y.answer = answer
  <2>1. CASE traffic[n].state = "LEFT"
    <3>1. traffic' = [traffic EXCEPT ![n] = Over("LOST")]
      BY <2>1 DEF Replied
    <3>2. Over("LOST") \in Message /\ Over("LOST").state = "LOST"
      BY OverIsMessage
    <3>3. Answered(traffic[n], Over("LOST"))
      BY <2>1 DEF Answered
    <3> QED BY <3>1, <3>2, <3>3
  <2>2. CASE traffic[n].state = "SENT"
    <3> DEFINE y == [traffic[n] EXCEPT !.state = "ANSWERED", !.answer = answer]
    <3>1. traffic' = [traffic EXCEPT ![n] = y]
      BY <2>2 DEF Replied
    <3>2. y \in Message
      BY <1>1 DEF Message
    <3>3. /\ y.state = "ANSWERED" /\ y.answer = answer
          /\ y.kind = traffic[n].kind /\ y.tab = traffic[n].tab /\ y.cookie = traffic[n].cookie
          /\ y.user = traffic[n].user /\ y.stale = traffic[n].stale /\ y.alone = traffic[n].alone
      BY <1>1 DEF Message
    <3> HIDE DEF y
    <3>4. Answered(traffic[n], y)
      BY <2>2, <3>3 DEF Answered
    <3> QED BY <3>1, <3>2, <3>3, <3>4
  <2> QED BY <1>1, <2>1, <2>2
<1>3. OnePerPage(traffic', tab)
  <2>1. PICK y \in Message : traffic' = [traffic EXCEPT ![n] = y] /\ Answered(traffic[n], y)
    BY <1>2
  <2> SUFFICES ASSUME NEW m \in RequestNo, Refreshes(traffic', m)
               PROVE  tab[traffic'[m].tab].refreshing = m
    BY DEF OnePerPage
  <2>2. CASE m = n
    <3>1. traffic'[m] = y /\ y.state \in {"SENT", "ANSWERED"} /\ y.kind = "REFRESH"
      BY <1>1, <2>1, <2>2 DEF Refreshes, UnderWay
    <3>2. Refreshes(traffic, m) /\ y.tab = traffic[m].tab
      BY <1>1, <2>1, <2>2, <3>1, OverIsMessage DEF Answered, Refreshes, UnderWay
    <3> QED
      BY <3>1, <3>2 DEF SessionsInv, OnePerPage
  <2>3. CASE m # n
    <3>1. traffic'[m] = traffic[m]
      BY <1>1, <2>1, <2>3
    <3>2. Refreshes(traffic, m)
      BY <3>1 DEF Refreshes, UnderWay
    <3> QED
      BY <3>1, <3>2 DEF SessionsInv, OnePerPage
  <2> QED BY <2>2, <2>3
<1> QED BY <1>1, <1>2, <1>3

\* An answer arrives; pages differ from the stores in the page it was for at most.
LEMMA ArrivedPages ==
  ASSUME SessionsInv, NEW n \in RequestNo, NEW kind, Arriving(n, kind),
         NEW pages, \A t \in Tab : t # traffic[n].tab => pages[t] = tab[t],
         kind = "REFRESH" \/ pages[traffic[n].tab].refreshing = tab[traffic[n].tab].refreshing
  PROVE  /\ traffic[n] # None /\ traffic[n].state = "ANSWERED" /\ traffic[n].kind = kind
         /\ traffic[n] \in Message /\ traffic[n].tab \in Tab /\ tab[traffic[n].tab] \in Page
         /\ OnePerPage(Arrived(n), pages)
         /\ Arrived(n) = [traffic EXCEPT ![n] = Over("ARRIVED")]
<1>1. /\ traffic[n] # None /\ traffic[n].state = "ANSWERED" /\ traffic[n].kind = kind
      /\ traffic[n] \in Message /\ traffic[n].tab \in Tab /\ tab[traffic[n].tab] \in Page
      /\ traffic \in [RequestNo -> Message \union {None}]
      /\ MessagesFormed(traffic)
  BY DEF Arriving, SessionsInv, SessionsTypeOK, TokensInOrder, MessagesFormed
<1>2. OnePerPage(Arrived(n), pages)
  <2> SUFFICES ASSUME NEW m \in RequestNo, Refreshes(Arrived(n), m)
               PROVE  pages[Arrived(n)[m].tab].refreshing = m
    BY DEF OnePerPage
  <2>1. m # n
    BY <1>1, OverIsMessage DEF Arrived, Refreshes, UnderWay
  <2>2. Arrived(n)[m] = traffic[m]
    BY <1>1, <2>1 DEF Arrived
  <2>3. Refreshes(traffic, m) /\ traffic[m].tab \in Tab
    BY <1>1, <2>2 DEF Refreshes, UnderWay, MessagesFormed
  <2>4. tab[traffic[m].tab].refreshing = m
    BY <2>3 DEF SessionsInv, OnePerPage
  <2>5. CASE kind = "REFRESH"
    <3>1. Refreshes(traffic, n)
      BY <1>1, <2>5 DEF Refreshes, UnderWay
    <3>2. tab[traffic[n].tab].refreshing = n
      BY <3>1 DEF SessionsInv, OnePerPage
    <3> QED BY <2>1, <2>2, <2>3, <2>4, <3>2
  <2>6. CASE pages[traffic[n].tab].refreshing = tab[traffic[n].tab].refreshing
    BY <2>2, <2>3, <2>4, <2>6
  <2> QED BY <2>5, <2>6
<1> QED BY <1>1, <1>2 DEF Arrived

LEMMA SessionsStart == SessionsInit => SessionsInv
<1> SUFFICES ASSUME SessionsInit PROVE SessionsInv
  OBVIOUS
<1>1. PICK u \in Staff \union {NoValue} :
       /\ granted = [t \in 0 .. MaxRequests |->
            IF t = 0 /\ u # NoValue
            THEN [user |-> u, fate |-> "LIVE", by |-> NoValue, root |-> 0, held |-> TRUE]
            ELSE None]
       /\ jar = IF u # NoValue THEN 0 ELSE NoValue
       /\ toChange = Temporary \ {u}
       /\ \E showing \in SUBSET Tab :
            /\ u = NoValue => showing = {}
            /\ tab = [t \in Tab |-> IF t \in showing
                  THEN [Closed EXCEPT !.status = "AUTHENTICATED", !.user = u, !.access = u]
                  ELSE Closed]
  BY DEF SessionsInit
<1>2. traffic = [n \in RequestNo |-> None] /\ barred = {} /\ alarmed = {} /\ signedOut = {}
  BY DEF SessionsInit
<1>3. 0 \in Cookie /\ Cookie = 0 .. MaxRequests /\ 0 \notin RequestNo /\ 0 # NoValue
  BY SessionsAssumption DEF Cookie, RequestNo
<1> DEFINE first == [user |-> u, fate |-> "LIVE", by |-> NoValue, root |-> 0, held |-> TRUE]
<1>4. u # NoValue => first \in Grant
  BY <1>3 DEF Grant
<1>5. /\ granted \in [Cookie -> Grant \union {None}]
      /\ \A t \in Cookie : granted[t] # None =>
           t = 0 /\ u # NoValue /\ granted[t] = first /\ first # None
      /\ u # NoValue => granted[0] = first /\ first # None
  BY <1>1, <1>3, <1>4, NamesApart
<1>6. tab \in [Tab -> Page]
  <2>1. PICK showing \in SUBSET Tab :
            /\ u = NoValue => showing = {}
            /\ tab = [t \in Tab |-> IF t \in showing
                  THEN [Closed EXCEPT !.status = "AUTHENTICATED", !.user = u, !.access = u]
                  ELSE Closed]
    BY <1>1
  <2>2. Closed \in Page /\ [Closed EXCEPT !.status = "AUTHENTICATED", !.user = u, !.access = u] \in Page
    BY DEF Closed, Page
  <2> QED BY <2>1, <2>2
<1>7. SessionsTypeOK
  <2>1. traffic \in [RequestNo -> Message \union {None}] /\ jar \in Cookie \union {NoValue}
    BY <1>1, <1>2, <1>3
  <2>2. toChange \subseteq Staff
    BY <1>1, SessionsAssumption
  <2> QED BY <1>2, <1>5, <1>6, <2>1, <2>2 DEF SessionsTypeOK
<1>8. \A n \in RequestNo : traffic[n] = None
  BY <1>2
<1>9. jar # NoValue => jar = 0 /\ u # NoValue
  BY <1>1
<1>10. first.fate = "LIVE" /\ first.root = 0 /\ first.held
  OBVIOUS
<1> HIDE DEF first
<1>11. TokensInOrder(granted, traffic, jar, signedOut)
  <2>1. TablesTyped(granted, traffic, jar, signedOut)
    BY <1>7 DEF SessionsTypeOK, TablesTyped
  <2>2. MessagesFormed(traffic) /\ CookiesHeld(granted, traffic, jar)
    BY <1>5, <1>8, <1>9, <1>10 DEF MessagesFormed, CookiesHeld
  <2>3. Families(granted)
    BY <1>5, <1>10 DEF Families
  <2>4. TokensOfAnswers(granted, traffic)
    BY <1>3, <1>5, <1>8, NamesApart DEF TokensOfAnswers
  <2>5. SpendersServed(granted, traffic)
    BY <1>5, <1>10 DEF SpendersServed
  <2>6. SpentUnseen(granted, traffic, jar)
    BY <1>5, <1>8, <1>9, <1>10 DEF SpentUnseen, Refreshes, UnderWay
  <2>7. SignOutsAlone(granted, traffic, jar)
    BY <1>3, <1>5, <1>8, <1>9 DEF SignOutsAlone, UnderWay, OthersOver
  <2>8. Ended(granted, traffic, jar, signedOut)
    BY <1>2, <1>8 DEF Ended, Refreshes, UnderWay
  <2> QED
    BY <2>1, <2>2, <2>3, <2>4, <2>5, <2>6, <2>7, <2>8 DEF TokensInOrder
<1>12. OnePerPage(traffic, tab)
  BY <1>8 DEF OnePerPage, Refreshes, UnderWay
<1>13. OwnTrafficIsNoTheft
  BY <1>2 DEF OwnTrafficIsNoTheft
<1> QED
  BY <1>7, <1>11, <1>12, <1>13 DEF SessionsInv

\* What a refresh that shows a spent token says of who spent it
LEMMA NoAlarmOfOwn ==
  ASSUME SessionsInv, NEW n \in RequestNo, traffic[n] # None, traffic[n].state \in {"SENT", "LEFT"},
         traffic[n].kind = "REFRESH", NEW c \in Cookie, traffic[n].cookie = c,
         granted[c].fate = "SPENT"
  PROVE  /\ Alarm(n, granted[c].by) \in [stale : BOOLEAN, own : BOOLEAN]
         /\ ~Alarm(n, granted[c].by).stale /\ ~Alarm(n, granted[c].by).own
<1> DEFINE by == granted[c].by
           m == by[1]
<1>1. TokensInOrder(granted, traffic, jar, signedOut) /\ OnePerPage(traffic, tab)
  BY DEF SessionsInv
<1>2. /\ MessagesFormed(traffic) /\ SpendersServed(granted, traffic)
      /\ SpentUnseen(granted, traffic, jar) /\ CookiesHeld(granted, traffic, jar)
  BY <1>1 DEF TokensInOrder
<1>3. granted[c] # None
  BY <1>2, NamesApart DEF CookiesHeld
<1>4. /\ m \in RequestNo /\ traffic[m] # None /\ traffic[m].state \in {"ANSWERED", "ARRIVED", "LOST"}
      /\ traffic[m].state = "ANSWERED" => traffic[m].kind = by[2] /\ traffic[m].tab = by[3]
  BY <1>1, <1>2, <1>3, OrderParts DEF SpendersServed
<1>5. traffic[n].stale = FALSE
  <2>1. traffic[n].stale \in BOOLEAN
    BY DEF SessionsInv, SessionsTypeOK, Message
  <2> QED BY <1>2, <2>1 DEF MessagesFormed
<1>6. ~(/\ by[2] = "REFRESH" /\ by[3] = traffic[n].tab
        /\ traffic[n].state # "LEFT" /\ traffic[m].state # "LOST")
  <2> SUFFICES ASSUME by[2] = "REFRESH", by[3] = traffic[n].tab,
                      traffic[n].state # "LEFT", traffic[m].state # "LOST"
               PROVE  FALSE
    OBVIOUS
  <2>1. traffic[n].state = "SENT" /\ Refreshes(traffic, n)
    BY DEF Refreshes, UnderWay
  <2>2. traffic[m].state # "ARRIVED"
    BY <1>2, <2>1 DEF SpentUnseen
  <2>3. traffic[m].state = "ANSWERED"
    BY <1>4, <2>2
  <2>4. Refreshes(traffic, m) /\ traffic[m].tab = traffic[n].tab
    BY <1>4, <2>3 DEF Refreshes, UnderWay
  <2>5. m = n
    BY <1>1, <1>4, <2>1, <2>4 DEF OnePerPage
  <2> QED BY <2>1, <2>3, <2>5
<1> QED
  BY <1>5, <1>6 DEF Alarm

LEMMA SessionsStep == SessionsInv /\ [SessionsNext]_sessionVars => SessionsInv'
<1> SUFFICES ASSUME SessionsInv, [SessionsNext]_sessionVars PROVE SessionsInv'
  OBVIOUS
<1>inv. /\ SessionsTypeOK /\ TokensInOrder(granted, traffic, jar, signedOut)
        /\ OnePerPage(traffic, tab) /\ OwnTrafficIsNoTheft
  BY DEF SessionsInv
<1>typed. /\ granted \in [Cookie -> Grant \union {None}]
          /\ traffic \in [RequestNo -> Message \union {None}]
          /\ tab \in [Tab -> Page]
          /\ jar \in Cookie \union {NoValue}
          /\ toChange \subseteq Staff /\ barred \subseteq Staff
          /\ alarmed \subseteq [stale : BOOLEAN, own : BOOLEAN] /\ signedOut \subseteq Cookie
  BY <1>inv DEF SessionsTypeOK
\* The tables are typed when they are in order.
<1>so. ASSUME TokensInOrder(granted', traffic', jar', signedOut'), OnePerPage(traffic', tab'),
              tab' \in [Tab -> Page], toChange' \subseteq Staff, barred' \subseteq Staff,
              alarmed' \subseteq [stale : BOOLEAN, own : BOOLEAN], OwnTrafficIsNoTheft'
       PROVE  SessionsInv'
  BY <1>so DEF SessionsInv, SessionsTypeOK, TokensInOrder, TablesTyped
<1>same. alarmed' = alarmed => OwnTrafficIsNoTheft'
  BY <1>inv DEF OwnTrafficIsNoTheft
<1>next. Unsent # {} => NextRequest \in RequestNo /\ traffic[NextRequest] = None
  BY NextIsUnsent
<1>1. ASSUME NEW t \in Tab, LoadPage(t) PROVE SessionsInv'
  <2>1. /\ Initialized(t, traffic, jar)
        /\ UNCHANGED <<granted, jar, toChange, barred, alarmed, signedOut>>
    BY <1>1 DEF LoadPage
  <2>2. ~NewRequest(t, "REFRESH", jar, NoValue).stale
    BY NothingStale
  <2>3. /\ TokensInOrder(granted, traffic', jar, signedOut) /\ OnePerPage(traffic', tab')
        /\ tab' \in [Tab -> Page]
    BY <1>inv, <1>next, <2>1, <2>2, InitializedInOrder
  <2> QED BY <1>typed, <1>so, <1>same, <2>1, <2>3
\* Requests that a page sends and that leave its stores as they are
<1>2. ASSUME NEW t \in Tab, NEW kind \in CookieKind \ {"REFRESH"}, NEW user \in Staff \union {NoValue},
             kind = "SIGN_IN" => user \in Staff, Unsent # {},
             traffic' = Sent(traffic, t, kind, jar, user),
             UNCHANGED <<granted, jar, tab, toChange, barred, alarmed, signedOut>>
      PROVE  SessionsInv'
  <2>1. ~NewRequest(t, kind, jar, user).stale
    BY NothingStale
  <2>2. /\ TokensInOrder(granted, traffic', jar, signedOut) /\ OnePerPage(traffic', tab)
    <3>1. kind \in CookieKind \union {"ME"} /\ jar \in {jar, NoValue} /\ kind # "REFRESH"
      OBVIOUS
    <3> QED
      BY <1>inv, <1>next, <1>2, <2>1, <3>1, SentInOrder
  <2> QED BY <1>typed, <1>so, <1>same, <1>2, <2>2
<1>3. ASSUME NEW t \in Tab, NEW u \in Staff, SignIn(t, u) PROVE SessionsInv'
  <2>1. /\ traffic' = Sent(traffic, t, "SIGN_IN", jar, u) /\ Unsent # {}
        /\ UNCHANGED <<granted, jar, tab, toChange, barred, alarmed, signedOut>>
    BY <1>3 DEF SignIn, MaySend
  <2>2. "SIGN_IN" \in CookieKind \ {"REFRESH"} /\ u \in Staff \union {NoValue}
    BY DEF CookieKind
  <2> QED BY <1>2, <2>1, <2>2
<1>4. ASSUME NEW t \in Tab, ChangePassword(t) PROVE SessionsInv'
  <2> DEFINE user == IF tab[t].access = NoValue THEN tab[t].restricted ELSE NoValue
  <2>1. /\ traffic' = Sent(traffic, t, "CHANGE_PASSWORD", jar, user) /\ Unsent # {}
        /\ UNCHANGED <<granted, jar, tab, toChange, barred, alarmed, signedOut>>
    BY <1>4 DEF ChangePassword, MaySend
  <2>2. "CHANGE_PASSWORD" \in CookieKind \ {"REFRESH"} /\ user \in Staff \union {NoValue}
    BY <1>typed DEF CookieKind, Page
  <2> HIDE DEF user
  <2> QED BY <1>2, <2>1, <2>2
<1>5. ASSUME NEW t \in Tab, SignOut(t) PROVE SessionsInv'
  <2>1. /\ traffic' = Sent(traffic, t, "SIGN_OUT", jar, tab[t].access) /\ Unsent # {}
        /\ UNCHANGED <<granted, jar, tab, toChange, barred, alarmed, signedOut>>
    BY <1>5 DEF SignOut, MaySend
  <2>2. "SIGN_OUT" \in CookieKind \ {"REFRESH"} /\ tab[t].access \in Staff \union {NoValue}
    BY <1>typed DEF CookieKind, Page
  <2> QED BY <1>2, <2>1, <2>2
<1>6. ASSUME NEW t \in Tab, ApiUnauthorized(t) PROVE SessionsInv'
  <2>1. UNCHANGED <<granted, jar, toChange, barred, alarmed, signedOut>> /\ tab[t] \in Page
    BY <1>typed, <1>6 DEF ApiUnauthorized
  <2>2. CASE tab[t].refreshing = NoValue
    <3> DEFINE page == [tab[t] EXCEPT !.refreshing = NextRequest, !.waiting = @ \union {"RETRY"}]
    <3>1. /\ Unsent # {} /\ traffic' = Sent(traffic, t, "REFRESH", jar, NoValue)
          /\ tab' = [tab EXCEPT ![t] = page]
      BY <1>6, <2>2 DEF ApiUnauthorized, StartsRefresh, MaySend
    <3>2. page \in Page /\ page.refreshing = NextRequest
      BY <1>next, <2>1, <3>1, PageFacts
    <3> HIDE DEF page
    <3>3. /\ tab' \in [Tab -> Page] /\ tab'[t].refreshing = NextRequest
          /\ \A s \in Tab : s # t => tab'[s] = tab[s]
      BY <1>typed, <3>1, <3>2
    <3>4. OnePerPage(traffic, tab')
      <4> SUFFICES ASSUME NEW m \in RequestNo, Refreshes(traffic, m)
                   PROVE  tab'[traffic[m].tab].refreshing = m
        BY DEF OnePerPage
      <4>1. tab[traffic[m].tab].refreshing = m /\ traffic[m].tab \in Tab
        BY <1>inv DEF OnePerPage, TokensInOrder, MessagesFormed, Refreshes, UnderWay
      <4>2. traffic[m].tab # t
        BY <2>2, <4>1, NamesApart
      <4> QED BY <3>3, <4>1, <4>2
    <3>5. ~NewRequest(t, "REFRESH", jar, NoValue).stale
      BY NothingStale
    <3>6. "REFRESH" \in CookieKind \union {"ME"} /\ jar \in {jar, NoValue}
          /\ NoValue \in Staff \union {NoValue}
      BY DEF CookieKind
    <3>7. /\ TokensInOrder(granted, traffic', jar, signedOut) /\ OnePerPage(traffic', tab')
      BY <1>inv, <1>next, <3>1, <3>3, <3>4, <3>5, <3>6, SentInOrder
    <3> QED BY <1>typed, <1>so, <1>same, <2>1, <3>3, <3>7
  <2>3. CASE tab[t].refreshing # NoValue
    <3> DEFINE page == [tab[t] EXCEPT !.waiting = @ \union {"RETRY"}]
    <3>1. traffic' = traffic /\ tab' = [tab EXCEPT ![t] = page]
      BY <1>6, <2>3 DEF ApiUnauthorized, StartsRefresh
    <3>2. page \in Page /\ page.refreshing = tab[t].refreshing
      BY <2>1, PageFacts
    <3> HIDE DEF page
    <3>3. tab' \in [Tab -> Page] /\ \A s \in Tab : tab'[s].refreshing = tab[s].refreshing
      BY <1>typed, <3>1, <3>2
    <3>4. OnePerPage(traffic', tab')
      BY <1>inv, <3>1, <3>3 DEF OnePerPage, TokensInOrder, MessagesFormed, Refreshes, UnderWay
    <3> QED BY <1>inv, <1>typed, <1>so, <1>same, <2>1, <3>1, <3>3, <3>4
  <2> QED BY <2>2, <2>3
<1>7. ASSUME NEW t \in Tab, ApiBlocked(t) PROVE SessionsInv'
  <2>1. UNCHANGED <<granted, jar, traffic, toChange, barred, alarmed, signedOut>>
        /\ tab' = [tab EXCEPT ![t] = Unauthenticated(tab[t])] /\ tab[t] \in Page
    BY <1>typed, <1>7 DEF ApiBlocked
  <2>2. Unauthenticated(tab[t]) \in Page /\ Unauthenticated(tab[t]).refreshing = tab[t].refreshing
    BY <2>1, PageFacts
  <2>3. tab' \in [Tab -> Page] /\ \A s \in Tab : tab'[s].refreshing = tab[s].refreshing
    BY <1>typed, <2>1, <2>2
  <2>4. OnePerPage(traffic', tab')
    BY <1>inv, <2>1, <2>3 DEF OnePerPage, TokensInOrder, MessagesFormed, Refreshes, UnderWay
  <2> QED BY <1>inv, <1>typed, <1>so, <1>same, <2>1, <2>3, <2>4
<1>8. ASSUME NEW n \in RequestNo, ServeRefresh(n) PROVE SessionsInv'
  <2> DEFINE c == traffic[n].cookie
  <2>0. c = traffic[n].cookie
    OBVIOUS
  <2>1. Served(n, "REFRESH") /\ UNCHANGED <<jar, tab, toChange, barred, signedOut>>
    BY <1>8 DEF ServeRefresh
  <2>2. traffic[n] # None /\ traffic[n].state \in {"SENT", "LEFT"} /\ traffic[n].kind = "REFRESH"
    BY <2>1 DEF Served
  <2>3. c # NoValue => c \in Cookie /\ granted[c] # None /\ granted[c] \in Grant
    BY <1>inv, <2>2, OrderParts
  <2>4. \/ c = NoValue /\ Replied(n, "REFUSED") /\ UNCHANGED <<granted, alarmed>>
        \/ /\ c # NoValue /\ granted[c].fate = "LIVE"
           /\ granted' = Stored(Spent(granted, c, n), n, granted[c].user, granted[c].root)
           /\ Replied(n, "OK") /\ UNCHANGED alarmed
        \/ /\ c # NoValue /\ granted[c].fate # "LIVE"
           /\ granted' = AllSwept(granted, granted[c].user)
           /\ alarmed' = IF granted[c].fate = "SPENT" THEN alarmed \union {Alarm(n, granted[c].by)}
                         ELSE alarmed
           /\ Replied(n, "REFUSED")
    BY <1>8 DEF ServeRefresh
  <2> HIDE DEF c
  <2>5. CASE c = NoValue /\ Replied(n, "REFUSED") /\ UNCHANGED <<granted, alarmed>>
    <3>1. PICK y \in Message : /\ traffic' = [traffic EXCEPT ![n] = y] /\ Answered(traffic[n], y)
                               /\ y.state = "ANSWERED" => y.answer = "REFUSED"
      BY <2>1, <2>5, RepliedAnswers
    <3>2. OnePerPage(traffic', tab)
      BY <2>1, <2>5, RepliedAnswers
    <3>3. TokensInOrder(granted, traffic', jar, signedOut)
      <4>1. /\ traffic[n].kind \in {"REFRESH", "SIGN_IN", "CHANGE_PASSWORD"} =>
                (y.state = "ANSWERED" => y.answer # "OK")
            /\ traffic[n].kind = "SIGN_OUT" /\ traffic[n].cookie # NoValue =>
                granted[traffic[n].cookie].fate # "LIVE"
        BY <2>2, <3>1
      <4> QED BY <1>inv, <2>2, <3>1, <4>1, AnsweringKeepsOrder
    <3> QED BY <1>typed, <1>so, <1>same, <2>1, <2>5, <3>2, <3>3
  <2>6. CASE /\ c # NoValue /\ granted[c].fate = "LIVE"
             /\ granted' = Stored(Spent(granted, c, n), n, granted[c].user, granted[c].root)
             /\ Replied(n, "OK") /\ UNCHANGED alarmed
    <3>1. PICK y \in Message : /\ traffic' = [traffic EXCEPT ![n] = y] /\ Answered(traffic[n], y)
                               /\ y.state = "ANSWERED" => y.answer = "OK"
      BY <2>1, <2>6, RepliedAnswers
    <3>2. OnePerPage(traffic', tab)
      BY <2>1, <2>6, RepliedAnswers
    <3>3. Spends(granted, traffic, granted', n, c)
      <4> DEFINE by == <<n, traffic[n].kind, traffic[n].tab>>
                 old == [granted[c] EXCEPT !.fate = "SPENT", !.by = by]
                 row == [user |-> granted[c].user, fate |-> "LIVE", by |-> NoValue,
                         root |-> granted[c].root, held |-> FALSE]
      <4>1. granted' = [[granted EXCEPT ![c] = old] EXCEPT ![n] = row]
        BY <1>typed, <2>3, <2>6 DEF Stored, Spent
      <4>2. n \in Cookie /\ c # n /\ c \in Cookie
        BY <1>inv, <2>2, <2>3, <2>6, NamesApart DEF TokensInOrder, TokensOfAnswers
      <4>3. traffic[n].tab \in Tab
        BY <1>inv, <2>2 DEF TokensInOrder, MessagesFormed
      <4>4. by \in Spending
        BY <2>2, <4>3 DEF Spending
      <4> HIDE DEF by
      <4>5. /\ old \in Grant /\ old.fate = "SPENT" /\ old.by = by /\ old.root = granted[c].root
            /\ old.held = granted[c].held
        BY <2>3, <2>6, <4>4 DEF Grant
      <4>6. row \in Grant /\ row.root = granted[c].root /\ row.fate = "LIVE" /\ ~row.held
        BY <2>3, <2>6 DEF Grant
      <4> HIDE DEF old, row
      <4>7. /\ granted' \in [Cookie -> Grant \union {None}]
            /\ granted'[c] = old /\ granted'[n] = row
            /\ \A t \in Cookie : t # n /\ t # c => granted'[t] = granted[t]
        BY <1>typed, <4>1, <4>2, <4>5, <4>6
      <4> QED
        BY <2>2, <4>5, <4>6, <4>7, NamesApart DEF Spends, by
    <3>4. TokensInOrder(granted', traffic', jar, signedOut)
      BY <1>inv, <2>0, <2>2, <2>3, <2>6, <3>1, <3>3, SpendingKeepsOrder
    <3> QED BY <1>typed, <1>so, <1>same, <2>1, <2>6, <3>2, <3>4
  <2>7. CASE /\ c # NoValue /\ granted[c].fate # "LIVE"
             /\ granted' = AllSwept(granted, granted[c].user)
             /\ alarmed' = IF granted[c].fate = "SPENT" THEN alarmed \union {Alarm(n, granted[c].by)}
                           ELSE alarmed
             /\ Replied(n, "REFUSED")
    <3>1. PICK y \in Message : /\ traffic' = [traffic EXCEPT ![n] = y] /\ Answered(traffic[n], y)
                               /\ y.state = "ANSWERED" => y.answer = "REFUSED"
      BY <2>1, <2>7, RepliedAnswers
    <3>2. OnePerPage(traffic', tab)
      BY <2>1, <2>7, RepliedAnswers
    <3>3. TokensInOrder(granted', traffic, jar, signedOut)
      BY <1>inv, <2>7, SweepingKeepsOrder
    <3>4. TokensInOrder(granted', traffic', jar, signedOut)
      <4>1. /\ traffic[n].kind \in {"REFRESH", "SIGN_IN", "CHANGE_PASSWORD"} =>
                (y.state = "ANSWERED" => y.answer # "OK")
            /\ traffic[n].kind = "SIGN_OUT" /\ traffic[n].cookie # NoValue =>
                granted'[traffic[n].cookie].fate # "LIVE"
        BY <2>2, <3>1
      <4> QED BY <2>2, <3>1, <3>3, <4>1, AnsweringKeepsOrder
    <3>5. granted[c].fate = "SPENT" =>
            /\ Alarm(n, granted[c].by) \in [stale : BOOLEAN, own : BOOLEAN]
            /\ ~Alarm(n, granted[c].by).stale /\ ~Alarm(n, granted[c].by).own
      BY <2>0, <2>2, <2>3, <2>7, NoAlarmOfOwn
    <3>6. alarmed' \subseteq [stale : BOOLEAN, own : BOOLEAN] /\ OwnTrafficIsNoTheft'
      BY <1>inv, <1>typed, <2>7, <3>5 DEF OwnTrafficIsNoTheft
    <3> QED BY <1>typed, <1>so, <2>1, <3>2, <3>4, <3>6
  <2> QED BY <2>4, <2>5, <2>6, <2>7
\* Answers with which no token is stored or spent
<1>9. ASSUME NEW n \in RequestNo, NEW kind, Served(n, kind),
             NEW answer \in {"OK", "REFUSED", "CHANGE"}, Replied(n, answer),
             kind \in {"REFRESH", "SIGN_IN", "CHANGE_PASSWORD"} => answer # "OK",
             kind = "SIGN_OUT" /\ traffic[n].cookie # NoValue =>
               granted[traffic[n].cookie].fate # "LIVE",
             UNCHANGED <<granted, jar, tab, toChange, barred, alarmed, signedOut>>
      PROVE  SessionsInv'
  <2>1. traffic[n] # None /\ traffic[n].state \in {"SENT", "LEFT"} /\ traffic[n].kind = kind
    BY <1>9 DEF Served
  <2>2. PICK y \in Message : /\ traffic' = [traffic EXCEPT ![n] = y] /\ Answered(traffic[n], y)
                             /\ y.state = "ANSWERED" => y.answer = answer
    BY <1>9, RepliedAnswers
  <2>3. OnePerPage(traffic', tab)
    BY <1>9, RepliedAnswers
  <2>4. TokensInOrder(granted, traffic', jar, signedOut)
    <3>1. traffic[n].kind \in {"REFRESH", "SIGN_IN", "CHANGE_PASSWORD"} =>
            (y.state = "ANSWERED" => y.answer # "OK")
      BY <1>9, <2>1, <2>2
    <3>2. traffic[n].kind = "SIGN_OUT" /\ traffic[n].cookie # NoValue =>
            granted[traffic[n].cookie].fate # "LIVE"
      BY <1>9, <2>1
    <3> QED BY <1>inv, <2>1, <2>2, <3>1, <3>2, AnsweringKeepsOrder
  <2> QED BY <1>typed, <1>so, <1>same, <1>9, <2>3, <2>4
\* Answers that begin a session
<1>10. ASSUME NEW n \in RequestNo, NEW kind \in {"SIGN_IN", "CHANGE_PASSWORD"}, Served(n, kind),
              Replied(n, "OK"), NEW u \in Staff, NEW g, TokensInOrder(g, traffic, jar, signedOut),
              granted' = Stored(g, n, u, n), toChange' \subseteq Staff,
              UNCHANGED <<jar, tab, barred, alarmed, signedOut>>
       PROVE  SessionsInv'
  <2>1. traffic[n] # None /\ traffic[n].state \in {"SENT", "LEFT"} /\ traffic[n].kind = kind
    BY <1>10 DEF Served
  <2>2. PICK y \in Message : traffic' = [traffic EXCEPT ![n] = y] /\ Answered(traffic[n], y)
    BY <1>10, RepliedAnswers
  <2>3. OnePerPage(traffic', tab)
    BY <1>10, RepliedAnswers
  <2>4. TokensInOrder(granted', traffic', jar, signedOut)
    BY <1>10, <2>1, <2>2, BeginningKeepsOrder
  <2> QED BY <1>typed, <1>so, <1>same, <1>10, <2>3, <2>4
<1>11. ASSUME NEW n \in RequestNo, ServeSignIn(n) PROVE SessionsInv'
  <2> DEFINE u == traffic[n].user
  <2>1. /\ Served(n, "SIGN_IN") /\ UNCHANGED <<jar, tab, toChange, barred, alarmed, signedOut>>
        /\ \/ Replied(n, "REFUSED") /\ UNCHANGED granted
           \/ Replied(n, "CHANGE") /\ UNCHANGED granted
           \/ granted' = Stored(granted, n, u, n) /\ Replied(n, "OK")
    BY <1>11 DEF ServeSignIn
  <2>2. u \in Staff
    BY <1>inv, <2>1 DEF TokensInOrder, MessagesFormed, Served
  <2> HIDE DEF u
  <2>3. CASE Replied(n, "REFUSED") /\ UNCHANGED granted
    BY <1>9, <2>1, <2>3
  <2>4. CASE Replied(n, "CHANGE") /\ UNCHANGED granted
    BY <1>9, <2>1, <2>4
  <2>5. CASE granted' = Stored(granted, n, u, n) /\ Replied(n, "OK")
    <3>1. toChange' \subseteq Staff
      BY <1>typed, <2>1
    <3> QED BY <1>10, <1>inv, <2>1, <2>2, <2>5, <3>1
  <2> QED BY <2>1, <2>3, <2>4, <2>5
<1>12. ASSUME NEW n \in RequestNo, ServeChangePassword(n) PROVE SessionsInv'
  <2> DEFINE u == traffic[n].user
  <2>1. /\ Served(n, "CHANGE_PASSWORD") /\ UNCHANGED <<jar, tab, barred, alarmed, signedOut>>
        /\ \/ Replied(n, "REFUSED") /\ UNCHANGED <<granted, toChange>>
           \/ /\ u \in toChange \ barred /\ toChange' = toChange \ {u}
              /\ granted' = Stored(AllSwept(granted, u), n, u, n) /\ Replied(n, "OK")
    BY <1>12 DEF ServeChangePassword
  <2> HIDE DEF u
  <2>2. CASE Replied(n, "REFUSED") /\ UNCHANGED <<granted, toChange>>
    BY <1>9, <2>1, <2>2
  <2>3. CASE /\ u \in toChange \ barred /\ toChange' = toChange \ {u}
             /\ granted' = Stored(AllSwept(granted, u), n, u, n) /\ Replied(n, "OK")
    <3>1. u \in Staff /\ toChange' \subseteq Staff
      BY <1>typed, <2>3
    <3>2. TokensInOrder(AllSwept(granted, u), traffic, jar, signedOut)
      BY <1>inv, SweepingKeepsOrder
    <3> QED BY <1>10, <2>1, <2>3, <3>1, <3>2
  <2> QED BY <2>1, <2>2, <2>3
<1>13. ASSUME NEW n \in RequestNo, ServeSignOut(n) PROVE SessionsInv'
  <2> DEFINE c == traffic[n].cookie
  <2>0. c = traffic[n].cookie
    OBVIOUS
  <2>1. /\ Served(n, "SIGN_OUT") /\ Replied(n, "OK")
        /\ UNCHANGED <<jar, tab, toChange, barred, alarmed, signedOut>>
        /\ granted' = IF c # NoValue /\ granted[c].fate = "LIVE" THEN Spent(granted, c, n) ELSE granted
    BY <1>13 DEF ServeSignOut, RevokedByLogout
  <2>2. traffic[n] # None /\ traffic[n].state \in {"SENT", "LEFT"} /\ traffic[n].kind = "SIGN_OUT"
    BY <2>1 DEF Served
  <2>3. c # NoValue => c \in Cookie /\ granted[c] # None /\ granted[c] \in Grant
    BY <1>inv, <2>2, OrderParts
  <2> HIDE DEF c
  <2>4. CASE ~(c # NoValue /\ granted[c].fate = "LIVE")
    BY <1>9, <2>0, <2>1, <2>4
  <2>5. CASE c # NoValue /\ granted[c].fate = "LIVE"
    <3>1. PICK y \in Message : /\ traffic' = [traffic EXCEPT ![n] = y] /\ Answered(traffic[n], y)
                               /\ y.state = "ANSWERED" => y.answer = "OK"
      BY <2>1, RepliedAnswers
    <3>2. OnePerPage(traffic', tab)
      BY <2>1, RepliedAnswers
    <3>3. Spends(granted, traffic, granted', n, c)
      <4> DEFINE by == <<n, traffic[n].kind, traffic[n].tab>>
                 old == [granted[c] EXCEPT !.fate = "SPENT", !.by = by]
      <4>1. granted' = [granted EXCEPT ![c] = old]
        BY <1>typed, <2>1, <2>3, <2>5 DEF Spent
      <4>2. n \in Cookie /\ c # n /\ c \in Cookie /\ granted[n] = None
        BY <1>inv, <2>2, <2>3, <2>5, NamesApart DEF TokensInOrder, TokensOfAnswers
      <4>3. traffic[n].tab \in Tab
        BY <1>inv, <2>2 DEF TokensInOrder, MessagesFormed
      <4>4. by \in Spending
        BY <2>2, <4>3 DEF Spending
      <4> HIDE DEF by
      <4>5. /\ old \in Grant /\ old.fate = "SPENT" /\ old.by = by /\ old.root = granted[c].root
            /\ old.held = granted[c].held
        BY <2>3, <2>5, <4>4 DEF Grant
      <4> HIDE DEF old
      <4>6. /\ granted' \in [Cookie -> Grant \union {None}]
            /\ granted'[c] = old /\ granted'[n] = None
            /\ \A t \in Cookie : t # n /\ t # c => granted'[t] = granted[t]
        BY <1>typed, <4>1, <4>2, <4>5
      <4> QED
        BY <2>2, <4>5, <4>6, NamesApart DEF Spends, by
    <3>4. TokensInOrder(granted', traffic', jar, signedOut)
      BY <1>inv, <2>0, <2>2, <2>3, <2>5, <3>1, <3>3, SpendingKeepsOrder
    <3> QED BY <1>typed, <1>so, <1>same, <2>1, <3>2, <3>4
  <2> QED BY <2>4, <2>5
<1>14. ASSUME NEW n \in RequestNo, ServeMe(n) PROVE SessionsInv'
  <2>1. /\ Served(n, "ME") /\ UNCHANGED <<granted, jar, tab, toChange, barred, alarmed, signedOut>>
        /\ Replied(n, "REFUSED") \/ Replied(n, "OK")
    BY <1>14 DEF ServeMe
  <2> QED BY <1>9, <2>1
<1>15. ASSUME NEW u \in Staff, EndSessions(u) PROVE SessionsInv'
  <2>1. /\ granted' = AllSwept(granted, u) /\ UNCHANGED <<jar, tab, traffic, alarmed, signedOut>>
        /\ barred' \subseteq Staff /\ toChange' \subseteq Staff
    BY <1>typed, <1>15 DEF EndSessions
  <2>2. TokensInOrder(granted', traffic, jar, signedOut)
    BY <1>inv, <2>1, SweepingKeepsOrder
  <2> QED BY <1>inv, <1>typed, <1>so, <1>same, <2>1, <2>2
<1>16. ASSUME NEW n \in RequestNo, ArriveRefreshed(n) PROVE SessionsInv'
  <2> DEFINE t == traffic[n].tab
             u == granted[n].user
             page == [Settled(tab[t]) EXCEPT !.access = u]
  <2>1. /\ Arriving(n, "REFRESH") /\ traffic[n].answer = "OK"
        /\ tab' = [tab EXCEPT ![t] = page] /\ Kept(n)
        /\ IF "INITIALIZE" \in tab[t].waiting
           THEN Unsent # {} /\ traffic' = Sent(Arrived(n), t, "ME", n, u)
           ELSE traffic' = Arrived(n)
        /\ UNCHANGED <<toChange, barred, alarmed, signedOut>>
    BY <1>16 DEF ArriveRefreshed
  <2>2. \A s \in Tab : s # t => tab'[s] = tab[s]
    BY <1>typed, <2>1
  <2>3. /\ traffic[n] # None /\ traffic[n].state = "ANSWERED" /\ traffic[n].kind = "REFRESH"
        /\ t \in Tab /\ tab[t] \in Page /\ OnePerPage(Arrived(n), tab')
        /\ Arrived(n) = [traffic EXCEPT ![n] = Over("ARRIVED")]
    BY <2>1, <2>2, ArrivedPages
  <2>4. granted[n] # None /\ n \in Cookie /\ granted[n] \in Grant
    BY <1>inv, <1>typed, <2>1, <2>3, NamesApart DEF TokensInOrder, TokensOfAnswers
  <2>5. u \in Staff
    BY <2>4 DEF Grant
  <2>6. page \in Page
    BY <2>3, <2>5, PageFacts
  <2> HIDE DEF page, u
  <2>7. tab' \in [Tab -> Page]
    BY <1>typed, <2>1, <2>6
  <2>8. TokensInOrder(granted', Arrived(n), n, signedOut)
    <3>1. traffic[n].answer = "OK" /\ granted' = [granted EXCEPT ![n].held = TRUE]
      BY <2>1 DEF Kept
    <3>2. traffic[n].kind \in {"REFRESH", "SIGN_IN", "CHANGE_PASSWORD"}
      BY <2>3
    <3>3. TokensInOrder([granted EXCEPT ![n].held = TRUE], [traffic EXCEPT ![n] = Over("ARRIVED")], n, signedOut)
      BY <1>inv, <2>3, <3>1, <3>2, KeepingKeepsOrder
    <3> QED BY <2>3, <3>1, <3>3
  <2>9. TokensInOrder(granted', traffic', n, signedOut) /\ OnePerPage(traffic', tab')
    <3>1. CASE "INITIALIZE" \in tab[t].waiting
      <4>1. Unsent # {} /\ traffic' = Sent(Arrived(n), t, "ME", n, u)
        BY <2>1, <3>1
      <4>2. NextRequest \in RequestNo /\ NextRequest # n /\ Arrived(n)[NextRequest] = None
        BY <1>typed, <1>next, <2>3, <4>1
      <4>3. ~NewRequest(t, "ME", n, u).stale
        BY DEF NewRequest
      <4>4. "ME" \in CookieKind \union {"ME"} /\ n \in {n, NoValue} /\ u \in Staff \union {NoValue}
            /\ "ME" \notin {"SIGN_IN", "SIGN_OUT", "REFRESH"}
        BY <2>5
      <4> HIDE DEF t
      <4>5. /\ TokensInOrder(granted', Sent(Arrived(n), t, "ME", n, u), n, signedOut)
            /\ OnePerPage(Sent(Arrived(n), t, "ME", n, u), tab')
        BY <2>3, <2>8, <4>1, <4>2, <4>3, <4>4, SentInOrder
      <4> QED BY <4>1, <4>5
    <3>2. CASE "INITIALIZE" \notin tab[t].waiting
      BY <2>1, <2>3, <2>8, <3>2
    <3> QED BY <3>1, <3>2
  <2>10. jar' = n
    BY <2>1 DEF Kept
  <2> QED BY <1>typed, <1>so, <1>same, <2>1, <2>7, <2>9, <2>10
\* Answers that bring no token
<1>17. ASSUME NEW n \in RequestNo, NEW kind, Arriving(n, kind),
              kind \in {"REFRESH", "SIGN_OUT"} => traffic[n].answer # "OK",
              NEW page \in Page, tab' = [tab EXCEPT ![traffic[n].tab] = page],
              kind = "REFRESH" \/ page.refreshing = tab[traffic[n].tab].refreshing,
              traffic' = Arrived(n),
              UNCHANGED <<granted, jar, toChange, barred, alarmed, signedOut>>
       PROVE  SessionsInv'
  <2>1. traffic[n].tab \in Tab
    BY <1>inv, <1>17 DEF TokensInOrder, MessagesFormed, Arriving
  <2>2. /\ tab' \in [Tab -> Page] /\ tab'[traffic[n].tab] = page
        /\ \A s \in Tab : s # traffic[n].tab => tab'[s] = tab[s]
    BY <1>typed, <1>17, <2>1
  <2>3. /\ traffic[n] # None /\ traffic[n].state = "ANSWERED" /\ traffic[n].kind = kind
        /\ OnePerPage(Arrived(n), tab')
        /\ Arrived(n) = [traffic EXCEPT ![n] = Over("ARRIVED")]
    BY <1>17, <2>2, ArrivedPages
  <2>4. TokensInOrder(granted, traffic', jar, signedOut)
    <3>1. traffic[n].kind \in {"REFRESH", "SIGN_OUT"} => traffic[n].answer # "OK"
      BY <1>17, <2>3
    <3>2. TokensInOrder(granted, [traffic EXCEPT ![n] = Over("ARRIVED")], jar, signedOut)
      BY <1>inv, <2>3, <3>1, ArrivingKeepsOrder
    <3> QED BY <1>17, <2>3, <3>2
  <2> QED BY <1>typed, <1>so, <1>same, <1>17, <2>2, <2>3, <2>4
<1>pages. \A n \in RequestNo : \A kind :
            Arriving(n, kind) \/ (traffic[n] # None /\ traffic[n].state \in {"SENT", "ANSWERED"}) =>
              /\ traffic[n].tab \in Tab /\ tab[traffic[n].tab] \in Page
              /\ traffic[n].user \in Staff \union {NoValue}
  <2> SUFFICES ASSUME NEW n \in RequestNo, traffic[n] # None, traffic[n].state \in {"SENT", "ANSWERED"}
               PROVE  traffic[n].tab \in Tab /\ tab[traffic[n].tab] \in Page
                      /\ traffic[n].user \in Staff \union {NoValue}
    BY DEF Arriving
  <2>1. traffic[n].tab \in Tab
    BY <1>inv DEF TokensInOrder, MessagesFormed
  <2> QED BY <1>typed, <2>1 DEF Message
<1>18. ASSUME NEW n \in RequestNo, ArriveNotRefreshed(n) PROVE SessionsInv'
  <2>1. /\ Arriving(n, "REFRESH") /\ traffic[n].answer = "REFUSED"
        /\ tab' = [tab EXCEPT ![traffic[n].tab] = Unauthenticated(Settled(tab[traffic[n].tab]))]
        /\ traffic' = Arrived(n) /\ UNCHANGED <<granted, jar, toChange, barred, alarmed, signedOut>>
    BY <1>18 DEF ArriveNotRefreshed
  <2>2. Unauthenticated(Settled(tab[traffic[n].tab])) \in Page
    BY <1>pages, <2>1, PageFacts
  <2> QED BY <1>17, <2>1, <2>2
<1>19. ASSUME NEW n \in RequestNo, ArriveMe(n) PROVE SessionsInv'
  <2> DEFINE p == tab[traffic[n].tab]
             u == traffic[n].user
             page == IF traffic[n].answer = "OK" THEN Authenticated(p, u, u) ELSE Unauthenticated(p)
  <2>1. /\ Arriving(n, "ME") /\ tab' = [tab EXCEPT ![traffic[n].tab] = page]
        /\ traffic' = Arrived(n) /\ UNCHANGED <<granted, jar, toChange, barred, alarmed, signedOut>>
    BY <1>19 DEF ArriveMe
  <2>2. p \in Page /\ u \in Staff \union {NoValue}
    BY <1>pages, <2>1
  <2>3. page \in Page /\ page.refreshing = p.refreshing
    BY <2>2, PageFacts
  <2> HIDE DEF page
  <2> QED BY <1>17, <2>1, <2>3
<1>20. ASSUME NEW n \in RequestNo, ArriveSession(n) PROVE SessionsInv'
  <2> DEFINE t == traffic[n].tab
             u == traffic[n].user
  <2>0. PICK kind \in {"SIGN_IN", "CHANGE_PASSWORD"} : Arriving(n, kind)
    BY <1>20 DEF ArriveSession
  <2>1. /\ \/ /\ traffic[n].answer = "OK"
              /\ tab' = [tab EXCEPT ![t] = Authenticated(tab[t], u, u)] /\ Kept(n)
           \/ /\ traffic[n].answer = "CHANGE"
              /\ tab' = [tab EXCEPT ![t] = ChangeRequired(tab[t], u)] /\ UNCHANGED <<granted, jar>>
           \/ traffic[n].answer = "REFUSED" /\ UNCHANGED <<tab, granted, jar>>
        /\ traffic' = Arrived(n) /\ UNCHANGED <<toChange, barred, alarmed, signedOut>>
    BY <1>20 DEF ArriveSession
  <2>2. t \in Tab /\ tab[t] \in Page /\ u \in Staff \union {NoValue}
    BY <1>pages, <2>0
  <2>3. /\ Authenticated(tab[t], u, u) \in Page
        /\ Authenticated(tab[t], u, u).refreshing = tab[t].refreshing
        /\ ChangeRequired(tab[t], u) \in Page
        /\ ChangeRequired(tab[t], u).refreshing = tab[t].refreshing
    BY <2>2, PageFacts
  <2>4. CASE traffic[n].answer = "OK" /\ tab' = [tab EXCEPT ![t] = Authenticated(tab[t], u, u)] /\ Kept(n)
    <3>1. /\ tab' \in [Tab -> Page] /\ tab'[t].refreshing = tab[t].refreshing
          /\ \A s \in Tab : s # t => tab'[s] = tab[s]
      BY <1>typed, <2>2, <2>3, <2>4
    <3>2. /\ traffic[n] # None /\ traffic[n].state = "ANSWERED" /\ traffic[n].kind = kind
          /\ OnePerPage(Arrived(n), tab')
          /\ Arrived(n) = [traffic EXCEPT ![n] = Over("ARRIVED")]
      BY <2>0, <3>1, ArrivedPages
    <3>3. TokensInOrder(granted', traffic', n, signedOut) /\ jar' = n
      <4>1. /\ traffic[n].answer = "OK" /\ traffic' = Arrived(n)
            /\ granted' = [granted EXCEPT ![n].held = TRUE] /\ jar' = n
        BY <2>1, <2>4 DEF Kept
      <4>2. traffic[n].kind \in {"REFRESH", "SIGN_IN", "CHANGE_PASSWORD"}
        BY <2>0, <3>2
      <4>3. TokensInOrder([granted EXCEPT ![n].held = TRUE], [traffic EXCEPT ![n] = Over("ARRIVED")], n, signedOut)
        BY <1>inv, <3>2, <4>1, <4>2, KeepingKeepsOrder
      <4> QED BY <3>2, <4>1, <4>3
    <3> QED BY <1>typed, <1>so, <1>same, <2>1, <3>1, <3>2, <3>3
  <2>5. CASE /\ traffic[n].answer = "CHANGE"
             /\ tab' = [tab EXCEPT ![t] = ChangeRequired(tab[t], u)] /\ UNCHANGED <<granted, jar>>
    BY <1>17, <2>0, <2>1, <2>3, <2>5
  <2>6. CASE traffic[n].answer = "REFUSED" /\ UNCHANGED <<tab, granted, jar>>
    <3>1. tab' = [tab EXCEPT ![t] = tab[t]]
      BY <1>typed, <2>2, <2>6
    <3> QED BY <1>17, <2>0, <2>1, <2>2, <2>6, <3>1
  <2> QED BY <2>1, <2>4, <2>5, <2>6
<1>21. ASSUME NEW n \in RequestNo, ArriveSignedOut(n) PROVE SessionsInv'
  <2> DEFINE t == traffic[n].tab
  <2>1. /\ Arriving(n, "SIGN_OUT") /\ jar' = NoValue
        /\ signedOut' = IF traffic[n].alone /\ traffic[n].cookie # NoValue
                        THEN signedOut \union {granted[traffic[n].cookie].root} ELSE signedOut
        /\ Initialized(t, Arrived(n), NoValue)
        /\ UNCHANGED <<granted, toChange, barred, alarmed>>
    BY <1>21 DEF ArriveSignedOut
  <2>2. /\ traffic[n] # None /\ traffic[n].state = "ANSWERED" /\ traffic[n].kind = "SIGN_OUT"
        /\ t \in Tab /\ OnePerPage(Arrived(n), tab)
        /\ Arrived(n) = [traffic EXCEPT ![n] = Over("ARRIVED")]
    BY <2>1, ArrivedPages
  <2>3. TokensInOrder(granted, Arrived(n), NoValue, signedOut')
    <3>1. signedOut' = IF traffic[n].alone /\ traffic[n].cookie # NoValue
                       THEN signedOut \union {granted[traffic[n].cookie].root} ELSE signedOut
      BY <2>1
    <3>2. TokensInOrder(granted, [traffic EXCEPT ![n] = Over("ARRIVED")], NoValue, signedOut')
      BY <1>inv, <2>2, <3>1, SignedOutKeepsOrder
    <3> QED BY <2>2, <3>2
  <2>4. Unsent # {} => Arrived(n)[NextRequest] = None
    BY <1>typed, <1>next, <2>2
  <2>5. ~NewRequest(t, "REFRESH", NoValue, NoValue).stale
    BY DEF NewRequest
  <2> HIDE DEF t
  <2>6. /\ TokensInOrder(granted, traffic', NoValue, signedOut') /\ OnePerPage(traffic', tab')
        /\ tab' \in [Tab -> Page]
    <3>1. NoValue \in {NoValue, NoValue}
      OBVIOUS
    <3> QED BY <1>inv, <2>1, <2>2, <2>3, <2>4, <2>5, <3>1, InitializedInOrder
  <2> QED BY <1>typed, <1>so, <1>same, <2>1, <2>6
<1>22. ASSUME NEW n \in RequestNo, Fail(n) PROVE SessionsInv'
  <2> DEFINE t == traffic[n].tab
             y == IF traffic[n].state = "SENT" THEN [traffic[n] EXCEPT !.state = "LEFT"] ELSE Over("LOST")
             gone == [traffic EXCEPT ![n] = y]
  <2>1. /\ n \in InState({"SENT", "ANSWERED"})
        /\ \/ /\ traffic[n].kind = "REFRESH"
              /\ tab' = [tab EXCEPT ![t] = IF "RETRY" \in tab[t].waiting
                                           THEN Unauthenticated(Settled(tab[t]))
                                           ELSE BootstrapError(Settled(tab[t]))]
              /\ traffic' = gone
           \/ /\ traffic[n].kind = "ME"
              /\ tab' = [tab EXCEPT ![t] = BootstrapError(tab[t])]
              /\ traffic' = gone
           \/ traffic[n].kind = "SIGN_OUT" /\ Initialized(t, gone, jar)
           \/ traffic[n].kind \in {"SIGN_IN", "CHANGE_PASSWORD"} /\ traffic' = gone /\ UNCHANGED tab
        /\ UNCHANGED <<granted, jar, toChange, barred, alarmed, signedOut>>
    BY <1>22 DEF Fail
  <2>2. traffic[n] # None /\ traffic[n].state \in {"SENT", "ANSWERED"} /\ traffic[n] \in Message
    BY <1>typed, <2>1 DEF InState
  <2>3. t \in Tab /\ tab[t] \in Page
    BY <1>pages, <2>2
  <2>4. y \in Message /\ y # None /\ Fades(traffic[n], y) /\ y.state \notin {"SENT", "ANSWERED"}
    <3>1. CASE traffic[n].state = "SENT"
      <4>1. y = [traffic[n] EXCEPT !.state = "LEFT"]
        BY <3>1
      <4>2. y \in Message
        BY <2>2, <4>1 DEF Message
      <4>3. /\ y.kind = traffic[n].kind /\ y.tab = traffic[n].tab
            /\ y.cookie = traffic[n].cookie /\ y.user = traffic[n].user
            /\ y.answer = traffic[n].answer /\ y.stale = traffic[n].stale
            /\ y.alone = traffic[n].alone /\ y.state = "LEFT"
        BY <2>2, <4>1 DEF Message
      <4> HIDE DEF y
      <4> QED BY <2>2, <3>1, <4>2, <4>3, NamesApart DEF Fades
    <3>2. CASE traffic[n].state = "ANSWERED"
      BY <2>2, <3>2, OverIsMessage DEF Fades
    <3> QED BY <2>2, <3>1, <3>2
  <2> HIDE DEF y
  <2>5. /\ gone \in [RequestNo -> Message \union {None}] /\ gone[n] = y
        /\ \A m \in RequestNo : m # n => gone[m] = traffic[m]
    BY <1>typed, <2>4
  <2> HIDE DEF gone
  <2>6. TokensInOrder(granted, gone, jar, signedOut)
    <3>1. \A m \in RequestNo : Fades(traffic[m], gone[m])
      BY <2>4, <2>5 DEF Fades
    <3> QED BY <1>inv, <2>5, <3>1, FadingKeepsOrder
  <2>7. \A m \in RequestNo : Refreshes(gone, m) => m # n /\ Refreshes(traffic, m) /\ gone[m] = traffic[m]
    BY <2>4, <2>5 DEF Refreshes, UnderWay
  <2>8. ASSUME tab' \in [Tab -> Page], \A s \in Tab : s # t => tab'[s] = tab[s], traffic' = gone,
               traffic[n].kind = "REFRESH" \/ tab'[t].refreshing = tab[t].refreshing
        PROVE  SessionsInv'
    <3>1. OnePerPage(gone, tab')
      <4> SUFFICES ASSUME NEW m \in RequestNo, Refreshes(gone, m)
                   PROVE  tab'[gone[m].tab].refreshing = m
        BY DEF OnePerPage
      <4>1. /\ m # n /\ Refreshes(traffic, m) /\ gone[m] = traffic[m]
            /\ tab[traffic[m].tab].refreshing = m /\ traffic[m].tab \in Tab
        BY <1>inv, <2>7 DEF OnePerPage, TokensInOrder, MessagesFormed, Refreshes, UnderWay
      <4>2. traffic[n].kind = "REFRESH" => tab[t].refreshing = n
        BY <1>inv, <2>2 DEF OnePerPage, Refreshes, UnderWay
      <4> QED BY <2>8, <4>1, <4>2
    <3> QED BY <1>typed, <1>so, <1>same, <2>1, <2>6, <2>8, <3>1
  <2>9. CASE /\ traffic[n].kind = "REFRESH"
             /\ tab' = [tab EXCEPT ![t] = IF "RETRY" \in tab[t].waiting
                                          THEN Unauthenticated(Settled(tab[t]))
                                          ELSE BootstrapError(Settled(tab[t]))]
             /\ traffic' = gone
    <3>1. Unauthenticated(Settled(tab[t])) \in Page /\ BootstrapError(Settled(tab[t])) \in Page
      BY <2>3, PageFacts
    <3>2. tab' \in [Tab -> Page] /\ \A s \in Tab : s # t => tab'[s] = tab[s]
      BY <1>typed, <2>3, <2>9, <3>1
    <3> QED BY <2>8, <2>9, <3>2
  <2>10. CASE /\ traffic[n].kind = "ME" /\ traffic' = gone
              /\ tab' = [tab EXCEPT ![t] = BootstrapError(tab[t])]
    <3>1. BootstrapError(tab[t]) \in Page /\ BootstrapError(tab[t]).refreshing = tab[t].refreshing
      BY <2>3, PageFacts
    <3>2. /\ tab' \in [Tab -> Page] /\ \A s \in Tab : s # t => tab'[s] = tab[s]
          /\ tab'[t].refreshing = tab[t].refreshing
      BY <1>typed, <2>3, <2>10, <3>1
    <3> QED BY <2>8, <2>10, <3>2
  <2>11. CASE traffic[n].kind = "SIGN_OUT" /\ Initialized(t, gone, jar)
    <3>1. OnePerPage(gone, tab)
      BY <1>inv, <2>7 DEF OnePerPage
    <3>2. ~NewRequest(t, "REFRESH", jar, NoValue).stale
      BY NothingStale
    <3>3. Unsent # {} => gone[NextRequest] = None
      BY <1>next, <2>2, <2>5
    <3>4. /\ TokensInOrder(granted, traffic', jar, signedOut) /\ OnePerPage(traffic', tab')
          /\ tab' \in [Tab -> Page]
      <4>1. jar \in {jar, NoValue}
        OBVIOUS
      <4> QED BY <1>inv, <2>3, <2>6, <2>11, <3>1, <3>2, <3>3, <4>1, InitializedInOrder
    <3> QED BY <1>typed, <1>so, <1>same, <2>1, <3>4
  <2>12. CASE traffic[n].kind \in {"SIGN_IN", "CHANGE_PASSWORD"} /\ traffic' = gone /\ UNCHANGED tab
    BY <1>typed, <2>8, <2>12
  <2> QED BY <2>1, <2>9, <2>10, <2>11, <2>12
<1>23. CASE UNCHANGED sessionVars
  <2>1. UNCHANGED <<granted, jar, tab, traffic, toChange, barred, alarmed, signedOut>>
    BY <1>23 DEF sessionVars
  <2> QED BY <1>inv, <1>typed, <1>so, <1>same, <2>1
<1> QED
  BY <1>1, <1>3, <1>4, <1>5, <1>6, <1>7, <1>8, <1>11, <1>12, <1>13, <1>14, <1>15, <1>16, <1>18,
     <1>19, <1>20, <1>21, <1>22, <1>23 DEF SessionsNext

LEMMA SessionsInvariant == SessionsSpec => []SessionsInv
BY SessionsStart, SessionsStep, PTL DEF SessionsSpec

\* However tabs, refreshes and sign-outs interleave, a refresh is never taken for
\* a stolen token because of an answer that had arrived, or of the same page.
THEOREM OwnTrafficTolerated == SessionsSpec => []OwnTrafficIsNoTheft
<1>1. SessionsInv => OwnTrafficIsNoTheft
  BY DEF SessionsInv
<1> QED
  BY <1>1, SessionsInvariant, PTL

\* A session signed out while no refresh was under way stays over: logout revokes
\* the one token the browser held of it, and nothing brings another.
THEOREM SignedOutStaysOut == SessionsSpec => []SignedOutSessionsEnd
<1>1. SessionsInv => SignedOutSessionsEnd
  BY DEF SessionsInv, SessionsTypeOK, TokensInOrder, Ended, SignedOutSessionsEnd
<1> QED
  BY <1>1, SessionsInvariant, PTL

===============================================================================
