------------------------------- MODULE MCDelivery -------------------------------
(***************************************************************************)
(* What people get to see: a small instance of the notifications, one of    *)
(* the seat map in a browser and one of the lists and pages of the staff.   *)
(* A behaviour is one of one of them while the others rest.                 *)
(***************************************************************************)
EXTENDS Notifications, SeatMap, Scopes, TLC

CONSTANTS m1, w1, w2, s1, u1, u2, e1, e2, t1, t2, x, y, z, j1, j2, b1, b2

VARIABLE part

deliveryVars == <<part, vars, seatMapVars, scopeVars>>

\* No job starts while the lock is held.
NotificationsRest ==
  /\ lock = w1
  /\ status = [m \in Messages |-> "NONE"]
  /\ attemptCount = [m \in Messages |-> 0]
  /\ maxAttempts = [m \in Messages |-> MaxAttempts]
  /\ owner = [m \in Messages |-> Null]
  /\ phase = [w \in Workers |-> "IDLE"]
  /\ sends = [m \in Messages |-> 0]
  /\ due = {} /\ silent = {} /\ tickets = {} /\ sending = {}
  /\ reopened = {} /\ lockLost = {}

\* An administrator and a member of staff; a journey through three stations and
\* one of another train through the last two.
MCFirstRole == (u1 :> "ADMIN") @@ (u2 :> "STAFF")
MCFirstTrain == (j1 :> t1) @@ (j2 :> t2)
MCStationsOf == (j1 :> <<x, y, z>>) @@ (j2 :> <<y, z>>)
MCRide == (b1 :> [journey |-> j1, from |-> 1, to |-> 3])
            @@ (b2 :> [journey |-> j2, from |-> 1, to |-> 2])

\* One train is assigned, one station was, and somebody has paid already; the
\* other journey may have been given to the train that is assigned.
MCScopesInit ==
  /\ roleOf = FirstRole /\ trainOf \in {FirstTrain, [FirstTrain EXCEPT ![j2] = t1]}
  /\ rows = [pair \in Official \X Target |->
       CASE pair = <<u1, t1>> -> <<TRUE>> [] pair = <<u2, y>> -> <<FALSE>> [] OTHER -> <<>>]
  /\ adminJourneys = {<<u1, j1>>}
  /\ soldAs = (b1 :> "CONFIRMED") @@ (b2 :> "NONE")
  /\ edits = [e \in Screen |-> None]
  /\ asked = 0

MCInit ==
  /\ \/ part = "notifications" /\ Init
     \/ part \in {"seat map", "scopes"} /\ NotificationsRest
  /\ SeatMapInit
  /\ IF part = "scopes" THEN MCScopesInit ELSE ScopesInit

MCNext ==
  /\ part' = part
  /\ \/ part = "notifications" /\ Next /\ UNCHANGED <<seatMapVars, scopeVars>>
     \/ part = "seat map" /\ SeatMapNext /\ UNCHANGED <<vars, scopeVars>>
     \/ part = "scopes" /\ ScopesNext /\ UNCHANGED <<vars, seatMapVars>>

\* What a resting part asks of fairness is never enabled.
MCSpec == MCInit /\ [][MCNext]_deliveryVars /\ JobFairness /\ SeatMapFairness
===============================================================================
