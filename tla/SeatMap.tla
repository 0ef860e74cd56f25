--------------------------------- MODULE SeatMap ---------------------------------
(***************************************************************************)
(* The seat map of a journey as browsers see it: subscriptions over a       *)
(* socket, snapshots, the events after a change, and the query that the     *)
(* page fetches again.  Translated from modules/seatmap/seatmap.socket.js,  *)
(* seatmap.publisher.js, seatmap.service.js, realtime/socket-context.js and *)
(* the page's hooks/useSeatMap.ts.                                          *)
(*                                                                          *)
(* There is one segment, so one room, and a map is the number of changes it *)
(* shows.  A message of a page begins a handler, in the order of sending;   *)
(* handlers await the database and overlap.  socket.join and leave act at   *)
(* once, and their awaits only give way to what is ready in the same turn:  *)
(* replies that came together, or messages that came together.  Nobody      *)
(* compares the versions in events and snapshots; they are left out.  The   *)
(* page never asks for a resync or a ping.                                  *)
(***************************************************************************)
EXTENDS Rows, Naturals, Sequences, FiniteSets

CONSTANTS
  Socket,      \* browsers, each with one page and one connection
  MaxMessages, \* bound: messages of the pages
  MaxChanges   \* bound: changes of the seats of the segment

Message == 1 .. MaxMessages
Change == 1 .. MaxChanges
Map == 0 .. MaxChanges

ASSUME SeatMapAssumption == MaxMessages \in Nat /\ MaxChanges \in Nat

VARIABLES
  changes,     \* changes committed
  publishing,  \* how far the publisher is with each change
  registry,    \* SocketContext.rooms: the subscriberCount of the room
  online,      \* sockets connected
  joined,      \* sockets in the room
  subscribed,  \* socket.data.seatMapRooms has the room
  listed,      \* socket.data.seatMapSubscriptions has it
  handlers,    \* messages under way and their handlers
  sentMessages,\* how many messages the pages have sent
  wire,        \* what is on its way to a browser, in order
  mounted,     \* browsers whose page is open
  shown,       \* the data of the query
  fetching,    \* the request of the query: NoValue before the rows are read
  promised     \* the last change announced to a page that was ready for it

pageVars == <<mounted, shown, fetching>>
roomVars == <<registry, joined, subscribed, listed>>
seatMapVars == <<changes, publishing, roomVars, online, handlers, sentMessages, wire,
                 pageVars, promised>>

SeatMapTypeOK ==
  /\ changes \in Map /\ registry \in 0 .. MaxMessages
  /\ publishing \in [Change -> {"IDLE", "COMMITTED", "REGISTERED", "UNREGISTERED"}]
  /\ online \subseteq Socket /\ joined \subseteq online
  /\ subscribed \subseteq online /\ listed \subseteq online /\ mounted \subseteq Socket
  /\ \A m \in Message : handlers[m] # None =>
       /\ handlers[m].op \in {"SUBSCRIBE", "UNSUBSCRIBE"}
       /\ handlers[m].stage \in {"SENT", "READING", "READ", "JOINED", "LEAVING"}
       /\ handlers[m].socket \in Socket /\ handlers[m].live \in BOOLEAN
       /\ handlers[m].snapshot \in Map \union {NoValue}
  /\ sentMessages \in 0 .. MaxMessages
  /\ \A s \in Socket : \A i \in DOMAIN wire[s] : wire[s][i] \in Map \union {NoValue}
  /\ shown \in [Socket -> Map \union {NoValue}]
  /\ fetching \in [Socket -> Map \union {NoValue, None}]
  /\ promised \in [Socket -> Map]

SeatMapInit ==
  /\ changes = 0 /\ publishing = [n \in Change |-> "IDLE"]
  /\ registry = 0 /\ online = {} /\ joined = {} /\ subscribed = {} /\ listed = {}
  /\ handlers = [m \in Message |-> None] /\ sentMessages = 0
  /\ wire = [s \in Socket |-> <<>>]
  /\ mounted = {} /\ shown = [s \in Socket |-> NoValue]
  /\ fetching = [s \in Socket |-> None]
  /\ promised = [s \in Socket |-> 0]

-------------------------------------------------------------------------------
(* Pages and connections                                                     *)

\* socket.emit of a page; what is sent by a socket that is not connected waits
\* and finds nothing to do on the new connection.
Send(s, op) ==
  IF s \in online
  THEN /\ sentMessages < MaxMessages /\ sentMessages' = sentMessages + 1
       /\ handlers' = [handlers EXCEPT ![sentMessages + 1] =
            [op |-> op, socket |-> s, stage |-> "SENT", snapshot |-> NoValue, live |-> TRUE]]
  ELSE UNCHANGED <<handlers, sentMessages>>

\* The effect of useSeatMap and its query: data that is fresh is not fetched.
OpenPage(s) ==
  /\ s \notin mounted
  /\ mounted' = mounted \union {s}
  /\ Send(s, "SUBSCRIBE")
  /\ \/ fetching[s] = None /\ fetching' = [fetching EXCEPT ![s] = NoValue]
     \/ (shown[s] # NoValue \/ fetching[s] # None) /\ UNCHANGED fetching
  /\ UNCHANGED <<changes, publishing, roomVars, online, wire, shown, promised>>

\* The clean-up of the effect: the payload names no room, so all are left.
ClosePage(s) ==
  /\ s \in mounted
  /\ mounted' = mounted \ {s}
  /\ Send(s, "UNSUBSCRIBE")
  /\ promised' = [promised EXCEPT ![s] = 0]
  /\ UNCHANGED <<changes, publishing, roomVars, online, wire, shown, fetching>>

\* io.on('connection') and the page's 'connect'
Connect(s) ==
  /\ s \in mounted \ online
  /\ online' = online \union {s}
  /\ sentMessages < MaxMessages /\ sentMessages' = sentMessages + 1
  /\ handlers' = [handlers EXCEPT ![sentMessages + 1] =
       [op |-> "SUBSCRIBE", socket |-> s, stage |-> "SENT", snapshot |-> NoValue,
        live |-> TRUE]]
  /\ UNCHANGED <<changes, publishing, roomVars, wire, pageVars, promised>>

\* A turn of the event loop is over when no handler waits for a join or a leave.
Suspended(stages) == \E m \in Message : handlers[m] # None /\ handlers[m].stage \in stages

\* SocketContext.remove
Removed == IF registry > 0 THEN registry - 1 ELSE 0

\* handleDisconnect; handlers under way go on with the socket that is gone.
Disconnect(s) ==
  /\ s \in online /\ ~Suspended({"JOINED", "LEAVING"})
  /\ online' = online \ {s} /\ joined' = joined \ {s}
  /\ subscribed' = subscribed \ {s} /\ listed' = listed \ {s}
  /\ registry' = IF s \in subscribed THEN Removed ELSE registry
  /\ handlers' = [m \in Message |->
       IF handlers[m] = None \/ handlers[m].socket # s THEN handlers[m]
       ELSE IF handlers[m].stage = "SENT" THEN None
       ELSE [handlers[m] EXCEPT !.live = FALSE]]
  /\ wire' = [wire EXCEPT ![s] = <<>>]
  /\ promised' = [promised EXCEPT ![s] = 0]
  /\ UNCHANGED <<changes, publishing, sentMessages, pageVars>>

-------------------------------------------------------------------------------
(* The handlers of the server                                                *)

At(m, stage) == handlers[m] # None /\ handlers[m].stage = stage
Moved(m, stage) == [handlers EXCEPT ![m].stage = stage]
Ended(m) == [handlers EXCEPT ![m] = None]

Posted(s, value) == [wire EXCEPT ![s] = Append(@, value)]

\* Messages of a socket arrive in order.
StartHandler(m) ==
  /\ At(m, "SENT") /\ ~Suspended({"JOINED"})
  /\ \A k \in Message : k < m /\ At(k, "SENT") => handlers[k].socket # handlers[m].socket
  /\ LET s == handlers[m].socket IN
       IF handlers[m].op = "SUBSCRIBE"
       THEN handlers' = Moved(m, "READING") /\ UNCHANGED roomVars
       ELSE /\ IF s \in subscribed
               THEN /\ joined' = joined \ {s} /\ handlers' = Moved(m, "LEAVING")
                    /\ UNCHANGED listed
               ELSE /\ listed' = listed \ {s} /\ handlers' = Ended(m)
                    /\ UNCHANGED joined
            /\ UNCHANGED <<registry, subscribed>>
  /\ UNCHANGED <<changes, publishing, online, sentMessages, wire, pageVars, promised>>

\* getSeatMapSnapshot
ReadSnapshot(m) ==
  /\ At(m, "READING")
  /\ handlers' = [handlers EXCEPT ![m].stage = "READ", ![m].snapshot = changes]
  /\ UNCHANGED <<changes, publishing, roomVars, online, sentMessages, wire, pageVars,
                 promised>>

\* The rate limit of #consume, or a query that fails: an error event.
FailHandler(m) ==
  /\ At(m, "SENT") \/ At(m, "READING")
  /\ handlers' = Ended(m)
  /\ UNCHANGED <<changes, publishing, roomVars, online, sentMessages, wire, pageVars,
                 promised>>

\* handleSubscribe with the snapshot: a room it has is not joined again.
JoinRoom(m) ==
  /\ At(m, "READ") /\ ~Suspended({"LEAVING"})
  /\ LET s == handlers[m].socket IN
       IF handlers[m].live /\ s \in subscribed
       THEN /\ wire' = Posted(s, handlers[m].snapshot) /\ handlers' = Ended(m)
            /\ UNCHANGED joined
       ELSE /\ joined' = IF handlers[m].live THEN joined \union {s} ELSE joined
            /\ handlers' = Moved(m, "JOINED")
            /\ UNCHANGED wire
  /\ UNCHANGED <<changes, publishing, registry, online, subscribed, listed, sentMessages,
                 pageVars, promised>>

\* Its end: the registry counts the room also for a socket that is gone.
EndSubscribe(m) ==
  /\ At(m, "JOINED")
  /\ registry' = registry + 1
  /\ handlers' = Ended(m)
  /\ LET s == handlers[m].socket IN
       IF handlers[m].live
       THEN /\ subscribed' = subscribed \union {s} /\ listed' = listed \union {s}
            /\ wire' = Posted(s, handlers[m].snapshot)
       ELSE UNCHANGED <<subscribed, listed, wire>>
  /\ UNCHANGED <<changes, publishing, online, joined, sentMessages, pageVars, promised>>

\* handleUnsubscribe after leave
EndUnsubscribe(m) ==
  /\ At(m, "LEAVING")
  /\ registry' = Removed
  /\ handlers' = Ended(m)
  /\ subscribed' = subscribed \ {handlers[m].socket}
  /\ listed' = listed \ {handlers[m].socket}
  /\ UNCHANGED <<changes, publishing, online, joined, sentMessages, wire, pageVars,
                 promised>>

-------------------------------------------------------------------------------
(* Changes and events                                                        *)

\* A transaction that changes seats of the segment commits.
CommitChange ==
  /\ changes < MaxChanges
  /\ changes' = changes + 1
  /\ publishing' = [publishing EXCEPT ![changes + 1] = "COMMITTED"]
  /\ UNCHANGED <<roomVars, online, handlers, sentMessages, wire, pageVars, promised>>

\* publish, after incrementVersion: the rooms of the registry ...
ReadRegistry(n) ==
  /\ publishing[n] = "COMMITTED"
  /\ publishing' = [publishing EXCEPT ![n] =
       IF registry > 0 THEN "REGISTERED" ELSE "UNREGISTERED"]
  /\ UNCHANGED <<changes, roomVars, online, handlers, sentMessages, wire, pageVars, promised>>

\* The change of a job is not published, for the worker's process has no
\* publisher; and a publisher that fails is not waited for.
LosePublication(n) ==
  /\ publishing[n] # "IDLE"
  /\ publishing' = [publishing EXCEPT ![n] = "IDLE"]
  /\ UNCHANGED <<changes, roomVars, online, handlers, sentMessages, wire, pageVars, promised>>

\* ... and the rooms that sockets of the journey say they are in.
RoomFound(registered) == registered \/ listed # {}

\* The page will hear of what comes next: no message of it is under way, and it
\* has a map or is about to get one.
Ready(s) ==
  /\ s \in mounted
  /\ \A m \in Message : handlers[m] # None => handlers[m].socket # s \/ ~handlers[m].live
  /\ shown[s] # NoValue \/ \E i \in DOMAIN wire[s] : wire[s][i] # NoValue

\* emit to the rooms, whatever kind of change is published: the browser reads
\* nothing of an event.
EmitChange(n) ==
  /\ publishing[n] \in {"REGISTERED", "UNREGISTERED"}
  /\ publishing' = [publishing EXCEPT ![n] = "IDLE"]
  /\ LET reached == IF RoomFound(publishing[n] = "REGISTERED") THEN joined ELSE {} IN
       /\ wire' = [s \in Socket |-> IF s \in reached THEN Append(wire[s], NoValue) ELSE wire[s]]
       /\ promised' = [s \in Socket |->
            IF s \in subscribed /\ Ready(s) /\ n > promised[s] THEN n ELSE promised[s]]
  /\ UNCHANGED <<changes, roomVars, online, handlers, sentMessages, pageVars>>

\* A mistake: a request under way is thought to bring the change.
FetchUnlessFetching(s) == IF fetching[s] = None THEN NoValue ELSE fetching[s]

\* invalidateQueries: a request is begun again, but not the first one.
FetchAgain(s) == IF shown[s] # NoValue \/ fetching[s] = None THEN NoValue ELSE fetching[s]

\* An event invalidates the query, a snapshot becomes its data.
Receive(s) ==
  /\ wire[s] # <<>>
  /\ wire' = [wire EXCEPT ![s] = Tail(@)]
  /\ IF s \notin mounted THEN UNCHANGED <<shown, fetching>>
     ELSE IF Head(wire[s]) = NoValue
     THEN fetching' = [fetching EXCEPT ![s] = FetchAgain(s)] /\ UNCHANGED shown
     ELSE shown' = [shown EXCEPT ![s] = Head(wire[s])] /\ UNCHANGED fetching
  /\ UNCHANGED <<changes, publishing, roomVars, online, handlers, sentMessages, mounted,
                 promised>>

\* The request of the query reads the rows ...
ReadMap(s) ==
  /\ fetching[s] = NoValue
  /\ fetching' = [fetching EXCEPT ![s] = changes]
  /\ UNCHANGED <<changes, publishing, roomVars, online, handlers, sentMessages, wire,
                 mounted, shown, promised>>

\* ... and its answer becomes the data, whatever a snapshot brought meanwhile.
ShowMap(s) ==
  /\ fetching[s] \notin {None, NoValue}
  /\ shown' = [shown EXCEPT ![s] = fetching[s]]
  /\ fetching' = [fetching EXCEPT ![s] = None]
  /\ UNCHANGED <<changes, publishing, roomVars, online, handlers, sentMessages, wire,
                 mounted, promised>>

\* The request and its retries fail: the page says so.
FailFetch(s) ==
  /\ fetching[s] # None
  /\ fetching' = [fetching EXCEPT ![s] = None]
  /\ promised' = [promised EXCEPT ![s] = 0]
  /\ UNCHANGED <<changes, publishing, roomVars, online, handlers, sentMessages, wire,
                 mounted, shown>>

HandlerStep(m) ==
  StartHandler(m) \/ ReadSnapshot(m) \/ FailHandler(m) \/ JoinRoom(m) \/ EndSubscribe(m)
    \/ EndUnsubscribe(m)

SeatMapNext ==
  \/ \E s \in Socket :
       \/ OpenPage(s) \/ ClosePage(s) \/ Connect(s) \/ Disconnect(s)
       \/ Receive(s) \/ ReadMap(s) \/ ShowMap(s) \/ FailFetch(s)
  \/ \E m \in Message : HandlerStep(m)
  \/ CommitChange
  \/ \E n \in Change : ReadRegistry(n) \/ EmitChange(n) \/ LosePublication(n)

SeatMapSpec == SeatMapInit /\ [][SeatMapNext]_seatMapVars

\* What is on the wire arrives, and requests are answered.
SeatMapFairness ==
  \A s \in Socket :
    WF_seatMapVars(Receive(s)) /\ WF_seatMapVars(ReadMap(s)) /\ WF_seatMapVars(ShowMap(s))

-------------------------------------------------------------------------------
(* Properties                                                                *)

\* A change that is published while a page is subscribed and ready is shown in
\* the end: the event finds the room and arrives, whatever request was under way
\* is begun again.  (A change between the snapshot and the join is not announced:
\* seatmap.socket.js:26.)
EventsReachTheMap ==
  \A s \in Socket : \A n \in Change :
    (promised[s] >= n) ~> (promised[s] < n \/ (shown[s] # NoValue /\ shown[s] >= n))
===============================================================================
