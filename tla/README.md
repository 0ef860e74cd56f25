# Train booking system: a TLA+ verification project

This directory holds the TLA+ models of the train booking system in `src/`
(Express and Sequelize on PostgreSQL in `src/backend`, Next.js in
`src/frontend`), the TLC configurations that check them, and proofs that the
TLA+ proof system checks. Paths below that begin with `modules/`, `jobs/`,
`lib/` or `db/` are under `src/backend/src/`.

## 1. Inventory

| Component | State | Operations | Interacts with |
|---|---|---|---|
| Segments (`common/utils/segment-overlap.js`) | none | overlap, adjacency, containment of `[origin, destination)` station ranges | everything that sells a seat |
| Availability (`modules/availability`) | none of its own; reads allocations, journey seats, coaches | preview of seats, second check inside the hold's transaction | bookings, waitlist, seat map |
| Bookings (`modules/bookings`) | `bookings`, `booking_seats`, `booking_passengers`, `active_seat_allocations`, history | hold, confirm, cancel, expire, complete, refund; seat change of a passenger (not wired) | availability, payments, refunds, jobs, notifications, seat map |
| Waitlist (`modules/waitlist`) | `waitlist_entries`, allocations of an offer | join, cancel, offer, accept, convert, expire, requeue | availability, bookings, notifications, jobs |
| Payments (`modules/payments`) | `payments`, `bank_payment_slips`, `payment_webhook_events`, `idempotency_records`, reconciliation log | card and slip attempts, slip upload, approval and rejection, Stripe webhooks, reconciliation | Stripe, bookings, jobs |
| Refunds (`modules/refunds`) | `refunds`, `payments.status` | create, complete by hand, webhook result, retry | Stripe, payments, bookings |
| Notifications (`modules/notifications`) | `notifications` | queue, claim, send, mark, retry, cancel, recover stale | providers, jobs |
| Jobs (`jobs`) | `job_executions`, PostgreSQL advisory locks, in-memory leases | four scheduled jobs, lock, run, shut down | bookings, waitlist, payments, notifications |
| Transactions (`lib/transaction-manager.js`) | none | serializable transactions with a bounded number of retries | every service |
| Journeys (`modules/journeys`, `modules/disruptions`) | `journeys`, station, coach and seat snapshots | create, update, snapshots, delay, cancel, complete; seat status | bookings, seat map, notifications |
| Routes, trains, coaches, seats, stations | reference tables, station order of a route | CRUD, resequencing, seat layout generation | journeys |
| Fares (`modules/fares`) | fare rules | price of a hold | bookings |
| Seat map (`modules/seatmap`, `realtime`) | versions per journey, room registry, subscriptions | snapshot, subscribe, publish | bookings, waitlist, journeys, browser |
| Accounts (`modules/auth`, `modules/users`, `modules/access-control`) | users, refresh tokens, assignments | login, rotation, block, roles, scopes | every route |
| Guest access (`booking-access.service.js`) | one-time codes in memory, token hash of a booking | request, verify | bookings, waitlist |
| Reports, audit, management, seeds, frontend | read models, logs, pages | queries, rendering | all |

How the parts interact. A passenger asks for a hold; outside any transaction the
journey, the window and the seats are checked, then a serializable transaction
takes advisory locks on the seats, deletes lapsed holds of those seats, checks
again, and stores the booking and one allocation row per seat. An exclusion
constraint on (journey, seat, station range) backs this up. A payment (Stripe
webhook, approved bank slip or reconciliation) marks itself PAID and confirms the
booking in one transaction, if the hold has not lapsed. Jobs release what nobody
releases: lapsed holds and lapsed waitlist offers. Refunds, notifications and
the seat map follow.

What is hard: seats are contested by several passengers and by the clock; lapsed
holds are deleted by whoever needs the seat, while their booking is still HELD
until the job runs; checks made before a transaction are stale inside it; Stripe
delivers events late, twice or out of order; reconciliation reads, calls Stripe
and writes without a lock; jobs fail record by record; two clocks (the
application servers' and the database's) decide whether a hold lives.

What makes each part correct, in one line each: bookings, no seat of a leg sold
twice and no seat leaked; availability, its second check is as strong as the
constraint; waitlist, an offer holds its seats exactly until it is accepted,
lapses or is cancelled; payments, money captured is recorded once and a CONFIRMED
booking is paid; refunds, never more than was paid and a status that agrees with
the refunds; notifications, each is sent and not sent for ever; jobs, one runner
per job at a time and expired things are released; routes, stations stay numbered
`0..n-1` with distances that grow; seat map, a viewer finally sees the state of
the seats; accounts, a revoked token family stays revoked and a super admin is
left. Section 8 and `PROJECT.json` (`hazards`) list, line by line, what can go
wrong.

## 2. Modules

| Module | Models | Notes |
|---|---|---|
| `Segments` | `segment-overlap.js` | with the reference definition `ShareLeg` |
| `SeatAllocations` | table `active_seat_allocations`, its constraint and the statements run on it | shared by bookings, waitlist and availability |
| `SeatLedger` | abstract: who owns which seat on which leg | claim a free lot, release lots |
| `SeatBooking` | bookings of one journey | refines `SeatLedger` |
| `Waitlist` | waitlist entries and offers, extends `SeatBooking` | refines `SeatLedger` with entries as owners |
| `Availability` | the searches, the availability queries, the seat map and the check of a hold, over the same rows | views are operators, actions change the rows |
| `Announcements` | which events are announced to whom, on which channels | callbacks in memory after each commit |
| `PaymentStatuses`, `Payments` | attempts that pay one booking, Stripe, slips, reconciliation | |
| `Refunds` | refunds of one paid payment | |
| `Notifications` | the queue, the job that sends, its lock and its recovery | several workers |
| `SeatMap` | subscriptions, snapshots and events over a socket, and the query of the page | |
| `Scopes` | assignments of trains and stations, and the lists, pages and reports that follow from them | |
| `Routes`, `Trains`, `Fares`, `Journeys` | the timetable: routes and their stations, trains with coaches and seats, fares, journeys with their snapshots | `Journeys` extends the other three |
| `Accounts` | accounts of the staff, refresh tokens, blocking, roles | statement by statement |
| `Sessions` | the session of a member of staff in several tabs of one browser | the server's side is one step per request, which `Accounts` justifies |
| `GuestAccess` | cookies of a hold and codes for guests | |
| `PassengerPages` | one tab of a guest: seats, hold, payment, slip, ticket; idempotency keys | |
| `Passengers` | the form of a party and the server's check of it | |
| `Rows` | `None`, `NoValue`, `NoRows`: a row, a column and a table without content | |
| `MCSeatBooking`, `MCWaitlist`, `MCPayments`, `MCJourneys`, `MCSales`, `MCDelivery`, `MCServices` | small instances | section 3 |
| `SeatBookingProofs`, `WaitlistProofs`, `PaymentsProofs`, `NotificationsProofs`, `FaresProofs`, `TotalsProofs`, `AccessProofs`, `ServicesProofs` | theorems | section 6; `TotalsProofs` and `ServicesProofs` use the lemmas on sums of `FaresProofs` |

An operator introduced as "a mistake" (`DeleteHoldsEarly`, `ForgetsReviews`, `LeaveRows`, ...)
is no part of a specification: it is a plausible bug, and putting it in the place of the
definition after it must break a property (`PROJECT.json`, `mutants`). Variables
called history in the modules (`unchecked`, `miscounted`, `beside`, `adrift`, `raced`, `overlapped`,
`together`, `alarmed`, ...) record what happened so that a property can say under
which circumstance the code makes no promise; no guard reads them.

### `SeatBooking`

| Variable | Code |
|---|---|
| `now` | the database's `NOW()`; `AppClock` gives the readings of an application server's `new Date()` |
| `journeyStatus`, `seatStatus` | `journeys.status`, `journey_seats.status` |
| `status` | `bookings.status`; `NEW` and `PREVIEWED` are stages of a request that has no row yet |
| `request` | seats and station range of the request, then of `booking_seats` |
| `holdExpiresAt`, `alloc` | `bookings.hold_expires_at`, `active_seat_allocations` |
| `paid` | bookings with a PAID payment |
| `jobBatch` | ids the running expiry job fetched and has not processed |

| Action | Code |
|---|---|
| `PreviewHold` | `createBookingHold` up to its transaction |
| `CreateBookingHold` (with `PlaceHold`) | the serializable transaction |
| `RejectHold` | any failure of it |
| `CompletePaidBooking`, `PaidTooLate` | `completePaidBooking`, called by the webhook, approval and reconciliation |
| `ConfirmBooking` | the confirm route |
| `CancelBooking`, `CompleteBooking`, `MarkRefunded` | status transitions |
| `FetchExpiredHolds`, `ExpireBooking`, `DropRecords` | the expiry job, record by record |
| `ChangeJourney`, `SetSeatStatus` | journey and journey-seat services |
| `Tick` | time |

A database transaction is one step. Within a hold's the clock is read three times, for
the deletion of lapsed holds, for the second check and for the expiry, and `PutSeatsOnHold`
takes three readings that do not go back: a hold that lapses after the deletion passes
the check with its rows still there, and the constraint refuses the new ones. Holds and
every path that confirms a booking run at SERIALIZABLE: a confirmation whose rows are
deleted by a concurrent hold fails with a serialization error and is retried, so the
interleaving inside transactions adds nothing. `NOW()` is the start of the transaction
and `new Date()` a later reading of another clock; `MaxSkew` bounds how far they are
apart.

### `Waitlist`

Entries are holders of rows in the same `alloc`, so an offer competes with holds
through the same constraint. An entry has a status, a request, an expiry of its
offer and a batch of the job. Every action of `SeatBooking` remains.

| Action | Code |
|---|---|
| `CheckJoin`, `JoinWaitlist` | `joinWaitlist`: the check, then the serializable transaction with the second check for a duplicate |
| `BeginOffer`, `OfferSeat`, `RejectOffer` | an administrator's offer: journey and entry checked, then the transaction that takes the rows |
| `AcceptOffer` | `acceptOffer`: one transaction that counts the rows, releases them and places the hold of a booking |
| `CancelEntry`, `ExpireOfferByHand` | cancellation, expiry (and requeueing) by request |
| `FetchExpiredOffers`, `ExpireOffer`, `DropOfferRecords` | the job that expires offers |

Acceptance hands the cells of an entry to a booking. The refinement credits the cells of
a converted booking to its entry (`HolderCells`), so for the ledger an acceptance is a
stutter: nobody else can slip in between, and that is what the refinement checks. An
offer that lapses while it is accepted, after `acceptOffer` has looked at it, is claimed
anew, if its seats are free at the second check. Offers are made by administrators only,
because nothing that runs calls `processAvailableSeat`; the priorities of entries are
therefore not modelled, nor are replays of an acceptance by its idempotency key.

### `Payments`

One booking with several card attempts and bank slips.

| Variable | Code |
|---|---|
| `booking`, `hold` | `bookings.status`, and whether `hold_expires_at` runs, has lapsed or is none |
| `status`, `slip` | `payments.status` of each attempt, the latest row of `bank_payment_slips` |
| `calling`, `uploading` | requests between two statements: waiting for Stripe, storing the file |
| `intent`, `sent` | Stripe's intent (external) and the events it emitted |
| `settled` | events with a row in `payment_webhook_events` |
| `seen`, `found` | what the job read with its batch, then of the intent or slip |
| `beside` | history: the attempts that were live when a rejected slip was handed in again |

| Action | Code |
|---|---|
| `CreateAttempt` | the transaction that stores an attempt |
| `CreateIntent`, `CreateIntentFails`, `AttachIntent`, `LoseRequest` | the call to Stripe, its failure, the reference stored, the request lost after the call |
| `StripeStep` | the life of an intent and its events |
| `ProcessEvent`, `SettleWithoutEffect` | `processEvent`: an event in any order, any number of times, or failing after its row was stored |
| `BeginUpload`, `FinishUpload`, `AbandonUpload` | `uploadBankSlip` around the storage of the file |
| `ApproveBankSlip`, `RejectBankSlip` | review |
| `FetchCandidates`, `Retrieve`, `LeaveRecord`, `DropRecord`, `ReconcileCaptured`, `ReconcileFailed`, `ReconcileRejected` | the reconciliation job: batch, call to Stripe, unlocked and locked corrections |
| `Lapse`, `ExpireBooking`, `CancelBooking` | the booking meanwhile |

Assumed about the environment: reconciliation's minimal age keeps requests that
are in progress out of a batch; an intent that nobody claims is cancelled only
after its request ended; one upload per payment at a time. The confirm route is
no action here: `PaidHoldIsConfirmed` leaves it nothing to do.

### `Refunds`

| Variable | Code |
|---|---|
| `method`, `payment`, `booking` | `payments.method`, `payments.status`, `bookings.status` |
| `refund`, `amount`, `reference` | `refunds.status`, `.amount`, whether `provider_refund_reference` is stored |
| `stage`, `before`, `total`, `retried` | the request working on a refund, the payment status and the sum it has read, whether it is a retry |
| `provider`, `answer`, `sent`, `settled` | Stripe's refund, its first answer to the idempotency key, its events, those with a row |

`CheckRefund`, `CreateRefund` and `RefuseRefund` are `createRefund` up to the end of
its transaction. What follows in the code is one unlocked statement after another,
and so are the actions: `CallStripe`, `StripeFails`, `StoreAnswer`, `ReadTotal`,
`WriteTotal`, `CloseBooking`, and `StepFails`, `FailRefund`, `RestorePayment` for
the catch. `ReadFailed` and `RetryRefund` are `retryRefund`; `CompleteManualRefund` and
`UpdateRefund` are transactions; `Crash`, `LoseEvent`, `ReconcilePaid` and `CancelBooking`
are what happens around them. A statement that would store the value already read
writes nothing (Sequelize saves changed fields only); `ReadTotal` says so.

### `Notifications`

| Variable | Code |
|---|---|
| `status`, `attemptCount`, `maxAttempts`, `owner` | `notifications.status`, `.attempt_count`, `.max_attempts`, `.processing_worker_id` |
| `due`, `silent` | notifications whose `next_retry_at` has come, whose `last_attempt_at` is older than the lease |
| `lock`, `phase` | the advisory lock of `RETRY_NOTIFICATIONS` and what the handler of each worker does |
| `tickets`, `sending` | ids a run has claimed and not reached, calls to a provider without an answer |
| `sends`, `reopened`, `lockLost` | what happened: calls made, notifications put back while PROCESSING, workers that lost the lock and run on |

| Action | Code |
|---|---|
| `QueueNotification`, `RetryNotification` | `queueNotification`, `retryNotification` |
| `StartJob`, `EndJob`, `FailJob`, `LoseLock`, `Crash` | `JobRunner.run`, `release`; the connection of the lock breaks or `shutdown` gives it back while the handler runs on |
| `RecoverStale`, `ClaimDue` | the two transactions of the job |
| `SendClaimed`, `ReclaimAndSend`, `FailExhausted`, `SkipTicket` | `sendNotification` up to the call to the provider |
| `MarkSent`, `MarkFailed`, `LoseAnswer` | its answer |
| `ComeDue`, `FallSilent` | time |

A ticket carries the attempt that claimed it, which only tells one run of a worker
from another; the code compares the worker, and so do the guards. `owner` stays when
a notification is retried by hand, as in the code. A worker starts a run after its
last one ended. Cancellation has no route and no
action. Recovery runs under a lock of its own that nobody else contests unless
the job itself runs twice; such a recovery takes nothing.

### `Availability`, `Announcements`

`Availability`: `journey`, `rowStatus`, `coachOpen`, `activeSeat` and `table` are rows of
`journeys`, `journey_seats`, `journey_coaches`, `seats` and `active_seat_allocations`,
`clock` is now. `ListedPublic` and `ListedUpcoming` are the two searches,
`AvailableSeats`, `ClassCounts` and `SeatTotals` the availability queries, `SeatState`
and `MapSummary` the seat map, `HoldAccepted` the preview of `createBookingHold`.
`HoldSeats`, `ConfirmSeats`, `ReleaseSeats`, `ChangeSeatRow`, `ChangeCoachRow`,
`ChangeJourneyRow` and `PassTime` change what they look at.

`Announcements`: `calls` are callbacks of committed transactions that have not read
yet, `notices` the rows of `notifications` with their deduplication keys, `forgotten`
what a stop of the server lost. Each action that commits (`ConfirmPaid`, `CancelBooked`,
`RefundPaid`, `OfferSeatsTo`, `DelayDeparture`) leaves a call; `RunCallback` reads the
rows as they are by then and queues a notice for every target (`ConfirmationTargets`,
`OfferTargets`, ...). A malformed destination of one contact is skipped; among the
destinations of a delay it keeps the event from everybody, as in the code.

### `Routes`, `Trains`, `Fares`, `Journeys`

| Variable | Code |
|---|---|
| `activeStations`, `routes`, `routeStations` | `stations.is_active`, `routes`, `route_stations` by route and station |
| `edit`, `rowQueue` | the open edit of each request, and who holds or waits for the rows of a route (`FOR UPDATE`) |
| `activeTrains`, `coaches`, `seats`, `seatEdit` | `trains.is_active`, `coaches`, `seats`, the open transaction of each request on seats |
| `journeys`, `journeyStations`, `journeyCoaches`, `journeySeats` | the tables of migration 006 |
| `generation`, `booked` | the open `generateSnapshots` of each request, journeys that bookings refer to |

| Action | Code |
|---|---|
| `CreateRouteWithStations`, `CreateRoute`, `UpdateRoute`, `DeactivateRoute`, `SetStationActive` | `route.service.js`, `station.service.js`, one step each |
| `OpenEdit`, `LockRows`, then `AddStation`, `RemoveStation`, `ReorderRouteStations`, `UpdateRouteStation`, `CloneReverseRoute` or `RefuseEdit` | an edit of stations: what it read first, what it gets when it has the lock, what it writes |
| `CreateCoach`, `UpdateCoach`, `SetTrainActive` | `coach.service.js`, `train.service.js` |
| `OpenUpdate`, `ReadCoach`, `WriteSeat`, `CountCoach` | the statements of `updateSeat`: the seat, each coach, the seat's new values, `#syncCoachCapacity` of each coach |
| `OpenGeneration`, `GenerateSeats` | `generateSeats`: the coach as it is read, then the statements that delete, insert and write the total |
| `CommitSeats`, `RollbackSeats` | the end of either transaction |
| `CreateJourney`, `UpdateJourney`, `CancelJourney`, `DelayJourney`, `Book` | `journey.service.js`; a booking is only what it refers to |
| `ReadForSnapshots`, `CommitSnapshots`, `RollbackSnapshots` | `generateSnapshots` around the reading of the journey without a lock |

Transactions on seats run at READ COMMITTED, so that others commit between their statements:
the count that `#syncCoachCapacity` takes may equal the total the transaction has read,
though the row says something else by then, and Sequelize writes nothing (`Synced`). The
statements of a generation after its first are one step, because whatever is committed between
them marks the coach as overtaken just as a commit after them does.

A list of stations, an array of rows or ids in the code, is a function from its stations
to their places `0, 1, ...`: `Inserted`, `Removed` and `Reversed` are `splice`, `filter` and
`reverse`, `InOrder` is `ORDER BY sequence_number`, `StationAt` and `LastOf` its ends.

`Fares` has no state: it is `fare-calculation.service.js` in whole cents, with the places
where amounts are rounded.

### `Accounts`, `Sessions`, `GuestAccess`

`Accounts`: `account` and `tokens` are `users` and `refresh_tokens` (a token is named by the
call that stored it), `calls` the requests in flight with what they have read and
locked, `assigned` the assignments that a change of role ends. A request is as many
steps as the code has statements that others can come between: `Login` and
`IssueFirstToken`, `Refresh` (lock and revoke) and `CompleteRefresh`, `DetectReuse`,
`Administer` (read) and `WriteInTransaction` or `WriteAlone`, `BeginSweep` and
`FinishSweep` for `revokeAllForUser`, `Abandon` for a lost connection.

`Sessions`: `jar` is the refresh cookie, `tab` the stores and the `refreshPromise` of each
page, `traffic` the requests under way, `granted` the tokens the server has stored.
`LoadPage`, `SignIn`, `ChangePassword`, `SignOut`, `ApiUnauthorized` and `ApiBlocked` are the
page's, `Serve...` the server's, `Arrive...` and `Fail` what comes back.

`GuestAccess`: `access` is the token hash of the booking, `cookies` the two cookies of a
browser, `requests` the codes in the server's memory, `verifying` verifications between
the comparison of the code and their answer (`AcceptCode`, `UpdateAccess`,
`AnswerVerified`). `RestartServer` empties the memory.

### `PassengerPages`, `Passengers`, `SeatMap`, `Scopes`

`PassengerPages`: `view` is the page that is open, `flow`, `selected` and `draft` the stores,
`posts` and `answers` what travels. `StartPayment`, `CreatePayment`, `FinishPayment` (or
`FailPayment`, `ForgetRequest`), `PaymentAnswered` are the way of one payment; the key of a
page is a row of `keys` from `CreatePayment` and has an answer from `FinishPayment`. `GiveUp`
is the browser's time limit: the server goes on. `UploadSlip` uses the payment of the
store, as the page does.

`Passengers`: `form` keeps what was typed for another identity type, `guests` are the rows
stored. `PickIdentityType`, `TypeNumber` and `PickGuardian` come in any order;
`StorePassengers` is `bulkCreatePassengers` with its validation (`IdentitiesValid`).

`SeatMap`: `registry`, `joined`, `subscribed` and `listed` are the four places that know a
subscription, `handlers` the messages a page has sent and how far the server is with
them, `publishing` how far the publisher is with a change, `wire` what travels to the
browser, `shown` and `fetching` the query of the page.

`Scopes`: `rows` are the rows of the two assignment tables in order of creation, `edits`
what a screen has asked for and read. `Listed` is the filter of the lists, `Openable` the
guards of the pages, `ReportScope` with `BookingCounts` and `SeatLegs` the reports;
`ManagesStaff`, `PendingSlips`, `MayAssist` and the others the services behind them.

## 3. Runs

| Run | Instance | Shows |
|---|---|---|
| `seat_safety` | 3 bookings (symmetric), 2 seats, stations 0-1-2, rides 0-2, 0-1 and a party of two on 1-2, clock to 2, one clock | no double sale, live bookings keep their rows, no row outlives its booking, refinement of the ledger |
| `seat_skew` | 2 bookings, clocks one unit apart, clock to 3, seats may be blocked, fairness | blocked seats not sold, the confirm route owns its rows, every hold ends |
| `closed_journey` | 1 booking | counterexample: a journey cancelled between preview and commit is booked |
| `payments_safety` | 2 cards (symmetric) and a slip, `BatchSize` 1; about 2.7 million states | one attempt at a time, but for a slip that is handed in again after its rejection, a paid hold is confirmed, no confirmation without money |
| `payments_recovery` | a card and a slip, `BatchSize` 2, fair job, every webhook may be lost | money captured is noticed |
| `payments_overwritten` | a card | counterexample: the job writes FAILED over PAID |
| `payments_slip_expiry` | a slip | counterexample: the booking of a slip in review expires |
| `sales` | *waitlist*: 2 bookings, 1 seat, 2 entries of different users (symmetric), one clock to 2; *views*: 3 seats in 2 coaches, 2 legs, holds and an offer that lapse, one row closed at a time; *announcements*: 2 bookings, an entry, 2 delays, 3 offers | live offers hold their seats and the ledger is refined; what is shown as free is what a hold finds free, what is listed can be held; what is announced is in the queue |
| `waitlist_skew` | 2 bookings, 2 seats, an entry for two, clocks one unit apart, requeueing, fairness | rows have owners whatever the clocks, every offer that lapses is settled |
| `delivery` | *notifications*: 2 workers, 1 notification of two attempts, `BatchSize` 1, retries by hand; *seat map*: a browser with two messages, one change; *scopes*: 2 officials, 2 screens, 2 trains, 3 stations, 2 journeys, 2 bookings; fairness for the first two | one worker has a notification in hand unless it was taken, each notification ends or has no attempt left; an event that is published to a ready page is shown; lists, pages, services and reports agree |
| `services` | seven parts, section 4; about 0.9 million states | the timetable stays in order and its copies agree with it; tokens, blocking and super admins; codes and tokens of guests; refunds within the payment and in turns; slips and keys; parties; browsers that sign out or refresh in several tabs |
| `guest_ticket` | 2 browsers, one booking | counterexample: a guest who verified a code reaches no page of the booking |

`sales`, `delivery` and `services` explore components that share no rows, each on its
own: the variable `part` of the MC module says which one moves while the others rest
in their first state, so that one run is the sum of their state spaces and never the
product. `CHECK_DEADLOCK FALSE` stands where the system may stop: every attempt, refund
or callback is over and nothing is left to deliver, or a bound on requests is reached.

## 4. Bounds

*Bookings.* Three bookings are enough for a lapsed hold, the hold that deletes its
rows and a third that competes with both; two seats for a party whose rows are
deleted one seat at a time; three stations for overlapping, contained and adjacent
rides. `HoldMinutes = 1` with the clock to 2 lets a hold lapse and its seats be sold
again and lapse again. `MaxTime` also bounds the expiry of a hold (guard of
`CreateBookingHold`); `BatchSize = 1` makes the job fetch again.

*Waitlist.* Overlapping rides are covered by `seat_safety`; the waitlist runs use
the whole trip. Two entries let an offer lapse and its seat be offered to the
other, two bookings let a hold take the seat in between and an acceptance create
one. In `sales` the journey is on schedule or completed: nothing there tells a delayed
journey from one on schedule, and a cancelled one allows less than one that is over. That
an accepted party is never split needs a third booking and is too large for TLC; it is proved (`AcceptanceFindsItsSeats`).

*Views.* `MaxClosed` bounds how many rows, coaches or seats are closed at once: closing
one is what tells the views apart. Two coaches, one without reservations, are needed for
classes and for seats that are never on the map.

*Announcements.* Two bookings with each combination of contacts, so that one delay meets a
valid and a malformed destination (the bookings of one e-mail address, any telephone numbers,
so that the two of them remain affordable); two delays and three offers, so that a later one of
the same subject meets the deduplication key of an earlier.

*Payments.* Two cards and a slip give every pair of attempts and a third that is
blocked; one event per type and intent is emitted and then delivered any number of
times.

*Refunds.* Two requests are enough for a refund that fails, a second that takes
its place, and a retry of the first beside it. An amount of 2 separates none, part
and all. The booking is cancelled first (`MCNext`): no other step depends on it, and one
cancelled later is REFUNDED later or never.

*Notifications.* Two workers are enough for a slow sender and the one that takes over,
and two attempts for a failure between two sends. Notifications meet only in the
limit of a batch, so one is enough for TLC and `BatchSize` never binds in the run; the
theorems hold for any number. `AttemptCap` bounds how far a super admin raises
`max_attempts`; in the run it equals `MaxAttempts`.

*Timetable.* `MCTimetableInit` starts with a route of three stations, a coach of two
seats and a journey, which is what creation leaves; the three bounds on requests
(`MaxRouteSteps`, `MaxTrainSteps`, `MaxJourneySteps`) share `MaxSteps`, and requests on
routes and on trains, which touch no common row, are mixed only beside one on a journey
(`MCStepsLeft`). Behaviours that start with a second coach of one seat have two edits of
seats, which is enough for one to move a seat while the other counts. `SeatPatches` are a
move to either coach and a flag. Two editors
are one that goes on with what it read and one that changed it meanwhile. Distances
and fares are chosen so that products do not end on whole cents.

*Accounts.* Four calls: a login that is there, and three that meet it. *Guests.* Two
browsers, two requests, three tokens. *Pages.* Two bookings, two payments, five visits,
starting also where a first booking waits for its slip. *Party.* Three passengers, one a
minor. *Sessions.* Two tabs, four requests, two under way at
once; a session that is there when a behaviour begins has used one of the four.

*Seat map.* One change, and two messages: one subscription and what ends or repeats it.
*Scopes.* Two requests of two screens, so that one reads before the other writes.

The proofs have no bounds except the definition of the clock and, where the modules
number calls, tokens, pages or payments, that there are finitely many.

## 5. Fairness

Users, administrators, reviewers and Stripe are never assumed fair.

* `SeatBooking`: weak for `Tick` (time passes) and for `FetchExpiredHolds` (cron
  starts the job every minute, `config/jobs.js`), strong for `ExpireBooking(b)`: a
  record that is fetched again and again is at some time processed.
* `Waitlist`: the same for `Tick`, `FetchExpiredOffers` and `ExpireOffer(e)`.
* `Payments` (`JobFairness`): strong for the fetch of each candidate, for the
  retrieval of its intent and for its correction, weak for dropping a record.
* `Notifications` (`JobFairness`): weak for time, for the answers of providers and for the
  end of a run; strong for the start of a worker's run, its recovery and its claims,
  and for the recovery and claim of each notification. The job is started each
  minute, and neither crashes nor failures are assumed to stop; that they never keep
  a notification from every run is the assumption.
* `SeatMap` (`SeatMapFairness`): weak for what is on the wire, for reading the rows and for
  the answer of the query, while the page is open and the socket is connected. The
  publisher is not assumed to go on: the property begins where an event was emitted.

A record that always fails (a poisoned booking at the head of `ORDER BY
hold_expires_at`), or matched rows that fill every batch of reconciliation, are
excluded by these assumptions, not by the code; they are hazards.

## 6. What is proved

Each theorem is for every value of the constants; `PROJECT.json` lists them with what
they establish. In the order of the components:

* Bookings (`SeatBookingProofs`). For any clock skew: `TypeCorrect`, `SeatsDoNotLeak`,
  `BlockedSeatsStayUnsold`, `RouteConfirmationsOwnSeats`, and `HoldRefusedIffLapsed`: a
  hold whose second availability check succeeds is refused by the exclusion constraint if
  and only if a hold that it meets lapsed between its clean-up and its check. Under `MaxSkew = 0`:
  `NoDoubleSale`, `RowsStayWithTheirBooking`, `BookingImplementsLedger`. About the table
  itself: `OverlapIffSharedLeg`, `InsertRefusedIffLapsed` (the same of any table and rows);
  about the abstraction:
  `LedgerExclusive` (`TotalsProofs`).
* Waitlist (`WaitlistProofs`). For any skew: `RowsAlwaysOwned`, `EndedEntriesStayEnded`.
  Under `MaxSkew = 0`: `OffersKeepTheirSeats`, `NoDoubleSaleBesideOffers`,
  `AcceptanceFindsItsSeats` (a party is never split), `WaitlistImplementsLedger`.
* Payments (`PaymentsProofs`): `TypeCorrect`, `OneLiveAttemptAtATime`, `PaidHoldConfirmed`,
  `MoneyConfirms`, `TransitionsRespected`.
* What is added up and counted (`TotalsProofs`). Refunds: `TypeCorrect`,
  `NoRefundBeyondPayment`, `OneRefundAtATime`. Seats on offer: `SeatViewsStayInAgreement`,
  `ListedJourneysCanBeHeld`. Officials: `ScopesStayInAgreement`.
* Fares (`FaresProofs`): `FaresGrowWithDistance`.
* Notifications (`NotificationsProofs`): `TypeCorrect`, `SendsCounted`, `OneSender`,
  `OneRunnerOfTheJob`, `SentStaysSent`; of the events behind them `EventsReachPassengers`.
* Guests, accounts and sessions (`AccessProofs`): `CodesAreUsedOnce`, `LostTokensWereUnanswered`;
  `OneSuccessor`, `BlockingEndsSessions`, `SuperAdminIsLeft`; `OwnTrafficTolerated`,
  `SignedOutStaysOut`.
* Timetable, party and pages (`ServicesProofs`): `RoutesAreOrdered`, `CoachesDeclareTheirSeats`,
  `BookedSnapshotsRemain`, `StationTimesAreKept`, `LongerRidesCostNoLess`, `TimetableTyped`;
  `PartiesAreIdentified`; `SlipsReachTheirBooking`, `KeysNameOnePayment`.

Some theorems state what no run checks, because the invariant the run does check
implies it or because it is only worth proving: the types of each component,
`SendsAreCounted`, `OneRunner`, `SentIsFinal`, `TransitionsOutsideReconciliation`,
`EntriesEndOnce`, `HoldRefusedIffLapsed` and `AcceptanceFindsItsSeats`.

*Bookings.* `LiveBookingsDisjoint` is not inductive: two live bookings are
kept apart by their rows, so the invariant must say that a live booking has its rows
(`LiveBookingsOwnSeats`), that rows agree with bookings (`NoLeakedAllocations`) and that
the table satisfies the exclusion constraint. `RowsInv` (types, agreement,
constraint) is inductive on its own and needs nothing about clocks.
`LiveInv` adds the rows of live bookings: the only step that deletes somebody
else's rows is the clean-up of a hold, and with one clock what it deletes has
lapsed, so its booking no longer counts. The refinement follows: a step either
claims cells that `LiveInv` shows free, or changes only which bookings count.

*Waitlist.* `OwnerInv` repeats the first half with entries among the owners: every row is a
booking's or an open offer's, whatever the clocks. It needs to say of a conversion that
the booking it made is stored (`ConversionsStored`). `SharedInv` adds that live bookings
and live offers keep their rows. Both steps of the argument have the shape "no step
deletes rows of another owner that still counts": the lemmas `...Kept` say it once
for each statement on the table and are cited for bookings and entries alike. In the
refinement the owner of a cell is an entry also after its conversion (`HolderCells`
credits the booking's cells to it), so an acceptance is a stutter.

*Payments.* `Inv` is `TypeOK`, `StatusInv` (attempts, slips and the
booking agree) and `ProviderInv` (what Stripe has emitted and what the job has read
is true of the intents). The second is what makes a late event or an old answer
of Stripe harmless: success of an intent is never taken back, so a confirmation
that acts on it acts on money that is there. The two action properties follow
from one step under `Inv`. `OneLiveAttempt` is inductive beside it: a new attempt finds no live
one, and a slip that is handed in again after its rejection writes down those that are.

*Refunds.* The sum over the refunds of a payment is a fold, and what a fold computes
cannot be proved here by induction over data. The lemmas on sums go around it: a
statement about every subset of a finite set is proved by assuming a subset that violates
it and taking a least one (the library's facts about well-founded relations), so that the
empty sum, one more summand and a larger set are theorems. `RefundsInv`: what
Stripe's events and answers say is true, each card refund that is done is back at
Stripe, and at most one refund of a payment is under way unless it was retried
(`Vouched`); a slip's refund never goes to Stripe, never fails and is never retried
(`ByHand`); what Stripe returned and the refunded total stay within the payment, a total a
request carries is at most what is back, and a booking is closed only when all of it is
back (`MoneyKept`); a slip's payment status follows from its refunds (`InStep`).

*Availability.* Both statements hold of every state, so there is no invariant to find; what
has to be shown is that the same set comes out of code that asks in another order, and
that sizes follow. Sizes need two lemmas: elements counted by what they are filed under add up
(`PartsAddUp`: seats by the classes of their coaches), and a finite set has a subset of every
smaller size (`SubsetsOfEachSize`: the seats of a party among those that were counted).

*Scopes.* `ScopesInv` is the types and `OneActiveRow`. Two screens may both find a pair without
an active row; both then write the row they found last or append one, and the index lets
this happen only while no other row is active. The agreement of lists, pages and services
follows kind by kind (`ListedIsOpenable`, `OtherGuardsAgree`). The occupancy report looks at the
pairs of a booking and a leg by legs (it averages the legs' rates, which come from the same
rows), the list of bookings counts them by bookings
(`LegsAddUp`, `PartsAddUp` twice).

*Notifications.* That no call goes uncounted needs the tickets: each stands
for an attempt that was counted and not made, so the calls made and the
tickets together never exceed the attempts (`CountInv`). One sender needs that a
notification never put back is in no hand unless it is PROCESSING (`HandInv`), so that a claim
finds it free; the lock takes no part in it. One runner follows from the lock
belonging to who runs and did not lose it (`LockInv`).

*Announcements.* `AnnouncementsInv` is what the run checks, with two facts that only serve
the steps: a booking a delay was announced for is no longer HELD, so it cannot become
CONFIRMED afterwards without having been told, and an open offer has a number (`Witnesses`).
An event that has no callback to come got its notices in the step in which the callback
ran: each is stored then, unless a row with its key is there, and that row is of the same
event and channel (`CallbackTells`). Rows stay, and a callback that reads an entry which
has been offered seats again tells of the offer that stands now.

*Guests.* `GuestInv`: attempts are counted where codes are compared, and a token made
for a request belongs to a verification under way or the request is gone
(`CodesCounted`); tokens are told apart by the order they were made in
(`TokensTellApart`); a browser waits for one answer at a time, and the cookie this
answer will replace is not the one the booking accepts (`ReplacedCookiesAreOld`). The last
is what `TokenLostOnlyWithItsAnswer` needs and says nothing of itself.

*Accounts.* `AccountsInv`. A refresh locks the row of its token until it has stored the next
(`LocksHeld`; `RowsHeld` is the same for the row of an account), so a token has one
successor (`SuccessorsOrdered`). A call that had
read an account when it was blocked is remembered as `overlapped` (`OverlapsKnown`); any
other that stores a token began after the block and was refused, which is
`BlockedSessionsEnd`. `ReadingsFresh` says that a call marked fresh has read the row as it
is; together with the count of active super admins in each check this keeps one
(`SuperAdminStays`), unless an account was written from a reading older than its row.
That the installation has one super admin who can log in is the assumption on
`Installations`, from `db/bootstrap`.

*Sessions.* `SessionsInv`. A refresh token belongs to the session its `root` names, and of a
session all tokens but the last are spent (`Families`). A page waits for one refresh at a
time (`OnePerPage`), and the answer that spent the token in the jar has not arrived yet
(`SpentUnseen`): when it does, the jar holds its successor. So a refresh that meets a
spent token was sent by another page before that answer came, which is
`OwnTrafficIsNoTheft`. A sign-out marked `alone` shows the last token of its session while no
refresh is under way (`SignOutsAlone`), and nothing that is shown later belongs to a
session that was ended so (`Ended`). One step may store a token, spend another, answer, and
send the next request; the statements are therefore about any tables, cookie and pages,
with one lemma for each effect (`SendingKeepsOrder`, `SpendingKeepsOrder`,
`KeepingKeepsOrder`, ...), and a step composes them.

*Trains.* `TrainsInv`. What a transaction on seats has done agrees with the statement it is
at (`InStep`). It has locked the rows it will write and others cannot touch them
(`RowsApart`, `SeatsHeld`), and it counts every coach that loses or gains a seat by it.
Unless another change of a coach was committed since it read or counted the coach, the
total it has read is the coach's (`ReadingsHold`) and its count, written or left unwritten
because it equals that total, is what the coach will have after its commit (`CountHolds`).
Each statement has a lemma of its own (`CoachRead`, `SeatWritten`, `CoachCounted`,
`SeatsGenerated`, `SeatsCommitted`). Cardinalities are
compared by the library's theorems on finite sets.

*Routes.* `RoutesInv`: types, no station row without its route (`RowsHaveRoutes`), numbers
unique now and in the order an open edit has read (`NumbersUnique`), and
`RoutesStayOrdered` itself, which is not inductive alone: what an edit writes depends
on what it read. The lemmas on lists come first: ranks of different numbers are a list
(`RanksAreList`), and inserting, removing and reversing keep one (`StationInserted`,
`StationRemoved`, `ListReversed`). What an edit gets with its lock is a list, and, when
nothing it read is stale, exactly the numbers of the rows (`RecordsListed`).
Resequencing then gives the rows the places of the list and keeps them unique, because the
temporary numbers start beyond every number it saw (`RowsResequenced`); the three edits that
resequence differ only in the list and rows they hand over (`Resequencing`,
`ResequencingCommitted`). A reversed clone takes its distances from the route's total, which is at
least that of the last station: this conjunct of `RouteOrdered` is needed for it.

*Journeys.* A booked journey has
snapshots, and a generation that would replace them read that nobody refers to them
(`BookingsInv`, which uses `TrainsInv`: a seat of a journey is not deleted under it).
`JourneysInv` adds times and distances: rows of stations belong to a journey that is there,
they follow its departure unless it is `adrift`, and their distances grow unless it is
`unordered`; a generation that says its route was checked holds rows in order, which
`RoutesInv` gives it when it reads them. A delay adds the same minutes to the departure and
to each time, and a time that is not known stays unknown (`TimesMoveTogether`). With
`FaresGrowWithDistance`, distances in order become fares in order (`LongerRidesCostNoLess`).

*Fares.* `FaresGrowWithDistance`: by one rule, for one class and one party, the longer of two
distances never costs less. It goes through `calculateBookingFare` in its order: charge
for the distance, multiplier, minimum fare, discount, sum over the party, service fee,
tax, each rounded (`SegmentFaresGrow`, `DiscountsKeepOrder`, `SumsCompare`,
`PercentageGrows`). `DiscountsKeepOrder` needs that no discount exceeds 100 percent, which
`passenger_fare_rules` checks. That the overrides of a class are not negative, no
constraint says (`007_create_fare_tables.sql:47`); only the seeds write that table, without
any override, so `FareAssumption` states it.

*Party.* `PartyInv` types the form and the rows, with what each row was made from. The rest
is one step: a minor's guardian is an adult other than the minor and has an identity,
by the server's check and not by the form.

*Pages.* `PagesInv`. What a page has sent belongs to the booking of the page
(`PostsOfPages`), an answer that names a payment names one of that booking
(`AnswersOfPages`, `KeysOfPages`), and the page shows the payment it was told of
(`PageShowsItsPayment`), so a slip goes to that booking unless an earlier page's answer has
crossed. For the keys: the request under way is the only one of its booking and its key
has no answer yet (`AttemptsUnderWay`, because an attempt that is PENDING blocks others),
so the answer that is kept first is the only one (`KeysKeepAnswers`).

Assumptions are those the modules name (`NullAssumption`, `ConstantsAssumption`,
`AccountsAssumption`, `SessionsAssumption`, `TrainAssumption`, `PagesAssumption`, ...): types
of the constants, values that request validators guarantee, and that `None` and `NoValue`
are no rows. TLC evaluates all of them.

## 7. Only model-checked

* Liveness: `HoldsSettle`, `OffersSettle`, `CapturedIsRecorded`, `NotificationsSettle`,
  `EventsReachTheMap`. Fairness and ENABLED are out of the prover's reach.
* `ServicesTypeOK`: the type invariants of seven components that rest beside each other in
  one instance; each of them is proved for its component (`TimetableTyped`, or as a part of
  the invariant of refunds, guests, accounts, party, pages and sessions).
* Everything found violated.

## 8. What the models say about the code

Counterexamples, each a run and an entry of `findings`:

* A journey cancelled, departed or completed after the preview is still booked:
  nothing inside the transaction reads its status (`closed_journey`).
* Reconciliation writes FAILED over PAID when a webhook comes between its call to
  Stripe and its write (`payments_overwritten`).
* A booking whose slip is in review expires with its hold (`payments_slip_expiry`).
* A guest who comes back through a verified code gets a cookie that no page of the
  booking reads, and the cookie of the hold stops working because its token was
  replaced (`guest_ticket`).

Seen in the models, without a text of the repository that promises otherwise:

* With clocks that disagree, `LiveBookingsDisjoint` does not hold for payments:
  `completePaidBooking` compares the hold with two clocks and never counts the
  booking's rows (`confirmBookingAllocations` is called only by the confirm route). A
  server whose clock is ahead deletes the rows of a hold that another server still
  confirms. The theorem therefore assumes one clock, and
  `RouteConfirmationOwnsSeats` states what survives a skew.
* A guest who gives up waiting for a verification, or loses its answer, may lock everybody
  out, also the browser that was answered last: the verification updates the booking
  later and its token is in no cookie (`unanswered`). The order of updates and answers alone does
  not, because a page waits for its answer (`TokenLostOnlyWithItsAnswer`).
* A slip rejected, a card attempt, and the slip handed in again: both may be PAID,
  approval looks for another payment that is PAID already
  (`bank-slip.service.js:119`), not for one that will be.
* `payment_failed` then `succeeded` of one intent: the money is recorded nowhere, and
  the FAILED payment is no candidate of reconciliation.
* A crash between the call to Stripe and the stored reference leaves a PENDING attempt
  that blocks the others until the booking expires.
* An error after Stripe accepted a refund marks it FAILED and writes back the old
  status of the payment, even over a REFUNDED that a webhook stored meanwhile. A
  crash there leaves PROCESSING for ever, and nothing but a FAILED refund can be
  retried. Stripe's own limits (the sum within the charge, the idempotency key) are
  what keeps `RefundsWithinPayment`.
* A refund event that beats the stored reference is recorded as processed and lost.
* A worker that dies in the last attempt leaves, after recovery, a notification
  RETRYING with no attempt left: no job looks for it, and it never becomes FAILED.
  `NotificationsSettle` names that state.
* `markSent` and `markFailed` look at the status and not at the worker: the late failure of
  a slow sender puts back a notification that another is sending.
* Two transactions that change the seats of one coach beside each other leave a
  `total_seats` that is wrong (`miscounted`): each counts without the seats of the
  other, or  one counts right but finds the total as it was before the other's commit
  and writes  nothing. A wrong total stays until a later transaction counts the coach
  alone. So do  edits of a route that waited for each other, with numbers and distances
  (`unchecked`), and a delay during the  generation of snapshots, with times (`adrift`).
* Two super admins who block each other at once, each having counted two, leave none
  (`raced`); a refresh that read its user before a block keeps its new token
  (`overlapped`).
* Two tabs that refresh at once, or a refresh beside a sign-out, are taken for a theft and
  end all sessions of the user.
* One contact with a malformed destination keeps a delay from everybody on the journey.

Read in the code and outside the models: a guest cannot cancel, because `#authorize`
(`booking-status.service.js`) refuses every actor without a role; a booking that is
cancelled after its payment was fully refunded never becomes REFUNDED
(`refund.service.js:173`); an offer may be made on a journey cancelled meanwhile, and
its acceptance is then refused; the confirm route and the webhooks lock booking and
payment in opposite orders, and PostgreSQL's deadlock detection with the retries of
`executeSerializable` resolves it.

## 9. Plan

The plan of modules and theorems is carried out: every invariant and action property of the
runs is stated by a theorem except `ServicesTypeOK` (section 7). Work that would extend it:

1. `SeatBooking`: the change of a passenger's seat (`assignSeat`), once a route calls it.
2. `Journeys`: the end of a journey (`completeJourney`), once something calls it.
3. Priorities of the waitlist, once `processAvailableSeat` runs.

## 10. Not modelled

HTTP validation of shapes, DTOs, logging, audit rows, sums of money in reports, seeds and
migrations other than the constraints that the modules name; the encryption and hashing
of identities; templates of e-mail and SMS and their providers' protocols; the rendering
of pages and the tables of management; the statistics and paging of searches. Who may
do what is modelled where it has state (`Scopes`, `Accounts`, `GuestAccess`) and left out
elsewhere: an action stands for any caller the code allows. Methods that nothing calls
(`completeJourney`, `deleteRoute`, `reorderStations`, `assignSeat`, `cancelNotification`,
`processAvailableSeat`, ...) are no actions. `PROJECT.json` lists what each component
leaves out.
