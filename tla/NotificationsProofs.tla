-------------------------- MODULE NotificationsProofs --------------------------
(***************************************************************************)
(* Theorems about Notifications for any notifications, workers, limits of   *)
(* attempts and batch size, and about the events that queue them for any    *)
(* bookings, entries, contacts and delays.                                  *)
(***************************************************************************)
EXTENDS Notifications, Announcements, FiniteSetTheorems, TLAPS

-------------------------------------------------------------------------------
(* Type correctness                                                          *)

TypeInv == TypeOK /\ \A m \in Messages : attemptCount[m] <= maxAttempts[m]

LEMMA TypeInit == Init => TypeInv
BY NotificationsAssumption DEF Init, TypeInv, TypeOK, Status, Phase

LEMMA TypeMessageStep ==
  ASSUME TypeInv, NEW m \in Messages, MessageStep(m)
  PROVE  TypeInv'
<1>. USE NotificationsAssumption DEF TypeInv, TypeOK, Status, jobVars
<1>1. CASE QueueNotification(m)
  BY <1>1 DEF QueueNotification
<1>2. CASE ComeDue(m)
  BY <1>2 DEF ComeDue
<1>3. CASE FallSilent(m)
  BY <1>3 DEF FallSilent
<1>4. CASE RetryNotification(m)
  BY <1>4 DEF RetryNotification
<1>. QED BY <1>1, <1>2, <1>3, <1>4 DEF MessageStep

LEMMA ClaimTyped ==
  ASSUME TypeInv, NEW w \in Workers, NEW batch \in SUBSET Messages, Claim(w, batch),
         \A m \in batch : attemptCount[m] < maxAttempts[m], UNCHANGED maxAttempts
  PROVE  /\ status' \in [Messages -> Status \union {"NONE"}]
         /\ attemptCount' \in [Messages -> 0 .. AttemptCap]
         /\ owner' \in [Messages -> Workers \union {Null}]
         /\ silent' \subseteq Messages
         /\ \A m \in Messages : attemptCount'[m] <= maxAttempts'[m]
         /\ \A m \in batch : TicketOf(w, m) \in Ticket
<1>. USE NotificationsAssumption DEF TypeInv, TypeOK, Claim
<1>1. /\ status' \in [Messages -> Status \union {"NONE"}]
      /\ owner' \in [Messages -> Workers \union {Null}]
      /\ silent' \subseteq Messages
  BY DEF Status
<1>2. \A m \in Messages :
        /\ attemptCount'[m] = IF m \in batch THEN attemptCount[m] + 1 ELSE attemptCount[m]
        /\ attemptCount'[m] \in 0 .. AttemptCap
        /\ attemptCount'[m] <= maxAttempts'[m]
  OBVIOUS
<1>3. attemptCount' \in [Messages -> 0 .. AttemptCap]
  BY <1>2
<1>4. \A m \in batch : TicketOf(w, m) \in Ticket
  BY <1>2 DEF TicketOf, Ticket
<1>. QED BY <1>1, <1>2, <1>3, <1>4

LEMMA TypeWorkerStep ==
  ASSUME TypeInv, NEW w \in Workers, WorkerStep(w)
  PROVE  TypeInv'
<1>. USE DEF TypeInv, rowVars
<1>1. CASE StartJob(w)
  BY <1>1 DEF StartJob, TypeOK, Phase
<1>2. CASE EndJob(w) \/ FailJob(w)
  BY <1>2 DEF EndJob, FailJob, Release, TypeOK, Phase
<1>3. CASE LoseLock(w)
  BY <1>3 DEF LoseLock, TypeOK
<1>4. CASE Crash(w)
  BY <1>4 DEF Crash, Release, TypeOK, Phase
<1>5. ASSUME NEW batch \in SUBSET Messages, RecoverStale(w, batch) PROVE TypeInv'
  BY <1>5 DEF RecoverStale, TypeOK, Status, Phase
<1>6. ASSUME NEW batch \in SUBSET Messages, ClaimDue(w, batch) PROVE TypeInv'
  <2>1. /\ Claim(w, batch) /\ UNCHANGED maxAttempts
        /\ \A m \in batch : attemptCount[m] < maxAttempts[m]
    BY <1>6 DEF ClaimDue, Batch, DueNotifications
  <2>2. tickets' \subseteq Ticket
    BY <1>6, <2>1, ClaimTyped DEF ClaimDue, TypeOK
  <2>3. phase' \in [Workers -> Phase]
    BY <1>6 DEF ClaimDue, TypeOK, Phase
  <2>. QED BY <1>6, <2>1, <2>2, <2>3, ClaimTyped DEF ClaimDue, TypeOK
<1>. QED BY <1>1, <1>2, <1>3, <1>4, <1>5, <1>6 DEF WorkerStep

LEMMA TypeSendStep ==
  ASSUME TypeInv, NEW t \in tickets \union sending, SendStep(t)
  PROVE  TypeInv'
<1>. USE DEF TypeInv, rowVars, jobVars
<1>0. t \in Ticket /\ t.message \in Messages /\ t.worker \in Workers
  BY DEF TypeOK, Ticket
<1>1. CASE SendClaimed(t)
  BY <1>0, <1>1 DEF SendClaimed, Dispatch, TypeOK
<1>2. CASE ReclaimAndSend(t)
  <2>. DEFINE m == t.message
              w == t.worker
  <2>1. /\ Claim(w, {m}) /\ UNCHANGED maxAttempts
        /\ {m} \in SUBSET Messages
        /\ \A n \in {m} : attemptCount[n] < maxAttempts[n]
    BY <1>0, <1>2 DEF ReclaimAndSend
  <2>2. TicketOf(w, m) \in Ticket
    BY <1>0, <2>1, ClaimTyped
  <2>3. sending' \subseteq Ticket /\ tickets' \subseteq Ticket
    BY <1>2, <2>2 DEF ReclaimAndSend, Dispatch, TypeOK
  <2>4. sends' \in [Messages -> Nat]
    BY <1>0, <1>2 DEF ReclaimAndSend, Dispatch, TypeOK, TicketOf
  <2>. QED BY <1>0, <1>2, <2>1, <2>3, <2>4, ClaimTyped DEF ReclaimAndSend, TypeOK
<1>3. CASE FailExhausted(t)
  BY <1>0, <1>3 DEF FailExhausted, TypeOK, Status
<1>4. CASE SkipTicket(t) \/ LoseAnswer(t)
  BY <1>4 DEF SkipTicket, LoseAnswer, TypeOK
<1>5. CASE MarkSent(t)
  BY <1>0, <1>5 DEF MarkSent, TypeOK, Status
<1>6. CASE MarkFailed(t)
  BY <1>0, <1>6 DEF MarkFailed, RetryLater, GiveUp, TypeOK, Status
<1>. QED BY <1>1, <1>2, <1>3, <1>4, <1>5, <1>6 DEF SendStep

LEMMA TypeStep == TypeInv /\ [Next]_vars => TypeInv'
<1>1. TypeInv /\ UNCHANGED vars => TypeInv'
  BY DEF TypeInv, TypeOK, vars, rowVars, jobVars
<1>. QED BY <1>1, TypeMessageStep, TypeWorkerStep, TypeSendStep DEF Next

\* The state of the queue and of the job stays well typed, and no notification
\* has more attempts than its row allows.
THEOREM TypeCorrect == Spec => []TypeOK
<1>1. TypeInv => TypeOK
  BY DEF TypeInv
<1>. QED BY <1>1, TypeInit, TypeStep, PTL DEF Spec

LEMMA TypeInvariant == Spec => []TypeInv
BY TypeInit, TypeStep, PTL DEF Spec

-------------------------------------------------------------------------------
(* Calls to providers are counted                                            *)

TicketsOf(m) == {t \in tickets : t.message = m}

\* An attempt that was counted is made once: it is a ticket until it is a call.
CountInv ==
  \A m \in Messages :
    IsFiniteSet(TicketsOf(m)) /\ sends[m] + Cardinality(TicketsOf(m)) <= attemptCount[m]

LEMMA CountInit == Init => CountInv
BY FS_EmptySet DEF Init, CountInv, TicketsOf

\* Tickets are dropped, and nothing else that counts changes.
LEMMA CountFewerTickets ==
  ASSUME TypeInv, CountInv, tickets' \subseteq tickets, UNCHANGED <<attemptCount, sends>>
  PROVE  CountInv'
<1>. SUFFICES ASSUME NEW m \in Messages
              PROVE  /\ IsFiniteSet(TicketsOf(m)')
                     /\ sends'[m] + Cardinality(TicketsOf(m)') <= attemptCount'[m]
  BY DEF CountInv
<1>1. TicketsOf(m)' \in SUBSET TicketsOf(m)
  BY DEF TicketsOf
<1>2. IsFiniteSet(TicketsOf(m)) /\ sends[m] + Cardinality(TicketsOf(m)) <= attemptCount[m]
  BY DEF CountInv
<1>3. IsFiniteSet(TicketsOf(m)') /\ Cardinality(TicketsOf(m)') <= Cardinality(TicketsOf(m))
  BY <1>1, <1>2, FS_Subset
<1>4. Cardinality(TicketsOf(m)) \in Nat /\ Cardinality(TicketsOf(m)') \in Nat
  BY <1>2, <1>3, FS_CardinalityType
<1>. QED BY <1>2, <1>3, <1>4 DEF TypeInv, TypeOK

\* A ticket becomes a call, under the claim it came with or under a new one.
LEMMA CountTicketSent ==
  ASSUME TypeInv, CountInv, NEW t \in tickets, tickets' = tickets \ {t},
         sends' = [sends EXCEPT ![t.message] = @ + 1],
         \A m \in Messages : attemptCount'[m] \in Nat /\ attemptCount'[m] >= attemptCount[m]
  PROVE  CountInv'
<1>. SUFFICES ASSUME NEW m \in Messages
              PROVE  /\ IsFiniteSet(TicketsOf(m)')
                     /\ sends'[m] + Cardinality(TicketsOf(m)') <= attemptCount'[m]
  BY DEF CountInv
<1>1. IsFiniteSet(TicketsOf(m)) /\ sends[m] + Cardinality(TicketsOf(m)) <= attemptCount[m]
  BY DEF CountInv
<1>2. /\ sends[m] \in Nat /\ attemptCount[m] \in Nat
      /\ attemptCount'[m] \in Nat /\ attemptCount'[m] >= attemptCount[m]
      /\ Cardinality(TicketsOf(m)) \in Nat
  BY <1>1, FS_CardinalityType DEF TypeInv, TypeOK
<1>3. CASE m = t.message
  <2>1. TicketsOf(m)' = TicketsOf(m) \ {t} /\ t \in TicketsOf(m)
    BY <1>3 DEF TicketsOf
  <2>2. /\ IsFiniteSet(TicketsOf(m)')
        /\ Cardinality(TicketsOf(m)') = Cardinality(TicketsOf(m)) - 1
    BY <1>1, <2>1, FS_RemoveElement
  <2>3. sends'[m] = sends[m] + 1
    BY <1>3 DEF TypeInv, TypeOK
  <2>. QED BY <1>1, <1>2, <2>2, <2>3
<1>4. CASE m # t.message
  <2>1. TicketsOf(m)' = TicketsOf(m)
    BY <1>4 DEF TicketsOf
  <2>2. sends'[m] = sends[m]
    BY <1>4 DEF TypeInv, TypeOK
  <2>. QED BY <1>1, <1>2, <2>1, <2>2
<1>. QED BY <1>3, <1>4

\* A claim counts an attempt for every ticket it hands out.
LEMMA CountClaim ==
  ASSUME TypeInv, CountInv, NEW w \in Workers, NEW batch \in SUBSET Messages,
         ClaimDue(w, batch)
  PROVE  CountInv'
<1>. SUFFICES ASSUME NEW m \in Messages
              PROVE  /\ IsFiniteSet(TicketsOf(m)')
                     /\ sends'[m] + Cardinality(TicketsOf(m)') <= attemptCount'[m]
  BY DEF CountInv
<1>1. IsFiniteSet(TicketsOf(m)) /\ sends[m] + Cardinality(TicketsOf(m)) <= attemptCount[m]
  BY DEF CountInv
<1>2. /\ sends'[m] = sends[m] /\ sends[m] \in Nat /\ attemptCount[m] \in Nat
      /\ attemptCount'[m] = IF m \in batch THEN attemptCount[m] + 1 ELSE attemptCount[m]
      /\ Cardinality(TicketsOf(m)) \in Nat
  BY <1>1, FS_CardinalityType DEF ClaimDue, Claim, TypeInv, TypeOK
<1>3. tickets' = tickets \union {TicketOf(w, n) : n \in batch}
  BY DEF ClaimDue
<1>4. CASE m \in batch
  <2>1. TicketsOf(m)' = TicketsOf(m) \union {TicketOf(w, m)}
    BY <1>3, <1>4 DEF TicketsOf, TicketOf
  <2>2. PICK more : more = TicketsOf(m) \union {TicketOf(w, m)}
    OBVIOUS
  <2>3. /\ IsFiniteSet(more)
        /\ \/ Cardinality(more) = Cardinality(TicketsOf(m))
           \/ Cardinality(more) = Cardinality(TicketsOf(m)) + 1
    BY <1>1, <2>2, FS_AddElement
  <2>4. TicketsOf(m)' = more
    BY <2>1, <2>2
  <2>. QED BY <1>1, <1>2, <1>4, <2>3, <2>4
<1>5. CASE m \notin batch
  <2>1. TicketsOf(m)' = TicketsOf(m)
    BY <1>3, <1>5 DEF TicketsOf, TicketOf
  <2>. QED BY <1>1, <1>2, <1>5, <2>1
<1>. QED BY <1>4, <1>5

LEMMA CountStep == TypeInv /\ CountInv /\ [Next]_vars => CountInv'
<1>. SUFFICES ASSUME TypeInv, CountInv, [Next]_vars PROVE CountInv'
  OBVIOUS
<1>. USE CountFewerTickets DEF rowVars, jobVars
<1>1. CASE UNCHANGED vars
  BY <1>1 DEF vars
<1>2. ASSUME NEW m \in Messages, MessageStep(m) PROVE CountInv'
  BY <1>2 DEF MessageStep, QueueNotification, ComeDue, FallSilent, RetryNotification
<1>3. ASSUME NEW w \in Workers, WorkerStep(w) PROVE CountInv'
  <2>1. CASE StartJob(w) \/ EndJob(w) \/ FailJob(w) \/ LoseLock(w) \/ Crash(w)
    BY <2>1 DEF StartJob, EndJob, FailJob, LoseLock, Crash
  <2>2. ASSUME NEW batch \in SUBSET Messages, RecoverStale(w, batch) PROVE CountInv'
    BY <2>2 DEF RecoverStale
  <2>. QED BY <1>3, <2>1, <2>2, CountClaim DEF WorkerStep
<1>4. ASSUME NEW t \in tickets \union sending, SendStep(t) PROVE CountInv'
  <2>1. CASE SendClaimed(t)
    <3>1. /\ t \in tickets /\ tickets' = tickets \ {t} /\ UNCHANGED attemptCount
          /\ sends' = [sends EXCEPT ![t.message] = @ + 1]
      BY <2>1 DEF SendClaimed, Dispatch
    <3>2. \A m \in Messages : attemptCount'[m] \in Nat /\ attemptCount'[m] >= attemptCount[m]
      BY <3>1 DEF TypeInv, TypeOK
    <3>. QED BY <3>1, <3>2, CountTicketSent
  <2>2. CASE ReclaimAndSend(t)
    <3>1. /\ t \in tickets /\ tickets' = tickets \ {t}
          /\ sends' = [sends EXCEPT ![t.message] = @ + 1]
      BY <2>2 DEF ReclaimAndSend, Dispatch, TicketOf
    <3>2. \A m \in Messages : attemptCount'[m] \in Nat /\ attemptCount'[m] >= attemptCount[m]
      BY <2>2 DEF ReclaimAndSend, Claim, TypeInv, TypeOK
    <3>. QED BY <3>1, <3>2, CountTicketSent
  <2>3. CASE FailExhausted(t) \/ SkipTicket(t) \/ MarkSent(t) \/ MarkFailed(t) \/ LoseAnswer(t)
    BY <2>3 DEF FailExhausted, SkipTicket, MarkSent, MarkFailed, LoseAnswer
  <2>. QED BY <1>4, <2>1, <2>2, <2>3 DEF SendStep
<1>. QED BY <1>1, <1>2, <1>3, <1>4 DEF Next

\* No notification is handed to a provider more often than its attempts were
\* counted, nor tried more often than its row allows, with or without the lock.
THEOREM SendsCounted == Spec => []SendsAreCounted
<1>1. TypeInv /\ CountInv => SendsAreCounted
  <2>. SUFFICES ASSUME TypeInv, CountInv, NEW m \in Messages
                PROVE  sends[m] <= attemptCount[m] /\ attemptCount[m] <= maxAttempts[m]
    BY DEF SendsAreCounted
  <2>1. /\ IsFiniteSet(TicketsOf(m))
        /\ sends[m] + Cardinality(TicketsOf(m)) <= attemptCount[m]
    BY DEF CountInv
  <2>. QED BY <2>1, FS_CardinalityType DEF TypeInv, TypeOK
<1>2. TypeInv /\ CountInv /\ [Next]_vars => (TypeInv /\ CountInv)'
  BY TypeStep, CountStep
<1>3. Init => TypeInv /\ CountInv
  BY TypeInit, CountInit
<1>. QED BY <1>1, <1>2, <1>3, PTL DEF Spec

-------------------------------------------------------------------------------
(* One sender at a time                                                      *)

\* A notification is in nobody's hand unless it is PROCESSING, and then in one,
\* as a ticket or as a call.
HandOf(m) ==
  /\ status[m] # "PROCESSING" => InHand(m) = {}
  /\ \A t, u \in InHand(m) : t = u
  /\ \A t \in InHand(m) : t \notin tickets \/ t \notin sending

\* So it is for each that was never taken from its worker.
HandInv == \A m \in Messages \ reopened : HandOf(m)

\* A step on other notifications leaves one in the same hand.
LEMMA HandKept ==
  ASSUME NEW m \in Messages, HandOf(m), status'[m] = status[m],
         \A u : u.message = m => (u \in tickets' <=> u \in tickets),
         \A u : u.message = m => (u \in sending' <=> u \in sending)
  PROVE  HandOf(m)'
<1>1. InHand(m)' = InHand(m)
  BY DEF InHand
<1>2. \A u \in InHand(m) : u.message = m
  BY DEF InHand
<1>. QED BY <1>1, <1>2 DEF HandOf

LEMMA HandStep == TypeInv /\ HandInv /\ [Next]_vars => HandInv'
<1>. SUFFICES ASSUME TypeInv, HandInv, [Next]_vars,
                     NEW m \in Messages, m \notin reopened'
              PROVE  HandOf(m)'
  BY DEF HandInv
<1>. USE DEF HandOf, InHand, rowVars, jobVars
<1>0. m \notin reopened /\ HandOf(m)
  <2>1. reopened \subseteq reopened'
    BY DEF Next, vars, MessageStep, QueueNotification, ComeDue, FallSilent, RetryNotification,
       WorkerStep, StartJob, EndJob, FailJob, LoseLock, Crash, RecoverStale, ClaimDue,
       SendStep, SendClaimed, ReclaimAndSend, FailExhausted, SkipTicket, MarkSent,
       MarkFailed, LoseAnswer
  <2>. QED BY <2>1 DEF HandInv
<1>1. CASE UNCHANGED vars
  BY <1>0, <1>1 DEF vars
<1>2. ASSUME NEW n \in Messages, MessageStep(n)
      PROVE  HandOf(m)'
  BY <1>0, <1>2 DEF MessageStep, QueueNotification, ComeDue, FallSilent, RetryNotification,
     TypeInv, TypeOK
<1>3. ASSUME NEW w \in Workers, WorkerStep(w)
      PROVE  HandOf(m)'
  <2>1. CASE StartJob(w) \/ EndJob(w) \/ FailJob(w) \/ LoseLock(w) \/ Crash(w)
    BY <1>0, <2>1 DEF StartJob, EndJob, FailJob, LoseLock, Crash
  <2>2. ASSUME NEW batch \in SUBSET Messages, RecoverStale(w, batch)
        PROVE  HandOf(m)'
    BY <1>0, <2>2 DEF RecoverStale
  <2>3. ASSUME NEW batch \in SUBSET Messages, ClaimDue(w, batch)
        PROVE  HandOf(m)'
    <3>1. /\ tickets' = tickets \union {TicketOf(w, n) : n \in batch}
          /\ sending' = sending
          /\ status'[m] = IF m \in batch THEN "PROCESSING" ELSE status[m]
          /\ m \in batch => status[m] # "PROCESSING"
      BY <2>3 DEF ClaimDue, Claim, Batch, DueNotifications
    <3>2. CASE m \in batch
      <4>1. InHand(m)' = {TicketOf(w, m)} /\ sending' \intersect InHand(m)' = {}
        BY <1>0, <3>1, <3>2 DEF TicketOf
      <4>2. status'[m] = "PROCESSING"
        BY <3>1, <3>2
      <4>. QED BY <4>1, <4>2
    <3>3. CASE m \notin batch
      BY <1>0, <3>1, <3>3, HandKept DEF TicketOf
    <3>. QED BY <3>2, <3>3
  <2>. QED BY <1>3, <2>1, <2>2, <2>3 DEF WorkerStep
<1>4. ASSUME NEW t \in tickets \union sending, SendStep(t)
      PROVE  HandOf(m)'
  <2>1. CASE SendClaimed(t) \/ SkipTicket(t) \/ LoseAnswer(t)
    BY <1>0, <2>1 DEF SendClaimed, Dispatch, SkipTicket, LoseAnswer
  <2>2. CASE ReclaimAndSend(t)
    <3>1. t \in InHand(t.message) /\ status[t.message] # "PROCESSING"
      BY <2>2 DEF ReclaimAndSend, Waiting
    <3>2. t.message # m
      BY <1>0, <3>1
    <3>3. /\ status'[m] = status[m]
          /\ \A u : u.message = m => (u \in tickets' <=> u \in tickets)
          /\ \A u : u.message = m => (u \in sending' <=> u \in sending)
      BY <2>2, <3>2 DEF ReclaimAndSend, Dispatch, TicketOf, Claim
    <3>. QED BY <1>0, <3>3, HandKept
  <2>3. CASE FailExhausted(t)
    <3>1. t.message # m
      BY <1>0, <2>3 DEF FailExhausted, Waiting
    <3>. QED BY <1>0, <2>3, <3>1 DEF FailExhausted, TypeInv, TypeOK
  <2>4. CASE MarkSent(t) \/ MarkFailed(t)
    <3>1. t \in sending /\ sending' = sending \ {t} /\ tickets' = tickets
      BY <2>4 DEF MarkSent, MarkFailed
    <3>2. CASE t.message = m
      <4>1. InHand(m)' = {}
        BY <1>0, <3>1, <3>2
      <4>. QED BY <4>1
    <3>3. CASE t.message # m
      <4>1. status'[m] = status[m]
        BY <2>4, <3>3 DEF MarkSent, MarkFailed, RetryLater, GiveUp, TypeInv, TypeOK
      <4>. QED BY <1>0, <3>1, <3>3, <4>1, HandKept
    <3>. QED BY <3>2, <3>3
  <2>. QED BY <1>4, <2>1, <2>2, <2>3, <2>4 DEF SendStep
<1>. QED BY <1>1, <1>2, <1>3, <1>4 DEF Next

\* Two workers have a notification in hand only if it was taken from the first.
THEOREM OneSender == Spec => []OneSenderUnlessReopened
<1>1. Init => HandInv
  BY DEF Init, HandInv, HandOf, InHand
<1>2. HandInv => OneSenderUnlessReopened
  BY DEF HandInv, HandOf, OneSenderUnlessReopened
<1>. QED BY <1>1, <1>2, HandStep, TypeInvariant, PTL DEF Spec

-------------------------------------------------------------------------------
(* The lock of the job                                                       *)

\* Who runs the job has its lock, if it did not lose it.
LockInv == \A w \in Running \ lockLost : lock = w

\* The job is run by one worker at a time, but for workers that lost the lock.
THEOREM OneRunnerOfTheJob == Spec => []OneRunner
<1>1. Init => LockInv
  BY DEF Init, LockInv, Running
<1>2. TypeInv /\ LockInv /\ [Next]_vars => LockInv'
  <2>. SUFFICES ASSUME TypeInv, LockInv, [Next]_vars PROVE LockInv'
    OBVIOUS
  <2>. USE NotificationsAssumption DEF LockInv, Running, TypeInv, TypeOK
  <2>1. CASE UNCHANGED jobVars
    BY <2>1 DEF jobVars
  <2>2. ASSUME NEW w \in Workers, WorkerStep(w) PROVE LockInv'
    BY <2>2 DEF WorkerStep, StartJob, EndJob, FailJob, LoseLock, Crash, Release,
       RecoverStale, ClaimDue
  <2>3. CASE UNCHANGED vars
    BY <2>1, <2>3 DEF vars
  <2>4. ASSUME NEW m \in Messages, MessageStep(m) PROVE UNCHANGED jobVars
    BY <2>4 DEF MessageStep, QueueNotification, ComeDue, FallSilent, RetryNotification
  <2>5. ASSUME NEW t \in tickets \union sending, SendStep(t) PROVE UNCHANGED jobVars
    BY <2>5 DEF SendStep, SendClaimed, ReclaimAndSend, FailExhausted, SkipTicket, MarkSent,
       MarkFailed, LoseAnswer
  <2>. QED BY <2>1, <2>2, <2>3, <2>4, <2>5 DEF Next
<1>3. LockInv => OneRunner
  BY DEF LockInv, OneRunner
<1>. QED BY <1>1, <1>2, <1>3, TypeInvariant, PTL DEF Spec

-------------------------------------------------------------------------------
(* What is sent stays sent                                                   *)

LEMMA SentStep ==
  ASSUME TypeInv, [Next]_vars, NEW m \in Messages, status[m] = "SENT"
  PROVE  status'[m] = "SENT"
<1>. USE DEF TypeInv, TypeOK, rowVars
<1>1. CASE UNCHANGED vars
  BY <1>1 DEF vars
<1>2. ASSUME NEW n \in Messages, MessageStep(n) PROVE status'[m] = "SENT"
  BY <1>2 DEF MessageStep, QueueNotification, ComeDue, FallSilent, RetryNotification
<1>3. ASSUME NEW w \in Workers, WorkerStep(w) PROVE status'[m] = "SENT"
  BY <1>3 DEF WorkerStep, StartJob, EndJob, FailJob, LoseLock, Crash, RecoverStale, ClaimDue,
     Claim, Batch, DueNotifications
<1>4. ASSUME NEW t \in tickets \union sending, SendStep(t) PROVE status'[m] = "SENT"
  BY <1>4 DEF SendStep, SendClaimed, ReclaimAndSend, FailExhausted, SkipTicket, MarkSent,
     MarkFailed, LoseAnswer, RetryLater, GiveUp, Waiting, Claim
<1>. QED BY <1>1, <1>2, <1>3, <1>4 DEF Next

\* No recovery, retry, claim or late failure makes a sent notification be sent again.
THEOREM SentStaysSent == Spec => SentIsFinal
<1>1. TypeInv /\ [Next]_vars =>
        [\A m \in Messages : status[m] = "SENT" => status'[m] = "SENT"]_vars
  BY SentStep
<1>. QED BY <1>1, TypeInvariant, PTL DEF Spec, SentIsFinal

-------------------------------------------------------------------------------
(* Announcements                                                             *)

ConfirmationsTold ==
  \A b \in Booked :
    bookingStatus[b] = "CONFIRMED" /\ Announced(Event("bookingConfirmation", b, 0))
    => Told(Event("bookingConfirmation", b, 0), contact[b], AllChannels)

CancellationsTold ==
  \A b \in Booked :
    bookingStatus[b] = "CANCELLED" /\ Announced(Event("bookingCancellation", b, 0))
    => Told(Event("bookingCancellation", b, 0), contact[b], AllChannels)

PaymentsTold ==
  \A b \in Booked :
    b \in paidBookings /\ Announced(Event("paymentSuccess", b, 0))
    => Told(Event("paymentSuccess", b, 0), contact[b], {"EMAIL"})

OffersTold ==
  \A e \in Entrant :
    offer[e].status = "OFFERED" /\ Announced(Offer(e))
    => Told(Offer(e), EntrantContact[e], EnabledChannels)

\* No malformed destination keeps the delays of the journey from everybody.
ContactsFormed == \A t \in Contacted(Booked) : t.destination \notin Malformed

DelaysTold ==
  \A v \in 1 .. delays :
    Announced(Delay(v)) /\ ContactsFormed
    => \A b \in delayed[v] : bookingStatus[b] = "CONFIRMED"
                             => Told(Delay(v), contact[b], AllChannels)

LEMMA EventsApart ==
  EventsAreAnnounced <=> /\ ConfirmationsTold /\ CancellationsTold /\ PaymentsTold
                         /\ OffersTold /\ DelaysTold
BY DEF EventsAreAnnounced, ConfirmationsTold, CancellationsTold, PaymentsTold, OffersTold,
   DelaysTold, ContactsFormed

\* Bookings that a delay was for were confirmed then; an offer has a number.
Witnesses ==
  /\ \A v \in 1 .. delays : \A b \in delayed[v] : bookingStatus[b] # "HELD"
  /\ \A e \in Entrant : offer[e].status = "OFFERED" => offer[e].number # 0

AnnouncementsInv == AnnouncementsTypeOK /\ Witnesses /\ EventsAreAnnounced

LEMMA EventFields ==
  \A kind, subject, version :
    /\ Event(kind, subject, version).kind = kind
    /\ Event(kind, subject, version).subject = subject
    /\ Event(kind, subject, version).version = version
BY DEF Event

\* A row that a callback makes, or one with its key, is there afterwards.
LEMMA CallbackTells ==
  ASSUME NEW call, RunCallback(call), NEW t \in Targets(call)
  PROVE  \E n \in notices' :
           /\ n.event = EventRead(call) /\ n.channel = t.channel
           /\ EventRead(call).kind = "journeyDelay" => n.destination = t.destination
<1> DEFINE new == [event |-> EventRead(call), channel |-> t.channel, destination |-> t.destination]
<1>1. /\ new.event = EventRead(call) /\ new.channel = t.channel /\ new.destination = t.destination
      /\ new \in {[event |-> EventRead(call), channel |-> u.channel, destination |-> u.destination] :
                    u \in Targets(call)}
  OBVIOUS
<1> HIDE DEF new
<1>2. \A r \in notices : r \in notices'
  BY DEF RunCallback
<1>3. CASE \E r \in notices : DeduplicationKey(r) = DeduplicationKey(new)
  <2>1. PICK r \in notices : DeduplicationKey(r) = DeduplicationKey(new)
    BY <1>3
  <2>2. /\ r.event = new.event /\ r.channel = new.channel
        /\ new.event.kind = "journeyDelay" => r.destination = new.destination
    BY <2>1 DEF DeduplicationKey
  <2> QED BY <1>1, <1>2, <2>2
<1>4. CASE \A r \in notices : DeduplicationKey(r) # DeduplicationKey(new)
  <2>1. new \in notices'
    BY <1>1, <1>4 DEF RunCallback
  <2> QED BY <1>1, <2>1
<1> QED BY <1>3, <1>4

LEMMA AnnouncementsStart == AnnouncementsInit => AnnouncementsInv
<1> SUFFICES ASSUME AnnouncementsInit PROVE AnnouncementsInv
  OBVIOUS
<1>1. AnnouncementsTypeOK
  BY AnnouncementsAssumption DEF AnnouncementsInit, AnnouncementsTypeOK
<1>2. Witnesses
  BY DEF AnnouncementsInit, Witnesses
<1>3. /\ ConfirmationsTold /\ CancellationsTold /\ PaymentsTold /\ OffersTold /\ DelaysTold
  BY DEF AnnouncementsInit, ConfirmationsTold, CancellationsTold, PaymentsTold, OffersTold,
     DelaysTold
<1> QED BY <1>1, <1>2, <1>3, EventsApart DEF AnnouncementsInv

LEMMA AnnouncementsTyped ==
  ASSUME AnnouncementsTypeOK, Witnesses, [AnnouncementsNext]_announcementVars
  PROVE  AnnouncementsTypeOK' /\ Witnesses'
<1> USE AnnouncementsAssumption DEF AnnouncementsTypeOK, Witnesses
<1>1. ASSUME NEW b \in Booked, ConfirmPaid(b) \/ CancelBooked(b) \/ RefundPaid(b)
      PROVE  AnnouncementsTypeOK' /\ Witnesses'
  <2>1. /\ bookingStatus' \in [Booked -> {"HELD", "CONFIRMED", "CANCELLED"}]
        /\ paidBookings' \subseteq Booked
        /\ \A c \in Booked : bookingStatus[c] # "HELD" => bookingStatus'[c] # "HELD"
        /\ UNCHANGED <<contact, offer, delays, delayed, notices, forgotten>>
    BY <1>1 DEF ConfirmPaid, CancelBooked, RefundPaid
  <2>2. calls' \subseteq Events
    BY <1>1 DEF ConfirmPaid, CancelBooked, RefundPaid, Events
  <2> QED BY <2>1, <2>2
<1>2. ASSUME NEW e \in Entrant, OfferSeatsTo(e) PROVE AnnouncementsTypeOK' /\ Witnesses'
  <2>1. /\ offer' = [offer EXCEPT ![e] = [status |-> "OFFERED", number |-> offer[e].number + 1]]
        /\ calls' = calls \union {Offer(e)'} /\ offer[e].number < MaxOffers
        /\ UNCHANGED <<contact, bookingStatus, paidBookings, delays, delayed, notices, forgotten>>
    BY <1>2 DEF OfferSeatsTo
  <2>2. offer[e].number \in 0 .. MaxOffers
    OBVIOUS
  <2>3. /\ offer[e].number + 1 \in 1 .. MaxOffers
        /\ offer'[e] = [status |-> "OFFERED", number |-> offer[e].number + 1]
    BY <2>1, <2>2
  <2>4. Offer(e)' \in Events
    BY <2>3 DEF Offer, Events
  <2>5. offer' \in [Entrant -> [status : {"WAITING", "OFFERED", "CONVERTED"}, number : 0 .. MaxOffers]]
    BY <2>1, <2>3
  <2>6. \A f \in Entrant : offer'[f].status = "OFFERED" => offer'[f].number # 0
    BY <2>1, <2>3
  <2> QED BY <2>1, <2>4, <2>5, <2>6
<1>3. ASSUME NEW e \in Entrant, OfferEnds(e) PROVE AnnouncementsTypeOK' /\ Witnesses'
  BY <1>3 DEF OfferEnds
<1>4. ASSUME NEW call \in calls, RunCallback(call) PROVE AnnouncementsTypeOK' /\ Witnesses'
  <2>1. /\ calls' \subseteq calls
        /\ UNCHANGED <<contact, bookingStatus, paidBookings, offer, delays, delayed, forgotten>>
    BY <1>4 DEF RunCallback
  <2>2. ASSUME NEW t \in Targets(call)
        PROVE  [event |-> EventRead(call), channel |-> t.channel, destination |-> t.destination] \in Notice
    <3> DEFINE T == Targets(call)
    <3>0. call \in Events
      OBVIOUS
    <3>1. \/ \E b \in Booked : \E channels \in SUBSET AllChannels : t \in Reached(contact[b], channels)
          \/ \E e \in Entrant : t \in Reached(EntrantContact[e], EnabledChannels)
          \/ t \in DelayTargets
      <4>1. CASE call.kind \in {"bookingConfirmation", "bookingCancellation", "paymentSuccess"}
        <5>1. call.subject \in Booked
          BY <3>0, <4>1, EventFields DEF Events, Delay
        <5> QED BY <2>2, <4>1, <5>1 DEF Targets, ConfirmationTargets, CancellationTargets,
                PaymentTargets, AllChannels
      <4>2. CASE call.kind = "waitlistOffer"
        <5>1. call.subject \in Entrant
          BY <3>0, <4>2, EventFields DEF Events, Delay
        <5> QED BY <2>2, <4>2, <5>1 DEF Targets, OfferTargets
      <4>3. CASE call.kind = "journeyDelay"
        BY <2>2, <4>3 DEF Targets
      <4>4. call.kind \in {"bookingConfirmation", "bookingCancellation", "paymentSuccess",
                           "waitlistOffer", "journeyDelay"}
        BY <3>0, EventFields DEF Events, Delay
      <4> QED BY <4>1, <4>2, <4>3, <4>4
    <3>2. t.channel \in AllChannels /\ t.destination \in Destinations \ Malformed
      <4>1. ASSUME NEW b \in Booked, NEW channels \in SUBSET AllChannels,
                   t \in Reached(contact[b], channels)
            PROVE  t.channel \in AllChannels /\ t.destination \in Destinations \ Malformed
        BY <4>1 DEF Reached, Destinations
      <4>2. ASSUME NEW e \in Entrant, t \in Reached(EntrantContact[e], EnabledChannels)
            PROVE  t.channel \in AllChannels /\ t.destination \in Destinations \ Malformed
        <5>1. PICK ch \in EnabledChannels :
                /\ t = [channel |-> ch, destination |-> EntrantContact[e][ch]]
                /\ EntrantContact[e][ch] \notin Malformed
          BY <4>2 DEF Reached
        <5>2. EntrantContact[e] \in Contacts \union {EntrantContact[f] : f \in Entrant}
              /\ ch \in AllChannels
          OBVIOUS
        <5>3. EntrantContact[e][ch] \in Destinations
          BY <5>2 DEF Destinations
        <5> QED BY <5>1, <5>2, <5>3
      <4>3. CASE t \in DelayTargets
        <5>1. t \in Contacted(Booked) /\ t.destination \notin Malformed
          BY <4>3 DEF DelayTargets, Contacted
        <5>2. PICK b \in Booked, ch \in AllChannels :
                t = [channel |-> ch, destination |-> contact[b][ch]]
          BY <5>1 DEF Contacted
        <5>3. contact[b] \in Contacts
          OBVIOUS
        <5>4. contact[b][ch] \in Destinations
          BY <5>3 DEF Destinations
        <5> QED BY <5>1, <5>2, <5>4
      <4> QED BY <3>1, <4>1, <4>2, <4>3
    <3>3. EventRead(call) \in Events
      <4>1. CASE call.kind = "waitlistOffer"
        <5>1. call.subject \in Entrant
          BY <3>0, <4>1, EventFields DEF Events, Delay
        <5>2. offer[call.subject].status = "OFFERED"
          BY <2>2, <4>1 DEF Targets, OfferTargets
        <5>3. offer[call.subject].number \in 1 .. MaxOffers
          BY <5>1, <5>2
        <5> QED BY <4>1, <5>1, <5>3 DEF EventRead, Offer, Events
      <4>2. CASE call.kind # "waitlistOffer"
        BY <3>0, <4>2 DEF EventRead
      <4> QED BY <4>1, <4>2
    <3> QED BY <3>2, <3>3 DEF Notice
  <2>3. notices' \subseteq Notice
    BY <1>4, <2>2 DEF RunCallback
  <2> QED BY <2>1, <2>3
<1>5. CASE DelayDeparture
  <2>1. /\ delays < MaxDelays /\ delays' = delays + 1
        /\ delayed' = [delayed EXCEPT ![delays + 1] = {b \in Booked : bookingStatus[b] = "CONFIRMED"}]
        /\ calls' = calls \union {Delay(delays + 1)}
        /\ UNCHANGED <<contact, bookingStatus, paidBookings, offer, notices, forgotten>>
    BY <1>5 DEF DelayDeparture, Delay
  <2>2. delays + 1 \in 1 .. MaxDelays
    BY <2>1
  <2>3. Delay(delays + 1) \in Events
    BY <2>2 DEF Events
  <2>4. \A v \in 1 .. delays' : v = delays + 1 \/ (v \in 1 .. delays /\ delayed'[v] = delayed[v])
    BY <2>1, <2>2
  <2>5. delayed'[delays + 1] = {b \in Booked : bookingStatus[b] = "CONFIRMED"}
    BY <2>1, <2>2
  <2>6. \A v \in 1 .. delays' : \A b \in delayed'[v] : bookingStatus'[b] # "HELD"
    BY <2>1, <2>4, <2>5
  <2> QED BY <2>1, <2>2, <2>3, <2>6
<1>6. CASE StopServer
  BY <1>6 DEF StopServer
<1>7. CASE UNCHANGED announcementVars
  BY <1>7 DEF announcementVars
<1> QED BY <1>1, <1>2, <1>3, <1>4, <1>5, <1>6, <1>7 DEF AnnouncementsNext

\* Events are told when their callbacks run, and stay told.
LEMMA TellingStep ==
  ASSUME AnnouncementsInv, [AnnouncementsNext]_announcementVars
  PROVE  /\ ConfirmationsTold' /\ CancellationsTold' /\ PaymentsTold' /\ OffersTold' /\ DelaysTold'
<1>typed. AnnouncementsTypeOK /\ Witnesses /\ AnnouncementsTypeOK' /\ Witnesses'
  BY AnnouncementsTyped DEF AnnouncementsInv
<1>told. /\ ConfirmationsTold /\ CancellationsTold /\ PaymentsTold /\ OffersTold /\ DelaysTold
  BY EventsApart DEF AnnouncementsInv
<1>1. ASSUME notices' = notices, contact' = contact,
             calls \union forgotten \subseteq (calls \union forgotten)',
             \A b \in Booked : bookingStatus'[b] = "CONFIRMED" /\ bookingStatus[b] # "CONFIRMED" =>
                                 Event("bookingConfirmation", b, 0) \in calls',
             \A b \in Booked : bookingStatus'[b] = "CANCELLED" /\ bookingStatus[b] # "CANCELLED" =>
                                 Event("bookingCancellation", b, 0) \in calls',
             \A b \in Booked : b \in paidBookings' \ paidBookings =>
                                 Event("paymentSuccess", b, 0) \in calls',
             \A e \in Entrant : offer'[e].status = "OFFERED" =>
                                  offer'[e] = offer[e] \/ Offer(e)' \in calls',
             \A v \in 1 .. delays' : Delay(v) \in calls' \/ (v \in 1 .. delays /\ delayed'[v] = delayed[v]),
             \A b \in Booked : bookingStatus'[b] = "CONFIRMED" => bookingStatus[b] \in {"CONFIRMED", "HELD"}
      PROVE  /\ ConfirmationsTold' /\ CancellationsTold' /\ PaymentsTold' /\ OffersTold' /\ DelaysTold'
  <2>1. ConfirmationsTold'
    BY <1>1, <1>told DEF ConfirmationsTold, Announced, Told
  <2>2. CancellationsTold'
    BY <1>1, <1>told DEF CancellationsTold, Announced, Told
  <2>3. PaymentsTold'
    BY <1>1, <1>told DEF PaymentsTold, Announced, Told
  <2>4. OffersTold'
    BY <1>1, <1>told DEF OffersTold, Announced, Told, Offer
  <2>5. DelaysTold'
    <3> SUFFICES ASSUME NEW v \in 1 .. delays', Announced(Delay(v))', ContactsFormed',
                        NEW b \in delayed'[v], bookingStatus'[b] = "CONFIRMED"
                 PROVE  Told(Delay(v), contact[b], AllChannels)'
      BY DEF DelaysTold, Delay
    <3>1. v \in 1 .. delays /\ delayed'[v] = delayed[v] /\ Announced(Delay(v))
      BY <1>1 DEF Announced, Delay
    <3>2. b \in Booked /\ bookingStatus[b] = "CONFIRMED"
      <4>1. v \in 1 .. MaxDelays
        BY <1>typed, <3>1, AnnouncementsAssumption DEF AnnouncementsTypeOK
      <4>2. b \in Booked
        BY <1>typed, <3>1, <4>1 DEF AnnouncementsTypeOK
      <4>3. bookingStatus[b] # "HELD"
        BY <1>typed, <3>1 DEF Witnesses
      <4> QED BY <1>1, <4>2, <4>3
    <3>3. ContactsFormed
      BY <1>1 DEF ContactsFormed, Contacted
    <3>4. Told(Delay(v), contact[b], AllChannels)
      BY <1>told, <3>1, <3>2, <3>3 DEF DelaysTold
    <3> QED BY <1>1, <3>4 DEF Told, Delay
  <2> QED BY <2>1, <2>2, <2>3, <2>4, <2>5
<1>2. ASSUME NEW b \in Booked, ConfirmPaid(b) \/ CancelBooked(b) \/ RefundPaid(b)
      PROVE  /\ ConfirmationsTold' /\ CancellationsTold' /\ PaymentsTold' /\ OffersTold' /\ DelaysTold'
  <2>1. /\ notices' = notices /\ contact' = contact /\ offer' = offer
        /\ delays' = delays /\ delayed' = delayed
        /\ calls \union forgotten \subseteq (calls \union forgotten)'
    BY <1>2 DEF ConfirmPaid, CancelBooked, RefundPaid
  <2>2. \A c \in Booked :
          /\ bookingStatus'[c] = "CONFIRMED" => bookingStatus[c] \in {"CONFIRMED", "HELD"}
          /\ bookingStatus'[c] = "CONFIRMED" /\ bookingStatus[c] # "CONFIRMED" =>
               Event("bookingConfirmation", c, 0) \in calls'
          /\ bookingStatus'[c] = "CANCELLED" /\ bookingStatus[c] # "CANCELLED" =>
               Event("bookingCancellation", c, 0) \in calls'
          /\ c \in paidBookings' \ paidBookings => Event("paymentSuccess", c, 0) \in calls'
    BY <1>2, <1>typed DEF ConfirmPaid, CancelBooked, RefundPaid, AnnouncementsTypeOK
  <2> QED BY <1>1, <2>1, <2>2
<1>3. ASSUME NEW e \in Entrant, OfferSeatsTo(e) \/ OfferEnds(e)
      PROVE  /\ ConfirmationsTold' /\ CancellationsTold' /\ PaymentsTold' /\ OffersTold' /\ DelaysTold'
  <2>1. /\ notices' = notices /\ contact' = contact /\ bookingStatus' = bookingStatus
        /\ paidBookings' = paidBookings /\ delays' = delays /\ delayed' = delayed
        /\ calls \union forgotten \subseteq (calls \union forgotten)'
    BY <1>3 DEF OfferSeatsTo, OfferEnds
  <2>2. \A f \in Entrant : offer'[f].status = "OFFERED" =>
                             offer'[f] = offer[f] \/ Offer(f)' \in calls'
    BY <1>3, <1>typed DEF OfferSeatsTo, OfferEnds, AnnouncementsTypeOK
  <2>3. \A c \in Booked : bookingStatus[c] = "CONFIRMED" => bookingStatus[c] \in {"CONFIRMED", "HELD"}
    OBVIOUS
  <2> QED BY <1>1, <2>1, <2>2, <2>3
<1>4. CASE DelayDeparture
  <2>1. /\ delays' = delays + 1 /\ delays \in Nat /\ delays + 1 \in 1 .. MaxDelays
        /\ delayed' = [delayed EXCEPT ![delays + 1] = {b \in Booked : bookingStatus[b] = "CONFIRMED"}]
        /\ calls' = calls \union {Delay(delays + 1)}
        /\ UNCHANGED <<contact, bookingStatus, paidBookings, offer, notices, forgotten>>
    BY <1>4, <1>typed, AnnouncementsAssumption DEF DelayDeparture, Delay, AnnouncementsTypeOK
  <2>2. \A v \in 1 .. delays' : Delay(v) \in calls' \/ (v \in 1 .. delays /\ delayed'[v] = delayed[v])
    BY <1>typed, <2>1 DEF AnnouncementsTypeOK
  <2> QED BY <1>1, <2>1, <2>2
<1>5. CASE StopServer \/ UNCHANGED announcementVars
  <2>1. /\ calls \union forgotten \subseteq (calls \union forgotten)'
        /\ UNCHANGED <<contact, bookingStatus, paidBookings, offer, delays, delayed, notices>>
    BY <1>5 DEF StopServer, announcementVars
  <2> QED BY <1>1, <2>1
<1>6. ASSUME NEW call \in calls, RunCallback(call)
      PROVE  /\ ConfirmationsTold' /\ CancellationsTold' /\ PaymentsTold' /\ OffersTold' /\ DelaysTold'
  <2>1. /\ calls' = calls \ {call} /\ notices \subseteq notices'
        /\ UNCHANGED <<contact, bookingStatus, paidBookings, offer, delays, delayed, forgotten>>
    BY <1>6 DEF RunCallback
  <2>2. \A event : Announced(event)' => Announced(event) \/ event = call
    BY <2>1 DEF Announced
  \* The row for each target, once the callback of the event itself has run
  <2>3. ASSUME NEW to, NEW channels, EventRead(call) = call,
               \A t \in Reached(to, channels) : t \in Targets(call)
        PROVE  \A t \in Reached(to, channels) :
                 \E n \in notices' : /\ n.event = call /\ n.channel = t.channel
                                     /\ call.kind = "journeyDelay" => n.destination = t.destination
    BY <1>6, <2>3, CallbackTells
  <2>4. ConfirmationsTold'
    <3> SUFFICES ASSUME NEW b \in Booked, bookingStatus[b] = "CONFIRMED",
                        Announced(Event("bookingConfirmation", b, 0))'
                 PROVE  Told(Event("bookingConfirmation", b, 0), contact[b], AllChannels)'
      BY <2>1 DEF ConfirmationsTold
    <3>1. CASE Event("bookingConfirmation", b, 0) = call
      <4>1. call.kind = "bookingConfirmation" /\ call.subject = b
        BY <3>1, EventFields
      <4>2. EventRead(call) = call /\ Targets(call) = Reached(contact[b], AllChannels)
        BY <4>1 DEF EventRead, Targets, ConfirmationTargets
      <4> QED BY <2>1, <2>3, <3>1, <4>2 DEF Told
    <3>2. CASE Announced(Event("bookingConfirmation", b, 0))
      <4>1. Told(Event("bookingConfirmation", b, 0), contact[b], AllChannels)
        BY <1>told, <3>2 DEF ConfirmationsTold
      <4> QED BY <2>1, <4>1 DEF Told
    <3> QED BY <2>2, <3>1, <3>2
  <2>5. CancellationsTold'
    <3> SUFFICES ASSUME NEW b \in Booked, bookingStatus[b] = "CANCELLED",
                        Announced(Event("bookingCancellation", b, 0))'
                 PROVE  Told(Event("bookingCancellation", b, 0), contact[b], AllChannels)'
      BY <2>1 DEF CancellationsTold
    <3>1. CASE Event("bookingCancellation", b, 0) = call
      <4>1. call.kind = "bookingCancellation" /\ call.subject = b
        BY <3>1, EventFields
      <4>2. EventRead(call) = call /\ Targets(call) = Reached(contact[b], AllChannels)
        BY <4>1 DEF EventRead, Targets, CancellationTargets
      <4> QED BY <2>1, <2>3, <3>1, <4>2 DEF Told
    <3>2. CASE Announced(Event("bookingCancellation", b, 0))
      <4>1. Told(Event("bookingCancellation", b, 0), contact[b], AllChannels)
        BY <1>told, <3>2 DEF CancellationsTold
      <4> QED BY <2>1, <4>1 DEF Told
    <3> QED BY <2>2, <3>1, <3>2
  <2>6. PaymentsTold'
    <3> SUFFICES ASSUME NEW b \in Booked, b \in paidBookings,
                        Announced(Event("paymentSuccess", b, 0))'
                 PROVE  Told(Event("paymentSuccess", b, 0), contact[b], {"EMAIL"})'
      BY <2>1 DEF PaymentsTold
    <3>1. CASE Event("paymentSuccess", b, 0) = call
      <4>1. call.kind = "paymentSuccess" /\ call.subject = b
        BY <3>1, EventFields
      <4>2. EventRead(call) = call /\ Targets(call) = Reached(contact[b], {"EMAIL"})
        BY <4>1 DEF EventRead, Targets, PaymentTargets
      <4> QED BY <2>1, <2>3, <3>1, <4>2 DEF Told
    <3>2. CASE Announced(Event("paymentSuccess", b, 0))
      <4>1. Told(Event("paymentSuccess", b, 0), contact[b], {"EMAIL"})
        BY <1>told, <3>2 DEF PaymentsTold
      <4> QED BY <2>1, <4>1 DEF Told
    <3> QED BY <2>2, <3>1, <3>2
  <2>7. OffersTold'
    <3> SUFFICES ASSUME NEW e \in Entrant, offer[e].status = "OFFERED", Announced(Offer(e))'
                 PROVE  Told(Offer(e), EntrantContact[e], EnabledChannels)'
      BY <2>1 DEF OffersTold
    <3>0. Offer(e)' = Offer(e)
      BY <2>1 DEF Offer
    <3>1. CASE Offer(e) = call
      <4>1. call.kind = "waitlistOffer" /\ call.subject = e
        BY <3>1, EventFields DEF Offer
      <4>2. EventRead(call) = call /\ Targets(call) = Reached(EntrantContact[e], EnabledChannels)
        BY <3>1, <4>1 DEF EventRead, Targets, OfferTargets
      <4> QED BY <2>1, <2>3, <3>0, <3>1, <4>2 DEF Told
    <3>2. CASE Announced(Offer(e))
      <4>1. Told(Offer(e), EntrantContact[e], EnabledChannels)
        BY <1>told, <3>2 DEF OffersTold
      <4> QED BY <2>1, <3>0, <4>1 DEF Told
    <3>3. Announced(Offer(e)) \/ Offer(e) = call
      BY <2>1, <3>0 DEF Announced
    <3> QED BY <3>1, <3>2, <3>3
  <2>8. DelaysTold'
    <3> SUFFICES ASSUME NEW v \in 1 .. delays, Announced(Delay(v))', ContactsFormed',
                        NEW b \in delayed[v], bookingStatus[b] = "CONFIRMED"
                 PROVE  Told(Delay(v), contact[b], AllChannels)'
      BY <2>1 DEF DelaysTold, Delay
    <3>1. b \in Booked /\ ContactsFormed
      <4>1. v \in 1 .. MaxDelays
        BY <1>typed, AnnouncementsAssumption DEF AnnouncementsTypeOK
      <4>2. b \in Booked
        BY <1>typed, <4>1 DEF AnnouncementsTypeOK
      <4>3. ContactsFormed
        BY <2>1 DEF ContactsFormed, Contacted
      <4> QED BY <4>2, <4>3
    <3>2. CASE Delay(v) = call
      <4>1. call.kind = "journeyDelay"
        BY <3>2, EventFields DEF Delay
      <4>2. EventRead(call) = call /\ Targets(call) = DelayTargets
        BY <4>1 DEF EventRead, Targets
      <4>3. \A t \in Reached(contact[b], AllChannels) : t \in DelayTargets
        BY <3>1 DEF Reached, DelayTargets, ContactsFormed, Contacted
      <4> QED BY <2>1, <2>3, <3>2, <4>2, <4>3 DEF Told, Delay
    <3>3. CASE Announced(Delay(v))
      <4>1. Told(Delay(v), contact[b], AllChannels)
        BY <1>told, <3>1, <3>3 DEF DelaysTold
      <4> QED BY <2>1, <4>1 DEF Told, Delay
    <3>4. Announced(Delay(v)) \/ Delay(v) = call
      BY <2>1 DEF Announced, Delay
    <3> QED BY <3>2, <3>3, <3>4
  <2> QED BY <2>4, <2>5, <2>6, <2>7, <2>8
<1> QED BY <1>2, <1>3, <1>4, <1>5, <1>6 DEF AnnouncementsNext

\* Whoever an event concerns has a notification of it once its callback has run,
\* on every channel that reaches him, unless the server stopped before.
THEOREM EventsReachPassengers == AnnouncementsSpec => []EventsAreAnnounced
<1>1. AnnouncementsInv /\ [AnnouncementsNext]_announcementVars => AnnouncementsInv'
  <2> SUFFICES ASSUME AnnouncementsInv, [AnnouncementsNext]_announcementVars
               PROVE  AnnouncementsInv'
    OBVIOUS
  <2>1. AnnouncementsTypeOK' /\ Witnesses'
    BY AnnouncementsTyped DEF AnnouncementsInv
  <2>2. EventsAreAnnounced'
    <3>1. /\ ConfirmationsTold' /\ CancellationsTold' /\ PaymentsTold' /\ OffersTold' /\ DelaysTold'
      BY TellingStep
    <3>2. (ConfirmationsTold /\ CancellationsTold /\ PaymentsTold /\ OffersTold /\ DelaysTold
           => EventsAreAnnounced)'
      BY EventsApart, PTL
    <3> QED BY <3>1, <3>2
  <2> QED BY <2>1, <2>2 DEF AnnouncementsInv
<1>2. AnnouncementsInv => EventsAreAnnounced
  BY DEF AnnouncementsInv
<1> QED BY <1>1, <1>2, AnnouncementsStart, PTL DEF AnnouncementsSpec

===============================================================================
