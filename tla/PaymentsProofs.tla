----------------------------- MODULE PaymentsProofs -----------------------------
(***************************************************************************)
(* Theorems about Payments for any cards, slips and batch size.             *)
(***************************************************************************)
EXTENDS Payments, TLAPS

\* Which statuses an attempt goes through depends on its method.
CardStatus == {"NONE", "PENDING", "PROCESSING", "PAID", "FAILED", "CANCELLED"}
SlipPaymentStatus == {"NONE", "PENDING", "AWAITING_VERIFICATION", "PAID", "REJECTED"}

StatusInv ==
  /\ \A c \in Cards : status[c] \in CardStatus /\ seen[c] \in CardStatus \ {"FAILED", "CANCELLED"}
  /\ \A k \in Slips : status[k] \in SlipPaymentStatus
  /\ \A p \in Attempts : /\ found[p] # "NONE" => seen[p] # "NONE"
                         /\ seen[p] # "NONE" => status[p] # "NONE"

\* What the server, its job and the webhooks may conclude about an intent.
ProviderInv ==
  /\ \A c \in Cards :
       /\ status[c] = "NONE" => intent[c] = "NONE"
       /\ {status[c], seen[c]} \intersect {"PROCESSING", "PAID"} # {} => intent[c] \in IntentStatus
       /\ found[c] = "succeeded" => intent[c] = "succeeded"
  /\ \A c \in calling :
       status[c] = "PENDING" /\ seen[c] = "NONE" /\ intent[c] \in {"NONE", "UNCLAIMED"}
  /\ \A e \in sent :
       /\ intent[e.payment] \in IntentStatus
       /\ e.type = "succeeded" => intent[e.payment] = "succeeded"

Inv == TypeOK /\ StatusInv /\ ProviderInv

LEMMA InvInit == Init => Inv
BY DEF Init, Inv, TypeOK, StatusInv, ProviderInv, Attempts, CardStatus, SlipPaymentStatus,
   PaymentStatus, IntentStatus, SlipStatus, Events

\* The steps that touch only the booking.
LEMMA BookingSteps ==
  ASSUME Inv, Lapse \/ ExpireBooking \/ CancelBooking \/ UNCHANGED vars
  PROVE  Inv'
BY DEF Lapse, ExpireBooking, CancelBooking, vars, serverVars, stripeVars, jobVars,
   Inv, TypeOK, StatusInv, ProviderInv, Attempts

LEMMA CreationSteps ==
  ASSUME Inv,
         \/ \E p \in Attempts : CreateAttempt(p)
         \/ \E c \in Cards : AttachIntent(c) \/ CreateIntentFails(c) \/ LoseRequest(c)
                             \/ CreateIntent(c)
  PROVE  Inv'
<1>. USE DEF serverVars, stripeVars, jobVars, Inv, TypeOK, StatusInv, ProviderInv, Attempts,
        PaymentStatus, CardStatus, SlipPaymentStatus, IntentStatus
<1>1. ASSUME NEW p \in Attempts, CreateAttempt(p) PROVE Inv'
  BY <1>1, AttemptsAssumption DEF CreateAttempt, MayAttempt
<1>2. ASSUME NEW c \in Cards, AttachIntent(c) PROVE Inv'
  BY <1>2, AttemptsAssumption DEF AttachIntent
<1>3. ASSUME NEW c \in Cards, CreateIntentFails(c) \/ LoseRequest(c) PROVE Inv'
  BY <1>3, AttemptsAssumption DEF CreateIntentFails, LoseRequest
<1>4. ASSUME NEW c \in Cards, CreateIntent(c) PROVE Inv'
  BY <1>4, AttemptsAssumption DEF CreateIntent
<1>. QED BY <1>1, <1>2, <1>3, <1>4

\* The steps of Stripe, and the delivery of its events.
LEMMA StripeSteps ==
  ASSUME Inv,
         \/ \E c \in Cards : StripeStep(c)
         \/ \E e \in Events : ProcessEvent(e) \/ SettleWithoutEffect(e)
  PROVE  Inv'
<1>. USE DEF serverVars, stripeVars, jobVars, Inv, TypeOK, StatusInv, ProviderInv, Attempts,
        IntentStatus, Events, EventTarget
<1>1. ASSUME NEW c \in Cards, StripeStep(c) PROVE Inv'
  <2>1. PICK step \in IntentSteps :
          /\ intent[c] = step[1]
          /\ intent' = [intent EXCEPT ![c] = step[2]]
          /\ sent' = sent \union {[payment |-> c, type |-> step[3]]}
    BY <1>1 DEF StripeStep
  <2>2. /\ step[2] \in IntentStatus /\ step[3] \in DOMAIN EventTarget
        /\ step[1] # "NONE" /\ step[1] # "succeeded"
        /\ step[3] = "succeeded" => step[2] = "succeeded"
    BY DEF IntentSteps
  <2>3. /\ c \notin calling
        /\ UNCHANGED <<booking, hold, status, slip, serverVars, settled, jobVars, beside>>
    BY <1>1 DEF StripeStep
  <2>. QED BY <2>1, <2>2, <2>3
<1>2. ASSUME NEW e \in Events, SettleWithoutEffect(e) PROVE Inv'
  BY <1>2 DEF SettleWithoutEffect
<1>3. ASSUME NEW e \in Events, ProcessEvent(e) PROVE Inv'
  <2>1. PICK c \in Cards : c = e.payment /\ intent[c] \in IntentStatus /\ c \notin calling
    BY <1>3 DEF ProcessEvent
  <2>2. /\ status' = [status EXCEPT ![c] = EventTarget[e.type]]
        /\ settled' = settled \union {e}
        /\ UNCHANGED <<slip, serverVars, stripeVars, jobVars, beside>>
        /\ status[c] \in CardStatus \ {"NONE"}
    BY <1>3, <2>1 DEF ProcessEvent, EventEffect, CanTransition, Targets, CardStatus
  <2>3. EventTarget[e.type] \in {"PAID", "PROCESSING", "FAILED", "CANCELLED"}
    OBVIOUS
  <2>4. booking' \in {booking, "CONFIRMED"} /\ hold' \in {hold, "none"}
    BY <1>3 DEF ProcessEvent, EventEffect, CompletePaidBooking
  <2>. QED BY <2>1, <2>2, <2>3, <2>4, AttemptsAssumption
          DEF PaymentStatus, CardStatus, SlipPaymentStatus
<1>. QED BY <1>1, <1>2, <1>3

LEMMA BankSlipSteps ==
  ASSUME Inv, NEW k \in Slips,
         \/ BeginUpload(k) \/ FinishUpload(k) \/ AbandonUpload(k)
         \/ ApproveBankSlip(k) \/ RejectBankSlip(k) \/ ReconcileRejected(k)
  PROVE  Inv'
<1>. USE AttemptsAssumption DEF serverVars, stripeVars, jobVars, Inv, TypeOK, StatusInv,
         ProviderInv, Attempts,
        PaymentStatus, SlipPaymentStatus, SlipStatus
<1>1. CASE BeginUpload(k) \/ FinishUpload(k) \/ AbandonUpload(k)
  BY <1>1 DEF BeginUpload, FinishUpload, AbandonUpload, LiveAttempts
<1>2. CASE ApproveBankSlip(k)
  BY <1>2 DEF ApproveBankSlip, CompletePaidBooking
<1>3. CASE RejectBankSlip(k)
  BY <1>3 DEF RejectBankSlip
<1>4. CASE ReconcileRejected(k)
  BY <1>4 DEF ReconcileRejected, LeaveRecord
<1>. QED BY <1>1, <1>2, <1>3, <1>4

LEMMA JobSteps ==
  ASSUME Inv,
         \/ \E batch \in SUBSET Attempts : FetchCandidates(batch)
         \/ \E p \in Attempts : Retrieve(p) \/ DropRecord(p)
         \/ \E c \in Cards : ReconcileCaptured(c) \/ ReconcileFailed(c)
  PROVE  Inv'
<1>. USE AttemptsAssumption DEF serverVars, stripeVars, jobVars, Inv, TypeOK, StatusInv,
         ProviderInv, Attempts,
        IntentStatus
<1>1. ASSUME NEW batch \in SUBSET Attempts, FetchCandidates(batch) PROVE Inv'
  BY <1>1 DEF FetchCandidates, Candidates, ActiveAttempt, CardStatus, PaymentStatus
<1>2. ASSUME NEW p \in Attempts, Retrieve(p) PROVE Inv'
  <2>1. CASE p \in Slips /\ found' = [found EXCEPT ![p] = slip[p]]
    BY <1>2, <2>1 DEF Retrieve, SlipStatus
  <2>2. CASE p \in Cards /\ found' = [found EXCEPT ![p] = intent[p]] /\ seen[p] # "PENDING"
    BY <1>2, <2>2 DEF Retrieve, CardStatus
  <2>. QED BY <1>2, <2>1, <2>2 DEF Retrieve
<1>3. ASSUME NEW p \in Attempts, DropRecord(p) PROVE Inv'
  BY <1>3 DEF DropRecord, LeaveRecord, PaymentStatus, CardStatus
<1>4. ASSUME NEW c \in Cards, ReconcileCaptured(c) PROVE Inv'
  BY <1>4 DEF ReconcileCaptured, LeaveRecord, CompletePaidBooking, PaymentStatus, CardStatus
<1>5. ASSUME NEW c \in Cards, ReconcileFailed(c) PROVE Inv'
  BY <1>5 DEF ReconcileFailed, LeaveRecord, PaymentStatus, CardStatus
<1>. QED BY <1>1, <1>2, <1>3, <1>4, <1>5

LEMMA InvNext == Inv /\ [Next]_vars => Inv'
BY BookingSteps, CreationSteps, StripeSteps, BankSlipSteps, JobSteps DEF Next, CardStep, SlipStep

\* Every variable keeps to its type, statuses to those of the method.
THEOREM TypeCorrect == Spec => []TypeOK
<1>1. Inv => TypeOK
  BY DEF Inv
<1>. QED BY <1>1, InvInit, InvNext, PTL DEF Spec

\* Who confirms the booking leaves it, and nothing undoes a confirmation by
\* making it HELD again.
BookingInv == hold = "none" => booking # "HELD"

LEMMA BookingInvariant == Spec => []BookingInv
<1>1. Init => BookingInv
  BY DEF Init, BookingInv
<1>2. BookingInv /\ [Next]_vars => BookingInv'
  BY DEF BookingInv, Next, vars, serverVars, stripeVars, jobVars, CompletePaidBooking, Lapse,
     ExpireBooking, CancelBooking, CreateAttempt, CardStep, AttachIntent, CreateIntentFails,
     LoseRequest, CreateIntent, StripeStep, ProcessEvent, EventEffect, SettleWithoutEffect,
     SlipStep, BeginUpload, FinishUpload, AbandonUpload, ApproveBankSlip, RejectBankSlip,
     FetchCandidates, Retrieve, DropRecord, ReconcileCaptured, ReconcileFailed, ReconcileRejected
<1>. QED BY <1>1, <1>2, PTL DEF Spec

\* What a step may do to the live attempts: none is added and no record of a
\* slip's upload beside another is lost, a first one is created, or a rejected
\* slip is handed in again, which records all that are live.
NoneAdded ==
  /\ \A p \in Attempts : Live(p)' => Live(p)
  /\ \A k \in Slips : Live(k)' => beside'[k] = beside[k]

FirstCreated ==
  /\ LiveAttempts = {}
  /\ \E p \in Attempts : \A q \in Attempts : Live(q)' => q = p

HandedInAgain(k) ==
  /\ \A p \in Attempts : Live(p)' => p = k \/ Live(p)
  /\ beside' = [beside EXCEPT ![k] = LiveAttempts]

LEMMA LiveSteps ==
  ASSUME Inv, [Next]_vars
  PROVE  NoneAdded \/ FirstCreated \/ \E k \in Slips : HandedInAgain(k)
<1>. USE AttemptsAssumption DEF Inv, TypeOK, StatusInv, ProviderInv, Attempts, Live, ActiveAttempt,
       serverVars, stripeVars, jobVars
<1>1. CASE UNCHANGED <<status, beside>>
  BY <1>1 DEF NoneAdded
<1>2. ASSUME NEW p \in Attempts, CreateAttempt(p) PROVE FirstCreated
  BY <1>2 DEF CreateAttempt, MayAttempt, FirstCreated, LiveAttempts
<1>3. ASSUME NEW c \in Cards, AttachIntent(c) \/ CreateIntentFails(c) PROVE NoneAdded
  BY <1>3 DEF AttachIntent, CreateIntentFails, NoneAdded
<1>4. ASSUME NEW c \in Cards, ReconcileCaptured(c) \/ ReconcileFailed(c) PROVE NoneAdded
  BY <1>4 DEF ReconcileCaptured, ReconcileFailed, CanTransition, Targets, CardStatus, NoneAdded
<1>5. ASSUME NEW e \in Events, ProcessEvent(e) PROVE NoneAdded
  <2>1. PICK c \in Cards : c = e.payment /\ EventEffect(e) /\ UNCHANGED beside
    BY <1>5 DEF ProcessEvent, Events
  <2>2. EventTarget[e.type] \in {"PAID", "PROCESSING", "FAILED", "CANCELLED"}
    BY DEF Events, EventTarget
  <2>. QED BY <2>1, <2>2 DEF EventEffect, CanTransition, Targets, CardStatus, NoneAdded
<1>6. ASSUME NEW k \in Slips, SlipStep(k) PROVE NoneAdded \/ HandedInAgain(k)
  <2>1. CASE BeginUpload(k) \/ AbandonUpload(k)
    BY <2>1 DEF BeginUpload, AbandonUpload, NoneAdded
  <2>2. CASE FinishUpload(k) /\ status[k] = "REJECTED"
    BY <2>2 DEF FinishUpload, HandedInAgain
  <2>3. CASE FinishUpload(k) /\ status[k] = "PENDING"
    BY <2>3 DEF FinishUpload, NoneAdded
  <2>4. CASE ApproveBankSlip(k)
    BY <2>4 DEF ApproveBankSlip, NoneAdded
  <2>5. CASE RejectBankSlip(k) \/ ReconcileRejected(k)
    BY <2>5 DEF RejectBankSlip, ReconcileRejected, NoneAdded
  <2>. QED BY <1>6, <2>1, <2>2, <2>3, <2>4, <2>5 DEF SlipStep, FinishUpload
<1>. QED BY <1>1, <1>2, <1>3, <1>4, <1>5, <1>6
        DEF Next, vars, CardStep, Lapse, ExpireBooking, CancelBooking, LoseRequest, CreateIntent,
            StripeStep, SettleWithoutEffect, FetchCandidates, Retrieve, DropRecord

\* Two attempts of a booking are under way or paid at once only if one is a slip
\* that was rejected and handed in again while the other was already live.
THEOREM OneLiveAttemptAtATime == Spec => []OneLiveAttempt
<1>1. Init => OneLiveAttempt
  BY DEF Init, OneLiveAttempt, LiveAttempts, Live, ActiveAttempt
<1>2. Inv /\ OneLiveAttempt /\ [Next]_vars => OneLiveAttempt'
  <2>. SUFFICES ASSUME Inv, OneLiveAttempt, [Next]_vars, NEW p \in Attempts, NEW q \in Attempts,
                       p # q, Live(p)', Live(q)'
                PROVE  \E k \in {p, q} \intersect Slips : {p, q} \subseteq {k} \union beside'[k]
    BY DEF OneLiveAttempt, LiveAttempts
  <2>1. CASE NoneAdded
    <3>1. PICK k \in {p, q} \intersect Slips : {p, q} \subseteq {k} \union beside[k]
      BY <2>1 DEF NoneAdded, OneLiveAttempt, LiveAttempts
    <3>. QED BY <2>1, <3>1 DEF NoneAdded
  <2>2. CASE FirstCreated
    BY <2>2 DEF FirstCreated
  <2>3. ASSUME NEW k \in Slips, HandedInAgain(k)
        PROVE  \E j \in {p, q} \intersect Slips : {p, q} \subseteq {j} \union beside'[j]
    <3>1. CASE k \in {p, q}
      <4>1. {p, q} \subseteq {k} \union LiveAttempts
        BY <2>3 DEF HandedInAgain, LiveAttempts
      <4>2. beside'[k] = LiveAttempts
        BY <2>3 DEF HandedInAgain, Inv, TypeOK
      <4>. QED BY <3>1, <4>1, <4>2
    <3>2. CASE k \notin {p, q}
      <4>1. PICK j \in {p, q} \intersect Slips : {p, q} \subseteq {j} \union beside[j]
        BY <2>3, <3>2 DEF HandedInAgain, OneLiveAttempt, LiveAttempts
      <4>2. beside'[j] = beside[j]
        BY <2>3, <3>2, <4>1 DEF HandedInAgain, Inv, TypeOK
      <4>. QED BY <4>1, <4>2
    <3>. QED BY <3>1, <3>2
  <2>. QED BY <2>1, <2>2, <2>3, LiveSteps
<1>3. Spec => []Inv
  BY InvInit, InvNext, PTL DEF Spec
<1>. QED BY <1>1, <1>2, <1>3, PTL DEF Spec

\* No paid booking waits to be confirmed while its hold runs.
THEOREM PaidHoldConfirmed == Spec => []PaidHoldIsConfirmed
<1>1. Init => PaidHoldIsConfirmed
  BY DEF Init, PaidHoldIsConfirmed, Attempts
<1>2. Inv /\ BookingInv /\ PaidHoldIsConfirmed /\ [Next]_vars => PaidHoldIsConfirmed'
  <2>. SUFFICES ASSUME Inv, BookingInv, PaidHoldIsConfirmed, [Next]_vars
                PROVE  PaidHoldIsConfirmed'
    OBVIOUS
  <2>. USE AttemptsAssumption DEF Inv, TypeOK, Attempts, PaidHoldIsConfirmed, BookingInv,
             serverVars, stripeVars, jobVars
  <2>1. CASE CompletePaidBooking
    BY <2>1 DEF CompletePaidBooking
  <2>2. ASSUME \A p \in Attempts : status'[p] = "PAID" => status[p] = "PAID",
               booking' = "HELD" => booking = "HELD" /\ hold' \in {hold, "lapsed"}
        PROVE  PaidHoldIsConfirmed'
    BY <2>2
  <2>3. CASE Lapse \/ ExpireBooking \/ CancelBooking \/ UNCHANGED vars
    BY <2>2, <2>3 DEF Lapse, ExpireBooking, CancelBooking, vars
  <2>4. ASSUME NEW p \in Attempts, CreateAttempt(p) \/ Retrieve(p) \/ DropRecord(p)
        PROVE  PaidHoldIsConfirmed'
    BY <2>2, <2>4 DEF CreateAttempt, Retrieve, DropRecord
  <2>5. ASSUME NEW c \in Cards, CardStep(c) PROVE PaidHoldIsConfirmed'
    BY <2>1, <2>2, <2>5 DEF CardStep, AttachIntent, CreateIntentFails, LoseRequest, CreateIntent,
       StripeStep, ReconcileCaptured, ReconcileFailed
  <2>6. ASSUME NEW k \in Slips, SlipStep(k) PROVE PaidHoldIsConfirmed'
    BY <2>1, <2>2, <2>6 DEF SlipStep, BeginUpload, FinishUpload, AbandonUpload, ApproveBankSlip,
       RejectBankSlip, ReconcileRejected
  <2>7. ASSUME NEW e \in Events, ProcessEvent(e) \/ SettleWithoutEffect(e)
        PROVE  PaidHoldIsConfirmed'
    <3>1. CASE SettleWithoutEffect(e)
      BY <2>2, <3>1 DEF SettleWithoutEffect
    <3>2. CASE ProcessEvent(e) /\ e.type = "succeeded"
      BY <2>1, <3>2 DEF ProcessEvent, EventEffect
    <3>3. CASE ProcessEvent(e) /\ e.type # "succeeded"
      <4>1. EventTarget[e.type] # "PAID"
        BY <3>3 DEF Events, EventTarget
      <4>. QED BY <2>2, <3>3, <4>1 DEF ProcessEvent, EventEffect, Events
    <3>. QED BY <2>7, <3>1, <3>2, <3>3
  <2>8. ASSUME NEW batch \in SUBSET Attempts, FetchCandidates(batch) PROVE PaidHoldIsConfirmed'
    BY <2>2, <2>8 DEF FetchCandidates
  <2>. QED BY <2>3, <2>4, <2>5, <2>6, <2>7, <2>8 DEF Next
<1>3. Spec => []Inv
  BY InvInit, InvNext, PTL DEF Spec
<1>. QED BY <1>1, <1>2, <1>3, BookingInvariant, PTL DEF Spec

\* The step of a booking's confirmation records a payment whose money came.
Confirms(p) == status[p] # "PAID" /\ status'[p] = "PAID" /\ Captured(p)'

LEMMA ConfirmationStep ==
  ASSUME Inv, PaidHoldIsConfirmed, [Next]_vars, booking # "CONFIRMED", booking' = "CONFIRMED"
  PROVE  \E p \in Attempts : Confirms(p)
<1>. USE AttemptsAssumption DEF Inv, TypeOK, ProviderInv, Attempts, serverVars, stripeVars, jobVars
<1>1. ASSUME NEW p \in Attempts, CompletePaidBooking PROVE status[p] # "PAID"
  BY <1>1 DEF CompletePaidBooking, PaidHoldIsConfirmed
<1>2. ASSUME NEW c \in Cards, ReconcileCaptured(c) PROVE Confirms(c)
  BY <1>1, <1>2 DEF ReconcileCaptured, Confirms, Captured
<1>3. ASSUME NEW k \in Slips, ApproveBankSlip(k) PROVE Confirms(k)
  BY <1>1, <1>3 DEF ApproveBankSlip, Confirms, Captured
<1>4. ASSUME NEW e \in Events, ProcessEvent(e) PROVE e.payment \in Cards /\ Confirms(e.payment)
  BY <1>1, <1>4 DEF ProcessEvent, EventEffect, Confirms, Captured, Events, EventTarget
<1>. QED BY <1>2, <1>3, <1>4
        DEF Next, vars, Lapse, ExpireBooking, CancelBooking, CreateAttempt, Retrieve, DropRecord,
            CardStep, AttachIntent, CreateIntentFails, LoseRequest, CreateIntent, StripeStep,
            ReconcileFailed, SlipStep, BeginUpload, FinishUpload, AbandonUpload, RejectBankSlip,
            ReconcileRejected, SettleWithoutEffect, FetchCandidates

\* No booking is confirmed by a payment whose money has not arrived.
THEOREM MoneyConfirms == Spec => ConfirmedByMoney
<1>1. Inv /\ PaidHoldIsConfirmed /\ [Next]_vars =>
        [booking # "CONFIRMED" /\ booking' = "CONFIRMED" =>
           \E p \in Attempts : status[p] # "PAID" /\ status'[p] = "PAID" /\ Captured(p)']_vars
  BY ConfirmationStep DEF Confirms
<1>2. Spec => []Inv
  BY InvInit, InvNext, PTL DEF Spec
<1>. QED BY <1>1, <1>2, PaidHoldConfirmed, PTL DEF Spec, ConfirmedByMoney

LEMMA TransitionStep ==
  ASSUME Inv, [Next]_vars, NEW p \in Attempts, status[p] # "NONE", found[p] = "NONE"
  PROVE  CanTransition(status[p], status'[p])
<1>. USE AttemptsAssumption DEF Inv, TypeOK, StatusInv, ProviderInv, Attempts, CanTransition,
         Targets,
       serverVars, stripeVars, jobVars
<1>1. CASE status'[p] = status[p]
  BY <1>1
<1>2. ASSUME NEW q \in Attempts, CreateAttempt(q) PROVE status'[p] = status[p]
  BY <1>2 DEF CreateAttempt, MayAttempt
<1>3. ASSUME NEW c \in Cards, CardStep(c) PROVE CanTransition(status[p], status'[p])
  BY <1>3 DEF CardStep, AttachIntent, CreateIntentFails, LoseRequest, CreateIntent, StripeStep,
     ReconcileCaptured, ReconcileFailed
<1>4. ASSUME NEW k \in Slips, SlipStep(k) PROVE CanTransition(status[p], status'[p])
  BY <1>4 DEF SlipStep, BeginUpload, FinishUpload, AbandonUpload, ApproveBankSlip, RejectBankSlip,
     ReconcileRejected
<1>5. ASSUME NEW e \in Events, ProcessEvent(e) PROVE CanTransition(status[p], status'[p])
  BY <1>5 DEF ProcessEvent, EventEffect, Events
<1>. QED BY <1>1, <1>2, <1>3, <1>4, <1>5
        DEF Next, vars, Lapse, ExpireBooking, CancelBooking, Retrieve, DropRecord,
            SettleWithoutEffect, FetchCandidates

\* Only the job's unlocked updates change a payment against TRANSITIONS.
THEOREM TransitionsRespected == Spec => TransitionsOutsideReconciliation
<1>1. Inv /\ [Next]_vars =>
        [\A p \in Attempts : status[p] # "NONE" /\ found[p] = "NONE" =>
           CanTransition(status[p], status'[p])]_vars
  BY TransitionStep
<1>2. Spec => []Inv
  BY InvInit, InvNext, PTL DEF Spec
<1>. QED BY <1>1, <1>2, PTL DEF Spec, TransitionsOutsideReconciliation
===============================================================================
