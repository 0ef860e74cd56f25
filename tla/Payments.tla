-------------------------------- MODULE Payments --------------------------------
(***************************************************************************)
(* The payment attempts of one booking: card payments through Stripe, bank  *)
(* slips reviewed by an administrator, Stripe's webhooks and the            *)
(* reconciliation job.  Translated from modules/payments/: payment.service, *)
(* bank-slip.service, stripe-webhook.service, payment-reconciliation        *)
(* .service and payment.repository.                                         *)
(*                                                                          *)
(* A transaction is one step.  A call to Stripe, a file upload and the      *)
(* records a job has read lie between two steps of the server, and anybody  *)
(* else may act in between.  Stripe is external: an intent, and events that *)
(* arrive late, twice, in any order or never.                               *)
(***************************************************************************)
EXTENDS PaymentStatuses, FiniteSets, Naturals

CONSTANTS
  Cards,  \* ids of card payments
  Slips,  \* ids of bank-slip payments
  BatchSize  \* payments the reconciliation job reads at once

ASSUME AttemptsAssumption == Cards \intersect Slips = {} /\ BatchSize \in Nat \ {0}

VARIABLES
  booking,    \* bookings.status
  hold,       \* bookings.hold_expires_at: running, lapsed, or none (NULL)
  status,     \* payments.status, NONE before the row exists
  slip,       \* status of the latest row of bank_payment_slips, per payment
  calling,    \* card payments whose request waits for Stripe's intent
  uploading,  \* slip payments whose upload passed its first checks
  intent,     \* Stripe's PaymentIntent, per card payment
  sent,       \* events Stripe emitted, each delivered any number of times
  settled,    \* events with a row in payment_webhook_events
  seen,       \* status the reconciliation job read, per record of its batch
  found,      \* what it then read of the intent or slip
  beside      \* history: the attempts that were live when a rejected slip was
              \* handed in again, until its next rejection

serverVars == <<calling, uploading>>
stripeVars == <<intent, sent>>
jobVars == <<seen, found>>
vars == <<booking, hold, status, slip, calling, uploading, intent, sent, settled,
          seen, found, beside>>

Attempts == Cards \union Slips

\* An attempt that is under way or paid.
Live(p) == status[p] \in ActiveAttempt \union {"PAID"}
LiveAttempts == {p \in Attempts : Live(p)}

IntentStatus == {"requires_payment_method", "processing", "succeeded", "canceled"}
SlipStatus == {"UNDER_REVIEW", "APPROVED", "REJECTED"}

\* The status a webhook of each type, payment_intent.<type>, asks for.
EventTarget ==
  [succeeded |-> "PAID", processing |-> "PROCESSING", payment_failed |-> "FAILED",
   canceled |-> "CANCELLED"]

Events == [payment : Cards, type : DOMAIN EventTarget]

TypeOK ==
  /\ booking \in {"HELD", "CONFIRMED", "EXPIRED", "CANCELLED"}
  /\ hold \in {"running", "lapsed", "none"}
  /\ status \in [Attempts -> PaymentStatus \union {"NONE"}]
  /\ slip \in [Slips -> SlipStatus \union {"NONE"}]
  /\ calling \subseteq Cards
  /\ uploading \subseteq Slips
  /\ intent \in [Cards -> IntentStatus \union {"NONE", "UNCLAIMED"}]
  /\ sent \subseteq Events
  /\ settled \subseteq Events
  /\ seen \in [Attempts -> PaymentStatus \union {"NONE"}]
  /\ found \in [Attempts -> IntentStatus \union SlipStatus \union {"NONE"}]
  /\ beside \in [Slips -> SUBSET Attempts]

Init ==
  /\ booking = "HELD"
  /\ hold = "running"
  /\ status = [p \in Attempts |-> "NONE"]
  /\ slip = [k \in Slips |-> "NONE"]
  /\ calling = {}
  /\ uploading = {}
  /\ intent = [c \in Cards |-> "NONE"]
  /\ sent = {}
  /\ settled = {}
  /\ seen = [p \in Attempts |-> "NONE"]
  /\ found = [p \in Attempts |-> "NONE"]
  /\ beside = [k \in Slips |-> {}]

-------------------------------------------------------------------------------
(* The booking                                                               *)

\* A mistake: the booking is left for somebody else to confirm.
LeaveBooking == UNCHANGED <<booking, hold>>

\* completePaidBooking, in the transaction that marks a payment PAID: confirm
\* the booking, or leave it for manual review when it is no longer held.
CompletePaidBooking ==
  IF booking = "HELD" /\ hold = "running"
    THEN booking' = "CONFIRMED" /\ hold' = "none"
    ELSE UNCHANGED <<booking, hold>>

Lapse ==
  /\ hold = "running"
  /\ hold' = "lapsed"
  /\ UNCHANGED <<booking, status, slip, serverVars, stripeVars, settled, jobVars, beside>>

\* The expiry job looks at the booking alone.
ExpireBooking ==
  /\ booking = "HELD" /\ hold = "lapsed"
  /\ booking' = "EXPIRED"
  /\ UNCHANGED <<hold, status, slip, serverVars, stripeVars, settled, jobVars, beside>>

CancelBooking ==
  /\ booking \in {"HELD", "CONFIRMED"}
  /\ booking' = "CANCELLED"
  /\ UNCHANGED <<hold, status, slip, serverVars, stripeVars, settled, jobVars, beside>>

-------------------------------------------------------------------------------
(* Creating an attempt                                                       *)

\* A mistake: a slip in review is no active attempt.
ForgetsReviews(p) ==
  /\ status[p] = "NONE"
  /\ booking = "HELD" /\ hold = "running"
  /\ \A q \in Attempts :
       status[q] \notin {"PAID"} \union (ActiveAttempt \ {"AWAITING_VERIFICATION"})

\* The checks of #createInternal, under the lock of the booking.
MayAttempt(p) ==
  /\ status[p] = "NONE"
  /\ booking = "HELD" /\ hold = "running"
  /\ \A q \in Attempts : status[q] \notin {"PAID"} \union ActiveAttempt

\* #createInternal; a card request then calls Stripe.
CreateAttempt(p) ==
  /\ MayAttempt(p)
  /\ status' = [status EXCEPT ![p] = "PENDING"]
  /\ calling' = calling \union ({p} \intersect Cards)
  /\ UNCHANGED <<booking, hold, slip, uploading, stripeVars, settled, jobVars, beside>>

\* createCardPayment with Stripe's answer: payment.update, unlocked, and the
\* client secret goes to the payer.
AttachIntent(c) ==
  /\ c \in calling /\ intent[c] = "UNCLAIMED"
  /\ calling' = calling \ {c}
  /\ intent' = [intent EXCEPT ![c] = "requires_payment_method"]
  /\ status' = [status EXCEPT ![c] = "PROCESSING"]
  /\ UNCHANGED <<booking, hold, slip, uploading, sent, settled, jobVars, beside>>

\* createPaymentIntent throws, which says nothing of the intent at Stripe.
CreateIntentFails(c) ==
  /\ c \in calling
  /\ calling' = calling \ {c}
  /\ status' = [status EXCEPT ![c] = "FAILED"]
  /\ UNCHANGED <<booking, hold, slip, uploading, stripeVars, settled, jobVars, beside>>

\* The server stops, or the update fails, before the payer has the secret.
LoseRequest(c) ==
  /\ c \in calling
  /\ calling' = calling \ {c}
  /\ UNCHANGED <<booking, hold, status, slip, uploading, stripeVars, settled, jobVars, beside>>

-------------------------------------------------------------------------------
(* Stripe                                                                    *)

CreateIntent(c) ==
  /\ c \in calling /\ intent[c] = "NONE"
  /\ intent' = [intent EXCEPT ![c] = "UNCLAIMED"]
  /\ UNCHANGED <<booking, hold, status, slip, serverVars, sent, settled, jobVars, beside>>

\* What an intent may do, and the event it emits: only a payer who has the
\* secret pays, may try again after a decline, and Stripe or an operator
\* cancels what is not paid, though not while the request still waits.
IntentSteps ==
  {<<"requires_payment_method", "processing", "processing">>,
   <<"requires_payment_method", "succeeded", "succeeded">>,
   <<"requires_payment_method", "requires_payment_method", "payment_failed">>,
   <<"processing", "succeeded", "succeeded">>,
   <<"processing", "requires_payment_method", "payment_failed">>,
   <<"requires_payment_method", "canceled", "canceled">>,
   <<"UNCLAIMED", "canceled", "canceled">>}

StripeStep(c) ==
  /\ c \notin calling
  /\ \E step \in IntentSteps :
       /\ intent[c] = step[1]
       /\ intent' = [intent EXCEPT ![c] = step[2]]
       /\ sent' = sent \union {[payment |-> c, type |-> step[3]]}
  /\ UNCHANGED <<booking, hold, status, slip, serverVars, settled, jobVars, beside>>

-------------------------------------------------------------------------------
(* Webhooks: the event's row is stored once, and its transaction runs once   *)

\* A mistake: "processing" is read as paid.
EarlyEffect(e) ==
  /\ status[e.payment] \notin {"PAID", "REFUNDED"}
  /\ CanTransition(status[e.payment], "PAID")
  /\ e.type \in {"succeeded", "processing"}
  /\ status' = [status EXCEPT ![e.payment] = "PAID"]
  /\ CompletePaidBooking

\* handlePaymentIntentSucceeded and #updateIntent.
EventEffect(e) ==
  /\ status[e.payment] \notin {"PAID", "REFUNDED"}
  /\ CanTransition(status[e.payment], EventTarget[e.type])
  /\ status' = [status EXCEPT ![e.payment] = EventTarget[e.type]]
  /\ IF e.type = "succeeded" THEN CompletePaidBooking ELSE UNCHANGED <<booking, hold>>

ProcessEvent(e) ==
  /\ e \in sent \ settled
  /\ settled' = settled \union {e}
  /\ EventEffect(e)
  /\ UNCHANGED <<slip, serverVars, stripeVars, jobVars, beside>>

\* The payment needs nothing or refuses the change, or the transaction fails
\* or the server stops after storing the row.  A later delivery is a duplicate
\* whatever became of the first.
SettleWithoutEffect(e) ==
  /\ e \in sent \ settled
  /\ settled' = settled \union {e}
  /\ UNCHANGED <<booking, hold, status, slip, serverVars, stripeVars, jobVars, beside>>

-------------------------------------------------------------------------------
(* Bank slips; one upload at a time per payment                              *)

\* uploadBankSlip before its transaction.
BeginUpload(k) ==
  /\ status[k] \in {"PENDING", "REJECTED"} /\ hold # "lapsed"
  /\ uploading' = uploading \union {k}
  /\ UNCHANGED <<booking, hold, status, slip, calling, stripeVars, settled, jobVars, beside>>

\* Its transaction: the status is checked again, the hold is not, and nothing
\* extends it.  The earlier slip is superseded.
FinishUpload(k) ==
  /\ k \in uploading
  /\ uploading' = uploading \ {k}
  /\ status[k] \in {"PENDING", "REJECTED"}
  /\ status' = [status EXCEPT ![k] = "AWAITING_VERIFICATION"]
  /\ slip' = [slip EXCEPT ![k] = "UNDER_REVIEW"]
  /\ beside' = IF status[k] = "REJECTED" THEN [beside EXCEPT ![k] = LiveAttempts] ELSE beside
  /\ UNCHANGED <<booking, hold, calling, stripeVars, settled, jobVars>>

AbandonUpload(k) ==
  /\ k \in uploading
  /\ uploading' = uploading \ {k}
  /\ UNCHANGED <<booking, hold, status, slip, calling, stripeVars, settled, jobVars, beside>>

ApproveBankSlip(k) ==
  /\ status[k] = "AWAITING_VERIFICATION" /\ slip[k] = "UNDER_REVIEW"
  /\ \A q \in Attempts \ {k} : status[q] # "PAID"
  /\ slip' = [slip EXCEPT ![k] = "APPROVED"]
  /\ status' = [status EXCEPT ![k] = "PAID"]
  /\ CompletePaidBooking
  /\ UNCHANGED <<serverVars, stripeVars, settled, jobVars, beside>>

RejectBankSlip(k) ==
  /\ status[k] = "AWAITING_VERIFICATION" /\ slip[k] # "NONE"
  /\ slip' = [slip EXCEPT ![k] = "REJECTED"]
  /\ status' = [status EXCEPT ![k] = "REJECTED"]
  /\ beside' = [beside EXCEPT ![k] = {}]
  /\ UNCHANGED <<booking, hold, serverVars, stripeVars, settled, jobVars>>

-------------------------------------------------------------------------------
(* Reconciliation: one run at a time, records processed concurrently         *)

\* A mistake: a payment waiting for its provider is not a candidate.
StaleCandidates == {p \in Attempts \ calling : status[p] \in {"PENDING", "PAID"}}

\* findReconciliationCandidates: rows untouched for a while, so not those of a
\* request in progress.
Candidates ==
  {p \in Attempts \ calling : status[p] \in ActiveAttempt \union {"PAID", "REFUND_PENDING"}}

\* The job reads a batch; age and batch size decide which candidates.
FetchCandidates(batch) ==
  /\ \A p \in Attempts : seen[p] = "NONE"
  /\ batch \subseteq Candidates /\ Cardinality(batch) \in 1 .. BatchSize
  /\ seen' = [p \in Attempts |-> IF p \in batch THEN status[p] ELSE "NONE"]
  /\ UNCHANGED <<booking, hold, status, slip, serverVars, stripeVars, settled, found, beside>>

\* retrievePaymentIntent or findLatest.  A card payment still PENDING has no
\* reference to ask Stripe about.
Retrieve(p) ==
  /\ seen[p] # "NONE" /\ found[p] = "NONE"
  /\ \/ p \in Cards /\ seen[p] # "PENDING" /\ found' = [found EXCEPT ![p] = intent[p]]
     \/ p \in Slips /\ slip[p] # "NONE" /\ found' = [found EXCEPT ![p] = slip[p]]
  /\ UNCHANGED <<booking, hold, status, slip, serverVars, stripeVars, settled, seen, beside>>

\* The record is done with.
LeaveRecord(p) ==
  /\ seen' = [seen EXCEPT ![p] = "NONE"]
  /\ found' = [found EXCEPT ![p] = "NONE"]

\* Nothing to correct, manual review, a call or a transaction that fails, or
\* the job stops.
DropRecord(p) ==
  /\ seen[p] # "NONE"
  /\ LeaveRecord(p)
  /\ UNCHANGED <<booking, hold, status, slip, serverVars, stripeVars, settled, beside>>

\* A mistake: the transaction marks the payment and nothing else.
MarkOnly(c) ==
  /\ seen[c] \notin {"NONE", "PAID"} /\ found[c] = "succeeded"
  /\ CanTransition(status[c], "PAID")
  /\ status' = [status EXCEPT ![c] = "PAID"]
  /\ LeaveRecord(c)
  /\ UNCHANGED <<booking, hold, slip, serverVars, stripeVars, settled, beside>>

\* The intent succeeded and the payment read was not PAID: a transaction locks
\* the row and checks the transition.
ReconcileCaptured(c) ==
  /\ seen[c] \notin {"NONE", "PAID"} /\ found[c] = "succeeded"
  /\ CanTransition(status[c], "PAID")
  /\ status' = [status EXCEPT ![c] = "PAID"]
  /\ CompletePaidBooking
  /\ LeaveRecord(c)
  /\ UNCHANGED <<slip, serverVars, stripeVars, settled, beside>>

\* The intent failed: the row is updated by what was read, neither locked nor
\* checked (paymentRepository.markFailed).
ReconcileFailed(c) ==
  /\ seen[c] \in {"PENDING", "PROCESSING", "AWAITING_PAYMENT"}
  /\ found[c] \in {"canceled", "requires_payment_method"}
  /\ status' = [status EXCEPT ![c] = "FAILED"]
  /\ LeaveRecord(c)
  /\ UNCHANGED <<booking, hold, slip, serverVars, stripeVars, settled, beside>>

\* The same for a slip rejected while its payment was read as in review.
ReconcileRejected(k) ==
  /\ seen[k] = "AWAITING_VERIFICATION" /\ found[k] = "REJECTED"
  /\ status' = [status EXCEPT ![k] = "REJECTED"]
  /\ LeaveRecord(k)
  /\ beside' = [beside EXCEPT ![k] = {}]
  /\ UNCHANGED <<booking, hold, slip, serverVars, stripeVars, settled>>

-------------------------------------------------------------------------------
CardStep(c) ==
  \/ AttachIntent(c) \/ CreateIntentFails(c) \/ LoseRequest(c)
  \/ CreateIntent(c) \/ StripeStep(c)
  \/ ReconcileCaptured(c) \/ ReconcileFailed(c)

SlipStep(k) ==
  \/ BeginUpload(k) \/ FinishUpload(k) \/ AbandonUpload(k)
  \/ ApproveBankSlip(k) \/ RejectBankSlip(k) \/ ReconcileRejected(k)

Next ==
  \/ Lapse \/ ExpireBooking \/ CancelBooking
  \/ \E p \in Attempts : CreateAttempt(p) \/ Retrieve(p) \/ DropRecord(p)
  \/ \E c \in Cards : CardStep(c)
  \/ \E k \in Slips : SlipStep(k)
  \/ \E e \in Events : ProcessEvent(e) \/ SettleWithoutEffect(e)
  \/ \E batch \in SUBSET Attempts : FetchCandidates(batch)

Spec == Init /\ [][Next]_vars

\* The job runs every ten minutes and leaves no record for ever; the rows it
\* reads include each old one some day, and a call that fails in one run may
\* succeed in the next.  Nothing is assumed of payers, reviewers or webhooks.
JobFairness ==
  /\ \A p \in Attempts :
       /\ SF_vars(\E batch \in SUBSET Attempts : p \in batch /\ FetchCandidates(batch))
       /\ WF_vars(DropRecord(p))
  /\ \A c \in Cards : SF_vars(Retrieve(c)) /\ SF_vars(ReconcileCaptured(c))

FairSpec == Spec /\ JobFairness

-------------------------------------------------------------------------------
(* Properties                                                                *)

\* Two attempts of a booking are under way or paid at once only if one of them is
\* a bank slip that was rejected and, while the other was already live, handed
\* in again: uploadBankSlip does not look for another attempt.
OneLiveAttempt ==
  \A p, q \in LiveAttempts :
    p = q \/ \E k \in {p, q} \intersect Slips : {p, q} \subseteq {k} \union beside[k]

\* Whoever learns of the money confirms the booking in the same transaction: a
\* paid booking is still HELD only if its time was over.
PaidHoldIsConfirmed ==
  (\E p \in Attempts : status[p] = "PAID") /\ booking = "HELD" => hold = "lapsed"

Captured(p) ==
  \/ p \in Cards /\ intent[p] = "succeeded"
  \/ p \in Slips /\ slip[p] = "APPROVED"

\* A booking is confirmed only in a step that records a payment as PAID whose
\* money has arrived, by a webhook, a review or the job.
ConfirmedByMoney ==
  [][booking # "CONFIRMED" /\ booking' = "CONFIRMED" =>
       \E p \in Attempts : status[p] # "PAID" /\ status'[p] = "PAID" /\ Captured(p)']_vars

\* TRANSITIONS lets a PAID payment become refunded and nothing else
\* (payment.service.js:25 and 207, "Payment cannot transition from ...").
PaidIsNotForgotten ==
  [][\A p \in Attempts : status[p] = "PAID" => CanTransition("PAID", status'[p])]_vars

\* A payment changes only along TRANSITIONS, whoever else changes it in
\* between, unless the job has just read its intent or slip: only the job's
\* unlocked updates break the rule.
TransitionsOutsideReconciliation ==
  [][\A p \in Attempts :
       status[p] # "NONE" /\ found[p] = "NONE" => CanTransition(status[p], status'[p])]_vars

\* Money taken from a card is noticed though every webhook is lost: the attempt
\* does not stay PROCESSING.
CapturedIsRecorded ==
  \A c \in Cards : intent[c] = "succeeded" ~> status[c] # "PROCESSING"

\* ReadME.md:183, "The booking will remain in **Waiting for Payment Approval**
\* until an administrator verifies the payment": no booking expires while a
\* slip of it is in review.
SlipKeepsBooking ==
  [][booking # "EXPIRED" /\ booking' = "EXPIRED" =>
       \A k \in Slips : status[k] # "AWAITING_VERIFICATION"]_vars
===============================================================================
