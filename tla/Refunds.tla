--------------------------------- MODULE Refunds ---------------------------------
(***************************************************************************)
(* The refunds of one paid payment: requests of administrators, Stripe's    *)
(* refunds and their webhooks, refunds completed by hand for bank slips,    *)
(* retries, and the status of the payment and of its booking.  Translated   *)
(* from modules/refunds/refund.service.js, refund.repository.js and         *)
(* #updateRefund of modules/payments/stripe-webhook.service.js.             *)
(*                                                                          *)
(* Only the creation of a refund, its completion by hand and a webhook run  *)
(* in a transaction.  Everything after the call to Stripe is one unlocked   *)
(* statement after another, so each is a step; any of them may fail, and    *)
(* the server may stop between any two.  Stripe is external: it keeps the   *)
(* refunds of a charge within the charge, and answers a repeated            *)
(* idempotency key with its first answer.                                   *)
(***************************************************************************)
EXTENDS FiniteSetsExt, Naturals

CONSTANTS
  Refunds,   \* ids of refund requests, and of the refunds they create
  Amount,    \* payments.amount
  Requested, \* amounts administrators ask for
  Methods    \* methods of payment considered

ASSUME RefundsAssumption ==
  /\ IsFiniteSet(Refunds)
  /\ Amount \in Nat \ {0}
  /\ Requested \subseteq Nat \ {0}
  /\ Methods \subseteq {"CARD", "BANK_SLIP"}

VARIABLES
  method,    \* payments.method
  payment,   \* payments.status
  booking,   \* bookings.status
  refund,    \* refunds.status, NONE before the row exists
  amount,    \* refunds.amount
  reference, \* refunds with a provider_refund_reference
  stage,     \* where the request working on a refund is
  retried,   \* refunds whose request is a retry
  before,    \* payment status the request that creates a refund read first
  total,     \* sum of refunds a request has just read
  provider,  \* Stripe's refund, per refund
  answer,    \* what Stripe first answered
  sent,      \* refund events Stripe emitted, each delivered any number of times
  settled    \* events with a row in payment_webhook_events

requestVars == <<stage, retried, before, total>>
stripeVars == <<provider, answer, sent>>
rowVars == <<payment, booking, refund, amount, reference>>
refundVars == <<method, rowVars, requestVars, stripeVars, settled>>

Pending == {"PROCESSING", "PENDING_MANUAL_PROCESSING"}
RefundStatus == Pending \union {"REFUNDED", "FAILED"}
RefundablePayment == {"PAID", "PARTIALLY_REFUNDED"}
RefundedPayment == RefundablePayment \union {"REFUND_PENDING", "REFUNDED"}
Outcome == {"pending", "succeeded", "failed"}
Events == [refund : Refunds, status : {"succeeded", "failed"}]

\* CHECKED: may refund, nothing stored.  CALLING .. WRITING: Stripe is called, has
\* answered; the refund is completed; the total is read.  CLOSING: the booking is
\* next.  FAILING: an exception.  RESTORING: the refund has failed.  RETRYING: a FAILED refund was read.
Stage == {"IDLE", "CHECKED", "CALLING", "ANSWERED", "COMPLETED", "WRITING", "CLOSING",
          "FAILING", "RESTORING", "RETRYING"}

RefundsTypeOK ==
  /\ method \in Methods
  /\ payment \in RefundedPayment
  /\ booking \in {"CONFIRMED", "CANCELLED", "REFUNDED"}
  /\ refund \in [Refunds -> RefundStatus \union {"NONE"}]
  /\ amount \in [Refunds -> 0 .. Amount]
  /\ reference \subseteq Refunds
  /\ stage \in [Refunds -> Stage]
  /\ retried \subseteq Refunds
  /\ before \in [Refunds -> RefundedPayment]
  /\ total \in [Refunds -> 0 .. Amount]
  /\ provider \in [Refunds -> Outcome \union {"NONE"}]
  /\ answer \in [Refunds -> Outcome \union {"NONE"}]
  /\ sent \subseteq Events
  /\ settled \subseteq Events

RefundsInit ==
  /\ method \in Methods
  /\ payment = "PAID"
  /\ booking = "CONFIRMED"
  /\ refund = [r \in Refunds |-> "NONE"]
  /\ amount = [r \in Refunds |-> 0]
  /\ reference = {}
  /\ stage = [r \in Refunds |-> "IDLE"]
  /\ retried = {}
  /\ before = [r \in Refunds |-> "PAID"]
  /\ total = [r \in Refunds |-> 0]
  /\ provider = [r \in Refunds |-> "NONE"]
  /\ answer = [r \in Refunds |-> "NONE"]
  /\ sent = {}
  /\ settled = {}

-------------------------------------------------------------------------------
(* Sums and eligibility                                                      *)

AmountOf(S) == MapThenSumSet(LAMBDA r : amount[r], S)

\* sumSuccessfulRefunds, given the statuses of the refunds.
SuccessfulRefunds(statuses) == AmountOf({r \in Refunds : statuses[r] = "REFUNDED"})

RefundedTotal == SuccessfulRefunds(refund)

\* A mistake: other refunds that are under way are not looked for.
EligibleAlone(r, a) ==
  /\ payment \in RefundablePayment \union {"REFUND_PENDING"}
  /\ a \in 1 .. (Amount - RefundedTotal)

\* validateRefundEligibility
Eligible(r, a) ==
  /\ payment \in RefundablePayment
  /\ a \in 1 .. (Amount - RefundedTotal)
  /\ \A q \in Refunds : refund[q] \notin Pending

-------------------------------------------------------------------------------
(* A request for a refund                                                    *)

\* createRefund up to its transaction: without an amount, all that remains.
CheckRefund(r) ==
  /\ refund[r] = "NONE" /\ stage[r] = "IDLE"
  /\ \E a \in Requested \union {Amount - RefundedTotal} :
       Eligible(r, a) /\ amount' = [amount EXCEPT ![r] = a]
  /\ stage' = [stage EXCEPT ![r] = "CHECKED"]
  /\ before' = [before EXCEPT ![r] = payment]
  /\ UNCHANGED <<method, payment, booking, refund, reference, retried, total, stripeVars, settled>>

\* Its transaction, under the lock of the payment, with the amount seen before.
CreateRefund(r) ==
  /\ stage[r] = "CHECKED"
  /\ Eligible(r, amount[r])
  /\ payment' = "REFUND_PENDING"
  /\ \/ /\ method = "BANK_SLIP"
        /\ refund' = [refund EXCEPT ![r] = "PENDING_MANUAL_PROCESSING"]
        /\ stage' = [stage EXCEPT ![r] = "IDLE"]
     \/ /\ method = "CARD"
        /\ refund' = [refund EXCEPT ![r] = "PROCESSING"]
        /\ stage' = [stage EXCEPT ![r] = "CALLING"]
  /\ UNCHANGED <<method, booking, amount, reference, retried, before, total, stripeVars, settled>>

\* The second check refuses, or the transaction fails.
RefuseRefund(r) ==
  /\ stage[r] = "CHECKED"
  /\ stage' = [stage EXCEPT ![r] = "IDLE"]
  /\ amount' = [amount EXCEPT ![r] = 0]
  /\ UNCHANGED <<method, payment, booking, refund, reference, retried, before, total,
                 stripeVars, settled>>

-------------------------------------------------------------------------------
(* Stripe                                                                    *)

TakenAtStripe == {r \in Refunds : provider[r] \in {"pending", "succeeded"}}

\* createRefund of the Stripe client, with the key create-refund:<id>: a new
\* refund, or the first answer again; the answer may be lost on the way.
CallStripe(r) ==
  /\ stage[r] = "CALLING"
  /\ \/ /\ provider[r] = "NONE"
        /\ AmountOf(TakenAtStripe) + amount[r] <= Amount
        /\ \E o \in {"pending", "succeeded"} :
             /\ provider' = [provider EXCEPT ![r] = o]
             /\ answer' = [answer EXCEPT ![r] = o]
             /\ sent' = IF o = "succeeded" THEN sent \union {[refund |-> r, status |-> o]}
                                           ELSE sent
     \/ provider[r] # "NONE" /\ UNCHANGED stripeVars
  /\ \E s \in {"ANSWERED", "FAILING"} : stage' = [stage EXCEPT ![r] = s]
  /\ UNCHANGED <<method, rowVars, retried, before, total, settled>>

\* Stripe refuses, or cannot be reached.
StripeFails(r) ==
  /\ stage[r] = "CALLING"
  /\ stage' = [stage EXCEPT ![r] = "FAILING"]
  /\ UNCHANGED <<method, rowVars, retried, before, total, stripeVars, settled>>

\* A pending refund succeeds or fails at the bank.
StripeSettles(r) ==
  /\ provider[r] = "pending"
  /\ \E o \in {"succeeded", "failed"} :
       /\ provider' = [provider EXCEPT ![r] = o]
       /\ sent' = sent \union {[refund |-> r, status |-> o]}
  /\ UNCHANGED <<method, rowVars, requestVars, answer, settled>>

-------------------------------------------------------------------------------
(* After the answer                                                          *)

\* The reference is stored; a refund that succeeded at once is completed (two
\* statements, nobody reads what they write in between but by the reference).
StoreAnswer(r) ==
  /\ stage[r] = "ANSWERED"
  /\ reference' = reference \union {r}
  /\ \/ /\ answer[r] = "succeeded"
        /\ refund' = [refund EXCEPT ![r] = "REFUNDED"]
        /\ stage' = [stage EXCEPT ![r] = "COMPLETED"]
     \/ /\ answer[r] # "succeeded"
        /\ \E s \in {"IDLE", "FAILING"} : stage' = [stage EXCEPT ![r] = s]
        /\ UNCHANGED refund
  /\ UNCHANGED <<method, payment, booking, amount, retried, before, total, stripeVars, settled>>

StatusOfTotal(t) ==
  CASE t = 0 -> "PAID" [] t = Amount -> "REFUNDED" [] OTHER -> "PARTIALLY_REFUNDED"

\* The booking is next when all is refunded.  Storing the answer of the request
\* comes last and may fail.
StagesAfterPayment(t) == IF t = Amount THEN {"CLOSING"} ELSE {"IDLE", "FAILING"}

\* updatePaymentRefundStatus without a transaction: the payment and the sum are
\* read (a status that is right already is not written) ...
ReadTotal(r) ==
  /\ stage[r] = "COMPLETED"
  /\ total' = [total EXCEPT ![r] = RefundedTotal]
  /\ \E s \in IF payment = StatusOfTotal(RefundedTotal) THEN StagesAfterPayment(RefundedTotal)
                                                       ELSE {"WRITING"} :
       stage' = [stage EXCEPT ![r] = s]
  /\ UNCHANGED <<method, rowVars, retried, before, stripeVars, settled>>

RefundBooking == booking' = IF booking = "CANCELLED" THEN "REFUNDED" ELSE booking

\* In a transaction the payment gets the status of a total and, when all is
\* refunded, a cancelled booking is marked with it; a larger total is refused.
SettlePayment(t) ==
  /\ t <= Amount
  /\ payment' = StatusOfTotal(t)
  /\ IF t = Amount THEN RefundBooking ELSE UNCHANGED booking

\* ... then the status of the payment is written ...
WriteTotal(r) ==
  /\ stage[r] = "WRITING"
  /\ total[r] <= Amount
  /\ payment' = StatusOfTotal(total[r])
  /\ \E s \in StagesAfterPayment(total[r]) : stage' = [stage EXCEPT ![r] = s]
  /\ UNCHANGED <<method, booking, refund, amount, reference, retried, before, total,
                 stripeVars, settled>>

\* ... then the booking.
CloseBooking(r) ==
  /\ stage[r] = "CLOSING"
  /\ RefundBooking
  /\ \E s \in {"IDLE", "FAILING"} : stage' = [stage EXCEPT ![r] = s]
  /\ UNCHANGED <<method, payment, refund, amount, reference, retried, before, total,
                 stripeVars, settled>>

\* A statement after the answer of Stripe fails.
StepFails(r) ==
  /\ stage[r] \in {"ANSWERED", "COMPLETED", "WRITING", "CLOSING"}
  /\ stage' = [stage EXCEPT ![r] = "FAILING"]
  /\ UNCHANGED <<method, rowVars, retried, before, total, stripeVars, settled>>

\* The catch: the refund is FAILED whatever it was; createRefund then writes back
\* the status of the payment it read before its transaction.
FailRefund(r) ==
  /\ stage[r] = "FAILING"
  /\ refund' = [refund EXCEPT ![r] = "FAILED"]
  /\ stage' = [stage EXCEPT ![r] = IF r \in retried THEN "IDLE" ELSE "RESTORING"]
  /\ UNCHANGED <<method, payment, booking, amount, reference, retried, before, total,
                 stripeVars, settled>>

RestorePayment(r) ==
  /\ stage[r] = "RESTORING"
  /\ payment' = before[r]
  /\ stage' = [stage EXCEPT ![r] = "IDLE"]
  /\ UNCHANGED <<method, booking, refund, amount, reference, retried, before, total,
                 stripeVars, settled>>

\* The server stops: the request is gone, the rows stay as they are.
Crash(r) ==
  /\ stage[r] \notin {"IDLE", "CHECKED"}
  /\ stage' = [stage EXCEPT ![r] = "IDLE"]
  /\ UNCHANGED <<method, rowVars, retried, before, total, stripeVars, settled>>

-------------------------------------------------------------------------------
(* Retry, completion by hand, webhooks, and the others                       *)

\* retryRefund: the status is read, then written, without a lock.
ReadFailed(r) ==
  /\ refund[r] = "FAILED" /\ stage[r] = "IDLE"
  /\ stage' = [stage EXCEPT ![r] = "RETRYING"]
  /\ retried' = retried \union {r}
  /\ UNCHANGED <<method, rowVars, before, total, stripeVars, settled>>

RetryRefund(r) ==
  /\ stage[r] = "RETRYING"
  /\ refund' = [refund EXCEPT ![r] = "PROCESSING"]
  /\ stage' = [stage EXCEPT ![r] = "CALLING"]
  /\ UNCHANGED <<method, payment, booking, amount, reference, retried, before, total,
                 stripeVars, settled>>

\* A mistake: the status of the payment is left to somebody else.
CompleteRefundOnly(r) ==
  /\ method = "BANK_SLIP"
  /\ refund[r] = "PENDING_MANUAL_PROCESSING"
  /\ refund' = [refund EXCEPT ![r] = "REFUNDED"]
  /\ UNCHANGED <<method, payment, booking, amount, reference, requestVars, stripeVars, settled>>

\* completeManualRefund, one transaction.
CompleteManualRefund(r) ==
  /\ method = "BANK_SLIP"
  /\ refund[r] = "PENDING_MANUAL_PROCESSING"
  /\ refund' = [refund EXCEPT ![r] = "REFUNDED"]
  /\ SettlePayment(SuccessfulRefunds(refund'))
  /\ UNCHANGED <<method, amount, reference, requestVars, stripeVars, settled>>

\* A mistake: any event of a refund completes it.
CompleteOnEvent(e) ==
  /\ e \in sent \ settled
  /\ settled' = settled \union {e}
  /\ e.refund \in reference
  /\ refund' = [refund EXCEPT ![e.refund] = "REFUNDED"]
  /\ SettlePayment(SuccessfulRefunds(refund'))
  /\ UNCHANGED <<method, amount, reference, requestVars, stripeVars>>

\* #updateRefund: the status of the event, if the reference is known.
UpdateRefund(e) ==
  /\ e \in sent \ settled
  /\ settled' = settled \union {e}
  /\ e.refund \in reference
  /\ refund' = [refund EXCEPT ![e.refund] =
                  IF e.status = "succeeded" THEN "REFUNDED" ELSE "FAILED"]
  /\ SettlePayment(SuccessfulRefunds(refund'))
  /\ UNCHANGED <<method, amount, reference, requestVars, stripeVars>>

\* The event finds no refund, or its transaction fails: it is not processed again.
LoseEvent(e) ==
  /\ e \in sent \ settled
  /\ settled' = settled \union {e}
  /\ UNCHANGED <<method, rowVars, requestVars, stripeVars>>

\* Reconciliation sees the intent succeeded and a payment that is not PAID.
ReconcilePaid ==
  /\ method = "CARD"
  /\ payment = "REFUND_PENDING"
  /\ payment' = "PAID"
  /\ UNCHANGED <<method, booking, refund, amount, reference, requestVars, stripeVars, settled>>

CancelBooking ==
  /\ booking = "CONFIRMED"
  /\ booking' = "CANCELLED"
  /\ UNCHANGED <<method, payment, refund, amount, reference, requestVars, stripeVars, settled>>

RefundStep(r) ==
  \/ CheckRefund(r) \/ CreateRefund(r) \/ RefuseRefund(r)
  \/ CallStripe(r) \/ StripeFails(r) \/ StripeSettles(r)
  \/ StoreAnswer(r) \/ ReadTotal(r) \/ WriteTotal(r) \/ CloseBooking(r)
  \/ StepFails(r) \/ FailRefund(r) \/ RestorePayment(r) \/ Crash(r)
  \/ ReadFailed(r) \/ RetryRefund(r) \/ CompleteManualRefund(r)

RefundsNext ==
  \/ \E r \in Refunds : RefundStep(r)
  \/ \E e \in Events : UpdateRefund(e) \/ LoseEvent(e)
  \/ ReconcilePaid \/ CancelBooking

RefundsSpec == RefundsInit /\ [][RefundsNext]_refundVars

-------------------------------------------------------------------------------
(* Properties                                                                *)

\* The passenger's money, wherever the rows say it is.
ReturnedMoney ==
  IF method = "CARD"
    THEN AmountOf({r \in Refunds : provider[r] = "succeeded"})
    ELSE AmountOf({r \in Refunds : refund[r] = "REFUNDED"})

UnderWay == {r \in Refunds : refund[r] \in Pending}

\* Never is more refunded than was paid, a card's refund is recorded as done only
\* when the money is back at Stripe, and a payment or booking called REFUNDED has
\* been paid back in full: although requests check before they store, a refund
\* that failed may be retried beside a new one, and steps fail, crash or arrive
\* late on the way (refund.service.js:26).
RefundsWithinPayment ==
  /\ RefundedTotal <= Amount
  /\ method = "CARD" =>
       \A r \in Refunds : refund[r] = "REFUNDED" => provider[r] = "succeeded"
  /\ payment = "REFUNDED" \/ booking = "REFUNDED" => ReturnedMoney = Amount

\* Refunds take turns: two of a payment are under way at once only if one of them
\* is retried after a failure, since retryRefund does not look for others
\* (refund.service.js:208).  Those of a bank slip stay in step with their payment:
\* it waits exactly while one is under way, and says otherwise how much has been
\* paid back.
RefundsTakeTurns ==
  /\ Cardinality(UnderWay \ retried) <= 1
  /\ method = "BANK_SLIP" =>
       payment = IF UnderWay # {} THEN "REFUND_PENDING" ELSE StatusOfTotal(RefundedTotal)
===============================================================================
