------------------------------ MODULE TotalsProofs ------------------------------
(***************************************************************************)
(* What the code adds up and counts.  That a payment is never refunded       *)
(* beyond what was paid, that a refund recorded as done has reached the      *)
(* passenger, and that refunds take turns, whatever fails, crashes or        *)
(* arrives late; that passengers are shown, counted and sold the same seats; *)
(* and that the abstract ledger of seats gives no seat of a leg twice; that  *)
(* officials are listed, reported and allowed the same records.  What a sum  *)
(* over a set is, FaresProofs shows.                                         *)
(***************************************************************************)
EXTENDS Refunds, Availability, Scopes, SeatLedger, FaresProofs

-------------------------------------------------------------------------------
(* Refunds: the inductive invariant                                          *)

Done == {r \in Refunds : refund[r] = "REFUNDED"}

\* The refunds whose money is back with the passenger.
Back == IF method = "CARD" THEN {r \in Refunds : provider[r] = "succeeded"} ELSE Done

\* Who works on which row, and what Stripe's answers and events vouch for.
Vouched ==
  /\ \A r \in Refunds :
       /\ stage[r] = "CHECKED" => refund[r] = "NONE"
       /\ refund[r] = "NONE" => stage[r] \in {"IDLE", "CHECKED"} /\ provider[r] = "NONE"
       /\ r \in reference => refund[r] # "NONE"
       /\ stage[r] = "RETRYING" => r \in retried
       /\ before[r] \in RefundablePayment
       /\ answer[r] = "succeeded" => provider[r] = "succeeded"
  /\ \A e \in sent : e.status = "succeeded" => provider[e.refund] = "succeeded"
  /\ \A q, r \in UnderWay \ retried : q = r
  /\ method = "CARD" => Done \subseteq Back

\* A bank slip is refunded by hand: no request calls Stripe, nothing fails.
ByHand ==
  method = "BANK_SLIP" =>
    /\ \A r \in Refunds : /\ stage[r] \in {"IDLE", "CHECKED"}
                           /\ refund[r] # "FAILED" /\ provider[r] = "NONE"
    /\ retried = {} /\ sent = {}

\* Stripe keeps its refunds within the charge; the totals requests carry are no
\* more than what is back, and what they are about to write is true.
MoneyKept ==
  /\ method = "CARD" => AmountOf(TakenAtStripe) <= Amount
  /\ RefundedTotal <= Amount
  /\ \A r \in Refunds : total[r] <= ReturnedMoney
  /\ \A r \in Refunds : stage[r] = "CLOSING" => ReturnedMoney = Amount
  /\ payment = "REFUNDED" \/ booking = "REFUNDED" => ReturnedMoney = Amount

InStep ==
  method = "BANK_SLIP" =>
    payment = IF UnderWay # {} THEN "REFUND_PENDING" ELSE StatusOfTotal(RefundedTotal)

RefundsInv == RefundsTypeOK /\ Vouched /\ ByHand /\ MoneyKept /\ InStep

\* A sum of amounts is a natural number, and the same for the same amounts.
AmountsAreSums ==
  /\ AmountOf(TakenAtStripe) = SumOf(amount, TakenAtStripe)
  /\ RefundedTotal = SumOf(amount, Done) /\ RefundedTotal \in Nat
  /\ ReturnedMoney = SumOf(amount, Back) /\ ReturnedMoney \in Nat

LEMMA AmountsAdd == RefundsTypeOK => AmountsAreSums
<1> SUFFICES ASSUME RefundsTypeOK PROVE AmountsAreSums
  OBVIOUS
<1>1. \A S : AmountOf(S) = SumOf(amount, S)
  BY DEF SumOf, AmountOf, MapThenSumSet, MapThenFoldSet
<1>2. \A S \in SUBSET Refunds : SumOf(amount, S) \in Nat
  <2>1. amount \in [Refunds -> Nat]
    BY RefundsAssumption DEF RefundsTypeOK
  <2> QED
    BY <2>1, SumIsNatural, RefundsAssumption
<1>3. Done \subseteq Refunds /\ Back \subseteq Refunds
  BY DEF Done, Back
<1>4. RefundedTotal = SumOf(amount, Done)
  BY <1>1 DEF RefundedTotal, SuccessfulRefunds, Done
<1>5. ReturnedMoney = SumOf(amount, Back)
  <2> DEFINE G == {r \in Refunds : provider[r] = "succeeded"}
  <2>1. ReturnedMoney = IF method = "CARD" THEN AmountOf(G) ELSE AmountOf(Done)
    BY DEF ReturnedMoney, Done
  <2>2. Back = IF method = "CARD" THEN G ELSE Done
    BY DEF Back
  <2> HIDE DEF G
  <2> QED
    BY <1>1, <2>1, <2>2
<1> QED
  BY <1>1, <1>2, <1>3, <1>4, <1>5 DEF AmountsAreSums

LEMMA RefundsStart == RefundsInit => RefundsInv
<1> SUFFICES ASSUME RefundsInit PROVE RefundsInv
  OBVIOUS
<1> USE RefundsAssumption
<1>1. RefundsTypeOK
  BY DEF RefundsInit, RefundsTypeOK, RefundStatus, Stage, RefundedPayment, RefundablePayment
<1>2. Vouched /\ ByHand
  BY DEF RefundsInit, Vouched, ByHand, RefundablePayment, UnderWay, Pending, Done
<1>3. Done = {} /\ Back = {} /\ TakenAtStripe = {} /\ UnderWay = {}
  BY DEF RefundsInit, Done, Back, TakenAtStripe, UnderWay, Pending
<1>4. SumOf(amount, {}) = 0
  BY SumUnfolds, FS_EmptySet
<1>5. RefundedTotal = 0 /\ ReturnedMoney = 0 /\ AmountOf(TakenAtStripe) = 0
  BY <1>1, <1>3, <1>4, AmountsAdd DEF AmountsAreSums
<1>6. MoneyKept
  BY <1>5 DEF RefundsInit, MoneyKept
<1>7. InStep
  BY <1>3, <1>5 DEF RefundsInit, InStep, StatusOfTotal
<1> QED
  BY <1>1, <1>2, <1>6, <1>7 DEF RefundsInv

\* The rows stay well typed and vouched for.
LEMMA ShapeKept ==
  RefundsInv /\ [RefundsNext]_refundVars => RefundsTypeOK' /\ Vouched' /\ ByHand'
<1> SUFFICES ASSUME RefundsInv, [RefundsNext]_refundVars
             PROVE  RefundsTypeOK' /\ Vouched' /\ ByHand'
  OBVIOUS
<1>1. RefundsTypeOK /\ Vouched /\ ByHand /\ RefundedTotal \in 0 .. Amount
  BY AmountsAdd, RefundsAssumption DEF AmountsAreSums, RefundsInv, MoneyKept
<1> USE RefundsAssumption
<1> USE DEF Vouched, ByHand, RefundStatus, Stage, RefundedPayment, RefundablePayment,
            Pending, Outcome, UnderWay, Done, Back
<1>2. ASSUME NEW r \in Refunds, CheckRefund(r)
      PROVE  RefundsTypeOK' /\ Vouched' /\ ByHand'
  BY <1>1, <1>2 DEF CheckRefund, Eligible, RefundsTypeOK, rowVars, requestVars, stripeVars
<1>3. ASSUME NEW r \in Refunds, CreateRefund(r)
      PROVE  RefundsTypeOK' /\ Vouched' /\ ByHand'
  BY <1>1, <1>3 DEF CreateRefund, Eligible, RefundsTypeOK, rowVars, requestVars, stripeVars
<1>4. ASSUME NEW r \in Refunds, RefuseRefund(r)
      PROVE  RefundsTypeOK' /\ Vouched' /\ ByHand'
  BY <1>1, <1>4 DEF RefuseRefund, RefundsTypeOK, rowVars, requestVars, stripeVars
<1>5. ASSUME NEW r \in Refunds, CallStripe(r)
      PROVE  RefundsTypeOK' /\ Vouched' /\ ByHand'
  BY <1>1, <1>5 DEF CallStripe, Events, RefundsTypeOK, rowVars, requestVars, stripeVars
<1>6. ASSUME NEW r \in Refunds, StripeFails(r)
      PROVE  RefundsTypeOK' /\ Vouched' /\ ByHand'
  BY <1>1, <1>6 DEF StripeFails, RefundsTypeOK, rowVars, requestVars, stripeVars
<1>7. ASSUME NEW r \in Refunds, StripeSettles(r)
      PROVE  RefundsTypeOK' /\ Vouched' /\ ByHand'
  <2>1. PICK o \in {"succeeded", "failed"} :
          /\ provider' = [provider EXCEPT ![r] = o]
          /\ sent' = sent \union {[refund |-> r, status |-> o]}
    BY <1>7 DEF StripeSettles
  <2>2. RefundsTypeOK'
    BY <1>1, <1>7, <2>1 DEF StripeSettles, Events, RefundsTypeOK, rowVars, requestVars, stripeVars
  <2>3. \A e \in sent' : e.status = "succeeded" => provider'[e.refund] = "succeeded"
    <3>1. SUFFICES ASSUME NEW e \in sent', e.status = "succeeded"
                   PROVE  provider'[e.refund] = "succeeded"
      OBVIOUS
    <3>2. CASE e \in sent
      BY <1>1, <1>7, <2>1, <3>1, <3>2 DEF StripeSettles, RefundsTypeOK, Events
    <3>3. CASE e = [refund |-> r, status |-> o]
      BY <1>1, <2>1, <3>1, <3>3 DEF RefundsTypeOK
    <3> QED
      BY <2>1, <3>2, <3>3
  <2>4. \A q \in Refunds : provider'[q] = IF q = r THEN o ELSE provider[q]
    BY <1>1, <2>1 DEF RefundsTypeOK
  <2>5. method # "BANK_SLIP" /\ ByHand'
    BY <1>1, <1>7 DEF StripeSettles, RefundsTypeOK
  <2> QED
    BY <1>1, <1>7, <2>2, <2>3, <2>4, <2>5 DEF StripeSettles, RefundsTypeOK, rowVars,
       requestVars, stripeVars
<1>8. ASSUME NEW r \in Refunds, StoreAnswer(r)
      PROVE  RefundsTypeOK' /\ Vouched' /\ ByHand'
  BY <1>1, <1>8 DEF StoreAnswer, RefundsTypeOK, rowVars, requestVars, stripeVars
<1>9. ASSUME NEW r \in Refunds, ReadTotal(r)
      PROVE  RefundsTypeOK' /\ Vouched' /\ ByHand'
  BY <1>1, <1>9 DEF ReadTotal, StagesAfterPayment, RefundsTypeOK, rowVars, requestVars, stripeVars
<1>10. ASSUME NEW r \in Refunds, WriteTotal(r)
      PROVE  RefundsTypeOK' /\ Vouched' /\ ByHand'
  BY <1>1, <1>10 DEF WriteTotal, StatusOfTotal, StagesAfterPayment, RefundsTypeOK, rowVars,
     requestVars, stripeVars
<1>11. ASSUME NEW r \in Refunds, CloseBooking(r)
      PROVE  RefundsTypeOK' /\ Vouched' /\ ByHand'
  BY <1>1, <1>11 DEF CloseBooking, RefundBooking, RefundsTypeOK, rowVars, requestVars, stripeVars
<1>12. ASSUME NEW r \in Refunds, StepFails(r)
      PROVE  RefundsTypeOK' /\ Vouched' /\ ByHand'
  BY <1>1, <1>12 DEF StepFails, RefundsTypeOK, rowVars, requestVars, stripeVars
<1>13. ASSUME NEW r \in Refunds, FailRefund(r)
      PROVE  RefundsTypeOK' /\ Vouched' /\ ByHand'
  BY <1>1, <1>13 DEF FailRefund, RefundsTypeOK, rowVars, requestVars, stripeVars
<1>14. ASSUME NEW r \in Refunds, RestorePayment(r)
      PROVE  RefundsTypeOK' /\ Vouched' /\ ByHand'
  BY <1>1, <1>14 DEF RestorePayment, RefundsTypeOK, rowVars, requestVars, stripeVars
<1>15. ASSUME NEW r \in Refunds, Crash(r)
      PROVE  RefundsTypeOK' /\ Vouched' /\ ByHand'
  BY <1>1, <1>15 DEF Crash, RefundsTypeOK, rowVars, requestVars, stripeVars
<1>16. ASSUME NEW r \in Refunds, ReadFailed(r)
      PROVE  RefundsTypeOK' /\ Vouched' /\ ByHand'
  BY <1>1, <1>16 DEF ReadFailed, RefundsTypeOK, rowVars, requestVars, stripeVars
<1>17. ASSUME NEW r \in Refunds, RetryRefund(r)
      PROVE  RefundsTypeOK' /\ Vouched' /\ ByHand'
  BY <1>1, <1>17 DEF RetryRefund, RefundsTypeOK, rowVars, requestVars, stripeVars
<1>18. ASSUME NEW r \in Refunds, CompleteManualRefund(r)
      PROVE  RefundsTypeOK' /\ Vouched' /\ ByHand'
  BY <1>1, <1>18 DEF CompleteManualRefund, SettlePayment, StatusOfTotal, RefundBooking,
     RefundsTypeOK, rowVars, requestVars, stripeVars
<1>19. ASSUME NEW e \in Events, UpdateRefund(e)
      PROVE  RefundsTypeOK' /\ Vouched' /\ ByHand'
  <2>1. method # "BANK_SLIP" /\ ByHand'
    BY <1>1, <1>19 DEF UpdateRefund, RefundsTypeOK
  <2>2. RefundsTypeOK'
    BY <1>1, <1>19 DEF UpdateRefund, SettlePayment, StatusOfTotal, RefundBooking, Events,
                       RefundsTypeOK, requestVars, stripeVars
  <2>3. /\ e.refund \in Refunds /\ refund[e.refund] # "NONE"
        /\ \A q \in Refunds : refund'[q] = IF q # e.refund THEN refund[q]
                               ELSE IF e.status = "succeeded" THEN "REFUNDED" ELSE "FAILED"
    BY <1>1, <1>19 DEF UpdateRefund, RefundsTypeOK, Events
  <2> QED
    BY <1>1, <1>19, <2>1, <2>2, <2>3 DEF UpdateRefund, RefundsTypeOK, requestVars, stripeVars,
       Events
<1>20. ASSUME NEW e \in Events, LoseEvent(e)
      PROVE  RefundsTypeOK' /\ Vouched' /\ ByHand'
  BY <1>1, <1>20 DEF LoseEvent, Events, RefundsTypeOK, rowVars, requestVars, stripeVars
<1>21. CASE ReconcilePaid
  BY <1>1, <1>21 DEF ReconcilePaid, RefundsTypeOK, rowVars, requestVars, stripeVars
<1>22. CASE CancelBooking
  BY <1>1, <1>22 DEF CancelBooking, RefundsTypeOK, rowVars, requestVars, stripeVars
<1>23. CASE UNCHANGED refundVars
  BY <1>1, <1>23 DEF refundVars, RefundsTypeOK, rowVars, requestVars, stripeVars
<1> QED
  BY <1>2, <1>3, <1>4, <1>5, <1>6, <1>7, <1>8, <1>9, <1>10, <1>11, <1>12, <1>13, <1>14, <1>15,
     <1>16, <1>17, <1>18, <1>19, <1>20, <1>21, <1>22, <1>23 DEF RefundsNext, RefundStep

\* What a step may do to the money: what is back stays back, Stripe takes no more
\* than is left, and a status is written from a total that was read.
MoneyStep ==
  /\ method' = method
  /\ \A r \in Refunds : refund[r] # "NONE" => amount'[r] = amount[r]
  /\ Back \subseteq Back'
  /\ \/ TakenAtStripe' \subseteq TakenAtStripe
     \/ \E r \in Refunds :
          /\ r \notin TakenAtStripe /\ TakenAtStripe' = TakenAtStripe \union {r}
          /\ amount' = amount /\ AmountOf(TakenAtStripe) + amount[r] <= Amount
  /\ method = "BANK_SLIP" => Done' = Done \/ RefundedTotal' <= Amount
  /\ \A r \in Refunds : total'[r] \in {total[r], RefundedTotal}
  /\ \A r \in Refunds : stage'[r] = "CLOSING" =>
       stage[r] = "CLOSING" \/ RefundedTotal = Amount \/ total[r] = Amount
  /\ payment' = "REFUNDED" =>
       \/ payment = "REFUNDED" \/ RefundedTotal' = Amount
       \/ \E r \in Refunds : total[r] = Amount
  /\ booking' = "REFUNDED" =>
       \/ booking = "REFUNDED" \/ RefundedTotal' = Amount
       \/ \E r \in Refunds : stage[r] = "CLOSING"

\* Where the amounts are not written, a total over the next rows is the next total.
LEMMA SameAmounts ==
  amount' = amount => SuccessfulRefunds(refund') = RefundedTotal'
<1> SUFFICES ASSUME amount' = amount PROVE SuccessfulRefunds(refund') = RefundedTotal'
  OBVIOUS
<1> QED
  BY DEF RefundedTotal, SuccessfulRefunds, AmountOf, MapThenSumSet, MapThenFoldSet

LEMMA StepsMoveMoney ==
  RefundsInv /\ [RefundsNext]_refundVars => MoneyStep
<1> SUFFICES ASSUME RefundsInv, [RefundsNext]_refundVars
             PROVE  MoneyStep
  OBVIOUS
<1>1. /\ RefundsTypeOK /\ Vouched /\ ByHand /\ RefundedTotal \in Nat
      /\ \A r \in Refunds : amount[r] \in Nat
  BY AmountsAdd, RefundsAssumption DEF AmountsAreSums, RefundsInv, RefundsTypeOK
<1> USE RefundsAssumption
<1> USE DEF MoneyStep, Done, Back, TakenAtStripe, rowVars, requestVars, stripeVars
<1>2. ASSUME NEW r \in Refunds, CheckRefund(r)
      PROVE  MoneyStep
  BY <1>1, <1>2 DEF CheckRefund, Eligible, RefundsTypeOK
<1>3. ASSUME NEW r \in Refunds, CreateRefund(r)
      PROVE  MoneyStep
  BY <1>1, <1>3 DEF CreateRefund, Eligible, Vouched, RefundsTypeOK
<1>4. ASSUME NEW r \in Refunds, RefuseRefund(r)
      PROVE  MoneyStep
  BY <1>1, <1>4 DEF RefuseRefund, Vouched, RefundsTypeOK
<1>5. ASSUME NEW r \in Refunds, CallStripe(r)
      PROVE  MoneyStep
  <2>1. CASE UNCHANGED stripeVars
    BY <1>1, <1>5, <2>1 DEF CallStripe, RefundsTypeOK
  <2>2. ASSUME NEW o \in {"pending", "succeeded"}, provider[r] = "NONE",
               AmountOf(TakenAtStripe) + amount[r] <= Amount,
               provider' = [provider EXCEPT ![r] = o]
        PROVE  MoneyStep
    <3>1. /\ r \notin TakenAtStripe /\ TakenAtStripe' = TakenAtStripe \union {r}
          /\ amount' = amount /\ Back \subseteq Back'
      BY <1>1, <1>5, <2>2 DEF CallStripe, RefundsTypeOK
    <3> HIDE DEF TakenAtStripe, Back
    <3> QED
      BY <1>1, <1>5, <2>2, <3>1 DEF CallStripe, RefundsTypeOK
  <2> QED
    BY <1>5, <2>1, <2>2 DEF CallStripe
<1>6. ASSUME NEW r \in Refunds, StripeFails(r)
      PROVE  MoneyStep
  BY <1>1, <1>6 DEF StripeFails, RefundsTypeOK
<1>7. ASSUME NEW r \in Refunds, StripeSettles(r)
      PROVE  MoneyStep
  BY <1>1, <1>7 DEF StripeSettles, RefundsTypeOK
<1>8. ASSUME NEW r \in Refunds, StoreAnswer(r)
      PROVE  MoneyStep
  BY <1>1, <1>8 DEF StoreAnswer, ByHand, RefundsTypeOK
<1>9. ASSUME NEW r \in Refunds, ReadTotal(r)
      PROVE  MoneyStep
  BY <1>1, <1>9 DEF ReadTotal, StagesAfterPayment, RefundsTypeOK
<1>10. ASSUME NEW r \in Refunds, WriteTotal(r)
      PROVE  MoneyStep
  BY <1>1, <1>10 DEF WriteTotal, StatusOfTotal, StagesAfterPayment, RefundsTypeOK
<1>11. ASSUME NEW r \in Refunds, CloseBooking(r)
      PROVE  MoneyStep
  BY <1>1, <1>11 DEF CloseBooking, RefundBooking, RefundsTypeOK
<1>12. ASSUME NEW r \in Refunds, StepFails(r)
      PROVE  MoneyStep
  BY <1>1, <1>12 DEF StepFails, RefundsTypeOK
<1>13. ASSUME NEW r \in Refunds, FailRefund(r)
      PROVE  MoneyStep
  BY <1>1, <1>13 DEF FailRefund, ByHand, RefundsTypeOK
<1>14. ASSUME NEW r \in Refunds, RestorePayment(r)
      PROVE  MoneyStep
  BY <1>1, <1>14 DEF RestorePayment, Vouched, RefundablePayment, RefundsTypeOK
<1>15. ASSUME NEW r \in Refunds, Crash(r)
      PROVE  MoneyStep
  BY <1>1, <1>15 DEF Crash, RefundsTypeOK
<1>16. ASSUME NEW r \in Refunds, ReadFailed(r)
      PROVE  MoneyStep
  BY <1>1, <1>16 DEF ReadFailed, RefundsTypeOK
<1>17. ASSUME NEW r \in Refunds, RetryRefund(r)
      PROVE  MoneyStep
  BY <1>1, <1>17 DEF RetryRefund, ByHand, RefundsTypeOK
<1>18. ASSUME NEW r \in Refunds, CompleteManualRefund(r)
      PROVE  MoneyStep
  BY <1>1, <1>18, SameAmounts DEF CompleteManualRefund, SettlePayment, StatusOfTotal,
     RefundBooking, RefundsTypeOK
<1>19. ASSUME NEW e \in Events, UpdateRefund(e)
      PROVE  MoneyStep
  BY <1>1, <1>19, SameAmounts DEF UpdateRefund, SettlePayment, StatusOfTotal, RefundBooking,
     Events, ByHand, RefundsTypeOK
<1>20. ASSUME NEW e \in Events, LoseEvent(e)
      PROVE  MoneyStep
  BY <1>1, <1>20 DEF LoseEvent, Events, RefundsTypeOK
<1>21. CASE ReconcilePaid
  BY <1>1, <1>21 DEF ReconcilePaid, RefundsTypeOK
<1>22. CASE CancelBooking
  BY <1>1, <1>22 DEF CancelBooking, RefundsTypeOK
<1>23. CASE UNCHANGED refundVars
  BY <1>1, <1>23 DEF refundVars, RefundsTypeOK
<1> QED
  BY <1>2, <1>3, <1>4, <1>5, <1>6, <1>7, <1>8, <1>9, <1>10, <1>11, <1>12, <1>13, <1>14, <1>15,
     <1>16, <1>17, <1>18, <1>19, <1>20, <1>21, <1>22, <1>23 DEF RefundsNext, RefundStep

\* Nothing that is back is lost, and no more comes back than was paid.
LEMMA MoneyStaysKept ==
  RefundsInv /\ [RefundsNext]_refundVars => MoneyKept'
<1> SUFFICES ASSUME RefundsInv, [RefundsNext]_refundVars
             PROVE  MoneyKept'
  OBVIOUS
<1>1. MoneyStep
  BY StepsMoveMoney
<1>2. RefundsTypeOK /\ Vouched /\ MoneyKept /\ RefundsTypeOK' /\ Vouched'
  BY ShapeKept DEF RefundsInv
<1>3. AmountsAreSums /\ AmountsAreSums'
  <2>1. AmountsAreSums'
    BY <1>2, AmountsAdd, PTL
  <2> QED
    BY <1>2, <2>1, AmountsAdd
<1>4. /\ AmountOf(TakenAtStripe) = SumOf(amount, TakenAtStripe)
      /\ RefundedTotal = SumOf(amount, Done) /\ RefundedTotal \in Nat
      /\ ReturnedMoney = SumOf(amount, Back) /\ ReturnedMoney \in Nat
      /\ AmountOf(TakenAtStripe)' = SumOf(amount', TakenAtStripe')
      /\ RefundedTotal' = SumOf(amount', Done') /\ RefundedTotal' \in Nat
      /\ ReturnedMoney' = SumOf(amount', Back') /\ ReturnedMoney' \in Nat
  BY <1>3 DEF AmountsAreSums
<1>5. /\ IsFiniteSet(Refunds) /\ Amount \in Nat
      /\ amount \in [Refunds -> Nat] /\ amount' \in [Refunds -> Nat]
  BY <1>2, RefundsAssumption DEF RefundsTypeOK
<1>6. /\ Done \in SUBSET Refunds /\ Back \in SUBSET Refunds /\ TakenAtStripe \in SUBSET Refunds
      /\ Done' \in SUBSET Refunds /\ Back' \in SUBSET Refunds /\ TakenAtStripe' \in SUBSET Refunds
  BY DEF Done, Back, TakenAtStripe
\* The amounts of all that exist are as they were.
<1>7. \A r \in Done \union Back \union TakenAtStripe : amount'[r] = amount[r]
  BY <1>1, <1>2 DEF MoneyStep, Vouched, Done, Back, TakenAtStripe
<1>8. ReturnedMoney <= ReturnedMoney'
  <2>1. SumOf(amount, Back) = SumOf(amount', Back)
    BY <1>5, <1>6, <1>7, SumDependsOnItsTerms
  <2>2. SumOf(amount', Back) <= SumOf(amount', Back')
    BY <1>1, <1>5, <1>6, SumGrows DEF MoneyStep
  <2> QED
    BY <1>4, <2>1, <2>2
<1>9. RefundedTotal <= ReturnedMoney /\ RefundedTotal' <= ReturnedMoney'
  <2>1. Done \subseteq Back /\ Done' \subseteq Back'
    BY <1>2 DEF Vouched, Back, RefundsTypeOK
  <2> QED
    BY <1>4, <1>5, <1>6, <2>1, SumGrows
<1>10. (method = "CARD" => AmountOf(TakenAtStripe) <= Amount)'
  <2>1. SUFFICES ASSUME method = "CARD" PROVE SumOf(amount', TakenAtStripe') <= Amount
    BY <1>1, <1>4 DEF MoneyStep
  <2>2. SumOf(amount, TakenAtStripe) <= Amount
    BY <1>2, <1>4, <2>1 DEF MoneyKept
  <2>3. CASE TakenAtStripe' \subseteq TakenAtStripe
    <3>1. SumOf(amount, TakenAtStripe') = SumOf(amount', TakenAtStripe')
      BY <1>5, <1>6, <1>7, <2>3, SumDependsOnItsTerms
    <3>2. SumOf(amount, TakenAtStripe') <= SumOf(amount, TakenAtStripe)
      BY <1>5, <1>6, <2>3, SumGrows
    <3>3. SumOf(amount, TakenAtStripe') \in Nat /\ SumOf(amount, TakenAtStripe) \in Nat
      BY <1>5, <1>6, SumIsNatural
    <3> QED
      BY <1>5, <2>2, <3>1, <3>2, <3>3
  <2>4. ASSUME NEW r \in Refunds,
               r \notin TakenAtStripe, TakenAtStripe' = TakenAtStripe \union {r},
               amount' = amount, AmountOf(TakenAtStripe) + amount[r] <= Amount
        PROVE  SumOf(amount', TakenAtStripe') <= Amount
    <3>1. TakenAtStripe' \ {r} = TakenAtStripe /\ r \in TakenAtStripe'
      BY <2>4
    <3>2. SumOf(amount, TakenAtStripe') = amount[r] + SumOf(amount, TakenAtStripe)
      BY <1>5, <1>6, <3>1, SumRemoves
    <3>3. amount[r] \in Nat /\ SumOf(amount, TakenAtStripe) \in Nat
      BY <1>5, <1>6, SumIsNatural
    <3> QED
      BY <1>4, <2>4, <3>2, <3>3
  <2> QED
    BY <1>1, <2>3, <2>4 DEF MoneyStep
<1>11. RefundedTotal' <= Amount /\ ReturnedMoney' <= Amount
  <2>1. CASE method = "CARD"
    <3>1. Back' \subseteq TakenAtStripe'
      BY <1>1, <2>1 DEF MoneyStep, Back, TakenAtStripe
    <3>2. SumOf(amount', Back') <= SumOf(amount', TakenAtStripe')
      BY <1>5, <1>6, <3>1, SumGrows
    <3>3. SumOf(amount', TakenAtStripe') <= Amount /\ SumOf(amount', TakenAtStripe') \in Nat
      BY <1>1, <1>4, <1>5, <1>6, <1>10, <2>1, SumIsNatural DEF MoneyStep
    <3> QED
      BY <1>4, <1>5, <1>9, <3>2, <3>3
  <2>2. CASE method = "BANK_SLIP"
    <3>1. Back' = Done' /\ Back = Done
      BY <1>1, <2>2 DEF MoneyStep, Back
    <3>2. CASE Done' = Done
      <4>1. SumOf(amount', Done') = SumOf(amount, Done)
        BY <1>5, <1>6, <1>7, <3>2, SumDependsOnItsTerms
      <4> QED
        BY <1>2, <1>4, <3>1, <4>1 DEF MoneyKept
    <3> QED
      BY <1>1, <1>4, <2>2, <3>1, <3>2 DEF MoneyStep
  <2> QED
    BY <1>2, <2>1, <2>2, RefundsAssumption DEF RefundsTypeOK
\* What was called refunded in full, was.
<1>12. \/ RefundedTotal = Amount \/ RefundedTotal' = Amount \/ ReturnedMoney = Amount
       \/ \E r \in Refunds : total[r] = Amount
       => ReturnedMoney' = Amount
  <2>1. ASSUME NEW r \in Refunds, total[r] = Amount PROVE ReturnedMoney' = Amount
    BY <1>2, <1>4, <1>5, <1>8, <1>11, <2>1 DEF MoneyKept
  <2>2. CASE RefundedTotal = Amount \/ RefundedTotal' = Amount \/ ReturnedMoney = Amount
    BY <1>4, <1>5, <1>8, <1>9, <1>11, <2>2
  <2> QED
    BY <2>1, <2>2
<1>13. (\A r \in Refunds : total[r] <= ReturnedMoney)'
  <2>1. SUFFICES ASSUME NEW r \in Refunds PROVE total'[r] <= ReturnedMoney'
    OBVIOUS
  <2>2. total[r] \in Nat /\ total[r] <= ReturnedMoney /\ total'[r] \in {total[r], RefundedTotal}
    BY <1>1, <1>2, <1>5 DEF MoneyStep, MoneyKept, RefundsTypeOK
  <2> QED
    BY <1>4, <1>8, <1>9, <2>2
<1>14. (\A r \in Refunds : stage[r] = "CLOSING" => ReturnedMoney = Amount)'
  BY <1>1, <1>2, <1>12 DEF MoneyStep, MoneyKept
<1>15. (payment = "REFUNDED" \/ booking = "REFUNDED" => ReturnedMoney = Amount)'
  BY <1>1, <1>2, <1>12 DEF MoneyStep, MoneyKept
<1> QED
  BY <1>10, <1>11, <1>13, <1>14, <1>15 DEF MoneyKept

\* A bank slip's payment waits while its refund does, and tells the total otherwise.
LEMMA StaysInStep ==
  RefundsInv /\ [RefundsNext]_refundVars => InStep'
<1> SUFFICES ASSUME RefundsInv, [RefundsNext]_refundVars, method' = "BANK_SLIP"
             PROVE  payment' = IF UnderWay' # {} THEN "REFUND_PENDING"
                                                 ELSE StatusOfTotal(RefundedTotal)'
  BY DEF InStep
<1>1. MoneyStep /\ method = "BANK_SLIP"
  BY StepsMoveMoney DEF MoneyStep
<1>2. /\ RefundsTypeOK /\ Vouched /\ ByHand
      /\ payment = IF UnderWay # {} THEN "REFUND_PENDING" ELSE StatusOfTotal(RefundedTotal)
  BY <1>1 DEF RefundsInv, InStep
<1>3. AmountsAreSums /\ AmountsAreSums'
  <2>1. RefundsTypeOK'
    BY ShapeKept
  <2>2. AmountsAreSums'
    BY <2>1, AmountsAdd, PTL
  <2> QED
    BY <1>2, <2>2, AmountsAdd
<1>4. StatusOfTotal(RefundedTotal)' = StatusOfTotal(RefundedTotal')
  BY DEF StatusOfTotal
\* As long as no refund completes, the total is the same.
<1>5. Done' = Done => RefundedTotal' = RefundedTotal
  <2>1. SUFFICES ASSUME Done' = Done PROVE SumOf(amount', Done) = SumOf(amount, Done)
    BY <1>3 DEF AmountsAreSums
  <2>2. \A r \in Done : amount'[r] = amount[r]
    BY <1>1 DEF MoneyStep, Done
  <2>3. Done \in SUBSET Refunds
    BY DEF Done
  <2> QED
    BY <2>2, <2>3, SumDependsOnItsTerms, RefundsAssumption
<1>6. ASSUME UNCHANGED <<payment, refund>>
      PROVE  payment' = IF UnderWay' # {} THEN "REFUND_PENDING" ELSE StatusOfTotal(RefundedTotal')
  <2>1. Done' = Done /\ UnderWay' = UnderWay
    BY <1>6 DEF Done, UnderWay
  <2> QED
    BY <1>2, <1>5, <1>6, <2>1
<1>7. ASSUME NEW r \in Refunds, CreateRefund(r)
      PROVE  payment' = IF UnderWay' # {} THEN "REFUND_PENDING" ELSE StatusOfTotal(RefundedTotal')
  <2>1. refund' = [refund EXCEPT ![r] = "PENDING_MANUAL_PROCESSING"] /\ payment' = "REFUND_PENDING"
    BY <1>1, <1>7 DEF CreateRefund
  <2>2. r \in UnderWay'
    BY <1>2, <2>1 DEF UnderWay, Pending, RefundsTypeOK
  <2> QED
    BY <2>1, <2>2
<1>8. ASSUME NEW r \in Refunds, CompleteManualRefund(r)
      PROVE  payment' = IF UnderWay' # {} THEN "REFUND_PENDING" ELSE StatusOfTotal(RefundedTotal')
  <2>1. /\ refund[r] = "PENDING_MANUAL_PROCESSING" /\ amount' = amount
        /\ refund' = [refund EXCEPT ![r] = "REFUNDED"]
        /\ payment' = StatusOfTotal(SuccessfulRefunds(refund'))
    BY <1>8 DEF CompleteManualRefund, SettlePayment
  <2>2. UnderWay' = {}
    <3>1. \A q \in UnderWay : q = r
      BY <1>1, <1>2, <2>1 DEF Vouched, ByHand, UnderWay, Pending
    <3> QED
      BY <1>2, <2>1, <3>1 DEF UnderWay, Pending, RefundsTypeOK
  <2> QED
    BY <2>1, <2>2, SameAmounts
<1>9. \/ UNCHANGED <<payment, refund>>
      \/ \E r \in Refunds : CreateRefund(r) \/ CompleteManualRefund(r)
  <2>1. \A r \in Refunds : stage[r] \in {"IDLE", "CHECKED"} /\ refund[r] # "FAILED"
                           /\ provider[r] = "NONE"
    BY <1>1, <1>2 DEF ByHand
  <2>2. sent = {}
    BY <1>1, <1>2 DEF ByHand
  <2>3. ASSUME NEW r \in Refunds, RefundStep(r)
        PROVE  \/ UNCHANGED <<payment, refund>>
               \/ CreateRefund(r) \/ CompleteManualRefund(r)
    BY <2>1, <2>3 DEF RefundStep, CheckRefund, RefuseRefund, CallStripe, StripeFails,
         StripeSettles, StoreAnswer, ReadTotal, WriteTotal, CloseBooking, StepFails,
         FailRefund, RestorePayment, Crash, ReadFailed, RetryRefund
  <2>4. \A e \in Events : ~ UpdateRefund(e) /\ ~ LoseEvent(e)
    BY <2>2 DEF UpdateRefund, LoseEvent
  <2> QED
    BY <1>1, <2>3, <2>4 DEF RefundsNext, ReconcilePaid, CancelBooking, refundVars, rowVars
<1> QED
  BY <1>4, <1>6, <1>7, <1>8, <1>9

LEMMA RefundsInvariant == RefundsSpec => []RefundsInv
<1>1. RefundsInit => RefundsInv
  BY RefundsStart
<1>2. RefundsInv /\ [RefundsNext]_refundVars => RefundsInv'
  BY ShapeKept, MoneyStaysKept, StaysInStep DEF RefundsInv
<1> QED
  BY <1>1, <1>2, PTL DEF RefundsSpec

-------------------------------------------------------------------------------
(* The theorems                                                              *)

\* The rows of payments, bookings and refunds, the requests and Stripe's records
\* stay well typed; in particular no total exceeds the payment.
THEOREM TypeCorrect == RefundsSpec => []RefundsTypeOK
<1>1. RefundsInv => RefundsTypeOK
  BY DEF RefundsInv
<1> QED
  BY <1>1, RefundsInvariant, PTL

\* Never is more refunded than was paid, a card's refund is recorded as done only
\* when the money is back, and what is called REFUNDED has been paid back in full.
THEOREM NoRefundBeyondPayment == RefundsSpec => []RefundsWithinPayment
<1>1. RefundsInv => RefundsWithinPayment
  BY DEF RefundsInv, MoneyKept, Vouched, Done, Back, RefundsWithinPayment
<1> QED
  BY <1>1, RefundsInvariant, PTL

\* Two refunds are under way at once only if one is retried after a failure, and
\* the payment of a bank slip is in step with its refunds.
THEOREM OneRefundAtATime == RefundsSpec => []RefundsTakeTurns
<1>1. RefundsInv => RefundsTakeTurns
  <2> SUFFICES ASSUME RefundsInv PROVE RefundsTakeTurns
    OBVIOUS
  <2>1. \A q, r \in UnderWay \ retried : q = r
    BY DEF RefundsInv, Vouched
  <2>2. Cardinality(UnderWay \ retried) <= 1
    <3>1. CASE UnderWay \ retried = {}
      BY <3>1, FS_EmptySet
    <3>2. ASSUME NEW r \in UnderWay \ retried
          PROVE  Cardinality(UnderWay \ retried) <= 1
      <4>1. UnderWay \ retried = {r}
        BY <2>1, <3>2
      <4> QED
        BY <4>1, FS_Singleton
    <3> QED
      BY <3>1, <3>2
  <2> QED
    BY <2>2 DEF RefundsInv, InStep, RefundsTakeTurns
<1> QED
  BY <1>1, RefundsInvariant, PTL
-------------------------------------------------------------------------------
(* The seats that are shown, found, counted and held                         *)

\* The seat map and the check of a hold look at the same facts in another order.
LEMMA SelectableIsAvailable ==
  ASSUME NEW ride \in Rides, SegmentOffered(ride), journey.status # "COMPLETED"
  PROVE  \A r \in SeatRow : Selectable(r, ride) <=> SeatAvailable(r, ride, clock)
<1> SUFFICES ASSUME NEW r \in SeatRow PROVE Selectable(r, ride) <=> SeatAvailable(r, ride, clock)
  OBVIOUS
<1>1. journey.status \notin {"CANCELLED", "COMPLETED"}
  BY DEF SegmentOffered
<1>2. NoActiveOverlap(table, r, ride, clock) <=> Conflicts(r, ride) = {}
  BY DEF NoActiveOverlap, Conflicts
<1>3. Selectable(r, ride) <=>
        /\ CoachOf[r] \in coachOpen \intersect ReservedCoach /\ r \in activeSeat
        /\ rowStatus[r] = "AVAILABLE" /\ Conflicts(r, ride) = {}
  BY <1>1 DEF Selectable, SeatState
<1> QED
  BY <1>2, <1>3 DEF SeatAvailable, Usable

LEMMA FoundIsAvailable ==
  ASSUME NEW ride
  PROVE  FoundSeats(ride, clock, TRUE) = {r \in SeatRow : SeatAvailable(r, ride, clock)}
BY DEF FoundSeats, SeatAvailable, Usable

\* The seats of the coaches of a class are what the searches count for it.
LEMMA ClassesAddUp ==
  ASSUME NEW ride, NEW class \in DOMAIN ClassCounts(ride, clock)
  PROVE  ClassCounts(ride, clock)[class] = Cardinality(CountedSeats(ride, class))
<1> DEFINE found == FoundSeats(ride, clock, TRUE)
           listed == found \union FoundSeats(ride, clock, FALSE)
           D == {CoachOf[r] : r \in listed}
           available == [c \in D |-> Cardinality({r \in found : CoachOf[r] = c})]
           mine == {c \in D : CoachClass[c] = class}
<1>1. found \subseteq SeatRow /\ listed \subseteq SeatRow
  BY DEF FoundSeats
<1>2. IsFiniteSet(found) /\ IsFiniteSet(D) /\ D \subseteq CoachRow
  <2>1. IsFiniteSet(found) /\ IsFiniteSet(listed)
    BY <1>1, AvailabilityAssumption, FS_Subset
  <2>2. IsFiniteSet(D)
    <3>1. [r \in listed |-> CoachOf[r]] \in Surjection(listed, D)
      BY DEF Surjection
    <3> HIDE DEF listed, D
    <3> QED
      BY <2>1, <3>1, FS_Surjection
  <2> QED
    BY <1>1, <2>1, <2>2, AvailabilityAssumption
<1>3. available \in [D -> Nat]
  <2>1. \A c \in D : Cardinality({r \in found : CoachOf[r] = c}) \in Nat
    <3> HIDE DEF found
    <3> QED
      BY <1>2, FS_Subset, FS_CardinalityType
  <2> QED
    BY <2>1
<1>4. class \in {CoachClass[c] : c \in D} /\ ClassCounts(ride, clock)[class] = SumOf(available, mine)
  <2>1. DOMAIN CoachCounts(ride, clock) = D
    BY DEF CoachCounts
  <2>2. available = [c \in D |-> CoachCounts(ride, clock)[c].availableSeats]
    BY DEF CoachCounts
  <2> HIDE DEF available, D
  <2>3. ClassCounts(ride, clock) =
          [k \in {CoachClass[c] : c \in D} |-> SumOf(available, {c \in D : CoachClass[c] = k})]
    BY <2>1, <2>2 DEF ClassCounts, SumOf
  <2> QED
    BY <2>3
<1>5. SumOf(available, mine) = Cardinality({r \in found : CoachOf[r] \in mine})
  <2>1. mine \in SUBSET D /\ \A c \in D : available[c] = Cardinality({r \in found : CoachOf[r] = c})
    OBVIOUS
  <2> HIDE DEF found, D, available, mine
  <2> QED
    BY <1>2, <1>3, <2>1, PartsAddUp
<1>6. {r \in found : CoachOf[r] \in mine} = CountedSeats(ride, class)
  <2>1. class # Null
    BY <1>2, <1>4, AvailabilityAssumption
  <2>2. \A r \in found : CoachOf[r] \in D
    OBVIOUS
  <2>3. found = {r \in SeatRow : SeatAvailable(r, ride, clock)}
    BY FoundIsAvailable
  <2> HIDE DEF found, D
  <2> QED
    BY <2>1, <2>2, <2>3 DEF CountedSeats, SeatAvailable
<1> QED
  BY <1>4, <1>5, <1>6

LEMMA ViewsAgreeAnywhere == SeatViewsAgree
<1> SUFFICES ASSUME NEW ride \in Rides, SegmentOffered(ride), journey.status # "COMPLETED"
             PROVE  LET selectable == {r \in SeatRow : Selectable(r, ride)}
                    IN  /\ selectable = {r \in SeatRow : SeatAvailable(r, ride, clock)}
                        /\ MapSummary(ride).availableSeats = SeatTotals(ride, clock).availableSeats
                        /\ selectable = UNION {AvailableSeats(ride, clock)[c] :
                                                 c \in DOMAIN AvailableSeats(ride, clock)}
                        /\ \A class \in DOMAIN ClassCounts(ride, clock) :
                             ClassCounts(ride, clock)[class] = Cardinality(CountedSeats(ride, class))
  BY DEF SeatViewsAgree
<1> DEFINE selectable == {r \in SeatRow : Selectable(r, ride)}
           found == FoundSeats(ride, clock, TRUE)
<1>1. selectable = {r \in SeatRow : SeatAvailable(r, ride, clock)}
  BY SelectableIsAvailable
<1>2. found = selectable
  BY <1>1, FoundIsAvailable
<1>3. MapSummary(ride).availableSeats = SeatTotals(ride, clock).availableSeats
  BY <1>2 DEF MapSummary, SeatTotals
<1>4. found = UNION {AvailableSeats(ride, clock)[c] : c \in DOMAIN AvailableSeats(ride, clock)}
  <2>1. AvailableSeats(ride, clock) =
          [c \in {CoachOf[r] : r \in found} |-> {r \in found : CoachOf[r] = c}]
    BY DEF AvailableSeats, GroupedByCoach
  <2> HIDE DEF found
  <2> QED
    BY <2>1
<1>5. \A class \in DOMAIN ClassCounts(ride, clock) :
        ClassCounts(ride, clock)[class] = Cardinality(CountedSeats(ride, class))
  BY ClassesAddUp
<1> QED
  BY <1>1, <1>2, <1>3, <1>4, <1>5

LEMMA ListedHoldsAnywhere == ListedCanBeHeld
<1> SUFFICES ASSUME NEW ride \in Rides, NEW party \in 1 .. MaxParty,
                    NEW class \in ClassWanted \ {Null}, journey.status # "BOARDING",
                    ListedPublic(ride, party, class) \/ ListedUpcoming(ride, party, class)
             PROVE  \E held \in SUBSET CountedSeats(ride, class) :
                      Cardinality(held) = party /\ HoldAccepted(held, ride, clock)
  BY DEF ListedCanBeHeld
<1>1. ListedUpcoming(ride, party, class)
  BY DEF ListedPublic
<1>2. CountedSeats(ride, class) \subseteq SeatRow /\ IsFiniteSet(CountedSeats(ride, class))
  BY AvailabilityAssumption, FS_Subset DEF CountedSeats
<1>3. party \in Nat /\ Cardinality(CountedSeats(ride, class)) >= party
  BY <1>1, AvailabilityAssumption DEF ListedUpcoming
<1>4. PICK seats \in SUBSET CountedSeats(ride, class) : Cardinality(seats) = party
  BY <1>2, <1>3, SubsetsOfEachSize
<1>5. seats # {}
  BY <1>4, FS_EmptySet, AvailabilityAssumption
<1>6. \A r \in seats : SeatAvailable(r, ride, clock) /\ CoachClass[CoachOf[r]] = class
  BY <1>4 DEF CountedSeats, SeatAvailable
<1>7. SegmentOffered(ride) /\ WindowOpen(clock) /\ journey.status \in {"SCHEDULED", "DELAYED"}
  BY <1>1 DEF ListedUpcoming, SegmentOffered
<1> QED
  BY <1>4, <1>5, <1>6, <1>7 DEF HoldAccepted, SeatsAvailable

\* What one passenger is shown to be free, another can look up and a third is sold,
\* whatever is open, blocked, held, lapsed or offered to somebody who waits.
THEOREM SeatViewsStayInAgreement == AvailabilitySpec => []SeatViewsAgree
BY ViewsAgreeAnywhere, PTL

\* The searches promise no seats that createBookingHold would then refuse.
THEOREM ListedJourneysCanBeHeld == AvailabilitySpec => []ListedCanBeHeld
BY ListedHoldsAnywhere, PTL
-------------------------------------------------------------------------------
(* The abstract ledger of seats                                              *)

LedgerInv == owned \in [Holders -> Lots \union {{}}] /\ Exclusive

\* What the ledger allows implies what a passenger cares about: no seat of a
\* leg is ever owned twice.
THEOREM LedgerExclusive == Spec => []Exclusive
<1>1. Init => LedgerInv
  BY DEF Init, LedgerInv, Exclusive
<1>2. LedgerInv /\ [Next]_owned => LedgerInv'
  <2>. SUFFICES ASSUME LedgerInv, [Next]_owned PROVE LedgerInv'
    OBVIOUS
  <2>1. ASSUME NEW h \in Holders, NEW C \in Lots, Claim(h, C) PROVE LedgerInv'
    BY <2>1 DEF LedgerInv, Exclusive, Claim, Free
  <2>2. ASSUME NEW H \in SUBSET Holders, Release(H) PROVE LedgerInv'
    BY <2>2 DEF LedgerInv, Exclusive, Release
  <2>3. CASE UNCHANGED owned
    BY <2>3 DEF LedgerInv, Exclusive
  <2>. QED BY <2>1, <2>2, <2>3 DEF Next
<1>3. LedgerInv => Exclusive
  BY DEF LedgerInv
<1>. QED BY <1>1, <1>2, <1>3, PTL DEF Spec

-------------------------------------------------------------------------------
(* The records of an official: listed, opened and reported                   *)

\* The index keeps a pair from having two active rows.
OneActiveRow ==
  \A pair \in Official \X Target :
    \A k, l \in DOMAIN rows[pair] : rows[pair][k] /\ rows[pair][l] => k = l

ScopesInv == ScopesTypeOK /\ OneActiveRow

LEMMA ScopesStart == ScopesInit => ScopesInv
<1> SUFFICES ASSUME ScopesInit PROVE ScopesInv
  OBVIOUS
<1>1. rows \in [Official \X Target -> Seq(BOOLEAN)] /\ \A pair \in Official \X Target : DOMAIN rows[pair] = {}
  BY DEF ScopesInit
<1> QED
  BY <1>1, ScopesAssumption DEF ScopesInit, ScopesInv, ScopesTypeOK, OneActiveRow

Requests ==
  [op : {"ASSIGN", "REVOKE"}, user : Official, left : SUBSET Target,
   target : Target \union {NoValue}, row : Nat]

RequestsTyped ==
  /\ edits \in [Screen -> {None} \union Requests]
  /\ \A e \in Screen : edits[e] # None /\ edits[e].op = "REVOKE" => edits[e].target \in Target

\* A request goes on with fewer targets, or is answered.
LEMMA ProceedTyped ==
  ASSUME RequestsTyped, NEW e \in Screen, edits[e] # None, edits[e].op = "ASSIGN",
         NEW left \in SUBSET Target, Proceed(e, left)
  PROVE  RequestsTyped'
<1>1. edits[e] \in Requests
  BY DEF RequestsTyped
<1>2. /\ [edits[e] EXCEPT !.left = left, !.target = NoValue] \in Requests
      /\ [edits[e] EXCEPT !.left = left, !.target = NoValue].op = "ASSIGN"
  BY <1>1 DEF Requests
<1> DEFINE next == IF left = {} THEN None ELSE [edits[e] EXCEPT !.left = left, !.target = NoValue]
<1>3. edits' = [edits EXCEPT ![e] = next]
  BY DEF Proceed
<1>4. next \in {None} \union Requests /\ (next # None => next.op = "ASSIGN")
  BY <1>2
<1> HIDE DEF next, Requests
<1> QED
  BY <1>3, <1>4 DEF RequestsTyped

\* One pair's rows are written, and are as they should be.
LEMMA RowsWritten ==
  ASSUME rows \in [Official \X Target -> Seq(BOOLEAN)], OneActiveRow,
         NEW pair \in Official \X Target, NEW new \in Seq(BOOLEAN),
         rows' = [rows EXCEPT ![pair] = new],
         \A l, m \in DOMAIN new : new[l] /\ new[m] => l = m
  PROVE  rows' \in [Official \X Target -> Seq(BOOLEAN)] /\ OneActiveRow'
<1>1. rows' \in [Official \X Target -> Seq(BOOLEAN)]
  OBVIOUS
<1>2. \A p \in Official \X Target : rows'[p] = IF p = pair THEN new ELSE rows[p]
  OBVIOUS
<1> QED
  BY <1>1, <1>2 DEF OneActiveRow

LEMMA SequencesUpdated ==
  ASSUME NEW s \in Seq(BOOLEAN), NEW k, NEW v \in BOOLEAN
  PROVE  [s EXCEPT ![k] = v] \in Seq(BOOLEAN)
<1>1. CASE k \in 1 .. Len(s)
  BY <1>1, ExceptSeq
<1>2. CASE k \notin 1 .. Len(s)
  <2>1. DOMAIN s = 1 .. Len(s)
    OBVIOUS
  <2>2. s \in [1 .. Len(s) -> BOOLEAN]
    OBVIOUS
  <2>3. [s EXCEPT ![k] = v] = s
    BY <1>2, <2>2
  <2> QED
    BY <2>3
<1> QED
  BY <1>1, <1>2

LEMMA ScopesStep == ScopesInv /\ [ScopesNext]_scopeVars => ScopesInv'
<1> SUFFICES ASSUME ScopesInv, [ScopesNext]_scopeVars PROVE ScopesInv'
  OBVIOUS
<1>0. /\ ScopesTypeOK /\ OneActiveRow
      /\ RequestsTyped
      /\ rows \in [Official \X Target -> Seq(BOOLEAN)]
      /\ asked \in 0 .. MaxScopeSteps
  BY DEF ScopesInv, ScopesTypeOK, RequestsTyped, Requests
<1>kept. ASSUME RequestsTyped', OneActiveRow', rows' \in [Official \X Target -> Seq(BOOLEAN)],
             UNCHANGED <<roleOf, adminJourneys, trainOf, soldAs>>, asked' \in 0 .. MaxScopeSteps
      PROVE  ScopesInv'
  BY <1>0, <1>kept DEF ScopesInv, ScopesTypeOK, RequestsTyped, Requests
<1>asked. Ask => asked' \in 0 .. MaxScopeSteps
  BY <1>0, ScopesAssumption DEF Ask
<1>1. ASSUME NEW e \in Screen, ReadPair(e) PROVE ScopesInv'
  <2>1. PICK t \in edits[e].left :
          IF Assigned(edits[e].user, t) THEN Proceed(e, edits[e].left \ {t})
          ELSE edits' = [edits EXCEPT ![e].target = t,
                                      ![e].row = Len(rows[<<edits[e].user, t>>])]
    BY <1>1 DEF ReadPair
  <2>2. edits[e] # None /\ edits[e].op = "ASSIGN" /\ edits[e] \in Requests
    BY <1>0, <1>1 DEF ReadPair, RequestsTyped
  <2>3. t \in Target /\ edits[e].left \ {t} \in SUBSET Target /\ edits[e].user \in Official
    BY <2>1, <2>2 DEF Requests
  <2>4. CASE Assigned(edits[e].user, t)
    <3>1. RequestsTyped'
      BY <1>0, <2>1, <2>2, <2>3, <2>4, ProceedTyped
    <3> QED
      BY <1>0, <1>1, <1>kept, <3>1 DEF ReadPair, OneActiveRow
  <2>5. CASE ~ Assigned(edits[e].user, t)
    <3> DEFINE n == Len(rows[<<edits[e].user, t>>])
               next == [edits[e] EXCEPT !.target = t, !.row = n]
    <3>1. n \in Nat
      <4>1. <<edits[e].user, t>> \in Official \X Target
        BY <2>3
      <4>2. rows[<<edits[e].user, t>>] \in Seq(BOOLEAN)
        BY <1>0, <4>1
      <4> QED
        BY <4>2
    <3>2. edits' = [edits EXCEPT ![e] = next]
      BY <2>1, <2>5
    <3> HIDE DEF n
    <3>3. next \in Requests /\ next.op = "ASSIGN"
      BY <2>2, <2>3, <3>1 DEF Requests
    <3> HIDE DEF next
    <3>4. RequestsTyped'
      BY <1>0, <3>2, <3>3 DEF RequestsTyped
    <3> QED
      BY <1>0, <1>1, <1>kept, <3>4 DEF ReadPair, OneActiveRow
  <2> QED
    BY <2>4, <2>5
<1>2. ASSUME NEW e \in Screen, CommitAssignment(e) PROVE ScopesInv'
  <2> DEFINE pair == <<edits[e].user, edits[e].target>>
             k == edits[e].row
             new == IF k = 0 THEN Append(rows[pair], TRUE) ELSE [rows[pair] EXCEPT ![k] = TRUE]
  <2>1. /\ edits[e] # None /\ edits[e].op = "ASSIGN"
        /\ UniqueActive(edits[e].user, edits[e].target, k)
        /\ rows' = [rows EXCEPT ![pair] = new]
        /\ Proceed(e, edits[e].left \ {edits[e].target})
        /\ edits[e].target # NoValue
        /\ UNCHANGED <<roleOf, adminJourneys, trainOf, soldAs, asked>>
    BY <1>2 DEF CommitAssignment
  <2>2. edits[e] \in Requests
    BY <1>0, <2>1 DEF RequestsTyped
  <2>3. /\ pair \in Official \X Target /\ k \in Nat
        /\ edits[e].left \ {edits[e].target} \in SUBSET Target
    BY <2>1, <2>2 DEF Requests
  <2>4. RequestsTyped'
    BY <1>0, <2>1, <2>3, ProceedTyped
  <2>5. \A l \in DOMAIN rows[pair] : rows[pair][l] => l = k
    BY <2>1 DEF UniqueActive, ActiveRows
  <2>6. rows[pair] \in Seq(BOOLEAN)
    BY <1>0, <2>3
  <2>7. new \in Seq(BOOLEAN) /\ \A l, m \in DOMAIN new : new[l] /\ new[m] => l = m
    <3> HIDE DEF pair, k
    <3>1. CASE k = 0
      <4>1. new = Append(rows[pair], TRUE)
        BY <3>1
      <4>2. \A l \in DOMAIN rows[pair] : ~ rows[pair][l]
        BY <2>5, <2>6, <3>1
      <4> HIDE DEF new
      <4> QED
        BY <2>6, <4>1, <4>2
    <3>2. CASE k # 0
      <4>1. new = [rows[pair] EXCEPT ![k] = TRUE]
        BY <3>2
      <4> HIDE DEF new
      <4> QED
        BY <2>5, <2>6, <4>1, SequencesUpdated
    <3> QED
      BY <3>1, <3>2
  <2>8. rows' \in [Official \X Target -> Seq(BOOLEAN)] /\ OneActiveRow'
    <3> HIDE DEF new, pair
    <3> QED
      BY <1>0, <2>1, <2>3, <2>7, RowsWritten
  <2> QED
    BY <1>0, <1>kept, <2>1, <2>4, <2>8
<1>3. ASSUME NEW e \in Screen, RefuseAssignment(e) PROVE ScopesInv'
  <2>1. RequestsTyped'
    BY <1>0, <1>3 DEF RefuseAssignment, RequestsTyped
  <2> QED
    BY <1>0, <1>3, <1>kept, <2>1 DEF RefuseAssignment, OneActiveRow
<1>4. ASSUME NEW e \in Screen, CommitRevocation(e) PROVE ScopesInv'
  <2> DEFINE pair == <<edits[e].user, edits[e].target>>
             k == edits[e].row
             new == [rows[pair] EXCEPT ![k] = FALSE]
  <2>1. /\ edits[e] # None /\ edits[e].op = "REVOKE"
        /\ rows' = [rows EXCEPT ![pair] = new]
        /\ edits' = [edits EXCEPT ![e] = None]
        /\ UNCHANGED <<roleOf, adminJourneys, trainOf, soldAs, asked>>
    BY <1>4 DEF CommitRevocation
  <2>2. pair \in Official \X Target
    BY <1>0, <2>1 DEF RequestsTyped, Requests
  <2>3. rows[pair] \in Seq(BOOLEAN)
    BY <1>0, <2>2
  <2>4. new \in Seq(BOOLEAN)
    BY <2>3, SequencesUpdated
  <2>5. \A l, m \in DOMAIN new : new[l] /\ new[m] => l = m
    BY <1>0, <2>2, <2>3 DEF OneActiveRow
  <2>6. RequestsTyped'
    BY <1>0, <2>1 DEF RequestsTyped
  <2> HIDE DEF new, pair
  <2>7. rows' \in [Official \X Target -> Seq(BOOLEAN)] /\ OneActiveRow'
    BY <1>0, <2>1, <2>2, <2>4, <2>5, RowsWritten
  <2> QED
    BY <1>0, <1>kept, <2>1, <2>6, <2>7
<1>5. ASSUME NEW e \in Screen, NEW u \in Official,
             NEW targets \in (SUBSET ScopeTrain) \union (SUBSET ScopeStation),
             AskToAssign(e, u, targets)
      PROVE  ScopesInv'
  <2> DEFINE next == [op |-> "ASSIGN", user |-> u, left |-> targets, target |-> NoValue, row |-> 0]
  <2>1. next \in Requests /\ next.op = "ASSIGN"
    BY DEF Target, Requests
  <2>2. edits' = [edits EXCEPT ![e] = next]
    BY <1>5 DEF AskToAssign
  <2> HIDE DEF next
  <2>3. RequestsTyped'
    BY <1>0, <2>1, <2>2 DEF RequestsTyped
  <2> QED
    BY <1>0, <1>5, <1>kept, <1>asked, <2>3 DEF AskToAssign, OneActiveRow
<1>6. ASSUME NEW e \in Screen, NEW u \in Official, NEW t \in Target, AskToRevoke(e, u, t)
      PROVE  ScopesInv'
  <2>1. PICK k \in ActiveRows(u, t) :
          edits' = [edits EXCEPT ![e] =
            [op |-> "REVOKE", user |-> u, left |-> {}, target |-> t, row |-> k]]
    BY <1>6 DEF AskToRevoke
  <2> DEFINE next == [op |-> "REVOKE", user |-> u, left |-> {}, target |-> t, row |-> k]
  <2>2. k \in Nat
    <3>1. rows[<<u, t>>] \in Seq(BOOLEAN)
      BY <1>0
    <3> QED
      BY <3>1 DEF ActiveRows
  <2>3. next \in Requests /\ next.target \in Target
    BY <2>2 DEF Requests
  <2>4. edits' = [edits EXCEPT ![e] = next]
    BY <2>1
  <2> HIDE DEF next
  <2>5. RequestsTyped'
    BY <1>0, <2>3, <2>4 DEF RequestsTyped
  <2> QED
    BY <1>0, <1>6, <1>kept, <1>asked, <2>5 DEF AskToRevoke, OneActiveRow
<1>7. ASSUME \/ \E u \in Official :
                  \/ \E j \in ScopeJourney : AssignJourney(u, j) \/ RemoveJourney(u, j)
                  \/ \E role \in {"ADMIN", "STAFF"} : GiveRole(u, role)
             \/ \E j \in ScopeJourney, t \in ScopeTrain : MoveJourney(j, t)
             \/ \E b \in ScopeBooking : Sell(b)
      PROVE  ScopesInv'
  <2>1. Ask
    BY <1>7 DEF AssignJourney, RemoveJourney, GiveRole, MoveJourney, Sell
  <2>2. UNCHANGED <<rows, edits>>
    BY <1>7 DEF AssignJourney, RemoveJourney, GiveRole, MoveJourney, Sell
  <2>3. roleOf' \in [Official -> {"ADMIN", "STAFF"}]
    BY <1>0, <1>7 DEF AssignJourney, RemoveJourney, GiveRole, MoveJourney, Sell, ScopesTypeOK
  <2>4. adminJourneys' \subseteq Official \X ScopeJourney
    <3>1. \/ adminJourneys' \subseteq adminJourneys
          \/ \E u \in Official, j \in ScopeJourney : adminJourneys' = adminJourneys \union {<<u, j>>}
      BY <1>7 DEF AssignJourney, RemoveJourney, GiveRole, MoveJourney, Sell
    <3> QED
      BY <1>0, <3>1 DEF ScopesTypeOK
  <2>5. trainOf' \in [ScopeJourney -> ScopeTrain]
    BY <1>0, <1>7 DEF AssignJourney, RemoveJourney, GiveRole, MoveJourney, Sell, ScopesTypeOK
  <2>6. soldAs' \in [ScopeBooking -> {"NONE", "HELD", "CONFIRMED"}]
    BY <1>0, <1>7 DEF AssignJourney, RemoveJourney, GiveRole, MoveJourney, Sell, ScopesTypeOK
  <2> QED
    BY <1>0, <1>asked, <2>1, <2>2, <2>3, <2>4, <2>5, <2>6 DEF ScopesInv, ScopesTypeOK, OneActiveRow
<1>8. CASE UNCHANGED scopeVars
  BY <1>0, <1>8 DEF scopeVars, ScopesInv, ScopesTypeOK, OneActiveRow
<1> QED
  BY <1>1, <1>2, <1>3, <1>4, <1>5, <1>6, <1>7, <1>8 DEF ScopesNext

LEMMA ScopesInvariant == ScopesSpec => []ScopesInv
BY ScopesStart, ScopesStep, PTL DEF ScopesSpec

\* A revocation ends a responsibility.
LEMMA OneRowAtMost ==
  ASSUME ScopesInv, NEW u \in Official, NEW t \in Target
  PROVE  Cardinality(ActiveRows(u, t)) <= 1
<1>1. <<u, t>> \in Official \X Target
  OBVIOUS
<1>2. \A k, l \in ActiveRows(u, t) : k = l
  BY <1>1 DEF ScopesInv, OneActiveRow, ActiveRows
<1>3. CASE ActiveRows(u, t) = {}
  BY <1>3, FS_EmptySet
<1>4. CASE ActiveRows(u, t) # {}
  <2>1. PICK k \in ActiveRows(u, t) : TRUE
    BY <1>4
  <2>2. ActiveRows(u, t) = {k}
    BY <1>2, <2>1
  <2>3. Cardinality({k}) = 1
    BY FS_Singleton
  <2> QED
    BY <2>2, <2>3
<1> QED
  BY <1>3, <1>4

\* The filters of the lists and the guards of the pages, kind by kind.
LEMMA ListedIsOpenable ==
  ASSUME ScopesTypeOK, NEW u \in Official
  PROVE  Listed(u) = Openable(u)
<1> DEFINE trains == {t \in ScopeTrain : MayOpenTrain(u, t)}
           stations == {x \in ScopeStation : MayOpenStation(u, x)}
           journeys == {j \in ScopeJourney : MayOpenJourney(u, j)}
           waitlists == {j \in ScopeJourney : MayOpenWaitlist(u, j)}
           bookings == {b \in Booked : MayOpenBooking(u, b)}
           payments == {b \in Booked : MayOpenPayment(u, b)}
<1>1. /\ \A j \in ScopeJourney : trainOf[j] \in ScopeTrain
      /\ \A b \in Booked : Ride[b].journey \in ScopeJourney
      /\ \A j \in ScopeJourney : Stops(j) \subseteq ScopeStation
  <2>1. ASSUME NEW j \in ScopeJourney PROVE Stops(j) \subseteq ScopeStation
    <3>1. StationsOf[j] \in Seq(ScopeStation)
      BY ScopesAssumption
    <3> QED
      BY <3>1 DEF Stops
  <2> QED
    BY <2>1, ScopesAssumption DEF ScopesTypeOK, Booked
<1>2. CASE roleOf[u] = "ADMIN"
  <2>1. trains = AccessibleTrains(u) /\ stations = {} /\ AccessibleStations(u) = {}
    BY <1>2 DEF MayOpenTrain, MayOpenStation, CanAccessTrain, AccessibleTrains, AccessibleStations
  <2>2. journeys = RunBy(AccessibleTrains(u)) /\ waitlists = journeys
    BY <1>1, <1>2 DEF MayOpenJourney, MayOpenWaitlist, CanAccessTrain, CanAccessRelated,
       HasJourneyTrain, RunBy, AccessibleTrains
  <2>3. bookings = {b \in Booked : Ride[b].journey \in RunBy(AccessibleTrains(u))}
    BY <1>1, <1>2 DEF MayOpenBooking, CanAccessTrain, CanAccessRelated, TrainOfBooking,
       RunBy, AccessibleTrains
  <2>4. payments = bookings
    BY <1>2 DEF MayOpenPayment, MayOpenBooking, HasJourneyTrain, CanAccessTrain,
       CanAccessRelated, TrainOfBooking
  <2>5. Listed(u) = ({"train"} \X trains) \union ({"journey", "waitlist"} \X journeys)
                      \union ({"booking", "payment"} \X bookings)
    BY <1>2, <2>1, <2>2, <2>3 DEF Listed, ListedToAdmin
  <2>6. Openable(u) = ({"train"} \X trains) \union ({"station"} \X {})
                        \union ({"journey"} \X journeys) \union ({"waitlist"} \X journeys)
                        \union ({"booking"} \X bookings) \union ({"payment"} \X bookings)
    BY <2>1, <2>2, <2>4 DEF Openable
  <2> HIDE DEF trains, journeys, bookings
  <2> QED
    BY <2>5, <2>6
<1>3. CASE roleOf[u] = "STAFF"
  <2>1. trains = {} /\ waitlists = {} /\ payments = {} /\ stations = AccessibleStations(u)
    BY <1>3 DEF MayOpenTrain, MayOpenStation, MayOpenWaitlist, MayOpenPayment, CanAccessTrain,
       HasJourneyTrain, AccessibleStations
  <2>2. journeys = {j \in ScopeJourney : Stops(j) \intersect stations # {}}
    BY <1>1, <1>3, <2>1 DEF MayOpenJourney, CanAccessTrain, CanAccessRelated
  <2>3. bookings = {b \in Booked : Ends(b) \intersect stations # {}}
    BY <1>3, <2>1 DEF MayOpenBooking, CanAccessTrain, CanAccessRelated
  <2>4. Listed(u) = ({"station"} \X stations) \union ({"journey"} \X journeys)
                      \union ({"booking"} \X bookings)
    BY <1>3, <2>1, <2>2, <2>3 DEF Listed, ListedToStaff
  <2>5. Openable(u) = ({"train"} \X {}) \union ({"station"} \X stations)
                        \union ({"journey"} \X journeys) \union ({"waitlist"} \X {})
                        \union ({"booking"} \X bookings) \union ({"payment"} \X {})
    BY <2>1 DEF Openable
  <2> HIDE DEF stations, journeys, bookings
  <2> QED
    BY <2>4, <2>5
<1> QED
  BY <1>2, <1>3 DEF ScopesTypeOK

LEMMA WhatIsListed ==
  ASSUME ScopesTypeOK, NEW u \in Official
  PROVE  /\ \A b \in Booked : <<"booking", b>> \in Listed(u) <=> MayOpenBooking(u, b)
         /\ \A b : <<"payment", b>> \in Listed(u) <=> b \in Booked /\ MayOpenPayment(u, b)
         /\ \A j : <<"journey", j>> \in Listed(u) <=> j \in ScopeJourney /\ MayOpenJourney(u, j)
BY ListedIsOpenable DEF Openable

\* What other services decide about a booking follows from the same assignments.
LEMMA OtherGuardsAgree ==
  ASSUME ScopesTypeOK, NEW u \in Official
  PROVE  /\ ListedStaff(u) = {s \in Official : ManagesStaff(u, s)}
         /\ PendingSlips(u) =
              {b \in ScopeBooking : soldAs[b] = "HELD" /\ <<"payment", b>> \in Listed(u)}
         /\ \A b \in Booked :
              MayAssist(u, b) \/ MayCancelBooking(u, b) => <<"booking", b>> \in Listed(u)
         /\ {"journey"} \X ReportScope(u) \subseteq Listed(u)
<1>1. ListedStaff(u) = {s \in Official : ManagesStaff(u, s)}
  BY DEF ListedStaff, ManagesStaff
<1>2. PendingSlips(u) = {b \in ScopeBooking : soldAs[b] = "HELD" /\ <<"payment", b>> \in Listed(u)}
  BY WhatIsListed DEF PendingSlips, MayOpenPayment, Booked
<1>3. ASSUME NEW b \in Booked, MayAssist(u, b) \/ MayCancelBooking(u, b)
      PROVE  <<"booking", b>> \in Listed(u)
  <2>1. MayAssist(u, b) => CanAccessRelated(u, Ends(b))
    BY DEF MayAssist, CanAccessRelated
  <2>2. MayCancelBooking(u, b) => CanAccessTrain(u, TrainOfBooking(b))
    BY DEF MayCancelBooking, MayReadBooking, HasJourneyTrain, CanAccessTrain, TrainOfBooking
  <2> QED
    BY <1>3, <2>1, <2>2, WhatIsListed DEF MayOpenBooking
<1>4. ASSUME NEW j \in ReportScope(u) PROVE <<"journey", j>> \in Listed(u)
  <2>1. CASE roleOf[u] = "ADMIN"
    BY <1>4, <2>1 DEF ReportScope, RunBy, Listed, ListedToAdmin
  <2>2. CASE roleOf[u] # "ADMIN"
    BY <1>4, <2>2 DEF ReportScope, Listed, ListedToStaff
  <2> QED
    BY <2>1, <2>2
<1> QED
  BY <1>1, <1>2, <1>3, <1>4

LEMMA SameSize ==
  ASSUME NEW S, IsFiniteSet(S), NEW T, NEW f \in [S -> T],
         \A x, y \in S : f[x] = f[y] => x = y,
         \A z \in T : \E x \in S : f[x] = z
  PROVE  IsFiniteSet(T) /\ Cardinality(T) = Cardinality(S)
<1>1. f \in Bijection(S, T)
  BY DEF Bijection, Injection, Surjection, IsInjective
<1> QED
  BY <1>1, FS_Bijection DEF ExistsBijection

\* The report that counts by status counts each booking of its journeys once.
LEMMA StatusesAddUp ==
  ASSUME ScopesTypeOK, NEW scope
  PROVE  BookingCounts(scope)["HELD"] + BookingCounts(scope)["CONFIRMED"]
           = Cardinality({b \in Booked : Ride[b].journey \in scope})
<1> DEFINE held == {b \in ScopeBooking : soldAs[b] = "HELD" /\ Ride[b].journey \in scope}
           paid == {b \in ScopeBooking : soldAs[b] = "CONFIRMED" /\ Ride[b].journey \in scope}
<1>1. BookingCounts(scope)["HELD"] = Cardinality(held)
      /\ BookingCounts(scope)["CONFIRMED"] = Cardinality(paid)
  BY DEF BookingCounts
<1>2. held \union paid = {b \in Booked : Ride[b].journey \in scope} /\ held \intersect paid = {}
  BY DEF Booked, ScopesTypeOK
<1>3. IsFiniteSet(held) /\ IsFiniteSet(paid)
  BY ScopesAssumption, FS_Subset
<1> HIDE DEF held, paid
<1>4. Cardinality(held \union paid) = Cardinality(held) + Cardinality(paid) - Cardinality({})
  BY <1>2, <1>3, FS_Union
<1>5. Cardinality({}) = 0 /\ Cardinality(held) \in Nat /\ Cardinality(paid) \in Nat
  BY <1>3, FS_EmptySet, FS_CardinalityType
<1>6. Cardinality(held \union paid) = Cardinality(held) + Cardinality(paid)
  BY <1>4, <1>5
<1> QED
  BY <1>1, <1>2, <1>6

\* The legs of the occupancy report together hold what the bookings ride: both count the
\* pairs of a booking and a leg that it occupies.
LEMMA LegsAddUp ==
  ASSUME NEW scope \in SUBSET ScopeJourney, NEW ridden,
         ridden = [b \in ScopeBooking |-> Ride[b].to - Ride[b].from]
  PROVE  SeatLegs(scope)
           = SumOf(ridden, {b \in ScopeBooking : soldAs[b] = "CONFIRMED" /\ Ride[b].journey \in scope})
<1> DEFINE legs == UNION {{j} \X LegsOf(j) : j \in scope}
           paid == {b \in ScopeBooking : soldAs[b] = "CONFIRMED" /\ Ride[b].journey \in scope}
           On(b, leg) == /\ Ride[b].journey = leg[1]
                         /\ Ride[b].from <= leg[2] /\ leg[2] < Ride[b].to
           pairs == {p \in paid \X legs : On(p[1], p[2])}
           legOf == [p \in pairs |-> p[2]]
           bookingOf == [p \in pairs |-> p[1]]
           seats == [leg \in legs |-> Cardinality({p \in pairs : legOf[p] = leg})]
<1>1. IsFiniteSet(paid) /\ IsFiniteSet(legs)
  <2>1. IsFiniteSet(paid)
    BY ScopesAssumption, FS_Subset
  <2>2. ASSUME NEW j \in scope PROVE IsFiniteSet({j} \X LegsOf(j))
    <3>1. StationsOf[j] \in Seq(ScopeStation)
      BY ScopesAssumption
    <3>2. 1 \in Int /\ Len(StationsOf[j]) - 1 \in Int
      BY <3>1
    <3>3. IsFiniteSet(1 .. (Len(StationsOf[j]) - 1))
      BY <3>2, FS_Interval
    <3>4. IsFiniteSet(LegsOf(j)) /\ IsFiniteSet({j})
      BY <3>3, FS_Singleton DEF LegsOf
    <3> QED
      BY <3>4, FS_Product
  <2> DEFINE each == {{j} \X LegsOf(j) : j \in scope}
  <2>3. IsFiniteSet(each)
    <3>1. IsFiniteSet(scope)
      BY ScopesAssumption, FS_Subset
    <3>2. [j \in scope |-> {j} \X LegsOf(j)] \in Surjection(scope, each)
      BY DEF Surjection
    <3> HIDE DEF each
    <3> QED
      BY <3>1, <3>2, FS_Surjection
  <2>4. \A s \in each : IsFiniteSet(s)
    BY <2>2
  <2>5. legs = UNION each
    OBVIOUS
  <2> HIDE DEF each, legs
  <2>6. IsFiniteSet(legs)
    BY <2>3, <2>4, <2>5, FS_UNION
  <2> QED
    BY <2>1, <2>6
<1>2. IsFiniteSet(pairs)
  <2>1. IsFiniteSet(paid \X legs)
    <3> HIDE DEF paid, legs
    <3> QED
      BY <1>1, FS_Product
  <2> QED
    BY <2>1, FS_Subset
<1>3. ASSUME NEW leg \in legs
      PROVE  OccupiedSeats(scope)[leg] = seats[leg]
  <2> DEFINE riders == {b \in ScopeBooking :
               soldAs[b] = "CONFIRMED" /\ Ride[b].journey = leg[1]
                 /\ Ride[b].from <= leg[2] /\ leg[2] < Ride[b].to}
             mine == {p \in pairs : legOf[p] = leg}
             f == [b \in riders |-> <<b, leg>>]
  <2>1. OccupiedSeats(scope)[leg] = Cardinality(riders)
    BY DEF OccupiedSeats
  <2>2. leg[1] \in scope
    OBVIOUS
  <2>3. \A b \in riders : b \in paid /\ On(b, leg)
    BY <2>2
  <2>4. \A p \in mine : p = <<p[1], leg>> /\ p[1] \in paid /\ On(p[1], leg)
    OBVIOUS
  <2>5. \A b \in paid : On(b, leg) => b \in riders /\ <<b, leg>> \in mine
    OBVIOUS
  <2>6. IsFiniteSet(riders)
    BY ScopesAssumption, FS_Subset
  <2> HIDE DEF riders, mine, paid, legs, On, pairs
  <2>7. f \in [riders -> mine]
    BY <2>3, <2>5
  <2>8. \A b, c \in riders : f[b] = f[c] => b = c
    OBVIOUS
  <2>9. \A p \in mine : \E b \in riders : f[b] = p
    BY <2>4, <2>5
  <2> HIDE DEF f
  <2>10. Cardinality(mine) = Cardinality(riders)
    BY <2>6, <2>7, <2>8, <2>9, SameSize
  <2>11. seats[leg] = Cardinality(mine)
    BY DEF mine
  <2> QED
    BY <2>1, <2>10, <2>11
<1>4. ASSUME NEW b \in paid
      PROVE  ridden[b] = Cardinality({p \in pairs : bookingOf[p] = b})
  <2> DEFINE from == Ride[b].from
             to == Ride[b].to
             j == Ride[b].journey
             mine == {p \in pairs : bookingOf[p] = b}
             f == [n \in from .. (to - 1) |-> <<b, <<j, n>>>>]
  <2>1. /\ j \in scope /\ j \in ScopeJourney /\ StationsOf[j] \in Seq(ScopeStation)
        /\ to \in 1 .. Len(StationsOf[j]) /\ from \in 1 .. (to - 1)
    BY ScopesAssumption
  <2>2. \A n \in from .. (to - 1) : n \in LegsOf(j) /\ <<j, n>> \in legs /\ On(b, <<j, n>>)
    BY <2>1 DEF LegsOf
  <2>3. \A n \in from .. (to - 1) : f[n] \in mine
    BY <2>2
  <2>4. \A p \in mine : \E n \in LegsOf(j) : p = <<b, <<j, n>>>> /\ from <= n /\ n < to
    <3>1. ASSUME NEW p \in mine
          PROVE  \E n \in LegsOf(j) : p = <<b, <<j, n>>>> /\ from <= n /\ n < to
      <4>1. p \in paid \X legs /\ p[1] = b /\ On(b, p[2])
        OBVIOUS
      <4>2. PICK i \in scope : p[2] \in {i} \X LegsOf(i)
        BY <4>1
      <4>3. i = j
        BY <4>1, <4>2
      <4> QED
        BY <4>1, <4>2, <4>3
    <3> QED
      BY <3>1
  <2>5. from \in Nat /\ to \in Nat /\ from < to
    BY <2>1
  <2>6. \A n \in LegsOf(j) : n \in Int
    BY <2>1 DEF LegsOf
  <2>7. IsFiniteSet(from .. (to - 1)) /\ Cardinality(from .. (to - 1)) = to - from
    <3>1. from \in Int /\ to - 1 \in Int /\ ~ from > to - 1 /\ (to - 1) - from + 1 = to - from
      BY <2>5
    <3> DEFINE last == to - 1
    <3> HIDE DEF last, from
    <3>2. IsFiniteSet(from .. last) /\ Cardinality(from .. last) = IF from > last THEN 0 ELSE last - from + 1
      BY <3>1, FS_Interval DEF last
    <3> QED
      BY <3>1, <3>2 DEF last
  <2>8. ridden[b] = to - from
    OBVIOUS
  <2> HIDE DEF mine, from, to, j
  <2>9. f \in [from .. (to - 1) -> mine]
    BY <2>3
  <2>10. \A n, m \in from .. (to - 1) : f[n] = f[m] => n = m
    OBVIOUS
  <2>11. \A p \in mine : \E n \in from .. (to - 1) : f[n] = p
    BY <2>4, <2>5, <2>6
  <2> HIDE DEF f
  <2>12. Cardinality(mine) = Cardinality(from .. (to - 1))
    BY <2>7, <2>9, <2>10, <2>11, SameSize
  <2> QED
    BY <2>7, <2>8, <2>12 DEF mine
<1>5. SeatLegs(scope) = SumOf(seats, legs)
  <2>1. OccupiedSeats(scope) = [leg \in legs |-> OccupiedSeats(scope)[leg]]
    BY DEF OccupiedSeats
  <2>2. seats = [leg \in legs |-> seats[leg]]
    OBVIOUS
  <2> HIDE DEF seats, legs
  <2>3. OccupiedSeats(scope) = seats /\ DOMAIN seats = legs
    BY <1>3, <2>1, <2>2
  <2> QED
    BY <2>3 DEF SeatLegs, SumOf
<1>6. SumOf(seats, legs) = Cardinality({p \in pairs : legOf[p] \in legs})
  <2>1. seats \in [legs -> Nat]
    <3> HIDE DEF pairs, legs
    <3>1. \A leg \in legs : Cardinality({p \in pairs : legOf[p] = leg}) \in Nat
      BY <1>2, FS_Subset, FS_CardinalityType
    <3> QED
      BY <3>1
  <2>2. legs \in SUBSET legs /\ \A leg \in legs : seats[leg] = Cardinality({p \in pairs : legOf[p] = leg})
    OBVIOUS
  <2> HIDE DEF seats, legs, pairs, legOf
  <2> QED
    BY <1>1, <1>2, <2>1, <2>2, PartsAddUp
<1>7. SumOf(ridden, paid) = Cardinality({p \in pairs : bookingOf[p] \in paid})
  <2> DEFINE own == [b \in paid |-> ridden[b]]
  <2>1. own \in [paid -> Nat] /\ paid \in SUBSET paid
    <3>1. \A b \in paid : ridden[b] \in Nat
      BY ScopesAssumption
    <3> QED
      BY <3>1
  <2>2. \A b \in paid : own[b] = ridden[b]
    OBVIOUS
  <2>3. \A b \in paid : own[b] = Cardinality({p \in pairs : bookingOf[p] = b})
    BY <1>4, <2>2
  <2> HIDE DEF own, paid, pairs, bookingOf
  <2>4. SumOf(own, paid) = Cardinality({p \in pairs : bookingOf[p] \in paid})
    BY <1>1, <1>2, <2>1, <2>3, PartsAddUp
  <2>5. SumOf(own, paid) = SumOf(ridden, paid)
    <3>1. paid \in SUBSET paid
      OBVIOUS
    <3>2. \A s \in SUBSET paid :
            (\A b \in s : own[b] = ridden[b]) => SumOf(own, s) = SumOf(ridden, s)
      BY <1>1, SumDependsOnItsTerms
    <3> QED
      BY <2>2, <3>1, <3>2
  <2> QED
    BY <2>4, <2>5
<1>8. {p \in pairs : legOf[p] \in legs} = pairs /\ {p \in pairs : bookingOf[p] \in paid} = pairs
  OBVIOUS
<1> HIDE DEF paid, legs, pairs, seats
<1> QED
  BY <1>5, <1>6, <1>7, <1>8 DEF paid

\* An administrator's reports are about the bookings of the list.
LEMMA ReportsMatchLists ==
  ASSUME ScopesTypeOK, NEW u \in Official, roleOf[u] = "ADMIN"
  PROVE  LET mine == {b \in Booked : <<"booking", b>> \in Listed(u)}
             paid == {b \in mine : soldAs[b] = "CONFIRMED"}
             counts == BookingCounts(ReportScope(u))
             ridden == [b \in ScopeBooking |-> Ride[b].to - Ride[b].from]
         IN  /\ mine = {b \in Booked : MayReadHistory(u, b)}
             /\ mine = {b \in Booked : MayCancelBooking(u, b)}
             /\ mine = {b \in Booked : MayManageNotice(u, b)}
             /\ counts["HELD"] + counts["CONFIRMED"] = Cardinality(mine)
             /\ SeatLegs(ReportScope(u)) = MapThenSumSet(LAMBDA b : ridden[b], paid)
<1> DEFINE mine == {b \in Booked : <<"booking", b>> \in Listed(u)}
           paid == {b \in mine : soldAs[b] = "CONFIRMED"}
           ridden == [b \in ScopeBooking |-> Ride[b].to - Ride[b].from]
<1>1. mine = {b \in Booked : HasJourneyTrain(u, Ride[b].journey)}
  BY WhatIsListed DEF MayOpenBooking, CanAccessTrain, CanAccessRelated, TrainOfBooking, HasJourneyTrain
<1>2. /\ mine = {b \in Booked : MayReadHistory(u, b)}
      /\ mine = {b \in Booked : MayCancelBooking(u, b)}
      /\ mine = {b \in Booked : MayManageNotice(u, b)}
  BY <1>1 DEF MayReadHistory, MayCancelBooking, MayReadBooking, MayManageNotice, HasJourneyTrain
<1>3. ReportScope(u) \in SUBSET ScopeJourney
  BY DEF ReportScope, RunBy
<1>4. mine = {b \in Booked : Ride[b].journey \in ReportScope(u)}
  <2>1. ASSUME NEW b \in Booked
        PROVE  HasJourneyTrain(u, Ride[b].journey) <=> Ride[b].journey \in ReportScope(u)
    <3>1. Ride[b].journey \in ScopeJourney
      BY ScopesAssumption DEF Booked
    <3>2. trainOf[Ride[b].journey] \in ScopeTrain
      BY <3>1 DEF ScopesTypeOK
    <3> QED
      BY <3>1, <3>2 DEF ReportScope, RunBy, AccessibleTrains, HasJourneyTrain
  <2> HIDE DEF mine
  <2> QED
    BY <1>1, <2>1
<1>5. paid = {b \in ScopeBooking : soldAs[b] = "CONFIRMED" /\ Ride[b].journey \in ReportScope(u)}
  <2> HIDE DEF mine
  <2> QED
    BY <1>4 DEF Booked
<1> HIDE DEF mine, paid, ridden
<1>6. BookingCounts(ReportScope(u))["HELD"] + BookingCounts(ReportScope(u))["CONFIRMED"]
        = Cardinality(mine)
  BY <1>4, StatusesAddUp
<1>7. SeatLegs(ReportScope(u)) = SumOf(ridden, paid)
  <2>1. ridden = [b \in ScopeBooking |-> Ride[b].to - Ride[b].from]
    BY DEF ridden
  <2> QED
    BY <1>3, <1>5, <2>1, LegsAddUp
<1>8. SeatLegs(ReportScope(u)) = MapThenSumSet(LAMBDA b : ridden[b], paid)
  BY <1>7 DEF SumOf
<1> QED
  BY <1>2, <1>6, <1>8 DEF mine, paid, ridden

\* The filters of the lists, the guards of the pages, the services behind them and
\* the reports agree for every set of officials, trains, stations and bookings,
\* however many screens assign at once; a pair never has two active rows.
THEOREM ScopesStayInAgreement == ScopesSpec => []ScopesAgree
<1>1. ScopesInv => ScopesAgree
  <2> SUFFICES ASSUME ScopesInv, NEW u \in Official
               PROVE  /\ \A t \in Target : Cardinality(ActiveRows(u, t)) <= 1
                      /\ Listed(u) = Openable(u)
                      /\ ListedStaff(u) = {s \in Official : ManagesStaff(u, s)}
                      /\ PendingSlips(u) =
                           {b \in ScopeBooking : soldAs[b] = "HELD" /\ <<"payment", b>> \in Listed(u)}
                      /\ \A b \in Booked :
                           MayAssist(u, b) \/ MayCancelBooking(u, b) => <<"booking", b>> \in Listed(u)
                      /\ {"journey"} \X ReportScope(u) \subseteq Listed(u)
                      /\ roleOf[u] = "ADMIN" =>
                           LET mine == {b \in Booked : <<"booking", b>> \in Listed(u)}
                               paid == {b \in mine : soldAs[b] = "CONFIRMED"}
                               counts == BookingCounts(ReportScope(u))
                               ridden == [b \in ScopeBooking |-> Ride[b].to - Ride[b].from]
                           IN  /\ mine = {b \in Booked : MayReadHistory(u, b)}
                               /\ mine = {b \in Booked : MayCancelBooking(u, b)}
                               /\ mine = {b \in Booked : MayManageNotice(u, b)}
                               /\ counts["HELD"] + counts["CONFIRMED"] = Cardinality(mine)
                               /\ SeatLegs(ReportScope(u)) = MapThenSumSet(LAMBDA b : ridden[b], paid)
    BY DEF ScopesAgree
  <2>1. ScopesTypeOK
    BY DEF ScopesInv
  <2>2. \A t \in Target : Cardinality(ActiveRows(u, t)) <= 1
    BY OneRowAtMost
  <2>3. Listed(u) = Openable(u)
    BY <2>1, ListedIsOpenable
  <2> QED
    BY <2>1, <2>2, <2>3, OtherGuardsAgree, ReportsMatchLists
<1> QED
  BY <1>1, ScopesInvariant, PTL
===============================================================================
