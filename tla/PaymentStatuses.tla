---------------------------- MODULE PaymentStatuses ----------------------------
(***************************************************************************)
(* The statuses of a payment and the changes payment.service.js allows.     *)
(***************************************************************************)

PaymentStatus ==
  {"PENDING", "AWAITING_PAYMENT", "AWAITING_VERIFICATION", "PROCESSING", "PAID",
   "FAILED", "CANCELLED", "REFUNDED", "PARTIALLY_REFUNDED", "REJECTED", "EXPIRED",
   "REFUND_PENDING", "PENDING_MANUAL_PROCESSING"}

\* TRANSITIONS; a status it does not list has none.
Targets(status) ==
  CASE status = "PENDING" ->
         {"AWAITING_PAYMENT", "AWAITING_VERIFICATION", "PROCESSING", "FAILED",
          "CANCELLED", "EXPIRED"}
    [] status = "AWAITING_PAYMENT" ->
         {"PROCESSING", "PAID", "FAILED", "CANCELLED", "EXPIRED"}
    [] status = "AWAITING_VERIFICATION" -> {"PAID", "REJECTED", "EXPIRED"}
    [] status = "PROCESSING" -> {"PAID", "FAILED", "CANCELLED"}
    [] status = "PAID" -> {"REFUND_PENDING", "PARTIALLY_REFUNDED", "REFUNDED"}
    [] status = "REJECTED" -> {"AWAITING_VERIFICATION", "CANCELLED", "EXPIRED"}
    [] status = "PARTIALLY_REFUNDED" -> {"REFUND_PENDING", "REFUNDED"}
    [] status = "REFUND_PENDING" -> {"PARTIALLY_REFUNDED", "REFUNDED", "PAID"}
    [] OTHER -> {}

\* The check of transition(payment, targetStatus).
CanTransition(from, to) == from = to \/ to \in Targets(from)

\* Statuses findActiveAttemptByBookingId looks for.
ActiveAttempt == {"PENDING", "AWAITING_PAYMENT", "AWAITING_VERIFICATION", "PROCESSING"}
===============================================================================
