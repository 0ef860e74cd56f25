---------------------------------- MODULE Fares ----------------------------------
(***************************************************************************)
(* The fare of a booking: modules/fares/fare-calculation.service.js with    *)
(* the rounding of common/utils/money.js, in whole numbers:                 *)
(*   an amount is a number of cents (NUMERIC(10,2)),                        *)
(*   a distance is a number of 1/100 km, a price per km of 1/10000 units,   *)
(*   a multiplier is a number of 1/1000, a percentage of 1/100 percent.     *)
(* The operators are defined where the service does not throw: a valid      *)
(* request, origin before destination and a distance above zero.            *)
(***************************************************************************)
EXTENDS Rows, FiniteSetsExt, Sequences, Integers

CONSTANTS
  FareRules,      \* the rows of fare_rules
  ClassRules,     \* the rows of fare_rule_classes: [fareRule, coachClass, ...]
  Discounts,      \* active passenger_fare_rules: passenger type -> percentage
  FarePolicy      \* config/fare.js: [serviceFee : [type, value], tax : [...]]

ASSUME FareAssumption ==
  /\ \A t \in DOMAIN Discounts : Discounts[t] \in Nat /\ Discounts[t] <= 10000
  /\ \A rule \in FareRules :
       {rule.baseFare, rule.pricePerKm, rule.minimumFare} \subseteq Nat
  /\ \A rule \in ClassRules :
       /\ {rule.baseFareOverride, rule.pricePerKmOverride, rule.minimumFareOverride}
            \subseteq Nat \union {NoValue}
       /\ rule.multiplier \in Nat \ {0}
  /\ FarePolicy.serviceFee.type \in
       {"FIXED_PER_BOOKING", "FIXED_PER_PASSENGER", "PERCENTAGE", "NONE"}
  /\ FarePolicy.serviceFee.value \in Nat
  /\ FarePolicy.tax.percentage \in Nat

-------------------------------------------------------------------------------
\* roundCurrency: n / d rounded to a whole number, halves up.
RoundHalfUp(n, d) == (2 * n + d) \div (2 * d)

Percentage(amount, rate) == RoundHalfUp(amount * rate, 10000)

\* calculateDistance
Distance(origin, destination) == destination.km - origin.km

DistanceValid(origin, destination) ==
  /\ origin.number < destination.number
  /\ Distance(origin, destination) > 0

\* findEffective and findHighestPriorityRule: several rules may tie.
ApplicableRules(route, date) ==
  {rule \in FareRules :
     /\ rule.isActive
     /\ rule.route = route
     /\ rule.validFrom <= date
     /\ rule.validUntil = NoValue \/ rule.validUntil >= date}

HighestPriorityRules(route, date) ==
  {rule \in ApplicableRules(route, date) :
     \A other \in ApplicableRules(route, date) :
       \/ other.priority < rule.priority
       \/ other.priority = rule.priority /\ other.validFrom <= rule.validFrom}

\* resolveCoachFareRule: the class's overrides, the rule's own values elsewhere.
CoachFareRule(rule, coachClass) ==
  LET found == {c \in ClassRules : c.fareRule = rule.name /\ c.coachClass = coachClass}
      override(own, given) == IF given = NoValue THEN own ELSE given
      classRule == CHOOSE c \in found : TRUE
  IN  IF found = {}
      THEN [baseFare |-> rule.baseFare, pricePerKm |-> rule.pricePerKm,
            minimumFare |-> rule.minimumFare, multiplier |-> 1000]
      ELSE [baseFare |-> override(rule.baseFare, classRule.baseFareOverride),
            pricePerKm |-> override(rule.pricePerKm, classRule.pricePerKmOverride),
            minimumFare |-> override(rule.minimumFare, classRule.minimumFareOverride),
            multiplier |-> classRule.multiplier]

\* calculateBaseFare, applyCoachMultiplier and applyMinimumFare
DistanceCharge(distance, pricePerKm) == RoundHalfUp(distance * pricePerKm, 10000)

FareBeforeMultiplier(distance, effective) ==
  effective.baseFare + DistanceCharge(distance, effective.pricePerKm)

FareAfterMultiplier(distance, effective) ==
  RoundHalfUp(FareBeforeMultiplier(distance, effective) * effective.multiplier, 1000)

SegmentFare(distance, effective) ==
  Max({FareAfterMultiplier(distance, effective), effective.minimumFare})

\* calculatePassengerDiscount: no active rule, no discount.
DiscountRate(passengerType) ==
  IF passengerType \in DOMAIN Discounts THEN Discounts[passengerType] ELSE 0

DiscountAmount(fare, passengerType) == Percentage(fare, DiscountRate(passengerType))

PassengerFare(fare, passengerType) ==
  [fareBeforeDiscount |-> fare,
   discountAmount |-> DiscountAmount(fare, passengerType),
   fareAfterDiscount |-> fare - DiscountAmount(fare, passengerType)]

ServiceFee(subtotal, passengerCount, policy) ==
  CASE policy.type = "FIXED_PER_BOOKING" -> policy.value
    [] policy.type = "FIXED_PER_PASSENGER" -> policy.value * passengerCount
    [] policy.type = "PERCENTAGE" -> Percentage(subtotal, policy.value)
    [] policy.type = "NONE" -> 0

Tax(taxable, policy) ==
  IF policy.enabled THEN Percentage(taxable, policy.percentage) ELSE 0

SumOver(amounts) == MapThenSumSet(LAMBDA i : amounts[i], DOMAIN amounts)

\* calculateBookingFare, for one of the rules that may be resolved.
BookingFare(rule, coachClass, distance, passengerTypes) ==
  LET fare == SegmentFare(distance, CoachFareRule(rule, coachClass))
      passengers ==
        [i \in DOMAIN passengerTypes |-> PassengerFare(fare, passengerTypes[i])]
      subtotal == SumOver([i \in DOMAIN passengers |-> passengers[i].fareAfterDiscount])
      discount == SumOver([i \in DOMAIN passengers |-> passengers[i].discountAmount])
      fee == ServiceFee(subtotal, Len(passengerTypes), FarePolicy.serviceFee)
      taxable == IF FarePolicy.tax.includesServiceFee THEN subtotal + fee ELSE subtotal
      tax == Tax(taxable, FarePolicy.tax)
  IN  [passengers |-> passengers, passengerSubtotal |-> subtotal,
       discountTotal |-> discount, serviceFee |-> fee, taxAmount |-> tax,
       finalTotal |-> subtotal + fee + tax]

===============================================================================
