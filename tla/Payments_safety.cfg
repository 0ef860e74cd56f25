\* Two cards and a bank slip compete to pay one booking.
SPECIFICATION Spec
CONSTANTS
  c1 = c1
  c2 = c2
  k1 = k1
  Cards = {c1, c2}
  Slips = {k1}
  BatchSize = 1
SYMMETRY CardSymmetry
INVARIANTS
  OneLiveAttempt
  PaidHoldIsConfirmed
PROPERTIES
  ConfirmedByMoney
CHECK_DEADLOCK FALSE
