\* The job against a webhook for the same card payment.
SPECIFICATION Spec
CONSTANTS
  c1 = c1
  c2 = c2
  k1 = k1
  Cards = {c1}
  Slips = {k1}
  BatchSize = 1
PROPERTIES
  PaidIsNotForgotten
CHECK_DEADLOCK FALSE
