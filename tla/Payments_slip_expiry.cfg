\* A slip in review while its booking's hold lapses.
SPECIFICATION Spec
CONSTANTS
  c1 = c1
  c2 = c2
  k1 = k1
  Cards = {c1}
  Slips = {k1}
  BatchSize = 1
PROPERTIES
  SlipKeepsBooking
CHECK_DEADLOCK FALSE
