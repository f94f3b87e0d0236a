SPECIFICATION Spec
CONSTANTS
  n = 5
  step = 3
  boot_on = 4
  message_on = 1
  Leftovers <- MCLeftovers
  Passes = {1, 2, 7}
  MaxLag = 8
INVARIANTS
  TypeOK
  BlinksTellCause
PROPERTIES
  BlinkLasts
  RedFollowsCause
