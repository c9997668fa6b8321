SPECIFICATION Spec
CONSTANTS
  MaxWrites = 4
  MaxDamages = 2
CHECK_DEADLOCK FALSE
PROPERTIES
  NothingIsThrownAway
  ImplementsRegister
