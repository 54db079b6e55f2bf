SPECIFICATION FairSpec
CONSTANTS
  Order <- ServerThenAgent
  MaxLives = 3
  MaxFaults = 2
INVARIANTS
  TypeOK
  EndsAsItShould
  ServerIsListed
PROPERTIES
  ThereInTheEnd
CHECK_DEADLOCK FALSE
