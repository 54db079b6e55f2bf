SPECIFICATION FairSpec
CONSTANTS
  MaxUsers = 2
  MaxLives = 2
  MaxEdits = 2
  MaxForeign = 1
  MaxFaults = 1
INVARIANTS
  TypeOK
  PassBringsUpToDate
PROPERTIES
  OthersAreKept
  EventuallySuits
CHECK_DEADLOCK FALSE
