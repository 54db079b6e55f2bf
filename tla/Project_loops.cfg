SPECIFICATION FairSpec
CONSTANTS
  Names = {noname, staging}
  NoName = noname
  Numbers <- UpToTwo
  Beyond = 4
  MaxLives = 2
  MaxEdits = 1
  MaxFaults = 1
INVARIANTS
  TypeOK
  EveryUserHasAProject
PROPERTIES
  LoopsEnd
CHECK_DEADLOCK FALSE
