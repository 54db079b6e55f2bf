SPECIFICATION FairSpec
CONSTANTS
  Prefixes = {attendee, student}
  Numbers <- UpToOne
  MaxUsers = 1
  NameOf <- Pair
  Nobody = nobody
  MaxAccidental = 1
  MaxEdits = 3
  MaxFaults = 1
PROPERTY EventuallySettles
CHECK_DEADLOCK FALSE
