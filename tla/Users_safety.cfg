SPECIFICATION Spec
CONSTANTS
  Prefixes = {attendee, student}
  Numbers <- OneOrTwo
  MaxUsers = 2
  NameOf <- Pair
  Nobody = nobody
  MaxAccidental = 1
  MaxEdits = 3
  MaxFaults = 1
INVARIANTS
  TypeOK
  ObjectsNest
  PassSettlesUsers
  PassSettlesSecret
  RemovalSettles
PROPERTY KeepsRoster
SYMMETRY PrefixSymmetry
CHECK_DEADLOCK FALSE
