SPECIFICATION Spec
CONSTANTS
  Users = 2
  Rollouts <- PlanNames
  AnchoredRollouts <- AnchoredPhases
  CoveredRollouts <- CoveredPhases
  OrderlyRollouts <- OrderlyPhases
  InstallOf <- MCInstallOf
  TeardownOf <- MCTeardownOf
  Objects <- MCObjects
  Namespaces <- MCNamespaces
  Home <- MCHome
  Dependents <- MCDependents
  Outside <- NoHome
  MaxFaults = 3
  MaxLives = 3
INVARIANTS
  TypeOK
  InstalledMeansThere
  RemovedMeansGone
  FullTeardownEnds
PROPERTY KeepsContract
CHECK_DEADLOCK FALSE
