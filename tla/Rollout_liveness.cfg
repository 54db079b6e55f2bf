SPECIFICATION FairSpec
CONSTANTS
  Users = 2
  Rollouts <- PlanNames
  AnchoredRollouts <- AnchoredPhases
  CoveredRollouts <- CoveredPhases
  OrderlyRollouts <- OrderlyPhases
  InstallOf <- MCInstallOf
  TeardownOf <- MCTeardownOf
  Objects <- MCObjects
  Namespaces <- MCNamespaces
  Home <- MCHome
  Dependents <- MCDependents
  Outside <- NoHome
  MaxFaults = 1
  MaxLives = 2
PROPERTY InstallConverges
CHECK_DEADLOCK FALSE
