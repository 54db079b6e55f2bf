SPECIFICATION Spec
CONSTANTS
  Users = 2
  Rollouts <- OnePhase
  AnchoredRollouts <- AnchoredPhases
  CoveredRollouts <- CoveredPhases
  OrderlyRollouts <- OrderlyPhases
  InstallOf <- MCInstallOf
  TeardownOf <- MCTeardownOf
  Objects <- MCObjects
  Namespaces <- MCNamespaces
  Home <- MCHome
  Dependents <- MCDependents
  Outside <- NoHome
  MaxFaults = 1
  MaxLives = 1
INVARIANT RetryFinishesTheJob
CHECK_DEADLOCK FALSE
