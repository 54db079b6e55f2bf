SPECIFICATION Spec
CONSTANTS
  Phases <- PhaseOrder
  Flags <- AllFlagsOf
  AlwaysOn <- AlwaysRun
  MayRequeue <- Waiting
  Stubborn <- FailingAgain
  Lenient <- ToleratesNothing
  Careless <- LeavingThings
  MayHang <- NeverReturning
  Specs <- AllSpecs
  MaxVersions = 4
  MaxFaults = 1
PROPERTY FinalizerKeptUntilClean
CHECK_DEADLOCK FALSE
