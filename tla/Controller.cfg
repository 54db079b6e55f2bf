SPECIFICATION FairSpec
CONSTANTS
  Phases <- FourPhases
  Flags <- FourFlags
  AlwaysOn <- FourAlways
  MayRequeue <- FourWaiting
  Stubborn <- FourStubborn
  Lenient <- FourLenient
  Careless <- FourCareless
  MayHang <- FourHanging
  Specs <- FourSpecs
  MaxVersions = 5
  MaxFaults = 2
INVARIANTS
  TypeOK
  FinalizerGuardsInstall
  TeardownSparesTheLive
  RestMeansConverged
PROPERTIES
  NoLostEdit
  KeepsLifecycle
  EventuallyAtRest
CHECK_DEADLOCK FALSE
