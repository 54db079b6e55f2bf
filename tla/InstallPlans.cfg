SPECIFICATION FairSpec
CONSTANTS
  Subscriptions = {"codeready", "pipelines", "mesh", "serverless"}
  Orders <- AloneAndShared
  Approval <- MCApproval
  NamespaceOf <- MCNamespaceOf
  Latest = 2
  Requests <- MCRequests
  MaxPlans = 2
  MaxLives <- TwoLives
  MaxEdits <- OneForCodeReady
  MaxFaults <- OneEach
INVARIANTS
  TypeOK
  ApprovedWhenDone
  OnlyWhatWasAsked
PROPERTIES
  EventuallyInstalled
CHECK_DEADLOCK FALSE
