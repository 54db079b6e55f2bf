SPECIFICATION Spec
CONSTANTS
  Subscriptions = {"pipelines"}
  Orders <- PipelinesOnly
  Approval <- MCApproval
  NamespaceOf <- MCNamespaceOf
  Latest = 2
  Requests <- MCRequests
  MaxPlans = 2
  MaxLives <- OneEach
  MaxEdits <- NoneAtAll
  MaxFaults <- NoneAtAll
INVARIANT PipelinesApproved
CHECK_DEADLOCK FALSE
