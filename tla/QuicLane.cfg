SPECIFICATION LaneSpec
CONSTANTS
  Roles = {"client", "server"}
  Dcids = {d1, d2, d3, d4, d5}
  None = None
  Order <- MCOrder
  FlowWorkerCount = 2
  MaxTrackedDcids = 3
  PendingCapacity = 2
  MaxConnections = 4
  MaxEpochs = 2
INVARIANTS
  IndexOfCurrentFlow LaneSettled CandidateHarmless
  NothingDeadIsActive
