SPECIFICATION FairSpec
CONSTANTS
  LinkCount = 2
  WorkerCount = 2
  Capacity = 1
  Policies <- MCPolicies
  FirstPolicy <- MCFirstPolicy
  MaxSignals = 2
  MaxPackets = 2
INVARIANTS RedirectsOnlyWhileRunning RedirectedAdmitted RulesDelivered
PROPERTIES ReloadsComplete ExitEnds
