SPECIFICATION Spec
CONSTANTS
  LinkCount = 2
  WorkerCount = 1
  Capacity = 1
  Policies <- MCPolicies
  FirstPolicy <- MCFirstPolicy
  MaxSignals = 1
  MaxPackets = 0
INVARIANTS ClassifiersStayOn
