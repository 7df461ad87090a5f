SPECIFICATION FairSpec
CONSTANTS
  None = None
  MaxDatagram = 2
  HeaderLen = 1
  IdWrap = 2
  MaxPacket = 2
  MaxEntries = 2
  MaxBytes = 3
  ServerKey = k1
  ClientKeys = {k1, k2}
  MaxGens = 4
  MaxFaults = 1
  MaxPackets = 2
  Lengths = {1, 2}
INVARIANTS
  AuthAgreement BudgetKept
PROPERTIES
  ImplementsChannel FragmentsGo TunnelComesUp
