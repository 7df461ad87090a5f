SPECIFICATION Spec
CONSTANTS
  MaxPort = 6
  MaxTerms = 3
  V4 <- MCV4
  V6 <- MCV6
  Public <- MCPublic
  Unusable <- MCUnusable
  DnsPort = 1
  None = None
  Interfaces <- MCInterfaces
  Inputs <- MCInputs
  Packets <- MCPackets
INVARIANTS
  PortsAcceptedExactly RedirectedTaken OwnTrafficLocal NatFailsClosed PolicyExact
CHECK_DEADLOCK FALSE
