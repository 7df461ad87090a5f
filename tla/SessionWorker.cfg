SPECIFICATION MCSpec
CONSTANTS
  SnatFamilies = {4}
  ReuseQuarantine <- MCReuseQuarantine
  TcpIdle = 3
  TcpClosing = 2
  TcpRst = 1
  UdpIdle = 2
  IcmpIdle = 1
  Worker = 0
  Ports = {1, 2}
  Flows <- MCFlows
  DnsFlows <- MCDnsFlows
  Ios <- MCIos
  DnsBit = 100
  MaxTime = 3
  MaxSessions = 3
  MaxTokens = 1
INVARIANTS Consistent 
PROPERTIES ReuseRespectsQuarantine
CHECK_DEADLOCK FALSE
