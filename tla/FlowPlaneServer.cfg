SPECIFICATION Spec
CONSTANTS
  SnatFamilies = {4}
  ReuseQuarantine <- MCReuseQuarantine
  TcpIdle = 3
  TcpClosing = 2
  TcpRst = 1
  UdpIdle = 1
  IcmpIdle = 1
  LocalResolver = "local"
  RemoteResolver = "remote"
  DnsTimeout = 1
  DnsCapacity = 1
  DnsBit = 100
  Role = "server"
  WorkerCount = 2
  NatPorts <- MCNatPorts
  Flows <- MCFlows
  Queries <- MCNone
  FlowOwner <- MCFlowOwner
  DnsOwner <- MCDnsOwner
  Io <- MCIo
  ReturnIos <- MCReturnIos
  ChannelCapacity = 1
  MaxTime = 2
  MaxSessions = 2
  MaxTokens = 0
  MaxCloses = 1
  MaxNet = 1
INVARIANTS NoMisdelivery BindingsReachable SessionsRebound
CHECK_DEADLOCK FALSE
