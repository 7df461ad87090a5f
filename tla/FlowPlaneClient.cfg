SPECIFICATION FairSpec
CONSTANTS
  SnatFamilies = {4}
  ReuseQuarantine <- MCReuseQuarantine
  TcpIdle = 3
  TcpClosing = 2
  TcpRst = 1
  UdpIdle = 1
  IcmpIdle = 1
  LocalResolver = "local"
  RemoteResolver = "remote"
  DnsTimeout = 1
  DnsCapacity = 2
  DnsBit = 100
  Role = "client"
  WorkerCount = 1
  NatPorts <- MCNatPorts
  Flows <- MCClientFlows
  Queries <- MCQueries
  FlowOwner <- MCFlowOwner
  DnsOwner <- MCDnsOwner
  Io <- MCIo
  ReturnIos <- MCOneIo
  ChannelCapacity = 1
  MaxTime = 2
  MaxSessions = 1
  MaxTokens = 2
  MaxCloses = 1
  MaxNet = 1
INVARIANTS WorkersConsistent NoMisdelivery DirectoryLive AnsweredOnce
PROPERTIES TransactionsEnd
CHECK_DEADLOCK FALSE
