SPECIFICATION FairWakeupSpec
CONSTANTS
  Senders = {s1, s2, s3}
  ChannelCapacity = 2
  WriteMayFail = TRUE
  MaxItems = 5
INVARIANTS OneWakeup NoLostWakeup
PROPERTIES ChannelEmptied TimeoutEmpties
