SPECIFICATION FairLinkSpec
CONSTANTS
  Pids = {p1, p2}
  Ids = {i1, i2, i3}
  Modes = {native, skb}
  Nothing = Nothing
  Faults = {TRUE}
  Admin = FALSE
  MaxCrashes = 1
PROPERTY RecordKept
