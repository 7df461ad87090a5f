SPECIFICATION FairLinkSpec
CONSTANTS
  Pids = {p1, p2}
  Ids = {i1, i2, i3, i4}
  Modes = {native, skb}
  Nothing = Nothing
  Faults = {TRUE, FALSE}
  Admin = TRUE
  MaxCrashes = 3
INVARIANTS RunningUndisturbed ForeignOnlyRaced LeftoverRecorded
PROPERTIES LeftoverGoes
