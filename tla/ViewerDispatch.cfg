CONSTANTS
  i1 = i1
  i2 = i2
  i3 = i3
  v1 = v1
  v2 = v2
  Items = {i1, i2, i3}
  Viewers = {v1, v2}
  ViewerOf <- Owner
  MaxInFlight = 1
  QueueCapacity = 1
  Lines = 2
  MaxSession = 1
  None = None
SPECIFICATION FairSpec
INVARIANTS LanesKept ReportMatchesRoom
PROPERTIES QuietAfterCancel EverythingSettles
CHECK_DEADLOCK FALSE
