CONSTANTS
  Obs = {o1, o2, o3}
  MaxPending = 2
  None = None
SPECIFICATION Spec
INVARIANTS EntrySound SupersededHasNoResult
PROPERTIES AutomaticObservationsSettle
CHECK_DEADLOCK FALSE
