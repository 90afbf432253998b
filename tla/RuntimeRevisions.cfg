CONSTANTS
  ApplyIds = {a1, a2}
  Configs = {1, 2}
  MaxRevision = 4
  MaxPopulation = 3
  None = None
SPECIFICATION Spec
INVARIANTS RevisionsSound DurableBeforeVisible
PROPERTY PastStaysPast
