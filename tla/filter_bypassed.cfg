SPECIFICATION Spec
CONSTANTS
  None = None
  Star = Star
  Rejected = Rejected
  Statements <- MCStatements
  Schemas <- MCSchemas
  FilterSets <- OrFreeFilterSets
  Settings <- MCSettings
  Sizes = {2}
  MaxChanges = 0
INVARIANT FiltersHold
