SPECIFICATION ServerSpec
CONSTANTS
  None = None
  Star = Star
  Rejected = Rejected
  Statements <- MCStatements
  Schemas <- MCSchemas
  FilterSets <- MCFilterSets
  Settings <- MCSettings
  Sizes = {0, 2, 4}
  MaxChanges = 1
  Timeout = 2
  MaxRows = 2
  MaxSize = 4
  MaxWait = 3
  MaxTime = 6
  Streams = {s1}
  MaxRetries = 2
  MaxBacklog = 20
  Fields = {api_port, db_path}
  Unknown = {other}
INVARIANTS
  ApprovalAgrees FiltersKept
  NothingLeftOpen OutcomeIsTrue
  EndsAsItSays
  LastCapitalWins
  RunnerEndsWell
PROPERTIES
  CallEnds StreamsEnd OneDownAllDown
