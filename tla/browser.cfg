SPECIFICATION BrowserSpec
CONSTANTS
  Questions = {q1, q2}
  MaxPreviews = 3
  MaxFaults = 1
  None = None
  Tabs = {t1, t2}
  Names = {n1, n2}
  MaxSaves = 4
  NotOpen = NotOpen
  Streams = {s1, s2}
  MaxRetries = 0
  MaxBacklog = 3
INVARIANTS
  TypesOK ExecutedWasPreviewed ExecutedOnce
  SavesAreKept HeardInOrder
CHECK_DEADLOCK FALSE
