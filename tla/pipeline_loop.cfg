SPECIFICATION Spec
CONSTANTS
  alice = alice
  bob = bob
  x = x
  sales = sales
  shop = shop
  Colon = Colon
  Characters <- MCCharacters
  Users <- TwoUsers
  Questions <- OneQuestion
  Databases <- OneDatabase
  Asked <- Everything
  Loop = loop
  Streams = {}
  MaxRetries = 1
  MaxCacheEntries = 1
  MaxHistoryEntries = 2
  ConversationLimit = 1
  CacheEnabled = TRUE
  RateLimited = TRUE
  NoCall = NoCall
  MaxCalls = 3
  MaxCrashes = 1
SYMMETRY UserSymmetry
INVARIANTS RanIsValidated MetricsBalance MemoryMirrorsAudit
CHECK_DEADLOCK FALSE
