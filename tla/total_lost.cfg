SPECIFICATION Spec
CONSTANTS
  alice = alice
  bob = bob
  x = x
  sales = sales
  shop = shop
  Colon = Colon
  Characters <- MCCharacters
  Users <- OneUser
  Questions <- OneQuestion
  Databases <- OneDatabase
  Asked <- Everything
  Loop = loop
  Streams = {stream}
  MaxRetries = 0
  MaxCacheEntries = 1
  MaxHistoryEntries = 1
  ConversationLimit = 1
  CacheEnabled = TRUE
  RateLimited = FALSE
  NoCall = NoCall
  MaxCalls = 2
  MaxCrashes = 0
INVARIANTS TotalIsHandled
CHECK_DEADLOCK FALSE
