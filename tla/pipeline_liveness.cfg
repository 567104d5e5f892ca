SPECIFICATION FairSpec
CONSTANTS
  alice = alice
  bob = bob
  x = x
  sales = sales
  shop = shop
  Colon = Colon
  Characters <- MCCharacters
  Users <- OneUser
  Questions <- OneQuestion
  Databases <- OneDatabase
  Asked <- Everything
  Loop = loop
  Streams = {stream}
  MaxRetries = 1
  MaxCacheEntries = 1
  MaxHistoryEntries = 1
  ConversationLimit = 1
  CacheEnabled = TRUE
  RateLimited = TRUE
  NoCall = NoCall
  MaxCalls = 2
  MaxCrashes = 0
PROPERTIES CallsEnd
CHECK_DEADLOCK FALSE
