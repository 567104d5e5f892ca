SPECIFICATION Spec
CONSTANTS
  alice = alice
  bob = bob
  x = x
  sales = sales
  shop = shop
  Colon = Colon
  Characters <- MCCharacters
  Users <- MistakenUsers
  Questions <- MistakenQuestions
  Databases <- OneDatabase
  Asked <- Mistaken
  Loop = loop
  Streams = {stream}
  MaxRetries = 1
  MaxCacheEntries = 1
  MaxHistoryEntries = 1
  ConversationLimit = 1
  CacheEnabled = TRUE
  RateLimited = TRUE
  NoCall = NoCall
  MaxCalls = 2
  MaxCrashes = 1
INVARIANTS TypeOK ReplyIsAudited HistoryIsAudited ContextIsOwn CacheProvenance MetricsNeverOvercount
CHECK_DEADLOCK FALSE
