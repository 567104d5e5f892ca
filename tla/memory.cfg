SPECIFICATION MemorySpec
CONSTANTS
  Calls = {c1, c2, c3}
  Keys = {k1, k2, k3}
  CacheEnabled = TRUE
  Ttl = 1
  MaxEntries = 1
  MaxActive = 2
  MaxTime = 2
  NoCall = NoCall
  AloneEntries = 2
  HistoryCalls = {h1, h2, h3}
  Users = {u1, u2}
  MaxHistoryEntries = 1
  ConversationLimit = 1
  HistoryActive = 2
  SchemaCalls = {s1, s2, s3}
  Tables = {t1, t2}
  HasMtime = TRUE
  MaxChanges = 2
  Records = {r1, r2, r3, r4, r5}
  Limit = 2
  MaxShort = 2
  NoList = NoList
  None = None
INVARIANTS
  TypesOK HitIsFresh SizeBound
  BoundedAtRest UsersDoNotInterfere
  SchemaIsCurrent AuditIsReadable
PROPERTIES
  AloneIsLru ImplementsRecentLog
CHECK_DEADLOCK FALSE
