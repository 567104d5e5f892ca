------------------------------ MODULE MCMemory ------------------------------
(***************************************************************************)
(* The four stores the service keeps, on small instances: the result cache *)
(* (module ResultCache), the histories, the schema cache and the audit     *)
(* file.  They share no variable, so that the behaviours of each are those *)
(* in which it alone is used: part says which one.  The cache is used      *)
(* twice: by overlapping calls, and by calls that come one at a time, with *)
(* a bound of its own.                                                     *)
(***************************************************************************)
EXTENDS ResultCache

CONSTANTS
  AloneEntries,  \* max_cache_entries for the calls that come one at a time
  HistoryCalls, Users, MaxHistoryEntries, ConversationLimit, HistoryActive, NoList,
  SchemaCalls, Tables, HasMtime, MaxChanges, None,
  Records, Limit, MaxShort

VARIABLES
  part,
  historyPc, who, history, own, conversation, heap, mine, log, turns, mixed,
  schemaPc, database, mtime, cache, seen, left, schema, atStart,
  auditPc, auditLog, file, short

Alone == INSTANCE ResultCache WITH MaxEntries <- AloneEntries, MaxActive <- 1

History == INSTANCE HistoryStore WITH
  Calls <- HistoryCalls, MaxActive <- HistoryActive, pc <- historyPc

Schema == INSTANCE SchemaCache WITH Calls <- SchemaCalls, pc <- schemaPc

Audit == INSTANCE AuditLog WITH pc <- auditPc, log <- auditLog

ASSUME PartsAssumption ==
  /\ Alone!BoundsAssumption /\ History!BoundsAssumption
  /\ Schema!TargetAssumption /\ Audit!BoundsAssumption

Parts == {"cache", "cacheAlone", "history", "schema", "audit"}

(* The calls of a store that is not used have some key, or user. *)
Any(set) == CHOOSE x \in set : TRUE

MemoryInit ==
  /\ part \in Parts
  /\ Init
  /\ part \notin {"cache", "cacheAlone"} => key = [c \in Calls |-> Any(Keys)]
  /\ History!Init
  /\ part # "history" => who = [c \in HistoryCalls |-> Any(Users)]
  /\ Schema!Init
  /\ Audit!Init

historyVars == <<historyPc, who, history, own, conversation, heap, mine, log, turns, mixed>>
schemaVars == <<schemaPc, database, mtime, cache, seen, left, schema, atStart>>
auditVars == <<auditPc, auditLog, file, short>>

MemoryNext ==
  /\ UNCHANGED part
  /\ \/ part = "cache" /\ Next /\ UNCHANGED <<historyVars, schemaVars, auditVars>>
     \/ part = "cacheAlone" /\ Alone!Next /\ UNCHANGED <<historyVars, schemaVars, auditVars>>
     \/ part = "history" /\ History!Next /\ UNCHANGED <<vars, schemaVars, auditVars>>
     \/ part = "schema" /\ Schema!Next /\ UNCHANGED <<vars, historyVars, auditVars>>
     \/ part = "audit" /\ Audit!Next /\ UNCHANGED <<vars, historyVars, schemaVars>>

memoryVars == <<part, vars, historyVars, schemaVars, auditVars>>

MemorySpec == MemoryInit /\ [][MemoryNext]_memoryVars

-----------------------------------------------------------------------------
(* Every variable of the cache and of the histories holds values of its    *)
(* kind.                                                                   *)
TypesOK == TypeOK /\ History!TypeOK

(* For calls that come one at a time the cache is an LruCache, and no call *)
(* fails in it: the sweep does not disturb itself, and an eviction finds   *)
(* something to evict.                                                     *)
AloneIsLru ==
  /\ Alone!Lru!Init
  /\ [][part = "cacheAlone" => [Alone!Lru!Next]_(Alone!Lru!vars)]_memoryVars
  /\ [](part = "cacheAlone" => Alone!LoopNeverFails)

(* However the calls interleave, each list is back within its bound once   *)
(* the calls that appended to it have measured it.                         *)
BoundedAtRest == History!BoundedAtRest

(* However the calls interleave, self.history is a RecentLog.              *)
ImplementsRecentLog == History!ImplementsRecentLog

(* The lists of a user whose own calls did not overlap are exact windows.  *)
UsersDoNotInterfere == History!UsersDoNotInterfere

(* For a database that is a file: the schema a call returns is at least as *)
(* new as the database was when the call began, and a cached schema under  *)
(* the present modification time is the present one.  A URL has no         *)
(* modification time, and nothing is said of it.                           *)
SchemaIsCurrent == Schema!SchemaIsCurrent

(* recent() returns the youngest records as long as all were written at    *)
(* once, and a torn record spoils at most one other.                       *)
AuditIsReadable == Audit!AuditIsReadable
=============================================================================
