----------------------------- MODULE SchemaCache ----------------------------
(***************************************************************************)
(* get_allowed_schema (src/src/services/text2sql_service.py) and           *)
(* get_schema (src/src/db/schema.py): the schema of a database, cached     *)
(* under the modification time of its file, while other programs change    *)
(* the database.                                                           *)
(*                                                                         *)
(* A table is known by how often it was changed; 0 says that it does not   *)
(* exist yet.  get_schema reads the list of tables and then the columns of *)
(* each, and the database may change in between.                           *)
(***************************************************************************)
EXTENDS Naturals, FiniteSets

CONSTANTS
  Calls, Tables,
  HasMtime,    \* the target is a path; a URL has no modification time
  MaxChanges,  \* bound: changes of the database
  None

TargetAssumption == HasMtime \in BOOLEAN /\ MaxChanges \in Nat

VARIABLES
  database,  \* the tables
  mtime,     \* of the file; assumed: every change gives it another one
  cache,     \* self._schema_cache of the target: mtime and schema, or None
  pc,        \* per call: "new", "cached", "tables", "columns", "store", ...
  seen,      \* per call: mtime, None if os.path.getmtime failed
  left,      \* per call: tables it has still to read
  schema,    \* per call: what it has read, or found in the cache
  atStart    \* history variable, per call: the database when it began

reading == <<seen, left, schema>>
vars == <<database, mtime, cache, pc, reading, atStart>>

Schemas == [Tables -> 0..MaxChanges]
NoTables == [t \in Tables |-> 0]

Init ==
  /\ database = NoTables
  /\ mtime = 0
  /\ cache = None
  /\ pc = [c \in Calls |-> "new"]
  /\ seen = [c \in Calls |-> None]
  /\ left = [c \in Calls |-> {}]
  /\ schema = [c \in Calls |-> NoTables]
  /\ atStart = [c \in Calls |-> NoTables]

-----------------------------------------------------------------------------
(* CREATE TABLE or ALTER TABLE by another program. *)
Change(t) ==
  /\ mtime < MaxChanges
  /\ mtime' = mtime + 1
  /\ database' = [database EXCEPT ![t] = @ + 1]
  /\ UNCHANGED <<cache, pc, reading, atStart>>

At(c, here, next) == pc[c] = here /\ pc' = [pc EXCEPT ![c] = next]

Mtime == IF HasMtime THEN mtime ELSE None

(* os.path.getmtime *)
Stat(c) ==
  /\ At(c, "new", "cached")
  /\ seen' = [seen EXCEPT ![c] = Mtime]
  /\ atStart' = [atStart EXCEPT ![c] = database]
  /\ UNCHANGED <<database, mtime, cache, left, schema>>

(* cached and cached.get("mtime") == mtime *)
Fits(c) == cache # None /\ cache.mtime = seen[c]

Hit(c) ==
  /\ At(c, "cached", "returned")
  /\ Fits(c)
  /\ schema' = [schema EXCEPT ![c] = cache.schema]
  /\ UNCHANGED <<database, mtime, cache, seen, left, atStart>>

Miss(c) ==
  /\ At(c, "cached", "tables")
  /\ ~Fits(c)
  /\ UNCHANGED <<database, mtime, cache, reading, atStart>>

ReadTables(c) ==
  /\ At(c, "tables", "columns")
  /\ left' = [left EXCEPT ![c] = {t \in Tables : database[t] > 0}]
  /\ UNCHANGED <<database, mtime, cache, seen, schema, atStart>>

ReadColumns(c) ==
  /\ pc[c] = "columns"
  /\ \E t \in left[c] :
       /\ schema' = [schema EXCEPT ![c][t] = database[t]]
       /\ left' = [left EXCEPT ![c] = @ \ {t}]
  /\ UNCHANGED <<database, mtime, cache, pc, seen, atStart>>

AllRead(c) ==
  /\ At(c, "columns", "store")
  /\ left[c] = {}
  /\ UNCHANGED <<database, mtime, cache, reading, atStart>>

(* The database cannot be reached or read: nothing is stored. *)
Fail(c) ==
  /\ At(c, "tables", "failed") \/ At(c, "columns", "failed")
  /\ left' = [left EXCEPT ![c] = {}]
  /\ UNCHANGED <<database, mtime, cache, seen, schema, atStart>>

(* Mutant of Store: the time is taken after the schema was read. *)
StoreLate(c) ==
  /\ At(c, "store", "returned")
  /\ cache' = [mtime |-> Mtime, schema |-> schema[c]]
  /\ UNCHANGED <<database, mtime, reading, atStart>>

Store(c) ==
  /\ At(c, "store", "returned")
  /\ cache' = [mtime |-> seen[c], schema |-> schema[c]]
  /\ UNCHANGED <<database, mtime, reading, atStart>>

Step(c) ==
  \/ Stat(c) \/ Hit(c) \/ Miss(c) \/ ReadTables(c) \/ ReadColumns(c)
  \/ AllRead(c) \/ Fail(c) \/ Store(c)

Next == (\E c \in Calls : Step(c)) \/ \E t \in Tables : Change(t)

Spec == Init /\ [][Next]_vars

-----------------------------------------------------------------------------
(* s is at least as new as r, table by table. *)
NotOlder(s, r) == \A t \in Tables : s[t] >= r[t]

(* The schema a call of a database file returns is, table by table, at     *)
(* least as new as the database was when the call began: whoever stored it *)
(* and whatever was changed while they read.  This is why the time has to  *)
(* be taken before the schema.                                             *)
NotOutdated ==
  HasMtime => \A c \in Calls : pc[c] = "returned" => NotOlder(schema[c], atStart[c])

(* An entry under the time the file has now holds the schema the database  *)
(* has now, although it was read table by table while others wrote: the    *)
(* next call may take it for granted.                                      *)
CurrentIsExact == (cache # None /\ HasMtime) => (cache.mtime = mtime => cache.schema = database)

SchemaIsCurrent == NotOutdated /\ CurrentIsExact
=============================================================================
