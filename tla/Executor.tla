------------------------------ MODULE Executor ------------------------------
(***************************************************************************)
(* execute_readonly and explain_readonly (src/src/db/executor.py) on a     *)
(* connection of create_connection (src/src/db/connectors.py): the life of *)
(* one connection, from the target to the close in finally, while the      *)
(* database works for as long as it likes and fails whenever it likes.     *)
(*                                                                         *)
(* Time is a counter: a statement has passed its limit when more than      *)
(* Timeout of it went by.  SQLite asks the progress handler, PostgreSQL    *)
(* and MySQL keep the limit the session was given.                         *)
(***************************************************************************)
EXTENDS Naturals

CONSTANTS
  Timeout,  \* timeout_seconds
  MaxRows,  \* max_rows
  MaxSize,  \* bound: rows the statement finds
  MaxWait,  \* bound: the clock while the call connects
  MaxTime,  \* bound: the clock
  None

BoundsAssumption ==
  /\ {Timeout, MaxRows} \subseteq Nat \ {0}
  /\ MaxSize \in Nat
  /\ {MaxWait, MaxTime} \subseteq Nat
  /\ MaxTime > MaxWait + Timeout
  /\ None \notin Nat \cup {"rows", "timeout", "failed", "escaped"}

VARIABLES
  kind,      \* "execute" or "explain"; None before the call
  target,    \* what the database target names
  driver,    \* the driver of the target is installed
  pc,        \* "idle", "connect", "session", "send", "work", "fetch", "close", "over"
  conn,      \* "none", "open" or "closed"
  limit,     \* when the database aborts the statement; None: never
  size,      \* rows the statement finds; of no meaning for EXPLAIN
  outcome,   \* "rows", "timeout", "failed" (QueryExecutionError), "escaped" or None
  named,     \* history variable: an error that was not the limit named one
  rows,      \* rows of the result
  truncated,
  now,
  start      \* when the call began

call == <<kind, target, driver, size, start>>
result == <<named, rows, truncated>>
vars == <<call, pc, conn, limit, outcome, result, now>>

Servers == {"postgresql", "mysql"}
Targets == {"sqlite", "unsupported"} \cup Servers

Init ==
  /\ kind = None /\ target = None
  /\ driver = FALSE
  /\ size = 0
  /\ pc = "idle"
  /\ conn = "none"
  /\ limit = None
  /\ outcome = None
  /\ named = FALSE
  /\ rows = 0
  /\ truncated = FALSE
  /\ now = 0 /\ start = 0

-----------------------------------------------------------------------------
(* The service calls execute_readonly or explain_readonly. *)
Call ==
  /\ pc = "idle"
  /\ pc' = "connect"
  /\ kind' \in {"execute", "explain"}
  /\ target' \in Targets
  /\ driver' \in BOOLEAN
  /\ size' \in 0..MaxSize
  /\ now' \in 0..1 /\ start' = now'
  /\ UNCHANGED <<conn, limit, outcome, result>>

Tick ==
  /\ \/ pc \in {"connect", "session"} /\ now < MaxWait
     \/ pc \in {"work", "fetch"} /\ now < MaxTime
  /\ now' = now + 1
  /\ UNCHANGED <<call, pc, conn, limit, outcome, result>>

(* DatabaseConnectorError becomes QueryExecutionError. *)
CannotConnect ==
  /\ pc = "connect"
  /\ target = "unsupported" \/ (target \in Servers /\ ~driver)
  /\ outcome' = "failed"
  /\ pc' = "over"
  /\ UNCHANGED <<call, conn, limit, result, now>>

Reachable == pc = "connect" /\ (target = "sqlite" \/ (target \in Servers /\ driver))

(* sqlite3.connect, psycopg.connect or pymysql.connect raises: nothing     *)
(* catches that, and there is no connection to close.                      *)
ConnectRaises ==
  /\ Reachable
  /\ outcome' = "escaped"
  /\ pc' = "over"
  /\ UNCHANGED <<call, conn, limit, result, now>>

(* An SQLite file is opened with mode=ro, so that no session is set up. *)
Connect ==
  /\ Reachable
  /\ conn' = "open"
  /\ pc' = IF target = "sqlite" THEN "send" ELSE "session"
  /\ UNCHANGED <<call, limit, outcome, result, now>>

(* The two SET statements: the session is read-only and has a time limit. *)
SetUp ==
  /\ pc = "session"
  /\ pc' = "send"
  /\ UNCHANGED <<call, conn, limit, outcome, result, now>>

(* Mutant of LimitOf: SQLite gets no handler. *)
LimitOfServers == IF target \in Servers THEN now + Timeout ELSE None

(* deadline = start + timeout_seconds of the progress handler, which       *)
(* explain_readonly does not have; a server counts from the statement on.  *)
LimitOf ==
  IF target \in Servers THEN now + Timeout
  ELSE IF kind = "execute" THEN start + Timeout ELSE None

Send ==
  /\ pc = "send"
  /\ limit' = LimitOf
  /\ pc' = "work"
  /\ UNCHANGED <<call, conn, outcome, result, now>>

(* The database has the statement's rows, or the first of them. *)
Found ==
  /\ pc = "work"
  /\ pc' = "fetch"
  /\ UNCHANGED <<call, conn, limit, outcome, result, now>>

-----------------------------------------------------------------------------
Smaller(m, n) == IF m < n THEN m ELSE n

(* Mutant of Fetched: as many rows as are wanted, and no more. *)
FetchedWanted == Smaller(size, MaxRows)

(* cursor.fetchmany(max_rows + 1) *)
Fetched == Smaller(size, MaxRows + 1)

Fetch ==
  /\ pc = "fetch"
  /\ outcome' = "rows"
  /\ IF kind = "execute"
     THEN /\ rows' = Smaller(Fetched, MaxRows) /\ truncated' = (Fetched > MaxRows)
          /\ UNCHANGED named
     ELSE UNCHANGED result  \* the plan: fetchall
  /\ pc' = "close"
  /\ UNCHANGED <<call, conn, limit, now>>

PastLimit == limit # None /\ now > limit

(* The statement is aborted.  SQLite says "interrupted" and PostgreSQL     *)
(* "statement timeout"; MySQL's words are none of those looked for, and    *)
(* explain_readonly looks for none.                                        *)
Abort ==
  /\ pc = "work" \/ (pc = "fetch" /\ target = "sqlite")
  /\ PastLimit
  /\ outcome' = IF kind = "execute" /\ target # "mysql" THEN "timeout" ELSE "failed"
  /\ pc' = "close"
  /\ UNCHANGED <<call, conn, limit, result, now>>

(* execute_readonly takes an error for a timeout by its text, which may    *)
(* name one for another reason: a lock timeout, or a column "timeout" that *)
(* does not exist.                                                         *)
ByText(names) == IF kind = "execute" /\ names THEN "timeout" ELSE "failed"

(* Mutant of Fail: the session is set up before the try. *)
FailAtOnce ==
  /\ pc \in {"session", "work", "fetch"}
  /\ named' \in BOOLEAN
  /\ outcome' = ByText(named')
  /\ pc' = IF pc = "session" THEN "over" ELSE "close"
  /\ UNCHANGED <<call, conn, limit, rows, truncated, now>>

(* A statement of the session or the statement itself raises, or a row     *)
(* cannot be fetched.                                                      *)
Fail ==
  /\ pc \in {"session", "work", "fetch"}
  /\ named' \in BOOLEAN
  /\ outcome' = ByText(named')
  /\ pc' = "close"
  /\ UNCHANGED <<call, conn, limit, rows, truncated, now>>

(* finally: conn.close() *)
Close ==
  /\ pc = "close"
  /\ conn' = "closed"
  /\ pc' = "over"
  /\ UNCHANGED <<call, limit, outcome, result, now>>

Over == pc = "over" /\ UNCHANGED vars

Client == CannotConnect \/ Connect \/ SetUp \/ Send \/ Close

Next == Call \/ Tick \/ Client \/ Fetch \/ ConnectRaises \/ Found \/ Abort \/ Fail \/ Over

Spec == Init /\ [][Next]_vars

(* The client goes on, time passes, a limit that has passed is enforced,   *)
(* and a plan is made: EXPLAIN does not run its statement.  The rows of a  *)
(* server are here before they are fetched.  No other statement has to     *)
(* come to an end by itself; SQLite looks for the next row as it fetches.  *)
Fairness ==
  /\ WF_vars(Client)
  /\ WF_vars(Tick)
  /\ WF_vars(Abort)
  /\ WF_vars(kind = "explain" /\ Found)
  /\ WF_vars((kind = "explain" \/ target # "sqlite") /\ Fetch)

FairSpec == Spec /\ Fairness

-----------------------------------------------------------------------------
(* However a call ends, it leaves no connection open, and only a call that *)
(* never had one lets an error other than QueryExecutionError through.     *)
NothingLeftOpen ==
  /\ pc = "over" => conn # "open"
  /\ outcome = "escaped" => conn = "none"

(* The rows are the first MaxRows, and truncated says whether there were   *)
(* more: the caller cannot tell otherwise.                                 *)
ResultIsHonest ==
  (kind = "execute" /\ outcome = "rows") =>
    rows = Smaller(size, MaxRows) /\ (truncated <=> size > rows)

(* A timeout is reported to a caller who waited less than Timeout only if  *)
(* the database raised an error whose text names one.                      *)
TimeoutIsDue == (outcome = "timeout" /\ ~named) => now > start + Timeout

(* What a call reports is true, but for an error that names a timeout. *)
OutcomeIsTrue == ResultIsHonest /\ TimeoutIsDue

(* Every call ends, although the database may never finish a statement. *)
CallEnds == pc = "connect" ~> pc = "over"
=============================================================================
